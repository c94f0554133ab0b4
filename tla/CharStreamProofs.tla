-------------------------- MODULE CharStreamProofs --------------------------
(***************************************************************************)
(* CharStream implements PushbackStream, for all files.                    *)
(*                                                                         *)
(* The inductive invariant says where the next characters of the file are: *)
(* in the look-ahead, then in the queue, then in the unread lines.         *)
(***************************************************************************)
EXTENDS CharStream, FiniteSetTheorems, WellFoundedInduction, TLAPS

EndOf(f) == Located(f, Len(f) + 1)

\* Position n is where a line begins.
AtLineStart(f, n) == n = 0 \/ f[n] = Newline

\* The line counters are those of the line read last, whose newline ends what
\* has been read, or at the end of the file the location of that end.
HandlerOK(h, f) ==
  /\ h \in [read : 0..Len(f), eof : BOOLEAN, char_stream : Seq(LocatedChars),
            line_num : Nat, column_num : Nat \ {0}, eof_char : {UninitializedEof, EndOf(f)}]
  /\ h.eof => /\ h.read = Len(f)
              /\ h.line_num > 0
              /\ LocatedChar(Eof, h.line_num, h.column_num) = EndOf(f)
  /\ ~h.eof => /\ h.eof_char = UninitializedEof
               /\ h.line_num = Cardinality(NewlinesBefore(f, h.read + 1))
               /\ AtLineStart(f, h.read)

\* The queue holds the last characters that were read.
QueueOK(h, f) ==
  /\ Len(h.char_stream) <= h.read
  /\ \A i \in 1..Len(h.char_stream) :
       h.char_stream[i] = Located(f, h.read - Len(h.char_stream) + i)

\* The look-ahead is a character of the file, followed by the queue.
InFile(h, c, f) ==
  /\ QueueOK(h, f)
  /\ Len(h.char_stream) < h.read
  /\ c = Located(f, h.read - Len(h.char_stream))

\* The look-ahead is the last character, and the end of the file was put back.
BeforeEnd(h, c, f) ==
  /\ h.eof_char = EndOf(f)
  /\ h.char_stream = <<EndOf(f)>>
  /\ f # <<>>
  /\ c = Located(f, Len(f))

\* The look-ahead is the end of the file.
AtEnd(h, c, f) ==
  /\ h.eof_char = EndOf(f)
  /\ h.char_stream \in {<<>>, <<EndOf(f)>>}
  /\ c = EndOf(f)

StreamOK(h, c, f) ==
  /\ HandlerOK(h, f)
  /\ c \in LocatedChars
  /\ InFile(h, c, f) \/ BeforeEnd(h, c, f) \/ AtEnd(h, c, f)

\* The state of the stream that was read last: nothing is put back.
Fresh(h, c, f) ==
  /\ InFile(h, c, f) \/ AtEnd(h, c, f)
  /\ h.char_stream # <<EndOf(f)>>

\* What was delivered last is the character before the look-ahead.
GotOK(h, c, g, f) ==
  \/ g = <<>>
  \/ /\ Fresh(h, c, f)
     /\ \/ PositionOf(h, c, f) >= 1 /\ g = <<Located(f, PositionOf(h, c, f))>>
        \/ g = <<EndOf(f)>> /\ AtEnd(h, c, f)

IInv ==
  /\ file \in File
  /\ StreamOK(handler, next_char, file)
  /\ GotOK(handler, next_char, got, file)
  /\ got \in Seq(LocatedChars)
  /\ skipping \in BOOLEAN

-----------------------------------------------------------------------------
(* Lines.                                                                  *)

\* A non-empty set of natural numbers has a least element.
LEMMA Least ==
  ASSUME NEW S \in SUBSET Nat, S # {}
  PROVE  \E m \in S : \A k \in S : m <= k
<1> DEFINE R == OpToRel(<, Nat)
<1>1. \E x \in S : \A y \in S : ~ (<<y, x>> \in R)
  <2> HIDE DEF R
  <2>1. IsWellFoundedOn(R, Nat)
    BY NatLessThanWellFounded DEF R
  <2> QED BY <2>1, WFMin
<1>2. \A x, y \in Nat : <<y, x>> \in R <=> y < x
  BY DEF OpToRel
<1> HIDE DEF R
<1>3. PICK x \in S : \A y \in S : ~ (<<y, x>> \in R)
  BY <1>1
<1>4. \A y \in S : x <= y
  <2> TAKE y \in S
  <2>1. x \in Nat /\ y \in Nat /\ ~(y < x)
    BY <1>2, <1>3
  <2> QED BY <2>1
<1> QED BY <1>4

\* A line ends at its first newline, or at the end of the file.
LEMMA LineEnds ==
  ASSUME NEW f \in Seq(Char), NEW n \in 0..Len(f)
  PROVE  /\ LineEnd(f, n) \in n..Len(f)
         /\ Newlines(f, n) = {} =>
              LineEnd(f, n) = Len(f) /\ \A k \in (n + 1)..Len(f) : f[k] # Newline
         /\ Newlines(f, n) # {} =>
              /\ LineEnd(f, n) > n
              /\ f[LineEnd(f, n)] = Newline
              /\ \A k \in (n + 1)..(LineEnd(f, n) - 1) : f[k] # Newline
<1>1. CASE Newlines(f, n) = {}
  BY <1>1 DEF LineEnd, Newlines
<1>2. CASE Newlines(f, n) # {}
  <2> DEFINE e == LineEnd(f, n)
             S == Newlines(f, n)
  <2>1. S \in SUBSET Nat
    BY DEF Newlines
  <2>2. \E j \in S : \A k \in S : j <= k
    <3> HIDE DEF S
    <3> QED BY <1>2, <2>1, Least DEF S
  <2>3. e \in S /\ \A k \in S : e <= k
    BY <1>2, <2>2 DEF LineEnd
  <2>4. e \in (n + 1)..Len(f) /\ f[e] = Newline
    BY <2>3 DEF Newlines
  <2>5. ASSUME NEW k \in (n + 1)..(e - 1), f[k] = Newline
        PROVE  FALSE
    <3> HIDE DEF e
    <3>1. k \in (n + 1)..Len(f) /\ e \in Int /\ k < e
      BY <2>4
    <3>2. k \in S
      BY <3>1, <2>5 DEF Newlines
    <3> QED BY <2>3, <3>1, <3>2
  <2> QED BY <1>2, <2>4, <2>5
<1> QED BY <1>1, <1>2

\* The newlines before a position can be counted.
LEMMA NewlinesFinite ==
  ASSUME NEW f, NEW i \in Nat
  PROVE  /\ IsFiniteSet(NewlinesBefore(f, i))
         /\ Cardinality(NewlinesBefore(f, i)) \in Nat
<1>1. IsFiniteSet(1..(i - 1))
  BY FS_Interval
<1>2. NewlinesBefore(f, i) \subseteq 1..(i - 1)
  BY DEF NewlinesBefore
<1> QED BY <1>1, <1>2, FS_Subset, FS_CardinalityType

\* The characters of a line have one line number, and count from its start.
LEMMA SameLine ==
  ASSUME NEW f \in Seq(Char), NEW n \in 0..Len(f), AtLineStart(f, n),
         NEW m \in (n + 1)..(Len(f) + 1), \A k \in (n + 1)..(m - 1) : f[k] # Newline
  PROVE  Line(f, m) = Cardinality(NewlinesBefore(f, n + 1)) + 1 /\ Column(f, m) = m - n
<1>1. NewlinesBefore(f, m) = NewlinesBefore(f, n + 1)
  BY DEF NewlinesBefore
<1>2. \A k \in NewlinesBefore(f, m) : k \in Nat /\ k <= n
  BY <1>1 DEF NewlinesBefore
<1>3. n \in NewlinesBefore(f, m) \cup {0}
  BY <1>1 DEF NewlinesBefore, AtLineStart
<1>4. LineStart(f, m) = n
  <2>1. \A j \in NewlinesBefore(f, m) \cup {0} :
          (\A k \in NewlinesBefore(f, m) : k <= j) <=> j = n
    BY <1>2, <1>3
  <2> QED BY <1>3, <2>1 DEF LineStart
<1> QED BY <1>1, <1>4 DEF Line, Column

\* Behind the newline of a line is one newline more.
LEMMA NextLineCount ==
  ASSUME NEW f \in Seq(Char), NEW n \in 0..Len(f), NEW m \in (n + 1)..Len(f),
         f[m] = Newline, \A k \in (n + 1)..(m - 1) : f[k] # Newline
  PROVE  Cardinality(NewlinesBefore(f, m + 1)) = Cardinality(NewlinesBefore(f, n + 1)) + 1
<1>1. NewlinesBefore(f, m + 1) = NewlinesBefore(f, n + 1) \cup {m}
  BY DEF NewlinesBefore
<1>2. m \notin NewlinesBefore(f, n + 1)
  BY DEF NewlinesBefore
<1>3. IsFiniteSet(NewlinesBefore(f, n + 1))
  BY NewlinesFinite
<1> QED BY <1>1, <1>2, <1>3, FS_AddElement

-----------------------------------------------------------------------------
(* The input handler.                                                      *)

\* The location of a character of the file shows that it is not the end.
LEMMA CharacterOf ==
  ASSUME NEW f \in Seq(Char), NEW i \in 1..Len(f)
  PROVE  Located(f, i).character \in Char /\ Located(f, i).character # Eof
         /\ EndOf(f).character = Eof
BY CharAssumption DEF Located, LocatedChar, EndOf

\* Reading a line into the empty queue keeps the invariant of the handler; the
\* queue holds what was read, and if that is nothing the file is at its end.
LEMMA Preload ==
  ASSUME NEW f \in Seq(Char), NEW h, HandlerOK(h, f), h.char_stream = <<>>, ~h.eof
  PROVE  LET p == PreloadNextLine(h, f)
         IN  /\ HandlerOK(p, f)
             /\ QueueOK(p, f)
             /\ p.read - Len(p.char_stream) = h.read
             /\ p.char_stream # <<>> \/ p.eof
<1> DEFINE p    == PreloadNextLine(h, f)
           n    == h.read
           last == LineEnd(f, n)
           line == [i \in 1..(last - n) |-> LocatedChar(f[n + i], h.line_num + 1, i)]
<1>1. /\ n \in 0..Len(f) /\ AtLineStart(f, n) /\ h.line_num \in Nat
      /\ h.line_num = Cardinality(NewlinesBefore(f, n + 1))
      /\ h.eof_char = UninitializedEof
  BY DEF HandlerOK
<1>2. /\ last \in n..Len(f)
      /\ Newlines(f, n) = {} => last = Len(f) /\ \A k \in (n + 1)..Len(f) : f[k] # Newline
      /\ Newlines(f, n) # {} => /\ last > n
                                /\ f[last] = Newline
                                /\ \A k \in (n + 1)..(last - 1) : f[k] # Newline
  BY <1>1, LineEnds
<1>3. line \in Seq(LocatedChars) /\ Len(line) = last - n
  <2>1. \A i \in 1..(last - n) : LocatedChar(f[n + i], h.line_num + 1, i) \in LocatedChars
    <3> TAKE i \in 1..(last - n)
    <3>1. n + i \in 1..Len(f)
      BY <1>1, <1>2
    <3>2. f[n + i] \in Char
      BY <3>1
    <3>3. h.line_num + 1 \in Nat \ {0} /\ i \in Nat \ {0}
      BY <1>1
    <3> QED BY <3>2, <3>3 DEF LocatedChar, LocatedChars
  <2>2. last - n \in Nat
    BY <1>1, <1>2
  <2> QED BY <2>1, <2>2
<1>4. p = [h EXCEPT !.read = last, !.eof = (Newlines(f, n) = {}), !.line_num = h.line_num + 1,
                    !.column_num = last - n + 1, !.char_stream = line]
  <2>1. h.char_stream \o line = line
    BY <1>3
  <2> QED BY <2>1 DEF PreloadNextLine, HandlerOK
<1>5. /\ p.read = last /\ p.eof = (Newlines(f, n) = {}) /\ p.line_num = h.line_num + 1
      /\ p.column_num = last - n + 1 /\ p.char_stream = line /\ p.eof_char = UninitializedEof
  BY <1>1, <1>4 DEF HandlerOK
<1> HIDE DEF p, last, line
<1>6. \A m \in (n + 1)..(last + 1) :
        (m <= last \/ Newlines(f, n) = {}) =>
          Line(f, m) = h.line_num + 1 /\ Column(f, m) = m - n
  <2> TAKE m \in (n + 1)..(last + 1)
  <2> HAVE m <= last \/ Newlines(f, n) = {}
  <2>1. m \in (n + 1)..(Len(f) + 1)
    BY <1>1, <1>2
  <2>2. \A k \in (n + 1)..(m - 1) : f[k] # Newline
    BY <1>1, <1>2
  <2> HIDE DEF n
  <2> QED BY <1>1, <2>1, <2>2, SameLine
<1>7. QueueOK(p, f)
  <2>1. ASSUME NEW i \in 1..(last - n)
        PROVE  line[i] = Located(f, n + i)
    <3>1. n + i \in (n + 1)..last /\ n + i <= Len(f)
      BY <1>1, <1>2
    <3>2. Line(f, n + i) = h.line_num + 1 /\ Column(f, n + i) = i
      BY <1>1, <1>2, <1>6, <3>1
    <3> QED BY <3>1, <3>2 DEF Located, line
  <2>2. last - Len(line) = n
    BY <1>1, <1>2, <1>3
  <2>3. Len(line) <= last
    BY <1>1, <1>2, <1>3
  <2>4. \A i \in 1..Len(line) : line[i] = Located(f, last - Len(line) + i)
    BY <1>3, <2>1, <2>2
  <2> QED BY ONLY <1>5, <2>3, <2>4 DEF QueueOK
<1>8. HandlerOK(p, f)
  <2>1. p \in [read : 0..Len(f), eof : BOOLEAN, char_stream : Seq(LocatedChars), line_num : Nat,
               column_num : Nat \ {0}, eof_char : {UninitializedEof, EndOf(f)}]
    <3>1. last \in 0..Len(f) /\ (Newlines(f, n) = {}) \in BOOLEAN
          /\ h.line_num + 1 \in Nat /\ last - n + 1 \in Nat \ {0}
      BY <1>1, <1>2
    <3> QED BY <1>3, <1>4, <3>1 DEF HandlerOK
  <2>2. ASSUME Newlines(f, n) = {}
        PROVE  /\ p.read = Len(f) /\ p.line_num > 0
               /\ LocatedChar(Eof, p.line_num, p.column_num) = EndOf(f)
    <3>1. last = Len(f)
      BY <1>2, <2>2
    <3>2. Line(f, last + 1) = h.line_num + 1 /\ Column(f, last + 1) = last + 1 - n
      BY <1>1, <1>2, <1>6, <2>2
    <3>3. last + 1 - n = last - n + 1
      BY <1>1, <1>2
    <3> QED BY <1>1, <1>5, <3>1, <3>2, <3>3 DEF EndOf, Located
  <2>3. ASSUME Newlines(f, n) # {}
        PROVE  /\ p.line_num = Cardinality(NewlinesBefore(f, p.read + 1))
               /\ AtLineStart(f, p.read)
    <3>1. last \in (n + 1)..Len(f)
      BY <1>1, <1>2, <2>3
    <3> HIDE DEF n
    <3>2. Cardinality(NewlinesBefore(f, last + 1)) = Cardinality(NewlinesBefore(f, n + 1)) + 1
      BY <1>1, <1>2, <2>3, <3>1, NextLineCount
    <3> QED BY <1>1, <1>2, <1>5, <2>3, <3>2 DEF AtLineStart
  <2> QED BY <1>5, <2>1, <2>2, <2>3 DEF HandlerOK
<1>9. p.char_stream # <<>> \/ p.eof
  <2>1. CASE Newlines(f, n) = {}
    BY <1>5, <2>1
  <2>2. CASE Newlines(f, n) # {}
    <3>1. Len(line) # 0
      BY <1>1, <1>2, <1>3, <2>2
    <3> QED BY <1>5, <3>1
  <2> QED BY <2>1, <2>2
<1>10. p.read - Len(p.char_stream) = h.read
  BY <1>1, <1>2, <1>3, <1>5
<1> QED BY <1>7, <1>8, <1>9, <1>10 DEF p

\* The end of the file is a character, whose location is that of no other and
\* not the one that stands for "not initialised".
LEMMA EndIsLocated ==
  ASSUME NEW f \in Seq(Char), NEW h, HandlerOK(h, f)
  PROVE  /\ h.eof_char \in {UninitializedEof, EndOf(f)}
         /\ h.eof_char = EndOf(f) => h.eof /\ h.eof_char # UninitializedEof
         /\ h.eof => EofChar(h) = EndOf(f) /\ EndOf(f) \in LocatedChars
<1>1. h.eof => EndOf(f) \in LocatedChars /\ EndOf(f) # UninitializedEof
               /\ EndOf(f) = LocatedChar(Eof, h.line_num, h.column_num)
  <2> HAVE h.eof
  <2>1. /\ LocatedChar(Eof, h.line_num, h.column_num) = EndOf(f)
        /\ h.line_num \in Nat \ {0} /\ h.column_num \in Nat \ {0}
    BY DEF HandlerOK
  <2>2. LocatedChar(Eof, h.line_num, h.column_num) \in LocatedChars
    BY ONLY <2>1 DEF LocatedChar, LocatedChars
  <2>3. LocatedChar(Eof, h.line_num, h.column_num).line # UninitializedEof.line
    BY ONLY <2>1 DEF LocatedChar, UninitializedEof
  <2> QED BY <2>1, <2>2, <2>3
<1>2. h.eof_char \in {UninitializedEof, EndOf(f)} /\ h.eof \in BOOLEAN
      /\ (~h.eof => h.eof_char = UninitializedEof)
  BY DEF HandlerOK
<1>3. EndOf(f).line >= 1
  <2>1. Cardinality(NewlinesBefore(f, Len(f) + 1)) \in Nat
    BY NewlinesFinite
  <2> QED BY <2>1 DEF EndOf, Located, LocatedChar, Line
<1>4. EndOf(f) # UninitializedEof
  BY <1>3 DEF UninitializedEof, LocatedChar
<1> QED BY <1>1, <1>2, <1>4 DEF EofChar

\* A look-ahead within the file: the position is what is neither in the queue
\* nor in the look-ahead.
LEMMA PositionInFile ==
  ASSUME NEW f \in Seq(Char), NEW h, NEW c, HandlerOK(h, f), InFile(h, c, f)
  PROVE  /\ PositionOf(h, c, f) = h.read - Len(h.char_stream) - 1
         /\ PositionOf(h, c, f) \in 0..(Len(f) - 1)
         /\ h.char_stream # <<EndOf(f)>>
<1>1. /\ h.read \in 0..Len(f) /\ Len(h.char_stream) \in Nat
      /\ Len(h.char_stream) < h.read
  BY DEF HandlerOK, InFile
<1>2. c.character # Eof
  BY <1>1, CharacterOf DEF InFile
<1>3. \A e : e.character = Eof => h.char_stream # <<e>>
  <2> SUFFICES ASSUME NEW e, e.character = Eof, h.char_stream = <<e>>
               PROVE  FALSE
    OBVIOUS
  <2>1. Len(h.char_stream) = 1 /\ h.char_stream[1] = e
    OBVIOUS
  <2>2. e = Located(f, h.read - 1 + 1)
    BY <2>1 DEF InFile, QueueOK
  <2>3. h.read - 1 + 1 \in 1..Len(f)
    BY <1>1
  <2> QED BY <2>2, <2>3, CharacterOf
<1>4. h.char_stream # <<h.eof_char>> /\ h.char_stream # <<EndOf(f)>>
  <2>1. h.eof_char.character = Eof /\ EndOf(f).character = Eof
    <3>1. EndOf(f).character = Eof
      BY DEF EndOf, Located, LocatedChar
    <3> QED BY <3>1 DEF HandlerOK, UninitializedEof, LocatedChar
  <2> QED BY <1>3, <2>1
<1> QED BY <1>1, <1>2, <1>4 DEF PositionOf, Queued

\* A look-ahead at the end of the file: all of the file is behind it.
LEMMA PositionAtEnd ==
  ASSUME NEW f \in Seq(Char), NEW h, NEW c, AtEnd(h, c, f)
  PROVE  PositionOf(h, c, f) = Len(f)
BY DEF AtEnd, PositionOf, EndOf, Located, LocatedChar

\* The look-ahead is the character the abstract stream delivers next.
LEMMA LookAhead ==
  ASSUME NEW f \in Seq(Char), NEW h, NEW c, StreamOK(h, c, f)
  PROVE  /\ PositionOf(h, c, f) \in 0..Len(f)
         /\ c = Located(f, PositionOf(h, c, f) + 1)
<1> DEFINE p == PositionOf(h, c, f)
<1>0. HandlerOK(h, f)
  BY DEF StreamOK
<1>1. CASE InFile(h, c, f)
  <2>1. p = h.read - Len(h.char_stream) - 1 /\ p \in 0..(Len(f) - 1)
    BY <1>0, <1>1, PositionInFile
  <2>2. h.read - Len(h.char_stream) = p + 1
    BY <1>0, <2>1 DEF HandlerOK
  <2> QED BY <1>1, <2>1, <2>2 DEF InFile
<1>2. CASE BeforeEnd(h, c, f)
  <2>1. Len(f) \in Nat \ {0}
    BY <1>2 DEF BeforeEnd
  <2>2. c.character # Eof
    BY <1>2, <2>1, CharacterOf DEF BeforeEnd
  <2>3. h.read = Len(f) /\ Queued(h) = 0
    BY <1>0, <1>2, EndIsLocated DEF HandlerOK, BeforeEnd, Queued
  <2>4. p = Len(f) - 1
    BY <2>1, <2>2, <2>3 DEF PositionOf
  <2> QED BY <1>2, <2>1, <2>4 DEF BeforeEnd
<1>3. CASE AtEnd(h, c, f)
  <2>1. p = Len(f)
    BY <1>3, PositionAtEnd
  <2> QED BY <1>3, <2>1 DEF AtEnd, EndOf
<1> QED BY <1>1, <1>2, <1>3 DEF StreamOK

-----------------------------------------------------------------------------
(* The operations of the stream.                                           *)

\* Taking the next character from a queue that is not empty, or at the end.
LEMMA Take ==
  ASSUME NEW f \in Seq(Char), NEW h, HandlerOK(h, f), QueueOK(h, f),
         h.char_stream # <<>> \/ h.eof
  PROVE  /\ StreamOK(RestOf(h), NextOf(h), f)
         /\ Fresh(RestOf(h), NextOf(h), f)
         /\ PositionOf(RestOf(h), NextOf(h), f) = h.read - Len(h.char_stream)
<1> DEFINE q == h.char_stream
           r == RestOf(h)
           c == NextOf(h)
<1>1. q \in Seq(LocatedChars) /\ h.read \in 0..Len(f)
  BY DEF HandlerOK
<1>2. CASE q # <<>>
  <2>1. r = [h EXCEPT !.char_stream = Tail(q)] /\ c = q[1]
    BY <1>2 DEF RestOf, NextOf
  <2>2. /\ Tail(q) \in Seq(LocatedChars) /\ Len(Tail(q)) = Len(q) - 1 /\ Len(q) \in Nat \ {0}
        /\ \A i \in 1..(Len(q) - 1) : Tail(q)[i] = q[i + 1]
        /\ q[1] \in LocatedChars
    BY <1>1, <1>2
  <2>3. /\ r.read = h.read /\ r.char_stream = Tail(q) /\ HandlerOK(r, f)
    BY <2>1, <2>2 DEF HandlerOK
  <2>4. Len(q) <= h.read /\ \A i \in 1..Len(q) : q[i] = Located(f, h.read - Len(q) + i)
    BY DEF QueueOK
  <2> HIDE DEF r, c, q
  <2>5. InFile(r, c, f)
    <3>1. \A i \in 1..Len(Tail(q)) : Tail(q)[i] = Located(f, h.read - Len(Tail(q)) + i)
      <4> TAKE i \in 1..Len(Tail(q))
      <4>1. i \in 1..(Len(q) - 1) /\ i + 1 \in 1..Len(q)
        BY <2>2
      <4>2. Tail(q)[i] = Located(f, h.read - Len(q) + (i + 1))
        BY <2>2, <2>4, <4>1
      <4>3. h.read - Len(q) + (i + 1) = h.read - Len(Tail(q)) + i
        BY <1>1, <2>2, <4>1
      <4> QED BY <4>2, <4>3
    <3>2. c = Located(f, h.read - Len(Tail(q)))
      <4>1. q[1] = Located(f, h.read - Len(q) + 1)
        BY <2>2, <2>4
      <4>2. h.read - Len(q) + 1 = h.read - Len(Tail(q))
        BY <1>1, <2>2
      <4> QED BY <2>1, <4>1, <4>2
    <3>3. Len(Tail(q)) < h.read
      BY <1>1, <2>2, <2>4
    <3> QED BY ONLY <1>1, <2>2, <2>3, <3>1, <3>2, <3>3 DEF InFile, QueueOK
  <2>6. PositionOf(r, c, f) = h.read - Len(q) /\ r.char_stream # <<EndOf(f)>>
    <3>1. PositionOf(r, c, f) = r.read - Len(r.char_stream) - 1 /\ r.char_stream # <<EndOf(f)>>
      BY <2>3, <2>5, PositionInFile
    <3> QED BY <1>1, <2>2, <2>3, <3>1
  <2>7. c \in LocatedChars
    BY <2>1, <2>2
  <2> QED BY <2>3, <2>5, <2>6, <2>7 DEF StreamOK, Fresh, r, c, q
<1>3. CASE q = <<>>
  <2>1. h.eof /\ EofChar(h) = EndOf(f) /\ EndOf(f) \in LocatedChars
    BY <1>3, EndIsLocated
  <2>2. r = [h EXCEPT !.eof_char = EndOf(f)] /\ c = EndOf(f)
    BY <1>3, <2>1 DEF RestOf, NextOf
  <2>3. HandlerOK(r, f) /\ r.eof_char = EndOf(f) /\ r.char_stream = <<>> /\ h.read = Len(f)
    BY <1>3, <2>1, <2>2 DEF HandlerOK
  <2> HIDE DEF r, c
  <2>4. AtEnd(r, c, f)
    BY <2>2, <2>3 DEF AtEnd
  <2>5. PositionOf(r, c, f) = Len(f)
    BY <2>4, PositionAtEnd
  <2>6. h.read - Len(q) = Len(f)
    BY <1>3, <2>3
  <2>7. r.char_stream # <<EndOf(f)>>
    BY <2>3
  <2> QED BY <2>1, <2>2, <2>3, <2>4, <2>5, <2>6, <2>7 DEF StreamOK, Fresh, r, c
<1> QED BY <1>2, <1>3

\* The look-ahead moves on by one character, or stays at the end of the file.
LEMMA Advances ==
  ASSUME NEW f \in Seq(Char), NEW h, NEW c, StreamOK(h, c, f)
  PROVE  LET r == RestOf(Fill(h, f))
             d == NextOf(Fill(h, f))
             p == PositionOf(h, c, f)
         IN  /\ StreamOK(r, d, f)
             /\ Fresh(r, d, f)
             /\ PositionOf(r, d, f) = IF p < Len(f) THEN p + 1 ELSE p
<1> DEFINE g == Fill(h, f)
           r == RestOf(g)
           d == NextOf(g)
           p == PositionOf(h, c, f)
<1>0. HandlerOK(h, f) /\ h.eof \in BOOLEAN
  BY DEF StreamOK, HandlerOK
<1>1. CASE InFile(h, c, f)
  <2>1. /\ HandlerOK(g, f) /\ QueueOK(g, f)
        /\ g.char_stream # <<>> \/ g.eof
        /\ g.read - Len(g.char_stream) = h.read - Len(h.char_stream)
    <3>1. CASE h.char_stream = <<>> /\ ~h.eof
      <4>1. g = PreloadNextLine(h, f)
        BY <3>1 DEF Fill
      <4>2. h.read - Len(h.char_stream) = h.read
        BY <1>0, <3>1 DEF HandlerOK
      <4> QED BY <1>0, <3>1, <4>1, <4>2, Preload
    <3>2. CASE ~(h.char_stream = <<>> /\ ~h.eof)
      BY <1>0, <1>1, <3>2 DEF Fill, InFile
    <3> QED BY <3>1, <3>2
  <2> HIDE DEF g
  <2>2. /\ StreamOK(r, d, f) /\ Fresh(r, d, f)
        /\ PositionOf(r, d, f) = g.read - Len(g.char_stream)
    BY <2>1, Take
  <2>3. p = h.read - Len(h.char_stream) - 1 /\ p \in 0..(Len(f) - 1)
    BY <1>0, <1>1, PositionInFile
  <2>4. h.read - Len(h.char_stream) = p + 1 /\ p < Len(f)
    BY <1>0, <2>3 DEF HandlerOK
  <2> QED BY <2>1, <2>2, <2>4 DEF g
<1>2. CASE BeforeEnd(h, c, f) \/ (AtEnd(h, c, f) /\ h.char_stream # <<>>)
  <2>1. h.char_stream = <<EndOf(f)>> /\ h.eof_char = EndOf(f) /\ h.eof
        /\ EndOf(f) \in LocatedChars
    BY <1>0, <1>2, EndIsLocated DEF BeforeEnd, AtEnd
  <2>2. g = h /\ d = EndOf(f) /\ r = [h EXCEPT !.char_stream = <<>>]
    <3>1. \A e : Head(<<e>>) = e /\ Tail(<<e>>) = <<>> /\ <<e>> # <<>>
      OBVIOUS
    <3>2. g = h
      BY <2>1, <3>1 DEF Fill
    <3> QED BY <2>1, <3>1, <3>2 DEF NextOf, RestOf
  <2>3. HandlerOK(r, f) /\ r.eof_char = EndOf(f) /\ r.char_stream = <<>>
    <3>1. <<>> \in Seq(LocatedChars)
      OBVIOUS
    <3> HIDE DEF g, r
    <3> QED BY <1>0, <2>1, <2>2, <3>1 DEF HandlerOK
  <2> HIDE DEF g, r, d
  <2>4. AtEnd(r, d, f)
    BY <2>2, <2>3 DEF AtEnd
  <2>5. PositionOf(r, d, f) = Len(f)
    BY <2>4, PositionAtEnd
  <2>6. p \in {Len(f) - 1, Len(f)}
    <3>1. CASE BeforeEnd(h, c, f)
      <4>1. Len(f) \in 1..Len(f)
        BY <3>1 DEF BeforeEnd
      <4>2. c.character # Eof
        BY <3>1, <4>1, CharacterOf DEF BeforeEnd
      <4>3. Queued(h) = 0 /\ h.read = Len(f)
        BY <1>0, <2>1 DEF Queued, HandlerOK
      <4> QED BY <4>1, <4>2, <4>3 DEF PositionOf
    <3>2. CASE AtEnd(h, c, f)
      BY <3>2, PositionAtEnd
    <3> QED BY <1>2, <3>1, <3>2
  <2>7. PositionOf(r, d, f) = IF p < Len(f) THEN p + 1 ELSE p
    <3> HIDE DEF p
    <3> QED BY <2>5, <2>6
  <2>8. r.char_stream # <<EndOf(f)>>
    BY <2>3
  <2> QED BY <2>1, <2>2, <2>3, <2>4, <2>7, <2>8 DEF StreamOK, Fresh, g, r, d
<1>3. CASE AtEnd(h, c, f) /\ h.char_stream = <<>>
  <2>1. h.eof_char = EndOf(f) /\ h.eof
    BY <1>0, <1>3, EndIsLocated DEF AtEnd
  <2>2. g = h /\ QueueOK(h, f) /\ h.read - Len(h.char_stream) = Len(f)
    BY <1>0, <1>3, <2>1 DEF Fill, QueueOK, HandlerOK
  <2>3. StreamOK(r, d, f) /\ Fresh(r, d, f) /\ PositionOf(r, d, f) = Len(f)
    BY <1>0, <2>1, <2>2, Take
  <2>4. p = Len(f)
    BY <1>3, PositionAtEnd
  <2> QED BY <2>3, <2>4
<1> QED BY <1>1, <1>2, <1>3 DEF StreamOK

\* The character that is put back comes before the look-ahead again.
LEMMA PutsBack ==
  ASSUME NEW f \in Seq(Char), NEW h, NEW c, NEW g \in Seq(LocatedChars),
         StreamOK(h, c, f), GotOK(h, c, g, f), g # <<>>
  PROVE  LET r == [h EXCEPT !.char_stream = <<c>> \o @]
             p == PositionOf(h, c, f)
         IN  /\ StreamOK(r, g[1], f)
             /\ PositionOf(r, g[1], f) = IF g[1].character = Eof THEN p ELSE p - 1
<1> DEFINE q == h.char_stream
           r == [h EXCEPT !.char_stream = <<c>> \o q]
           p == PositionOf(h, c, f)
<1>0. HandlerOK(h, f) /\ q \in Seq(LocatedChars) /\ h.read \in 0..Len(f) /\ c \in LocatedChars
  BY DEF StreamOK, HandlerOK
<1>1. /\ <<c>> \o q \in Seq(LocatedChars) /\ Len(<<c>> \o q) = Len(q) + 1
      /\ (<<c>> \o q)[1] = c
      /\ \A i \in 2..(Len(q) + 1) : (<<c>> \o q)[i] = q[i - 1]
      /\ Len(q) \in Nat
  BY <1>0
<1>2. HandlerOK(r, f) /\ r.char_stream = <<c>> \o q /\ r.read = h.read /\ r.eof_char = h.eof_char
  BY <1>0, <1>1 DEF HandlerOK
<1>3. Fresh(h, c, f) /\ \/ p >= 1 /\ g = <<Located(f, p)>>
                        \/ g = <<EndOf(f)>> /\ AtEnd(h, c, f)
  BY DEF GotOK
<1>4. g[1] \in LocatedChars
  BY <1>3
<1>5. CASE g = <<EndOf(f)>> /\ AtEnd(h, c, f)
  <2>1. q = <<>> /\ c = EndOf(f) /\ h.eof_char = EndOf(f) /\ g[1] = EndOf(f)
    BY <1>3, <1>5 DEF Fresh, AtEnd
  <2>2. r.char_stream = <<EndOf(f)>>
    BY <1>2, <2>1
  <2> HIDE DEF r, q
  <2>3. AtEnd(r, g[1], f)
    BY <1>2, <2>1, <2>2 DEF AtEnd
  <2>4. PositionOf(r, g[1], f) = Len(f) /\ p = Len(f)
    BY <1>5, <2>3, PositionAtEnd
  <2>5. g[1].character = Eof
    BY <2>1 DEF EndOf, Located, LocatedChar
  <2> QED BY <1>2, <1>4, <2>3, <2>4, <2>5 DEF StreamOK, r, q
<1>6. CASE p >= 1 /\ g = <<Located(f, p)>> /\ AtEnd(h, c, f)
  <2>1. q = <<>> /\ c = EndOf(f) /\ h.eof_char = EndOf(f) /\ g[1] = Located(f, p)
    BY <1>3, <1>6 DEF Fresh, AtEnd
  <2>2. r.char_stream = <<EndOf(f)>>
    BY <1>2, <2>1
  <2>3. p = Len(f) /\ h.read = Len(f)
    BY <1>0, <1>6, <2>1, PositionAtEnd, EndIsLocated DEF HandlerOK
  <2> HIDE DEF r, q, p
  <2>4. f # <<>> /\ p \in 1..Len(f)
    BY <1>6, <2>3
  <2>5. BeforeEnd(r, g[1], f)
    BY <1>2, <2>1, <2>2, <2>3, <2>4 DEF BeforeEnd
  <2>6. g[1].character # Eof
    BY <2>1, <2>4, CharacterOf
  <2>7. PositionOf(r, g[1], f) = p - 1
    BY <1>2, <2>1, <2>2, <2>3, <2>4, <2>6 DEF PositionOf, Queued
  <2> QED BY <1>2, <1>4, <2>5, <2>6, <2>7 DEF StreamOK, r, q, p
<1>7. CASE p >= 1 /\ g = <<Located(f, p)>> /\ InFile(h, c, f)
  <2>1. p = h.read - Len(q) - 1 /\ p \in 0..(Len(f) - 1)
    BY <1>0, <1>7, PositionInFile
  <2>2. /\ Len(q) <= h.read /\ c = Located(f, h.read - Len(q))
        /\ \A i \in 1..Len(q) : q[i] = Located(f, h.read - Len(q) + i)
    BY <1>7 DEF InFile, QueueOK
  <2> HIDE DEF q, p
  <2>3. \A i \in 1..(Len(q) + 1) :
          (<<c>> \o q)[i] = Located(f, h.read - (Len(q) + 1) + i)
    <3> TAKE i \in 1..(Len(q) + 1)
    <3>0. h.read \in Int /\ Len(q) \in Nat /\ i \in 1..(Len(q) + 1)
      BY <1>0, <1>1
    <3>1. CASE i = 1
      <4>1. h.read - (Len(q) + 1) + i = h.read - Len(q)
        BY ONLY <3>0, <3>1
      <4> QED BY <1>1, <2>2, <3>1, <4>1
    <3>2. CASE i # 1
      <4>1. i \in 2..(Len(q) + 1) /\ i - 1 \in 1..Len(q)
        BY ONLY <3>0, <3>2
      <4>2. h.read - (Len(q) + 1) + i = h.read - Len(q) + (i - 1)
        <5>1. \A a, b, k \in Int : a - (b + 1) + k = a - b + (k - 1)
          OBVIOUS
        <5>2. h.read \in Int /\ Len(q) \in Int /\ i \in Int
          BY ONLY <3>0
        <5> QED BY ONLY <5>1, <5>2
      <4>3. (<<c>> \o q)[i] = q[i - 1]
        BY <1>1, <4>1
      <4> QED BY <2>2, <4>1, <4>2, <4>3
    <3> QED BY <3>1, <3>2
  <2>4. Len(q) + 1 < h.read /\ h.read - (Len(q) + 1) = p
    BY <1>0, <1>1, <1>7, <2>1
  <2> HIDE DEF r
  <2>5. InFile(r, g[1], f)
    <3>1. /\ r.read = h.read /\ Len(r.char_stream) = Len(q) + 1 /\ r.char_stream = <<c>> \o q
          /\ g[1] = Located(f, h.read - (Len(q) + 1)) /\ Len(q) + 1 <= h.read
      BY <1>0, <1>1, <1>2, <1>7, <2>4
    <3> QED BY ONLY <3>1, <2>3, <2>4 DEF InFile, QueueOK
  <2>6. PositionOf(r, g[1], f) = r.read - Len(r.char_stream) - 1
    BY <1>2, <2>5, PositionInFile
  <2>7. PositionOf(r, g[1], f) = p - 1
    BY <1>0, <1>1, <1>2, <2>4, <2>6
  <2>8. g[1].character # Eof
    BY <1>7, <2>1, CharacterOf
  <2> QED BY <1>2, <1>4, <2>5, <2>7, <2>8 DEF StreamOK, r, q, p
<1> QED BY <1>3, <1>5, <1>6, <1>7 DEF Fresh

-----------------------------------------------------------------------------
(* The invariant, and the refinement.                                      *)

\* Both streams see the same characters.
LEMMA SameText ==
  /\ Stream!Eof = Eof
  /\ \A f, i : Stream!Located(f, i) = Located(f, i)
<1>1. Stream!Eof = Eof
  BY DEF Stream!Eof, Eof
<1>2. \A f, i : Stream!Located(f, i) = Located(f, i)
  <2> TAKE f, i
  <2>1. Stream!NewlinesBefore(f, i) = NewlinesBefore(f, i)
    BY DEF Stream!NewlinesBefore, NewlinesBefore
  <2>2. Stream!LineStart(f, i) = LineStart(f, i)
    BY ONLY <2>1 DEF Stream!LineStart, LineStart
  <2>3. Stream!Line(f, i) = Line(f, i)
    BY ONLY <2>1 DEF Stream!Line, Line, Stream!Cardinality, Cardinality
  <2>4. Stream!Column(f, i) = Column(f, i)
    BY ONLY <2>2 DEF Stream!Column, Column
  <2> QED BY ONLY <1>1, <2>3, <2>4 DEF Stream!Located, Located, Stream!LocatedChar, LocatedChar
<1> QED BY <1>1, <1>2

\* A stream that was just opened has its look-ahead at the first character.
LEMMA Opens ==
  ASSUME NEW f \in Seq(Char)
  PROVE  LET h == Fill(Open(f), f)
         IN  /\ StreamOK(RestOf(h), NextOf(h), f)
             /\ PositionOf(RestOf(h), NextOf(h), f) = 0
<1> DEFINE h0 == [read |-> 0, eof |-> FALSE, char_stream |-> <<>>, line_num |-> 0,
                  column_num |-> 1, eof_char |-> UninitializedEof]
           h1 == Open(f)
           h2 == Fill(h1, f)
<1>1. HandlerOK(h0, f) /\ h0.char_stream = <<>> /\ ~h0.eof /\ h0.read = 0
  <2>1. NewlinesBefore(f, 0 + 1) = {}
    BY DEF NewlinesBefore
  <2>2. Cardinality(NewlinesBefore(f, 0 + 1)) = 0
    BY <2>1, FS_EmptySet
  <2>3. 0 \in 0..Len(f) /\ <<>> \in Seq(LocatedChars) /\ 0 \in Nat /\ 1 \in Nat \ {0}
    OBVIOUS
  <2> QED BY <2>2, <2>3 DEF HandlerOK, AtLineStart
<1>2. h1 = PreloadNextLine(h0, f)
  <2>1. h1 = Fill(h0, f)
    BY DEF Open
  <2> QED BY <1>1, <2>1 DEF Fill
<1> HIDE DEF h0, h1
<1>3. /\ HandlerOK(h1, f) /\ QueueOK(h1, f)
      /\ h1.read - Len(h1.char_stream) = 0
      /\ h1.char_stream # <<>> \/ h1.eof
  BY <1>1, <1>2, Preload
<1>4. h2 = h1
  BY <1>3 DEF Fill
<1> HIDE DEF h2
<1>5. StreamOK(RestOf(h2), NextOf(h2), f) /\ PositionOf(RestOf(h2), NextOf(h2), f) = 0
  BY <1>3, <1>4, Take
<1> QED BY <1>5 DEF h1, h2

\* The initial states satisfy the invariant and are initial for the abstract
\* stream.
LEMMA InitHolds == Init => IInv /\ Stream!Init
<1> SUFFICES ASSUME Init PROVE IInv /\ Stream!Init
  OBVIOUS
<1>1. file \in File /\ file \in Seq(Char)
  BY FileAssumption DEF Init
<1>2. StreamOK(handler, next_char, file) /\ PositionOf(handler, next_char, file) = 0
  BY <1>1, Opens DEF Init
<1>3. got = <<>> /\ skipping = FALSE /\ got \in Seq(LocatedChars)
  BY DEF Init
<1> QED BY <1>1, <1>2, <1>3 DEF IInv, GotOK, Stream!Init, Position

\* What an advance of the look-ahead means for both streams.
LEMMA AdvanceStep ==
  ASSUME IInv, Advance, file' = file
  PROVE  /\ file \in Seq(Char)
         /\ StreamOK(handler', next_char', file')
         /\ Fresh(handler', next_char', file')
         /\ Position \in 0..Len(file)
         /\ next_char = Stream!Coming
         /\ next_char \in LocatedChars
         /\ Stream!Consume
<1>1. file \in Seq(Char) /\ StreamOK(handler, next_char, file)
  BY FileAssumption DEF IInv
<1>2. handler' = RestOf(Fill(handler, file)) /\ next_char' = NextOf(Fill(handler, file))
  BY DEF Advance
<1>3. /\ StreamOK(handler', next_char', file) /\ Fresh(handler', next_char', file)
      /\ PositionOf(handler', next_char', file) =
           IF Position < Len(file) THEN Position + 1 ELSE Position
  BY <1>1, <1>2, Advances DEF Position
<1>4. Position' = PositionOf(handler', next_char', file)
  BY DEF Position
<1>5. Position \in 0..Len(file) /\ next_char = Located(file, Position + 1)
  BY <1>1, LookAhead DEF Position
<1>6. next_char \in LocatedChars
  BY <1>1 DEF StreamOK
<1> QED BY <1>1, <1>3, <1>4, <1>5, <1>6, SameText DEF Stream!Coming, Stream!Consume

\* Delivering the look-ahead delivers the next character of the file.
LEMMA DeliverStep == IInv /\ Deliver => IInv' /\ Stream!Deliver
<1> SUFFICES ASSUME IInv, Deliver PROVE IInv' /\ Stream!Deliver
  OBVIOUS
<1>1. got' = <<next_char>> /\ Advance /\ skipping' = FALSE /\ file' = file
  BY DEF Deliver
<1>2. /\ file \in Seq(Char) /\ StreamOK(handler', next_char', file')
      /\ Fresh(handler', next_char', file') /\ Position \in 0..Len(file)
      /\ next_char = Stream!Coming /\ next_char \in LocatedChars /\ Stream!Consume
  BY <1>1, AdvanceStep
<1>3. Stream!Deliver
  BY <1>1, <1>2 DEF Stream!Deliver
<1>4. GotOK(handler', next_char', got', file')
  <2>1. next_char = Located(file, Position + 1)
    BY <1>2, SameText DEF Stream!Coming
  <2>2. CASE Position < Len(file)
    <3>1. Position' = Position + 1 /\ Position' >= 1
      BY <1>2, <2>2 DEF Stream!Consume
    <3>2. got' = <<Located(file', PositionOf(handler', next_char', file'))>>
          /\ PositionOf(handler', next_char', file') >= 1
      BY <1>1, <2>1, <3>1 DEF Position
    <3> QED BY <1>2, <3>2 DEF GotOK
  <2>3. CASE ~(Position < Len(file))
    <3>1. Position = Len(file) /\ Position' = Len(file)
      BY <1>2, <2>3 DEF Stream!Consume
    <3>2. got' = <<EndOf(file')>>
      BY <1>1, <2>1, <3>1 DEF EndOf
    <3>3. ~InFile(handler', next_char', file')
      <4> SUFFICES ASSUME InFile(handler', next_char', file') PROVE FALSE
        OBVIOUS
      <4>1. PositionOf(handler', next_char', file') \in 0..(Len(file') - 1)
        BY <1>1, <1>2, PositionInFile DEF StreamOK
      <4>2. PositionOf(handler', next_char', file') = Len(file')
        BY <1>1, <3>1 DEF Position
      <4> QED BY <1>1, <1>2, <4>1, <4>2
    <3> QED BY <1>2, <3>2, <3>3 DEF GotOK, Fresh
  <2> QED BY <2>2, <2>3
<1>5. got' \in Seq(LocatedChars)
  BY <1>1, <1>2
<1> QED BY <1>1, <1>2, <1>3, <1>4, <1>5 DEF IInv

\* A turn of the loop over whitespace skips one character of the file.
LEMMA NonwhitespaceStep ==
  IInv /\ NextNonwhitespaceChar => IInv' /\ Stream!NextNonwhitespaceChar
<1> SUFFICES ASSUME IInv, NextNonwhitespaceChar
             PROVE  IInv' /\ Stream!NextNonwhitespaceChar
  OBVIOUS
<1>1. CASE next_char.character \notin Whitespace /\ Deliver
  <2>1. Advance /\ file' = file
    BY <1>1 DEF Deliver
  <2>2. next_char = Stream!Coming
    BY <2>1, AdvanceStep
  <2> QED BY <1>1, <2>2, DeliverStep DEF Stream!NextNonwhitespaceChar
<1>2. CASE /\ next_char.character \in Whitespace /\ Advance
           /\ got' = <<>> /\ skipping' = TRUE /\ file' = file
  <2>1. /\ StreamOK(handler', next_char', file')
        /\ next_char = Stream!Coming /\ Stream!Consume
    BY <1>2, AdvanceStep
  <2>2. IInv'
    BY <1>2, <2>1 DEF IInv, GotOK
  <2> QED BY <1>2, <2>1, <2>2 DEF Stream!NextNonwhitespaceChar
<1> QED BY <1>1, <1>2 DEF NextNonwhitespaceChar

\* Putting back the character that was delivered last moves back to it.
LEMMA PutBackStep == IInv /\ PutBack => IInv' /\ Stream!PutBack
<1> SUFFICES ASSUME IInv, PutBack PROVE IInv' /\ Stream!PutBack
  OBVIOUS
<1>1. /\ got # <<>> /\ got' = <<>> /\ next_char' = got[1]
      /\ handler' = [handler EXCEPT !.char_stream = <<next_char>> \o @]
      /\ file' = file /\ skipping' = skipping
  BY DEF PutBack
<1>2. /\ file \in Seq(Char) /\ got \in Seq(LocatedChars)
      /\ StreamOK(handler, next_char, file) /\ GotOK(handler, next_char, got, file)
  BY FileAssumption DEF IInv
<1>3. /\ StreamOK(handler', next_char', file)
      /\ PositionOf(handler', next_char', file) =
           IF got[1].character = Eof THEN PositionOf(handler, next_char, file)
           ELSE PositionOf(handler, next_char, file) - 1
  BY <1>1, <1>2, PutsBack
<1>4. IInv'
  BY <1>1, <1>3 DEF IInv, GotOK
<1>5. Stream!PutBack
  BY <1>1, <1>3, SameText DEF Stream!PutBack, Position
<1> QED BY <1>4, <1>5

\* Every step keeps the invariant, and is a step of the abstract stream or none.
LEMMA NextHolds == IInv /\ [Next]_vars => IInv' /\ [Stream!Next]_Stream!streamVars
<1> SUFFICES ASSUME IInv, [Next]_vars PROVE IInv' /\ [Stream!Next]_Stream!streamVars
  OBVIOUS
<1>1. CASE NextChar
  BY <1>1, DeliverStep DEF NextChar, Stream!NextChar, Stream!Next
<1>2. CASE NextNonwhitespaceChar
  BY <1>2, NonwhitespaceStep DEF Stream!Next
<1>3. CASE PutBack
  BY <1>3, PutBackStep DEF Stream!Next
<1>4. CASE UNCHANGED vars
  <2>1. IInv'
    BY <1>4 DEF vars, IInv
  <2>2. UNCHANGED Stream!streamVars
    BY <1>4 DEF vars, Stream!streamVars, Position
  <2> QED BY <2>1, <2>2
<1> QED BY <1>1, <1>2, <1>3, <1>4 DEF Next

\* Every state of the program has the types of TypeOK, for all files.
THEOREM TypeCorrect == Spec => []TypeOK
<1>1. IInv => TypeOK
  <2> SUFFICES ASSUME IInv PROVE TypeOK
    OBVIOUS
  <2>1. file \in File /\ file \in Seq(Char) /\ StreamOK(handler, next_char, file)
        /\ got \in Seq(LocatedChars) /\ skipping \in BOOLEAN
    BY FileAssumption DEF IInv
  <2>2. Len(got) <= 1
    <3>1. got = <<>> \/ \E c : got = <<c>>
      BY DEF IInv, GotOK
    <3>2. Len(<<>>) = 0 /\ \A c : Len(<<c>>) = 1
      OBVIOUS
    <3>3. Len(got) = 0 \/ Len(got) = 1
      BY ONLY <3>1, <3>2
    <3>4. \A n \in {0, 1} : n <= 1
      OBVIOUS
    <3> QED BY ONLY <3>3, <3>4
  <2>3. HandlerOK(handler, file) /\ next_char \in LocatedChars
    BY <2>1 DEF StreamOK
  <2>4. handler.eof_char \in LocatedChars \cup {UninitializedEof}
    BY <2>1, <2>3, EndIsLocated
  <2>5. handler \in [read : 0..Len(file), eof : BOOLEAN, char_stream : Seq(LocatedChars),
                     line_num : Nat, column_num : Nat,
                     eof_char : LocatedChars \cup {UninitializedEof}]
    BY <2>3, <2>4 DEF HandlerOK
  <2> QED BY <2>1, <2>2, <2>3, <2>5 DEF TypeOK
<1>2. Init => IInv
  BY InitHolds
<1>3. IInv /\ [Next]_vars => IInv'
  BY NextHolds
<1> QED BY <1>1, <1>2, <1>3, PTL DEF Spec

\* The queue of the input handler and the look-ahead of the character stream
\* together are a stream with put-back over the file, for all files: the
\* scanner gets every character once, in order and with its location.
THEOREM Implementation == Spec => IsPushbackStream
<1>1. Init => IInv /\ Stream!Init
  BY InitHolds
<1>2. IInv /\ [Next]_vars => IInv' /\ [Stream!Next]_Stream!streamVars
  BY NextHolds
<1> QED BY <1>1, <1>2, PTL DEF Spec, IsPushbackStream, Stream!Spec
=============================================================================
