--------------------------- MODULE ScannerProofs ---------------------------
(***************************************************************************)
(* Theorems about Scanner, for all files and all classes of characters.    *)
(***************************************************************************)
EXTENDS Scanner, SequenceTheorems, NaturalsInduction, WellFoundedInduction, TLAPS

-----------------------------------------------------------------------------
(* The inductive invariant.                                                *)

\* What was delivered last is the character before the position, or the end of
\* the file, which is not passed.
StreamInv ==
  /\ file \in Seq(Char)
  /\ pos \in 0..Len(file)
  /\ got # <<>> => \/ pos >= 1 /\ got = <<Located(file, pos)>>
                   \/ pos = Len(file) /\ got = <<Located(file, Len(file) + 1)>>

\* Where the reader is when it puts back what it got.
Unread == IF got[1].character = Eof THEN pos ELSE pos - 1

\* Where the last item ended.
Behind == IF items = <<>> THEN 0 ELSE items[Len(items)].end

\* Between positions b and p of a file there are blanks and comments, the last
\* of which is open or closed.
Gap(f, b, p) == b <= p /\ Blank(SubSeq(f, b + 1, p))
OpenGap(f, b, p)   == Gap(f, b, p) /\ Comment(SubSeq(f, b + 1, p))[p - b]
ClosedGap(f, b, p) == Gap(f, b, p) /\ ~Comment(SubSeq(f, b + 1, p))[p - b]

\* The places within the routines for tokens.
QuotedPlaces ==
  {"character", "character_escape", "character_end", "string", "string_escape", "string_more",
   "string_end"}
ReadPlaces  == {"identifier", "digits", "fraction", "exponent_digits", "operator", "operator_end"}
AheadPlaces == {"point", "exponent", "sign"}
TokenPlaces == QuotedPlaces \cup ReadPlaces \cup AheadPlaces

\* Between tokens, what lies behind the last item is a gap.
GapInv ==
  /\ Behind \in 0..Len(file)
  /\ at = "start" => Gap(file, Behind, pos)
                       /\ (ClosedGap(file, Behind, pos) \/ pos = Len(file))
  /\ at = "comment" => OpenGap(file, Behind, pos)
  /\ at = "returned" => items # <<>> /\ Behind = pos

\* A token begins behind a gap, at the character that was found there.
BeginInv ==
  /\ at \in TokenPlaces \cup {"dispatch"} =>
       /\ begin \in 1..(Len(file) + 1)
       /\ Gap(file, Behind, begin - 1)
  /\ at = "dispatch" =>
       /\ got = <<located>> /\ located = Located(file, begin) /\ buffer = <<>>
       /\ located.character \notin Whitespace
       /\ \/ begin = pos /\ ClosedGap(file, Behind, begin - 1)
          \/ begin = Len(file) + 1 /\ pos = Len(file)
  /\ at \in TokenPlaces =>
       /\ begin <= pos
       /\ located = Located(file, IF at \in {"character_escape", "character_end"}
                                  THEN begin + 1 ELSE begin)

\* What Peek returns.
Ahead == Located(file, pos + 1).character

NumberStart == Digit \cup {"."}

\* A lexeme of the tables, and a character that does not make a longer one of it.
Ends(lexeme, next) ==
  lexeme \in Operator \cup Punctuator /\ Append(lexeme, next) \notin Operator \cup Punctuator

HasExponent(lexeme) == \E k \in 1..Len(lexeme) : lexeme[k] \in ExponentMark

\* The buffer is the text that was read, but for the character read ahead.
LexemeInv ==
  /\ at \in ReadPlaces => buffer = SubSeq(file, begin, pos)
  /\ at \in AheadPlaces => got # <<>> /\ buffer = SubSeq(file, begin, Unread)
  /\ at = "identifier" => file[begin] \in IdentifierStart
  /\ at \in {"digits", "fraction", "exponent_digits"} \cup AheadPlaces =>
       file[begin] \in NumberStart
  /\ at \in {"sign", "exponent_digits"} => HasExponent(buffer)
  /\ at \in {"operator", "operator_end"} => file[begin] \in OperatorOrPunctuatorStart
  /\ at = "operator" => begin = pos
  /\ at = "operator_end" => Ends(buffer, Ahead)
  /\ at = "point" => \/ begin <= Unread /\ got[1].character \notin Digit
                     \/ begin = pos /\ got[1].character = "." /\ Ahead \in Digit
  /\ at \in {"exponent", "sign"} => begin <= Unread /\ got[1].character \notin Digit
  /\ at = "sign" => got[1].character \in Sign

\* The last quote up to position p is followed by blanks only.
Quoted(f, b, p) ==
  \E k \in b..p : f[k] = Quote /\ \A j \in (k + 1)..p : f[j] \in Whitespace

\* Literals in quotes begin with a quote.
QuotedInv ==
  /\ at = "character" => begin = pos
  /\ at \in {"character", "character_escape", "character_end"} => file[begin] = Apostrophe
  /\ at \in {"string", "string_escape", "string_more", "string_end"} => file[begin] = Quote
  /\ at = "string_more" => Quoted(file, begin, pos)
  /\ at = "string_end" =>
       /\ got # <<>> /\ got[1].character \notin Whitespace \cup {Quote}
       /\ Quoted(file, begin, Unread)

Symbols == Char \cup {Eof} \cup {Escaped[c] : c \in DOMAIN Escaped}

ItemSet ==
  [type : TokenTypes \cup {"error"}, location : {Located(file, i) : i \in 1..(Len(file) + 1)},
   lexeme : Seq(Symbols), from : Nat, end : Nat]

\* Nothing comes behind the end of the file.
ItemsInv ==
  /\ at \in TokenPlaces \cup {"start", "dispatch", "comment", "returned"}
  /\ buffer \in Seq(Symbols)
  /\ items \in Seq(ItemSet)
  /\ \A i \in 1..Len(items) : items[i].type = "eof" => at = "returned" /\ i = Len(items)
  /\ TokensAreTheText
  /\ NothingIsDropped
  /\ LongestMatch

IInv == StreamInv /\ GapInv /\ BeginInv /\ LexemeInv /\ QuotedInv /\ ItemsInv

-----------------------------------------------------------------------------
(* Sequences of characters.                                                *)

\* A set of natural numbers has a least element.
LEMMA Least ==
  ASSUME NEW S \in SUBSET Nat, S # {}
  PROVE  \E m \in S : \A k \in S : m <= k
<1>1. PICK m \in S : \A k \in S : ~(<<k, m>> \in OpToRel(<, Nat))
  BY NatLessThanWellFounded, WFMin
<1>2. ASSUME NEW k \in S PROVE m <= k
  <2>1. k \in Nat /\ m \in Nat
    BY <1>1
  <2>2. ~(k < m)
    <3>1. SUFFICES ASSUME k < m PROVE FALSE
      OBVIOUS
    <3>2. <<k, m>> \in OpToRel(<, Nat)
      BY <2>1, <3>1, Zenon DEF OpToRel
    <3> QED BY <1>1, <3>2, Zenon
  <2> QED BY <2>1, <2>2
<1> QED BY <1>1, <1>2

\* The text that was read grows by the character that is read.
LEMMA TextGrows ==
  ASSUME NEW S, NEW f \in Seq(S), NEW b \in 1..Len(f), NEW p \in (b - 1)..(Len(f) - 1)
  PROVE  /\ SubSeq(f, b, p) \in Seq(S)
         /\ SubSeq(f, b, p + 1) = Append(SubSeq(f, b, p), f[p + 1])
         /\ Len(SubSeq(f, b, p)) = p - b + 1
<1>1. SubSeq(f, b, p) \in Seq(S) /\ Len(SubSeq(f, b, p)) = p - b + 1
  BY SubSeqProperties
<1>2. SubSeq(f, b, p + 1) \in Seq(S) /\ Len(SubSeq(f, b, p + 1)) = p - b + 2
  <2>1. \A i \in b..(p + 1) : f[i] \in S
    OBVIOUS
  <2> QED BY <2>1, SubSeqProperties
<1>3. f[p + 1] \in S
  OBVIOUS
<1>4. \A i \in 1..(p - b + 2) : SubSeq(f, b, p + 1)[i] = f[b + i - 1]
  <2>1. \A i \in b..(p + 1) : f[i] \in S
    OBVIOUS
  <2> QED BY <2>1, SubSeqProperties
<1>5. \A i \in 1..(p - b + 1) : SubSeq(f, b, p)[i] = f[b + i - 1]
  <2>1. \A i \in b..p : f[i] \in S
    OBVIOUS
  <2> QED BY <2>1, SubSeqProperties
<1> DEFINE s == SubSeq(f, b, p)
           t == SubSeq(f, b, p + 1)
           u == Append(s, f[p + 1])
<1>6. u \in Seq(S) /\ Len(u) = p - b + 2
      /\ \A i \in 1..(p - b + 2) : u[i] = IF i = p - b + 2 THEN f[p + 1] ELSE s[i]
  BY <1>1, <1>3
<1>7. \A i \in 1..(p - b + 2) : t[i] = u[i]
  <2> HIDE DEF s, t, u
  <2>1. \A i \in 1..(p - b + 2) : t[i] = f[b + i - 1]
    BY <1>4 DEF t
  <2>2. \A i \in 1..(p - b + 1) : s[i] = f[b + i - 1]
    BY <1>5 DEF s
  <2> QED BY <1>6, <2>1, <2>2
<1>8. t = u
  <2>1. t \in Seq(S) /\ u \in Seq(S) /\ Len(t) = p - b + 2 /\ Len(u) = p - b + 2
    BY <1>2, <1>6
  <2> HIDE DEF s, t, u
  <2> QED BY <1>7, <2>1, SeqEqual
<1> QED BY <1>1, <1>8

-----------------------------------------------------------------------------
(* Comments.                                                               *)

\* Whether position i is in a comment, if position i - 1 is.
Commented(text, i, before) ==
  i > 0 /\ IF before THEN text[i] \notin {Hash, Newline} ELSE text[i] = Hash

\* Comment is well defined.
LEMMA CommentExists ==
  ASSUME NEW text, NEW n \in Nat
  PROVE  \E c \in [0..n -> BOOLEAN] : \A i \in 0..n : c[i] = Commented(text, i, c[i - 1])
<1> DEFINE Good(m) == \E c \in [0..m -> BOOLEAN] :
                        \A i \in 0..m : c[i] = Commented(text, i, c[i - 1])
           Bad == {m \in Nat : ~Good(m)}
<1>1. SUFFICES Bad = {}
  OBVIOUS
<1>2. SUFFICES ASSUME Bad # {} PROVE FALSE
  OBVIOUS
<1>3. PICK m \in Bad : \A k \in Bad : m <= k
  <2>1. Bad \in SUBSET Nat
    OBVIOUS
  <2> HIDE DEF Bad
  <2> QED BY <1>2, <2>1, Least
<1>4. m # 0
  <2>1. Good(0)
    <3> DEFINE c == [i \in 0..0 |-> FALSE]
    <3>1. c \in [0..0 -> BOOLEAN] /\ \A i \in 0..0 : i = 0 /\ c[i] = FALSE
      OBVIOUS
    <3>2. \A i \in 0..0 : Commented(text, i, c[i - 1]) = FALSE
      BY <3>1 DEF Commented
    <3> QED BY <3>1, <3>2
  <2> QED BY <2>1
<1>5. m \in Nat /\ m - 1 \in Nat /\ ~(m <= m - 1)
  BY <1>4
<1>6. PICK c \in [0..(m - 1) -> BOOLEAN] :
        \A i \in 0..(m - 1) : c[i] = Commented(text, i, c[i - 1])
  <2>1. m - 1 \notin Bad
    BY <1>3, <1>5
  <2> QED BY <1>5, <2>1
<1> DEFINE d == [i \in 0..m |-> IF i = m THEN Commented(text, m, c[m - 1]) ELSE c[i]]
<1>7. d \in [0..m -> BOOLEAN]
  <2>1. Commented(text, m, c[m - 1]) \in BOOLEAN
    BY Zenon DEF Commented
  <2>2. ASSUME NEW i \in 0..m, i # m PROVE c[i] \in BOOLEAN
    <3>1. i \in 0..(m - 1)
      BY <1>5, <2>2
    <3> QED BY <1>6, <3>1
  <2>3. ASSUME NEW i \in 0..m
        PROVE  (IF i = m THEN Commented(text, m, c[m - 1]) ELSE c[i]) \in BOOLEAN
    BY <2>1, <2>2, Zenon
  <2> QED BY <2>3, Zenon
<1>8. \A i \in 0..m : d[i] = Commented(text, i, d[i - 1])
  <2> TAKE i \in 0..m
  <2>1. CASE i = m
    <3>1. d[i] = Commented(text, m, c[m - 1]) /\ d[i - 1] = c[m - 1]
      BY <1>5, <2>1
    <3> QED BY <2>1, <3>1
  <2>2. CASE i # m /\ i > 0
    <3>1. d[i] = c[i] /\ d[i - 1] = c[i - 1] /\ i \in 0..(m - 1)
      BY <1>5, <2>2
    <3> QED BY <1>6, <3>1
  <2>3. CASE i = 0
    <3>1. d[i] = c[i] /\ i \in 0..(m - 1)
      BY <1>5, <2>3
    <3>2. Commented(text, i, c[i - 1]) = FALSE /\ Commented(text, i, d[i - 1]) = FALSE
      BY <2>3 DEF Commented
    <3> QED BY <1>6, <3>1, <3>2
  <2> QED BY <2>1, <2>2, <2>3
<1>9. Good(m)
  <2> HIDE DEF d
  <2> QED BY <1>7, <1>8
<1> QED BY <1>9

\* Comment is what its definition says.
LEMMA CommentValue ==
  ASSUME NEW text, Len(text) \in Nat
  PROVE  \A i \in 0..Len(text) :
           /\ Comment(text)[i] \in BOOLEAN
           /\ Comment(text)[i] = Commented(text, i, Comment(text)[i - 1])
<1> DEFINE Is(c) == c = [i \in 0..Len(text) |->
                          /\ i > 0
                          /\ IF c[i - 1] THEN text[i] \notin {Hash, Newline} ELSE text[i] = Hash]
<1>1. PICK c \in [0..Len(text) -> BOOLEAN] :
        \A i \in 0..Len(text) : c[i] = Commented(text, i, c[i - 1])
  BY CommentExists
<1>2. Is(c)
  BY <1>1 DEF Commented
<1>3. Comment(text) = CHOOSE e : Is(e)
  BY DEF Comment
<1>4. Is(Comment(text))
  <2> HIDE DEF Is
  <2> QED BY <1>2, <1>3
<1> HIDE <1>3
<1> DEFINE e == Comment(text)
<1>5. e = [i \in 0..Len(text) |->
             /\ i > 0
             /\ IF e[i - 1] THEN text[i] \notin {Hash, Newline} ELSE text[i] = Hash]
  BY ONLY <1>4
<1> HIDE DEF e
<1>6. \A i \in 0..Len(text) : e[i] = Commented(text, i, e[i - 1])
  BY ONLY <1>5 DEF Commented
<1>7. \A i \in 0..Len(text) : e[i] \in BOOLEAN
  BY ONLY <1>6 DEF Commented
<1> QED BY <1>6, <1>7 DEF e

\* Whether a position is in a comment depends on the text up to it.
LEMMA CommentGrows ==
  ASSUME NEW text \in Seq(Char), NEW c \in Char
  PROVE  LET longer == Append(text, c)
         IN  /\ Len(longer) = Len(text) + 1
             /\ \A i \in 0..Len(text) : Comment(longer)[i] = Comment(text)[i]
             /\ Comment(longer)[Len(text) + 1] =
                  IF Comment(text)[Len(text)] THEN c \notin {Hash, Newline} ELSE c = Hash
<1> DEFINE longer == Append(text, c)
           n == Len(text)
           d == Comment(longer)
           e == Comment(text)
           Bad == {i \in 0..n : d[i] # e[i]}
<1>1. n \in Nat /\ Len(longer) = n + 1 /\ longer[n + 1] = c
      /\ \A i \in 1..n : longer[i] = text[i]
  OBVIOUS
<1>2. /\ \A i \in 0..(n + 1) : d[i] = Commented(longer, i, d[i - 1])
      /\ \A i \in 0..n : e[i] = Commented(text, i, e[i - 1])
  <2>1. Len(text) \in Nat /\ Len(longer) \in Nat /\ Len(longer) = n + 1
    BY <1>1
  <2> HIDE DEF longer
  <2> QED BY <2>1, CommentValue
<1> HIDE DEF longer, n, d, e
<1>3. Bad = {}
  <2> SUFFICES ASSUME Bad # {} PROVE FALSE
    OBVIOUS
  <2>1. PICK m \in Bad : \A k \in Bad : m <= k
    <3>1. Bad \in SUBSET Nat
      BY <1>1
    <3> HIDE DEF Bad
    <3> QED BY <3>1, Least
  <2>2. m \in 0..n /\ d[m] # e[m]
    OBVIOUS
  <2>3. CASE m = 0
    BY <1>1, <1>2, <2>2, <2>3 DEF Commented
  <2>4. CASE m > 0
    <3>1. m - 1 \in 0..n /\ m \in 1..n /\ ~(m <= m - 1)
      BY <1>1, <2>2, <2>4
    <3>2. d[m - 1] = e[m - 1]
      BY <2>1, <3>1
    <3>3. longer[m] = text[m]
      BY <1>1, <3>1
    <3> QED BY <1>1, <1>2, <2>2, <3>2, <3>3 DEF Commented
  <2> QED BY <1>1, <2>2, <2>3, <2>4
<1>4. \A i \in 0..n : d[i] = e[i]
  BY <1>3
<1>5. d[n + 1] = IF e[n] THEN c \notin {Hash, Newline} ELSE c = Hash
  <2>1. d[n + 1] = Commented(longer, n + 1, d[n])
    <3>1. n + 1 \in 0..(n + 1) /\ (n + 1) - 1 = n
      BY <1>1
    <3>2. d[n + 1] = Commented(longer, n + 1, d[(n + 1) - 1])
      BY ONLY <1>2, <3>1
    <3> QED BY ONLY <3>1, <3>2
  <2>2. d[n] = e[n] /\ n + 1 > 0
    BY <1>1, <1>4
  <2> QED BY <1>1, <2>1, <2>2, Zenon DEF Commented
<1> QED BY <1>1, <1>4, <1>5 DEF longer, n, d, e

\* A gap goes on with a blank, with the hash of a comment, and within a comment.
LEMMA BlankGrows ==
  ASSUME NEW text \in Seq(Char), NEW c \in Char, Blank(text),
         c \in Whitespace \cup {Hash} \/ Comment(text)[Len(text)]
  PROVE  Blank(Append(text, c))
<1> DEFINE longer == Append(text, c)
           n == Len(text)
<1>1. n \in Nat /\ Len(longer) = n + 1 /\ longer[n + 1] = c
      /\ \A i \in 1..n : longer[i] = text[i]
  OBVIOUS
<1>2. /\ \A i \in 0..n : Comment(longer)[i] = Comment(text)[i]
      /\ Comment(longer)[n + 1] =
           IF Comment(text)[n] THEN c \notin {Hash, Newline} ELSE c = Hash
  BY CommentGrows
<1>3. \A i \in 1..n : text[i] \in Whitespace \/ Comment(text)[i] \/ Comment(text)[i - 1]
  BY DEF Blank
<1>4. c \in Whitespace \cup {Hash} \/ Comment(text)[n]
  OBVIOUS
<1> HIDE DEF longer, n
<1>5. ASSUME NEW i \in 1..(n + 1)
      PROVE  longer[i] \in Whitespace \/ Comment(longer)[i] \/ Comment(longer)[i - 1]
  <2>1. CASE i = n + 1
    <3>1. i - 1 = n /\ n \in 0..n
      BY <1>1, <2>1
    <3>2. Comment(longer)[i - 1] = Comment(text)[n]
      BY <1>2, <3>1
    <3> QED BY <1>1, <1>2, <1>4, <2>1, <3>2
  <2>2. CASE i # n + 1
    <3>1. i \in 1..n /\ i \in 0..n /\ i - 1 \in 0..n
      BY <1>1, <2>2
    <3> QED BY <1>1, <1>2, <1>3, <3>1
  <2> QED BY <2>1, <2>2
<1> QED BY <1>1, <1>5 DEF Blank, longer

-----------------------------------------------------------------------------
(* Gaps.                                                                   *)

\* There is nothing between a position and itself.
LEMMA EmptyGap ==
  ASSUME NEW f, NEW b \in Nat
  PROVE  ClosedGap(f, b, b)
<1>1. SubSeq(f, b + 1, b) = <<>>
  BY SubSeqEmpty
<1>2. Len(<<>>) = 0 /\ b - b = 0
  OBVIOUS
<1>3. Comment(<<>>)[0] = FALSE
  <2>1. Len(<<>>) \in Nat /\ 0 \in 0..Len(<<>>)
    OBVIOUS
  <2>2. Comment(<<>>)[0] = Commented(<<>>, 0, Comment(<<>>)[0 - 1])
    BY ONLY <2>1, CommentValue
  <2>3. Commented(<<>>, 0, Comment(<<>>)[0 - 1]) = FALSE
    BY DEF Commented
  <2> QED BY ONLY <2>2, <2>3
<1>4. Blank(<<>>)
  <2>1. \A i \in 1..Len(<<>>) : FALSE
    OBVIOUS
  <2> QED BY <2>1 DEF Blank
<1>5. Gap(f, b, b)
  <2>1. Blank(SubSeq(f, b + 1, b))
    BY ONLY <1>1, <1>4
  <2>2. b <= b
    OBVIOUS
  <2> QED BY ONLY <2>1, <2>2 DEF Gap
<1>6. ~Comment(SubSeq(f, b + 1, b))[b - b]
  BY ONLY <1>1, <1>2, <1>3
<1> QED BY <1>5, <1>6, Zenon DEF ClosedGap

\* A gap grows by a character.
LEMMA GapGrows ==
  ASSUME NEW f \in Seq(Char), NEW b \in Nat, NEW p \in 0..(Len(f) - 1)
  PROVE  /\ ClosedGap(f, b, p) /\ f[p + 1] \in Whitespace => ClosedGap(f, b, p + 1)
         /\ ClosedGap(f, b, p) /\ f[p + 1] = Hash => OpenGap(f, b, p + 1)
         /\ OpenGap(f, b, p) /\ f[p + 1] \in {Hash, Newline} => ClosedGap(f, b, p + 1)
         /\ OpenGap(f, b, p) /\ f[p + 1] \notin {Hash, Newline} => OpenGap(f, b, p + 1)
<1> SUFFICES ASSUME b <= p
             PROVE  /\ ClosedGap(f, b, p) /\ f[p + 1] \in Whitespace => ClosedGap(f, b, p + 1)
                    /\ ClosedGap(f, b, p) /\ f[p + 1] = Hash => OpenGap(f, b, p + 1)
                    /\ OpenGap(f, b, p) /\ f[p + 1] \in {Hash, Newline} => ClosedGap(f, b, p + 1)
                    /\ OpenGap(f, b, p) /\ f[p + 1] \notin {Hash, Newline} => OpenGap(f, b, p + 1)
  BY DEF ClosedGap, OpenGap, Gap
<1> DEFINE text == SubSeq(f, b + 1, p)
           c == f[p + 1]
<1>1. /\ text \in Seq(Char) /\ Len(text) = p - b
      /\ SubSeq(f, b + 1, p + 1) = Append(text, c)
  <2>1. b + 1 \in 1..Len(f) /\ p \in ((b + 1) - 1)..(Len(f) - 1) /\ p - (b + 1) + 1 = p - b
    OBVIOUS
  <2> HIDE DEF text
  <2> QED BY <2>1, TextGrows DEF text
<1>2. c \in Char /\ (p + 1) - b = (p - b) + 1 /\ b <= p + 1
  OBVIOUS
<1>3. Hash \notin Whitespace
  BY ClassAssumption
<1> HIDE DEF text, c
<1>4. /\ Comment(Append(text, c))[(p + 1) - b] =
           IF Comment(text)[p - b] THEN c \notin {Hash, Newline} ELSE c = Hash
  <2>1. text \in Seq(Char) /\ c \in Char
    BY <1>1, <1>2
  <2>2. Comment(Append(text, c))[Len(text) + 1] =
          IF Comment(text)[Len(text)] THEN c \notin {Hash, Newline} ELSE c = Hash
    BY ONLY <2>1, CommentGrows
  <2>3. Len(text) = p - b /\ Len(text) + 1 = (p + 1) - b
    BY <1>1, <1>2
  <2> QED BY ONLY <2>2, <2>3
<1>5. Blank(text) /\ (c \in Whitespace \cup {Hash} \/ Comment(text)[p - b])
        => Blank(Append(text, c))
  BY <1>1, <1>2, BlankGrows
<1> DEFINE short == SubSeq(f, b + 1, p)
           long  == SubSeq(f, b + 1, p + 1)
<1>6. /\ Comment(long)[(p + 1) - b] =
           IF Comment(short)[p - b] THEN c \notin {Hash, Newline} ELSE c = Hash
      /\ Blank(short) /\ (c \in Whitespace \cup {Hash} \/ Comment(short)[p - b]) => Blank(long)
  <2>1. short = text /\ long = Append(text, c)
    BY <1>1 DEF text
  <2> HIDE DEF short, long
  <2> QED BY ONLY <1>4, <1>5, <2>1
<1>7. /\ ClosedGap(f, b, p) <=> Blank(short) /\ ~Comment(short)[p - b]
      /\ OpenGap(f, b, p) <=> Blank(short) /\ Comment(short)[p - b]
  BY <1>2, Zenon DEF ClosedGap, OpenGap, Gap
<1>8. /\ ClosedGap(f, b, p + 1) <=> Blank(long) /\ ~Comment(long)[(p + 1) - b]
      /\ OpenGap(f, b, p + 1) <=> Blank(long) /\ Comment(long)[(p + 1) - b]
  <2>1. b <= p + 1
    BY <1>2
  <2> QED BY ONLY <2>1, Zenon DEF ClosedGap, OpenGap, Gap
<1> HIDE DEF short, long
<1>9. /\ ClosedGap(f, b, p) /\ c \in Whitespace => ClosedGap(f, b, p + 1)
      /\ ClosedGap(f, b, p) /\ c = Hash => OpenGap(f, b, p + 1)
      /\ OpenGap(f, b, p) /\ c \in {Hash, Newline} => ClosedGap(f, b, p + 1)
      /\ OpenGap(f, b, p) /\ c \notin {Hash, Newline} => OpenGap(f, b, p + 1)
  BY ONLY <1>3, <1>6, <1>7, <1>8
<1> QED BY <1>9 DEF c

-----------------------------------------------------------------------------
(* What the operations of the stream do.                                   *)

\* The stream sees the same characters as the scanner.
LEMMA SameText ==
  /\ Input!Eof = Eof
  /\ \A f, i : Input!Located(f, i) = Located(f, i)
<1>1. Input!Eof = Eof
  BY DEF Input!Eof, Eof
<1>2. \A f, i : Input!Located(f, i) = Located(f, i)
  <2> TAKE f, i
  <2>1. Input!NewlinesBefore(f, i) = NewlinesBefore(f, i)
    BY DEF Input!NewlinesBefore, NewlinesBefore
  <2>2. Input!LineStart(f, i) = LineStart(f, i)
    BY ONLY <2>1 DEF Input!LineStart, LineStart
  <2>3. Input!Line(f, i) = Line(f, i)
    BY ONLY <2>1 DEF Input!Line, Line, Input!Cardinality, Cardinality
  <2>4. Input!Column(f, i) = Column(f, i)
    BY ONLY <2>2 DEF Input!Column, Column
  <2> QED BY ONLY <1>1, <2>3, <2>4 DEF Input!Located, Located, Input!LocatedChar, LocatedChar
<1> QED BY <1>1, <1>2

\* What character is located at a position.
LEMMA CharacterAt ==
  ASSUME NEW f \in Seq(Char), NEW i \in 1..(Len(f) + 1)
  PROVE  /\ i <= Len(f) => /\ Located(f, i).character = f[i]
                           /\ f[i] \in Char /\ f[i] # Eof
         /\ i = Len(f) + 1 => Located(f, i).character = Eof
<1>1. Located(f, i).character = IF i <= Len(f) THEN f[i] ELSE Eof
  BY DEF Located, LocatedChar
<1>2. i <= Len(f) => f[i] \in Char
  OBVIOUS
<1> QED BY <1>1, <1>2, CharAssumption

\* Peek returns the character that comes.
LEMMA PeekValue == Input!Coming = Located(file, pos + 1) /\ Peek = Ahead
BY SameText DEF Input!Coming, Peek, Ahead

\* The next character is delivered; the end of the file is not passed.
Reads ==
  /\ file' = file
  /\ got' = <<Located(file, pos + 1)>>
  /\ got' # <<>> /\ got'[1] = Located(file, pos + 1) /\ got'[1].character = Ahead
  /\ pos' \in 0..Len(file)
  /\ Unread' = pos
  /\ \/ /\ pos < Len(file) /\ pos' = pos + 1
        /\ got'[1].character = file[pos'] /\ file[pos'] \in Char /\ file[pos'] # Eof
     \/ /\ pos = Len(file) /\ pos' = pos
        /\ got'[1].character = Eof

\* Deliver reads the next character.
LEMMA DeliverStep == StreamInv /\ Input!Deliver => StreamInv' /\ Reads
<1> SUFFICES ASSUME StreamInv, Input!Deliver PROVE StreamInv' /\ Reads
  OBVIOUS
<1>1. /\ file \in Seq(Char) /\ pos \in 0..Len(file) /\ Len(file) \in Nat
      /\ file' = file
      /\ got' = <<Located(file, pos + 1)>>
      /\ pos' = IF pos < Len(file) THEN pos + 1 ELSE pos
  BY PeekValue DEF StreamInv, Input!Deliver, Input!Consume
<1>2. got' # <<>> /\ got'[1] = Located(file, pos + 1) /\ got'[1].character = Ahead
  BY <1>1 DEF Ahead
<1>3. CASE pos < Len(file)
  <2>1. pos + 1 \in 1..(Len(file) + 1) /\ pos + 1 <= Len(file) /\ pos' = pos + 1
    BY <1>1, <1>3
  <2>2. /\ Located(file, pos + 1).character = file[pos + 1]
        /\ file[pos + 1] \in Char /\ file[pos + 1] # Eof
    BY <1>1, <2>1, CharacterAt
  <2>3. Unread' = pos
    BY <1>1, <1>2, <2>1, <2>2 DEF Unread
  <2> QED BY <1>1, <1>2, <1>3, <2>1, <2>2, <2>3 DEF StreamInv, Reads
<1>4. CASE pos = Len(file)
  <2>1. pos + 1 = Len(file) + 1 /\ pos + 1 \in 1..(Len(file) + 1) /\ pos' = pos
    BY <1>1, <1>4
  <2>2. Located(file, pos + 1).character = Eof
    BY <1>1, <2>1, CharacterAt
  <2>3. Unread' = pos
    BY <1>1, <1>2, <2>1, <2>2 DEF Unread
  <2> QED BY <1>1, <1>2, <1>4, <2>1, <2>2, <2>3 DEF StreamInv, Reads
<1> QED BY <1>1, <1>3, <1>4

\* Next is Deliver, outside of the search for a nonblank character.
LEMMA NextCharStep == StreamInv /\ Input!NextChar => StreamInv' /\ Reads
BY DeliverStep DEF Input!NextChar

\* Whitespace is skipped one character at a time.
Skips ==
  /\ file' = file /\ skipping'
  /\ pos < Len(file) /\ pos' = pos + 1
  /\ file[pos'] \in Whitespace

\* A character that is not blank is delivered, and a blank one is skipped.
LEMMA NextNonwhitespaceStep ==
  ASSUME StreamInv, Input!NextNonwhitespaceChar
  PROVE  /\ StreamInv'
         /\ Skips \/ (Reads /\ ~skipping' /\ got'[1].character \notin Whitespace)
<1>1. /\ file \in Seq(Char) /\ pos \in 0..Len(file) /\ Len(file) \in Nat
      /\ pos + 1 \in 1..(Len(file) + 1)
  BY DEF StreamInv
<1>2. CASE /\ Input!Coming.character \in Whitespace
           /\ Input!Consume
           /\ got' = <<>>
           /\ skipping' = TRUE
           /\ UNCHANGED file
  <2>1. Located(file, pos + 1).character \in Whitespace
    BY <1>2, PeekValue
  <2>2. pos < Len(file) /\ file[pos + 1] \in Whitespace
    BY <1>1, <2>1, CharacterAt, CharAssumption
  <2>3. pos' = pos + 1 /\ file' = file /\ got' = <<>>
    BY <1>2, <2>2 DEF Input!Consume
  <2>4. StreamInv'
    BY <1>1, <2>2, <2>3 DEF StreamInv
  <2> QED BY <1>2, <2>2, <2>3, <2>4 DEF Skips
<1>3. CASE Input!Coming.character \notin Whitespace /\ Input!Deliver
  <2>1. StreamInv' /\ Reads
    BY <1>3, DeliverStep
  <2>2. got'[1].character \notin Whitespace
    <3>1. got'[1] = Located(file, pos + 1)
      BY <2>1 DEF Reads
    <3> QED BY <1>3, <3>1, PeekValue
  <2>3. ~skipping'
    BY <1>3 DEF Input!Deliver
  <2> QED BY <2>1, <2>2, <2>3
<1> QED BY <1>2, <1>3 DEF Input!NextNonwhitespaceChar

\* The character that was delivered last comes again.
LEMMA PutBackStep ==
  ASSUME StreamInv, Input!PutBack
  PROVE  /\ StreamInv'
         /\ file' = file /\ got # <<>>
         /\ pos' = Unread /\ pos' \in 0..Len(file)
         /\ Located(file, pos' + 1) = got[1]
<1>1. /\ file \in Seq(Char) /\ pos \in 0..Len(file) /\ Len(file) \in Nat
      /\ got # <<>> /\ got' = <<>> /\ file' = file
      /\ pos' = IF got[1].character = Eof THEN pos ELSE pos - 1
      /\ \/ pos >= 1 /\ got = <<Located(file, pos)>>
         \/ pos = Len(file) /\ got = <<Located(file, Len(file) + 1)>>
  BY SameText DEF StreamInv, Input!PutBack
<1>2. pos' = Unread
  BY <1>1 DEF Unread
<1>3. pos' \in 0..Len(file) /\ Located(file, pos' + 1) = got[1]
  <2>1. CASE pos >= 1 /\ got = <<Located(file, pos)>>
    <3>1. got[1] = Located(file, pos) /\ pos \in 1..(Len(file) + 1) /\ pos <= Len(file)
      BY <1>1, <2>1
    <3>2. got[1].character # Eof
      BY <1>1, <3>1, CharacterAt
    <3>3. pos' = pos - 1 /\ (pos - 1) + 1 = pos
      BY <1>1, <3>2
    <3> QED BY <1>1, <3>1, <3>3
  <2>2. CASE pos = Len(file) /\ got = <<Located(file, Len(file) + 1)>>
    <3>1. got[1] = Located(file, Len(file) + 1)
      BY <2>2
    <3>2. got[1].character = Eof
      BY <1>1, <3>1, CharacterAt
    <3>3. pos' = pos
      BY <1>1, <3>2
    <3> QED BY <1>1, <2>2, <3>1, <3>3
  <2> QED BY <1>1, <2>1, <2>2
<1>4. StreamInv'
  BY <1>1, <1>3 DEF StreamInv
<1> QED BY <1>1, <1>2, <1>3, <1>4

\* Nothing happens to the stream.
LEMMA StayStep == StreamInv /\ Stay => StreamInv'
BY DEF StreamInv, Stay, streamVars

-----------------------------------------------------------------------------
(* The end of an item.                                                     *)

\* TokensAreTheText for one item.
TextOK(t) ==
  /\ t.type \in TokenTypes \cup {"error"}
  /\ t.type \in Spelled => t.lexeme = Text(t)
  /\ t.type \in Spelled \cup {"string", "eof"} => t.location = Located(file, t.from)
  /\ t.type = "character" =>
       /\ t.location = Located(file, t.from + 1)
       /\ file[t.from] = Apostrophe /\ file[t.end] = Apostrophe
  /\ t.type = "string" =>
       /\ file[t.from] = Quote
       /\ \E k \in t.from..t.end :
            /\ file[k] = Quote
            /\ \A j \in (k + 1)..t.end : file[j] \in Whitespace
       /\ After(t) \notin Whitespace \cup {Quote}

\* LongestMatch for one item.
LongestOK(t) ==
  /\ t.type \in {"integer", "float"} => ~GoesOn(t)
  /\ t.type \in {"operator", "punctuator"} =>
       Append(t.lexeme, After(t)) \notin Operator \cup Punctuator
  /\ t.type \in Spelled /\ Head(t.lexeme) \in IdentifierStart => After(t) \notin IdentifierChar

\* NothingIsDropped for two items in a row.
FollowsOK(before, t) ==
  /\ t.from > before
  /\ Blank(SubSeq(file, before + 1, t.from - 1))

\* The properties say something of every item.
LEMMA EveryItem ==
  /\ TokensAreTheText <=> \A i \in 1..Len(items) : TextOK(items[i])
  /\ LongestMatch <=> \A i \in 1..Len(items) : LongestOK(items[i])
  /\ NothingIsDropped <=>
       /\ \A i \in 1..Len(items) :
            FollowsOK(IF i = 1 THEN 0 ELSE items[i - 1].end, items[i])
       /\ \A i \in 1..Len(items) :
            items[i].type = "eof" => i = Len(items) /\ items[i].from = Len(file) + 1
<1>1. TokensAreTheText <=> \A i \in 1..Len(items) : TextOK(items[i])
  BY Zenon DEF TokensAreTheText, TextOK
<1>2. LongestMatch <=> \A i \in 1..Len(items) : LongestOK(items[i])
  BY Zenon DEF LongestMatch, LongestOK
<1>3. NothingIsDropped <=>
        /\ \A i \in 1..Len(items) :
             FollowsOK(IF i = 1 THEN 0 ELSE items[i - 1].end, items[i])
        /\ \A i \in 1..Len(items) :
             items[i].type = "eof" => i = Len(items) /\ items[i].from = Len(file) + 1
  BY Zenon DEF NothingIsDropped, FollowsOK
<1> QED BY <1>1, <1>2, <1>3

\* The sets of types are what they should be.
LEMMA Types ==
  /\ Spelled \subseteq {"identifier", "integer", "float", "operator", "punctuator",
                        "keyword", "boolean"}
  /\ {"identifier", "integer", "float", "operator", "punctuator"} \subseteq Spelled
  /\ \A k \in DOMAIN KeywordType : KeywordType[k] \in Spelled
  /\ TokenTypes = Spelled \cup {"character", "string", "eof"}
<1>1. \A k \in DOMAIN KeywordType : KeywordType[k] \in {"keyword", "boolean", "operator"}
  BY KeywordAssumption
<1>2. {KeywordType[k] : k \in DOMAIN KeywordType} \subseteq {"keyword", "boolean", "operator"}
  BY <1>1
<1> QED BY <1>1, <1>2 DEF Spelled, TokenTypes

\* An item with the properties keeps them for all items.
LEMMA AddItem ==
  ASSUME StreamInv, GapInv, ItemsInv, StreamInv', at # "returned",
         NEW t \in ItemSet, TextOK(t), LongestOK(t), FollowsOK(Behind, t),
         t.type = "eof" => t.from = Len(file) + 1 /\ at' = "returned",
         t.end = pos',
         file' = file, items' = Append(items, t),
         buffer' \in Seq(Symbols), at' \in {"start", "returned"}
  PROVE  IInv'
<1> DEFINE n == Len(items)
<1>1. /\ items \in Seq(ItemSet) /\ n \in Nat
      /\ items' \in Seq(ItemSet) /\ Len(items') = n + 1 /\ items' # <<>>
      /\ items'[n + 1] = t
      /\ \A i \in 1..n : items'[i] = items[i]
  BY DEF ItemsInv
<1>2. Behind' = t.end
  BY <1>1 DEF Behind
<1>3. t.end \in Nat /\ pos' \in 0..Len(file)
  BY DEF StreamInv
<1>4. GapInv'
  <2>1. ClosedGap(file, t.end, t.end)
    BY <1>3, EmptyGap
  <2>2. Gap(file, t.end, t.end)
    BY <2>1 DEF ClosedGap
  <2>3. Gap(file', Behind', pos') /\ ClosedGap(file', Behind', pos')
    BY <1>2, <2>1, <2>2
  <2> QED BY <1>1, <1>2, <1>3, <2>3 DEF GapInv
<1>5. BeginInv' /\ LexemeInv' /\ QuotedInv'
  BY DEF BeginInv, LexemeInv, QuotedInv, TokenPlaces, ReadPlaces, AheadPlaces, QuotedPlaces
<1>6. items' \in Seq(ItemSet')
  <2>1. ItemSet' = ItemSet
    BY DEF ItemSet
  <2> QED BY <1>1, <2>1
<1>7. \A i \in 1..n : items[i].type # "eof"
  BY DEF ItemsInv
<1>8. \A i \in 1..(n + 1) : items'[i].type = "eof" =>
        at' = "returned" /\ i = n + 1 /\ items'[i].from = Len(file) + 1
  <2> TAKE i \in 1..(n + 1)
  <2>1. CASE i = n + 1
    BY <1>1, <2>1
  <2>2. CASE i # n + 1
    <3>1. i \in 1..n
      BY <1>1, <2>2
    <3> QED BY <1>1, <1>7, <3>1
  <2> QED BY <2>1, <2>2
<1>9. /\ \A i \in 1..n : TextOK(items[i])
      /\ \A i \in 1..n : LongestOK(items[i])
      /\ \A i \in 1..n : FollowsOK(IF i = 1 THEN 0 ELSE items[i - 1].end, items[i])
  BY EveryItem DEF ItemsInv
<1>10. ASSUME NEW i \in 1..(n + 1)
       PROVE  /\ TextOK(items'[i])
              /\ LongestOK(items'[i])
              /\ FollowsOK(IF i = 1 THEN 0 ELSE items'[i - 1].end, items'[i])
  <2>1. CASE i = n + 1
    <3>1. TextOK(items'[i]) /\ LongestOK(items'[i])
      BY <1>1, <2>1
    <3>2. (IF i = 1 THEN 0 ELSE items'[i - 1].end) = Behind
      BY <1>1, <2>1 DEF Behind
    <3>3. items'[i] = t
      BY <1>1, <2>1
    <3> QED BY ONLY <3>1, <3>2, <3>3, FollowsOK(Behind, t)
  <2>2. CASE i # n + 1
    <3>1. i \in 1..n /\ (i # 1 => i - 1 \in 1..n)
      BY <1>1, <2>2
    <3>2. items'[i] = items[i] /\ (i # 1 => items'[i - 1] = items[i - 1])
      BY <1>1, <3>1
    <3>3. (IF i = 1 THEN 0 ELSE items'[i - 1].end) = (IF i = 1 THEN 0 ELSE items[i - 1].end)
      BY <3>2
    <3>4. /\ TextOK(items[i]) /\ LongestOK(items[i])
          /\ FollowsOK(IF i = 1 THEN 0 ELSE items[i - 1].end, items[i])
      BY ONLY <1>9, <3>1
    <3> QED BY ONLY <3>2, <3>3, <3>4
  <2> QED BY <2>1, <2>2
<1>11. (\A i \in 1..Len(items) : TextOK(items[i]))'
  <2>1. \A i \in 1..(n + 1) : TextOK(items'[i])
    BY <1>10
  <2> HIDE DEF n
  <2> QED BY ONLY <1>1, <2>1, file' = file
       DEF TextOK, Text, After
<1>12. (\A i \in 1..Len(items) : LongestOK(items[i]))'
  <2>1. \A i \in 1..(n + 1) : LongestOK(items'[i])
    BY <1>10
  <2> HIDE DEF n
  <2> QED BY ONLY <1>1, <2>1, file' = file
       DEF LongestOK, GoesOn, After
<1>13. (\A i \in 1..Len(items) : FollowsOK(IF i = 1 THEN 0 ELSE items[i - 1].end, items[i]))'
  <2>1. \A i \in 1..(n + 1) : FollowsOK(IF i = 1 THEN 0 ELSE items'[i - 1].end, items'[i])
    BY <1>10
  <2> HIDE DEF n
  <2> QED BY ONLY <1>1, <2>1, file' = file DEF FollowsOK
<1>14. TokensAreTheText' /\ LongestMatch' /\ NothingIsDropped'
  <2>1. /\ TokensAreTheText' <=> (\A i \in 1..Len(items) : TextOK(items[i]))'
        /\ LongestMatch' <=> (\A i \in 1..Len(items) : LongestOK(items[i]))'
        /\ NothingIsDropped' <=>
             /\ (\A i \in 1..Len(items) :
                  FollowsOK(IF i = 1 THEN 0 ELSE items[i - 1].end, items[i]))'
             /\ (\A i \in 1..Len(items) :
                  items[i].type = "eof" => i = Len(items) /\ items[i].from = Len(file) + 1)'
    BY EveryItem, PTL
  <2>2. (\A i \in 1..Len(items) :
            items[i].type = "eof" => i = Len(items) /\ items[i].from = Len(file) + 1)'
    BY <1>1, <1>8
  <2> QED BY ONLY <1>11, <1>12, <1>13, <2>1, <2>2
<1>15. ItemsInv'
  <2>1. (\A i \in 1..Len(items) : items[i].type = "eof" => at = "returned" /\ i = Len(items))'
    BY <1>1, <1>8
  <2>2. at' \in TokenPlaces \cup {"start", "dispatch", "comment", "returned"}
    OBVIOUS
  <2> QED BY <1>6, <1>14, <2>1, <2>2 DEF ItemsInv, Symbols
<1> QED BY <1>4, <1>5, <1>15 DEF IInv

\* Before an item is complete the scanner knows where it begins, and behind what.
LEMMA ItemBegun ==
  ASSUME StreamInv, GapInv, BeginInv, at \in TokenPlaces \cup {"dispatch"}
  PROVE  /\ begin \in 1..(Len(file) + 1)
         /\ located \in {Located(file, i) : i \in 1..(Len(file) + 1)}
         /\ begin > Behind
         /\ Blank(SubSeq(file, Behind + 1, begin - 1))
         /\ at \in TokenPlaces => begin <= pos /\ begin <= Len(file)
<1>1. /\ file \in Seq(Char) /\ pos \in 0..Len(file) /\ Len(file) \in Nat /\ Behind \in 0..Len(file)
  BY DEF StreamInv, GapInv
<1>2. begin \in 1..(Len(file) + 1) /\ Gap(file, Behind, begin - 1)
  BY DEF BeginInv
<1>3. begin > Behind /\ Blank(SubSeq(file, Behind + 1, begin - 1))
  BY <1>1, <1>2 DEF Gap
<1>4. at \in TokenPlaces => begin <= pos /\ begin <= Len(file) /\ begin + 1 \in 1..(Len(file) + 1)
  BY <1>1, <1>2 DEF BeginInv
<1>5. located \in {Located(file, begin), Located(file, begin + 1)}
      /\ (at \notin TokenPlaces => located = Located(file, begin))
  BY DEF BeginInv
<1> QED BY <1>1, <1>2, <1>3, <1>4, <1>5

\* The invariant survives the end of an item.
LEMMA ItemStep ==
  ASSUME IInv, StreamInv', file' = file, at \in TokenPlaces \cup {"dispatch"},
         NEW t, t \in [type : TokenTypes \cup {"error"},
                       location : {Located(file, i) : i \in 1..(Len(file) + 1)},
                       lexeme : {buffer}, from : {begin}, end : {pos'}],
         TextOK(t), LongestOK(t),
         t.type = "eof" => t.from = Len(file) + 1 /\ at' = "returned",
         items' = Append(items, t), buffer' = buffer, at' \in {"start", "returned"}
  PROVE  IInv'
<1>1. StreamInv /\ GapInv /\ BeginInv /\ ItemsInv
  BY DEF IInv
<1>2. /\ begin \in 1..(Len(file) + 1)
      /\ begin > Behind
      /\ Blank(SubSeq(file, Behind + 1, begin - 1))
  BY <1>1, ItemBegun
<1>3. buffer \in Seq(Symbols) /\ pos' \in Nat /\ begin \in Nat
  <2>1. Len(file) \in Nat
    BY <1>1 DEF StreamInv
  <2> QED BY <1>1, <1>2, <2>1 DEF ItemsInv, StreamInv
<1>4. t \in ItemSet
  BY <1>3 DEF ItemSet
<1>5. FollowsOK(Behind, t) /\ t.end = pos'
  BY <1>2 DEF FollowsOK
<1>6. at # "returned"
  BY DEF TokenPlaces, ReadPlaces, AheadPlaces, QuotedPlaces
<1> QED BY <1>1, <1>3, <1>4, <1>5, <1>6, AddItem

\* The invariant survives an error.
LEMMA ErrorStep ==
  ASSUME IInv, StreamInv', file' = file, at \in TokenPlaces \cup {"dispatch"}, LogError
  PROVE  IInv'
<1>1. /\ items' = Append(items, Item("error")) /\ at' = "start" /\ buffer' = buffer
  BY DEF LogError
<1>2. located \in {Located(file, i) : i \in 1..(Len(file) + 1)}
  BY ItemBegun DEF IInv
<1>3. PICK t : t = Item("error")
  OBVIOUS
<1>4. /\ t \in [type : TokenTypes \cup {"error"},
                location : {Located(file, i) : i \in 1..(Len(file) + 1)},
                lexeme : {buffer}, from : {begin}, end : {pos'}]
      /\ t.type = "error"
  <2>1. t = [type |-> "error", location |-> located, lexeme |-> buffer, from |-> begin,
             end |-> pos']
    BY <1>3 DEF Item
  <2> QED BY ONLY <1>2, <2>1
<1>5. TextOK(t) /\ LongestOK(t)
  BY <1>4, Types DEF TextOK, LongestOK
<1> QED BY <1>1, <1>3, <1>4, <1>5, ItemStep

\* The invariant survives a token that is what was read.
LEMMA ReturnStep ==
  ASSUME IInv, StreamInv', file' = file, at \in TokenPlaces \cup {"dispatch"},
         NEW type \in TokenTypes, Return(type),
         type = "eof" => begin = Len(file) + 1,
         type \in Spelled \cup {"string", "eof"} => located = Located(file, begin),
         type = "character" => /\ located = Located(file, begin + 1)
                               /\ file[begin] = Apostrophe /\ file[pos'] = Apostrophe,
         type = "string" =>
            /\ file[begin] = Quote
            /\ Quoted(file, begin, pos')
            /\ Located(file, pos' + 1).character \notin Whitespace \cup {Quote},
         type \in Spelled => buffer = SubSeq(file, begin, pos'),
         type \in {"integer", "float"} =>
           /\ Located(file, pos' + 1).character \notin Digit
           /\ type = "integer" /\ Located(file, pos' + 1).character = "." =>
                Located(file, pos' + 2).character \notin Digit
           /\ type = "float" /\ Located(file, pos' + 1).character \in ExponentMark =>
                HasExponent(buffer),
         type \in {"operator", "punctuator"} =>
           Append(buffer, Located(file, pos' + 1).character) \notin Operator \cup Punctuator,
         type \in Spelled /\ Head(buffer) \in IdentifierStart =>
           Located(file, pos' + 1).character \notin IdentifierChar
  PROVE  IInv'
<1>1. /\ items' = Append(items, Item(type)) /\ at' = "returned" /\ buffer' = buffer
  BY DEF Return
<1>2. located \in {Located(file, i) : i \in 1..(Len(file) + 1)}
  BY ItemBegun DEF IInv
<1>3. PICK t : t = Item(type)
  OBVIOUS
<1>4. /\ t \in [type : TokenTypes \cup {"error"},
                location : {Located(file, i) : i \in 1..(Len(file) + 1)},
                lexeme : {buffer}, from : {begin}, end : {pos'}]
  BY <1>2, <1>3 DEF Item
<1>5. /\ t.type = type /\ t.location = located /\ t.lexeme = buffer
      /\ t.from = begin /\ t.end = pos'
  BY <1>3 DEF Item
<1>6. TextOK(t)
  BY <1>5 DEF TextOK, Text, After, Quoted
<1>7. LongestOK(t)
  <2>1. type \in {"integer", "float"} => ~GoesOn(t)
    BY <1>5 DEF GoesOn, After, HasExponent
  <2>2. /\ type \in {"operator", "punctuator"} =>
             Append(t.lexeme, After(t)) \notin Operator \cup Punctuator
        /\ type \in Spelled /\ Head(t.lexeme) \in IdentifierStart =>
             After(t) \notin IdentifierChar
    BY <1>5 DEF After
  <2> QED BY <1>5, <2>1, <2>2 DEF LongestOK
<1> QED BY <1>1, <1>3, <1>4, <1>5, <1>6, <1>7, ItemStep

-----------------------------------------------------------------------------
(* The tables of operators and punctuators, and the classes of characters. *)

\* Every lexeme of the tables has one character or two.
LEMMA Lexemes ==
  ASSUME NEW lexeme
  PROVE  lexeme \in Operator \cup Punctuator <=>
           \/ \E c \in {"+", "-", "*", "/", "%", ">", "<", "!", "=",
                        "{", "}", "[", "]", "(", ")", ",", "."} : lexeme = <<c>>
           \/ \E c \in {"=", "!", ">", "<", "+", "-", "*", "/", "%"} : lexeme = <<c, "=">>
           \/ \E c \in {"/", "&", "|"} : lexeme = <<c, c>>
           \/ \E c \in {">", "<"} : lexeme = <<"=", c>>
           \/ lexeme = <<"-", ">">>
BY Zenon DEF Operator, Punctuator

\* The first characters.
LEMMA Starts ==
  OperatorOrPunctuatorStart =
    {"+", "-", "*", "/", "%", ">", "<", "!", "=", "{", "}", "[", "]", "(", ")", ",", ".",
     "&", "|"}
<1> DEFINE S == {"+", "-", "*", "/", "%", ">", "<", "!", "=", "{", "}", "[", "]", "(", ")", ",",
                 ".", "&", "|"}
<1>1. ASSUME NEW lexeme \in Operator \cup Punctuator PROVE lexeme[1] \in S
  <2>1. CASE \E c \in {"+", "-", "*", "/", "%", ">", "<", "!", "=",
                       "{", "}", "[", "]", "(", ")", ",", "."} : lexeme = <<c>>
    <3>1. PICK c \in S : lexeme = <<c>>
      BY ONLY <2>1
    <3>2. <<c>>[1] = c
      OBVIOUS
    <3> QED BY ONLY <3>1, <3>2
  <2>2. CASE \E c \in {"=", "!", ">", "<", "+", "-", "*", "/", "%"} : lexeme = <<c, "=">>
    <3>1. PICK c \in S : lexeme = <<c, "=">>
      BY ONLY <2>2
    <3>2. <<c, "=">>[1] = c
      OBVIOUS
    <3> QED BY ONLY <3>1, <3>2
  <2>3. CASE \E c \in {"/", "&", "|"} : lexeme = <<c, c>>
    <3>1. PICK c \in S : lexeme = <<c, c>>
      BY ONLY <2>3
    <3>2. <<c, c>>[1] = c
      OBVIOUS
    <3> QED BY ONLY <3>1, <3>2
  <2>4. CASE \E c \in {">", "<"} : lexeme = <<"=", c>>
    BY ONLY <2>4
  <2>5. CASE lexeme = <<"-", ">">>
    BY ONLY <2>5
  <2> QED BY ONLY <1>1, <2>1, <2>2, <2>3, <2>4, <2>5, Lexemes
<1>2. ASSUME NEW c \in S PROVE \E lexeme \in Operator \cup Punctuator : lexeme[1] = c
  <2>1. CASE c \in {"&", "|"}
    <3>1. <<c, c>> \in Operator \cup Punctuator
      BY ONLY <2>1, Lexemes
    <3>2. <<c, c>>[1] = c
      OBVIOUS
    <3> QED BY <3>1, <3>2
  <2>2. CASE c \notin {"&", "|"}
    <3>1. <<c>> \in Operator \cup Punctuator
      BY ONLY <1>2, <2>2, Lexemes
    <3>2. <<c>>[1] = c
      OBVIOUS
    <3> QED BY <3>1, <3>2
  <2> QED BY <2>1, <2>2
<1>3. \A c : c \in OperatorOrPunctuatorStart <=>
              \E lexeme \in Operator \cup Punctuator : c = lexeme[1]
  BY DEF OperatorOrPunctuatorStart
<1>4. \A c : c \in OperatorOrPunctuatorStart <=> c \in S
  <2> HIDE DEF S
  <2> QED BY ONLY <1>1, <1>2, <1>3
<1> QED BY <1>4

\* An operator or punctuator ends where the table has no longer one.
LEMMA OperatorEnds ==
  ASSUME NEW c \in OperatorOrPunctuatorStart, NEW d
  PROVE  /\ d \in Second(c) => <<c, d>> \in Operator \cup Punctuator
         /\ d \notin Second(c) => <<c, d>> \notin Operator \cup Punctuator
         /\ c \notin {"&", "|"} => <<c>> \in Operator \cup Punctuator
<1>1. c \in {"+", "-", "*", "/", "%", ">", "<", "!", "=", "{", "}", "[", "]", "(", ")", ",", ".",
             "&", "|"}
  BY Starts
<1>2. <<c, d>> \in Operator \cup Punctuator <=>
        \/ c \in {"=", "!", ">", "<", "+", "-", "*", "/", "%"} /\ d = "="
        \/ c \in {"/", "&", "|"} /\ d = c
        \/ c = "=" /\ d \in {">", "<"}
        \/ c = "-" /\ d = ">"
  <2>1. /\ \A x : <<c, d>> # <<x>>
        /\ \A x, y : <<c, d>> = <<x, y>> <=> c = x /\ d = y
    OBVIOUS
  <2> QED BY ONLY <2>1, Lexemes
<1>3. d \in Second(c) <=>
        \/ c \in {"=", "!", ">", "<", "+", "-", "*", "/", "%"} /\ d = "="
        \/ c \in {"/", "&", "|"} /\ d = c
        \/ c = "=" /\ d \in {">", "<"}
        \/ c = "-" /\ d = ">"
  BY ONLY <1>1 DEF Second
<1>4. c \notin {"&", "|"} => <<c>> \in Operator \cup Punctuator
  BY ONLY <1>1, Lexemes
<1> QED BY ONLY <1>2, <1>3, <1>4

\* No lexeme of the tables has three characters.
LEMMA NoThird ==
  ASSUME NEW c, NEW d, NEW e
  PROVE  Append(<<c, d>>, e) \notin Operator \cup Punctuator
<1>1. Len(Append(<<c, d>>, e)) = 3
  <2>1. <<c, d>> \in Seq({c, d, e}) /\ Len(<<c, d>>) = 2
    OBVIOUS
  <2> QED BY ONLY <2>1
<1>2. /\ \A x : Len(<<x>>) = 1
      /\ \A x, y : Len(<<x, y>>) = 2
  OBVIOUS
<1>3. ASSUME NEW lexeme \in Operator \cup Punctuator PROVE Len(lexeme) \in {1, 2}
  <2>1. (\E x : lexeme = <<x>>) \/ (\E x, y : lexeme = <<x, y>>)
    BY ONLY <1>3, Lexemes, Zenon
  <2> QED BY ONLY <1>2, <2>1
<1> DEFINE longer == Append(<<c, d>>, e)
<1>4. Len(longer) = 3
  BY <1>1
<1> HIDE DEF longer
<1>5. longer \notin Operator \cup Punctuator
  BY ONLY <1>3, <1>4
<1> QED BY <1>5 DEF longer

\* The classes do not overlap, and the end of the file is in none of them.
LEMMA Classes ==
  /\ IdentifierStart \cap (NumberStart \cup OperatorOrPunctuatorStart) = {}
  /\ Eof \notin IdentifierStart \cup NumberStart \cup OperatorOrPunctuatorStart
  /\ Eof \notin {Apostrophe, Quote, Hash, Escape, Newline}
  /\ "." \notin Digit
  /\ Newline \in Char /\ Eof \notin Whitespace
<1>1. "_" \notin OperatorOrPunctuatorStart /\ "." \in OperatorOrPunctuatorStart
      /\ Eof \notin OperatorOrPunctuatorStart
  BY Starts DEF Eof
<1>2. /\ Eof \notin Letter \cup Digit /\ Eof \notin Whitespace /\ Newline \in Char
      /\ Letter \cap Digit = {}
      /\ (Letter \cup Digit) \cap (OperatorOrPunctuatorStart \cup {"_"}) = {}
  BY CharAssumption, ClassAssumption
<1>3. /\ Eof # "_" /\ Eof # "." /\ "_" # "." /\ Eof # Newline
      /\ Eof \notin {Apostrophe, Quote, Hash, Escape}
  BY CharAssumption DEF Eof, Apostrophe, Quote, Hash, Escape
<1> QED BY ONLY <1>1, <1>2, <1>3 DEF IdentifierStart, NumberStart

\* No operator or punctuator begins like a word.
LEMMA WordsAreNoOperators ==
  ASSUME NEW S, NEW word \in Seq(S), word # <<>>, word[1] \in IdentifierStart, NEW c
  PROVE  Append(word, c) \notin Operator \cup Punctuator
<1>1. Append(word, c)[1] = word[1]
  <2>1. word \in Seq(S \cup {c}) /\ c \in S \cup {c} /\ Len(word) \in Nat \ {0}
    BY EmptySeq, SeqMonotonic
  <2> QED BY <2>1
<1>2. \A lexeme \in Operator \cup Punctuator : lexeme[1] \in OperatorOrPunctuatorStart
  BY DEF OperatorOrPunctuatorStart
<1>3. word[1] \notin OperatorOrPunctuatorStart
  BY Classes
<1> QED BY ONLY <1>1, <1>2, <1>3

-----------------------------------------------------------------------------
(* What the steps within a token have in common.                           *)

\* Where a token is being read.
LEMMA TokenFacts ==
  ASSUME IInv, at \in TokenPlaces
  PROVE  /\ file \in Seq(Char) /\ Len(file) \in Nat /\ pos \in 0..Len(file)
         /\ begin \in 1..Len(file) /\ begin <= pos
         /\ buffer \in Seq(Symbols) /\ Char \subseteq Symbols
BY ItemBegun DEF IInv, StreamInv, ItemsInv, Symbols

\* A text begins with the character at its beginning.
LEMMA HeadOfText ==
  ASSUME NEW S, NEW f \in Seq(S), NEW b \in 1..Len(f), NEW p \in b..Len(f)
  PROVE  /\ SubSeq(f, b, p) \in Seq(S) /\ SubSeq(f, b, p) # <<>>
         /\ SubSeq(f, b, p)[1] = f[b] /\ Head(SubSeq(f, b, p)) = f[b]
<1> DEFINE s == SubSeq(f, b, p)
<1>1. \A i \in b..p : f[i] \in S
  OBVIOUS
<1>2. s \in Seq(S) /\ Len(s) = p - b + 1 /\ \A i \in 1..(p - b + 1) : s[i] = f[b + i - 1]
  <2> HIDE DEF s
  <2>1. b \in Int /\ p \in Int /\ b <= p
    OBVIOUS
  <2> QED BY <1>1, <2>1, SubSeqProperties DEF s
<1> HIDE DEF s
<1>3. 1 \in 1..(p - b + 1) /\ b + 1 - 1 = b
  OBVIOUS
<1>4. s[1] = f[b] /\ Len(s) >= 1
  BY <1>2, <1>3
<1>5. s # <<>> /\ Head(s) = s[1]
  BY <1>2, <1>4
<1> QED BY <1>2, <1>4, <1>5 DEF s

\* An exponent mark stays in the lexeme.
LEMMA ExponentStays ==
  ASSUME NEW word \in Seq(Symbols), NEW c \in Symbols, HasExponent(word) \/ c \in ExponentMark
  PROVE  HasExponent(Append(word, c))
<1> DEFINE longer == Append(word, c)
<1>1. /\ Len(word) \in Nat /\ Len(longer) = Len(word) + 1 /\ longer[Len(word) + 1] = c
      /\ \A i \in 1..Len(word) : longer[i] = word[i]
  OBVIOUS
<1> HIDE DEF longer
<1>2. CASE c \in ExponentMark
  BY <1>1, <1>2 DEF HasExponent, longer
<1>3. CASE HasExponent(word)
  <2>1. PICK k \in 1..Len(word) : word[k] \in ExponentMark
    BY <1>3 DEF HasExponent
  <2>2. k \in 1..Len(longer) /\ longer[k] \in ExponentMark
    BY <1>1, <2>1
  <2> QED BY <2>2 DEF HasExponent, longer
<1> QED BY <1>2, <1>3

\* As long as no item is added they stay what they are.
LEMMA SameItems ==
  ASSUME ItemsInv, file' = file, items' = items,
         \A i \in 1..Len(items) : items[i].type = "eof" => at' = "returned",
         at' \in TokenPlaces \cup {"start", "dispatch", "comment", "returned"},
         buffer' \in Seq(Symbols)
  PROVE  ItemsInv'
<1>1. TokensAreTheText'
  BY DEF ItemsInv, TokensAreTheText, Text, After
<1>2. NothingIsDropped'
  BY DEF ItemsInv, NothingIsDropped
<1>3. LongestMatch'
  BY DEF ItemsInv, LongestMatch, GoesOn, After
<1>4. items' \in Seq(ItemSet')
  BY DEF ItemsInv, ItemSet
<1> QED BY <1>1, <1>2, <1>3, <1>4 DEF ItemsInv, Symbols

\* Within a token it is the lexeme, and the literal, that the invariant is about.
LEMMA GoOn ==
  ASSUME IInv, StreamInv', file' = file, at \in TokenPlaces \cup {"dispatch"}, at' \in TokenPlaces,
         begin' = begin, items' = items, begin <= pos',
         located' = Located(file, IF at' \in {"character_escape", "character_end"}
                                  THEN begin + 1 ELSE begin),
         buffer' \in Seq(Symbols), LexemeInv', QuotedInv'
  PROVE  IInv'
<1>1. Behind' = Behind
  BY DEF Behind
<1>2. /\ at' \notin {"start", "comment", "returned", "dispatch"}
      /\ at \notin {"start", "comment", "returned"}
  BY DEF TokenPlaces, ReadPlaces, AheadPlaces, QuotedPlaces
<1>3. GapInv'
  BY <1>1, <1>2 DEF IInv, GapInv
<1>4. BeginInv'
  <2>1. begin \in 1..(Len(file) + 1) /\ Gap(file, Behind, begin - 1)
    BY DEF IInv, BeginInv
  <2>2. Gap(file', Behind', begin' - 1)
    BY <1>1, <2>1
  <2> QED BY <1>2, <2>1, <2>2 DEF BeginInv
<1>5. ItemsInv'
  BY <1>2, SameItems DEF IInv, ItemsInv
<1> QED BY <1>3, <1>4, <1>5 DEF IInv

\* A character is read into the buffer.
LEMMA PushNextStep ==
  ASSUME IInv, at \in ReadPlaces, NEW place, PushNext(place), Peek # Eof
  PROVE  /\ StreamInv' /\ file' = file /\ pos' = pos + 1 /\ pos < Len(file)
         /\ UNCHANGED <<begin, located, items>> /\ at' = place
         /\ buffer' = Append(buffer, Ahead) /\ Ahead \in Symbols
         /\ buffer' \in Seq(Symbols)
         /\ buffer' = SubSeq(file, begin, pos')
         /\ begin <= pos'
<1>1. /\ file \in Seq(Char) /\ Len(file) \in Nat /\ pos \in 0..Len(file)
      /\ begin \in 1..Len(file) /\ begin <= pos
      /\ buffer \in Seq(Symbols) /\ Char \subseteq Symbols
  BY TokenFacts DEF TokenPlaces
<1>2. /\ StreamInv' /\ Reads
      /\ buffer' = Append(buffer, got'[1].character) /\ at' = place
      /\ UNCHANGED <<begin, located, items>>
  BY NextCharStep DEF IInv, PushNext, Push
<1>3. /\ file' = file /\ pos < Len(file) /\ pos' = pos + 1
      /\ got'[1].character = Ahead
      /\ Ahead = file[pos + 1] /\ file[pos + 1] \in Char
  BY <1>2, PeekValue DEF Reads
<1>4. buffer = SubSeq(file, begin, pos)
  BY DEF IInv, LexemeInv
<1>5. SubSeq(file, begin, pos + 1) = Append(SubSeq(file, begin, pos), file[pos + 1])
  <2>1. pos \in (begin - 1)..(Len(file) - 1)
    BY <1>1, <1>3
  <2> QED BY <1>1, <2>1, TextGrows
<1>6. buffer' = Append(buffer, Ahead) /\ Ahead \in Symbols
  BY <1>1, <1>2, <1>3
<1>7. buffer' = SubSeq(file, begin, pos')
  BY ONLY <1>3, <1>4, <1>5, <1>6
<1>8. buffer' \in Seq(Symbols)
  BY ONLY <1>1, <1>6
<1>9. begin <= pos'
  BY <1>1, <1>3
<1> QED BY <1>2, <1>3, <1>6, <1>7, <1>8, <1>9

\* The character that was read ahead goes into the buffer.
LEMMA PushGotStep ==
  ASSUME IInv, at \in AheadPlaces, got[1].character # Eof
  PROVE  /\ Unread = pos - 1 /\ begin <= pos
         /\ got[1].character \in Symbols
         /\ Append(buffer, got[1].character) = SubSeq(file, begin, pos)
         /\ Append(buffer, got[1].character) \in Seq(Symbols)
<1>1. /\ file \in Seq(Char) /\ Len(file) \in Nat /\ pos \in 0..Len(file)
      /\ begin \in 1..Len(file) /\ begin <= pos
      /\ buffer \in Seq(Symbols) /\ Char \subseteq Symbols
  BY TokenFacts DEF TokenPlaces
<1>2. got # <<>> /\ buffer = SubSeq(file, begin, Unread)
  BY DEF IInv, LexemeInv
<1>3. Unread = pos - 1
  BY DEF Unread
<1>4. got[1].character = file[pos] /\ file[pos] \in Char
  <2>1. CASE pos >= 1 /\ got = <<Located(file, pos)>>
    <3>1. got[1] = Located(file, pos) /\ pos \in 1..(Len(file) + 1) /\ pos <= Len(file)
      BY <1>1, <2>1
    <3> QED BY <1>1, <3>1, CharacterAt
  <2>2. CASE pos = Len(file) /\ got = <<Located(file, Len(file) + 1)>>
    <3>1. got[1] = Located(file, Len(file) + 1) /\ Len(file) + 1 \in 1..(Len(file) + 1)
      BY <1>1, <2>2
    <3>2. got[1].character = Eof
      BY <1>1, <3>1, CharacterAt
    <3> QED BY <3>2
  <2> QED BY <1>2, <2>1, <2>2 DEF IInv, StreamInv
<1>5. SubSeq(file, begin, pos) = Append(SubSeq(file, begin, pos - 1), file[pos])
  <2>1. pos - 1 \in (begin - 1)..(Len(file) - 1) /\ (pos - 1) + 1 = pos
    BY <1>1
  <2>2. SubSeq(file, begin, (pos - 1) + 1) =
          Append(SubSeq(file, begin, pos - 1), file[(pos - 1) + 1])
    BY ONLY <1>1, <2>1, TextGrows
  <2> QED BY ONLY <2>1, <2>2
<1>6. Append(buffer, got[1].character) = SubSeq(file, begin, pos)
  BY ONLY <1>2, <1>3, <1>4, <1>5
<1>7. got[1].character \in Symbols
  BY <1>1, <1>4
<1>8. Append(buffer, got[1].character) \in Seq(Symbols)
  BY ONLY <1>1, <1>7
<1> QED BY <1>1, <1>3, <1>6, <1>7, <1>8

-----------------------------------------------------------------------------
(* Between tokens.                                                         *)

\* The invariant survives the search for a token.
LEMMA FirstCharStep == IInv /\ FirstChar => IInv'
<1> SUFFICES ASSUME IInv, FirstChar PROVE IInv'
  OBVIOUS
<1>1. /\ file \in Seq(Char) /\ Len(file) \in Nat /\ pos \in 0..Len(file)
      /\ Behind \in 0..Len(file) /\ at = "start"
      /\ Gap(file, Behind, pos)
      /\ ClosedGap(file, Behind, pos) \/ pos = Len(file)
  BY DEF IInv, StreamInv, GapInv, FirstChar
<1>2. /\ StreamInv'
      /\ Skips \/ (Reads /\ ~skipping' /\ got'[1].character \notin Whitespace)
  BY NextNonwhitespaceStep DEF IInv, FirstChar
<1>3. \A i \in 1..Len(items) : items[i].type # "eof"
  BY <1>1 DEF IInv, ItemsInv
<1>4. CASE Skips
  <2>1. /\ file' = file /\ pos < Len(file) /\ pos' = pos + 1
        /\ file[pos + 1] \in Whitespace
        /\ UNCHANGED <<at, scannerVars>>
    BY <1>4 DEF Skips, FirstChar
  <2>2. Behind' = Behind
    BY <2>1 DEF Behind, scannerVars
  <2>3. ClosedGap(file, Behind, pos + 1)
    <3>1. pos \in 0..(Len(file) - 1) /\ Behind \in Nat /\ ClosedGap(file, Behind, pos)
      BY <1>1, <2>1
    <3> QED BY <1>1, <2>1, <3>1, GapGrows
  <2>4. GapInv'
    <3>1. ClosedGap(file', Behind', pos')
      BY ONLY <2>1, <2>2, <2>3
    <3>2. Gap(file', Behind', pos')
      BY ONLY <3>1, Zenon DEF ClosedGap
    <3>3. at' = "start" /\ Behind' \in 0..Len(file')
      BY <1>1, <2>1, <2>2
    <3> QED BY ONLY <3>1, <3>2, <3>3 DEF GapInv
  <2>5. BeginInv' /\ LexemeInv' /\ QuotedInv'
    <3>1. at' = "start"
      BY <1>1, <2>1
    <3> QED BY <3>1 DEF BeginInv, LexemeInv, QuotedInv, TokenPlaces, ReadPlaces, AheadPlaces,
                        QuotedPlaces
  <2>6. ItemsInv'
    <3>1. items' = items /\ buffer' = buffer /\ at' = "start"
      BY <1>1, <2>1 DEF scannerVars
    <3> QED BY <1>3, <2>1, <3>1, SameItems DEF IInv, ItemsInv
  <2> QED BY <1>2, <2>4, <2>5, <2>6 DEF IInv
<1>5. CASE Reads /\ ~skipping' /\ got'[1].character \notin Whitespace
  <2>1. /\ file' = file
        /\ begin' = pos + 1 /\ located' = got'[1] /\ buffer' = <<>> /\ at' = "dispatch"
        /\ items' = items
        /\ got' = <<Located(file, pos + 1)>> /\ got'[1] = Located(file, pos + 1)
        /\ got'[1].character \notin Whitespace
        /\ (pos < Len(file) /\ pos' = pos + 1) \/ (pos = Len(file) /\ pos' = pos)
    BY <1>5 DEF Reads, FirstChar
  <2>2. Behind' = Behind
    BY <2>1 DEF Behind
  <2>3. GapInv'
    BY <1>1, <2>1, <2>2 DEF GapInv
  <2>4. BeginInv'
    <3>1. begin' - 1 = pos /\ begin' \in 1..(Len(file') + 1)
      BY <1>1, <2>1
    <3>2. Gap(file', Behind', begin' - 1)
      BY ONLY <1>1, <2>1, <2>2, <3>1
    <3>3. got' = <<located'>> /\ located' = Located(file', begin')
          /\ located'.character \notin Whitespace
      BY ONLY <2>1
    <3>4. \/ begin' = pos' /\ ClosedGap(file', Behind', begin' - 1)
          \/ begin' = Len(file') + 1 /\ pos' = Len(file')
      <4>1. CASE pos < Len(file) /\ pos' = pos + 1
        <5>1. ClosedGap(file, Behind, pos) /\ begin' = pos'
          BY <1>1, <2>1, <4>1
        <5> QED BY ONLY <2>1, <2>2, <3>1, <5>1
      <4>2. CASE pos = Len(file) /\ pos' = pos
        BY <1>1, <2>1, <4>2
      <4> QED BY <2>1, <4>1, <4>2
    <3>5. at' = "dispatch" /\ at' \notin TokenPlaces /\ buffer' = <<>>
      BY <2>1 DEF TokenPlaces, ReadPlaces, AheadPlaces, QuotedPlaces
    <3> QED BY ONLY <3>1, <3>2, <3>3, <3>4, <3>5 DEF BeginInv
  <2>5. LexemeInv' /\ QuotedInv'
    BY <2>1 DEF LexemeInv, QuotedInv, TokenPlaces, ReadPlaces, AheadPlaces, QuotedPlaces
  <2>6. ItemsInv'
    <3>1. buffer' \in Seq(Symbols)
      BY <2>1
    <3> QED BY <1>3, <2>1, <3>1, SameItems DEF IInv
  <2> QED BY <1>2, <2>3, <2>4, <2>5, <2>6 DEF IInv
<1> QED BY <1>2, <1>4, <1>5

\* The invariant survives a step within a comment.
LEMMA ScanCommentStep == IInv /\ ScanComment => IInv'
<1> SUFFICES ASSUME IInv, ScanComment PROVE IInv'
  OBVIOUS
<1>1. /\ file \in Seq(Char) /\ Len(file) \in Nat /\ pos \in 0..Len(file)
      /\ Behind \in 0..Len(file) /\ at = "comment"
      /\ OpenGap(file, Behind, pos)
  BY DEF IInv, StreamInv, GapInv, ScanComment
<1>2. StreamInv' /\ Reads
  BY NextCharStep DEF IInv, ScanComment
<1>3. /\ file' = file /\ items' = items /\ buffer' = buffer
      /\ at' = IF got'[1].character \in {Hash, Newline, Eof} THEN "start" ELSE "comment"
  BY <1>2 DEF Reads, ScanComment, Goto, scannerVars
<1>4. Behind' = Behind
  BY <1>3 DEF Behind
<1>5. /\ at' = "start" => /\ Gap(file, Behind, pos')
                          /\ ClosedGap(file, Behind, pos') \/ pos' = Len(file)
      /\ at' = "comment" => OpenGap(file, Behind, pos')
  <2>1. CASE /\ pos < Len(file) /\ pos' = pos + 1
             /\ got'[1].character = file[pos'] /\ file[pos'] \in Char /\ file[pos'] # Eof
    <3>1. /\ file[pos + 1] \in {Hash, Newline} => ClosedGap(file, Behind, pos + 1)
          /\ file[pos + 1] \notin {Hash, Newline} => OpenGap(file, Behind, pos + 1)
      <4>1. pos \in 0..(Len(file) - 1) /\ Behind \in Nat
        BY <1>1, <2>1
      <4> QED BY <1>1, <4>1, GapGrows
    <3>2. /\ file[pos + 1] \in {Hash, Newline} => at' = "start"
          /\ file[pos + 1] \notin {Hash, Newline} => at' = "comment"
      BY <1>3, <2>1
    <3>3. ClosedGap(file, Behind, pos + 1) => Gap(file, Behind, pos + 1)
      BY Zenon DEF ClosedGap
    <3> QED BY ONLY <2>1, <3>1, <3>2, <3>3
  <2>2. CASE pos = Len(file) /\ pos' = pos /\ got'[1].character = Eof
    <3>1. Gap(file, Behind, pos)
      BY <1>1, Zenon DEF OpenGap
    <3>2. at' = "start"
      BY <1>3, <2>2
    <3> QED BY <2>2, <3>1, <3>2
  <2> QED BY <1>2, <2>1, <2>2 DEF Reads
<1>6. GapInv'
  <2>1. at' \in {"start", "comment"} /\ Behind' \in 0..Len(file')
    BY <1>1, <1>3, <1>4
  <2>2. /\ at' = "start" => /\ Gap(file', Behind', pos')
                            /\ ClosedGap(file', Behind', pos') \/ pos' = Len(file')
        /\ at' = "comment" => OpenGap(file', Behind', pos')
    BY ONLY <1>3, <1>4, <1>5
  <2> QED BY ONLY <2>1, <2>2 DEF GapInv
<1>7. BeginInv' /\ LexemeInv' /\ QuotedInv'
  <2>1. at' \in {"start", "comment"}
    BY <1>3
  <2> QED BY <2>1 DEF BeginInv, LexemeInv, QuotedInv, TokenPlaces, ReadPlaces, AheadPlaces,
                      QuotedPlaces
<1>8. ItemsInv'
  BY <1>1, <1>3, SameItems DEF IInv, ItemsInv
<1> QED BY <1>2, <1>6, <1>7, <1>8 DEF IInv

\* The invariant survives the next call of Scanner::Next.
LEMMA NextTokenStep == IInv /\ NextToken => IInv'
<1> SUFFICES ASSUME IInv, NextToken PROVE IInv'
  OBVIOUS
<1>1. /\ file \in Seq(Char) /\ Len(file) \in Nat /\ pos \in 0..Len(file)
      /\ at = "returned" /\ items # <<>> /\ Behind = pos
  BY DEF IInv, StreamInv, GapInv, NextToken
<1>2. /\ StreamInv' /\ UNCHANGED streamVars /\ UNCHANGED scannerVars
      /\ at' \in {"returned", "start"}
      /\ at' = "start" => items[Len(items)].type # "eof"
  BY <1>1, StayStep DEF IInv, NextToken, Stay, Goto
<1>3. Behind' = Behind /\ file' = file /\ pos' = pos /\ items' = items /\ buffer' = buffer
  BY <1>2 DEF Behind, streamVars, scannerVars
<1>4. GapInv'
  <2>1. ClosedGap(file, pos, pos)
    BY <1>1, EmptyGap
  <2>2. Gap(file, pos, pos)
    BY ONLY <2>1, Zenon DEF ClosedGap
  <2>3. Gap(file', Behind', pos') /\ ClosedGap(file', Behind', pos')
    BY ONLY <1>1, <1>3, <2>1, <2>2
  <2>4. Behind' \in 0..Len(file') /\ Behind' = pos' /\ items' # <<>>
    BY ONLY <1>1, <1>3
  <2> QED BY ONLY <1>2, <2>3, <2>4 DEF GapInv
<1>5. BeginInv' /\ LexemeInv' /\ QuotedInv'
  BY <1>2 DEF BeginInv, LexemeInv, QuotedInv, TokenPlaces, ReadPlaces, AheadPlaces, QuotedPlaces
<1>6. ItemsInv'
  <2>1. \A i \in 1..Len(items) : items[i].type = "eof" => at' = "returned"
    <3>1. \A i \in 1..Len(items) : items[i].type = "eof" => i = Len(items)
      BY DEF IInv, ItemsInv
    <3> QED BY <1>2, <3>1
  <2> QED BY <1>2, <1>3, <2>1, SameItems DEF IInv, ItemsInv
<1> QED BY <1>2, <1>4, <1>5, <1>6 DEF IInv

-----------------------------------------------------------------------------
(* The beginning of a token.                                               *)

\* The routine that is called fits the character.
LEMMA RoutineFits ==
  ASSUME NEW c
  PROVE  /\ Routine(c) = "identifier" => c \in IdentifierStart
         /\ Routine(c) = "digits" => c \in Digit
         /\ Routine(c) = "point" => c = "." /\ Peek \in Digit
         /\ Routine(c) = "operator" => c \in OperatorOrPunctuatorStart
         /\ Routine(c) = "character" => c = Apostrophe
         /\ Routine(c) = "string" => c = Quote
         /\ Routine(c) = "comment" => c = Hash
BY DEF Routine

\* Where a token begins.
LEMMA DispatchFacts ==
  ASSUME IInv, Dispatch
  PROVE  /\ StreamInv' /\ file' = file /\ pos' = pos /\ got' = got
         /\ file \in Seq(Char) /\ Len(file) \in Nat /\ pos \in 0..Len(file)
         /\ at = "dispatch" /\ buffer = <<>>
         /\ begin \in 1..(Len(file) + 1)
         /\ located = Located(file, begin)
         /\ got = <<located>>
         /\ located.character # Eof =>
              /\ begin = pos /\ begin <= Len(file)
              /\ ClosedGap(file, Behind, begin - 1)
              /\ file[begin] = located.character
              /\ Unread = pos - 1
         /\ located.character = Eof => begin = Len(file) + 1
<1>1. /\ file \in Seq(Char) /\ Len(file) \in Nat /\ pos \in 0..Len(file) /\ at = "dispatch"
  BY DEF IInv, StreamInv, Dispatch
<1>2. /\ buffer = <<>> /\ begin \in 1..(Len(file) + 1)
      /\ located = Located(file, begin) /\ got = <<located>>
      /\ \/ begin = pos /\ ClosedGap(file, Behind, begin - 1)
         \/ begin = Len(file) + 1 /\ pos = Len(file)
  BY <1>1 DEF IInv, BeginInv
<1>3. StreamInv' /\ file' = file /\ pos' = pos /\ got' = got
  BY StayStep DEF IInv, Dispatch, Stay, streamVars
<1>4. /\ begin <= Len(file) => located.character = file[begin] /\ file[begin] # Eof
      /\ begin = Len(file) + 1 => located.character = Eof
  BY <1>1, <1>2, CharacterAt
<1>5. located.character # Eof => Unread = pos - 1
  BY <1>2 DEF Unread
<1> QED BY <1>1, <1>2, <1>3, <1>4, <1>5

\* The invariant survives the call of a scanning routine with the first character.
LEMMA DispatchRead ==
  ASSUME IInv, Dispatch,
         Routine(located.character) \in {"identifier", "digits", "operator"},
         Push(located.character, Routine(located.character))
  PROVE  IInv'
<1> DEFINE c == located.character
<1>1. /\ StreamInv' /\ file' = file /\ pos' = pos /\ got' = got
      /\ file \in Seq(Char) /\ Len(file) \in Nat /\ pos \in 0..Len(file)
      /\ at = "dispatch" /\ buffer = <<>>
      /\ begin \in 1..(Len(file) + 1) /\ located = Located(file, begin)
  BY DispatchFacts
<1>2. /\ c \in IdentifierStart \cup Digit \cup OperatorOrPunctuatorStart
      /\ c # Eof
  BY RoutineFits, Classes DEF NumberStart
<1>3. begin = pos /\ begin \in 1..Len(file) /\ begin <= Len(file) /\ file[begin] = c
  BY <1>1, <1>2, DispatchFacts
<1>4. /\ at' = Routine(c) /\ UNCHANGED <<begin, located, items>>
      /\ buffer' = Append(<<>>, c)
  BY <1>1 DEF Push
<1>5. at' \in ReadPlaces /\ at' \in {"identifier", "digits", "operator"}
  BY <1>4 DEF ReadPlaces
<1> HIDE DEF c
<1>6. buffer' = SubSeq(file, begin, pos) /\ buffer' \in Seq(Symbols)
  <2>1. begin - 1 \in (begin - 1)..(Len(file) - 1) /\ (begin - 1) + 1 = begin
    BY <1>1, <1>3
  <2>2. SubSeq(file, begin, (begin - 1) + 1) =
          Append(SubSeq(file, begin, begin - 1), file[(begin - 1) + 1])
    BY ONLY <1>1, <1>3, <2>1, TextGrows
  <2>3. SubSeq(file, begin, begin - 1) = <<>>
    BY <1>3, SubSeqEmpty
  <2>4. SubSeq(file, begin, pos) = Append(<<>>, c)
    BY ONLY <1>3, <2>1, <2>2, <2>3
  <2>5. file[begin] \in Char /\ Char \subseteq Symbols
    BY <1>1, <1>3 DEF Symbols
  <2>6. Append(<<>>, c) \in Seq(Symbols)
    BY <1>3, <2>5
  <2> QED BY ONLY <1>4, <2>4, <2>6
<1>7. LexemeInv'
  <2>1. /\ at' = "identifier" => c \in IdentifierStart
        /\ at' = "digits" => c \in NumberStart
        /\ at' = "operator" => c \in OperatorOrPunctuatorStart
    BY <1>4, RoutineFits DEF NumberStart, c
  <2>2. buffer' = SubSeq(file', begin', pos') /\ begin' = pos' /\ file'[begin'] = c
    BY ONLY <1>1, <1>3, <1>4, <1>6
  <2> QED BY ONLY <1>5, <2>1, <2>2 DEF LexemeInv, ReadPlaces, AheadPlaces
<1>8. QuotedInv'
  BY <1>5 DEF QuotedInv
<1>9. /\ at' \in TokenPlaces /\ at' \notin {"character_escape", "character_end"}
      /\ at \in TokenPlaces \cup {"dispatch"} /\ begin <= pos'
  BY <1>1, <1>3, <1>5 DEF TokenPlaces
<1>10. located' = Located(file, IF at' \in {"character_escape", "character_end"}
                                THEN begin + 1 ELSE begin)
  BY <1>1, <1>4, <1>9
<1> QED BY ONLY IInv, <1>1, <1>4, <1>6, <1>7, <1>8, <1>9, <1>10, GoOn

\* The invariant survives the call of the other routines.
LEMMA DispatchGoto ==
  ASSUME IInv, Dispatch,
         Routine(located.character) \in {"point", "character", "string"},
         Goto(Routine(located.character))
  PROVE  IInv'
<1> DEFINE c == located.character
<1>1. /\ StreamInv' /\ file' = file /\ pos' = pos /\ got' = got
      /\ file \in Seq(Char) /\ Len(file) \in Nat /\ pos \in 0..Len(file)
      /\ at = "dispatch" /\ buffer = <<>> /\ got = <<located>>
      /\ begin \in 1..(Len(file) + 1) /\ located = Located(file, begin)
  BY DispatchFacts
<1>2. /\ at' = Routine(c) /\ UNCHANGED <<begin, located, buffer, items>>
      /\ at' \in {"point", "character", "string"}
  BY DEF Goto, scannerVars
<1>3. /\ at' = "point" => c = "." /\ Ahead \in Digit
      /\ at' = "character" => c = Apostrophe
      /\ at' = "string" => c = Quote
  BY <1>2, RoutineFits, PeekValue
<1>4. c # Eof
  BY <1>2, <1>3, Classes DEF NumberStart
<1>5. begin = pos /\ begin \in 1..Len(file) /\ file[begin] = c /\ Unread = pos - 1
  BY <1>1, <1>4, DispatchFacts
<1>6. got[1].character = c /\ got # <<>>
  BY <1>1
<1> HIDE DEF c
<1>7. LexemeInv'
  <2>1. got' # <<>> /\ got'[1].character = c /\ begin' = pos' /\ file'[begin'] = c
    BY ONLY <1>1, <1>2, <1>5, <1>6
  <2>2. Unread' = Unread /\ Ahead' = Ahead
    BY <1>1 DEF Unread, Ahead
  <2>3. buffer' = SubSeq(file', begin', Unread')
    <3>1. SubSeq(file, begin, begin - 1) = <<>>
      BY <1>5, SubSeqEmpty
    <3> QED BY ONLY <1>1, <1>2, <1>5, <2>2, <3>1
  <2>4. at' = "point" => file'[begin'] \in NumberStart
    BY <1>3, <2>1 DEF NumberStart
  <2> QED BY ONLY <1>2, <1>3, <2>1, <2>2, <2>3, <2>4 DEF LexemeInv, ReadPlaces, AheadPlaces
<1>8. QuotedInv'
  <2>1. begin' = pos' /\ file'[begin'] = c
    BY ONLY <1>1, <1>2, <1>5
  <2> QED BY ONLY <1>2, <1>3, <2>1 DEF QuotedInv
<1>9. /\ at' \in TokenPlaces /\ at' \notin {"character_escape", "character_end"}
      /\ at \in TokenPlaces \cup {"dispatch"} /\ begin <= pos'
      /\ buffer' \in Seq(Symbols)
  BY <1>1, <1>2, <1>5 DEF TokenPlaces, QuotedPlaces, AheadPlaces
<1>10. located' = Located(file, IF at' \in {"character_escape", "character_end"}
                                THEN begin + 1 ELSE begin)
  BY <1>1, <1>2, <1>9
<1> QED BY ONLY IInv, <1>1, <1>2, <1>7, <1>8, <1>9, <1>10, GoOn

\* The invariant survives the beginning of a comment.
LEMMA DispatchComment ==
  ASSUME IInv, Dispatch, Routine(located.character) = "comment", Goto("comment")
  PROVE  IInv'
<1>1. /\ StreamInv' /\ file' = file /\ pos' = pos /\ at = "dispatch"
      /\ file \in Seq(Char) /\ Len(file) \in Nat /\ pos \in 0..Len(file)
  BY DispatchFacts
<1>2. located.character = Hash /\ located.character # Eof
  BY RoutineFits, Classes
<1>3. /\ begin = pos /\ begin <= Len(file) /\ begin \in 1..(Len(file) + 1)
      /\ ClosedGap(file, Behind, begin - 1) /\ file[begin] = Hash
  BY <1>2, DispatchFacts
<1>4. /\ at' = "comment" /\ UNCHANGED <<begin, located, buffer, items>>
  BY DEF Goto, scannerVars
<1>5. Behind' = Behind /\ Behind \in 0..Len(file)
  BY <1>4 DEF Behind, IInv, GapInv
<1>6. OpenGap(file, Behind, pos)
  <2>1. begin - 1 \in 0..(Len(file) - 1) /\ (begin - 1) + 1 = pos /\ Behind \in Nat
    BY <1>1, <1>3, <1>5
  <2>2. OpenGap(file, Behind, (begin - 1) + 1)
    BY <1>1, <1>3, <2>1, GapGrows
  <2> QED BY ONLY <2>1, <2>2
<1>7. GapInv'
  <2>1. OpenGap(file', Behind', pos') /\ Behind' \in 0..Len(file') /\ at' = "comment"
    BY ONLY <1>1, <1>4, <1>5, <1>6
  <2> QED BY ONLY <2>1 DEF GapInv
<1>8. BeginInv' /\ LexemeInv' /\ QuotedInv'
  BY <1>4 DEF BeginInv, LexemeInv, QuotedInv, TokenPlaces, ReadPlaces, AheadPlaces, QuotedPlaces
<1>9. ItemsInv'
  BY <1>1, <1>4, SameItems DEF IInv, ItemsInv
<1> QED BY <1>1, <1>7, <1>8, <1>9 DEF IInv

\* The invariant survives the first character of a token.
LEMMA DispatchStep == IInv /\ Dispatch => IInv'
<1> SUFFICES ASSUME IInv, Dispatch PROVE IInv'
  OBVIOUS
<1> DEFINE c == located.character
<1>1. /\ StreamInv' /\ file' = file /\ at = "dispatch"
      /\ located = Located(file, begin)
      /\ c = Eof => begin = Len(file) + 1
  BY DispatchFacts
<1>2. CASE /\ Routine(c) \in {"identifier", "digits", "operator"}
           /\ Push(c, Routine(c))
  BY <1>2, DispatchRead
<1>3. CASE Routine(c) \in {"point", "character", "string"} /\ Goto(Routine(c))
  BY <1>3, DispatchGoto
<1>4. CASE Routine(c) = "comment" /\ Goto(Routine(c))
  BY <1>4, DispatchComment
<1>5. CASE c = Eof /\ Return("eof")
  <2>1. "eof" \in TokenTypes /\ "eof" \notin Spelled
    BY Types
  <2> HIDE DEF c
  <2> QED BY <1>1, <1>5, <2>1, ReturnStep
<1>6. CASE Routine(c) = "none" /\ c # Eof /\ LogError
  BY <1>1, <1>6, ErrorStep
<1> QED BY <1>2, <1>3, <1>4, <1>5, <1>6 DEF Dispatch

-----------------------------------------------------------------------------
(* Words.                                                                  *)

\* The invariant survives a character of an identifier.
LEMMA ScanIdentifierCharStep == IInv /\ ScanIdentifierChar => IInv'
<1> SUFFICES ASSUME IInv, ScanIdentifierChar PROVE IInv'
  OBVIOUS
<1>1. /\ at = "identifier" /\ Peek \in IdentifierChar /\ PushNext("identifier")
      /\ at \in ReadPlaces /\ at \in TokenPlaces
  BY DEF ScanIdentifierChar, ReadPlaces, TokenPlaces
<1>2. Peek # Eof
  BY <1>1, Classes DEF IdentifierChar, NumberStart
<1>3. /\ StreamInv' /\ file' = file
      /\ UNCHANGED <<begin, located, items>> /\ at' = "identifier"
      /\ buffer' \in Seq(Symbols) /\ buffer' = SubSeq(file, begin, pos') /\ begin <= pos'
  BY <1>1, <1>2, PushNextStep
<1>4. file[begin] \in IdentifierStart /\ located = Located(file, begin)
  BY <1>1 DEF IInv, LexemeInv, BeginInv
<1>5. LexemeInv' /\ QuotedInv'
  BY <1>3, <1>4 DEF LexemeInv, QuotedInv, ReadPlaces, AheadPlaces
<1>6. /\ at' \in TokenPlaces
      /\ located' = Located(file, IF at' \in {"character_escape", "character_end"}
                                  THEN begin + 1 ELSE begin)
  BY <1>1, <1>3, <1>4
<1> QED BY <1>1, <1>3, <1>5, <1>6, GoOn

\* The invariant survives the end of an identifier or keyword.
LEMMA EndIdentifierStep == IInv /\ EndIdentifier => IInv'
<1> SUFFICES ASSUME IInv, EndIdentifier PROVE IInv'
  OBVIOUS
<1>1. /\ at = "identifier" /\ Peek \notin IdentifierChar /\ Stay /\ at \in TokenPlaces
  BY DEF EndIdentifier, ReadPlaces, TokenPlaces
<1>2. StreamInv' /\ file' = file /\ pos' = pos
  BY <1>1, StayStep DEF IInv, Stay, streamVars
<1>3. /\ file \in Seq(Char) /\ begin \in 1..Len(file) /\ pos \in begin..Len(file)
  BY <1>1, TokenFacts
<1>4. /\ buffer = SubSeq(file, begin, pos) /\ file[begin] \in IdentifierStart
      /\ located = Located(file, begin)
  BY <1>1 DEF IInv, LexemeInv, BeginInv, ReadPlaces
<1>5. buffer \in Seq(Char) /\ buffer # <<>> /\ buffer[1] \in IdentifierStart
  BY ONLY <1>3, <1>4, HeadOfText
<1>6. Located(file, pos' + 1).character \notin IdentifierChar
  BY <1>1, <1>2, PeekValue DEF Ahead
<1>7. Append(buffer, Located(file, pos' + 1).character) \notin Operator \cup Punctuator
  BY <1>5, WordsAreNoOperators
<1>8. ASSUME NEW type \in {"identifier", "keyword", "boolean", "operator"}, type \in Spelled,
             Return(type)
      PROVE  IInv'
  <2>1. type \in TokenTypes /\ type \notin {"integer", "float", "string", "character", "eof"}
    BY <1>8, Types
  <2> QED BY ONLY IInv, <1>1, <1>2, <1>4, <1>6, <1>7, <1>8, <2>1, ReturnStep
<1>9. CASE LogError
  BY <1>1, <1>2, <1>9, ErrorStep
<1>10. CASE buffer \in DOMAIN KeywordType /\ Return(KeywordType[buffer])
  <2>1. /\ KeywordType[buffer] \in {"keyword", "boolean", "operator"}
        /\ KeywordType[buffer] \in Spelled
    BY <1>10, KeywordAssumption, Types
  <2>2. PICK type : type = KeywordType[buffer]
    OBVIOUS
  <2> QED BY <1>8, <1>10, <2>1, <2>2
<1>11. CASE Return("identifier")
  BY <1>8, <1>11, Types
<1> QED BY <1>9, <1>10, <1>11 DEF EndIdentifier

-----------------------------------------------------------------------------
(* Numbers.                                                                *)

\* The invariant survives the end of a number.
LEMMA NumberStep ==
  ASSUME IInv, StreamInv', file' = file, at \in TokenPlaces,
         NEW type \in {"integer", "float"}, Number(type),
         buffer = SubSeq(file, begin, pos'), begin <= pos', file[begin] \in NumberStart,
         located = Located(file, begin),
         Located(file, pos' + 1).character \notin Digit,
         type = "integer" /\ Located(file, pos' + 1).character = "." =>
           Located(file, pos' + 2).character \notin Digit,
         type = "float" /\ Located(file, pos' + 1).character \in ExponentMark =>
           HasExponent(buffer)
  PROVE  IInv'
<1>1. file \in Seq(Char) /\ begin \in 1..Len(file) /\ pos' \in begin..Len(file)
  BY TokenFacts DEF StreamInv
<1>2. Head(buffer) = file[begin]
  BY ONLY <1>1, HeadOfText, buffer = SubSeq(file, begin, pos')
<1>3. Head(buffer) \notin IdentifierStart
  BY <1>2, Classes
<1>4. /\ type \in TokenTypes /\ type \in Spelled
      /\ type \notin {"operator", "punctuator", "string", "character", "eof"}
  BY Types
<1>5. CASE LogError
  BY <1>5, ErrorStep
<1>6. CASE Return(type)
  BY <1>3, <1>4, <1>6, ReturnStep
<1> QED BY <1>5, <1>6 DEF Number

\* The invariant survives a digit.
LEMMA ScanDigitStep == IInv /\ ScanDigit => IInv'
<1> SUFFICES ASSUME IInv, ScanDigit PROVE IInv'
  OBVIOUS
<1>1. /\ at \in {"digits", "fraction", "exponent_digits"} /\ Peek \in Digit /\ PushNext(at)
      /\ at \in ReadPlaces /\ at \in TokenPlaces
  BY DEF ScanDigit, ReadPlaces, TokenPlaces
<1>2. Peek # Eof
  BY <1>1, Classes DEF NumberStart
<1>3. /\ StreamInv' /\ file' = file
      /\ UNCHANGED <<begin, located, items>> /\ at' = at
      /\ buffer' = Append(buffer, Ahead) /\ Ahead \in Symbols
      /\ buffer' \in Seq(Symbols) /\ buffer' = SubSeq(file, begin, pos') /\ begin <= pos'
  BY <1>1, <1>2, PushNextStep
<1>4. /\ file[begin] \in NumberStart /\ located = Located(file, begin)
      /\ at = "exponent_digits" => HasExponent(buffer)
      /\ buffer \in Seq(Symbols)
  BY <1>1 DEF IInv, LexemeInv, BeginInv, ItemsInv
<1>5. at' = "exponent_digits" => HasExponent(buffer')
  BY <1>3, <1>4, ExponentStays
<1>6. LexemeInv'
  <2>1. HasExponent(buffer)' <=> HasExponent(buffer')
    BY DEF HasExponent
  <2> QED BY <1>1, <1>3, <1>4, <1>5, <2>1 DEF LexemeInv, ReadPlaces, AheadPlaces
<1>7. QuotedInv'
  BY <1>1, <1>3 DEF QuotedInv
<1>8. /\ at' \in TokenPlaces
      /\ located' = Located(file, IF at' \in {"character_escape", "character_end"}
                                  THEN begin + 1 ELSE begin)
  BY <1>1, <1>3, <1>4
<1> QED BY <1>1, <1>3, <1>6, <1>7, <1>8, GoOn

\* The invariant survives reading the character behind the digits.
LEMMA EndDigitsStep == IInv /\ EndDigits => IInv'
<1> SUFFICES ASSUME IInv, EndDigits PROVE IInv'
  OBVIOUS
<1>1. /\ at \in {"digits", "fraction"} /\ Peek \notin Digit
      /\ at \in TokenPlaces /\ at \in ReadPlaces
      /\ at' \in {"point", "exponent"}
      /\ UNCHANGED <<begin, located, buffer, items>>
  BY DEF EndDigits, ReadPlaces, TokenPlaces, Goto, scannerVars
<1>2. StreamInv' /\ Reads
  BY NextCharStep DEF IInv, EndDigits
<1>3. /\ file' = file /\ got' # <<>> /\ Unread' = pos /\ got'[1].character \notin Digit
      /\ pos' \in Nat /\ pos <= pos'
  <2>1. pos \in Nat /\ Len(file) \in Nat
    BY <1>1, TokenFacts
  <2> QED BY <1>1, <1>2, <2>1, PeekValue DEF Reads
<1>4. /\ buffer = SubSeq(file, begin, pos) /\ file[begin] \in NumberStart
      /\ located = Located(file, begin)
  BY <1>1 DEF IInv, LexemeInv, BeginInv
<1>5. begin <= pos /\ begin <= pos' /\ buffer \in Seq(Symbols)
  <2>1. begin <= pos /\ begin \in Nat /\ pos \in Nat /\ buffer \in Seq(Symbols)
    BY <1>1, TokenFacts
  <2> QED BY <1>3, <2>1
<1>6. LexemeInv'
  <2>1. /\ buffer' = SubSeq(file', begin', Unread')
        /\ begin' <= Unread' /\ file'[begin'] \in NumberStart
    BY ONLY <1>1, <1>3, <1>4, <1>5
  <2> QED BY ONLY <1>1, <1>3, <2>1 DEF LexemeInv, ReadPlaces, AheadPlaces
<1>7. QuotedInv'
  BY <1>1 DEF QuotedInv
<1>8. /\ at' \in TokenPlaces
      /\ located' = Located(file, IF at' \in {"character_escape", "character_end"}
                                  THEN begin + 1 ELSE begin)
  BY <1>1, <1>4 DEF TokenPlaces, AheadPlaces
<1> QED BY <1>1, <1>2, <1>3, <1>5, <1>6, <1>7, <1>8, GoOn

\* The character read ahead goes into the buffer, and digits follow.
LEMMA PushGotDigits ==
  ASSUME IInv, at \in AheadPlaces, NEW place \in {"fraction", "exponent_digits"},
         got[1].character # Eof, Stay, Push(got[1].character, place),
         place = "exponent_digits" => HasExponent(buffer) \/ got[1].character \in ExponentMark
  PROVE  IInv'
<1> DEFINE c == got[1].character
<1>1. StreamInv' /\ file' = file /\ pos' = pos
  BY StayStep DEF IInv, Stay, streamVars
<1>2. /\ begin <= pos /\ c \in Symbols
      /\ Append(buffer, c) = SubSeq(file, begin, pos) /\ Append(buffer, c) \in Seq(Symbols)
  BY PushGotStep
<1>3. /\ buffer' = Append(buffer, c) /\ at' = place /\ UNCHANGED <<begin, located, items>>
  BY DEF Push
<1>4. /\ at \in TokenPlaces /\ buffer \in Seq(Symbols)
      /\ file[begin] \in NumberStart /\ located = Located(file, begin)
  BY DEF IInv, LexemeInv, BeginInv, ItemsInv, TokenPlaces, AheadPlaces
<1> HIDE DEF c
<1>5. at' = "exponent_digits" => HasExponent(buffer')
  <2>1. at' = "exponent_digits" => HasExponent(buffer) \/ c \in ExponentMark
    BY <1>3 DEF c
  <2> QED BY ONLY <1>2, <1>3, <1>4, <2>1, ExponentStays
<1>6. LexemeInv'
  <2>1. HasExponent(buffer)' <=> HasExponent(buffer')
    BY DEF HasExponent
  <2>2. buffer' = SubSeq(file', begin', pos') /\ file'[begin'] \in NumberStart
    BY ONLY <1>1, <1>2, <1>3, <1>4
  <2>3. at' \in {"fraction", "exponent_digits"}
    BY <1>3
  <2> QED BY ONLY <1>5, <2>1, <2>2, <2>3 DEF LexemeInv, ReadPlaces, AheadPlaces
<1>7. QuotedInv'
  BY <1>3 DEF QuotedInv
<1>8. /\ at' \in TokenPlaces /\ begin <= pos' /\ buffer' \in Seq(Symbols)
      /\ located' = Located(file, IF at' \in {"character_escape", "character_end"}
                                  THEN begin + 1 ELSE begin)
  BY <1>1, <1>2, <1>3, <1>4 DEF TokenPlaces, ReadPlaces
<1> QED BY ONLY IInv, <1>1, <1>3, <1>4, <1>6, <1>7, <1>8, GoOn

\* The invariant survives the look behind the digits of an integer.
LEMMA PointStep == IInv /\ Point => IInv'
<1> SUFFICES ASSUME IInv, Point PROVE IInv'
  OBVIOUS
<1>1. at = "point" /\ at \in AheadPlaces /\ at \in TokenPlaces
  BY DEF Point, AheadPlaces, TokenPlaces
<1>2. /\ buffer = SubSeq(file, begin, Unread) /\ file[begin] \in NumberStart
      /\ located = Located(file, begin)
      /\ \/ begin <= Unread /\ got[1].character \notin Digit
         \/ begin = pos /\ got[1].character = "." /\ Ahead \in Digit
  BY <1>1 DEF IInv, LexemeInv, BeginInv
<1>3. CASE got[1].character = "." /\ Peek \in Digit
  <2>1. Stay /\ Push(got[1].character, "fraction") /\ got[1].character # Eof
    BY <1>3, Classes DEF Point, NumberStart
  <2> QED BY <1>1, <2>1, PushGotDigits
<1>4. CASE ~(got[1].character = "." /\ Peek \in Digit)
  <2>1. Input!PutBack /\ Number("integer")
    BY <1>4 DEF Point
  <2>2. /\ StreamInv' /\ file' = file /\ pos' = Unread
        /\ Located(file, pos' + 1) = got[1]
    BY <2>1, PutBackStep DEF IInv
  <2>3. begin <= Unread /\ got[1].character \notin Digit
    BY <1>2, <1>4, PeekValue
  <2>4. got[1].character = "." => Located(file, pos' + 2).character \notin Digit
    <3>1. SUFFICES ASSUME got[1].character = "."
                   PROVE  Located(file, pos' + 2).character \notin Digit
      OBVIOUS
    <3>2. Peek \notin Digit /\ Located(file, pos + 1).character \notin Digit
      BY <1>4, <3>1, PeekValue DEF Ahead
    <3>3. pos' = pos - 1
      BY <2>2, <3>1, Classes DEF Unread, NumberStart
    <3>4. pos' + 2 = pos + 1
      BY <1>1, <3>3, TokenFacts
    <3> QED BY <3>2, <3>4
  <2>5. PICK type : type = "integer"
    OBVIOUS
  <2>6. /\ buffer = SubSeq(file, begin, pos') /\ begin <= pos'
        /\ Located(file, pos' + 1).character = got[1].character
    BY ONLY <1>2, <2>2, <2>3
  <2> QED BY ONLY IInv, <1>1, <1>2, <2>1, <2>2, <2>3, <2>4, <2>6, NumberStep
<1> QED BY <1>3, <1>4

\* The invariant survives the look behind the digits of a fraction.
LEMMA ExponentStep == IInv /\ Exponent => IInv'
<1> SUFFICES ASSUME IInv, Exponent PROVE IInv'
  OBVIOUS
<1> DEFINE e == got[1].character
<1>1. at = "exponent" /\ at \in AheadPlaces /\ at \in TokenPlaces
  BY DEF Exponent, AheadPlaces, TokenPlaces
<1>2. /\ buffer = SubSeq(file, begin, Unread) /\ file[begin] \in NumberStart
      /\ located = Located(file, begin)
      /\ begin <= Unread /\ e \notin Digit
  BY <1>1 DEF IInv, LexemeInv, BeginInv
<1>3. Eof \notin ExponentMark
  BY DEF Eof, ExponentMark
<1>4. CASE e \notin ExponentMark /\ Input!PutBack /\ Number("float")
  <2>1. /\ StreamInv' /\ file' = file /\ pos' = Unread
        /\ Located(file, pos' + 1) = got[1]
    BY <1>4, PutBackStep DEF IInv
  <2>2. /\ buffer = SubSeq(file, begin, pos') /\ begin <= pos'
        /\ Located(file, pos' + 1).character = e
    BY ONLY <1>2, <2>1
  <2> HIDE DEF e
  <2> QED BY ONLY IInv, <1>1, <1>2, <1>4, <2>1, <2>2, NumberStep
<1>5. CASE e \in ExponentMark /\ Stay /\ LogError
  BY <1>1, <1>5, StayStep, ErrorStep DEF IInv, Stay, streamVars
<1>6. CASE e \in ExponentMark /\ Stay /\ Push(e, "exponent_digits")
  BY <1>1, <1>3, <1>6, PushGotDigits
<1>7. CASE e \in ExponentMark /\ Peek \in Sign /\ Input!NextChar /\ Push(e, "sign")
  <2>1. StreamInv' /\ Reads
    BY <1>7, NextCharStep DEF IInv
  <2>2. /\ begin <= pos /\ e \in Symbols
        /\ Append(buffer, e) = SubSeq(file, begin, pos) /\ Append(buffer, e) \in Seq(Symbols)
    BY <1>1, <1>3, <1>7, PushGotStep
  <2>3. /\ buffer' = Append(buffer, e) /\ at' = "sign" /\ UNCHANGED <<begin, located, items>>
    BY <1>7 DEF Push
  <2>4. /\ file' = file /\ got' # <<>> /\ Unread' = pos /\ got'[1].character \in Sign
        /\ pos' \in Nat /\ begin <= pos'
    <3>1. pos \in Nat /\ Len(file) \in Nat /\ begin \in Nat
      BY <1>1, TokenFacts
    <3> QED BY <1>7, <2>1, <2>2, <3>1, PeekValue DEF Reads
  <2>5. buffer \in Seq(Symbols) /\ Sign \cap Digit = {}
    <3>1. Sign \subseteq OperatorOrPunctuatorStart
      BY Starts DEF Sign
    <3> QED BY <1>1, <3>1, TokenFacts, ClassAssumption
  <2> HIDE DEF e
  <2>6. HasExponent(buffer')
    BY ONLY <1>7, <2>2, <2>3, <2>5, ExponentStays
  <2>7. LexemeInv'
    <3>1. HasExponent(buffer)' <=> HasExponent(buffer')
      BY DEF HasExponent
    <3>2. /\ buffer' = SubSeq(file', begin', Unread') /\ file'[begin'] \in NumberStart
          /\ begin' <= Unread' /\ got'[1].character \notin Digit
      BY ONLY <1>2, <2>2, <2>3, <2>4, <2>5
    <3> QED BY ONLY <2>3, <2>4, <2>6, <3>1, <3>2 DEF LexemeInv, ReadPlaces, AheadPlaces
  <2>8. QuotedInv'
    BY <2>3 DEF QuotedInv
  <2>9. /\ at' \in TokenPlaces /\ buffer' \in Seq(Symbols)
        /\ located' = Located(file, IF at' \in {"character_escape", "character_end"}
                                    THEN begin + 1 ELSE begin)
    BY <1>2, <2>2, <2>3 DEF TokenPlaces, AheadPlaces
  <2> QED BY ONLY IInv, <1>1, <2>1, <2>3, <2>4, <2>7, <2>8, <2>9, GoOn
<1> QED BY <1>4, <1>5, <1>6, <1>7 DEF Exponent

\* The invariant survives the sign of an exponent.
LEMMA ExponentSignStep == IInv /\ ExponentSign => IInv'
<1> SUFFICES ASSUME IInv, ExponentSign PROVE IInv'
  OBVIOUS
<1>1. at = "sign" /\ at \in AheadPlaces /\ at \in TokenPlaces /\ Stay
  BY DEF ExponentSign, AheadPlaces, TokenPlaces
<1>2. HasExponent(buffer) /\ got[1].character # Eof
  BY <1>1 DEF IInv, LexemeInv, Sign, Eof
<1>3. CASE Push(got[1].character, "exponent_digits")
  BY <1>1, <1>2, <1>3, PushGotDigits
<1>4. CASE LogError
  BY <1>1, <1>4, StayStep, ErrorStep DEF IInv, Stay, streamVars
<1> QED BY <1>3, <1>4 DEF ExponentSign

\* The invariant survives the end of an exponent.
LEMMA EndExponentStep == IInv /\ EndExponent => IInv'
<1> SUFFICES ASSUME IInv, EndExponent PROVE IInv'
  OBVIOUS
<1>1. /\ at = "exponent_digits" /\ at \in ReadPlaces /\ at \in TokenPlaces
      /\ Stay /\ Peek \notin Digit /\ Number("float")
  BY DEF EndExponent, ReadPlaces, TokenPlaces
<1>2. StreamInv' /\ file' = file /\ pos' = pos
  BY <1>1, StayStep DEF IInv, Stay, streamVars
<1>3. /\ buffer = SubSeq(file, begin, pos) /\ file[begin] \in NumberStart
      /\ located = Located(file, begin) /\ HasExponent(buffer)
  BY <1>1 DEF IInv, LexemeInv, BeginInv
<1>4. begin <= pos'
  BY <1>1, <1>2, TokenFacts
<1>5. Located(file, pos' + 1).character \notin Digit
  BY <1>1, <1>2, PeekValue DEF Ahead
<1> QED BY <1>1, <1>2, <1>3, <1>4, <1>5, NumberStep

-----------------------------------------------------------------------------
(* Operators and punctuators.                                              *)

\* The text of one character.
LEMMA OneCharacter ==
  ASSUME NEW S, NEW f \in Seq(S), NEW b \in 1..Len(f)
  PROVE  SubSeq(f, b, b) = <<f[b]>>
<1>1. /\ b - 1 \in (b - 1)..(Len(f) - 1) /\ (b - 1) + 1 = b /\ b - 1 < b /\ b \in Int
      /\ b - 1 \in Int
  OBVIOUS
<1>2. SubSeq(f, b, (b - 1) + 1) = Append(SubSeq(f, b, b - 1), f[(b - 1) + 1])
  BY ONLY <1>1, f \in Seq(S), b \in 1..Len(f), TextGrows
<1>3. SubSeq(f, b, b - 1) = <<>>
  BY <1>1, SubSeqEmpty
<1>4. SubSeq(f, b, b) = Append(<<>>, f[b])
  BY ONLY <1>1, <1>2, <1>3
<1>5. Append(<<>>, f[b]) = <<f[b]>>
  OBVIOUS
<1> QED BY ONLY <1>4, <1>5

\* Two characters.
LEMMA TwoCharacters ==
  ASSUME NEW c, NEW d
  PROVE  Append(<<c>>, d) = <<c, d>>
<1> DEFINE s == Append(<<c>>, d)
           t == <<c, d>>
<1>1. <<c>> \in Seq({c, d}) /\ Len(<<c>>) = 1 /\ <<c>>[1] = c /\ d \in {c, d}
  OBVIOUS
<1>2. s \in Seq({c, d}) /\ Len(s) = 2 /\ s[1] = c /\ s[2] = d
  BY <1>1, AppendProperties
<1>3. t \in Seq({c, d}) /\ Len(t) = 2 /\ t[1] = c /\ t[2] = d
  OBVIOUS
<1> HIDE DEF s, t
<1>4. \A i \in 1..Len(s) : s[i] = t[i]
  BY <1>2, <1>3
<1>5. s = t
  BY <1>2, <1>3, <1>4, SeqEqual
<1> QED BY <1>5 DEF s, t

\* What is known of an operator that was begun.
LEMMA OperatorBegun ==
  ASSUME IInv, at = "operator"
  PROVE  /\ buffer = <<file[begin]>> /\ buffer[1] = file[begin]
         /\ buffer \in Seq(Symbols)
         /\ file[begin] \in OperatorOrPunctuatorStart
         /\ begin = pos /\ buffer = SubSeq(file, begin, pos)
         /\ located = Located(file, begin)
         /\ at \in ReadPlaces /\ at \in TokenPlaces
<1>1. at \in ReadPlaces /\ at \in TokenPlaces
  BY DEF ReadPlaces, TokenPlaces
<1>2. /\ begin = pos /\ buffer = SubSeq(file, begin, pos)
      /\ file[begin] \in OperatorOrPunctuatorStart /\ located = Located(file, begin)
  BY <1>1 DEF IInv, LexemeInv, BeginInv
<1>3. file \in Seq(Char) /\ begin \in 1..Len(file) /\ buffer \in Seq(Symbols)
  BY <1>1, TokenFacts
<1>4. SubSeq(file, begin, begin) = <<file[begin]>>
  BY ONLY <1>3, OneCharacter
<1>5. buffer = <<file[begin]>>
  BY ONLY <1>2, <1>4
<1> QED BY <1>1, <1>2, <1>3, <1>5

\* The invariant survives the second character of an operator.
LEMMA ScanSecondStep == IInv /\ ScanSecond => IInv'
<1> SUFFICES ASSUME IInv, ScanSecond PROVE IInv'
  OBVIOUS
<1>1. at = "operator" /\ Peek \in Second(buffer[1]) /\ PushNext("operator_end")
  BY DEF ScanSecond
<1>2. /\ buffer = <<file[begin]>> /\ buffer[1] = file[begin]
      /\ file[begin] \in OperatorOrPunctuatorStart
      /\ located = Located(file, begin)
      /\ at \in ReadPlaces /\ at \in TokenPlaces
  BY <1>1, OperatorBegun
<1> DEFINE c == file[begin]
<1>3. Ahead \in Second(c) /\ Peek # Eof
  <2>1. Eof \notin Second(c)
    <3>1. c # Eof
      BY <1>2, Classes
    <3> QED BY <3>1 DEF Second, Eof
  <2>2. Peek = Ahead /\ Peek \in Second(c)
    BY <1>1, <1>2, PeekValue
  <2> QED BY <2>1, <2>2
<1>4. /\ StreamInv' /\ file' = file
      /\ UNCHANGED <<begin, located, items>> /\ at' = "operator_end"
      /\ buffer' = Append(buffer, Ahead)
      /\ buffer' \in Seq(Symbols) /\ buffer' = SubSeq(file, begin, pos') /\ begin <= pos'
  BY <1>1, <1>2, <1>3, PushNextStep
<1>5. buffer' = <<c, Ahead>>
  <2>1. buffer' = Append(<<c>>, Ahead)
    BY ONLY <1>2, <1>4
  <2>2. Append(<<c>>, Ahead) = <<c, Ahead>>
    BY TwoCharacters
  <2> QED BY ONLY <2>1, <2>2
<1> HIDE DEF c
<1>6. Ends(buffer, Ahead)'
  <2>1. <<c, Ahead>> \in Operator \cup Punctuator
    <3>1. c \in OperatorOrPunctuatorStart
      BY <1>2 DEF c
    <3> QED BY <1>3, <3>1, OperatorEnds
  <2>2. \A e : Append(<<c, Ahead>>, e) \notin Operator \cup Punctuator
    BY NoThird
  <2>3. PICK e : e = Ahead'
    OBVIOUS
  <2>4. Append(<<c, Ahead>>, e) \notin Operator \cup Punctuator
    BY ONLY <2>2
  <2>5. /\ buffer' \in Operator \cup Punctuator
        /\ Append(buffer', Ahead') \notin Operator \cup Punctuator
    BY ONLY <1>5, <2>1, <2>3, <2>4
  <2> QED BY <2>5 DEF Ends
<1>7. LexemeInv'
  <2>1. buffer' = SubSeq(file', begin', pos') /\ file'[begin'] \in OperatorOrPunctuatorStart
    BY ONLY <1>2, <1>4
  <2> QED BY ONLY <1>4, <1>6, <2>1 DEF LexemeInv, ReadPlaces, AheadPlaces
<1>8. QuotedInv'
  BY <1>4 DEF QuotedInv
<1>9. /\ at' \in TokenPlaces
      /\ located' = Located(file, IF at' \in {"character_escape", "character_end"}
                                  THEN begin + 1 ELSE begin)
  BY <1>2, <1>4 DEF TokenPlaces, ReadPlaces
<1> QED BY ONLY IInv, <1>2, <1>4, <1>7, <1>8, <1>9, GoOn

\* The invariant survives the end of an operator of one character.
LEMMA ScanOnlyStep == IInv /\ ScanOnly => IInv'
<1> SUFFICES ASSUME IInv, ScanOnly PROVE IInv'
  OBVIOUS
<1>1. at = "operator" /\ Peek \notin Second(buffer[1]) /\ Stay
  BY DEF ScanOnly
<1>2. /\ buffer = <<file[begin]>> /\ buffer[1] = file[begin]
      /\ buffer \in Seq(Symbols)
      /\ file[begin] \in OperatorOrPunctuatorStart
      /\ begin = pos /\ buffer = SubSeq(file, begin, pos)
      /\ located = Located(file, begin)
      /\ at \in ReadPlaces /\ at \in TokenPlaces
  BY <1>1, OperatorBegun
<1>3. StreamInv' /\ file' = file /\ pos' = pos
  BY <1>1, StayStep DEF IInv, Stay, streamVars
<1>4. CASE LogError
  BY <1>2, <1>3, <1>4, ErrorStep
<1>5. CASE buffer[1] \notin {"&", "|"} /\ Goto("operator_end")
  <2> DEFINE c == file[begin]
  <2>1. at' = "operator_end" /\ UNCHANGED <<begin, located, buffer, items>>
    BY <1>5 DEF Goto, scannerVars
  <2>2. Ahead \notin Second(c) /\ c \notin {"&", "|"}
    BY <1>1, <1>2, <1>5, PeekValue
  <2> HIDE DEF c
  <2>3. Ends(buffer, Ahead)'
    <3>1. c \in OperatorOrPunctuatorStart
      BY <1>2 DEF c
    <3>2. <<c>> \in Operator \cup Punctuator /\ <<c, Ahead>> \notin Operator \cup Punctuator
      BY <2>2, <3>1, OperatorEnds
    <3>3. Append(<<c>>, Ahead) = <<c, Ahead>>
      BY TwoCharacters
    <3>4. buffer' = <<c>> /\ Ahead' = Ahead
      BY <1>2, <1>3, <2>1 DEF Ahead, c
    <3> QED BY ONLY <3>2, <3>3, <3>4 DEF Ends
  <2>4. LexemeInv'
    <3>1. buffer' = SubSeq(file', begin', pos') /\ file'[begin'] \in OperatorOrPunctuatorStart
      BY ONLY <1>2, <1>3, <2>1
    <3> QED BY ONLY <2>1, <2>3, <3>1 DEF LexemeInv, ReadPlaces, AheadPlaces
  <2>5. QuotedInv'
    BY <2>1 DEF QuotedInv
  <2>6. /\ at' \in TokenPlaces /\ begin <= pos' /\ buffer' \in Seq(Symbols)
        /\ located' = Located(file, IF at' \in {"character_escape", "character_end"}
                                    THEN begin + 1 ELSE begin)
    <3>1. begin <= pos
      BY <1>2, TokenFacts
    <3> QED BY <1>2, <1>3, <2>1, <3>1 DEF TokenPlaces, ReadPlaces
  <2> QED BY ONLY IInv, <1>2, <1>3, <2>1, <2>4, <2>5, <2>6, GoOn
<1> QED BY <1>4, <1>5 DEF ScanOnly

\* The invariant survives the end of an operator or punctuator.
LEMMA EndOperatorStep == IInv /\ EndOperator => IInv'
<1> SUFFICES ASSUME IInv, EndOperator PROVE IInv'
  OBVIOUS
<1>1. at = "operator_end" /\ at \in ReadPlaces /\ at \in TokenPlaces /\ Stay
  BY DEF EndOperator, ReadPlaces, TokenPlaces
<1>2. StreamInv' /\ file' = file /\ pos' = pos
  BY <1>1, StayStep DEF IInv, Stay, streamVars
<1>3. /\ buffer = SubSeq(file, begin, pos) /\ file[begin] \in OperatorOrPunctuatorStart
      /\ located = Located(file, begin)
      /\ buffer \in Operator \cup Punctuator
      /\ Append(buffer, Ahead) \notin Operator \cup Punctuator
  BY <1>1 DEF IInv, LexemeInv, BeginInv, Ends
<1>4. file \in Seq(Char) /\ begin \in 1..Len(file) /\ pos \in begin..Len(file)
  BY <1>1, TokenFacts
<1>5. Head(buffer) \notin IdentifierStart
  <2>1. Head(buffer) = file[begin]
    BY ONLY <1>3, <1>4, HeadOfText
  <2> QED BY <1>3, <2>1, Classes
<1>6. PICK type \in {"operator", "punctuator"} : Return(type)
  BY <1>3, Zenon DEF EndOperator
<1>7. /\ type \in TokenTypes
      /\ type \notin {"integer", "float", "string", "character", "eof"}
  BY Types
<1>8. Append(buffer, Located(file, pos' + 1).character) \notin Operator \cup Punctuator
  BY <1>2, <1>3 DEF Ahead
<1> QED BY ONLY IInv, <1>1, <1>2, <1>3, <1>5, <1>6, <1>7, <1>8, ReturnStep

-----------------------------------------------------------------------------
(* Literals in quotes.                                                     *)

\* What a literal gets into its buffer, and how its reader moves.
LEMMA ReadSymbol ==
  ASSUME IInv, at \in QuotedPlaces, Reads
  PROVE  /\ file' = file /\ pos \in Nat /\ pos' \in Nat /\ pos <= pos'
         /\ got'[1].character \in Symbols
         /\ InterpretEscapeSequence(got'[1].character) \in Symbols
         /\ got'[1].character # Eof => /\ pos < Len(file) /\ pos' = pos + 1
                                       /\ file[pos'] = got'[1].character
<1>1. file \in Seq(Char) /\ Len(file) \in Nat /\ pos \in 0..Len(file)
  BY TokenFacts DEF TokenPlaces
<1>2. got'[1].character \in Char \cup {Eof}
  BY DEF Reads
<1>3. /\ got'[1].character \in Symbols
      /\ InterpretEscapeSequence(got'[1].character) \in Symbols
  BY <1>2 DEF Symbols, InterpretEscapeSequence
<1>4. pos' \in Nat /\ pos <= pos'
  BY <1>1 DEF Reads
<1> QED BY <1>1, <1>3, <1>4 DEF Reads

\* Within a literal the invariant is about its quotes.
LEMMA LiteralGoesOn ==
  ASSUME IInv, at \in QuotedPlaces, at' \in QuotedPlaces, StreamInv', file' = file,
         pos \in Nat, pos' \in Nat, pos <= pos',
         begin' = begin, items' = items,
         located' = Located(file, IF at' \in {"character_escape", "character_end"}
                                  THEN begin + 1 ELSE begin),
         buffer' \in Seq(Symbols), QuotedInv'
  PROVE  IInv'
<1>1. at \in TokenPlaces /\ at' \in TokenPlaces
  BY DEF TokenPlaces
<1>2. begin <= pos'
  <2>1. begin <= pos /\ begin \in Int
    BY <1>1, TokenFacts
  <2> QED BY <2>1
<1>3. LexemeInv'
  BY DEF LexemeInv, QuotedPlaces, ReadPlaces, AheadPlaces
<1> QED BY <1>1, <1>2, <1>3, GoOn

\* The invariant survives the character behind the apostrophe.
LEMMA ScanCharacterStep == IInv /\ ScanCharacter => IInv'
<1> SUFFICES ASSUME IInv, ScanCharacter PROVE IInv'
  OBVIOUS
<1> DEFINE c == got'[1].character
<1>1. at = "character" /\ at \in QuotedPlaces /\ at \in TokenPlaces
  BY DEF ScanCharacter, QuotedPlaces, TokenPlaces
<1>2. StreamInv' /\ Reads
  BY NextCharStep DEF IInv, ScanCharacter
<1>3. /\ file' = file /\ pos \in Nat /\ pos' \in Nat /\ pos <= pos' /\ c \in Symbols
      /\ c # Eof => file[pos'] = c
  BY <1>1, <1>2, ReadSymbol
<1>4. begin = pos /\ file[begin] = Apostrophe
  BY <1>1 DEF IInv, QuotedInv
<1>5. /\ located' = Located(file, begin + 1) /\ begin' = begin
      /\ begin \in 1..Len(file) /\ Len(file) \in Nat
  BY <1>1, <1>2, <1>4, TokenFacts DEF Reads, ScanCharacter
<1>6. CASE /\ c = Apostrophe
           /\ items' = Append(items, [Item("character") EXCEPT !.location = located'])
           /\ at' = "returned"
           /\ UNCHANGED buffer
  <2>1. PICK t : t = [Item("character") EXCEPT !.location = located']
    OBVIOUS
  <2>2. /\ t.type = "character" /\ t.location = located' /\ t.lexeme = buffer
        /\ t.from = begin /\ t.end = pos'
    BY <2>1 DEF Item
  <2>3. /\ "character" \in TokenTypes
        /\ "character" \notin Spelled \cup {"string", "eof", "integer", "float", "operator",
                                            "punctuator"}
    BY Types
  <2>4. t \in [type : TokenTypes \cup {"error"},
               location : {Located(file, i) : i \in 1..(Len(file) + 1)},
               lexeme : {buffer}, from : {begin}, end : {pos'}]
    <3>1. located' \in {Located(file, i) : i \in 1..(Len(file) + 1)}
      BY <1>5
    <3>2. t = [type |-> "character", location |-> located', lexeme |-> buffer, from |-> begin,
               end |-> pos']
      BY <2>1 DEF Item
    <3> QED BY ONLY <2>3, <3>1, <3>2
  <2>5. file[pos'] = Apostrophe
    BY <1>3, <1>6, Classes
  <2>6. TextOK(t)
    BY <1>4, <1>5, <2>2, <2>3, <2>5 DEF TextOK
  <2>7. LongestOK(t)
    BY <2>2, <2>3 DEF LongestOK
  <2> HIDE DEF c
  <2> QED BY <1>1, <1>2, <1>3, <1>6, <2>1, <2>2, <2>4, <2>6, <2>7, ItemStep
<1>7. CASE c = Escape /\ at' = "character_escape" /\ UNCHANGED <<buffer, items>>
  <2>1. buffer' \in Seq(Symbols)
    BY <1>1, <1>7, TokenFacts
  <2>2. QuotedInv'
    BY <1>3, <1>4, <1>5, <1>7 DEF QuotedInv
  <2>3. at' \in QuotedPlaces /\ items' = items
    BY <1>7 DEF QuotedPlaces
  <2>4. located' = Located(file, IF at' \in {"character_escape", "character_end"}
                                 THEN begin + 1 ELSE begin)
    BY <1>5, <1>7
  <2> QED BY ONLY IInv, <1>1, <1>2, <1>3, <1>5, <2>1, <2>2, <2>3, <2>4, LiteralGoesOn
<1>8. CASE /\ c \notin {Apostrophe, Escape}
           /\ buffer' = <<c>> /\ at' = "character_end" /\ UNCHANGED items
  <2>1. buffer' \in Seq(Symbols)
    BY <1>3, <1>8
  <2>2. QuotedInv'
    BY <1>3, <1>4, <1>5, <1>8 DEF QuotedInv
  <2>3. at' \in QuotedPlaces /\ items' = items
    BY <1>8 DEF QuotedPlaces
  <2>4. located' = Located(file, IF at' \in {"character_escape", "character_end"}
                                 THEN begin + 1 ELSE begin)
    BY <1>5, <1>8
  <2> QED BY ONLY IInv, <1>1, <1>2, <1>3, <1>5, <2>1, <2>2, <2>3, <2>4, LiteralGoesOn
<1> QED BY <1>6, <1>7, <1>8 DEF ScanCharacter

\* The invariant survives the character behind a backslash.
LEMMA ScanEscapeStep == IInv /\ ScanEscape => IInv'
<1> SUFFICES ASSUME IInv, ScanEscape PROVE IInv'
  OBVIOUS
<1>1. /\ at \in {"character_escape", "string_escape"} /\ at \in QuotedPlaces
      /\ at \in TokenPlaces
  BY DEF ScanEscape, QuotedPlaces, TokenPlaces
<1>2. StreamInv' /\ Reads
  BY NextCharStep DEF IInv, ScanEscape
<1>3. /\ file' = file /\ pos \in Nat /\ pos' \in Nat /\ pos <= pos'
      /\ InterpretEscapeSequence(got'[1].character) \in Symbols
  BY <1>1, <1>2, ReadSymbol
<1>4. /\ buffer' = Append(buffer, InterpretEscapeSequence(got'[1].character))
      /\ at' = IF at = "character_escape" THEN "character_end" ELSE "string"
      /\ begin' = begin /\ located' = located /\ items' = items
  BY DEF ScanEscape, Push
<1>5. /\ at = "character_escape" => /\ file[begin] = Apostrophe
                                    /\ located = Located(file, begin + 1)
      /\ at = "string_escape" => file[begin] = Quote /\ located = Located(file, begin)
  BY <1>1 DEF IInv, QuotedInv, BeginInv
<1>6. buffer' \in Seq(Symbols)
  <2>1. buffer \in Seq(Symbols)
    BY <1>1, TokenFacts
  <2> QED BY <1>3, <1>4, <2>1
<1>7. QuotedInv'
  BY <1>1, <1>3, <1>4, <1>5 DEF QuotedInv
<1>8. /\ at' \in QuotedPlaces
      /\ located' = Located(file, IF at' \in {"character_escape", "character_end"}
                                  THEN begin + 1 ELSE begin)
  BY <1>1, <1>4, <1>5 DEF QuotedPlaces
<1> QED BY ONLY IInv, <1>1, <1>2, <1>3, <1>4, <1>6, <1>7, <1>8, LiteralGoesOn

\* The invariant survives the end of a character literal.
LEMMA EndCharacterStep == IInv /\ EndCharacter => IInv'
<1> SUFFICES ASSUME IInv, EndCharacter PROVE IInv'
  OBVIOUS
<1>1. at = "character_end" /\ at \in QuotedPlaces /\ at \in TokenPlaces
  BY DEF EndCharacter, QuotedPlaces, TokenPlaces
<1>2. StreamInv' /\ Reads
  BY NextCharStep DEF IInv, EndCharacter
<1>3. /\ file' = file
      /\ got'[1].character # Eof => file[pos'] = got'[1].character
  BY <1>1, <1>2, ReadSymbol
<1>4. file[begin] = Apostrophe /\ located = Located(file, begin + 1)
  BY <1>1 DEF IInv, QuotedInv, BeginInv
<1>5. CASE got'[1].character = Apostrophe /\ Return("character")
  <2>1. PICK type : type = "character"
    OBVIOUS
  <2>2. /\ type \in TokenTypes
        /\ type \notin Spelled \cup {"string", "eof", "integer", "float", "operator",
                                     "punctuator"}
    BY <2>1, Types
  <2>3. file[pos'] = Apostrophe
    BY <1>3, <1>5, Classes
  <2>4. Return(type)
    BY <1>5, <2>1
  <2> QED BY ONLY IInv, <1>1, <1>2, <1>3, <1>4, <2>2, <2>3, <2>4, ReturnStep
<1>6. CASE LogError
  BY <1>1, <1>2, <1>3, <1>6, ErrorStep
<1> QED BY <1>5, <1>6 DEF EndCharacter

\* The invariant survives a character of a string.
LEMMA ScanStringCharStep == IInv /\ ScanStringChar => IInv'
<1> SUFFICES ASSUME IInv, ScanStringChar PROVE IInv'
  OBVIOUS
<1>1. at = "string" /\ at \in QuotedPlaces /\ at \in TokenPlaces
  BY DEF ScanStringChar, QuotedPlaces, TokenPlaces
<1>2. StreamInv' /\ Reads
  BY NextCharStep DEF IInv, ScanStringChar
<1>3. /\ file' = file /\ pos \in Nat /\ pos' \in Nat /\ pos <= pos'
      /\ got'[1].character \in Symbols
  BY <1>1, <1>2, ReadSymbol
<1>4. file[begin] = Quote /\ located = Located(file, begin) /\ buffer \in Seq(Symbols)
  BY <1>1, TokenFacts DEF IInv, QuotedInv, BeginInv
<1>5. /\ at' \in {"string", "string_escape"}
      /\ begin' = begin /\ located' = located /\ items' = items
      /\ buffer' \in {buffer, Append(buffer, got'[1].character)}
  BY DEF ScanStringChar, Goto, Push, scannerVars
<1>6. buffer' \in Seq(Symbols)
  BY <1>3, <1>4, <1>5
<1>7. QuotedInv'
  BY <1>3, <1>4, <1>5 DEF QuotedInv
<1>8. /\ at' \in QuotedPlaces
      /\ located' = Located(file, IF at' \in {"character_escape", "character_end"}
                                  THEN begin + 1 ELSE begin)
  BY <1>4, <1>5 DEF QuotedPlaces
<1> QED BY ONLY IInv, <1>1, <1>2, <1>3, <1>5, <1>6, <1>7, <1>8, LiteralGoesOn

\* The invariant survives the end of a string literal.
LEMMA EndStringLiteralStep == IInv /\ EndStringLiteral => IInv'
<1> SUFFICES ASSUME IInv, EndStringLiteral PROVE IInv'
  OBVIOUS
<1>1. at = "string" /\ at \in QuotedPlaces /\ at \in TokenPlaces
  BY DEF EndStringLiteral, QuotedPlaces, TokenPlaces
<1>2. CASE Peek = Quote /\ Input!NextChar /\ Goto("string_more")
  <2>1. StreamInv' /\ Reads
    BY <1>2, NextCharStep DEF IInv
  <2>2. got'[1].character = Quote /\ got'[1].character # Eof
    BY <1>2, <2>1, PeekValue, Classes DEF Reads
  <2>3. /\ file' = file /\ pos \in Nat /\ pos' \in Nat /\ pos <= pos'
        /\ file[pos'] = Quote
    BY <1>1, <2>1, <2>2, ReadSymbol
  <2>4. /\ file[begin] = Quote /\ located = Located(file, begin) /\ buffer \in Seq(Symbols)
        /\ begin \in Nat /\ begin <= pos
    BY <1>1, TokenFacts DEF IInv, QuotedInv, BeginInv
  <2>5. /\ at' = "string_more"
        /\ begin' = begin /\ located' = located /\ items' = items /\ buffer' = buffer
    BY <1>2 DEF Goto, scannerVars
  <2>6. Quoted(file', begin', pos')
    <3>1. pos' \in begin'..pos'
      BY <2>3, <2>4, <2>5
    <3>2. \A j \in (pos' + 1)..pos' : file'[j] \in Whitespace
      <4>1. \A p \in Nat : \A j \in (p + 1)..p : FALSE
        OBVIOUS
      <4>2. pos' \in Nat
        BY <2>3
      <4> QED BY ONLY <4>1, <4>2
    <3>3. file'[pos'] = Quote
      BY <2>3
    <3> QED BY ONLY <3>1, <3>2, <3>3 DEF Quoted
  <2>7. QuotedInv'
    <3>1. file'[begin'] = Quote
      BY <2>3, <2>4, <2>5
    <3> QED BY ONLY <2>5, <2>6, <3>1 DEF QuotedInv
  <2>8. /\ at' \in QuotedPlaces /\ buffer' \in Seq(Symbols)
        /\ located' = Located(file, IF at' \in {"character_escape", "character_end"}
                                    THEN begin + 1 ELSE begin)
    BY <2>4, <2>5 DEF QuotedPlaces
  <2> QED BY ONLY IInv, <1>1, <2>1, <2>3, <2>5, <2>7, <2>8, LiteralGoesOn
<1>3. CASE Stay /\ LogError
  BY <1>1, <1>3, StayStep, ErrorStep DEF IInv, Stay, streamVars
<1> QED BY <1>2, <1>3 DEF EndStringLiteral

\* The invariant survives the search for another literal of a string.
LEMMA ScanNextLiteralStep == IInv /\ ScanNextLiteral => IInv'
<1> SUFFICES ASSUME IInv, ScanNextLiteral PROVE IInv'
  OBVIOUS
<1>1. at = "string_more" /\ at \in QuotedPlaces /\ at \in TokenPlaces
  BY DEF ScanNextLiteral, QuotedPlaces, TokenPlaces
<1>2. /\ StreamInv'
      /\ Skips \/ (Reads /\ ~skipping' /\ got'[1].character \notin Whitespace)
  BY NextNonwhitespaceStep DEF IInv, ScanNextLiteral
<1>3. /\ file[begin] = Quote /\ located = Located(file, begin) /\ Quoted(file, begin, pos)
      /\ buffer \in Seq(Symbols) /\ begin \in Nat /\ pos \in Nat /\ begin <= pos
  BY <1>1, TokenFacts DEF IInv, QuotedInv, BeginInv
<1>4. begin' = begin /\ located' = located /\ items' = items /\ buffer' = buffer
  BY DEF ScanNextLiteral, Goto, scannerVars
<1>5. /\ skipping' => at' = "string_more"
      /\ ~skipping' /\ got'[1].character = Quote => at' = "string"
      /\ ~skipping' /\ got'[1].character # Quote => at' = "string_end"
  BY DEF ScanNextLiteral, Goto
<1>6. /\ file' = file /\ pos' \in Nat /\ pos <= pos'
      /\ at' \in {"string_more", "string", "string_end"}
      /\ at' = "string_more" => Quoted(file, begin, pos')
      /\ at' = "string_end" => /\ got' # <<>> /\ got'[1].character \notin Whitespace \cup {Quote}
                               /\ Quoted(file, begin, Unread')
  <2>1. CASE Skips
    <3>1. /\ file' = file /\ pos' = pos + 1 /\ file[pos + 1] \in Whitespace
          /\ at' = "string_more"
      BY <1>5, <2>1 DEF Skips
    <3>2. PICK k \in begin..pos :
            file[k] = Quote /\ \A j \in (k + 1)..pos : file[j] \in Whitespace
      BY <1>3 DEF Quoted
    <3>3. k \in begin..(pos + 1)
      BY <1>3, <3>2
    <3>4. ASSUME NEW j \in (k + 1)..(pos + 1) PROVE file[j] \in Whitespace
      <4>1. CASE j = pos + 1
        BY <3>1, <4>1
      <4>2. CASE j # pos + 1
        <5>1. j \in (k + 1)..pos
          BY <1>3, <3>2, <4>2
        <5> QED BY <3>2, <5>1
      <4> QED BY <4>1, <4>2
    <3>5. Quoted(file, begin, pos + 1)
      BY ONLY <3>2, <3>3, <3>4 DEF Quoted
    <3> QED BY <1>3, <3>1, <3>5
  <2>2. CASE Reads /\ ~skipping' /\ got'[1].character \notin Whitespace
    <3>1. /\ file' = file /\ pos' \in Nat /\ pos <= pos' /\ got' # <<>> /\ Unread' = pos
      BY <1>1, <2>2, ReadSymbol DEF Reads
    <3>2. at' \in {"string", "string_end"} /\ (at' = "string_end" => got'[1].character # Quote)
      BY <1>5, <2>2
    <3> QED BY <1>3, <2>2, <3>1, <3>2
  <2> QED BY <1>2, <2>1, <2>2
<1>7. QuotedInv'
  <2>1. file'[begin'] = Quote
    BY <1>3, <1>4, <1>6
  <2>2. /\ at' = "string_more" => Quoted(file', begin', pos')
        /\ at' = "string_end" => /\ got' # <<>> /\ got'[1].character \notin Whitespace \cup {Quote}
                                 /\ Quoted(file', begin', Unread')
    BY ONLY <1>4, <1>6
  <2> QED BY ONLY <1>6, <2>1, <2>2 DEF QuotedInv
<1>8. /\ at' \in QuotedPlaces /\ buffer' \in Seq(Symbols)
      /\ located' = Located(file, IF at' \in {"character_escape", "character_end"}
                                  THEN begin + 1 ELSE begin)
  BY <1>3, <1>4, <1>6 DEF QuotedPlaces
<1> QED BY ONLY IInv, <1>1, <1>2, <1>3, <1>4, <1>6, <1>7, <1>8, LiteralGoesOn

\* The invariant survives the end of a string.
LEMMA EndStringStep == IInv /\ EndString => IInv'
<1> SUFFICES ASSUME IInv, EndString PROVE IInv'
  OBVIOUS
<1>1. at = "string_end" /\ at \in TokenPlaces /\ Return("string")
  BY DEF EndString, QuotedPlaces, TokenPlaces
<1>2. /\ StreamInv' /\ file' = file /\ pos' = Unread
      /\ Located(file, pos' + 1) = got[1]
  BY PutBackStep DEF IInv, EndString
<1>3. /\ file[begin] = Quote /\ located = Located(file, begin)
      /\ got[1].character \notin Whitespace \cup {Quote}
      /\ Quoted(file, begin, Unread)
  BY <1>1 DEF IInv, QuotedInv, BeginInv
<1>4. /\ Quoted(file, begin, pos')
      /\ Located(file, pos' + 1).character \notin Whitespace \cup {Quote}
  BY ONLY <1>2, <1>3
<1>5. PICK type : type = "string"
  OBVIOUS
<1>6. /\ type \in TokenTypes
      /\ type \notin Spelled \cup {"character", "eof", "integer", "float", "operator",
                                   "punctuator"}
  BY <1>5, Types
<1>7. Return(type)
  BY <1>1, <1>5
<1> QED BY ONLY IInv, <1>1, <1>2, <1>3, <1>4, <1>6, <1>7, ReturnStep

-----------------------------------------------------------------------------
(* The theorems.                                                           *)

\* The invariant holds in the beginning.
LEMMA InitHolds == Init => IInv
<1> SUFFICES ASSUME Init PROVE IInv
  OBVIOUS
<1>1. file \in Seq(Char) /\ pos = 0 /\ got = <<>> /\ at = "start" /\ buffer = <<>> /\ items = <<>>
  BY FileAssumption DEF Init, Input!Init
<1>2. Len(file) \in Nat /\ Len(items) = 0 /\ \A i \in 1..Len(items) : FALSE
  BY <1>1
<1>3. StreamInv
  BY <1>1, <1>2 DEF StreamInv
<1>4. GapInv
  <2>1. Behind = 0
    BY <1>1 DEF Behind
  <2>2. ClosedGap(file, 0, 0)
    BY EmptyGap
  <2>3. ClosedGap(file, Behind, pos)
    BY ONLY <1>1, <2>1, <2>2
  <2>4. Gap(file, Behind, pos)
    BY ONLY <2>3, Zenon DEF ClosedGap
  <2> QED BY ONLY <1>1, <1>2, <2>1, <2>3, <2>4 DEF GapInv
<1>5. BeginInv /\ LexemeInv /\ QuotedInv
  BY <1>1 DEF BeginInv, LexemeInv, QuotedInv, TokenPlaces, ReadPlaces, AheadPlaces, QuotedPlaces
<1>6. ItemsInv
  <2>1. TokensAreTheText /\ NothingIsDropped /\ LongestMatch
    BY <1>2, EveryItem
  <2>2. items \in Seq(ItemSet) /\ buffer \in Seq(Symbols)
    BY <1>1
  <2> QED BY <1>1, <1>2, <2>1, <2>2 DEF ItemsInv
<1> QED BY <1>3, <1>4, <1>5, <1>6 DEF IInv

\* The invariant survives every step.
LEMMA NextHolds == IInv /\ [Next]_vars => IInv'
<1>1. IInv /\ Next => IInv'
  BY FirstCharStep, DispatchStep, ScanCommentStep, NextTokenStep, ScanIdentifierCharStep,
     EndIdentifierStep, ScanDigitStep, EndDigitsStep, PointStep, ExponentStep, ExponentSignStep,
     EndExponentStep, ScanSecondStep, ScanOnlyStep, EndOperatorStep, ScanCharacterStep,
     ScanEscapeStep, EndCharacterStep, ScanStringCharStep, EndStringLiteralStep,
     ScanNextLiteralStep, EndStringStep
  DEF Next
<1>2. IInv /\ UNCHANGED vars => IInv'
  <2> SUFFICES ASSUME IInv, UNCHANGED vars PROVE IInv'
    OBVIOUS
  <2>1. /\ file' = file /\ pos' = pos /\ got' = got /\ at' = at /\ begin' = begin
        /\ located' = located /\ buffer' = buffer /\ items' = items
    BY DEF vars, streamVars, scannerVars
  <2>2. Behind' = Behind /\ Unread' = Unread /\ Ahead' = Ahead
    BY <2>1 DEF Behind, Unread, Ahead
  <2>3. StreamInv'
    BY <2>1 DEF IInv, StreamInv
  <2>4. GapInv'
    BY <2>1, <2>2 DEF IInv, GapInv
  <2>5. BeginInv'
    BY <2>1, <2>2 DEF IInv, BeginInv
  <2>6. LexemeInv'
    <3>1. HasExponent(buffer)' <=> HasExponent(buffer)
      BY <2>1 DEF HasExponent
    <3>2. Ends(buffer, Ahead)' <=> Ends(buffer, Ahead)
      BY <2>1, <2>2 DEF Ends
    <3> QED BY <2>1, <2>2, <3>1, <3>2 DEF IInv, LexemeInv
  <2>7. QuotedInv'
    BY <2>1, <2>2 DEF IInv, QuotedInv
  <2>8. ItemsInv'
    BY <2>1, SameItems DEF IInv, ItemsInv
  <2> QED BY <2>3, <2>4, <2>5, <2>6, <2>7, <2>8 DEF IInv
<1> QED BY <1>1, <1>2

\* Every state satisfies the invariant.
LEMMA Invariant == Spec => []IInv
BY InitHolds, NextHolds, PTL DEF Spec

\* A token has the location and the text of what was read for it, whatever the
\* file and the keywords.
THEOREM TextsOfTokens == Spec => []TokensAreTheText
<1>1. IInv => TokensAreTheText
  BY DEF IInv, ItemsInv
<1> QED BY <1>1, Invariant, PTL

\* Between the tokens and errors there are only blanks and comments.
THEOREM NothingBetween == Spec => []NothingIsDropped
<1>1. IInv => NothingIsDropped
  BY DEF IInv, ItemsInv
<1> QED BY <1>1, Invariant, PTL

\* A token does not go on in the text behind it.
THEOREM MaximalMunch == Spec => []LongestMatch
<1>1. IInv => LongestMatch
  BY DEF IInv, ItemsInv
<1> QED BY <1>1, Invariant, PTL

\* The scanner uses the stream as the stream may be used: every step of it is
\* one operation of the stream or leaves the stream alone, so what holds for
\* the implementation of the stream holds for what the scanner sees of it.
THEOREM StreamIsUsedWell == Spec => Input!Spec
<1>1. Init => Input!Init
  BY DEF Init
<1>2. [Next]_vars => [Input!Next]_(Input!streamVars)
  <2> SUFFICES ASSUME Next, ~UNCHANGED Input!streamVars
               PROVE  Input!NextChar \/ Input!NextNonwhitespaceChar \/ Input!PutBack
    BY DEF vars, streamVars, Input!streamVars, Input!Next
  <2>1. ~Stay
    BY DEF Stay, streamVars, Input!streamVars
  <2>2. FirstChar => Input!NextNonwhitespaceChar
    BY DEF FirstChar
  <2>3. ScanComment \/ EndDigits \/ ScanCharacter \/ ScanEscape \/ EndCharacter \/ ScanStringChar
          => Input!NextChar
    BY DEF ScanComment, EndDigits, ScanCharacter, ScanEscape, EndCharacter, ScanStringChar
  <2>4. ScanIdentifierChar \/ ScanDigit \/ ScanSecond => Input!NextChar
    BY DEF ScanIdentifierChar, ScanDigit, ScanSecond, PushNext
  <2>5. ~(\/ Dispatch \/ NextToken \/ EndIdentifier \/ ExponentSign \/ EndExponent \/ ScanOnly
          \/ EndOperator)
    BY <2>1 DEF Dispatch, NextToken, EndIdentifier, ExponentSign, EndExponent, ScanOnly, EndOperator
  <2>6. Point => Input!PutBack
    BY <2>1 DEF Point
  <2>7. Exponent => Input!PutBack \/ Input!NextChar
    BY <2>1 DEF Exponent
  <2>8. EndStringLiteral => Input!NextChar
    BY <2>1 DEF EndStringLiteral
  <2>9. ScanNextLiteral => Input!NextNonwhitespaceChar
    BY DEF ScanNextLiteral
  <2>10. EndString => Input!PutBack
    BY DEF EndString
  <2> QED BY <2>2, <2>3, <2>4, <2>5, <2>6, <2>7, <2>8, <2>9, <2>10, Zenon DEF Next
<1> QED BY <1>1, <1>2, PTL DEF Spec, Input!Spec
=============================================================================
