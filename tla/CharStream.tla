----------------------------- MODULE CharStream -----------------------------
(***************************************************************************)
(* The character stream under the scanner: LocatedCharStream, which looks  *)
(* one character ahead, on top of InputHandler, which reads the file line  *)
(* by line into a queue.  Characters that are put back go through both.    *)
(***************************************************************************)
EXTENDS TextFile

VARIABLES
  file,       \* the contents of the input file
  handler,    \* the InputHandler
  next_char,  \* the look-ahead of the LocatedCharStream
  got,        \* what the stream returned last, unless it was put back
  skipping    \* in the loop of NextNonwhitespaceChar

vars == <<file, handler, next_char, got, skipping>>

-----------------------------------------------------------------------------
(* InputHandler.  read is the position of the file it has read up to; eof  *)
(* is the flag of the file stream, eof_char the static EOF_LOCATED_CHAR.   *)

UninitializedEof == LocatedChar(Eof, -1, -1)

\* The newlines behind position n, and where the line that begins there ends.
Newlines(f, n) == {j \in (n + 1)..Len(f) : f[j] = Newline}
LineEnd(f, n) ==
  IF Newlines(f, n) = {} THEN Len(f)
  ELSE CHOOSE j \in Newlines(f, n) : \A k \in Newlines(f, n) : j <= k

\* Mutant: the column goes on where the line before it ended.
PreloadWithoutReset(h, f) ==
  LET last == LineEnd(f, h.read)
  IN  [h EXCEPT !.read = last, !.eof = Newlines(f, h.read) = {}, !.line_num = @ + 1,
                !.column_num = @ + last - h.read,
                !.char_stream = @ \o [i \in 1..(last - h.read) |->
                   LocatedChar(f[h.read + i], h.line_num + 1, h.column_num + i - 1)]]

\* Reads up to the next newline, or up to the end: only then eof is set.
PreloadNextLine(h, f) ==
  LET last == LineEnd(f, h.read)
  IN  [h EXCEPT !.read = last, !.eof = Newlines(f, h.read) = {}, !.line_num = @ + 1,
                !.column_num = last - h.read + 1,
                !.char_stream = @ \o [i \in 1..(last - h.read) |->
                   LocatedChar(f[h.read + i], h.line_num + 1, i)]]

\* while the queue is empty and the file has more lines: one turn fills the
\* queue or sets eof.
Fill(h, f) == IF h.char_stream = <<>> /\ ~h.eof THEN PreloadNextLine(h, f) ELSE h

Open(f) ==
  Fill([read |-> 0, eof |-> FALSE, char_stream |-> <<>>, line_num |-> 0, column_num |-> 1,
        eof_char |-> UninitializedEof], f)

\* Mutant: the end of the file is never located.
UnlocatedEofChar(h) == h.eof_char

\* The end of the file is located when it is first reached.
EofChar(h) ==
  IF h.eof_char = UninitializedEof THEN LocatedChar(Eof, h.line_num, h.column_num) ELSE h.eof_char

\* InputHandler::Next: the character it returns, and the handler afterwards.
NextOf(h) == IF h.char_stream # <<>> THEN Head(h.char_stream) ELSE EofChar(h)
RestOf(h) == IF h.char_stream # <<>> THEN [h EXCEPT !.char_stream = Tail(@)]
             ELSE [h EXCEPT !.eof_char = EofChar(h)]

-----------------------------------------------------------------------------
(* LocatedCharStream.                                                      *)

Advance ==
  LET h == Fill(handler, file)
  IN  next_char' = NextOf(h) /\ handler' = RestOf(h)

Deliver ==
  /\ got' = <<next_char>>
  /\ Advance
  /\ skipping' = FALSE
  /\ UNCHANGED file

NextChar == ~skipping /\ Deliver

\* One turn of its loop, or what follows it.
NextNonwhitespaceChar ==
  \/ /\ next_char.character \in Whitespace
     /\ Advance
     /\ got' = <<>>
     /\ skipping' = TRUE
     /\ UNCHANGED file
  \/ next_char.character \notin Whitespace /\ Deliver

\* Mutant: the look-ahead is overwritten.
PutBackOverLookAhead ==
  /\ got # <<>>
  /\ next_char' = got[1]
  /\ got' = <<>>
  /\ UNCHANGED <<file, handler, skipping>>

\* The scanner puts back only the character it got last, and only once.
PutBack ==
  /\ got # <<>>
  /\ handler' = [handler EXCEPT !.char_stream = <<next_char>> \o @]
  /\ next_char' = got[1]
  /\ got' = <<>>
  /\ UNCHANGED <<file, skipping>>

Init ==
  /\ file \in File
  /\ LET h == Fill(Open(file), file)
     IN  next_char = NextOf(h) /\ handler = RestOf(h)
  /\ got = <<>>
  /\ skipping = FALSE

Next == NextChar \/ NextNonwhitespaceChar \/ PutBack

Spec == Init /\ [][Next]_vars

-----------------------------------------------------------------------------
(* Correctness.                                                            *)

LocatedChars ==
  [character : Char \cup {Eof}, line : Nat \ {0}, column : Nat \ {0}]

TypeOK ==
  /\ file \in File
  /\ handler \in [read : 0..Len(file), eof : BOOLEAN, char_stream : Seq(LocatedChars),
                  line_num : Nat, column_num : Nat,
                  eof_char : LocatedChars \cup {UninitializedEof}]
  /\ next_char \in LocatedChars
  /\ got \in Seq(LocatedChars) /\ Len(got) <= 1
  /\ skipping \in BOOLEAN

\* How many characters of the file are in the queue: all that is in it, or
\* nothing when it holds the end of the file that was put back.
Queued(h) == IF h.char_stream = <<h.eof_char>> THEN 0 ELSE Len(h.char_stream)

\* How many characters of the file are before the look-ahead.
PositionOf(h, c, f) == IF c.character = Eof THEN Len(f) ELSE h.read - Queued(h) - 1

Position == PositionOf(handler, next_char, file)

Stream == INSTANCE PushbackStream WITH pos <- Position

\* The three places that hold characters, the file, the queue and the
\* look-ahead, act as one stream with put-back: nothing is lost, repeated or
\* reordered, and every character and the end of the file have their location.
IsPushbackStream == Stream!Spec
=============================================================================
