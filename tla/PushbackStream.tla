--------------------------- MODULE PushbackStream ---------------------------
(***************************************************************************)
(* What the scanner relies on: the characters of a file one after the      *)
(* other, each with its location, then the end of the file for ever; and   *)
(* the character it got last may be put back, to be delivered again.       *)
(***************************************************************************)
EXTENDS TextFile

VARIABLES
  file,
  pos,      \* how many characters of the file are behind the reader
  got,      \* what was delivered last, unless it was put back
  skipping  \* in the midst of skipping whitespace

streamVars == <<file, pos, got, skipping>>

Coming == Located(file, pos + 1)

Consume == pos' = IF pos < Len(file) THEN pos + 1 ELSE pos

Deliver ==
  /\ got' = <<Coming>>
  /\ Consume
  /\ skipping' = FALSE
  /\ UNCHANGED file

NextChar == ~skipping /\ Deliver

NextNonwhitespaceChar ==
  \/ /\ Coming.character \in Whitespace
     /\ Consume
     /\ got' = <<>>
     /\ skipping' = TRUE
     /\ UNCHANGED file
  \/ Coming.character \notin Whitespace /\ Deliver

PutBack ==
  /\ got # <<>>
  /\ pos' = IF got[1].character = Eof THEN pos ELSE pos - 1
  /\ got' = <<>>
  /\ UNCHANGED <<file, skipping>>

Init == file \in File /\ pos = 0 /\ got = <<>> /\ skipping = FALSE
Next == NextChar \/ NextNonwhitespaceChar \/ PutBack
Spec == Init /\ [][Next]_streamVars
=============================================================================
