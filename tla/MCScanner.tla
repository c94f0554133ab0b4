----------------------------- MODULE MCScanner -----------------------------
(***************************************************************************)
(* Scanner on short files of all kinds of characters, on longer ones for   *)
(* numbers, strings and comments, and on all pairs of operators.           *)
(***************************************************************************)
EXTENDS Scanner

LOCAL INSTANCE SequencesExt

Symbol == {c[1] : c \in {lexeme \in Operator \cup Punctuator : Len(lexeme) = 1}} \cup {"&", "|"}

MCLetter     == {"a", "e"}
MCDigit      == {"1"}
MCNewline    == "\n"
MCWhitespace == {" ", "\n"}
MCChar       == MCLetter \cup MCDigit \cup MCWhitespace \cup Symbol
                  \cup {"_", "'", "\"", "\\", "#", "?"}

MCFile ==
  BoundedSeq({"a", "1", ".", "-", "=", "&", "'", "\"", "\\", "#", "\n", "?"}, 3)
    \cup BoundedSeq({"1", ".", "e", "-"}, 6)
    \cup BoundedSeq({"\"", "\\", "\n", "#", "1"}, 5)
    \cup BoundedSeq({"e", "a", " ", "#"}, 5)
    \cup BoundedSeq({"'", "\\", "a"}, 5)
    \cup BoundedSeq(Symbol, 2)

MCKeywordType ==
  (<<"e", "a">> :> "keyword") @@ (<<"e">> :> "boolean") @@ (<<"a", "e">> :> "operator")

\* Numbers of more than three digits do not fit.
MCOutOfRange(n) == Cardinality({k \in 1..Len(n) : n[k] = "1"}) > 3
=============================================================================
