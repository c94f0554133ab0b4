------------------------------ MODULE TextFile ------------------------------
(***************************************************************************)
(* Text files as the compiler sees them: characters with their locations.  *)
(***************************************************************************)
EXTENDS Integers, Sequences, FiniteSets

CONSTANTS
  Char,        \* the characters of a file
  Whitespace,  \* those that isspace accepts
  Newline,     \* the one that ends a line
  File         \* the files: sequences of characters

Eof == "end of file"  \* the null character that stands for the end of a file

ASSUME CharAssumption ==
  Whitespace \subseteq Char /\ Newline \in Whitespace /\ Eof \notin Char

ASSUME FileAssumption == File \subseteq Seq(Char)

LocatedChar(c, line, column) == [character |-> c, line |-> line, column |-> column]

\* A location as an editor shows it, of position i in file f or of its end.
NewlinesBefore(f, i) == {j \in 1..(i - 1) : f[j] = Newline}
LineStart(f, i) ==
  CHOOSE j \in NewlinesBefore(f, i) \cup {0} : \A k \in NewlinesBefore(f, i) : k <= j

Line(f, i)   == Cardinality(NewlinesBefore(f, i)) + 1
Column(f, i) == i - LineStart(f, i)

Located(f, i) == LocatedChar(IF i <= Len(f) THEN f[i] ELSE Eof, Line(f, i), Column(f, i))
=============================================================================
