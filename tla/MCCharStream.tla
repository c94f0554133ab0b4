---------------------------- MODULE MCCharStream ----------------------------
(* CharStream on all files of up to five characters of three kinds. *)
EXTENDS CharStream

LOCAL INSTANCE SequencesExt

MCChar       == {"a", "space", "newline"}
MCWhitespace == {"space", "newline"}
MCNewline    == "newline"
MCFile       == BoundedSeq(MCChar, 5)
=============================================================================
