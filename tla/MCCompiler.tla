----------------------------- MODULE MCCompiler -----------------------------
(* Compiler with all command lines of up to four arguments after the input. *)
EXTENDS Compiler

LOCAL INSTANCE SequencesExt

MCPath        == {"prog.punkt", "prog.ll", "out", "lost/out"}
MCOption      == {"-o", "--dump-ast"}
MCArgument    == {"out", "prog.ll", "lost/out"}
MCCommandLine == {"prog.punkt", "prog.ll"} \X BoundedSeq(MCOption \cup MCArgument, 4)

MCReplaceExtension(p) == IF p = "prog.punkt" THEN "prog.ll" ELSE p
MCHasDirectory(p)     == p # "lost/out"
=============================================================================
