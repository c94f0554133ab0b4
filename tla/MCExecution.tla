-------------------------- MODULE MCExecution --------------------------
(* Execution on the programs of Programs. *)
EXTENDS Execution, Programs

MCEffect    == Effects
MCStatement == Statements
MCProgram   == Programs
=============================================================================
