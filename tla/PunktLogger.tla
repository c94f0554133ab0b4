----------------------------- MODULE PunktLogger -----------------------------
(***************************************************************************)
(* The logger that every phase of the compiler reports to.  It keeps the   *)
(* first kMaxCompileErrors compile errors and counts the others.           *)
(*                                                                         *)
(* The message of an error, with the lines of the file around it, is       *)
(* abstracted to the number of the call that logged it.                    *)
(***************************************************************************)
EXTENDS Naturals, Sequences

VARIABLES
  compile_errors,         \* the errors that are kept
  num_suppressed_errors,  \* how many there were after those
  logged,                 \* how many times LogCompileError was called
  summary                 \* the summaries that were printed

loggerVars == <<compile_errors, num_suppressed_errors, logged, summary>>

kMaxCompileErrors == 8

LoggerInit ==
  /\ compile_errors = <<>>
  /\ num_suppressed_errors = 0
  /\ logged = 0
  /\ summary = <<>>

\* Mutant: the last error that fits is counted and dropped.
LogCompileErrorOffByOne ==
  /\ logged' = logged + 1
  /\ IF Len(compile_errors) >= kMaxCompileErrors - 1
     THEN /\ num_suppressed_errors' = num_suppressed_errors + 1
          /\ UNCHANGED compile_errors
     ELSE /\ compile_errors' = Append(compile_errors, logged')
          /\ UNCHANGED num_suppressed_errors
  /\ UNCHANGED summary

LogCompileError ==
  /\ logged' = logged + 1
  /\ IF Len(compile_errors) >= kMaxCompileErrors
     THEN /\ num_suppressed_errors' = num_suppressed_errors + 1
          /\ UNCHANGED compile_errors
     ELSE /\ compile_errors' = Append(compile_errors, logged')
          /\ UNCHANGED num_suppressed_errors
  /\ UNCHANGED summary

ThereAreCompileErrors == Len(compile_errors) > 0

DumpCompileErrorSummary ==
  /\ summary' = Append(summary,
       [errors     |-> compile_errors,
        total      |-> Len(compile_errors) + num_suppressed_errors,
        suppressed |-> num_suppressed_errors])
  /\ UNCHANGED <<compile_errors, num_suppressed_errors, logged>>

LoggerTypeOK ==
  /\ compile_errors \in Seq(Nat)
  /\ num_suppressed_errors \in Nat
  /\ logged \in Nat
  /\ summary \in Seq([errors : Seq(Nat), total : Nat, suppressed : Nat])
=============================================================================
