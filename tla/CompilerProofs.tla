--------------------------- MODULE CompilerProofs ---------------------------
(***************************************************************************)
(* The driver and the logger: no output from erroneous programs, a         *)
(* complete summary, files that survive failures, and output only in the   *)
(* file that is named, for any number of errors and all command lines.     *)
(* And the parser, which logs what the driver counts: it reports no token  *)
(* twice, for all texts.                                                   *)
(***************************************************************************)
EXTENDS Compiler, Parser, SequenceTheorems, TLAPS

\* The logger has kept the first errors, in order, and counted the others.
LoggerOK ==
  /\ logged \in Nat
  /\ compile_errors =
       [i \in 1..(IF logged < kMaxCompileErrors THEN logged ELSE kMaxCompileErrors) |-> i]
  /\ num_suppressed_errors = IF logged < kMaxCompileErrors THEN 0 ELSE logged - kMaxCompileErrors

CompleteSummary ==
  [errors |-> compile_errors, total |-> logged, suppressed |-> num_suppressed_errors]

\* Errors are there only until the next check, and the files as they were
\* until the output is opened.
PhaseOK ==
  /\ phase \in {"input", "options", "generate", "open", "write"} => logged = 0
  /\ phase \notin {"write", "exit"} => files = original
  /\ phase # "exit" => exit_code = NoExitCode /\ summary = <<>>
  /\ phase = "exit" =>
       /\ exit_code # NoExitCode
       /\ logged > 0 => files = original /\ exit_code # 0
       /\ logged > 0 /\ exit_code = 1 => summary = <<CompleteSummary>>
       /\ exit_code \in {255, Killed} => files = original

IInv == TypeOK /\ LoggerOK /\ PhaseOK

-----------------------------------------------------------------------------
\* How many errors are kept, and the types of the logger's state.
LEMMA Kept ==
  ASSUME LoggerOK
  PROVE  /\ compile_errors \in Seq(Nat)
         /\ Len(compile_errors) = IF logged < kMaxCompileErrors THEN logged ELSE kMaxCompileErrors
         /\ num_suppressed_errors = logged - Len(compile_errors)
         /\ num_suppressed_errors \in Nat
         /\ ThereAreCompileErrors <=> logged > 0
<1> DEFINE n == IF logged < kMaxCompileErrors THEN logged ELSE kMaxCompileErrors
<1>1. n \in Nat /\ logged \in Nat /\ (n > 0 <=> logged > 0) /\ logged - n \in Nat
      /\ num_suppressed_errors = logged - n
  BY DEF LoggerOK, kMaxCompileErrors
<1>2. compile_errors = [i \in 1..n |-> i]
  BY DEF LoggerOK
<1> HIDE DEF n
<1>3. compile_errors \in Seq(Nat) /\ Len(compile_errors) = n
  BY <1>1, <1>2
<1> QED BY <1>1, <1>3 DEF ThereAreCompileErrors, n

\* Logging an error keeps it, if there is room, or counts it.
LEMMA Logs ==
  ASSUME LoggerOK, LogCompileError
  PROVE  LoggerOK' /\ logged' = logged + 1 /\ summary' = summary
<1> DEFINE n == IF logged < kMaxCompileErrors THEN logged ELSE kMaxCompileErrors
<1>1. /\ logged \in Nat /\ logged' = logged + 1 /\ logged' \in Nat /\ summary' = summary
      /\ Len(compile_errors) = n
  <2>1. logged \in Nat /\ logged' = logged + 1 /\ summary' = summary
    BY DEF LoggerOK, LogCompileError
  <2>2. Len(compile_errors) = n
    BY Kept
  <2> QED BY <2>1, <2>2
<1>2. CASE logged < kMaxCompileErrors
  <2>1. compile_errors' = Append(compile_errors, logged + 1)
        /\ num_suppressed_errors' = num_suppressed_errors
    <3>1. ~(Len(compile_errors) >= kMaxCompileErrors)
      BY <1>1, <1>2 DEF kMaxCompileErrors
    <3> QED BY <1>1, <3>1 DEF LogCompileError
  <2>2. compile_errors = [i \in 1..logged |-> i] /\ num_suppressed_errors = 0
    BY <1>2 DEF LoggerOK
  <2>3. compile_errors' = [i \in 1..(logged + 1) |-> i]
    BY <1>1, <2>1, <2>2
  <2> QED BY <1>1, <1>2, <2>1, <2>2, <2>3 DEF LoggerOK, kMaxCompileErrors
<1>3. CASE ~(logged < kMaxCompileErrors)
  <2>1. compile_errors' = compile_errors /\ num_suppressed_errors' = num_suppressed_errors + 1
    BY <1>1, <1>3 DEF LogCompileError, kMaxCompileErrors
  <2> QED BY <1>1, <1>3, <2>1 DEF LoggerOK, kMaxCompileErrors
<1> QED BY <1>1, <1>2, <1>3

\* The initial states satisfy the invariant.
LEMMA InitHolds == Init => IInv
<1> SUFFICES ASSUME Init PROVE IInv
  OBVIOUS
<1> USE PathAssumption DEF Init, LoggerInit
<1>1. argv \in CommandLine /\ argv[1] \in Path /\ Args \in Seq(Option \cup Argument)
  BY DEF Args
<1>2. idx \in 1..(Len(Args) + 1)
  BY <1>1
<1>3. LoggerOK
  BY DEF LoggerOK, kMaxCompileErrors
<1>4. PhaseOK
  BY DEF PhaseOK
<1>5. LoggerTypeOK
  BY <1>3, Kept DEF LoggerTypeOK
<1>6. TypeOK
  BY <1>1, <1>2, <1>5 DEF TypeOK, Phases, NoExitCode, Killed
<1> QED BY <1>3, <1>4, <1>6 DEF IInv

\* The driver's steps but the reports and checks of errors leave the logger
\* alone, and keep the invariant.
LEMMA DriverStep ==
  ASSUME IInv,
         \/ FindInput \/ ReadOption \/ EndOptions \/ Parse \/ Analyze
         \/ GenerateCode \/ Fail \/ OpenOutput \/ WriteIRToFD \/ UNCHANGED vars
  PROVE  IInv'
<1> USE PathAssumption DEF IInv
<1>1. /\ argv \in Path \X Seq(Option \cup Argument) /\ argv[1] \in Path
      /\ Args \in Seq(Option \cup Argument) /\ idx \in 1..(Len(Args) + 1)
  BY DEF TypeOK, Args
<1>2. UNCHANGED <<loggerVars, argv, original>>
  BY DEF FindInput, ReadOption, EndOptions, Parse, Analyze, GenerateCode, Fail, OpenOutput,
         WriteIRToFD, vars, driverVars
<1>3. LoggerOK' /\ LoggerTypeOK'
  BY <1>2 DEF LoggerOK, LoggerTypeOK, TypeOK, loggerVars
<1>4. output' \in Path /\ idx' \in 1..(Len(Args') + 1)
  <2>1. CASE ReadOption
    <3>1. CASE idx' = idx /\ output' = output
      BY <1>1, <1>2, <3>1 DEF TypeOK, Args
    <3>2. CASE /\ idx <= Len(Args) /\ idx' = idx + 1
               /\ output' = IF Args[idx] = "-o" THEN Args[idx + 1] ELSE output
               /\ Args[idx] = "-o" => HasFileName(idx)
      <4>1. idx' \in 1..(Len(Args) + 1)
        BY <1>1, <3>2
      <4>2. Args[idx] = "-o" => Args[idx + 1] \in Argument
        BY <1>1, <3>2 DEF HasFileName, IsOptionAt
      <4> QED BY <1>2, <3>2, <4>1, <4>2 DEF TypeOK, Args
    <3>3. Args[idx] = "-o" => IsOptionAt(idx) \/ ~(idx <= Len(Args))
      BY DEF IsOptionAt
    <3> QED BY <2>1, <3>1, <3>2, <3>3 DEF ReadOption
  <2>2. CASE ~ReadOption
    BY <1>1, <1>2, <2>2 DEF TypeOK, FindInput, EndOptions, Parse, Analyze, GenerateCode, Fail,
         OpenOutput, WriteIRToFD, vars, driverVars, Args
  <2> QED BY <2>1, <2>2
<1>5. files' \in [Path -> {"none", "text", "empty", "part", "IR"}]
  BY DEF TypeOK, FindInput, ReadOption, EndOptions, Parse, Analyze, GenerateCode, Fail,
         OpenOutput, WriteIRToFD, vars, driverVars
<1>6. phase' \in Phases /\ exit_code' \in {0, 1, 255, Killed, NoExitCode}
  <2>1. phase \in Phases /\ exit_code \in {0, 1, 255, Killed, NoExitCode}
    BY DEF TypeOK
  <2>2. \/ UNCHANGED <<phase, exit_code>>
        \/ \E c \in {0, 1, 255, Killed} : Exit(c)
        \/ \E p \in Phases : GoTo(p)
    BY DEF Phases, FindInput, ReadOption, EndOptions, Parse, Analyze, GenerateCode, Fail,
           OpenOutput, WriteIRToFD, LogFatal, LogFatalInternalError, Crash, vars, driverVars
  <2>3. CASE UNCHANGED <<phase, exit_code>>
    BY ONLY <2>1, <2>3
  <2>4. ASSUME NEW c \in {0, 1, 255, Killed}, Exit(c)
        PROVE  phase' \in Phases /\ exit_code' \in {0, 1, 255, Killed, NoExitCode}
    BY ONLY <2>4 DEF Exit, Phases
  <2>5. ASSUME NEW p \in Phases, GoTo(p)
        PROVE  phase' \in Phases /\ exit_code' \in {0, 1, 255, Killed, NoExitCode}
    BY ONLY <2>1, <2>5 DEF GoTo
  <2> QED BY ONLY <2>2, <2>3, <2>4, <2>5
<1>7. TypeOK'
  BY <1>2, <1>3, <1>4, <1>5, <1>6 DEF TypeOK
<1>8. PhaseOK'
  <2> USE DEF PhaseOK, Exit, GoTo, LogFatal, LogFatalInternalError, Crash, NoExitCode, Killed,
              loggerVars, CompleteSummary
  <2>0. logged \in Nat
    BY DEF LoggerOK
  <2>1. CASE FindInput
    BY <1>2, <2>0, <2>1 DEF FindInput
  <2>2. CASE ReadOption
    BY <1>2, <2>0, <2>2 DEF ReadOption
  <2>3. CASE EndOptions
    BY <1>2, <2>0, <2>3 DEF EndOptions
  <2>4. CASE Parse
    BY <1>2, <2>0, <2>4 DEF Parse
  <2>5. CASE Analyze
    BY <1>2, <2>0, <2>5 DEF Analyze
  <2>6. CASE GenerateCode
    BY <1>2, <2>0, <2>6 DEF GenerateCode
  <2>7. CASE Fail
    BY <1>2, <2>0, <2>7 DEF Fail
  <2>8. CASE OpenOutput
    BY <1>2, <2>0, <2>8 DEF OpenOutput
  <2>9. CASE WriteIRToFD
    BY <1>2, <2>0, <2>9 DEF WriteIRToFD
  <2>10. CASE UNCHANGED vars
    BY <2>10 DEF vars, driverVars
  <2> QED BY <2>1, <2>2, <2>3, <2>4, <2>5, <2>6, <2>7, <2>8, <2>9, <2>10
<1> QED BY <1>3, <1>7, <1>8

\* A report of an error keeps the invariant.
LEMMA ReportStep == ASSUME IInv, ReportError PROVE IInv'
<1>1. LogCompileError /\ UNCHANGED driverVars /\ phase \in {"parse", "analyze"}
  BY DEF ReportError
<1>2. LoggerOK' /\ logged' = logged + 1 /\ summary' = summary
  BY <1>1, Logs DEF IInv
<1>3. LoggerTypeOK'
  <2>1. compile_errors' \in Seq(Nat) /\ num_suppressed_errors' \in Nat
    <3>1. compile_errors \in Seq(Nat) /\ num_suppressed_errors \in Nat /\ logged + 1 \in Nat
      BY Kept DEF IInv, LoggerOK
    <3>2. compile_errors' \in {compile_errors, Append(compile_errors, logged + 1)}
          /\ num_suppressed_errors' \in {num_suppressed_errors, num_suppressed_errors + 1}
      BY <1>1 DEF LogCompileError
    <3>3. Append(compile_errors, logged + 1) \in Seq(Nat) /\ num_suppressed_errors + 1 \in Nat
      BY ONLY <3>1
    <3> QED BY ONLY <3>1, <3>2, <3>3, Zenon
  <2> QED BY <1>2, <2>1 DEF IInv, TypeOK, LoggerTypeOK, LoggerOK
<1>4. TypeOK'
  BY <1>1, <1>3 DEF IInv, TypeOK, driverVars, Args
<1>5. PhaseOK'
  BY <1>1, <1>2 DEF IInv, PhaseOK, driverVars
<1> QED BY <1>2, <1>4, <1>5 DEF IInv

\* A check for errors lets only a program without errors go on, and prints the
\* summary of the others.
LEMMA CheckStep ==
  ASSUME IInv, NEW next \in {"analyze", "generate"}, CheckForErrors(next),
         phase \in {"check syntax", "check analysis"}
  PROVE  IInv'
<1>0. UNCHANGED <<argv, idx, output, files, original>>
  BY DEF CheckForErrors
<1>1. /\ compile_errors \in Seq(Nat) /\ num_suppressed_errors \in Nat /\ logged \in Nat
      /\ Len(compile_errors) + num_suppressed_errors = logged
      /\ ThereAreCompileErrors <=> logged > 0
  <2>1. /\ compile_errors \in Seq(Nat) /\ num_suppressed_errors \in Nat
        /\ num_suppressed_errors = logged - Len(compile_errors)
        /\ ThereAreCompileErrors <=> logged > 0
    BY Kept DEF IInv
  <2>2. logged \in Nat /\ Len(compile_errors) \in Nat
    <3>1. logged \in Nat
      BY DEF IInv, LoggerOK
    <3> QED BY ONLY <2>1, <3>1
  <2>3. Len(compile_errors) + num_suppressed_errors = logged
    BY ONLY <2>1, <2>2
  <2> QED BY <2>1, <2>2, <2>3
<1>2. files = original /\ exit_code = NoExitCode /\ summary = <<>>
  BY DEF IInv, PhaseOK
<1>3. CASE ThereAreCompileErrors
  <2>1. /\ summary' = <<CompleteSummary>> /\ phase' = "exit" /\ exit_code' = 1
        /\ UNCHANGED <<compile_errors, num_suppressed_errors, logged>>
    <3>1. DumpCompileErrorSummary /\ Exit(1)
      BY <1>3 DEF CheckForErrors
    <3>2. summary' = Append(<<>>, CompleteSummary)
      BY <1>1, <1>2, <3>1 DEF DumpCompileErrorSummary, CompleteSummary
    <3>3. \A c : Append(<<>>, c) = <<c>>
      BY ONLY EmptySeq, AppendProperties, SeqEqual
    <3> QED BY ONLY <3>1, <3>2, <3>3 DEF DumpCompileErrorSummary, Exit
  <2>2. LoggerOK' /\ LoggerTypeOK'
    <3>1. <<CompleteSummary>> \in Seq([errors : Seq(Nat), total : Nat, suppressed : Nat])
      <4>1. CompleteSummary \in [errors : Seq(Nat), total : Nat, suppressed : Nat]
        BY <1>1 DEF CompleteSummary
      <4> HIDE DEF CompleteSummary
      <4> QED BY ONLY <4>1
    <3> QED BY <2>1, <3>1, <1>1 DEF IInv, LoggerOK, LoggerTypeOK
  <2>3. TypeOK'
    BY <1>0, <2>1, <2>2 DEF IInv, TypeOK, Args, Phases
  <2>4. PhaseOK'
    <3>1. CompleteSummary' = CompleteSummary
      BY <2>1 DEF CompleteSummary
    <3>2. phase' = "exit" /\ exit_code' = 1 /\ summary' = <<CompleteSummary'>>
          /\ files' = original'
      BY <1>0, <1>2, <2>1, <3>1
    <3> QED BY ONLY <3>2 DEF PhaseOK, NoExitCode, Killed
  <2> QED BY <2>2, <2>3, <2>4 DEF IInv
<1>4. CASE ~ThereAreCompileErrors
  <2>1. phase' = next /\ exit_code' = exit_code /\ UNCHANGED loggerVars /\ logged = 0
    <3>1. GoTo(next) /\ UNCHANGED loggerVars
      BY <1>4 DEF CheckForErrors
    <3>2. logged = 0
      <4>1. ~(logged > 0) /\ logged \in Nat
        BY <1>1, <1>4
      <4> QED BY ONLY <4>1
    <3> QED BY <3>1, <3>2 DEF GoTo
  <2>2. LoggerOK' /\ LoggerTypeOK'
    BY <2>1 DEF IInv, LoggerOK, TypeOK, LoggerTypeOK, loggerVars
  <2>3. TypeOK'
    BY <1>0, <2>1, <2>2 DEF IInv, TypeOK, Args, Phases
  <2>4. PhaseOK'
    BY <1>0, <1>2, <2>1 DEF PhaseOK, loggerVars
  <2> QED BY <2>2, <2>3, <2>4 DEF IInv
<1> QED BY <1>3, <1>4

\* The invariant holds in every state of every run of the compiler.
THEOREM Invariance == Spec => []IInv
<1>1. Init => IInv
  BY InitHolds
<1>2. IInv /\ [Next]_vars => IInv'
  <2> SUFFICES ASSUME IInv, [Next]_vars PROVE IInv'
    OBVIOUS
  <2>1. CASE ReportError
    BY <2>1, ReportStep
  <2>2. CASE CheckSyntax
    BY <2>2, CheckStep DEF CheckSyntax
  <2>3. CASE CheckAnalysis
    BY <2>3, CheckStep DEF CheckAnalysis
  <2>4. CASE \/ FindInput \/ ReadOption \/ EndOptions \/ Parse \/ Analyze
             \/ GenerateCode \/ Fail \/ OpenOutput \/ WriteIRToFD \/ UNCHANGED vars
    BY <2>4, DriverStep
  <2> QED BY <2>1, <2>2, <2>3, <2>4 DEF Next, Exited
<1> QED BY <1>1, <1>2, PTL DEF Spec

\* The driver's state has the types of TypeOK, for all command lines.
THEOREM TypeCorrect == Spec => []TypeOK
<1>1. IInv => TypeOK
  BY DEF IInv
<1> QED BY <1>1, Invariance, PTL

\* Whatever is logged in whatever phase, a program with errors makes the
\* compiler fail and leaves all files as they were.
THEOREM NoOutput == Spec => []NoOutputFromErrors
<1>1. IInv => NoOutputFromErrors
  BY DEF IInv, PhaseOK, NoOutputFromErrors, NoExitCode, LoggerOK, TypeOK
<1> QED BY <1>1, Invariance, PTL

\* The summary counts every error that was logged and shows the first eight,
\* for any number of errors.
THEOREM Summarizes == Spec => []ErrorsAreSummarized
<1>1. IInv => ErrorsAreSummarized
  <2> SUFFICES ASSUME IInv, exit_code = 1, logged > 0
               PROVE  /\ Len(summary) = 1 /\ summary[1].total = logged
                      /\ summary[1].suppressed = logged - Len(summary[1].errors)
                      /\ summary[1].errors = compile_errors
    BY DEF ErrorsAreSummarized, IInv, LoggerOK
  <2>1. summary = <<CompleteSummary>>
    BY DEF IInv, PhaseOK, NoExitCode
  <2>2. num_suppressed_errors = logged - Len(compile_errors)
    BY Kept DEF IInv
  <2> QED BY <2>1, <2>2 DEF CompleteSummary
<1> QED BY <1>1, Invariance, PTL

\* An internal error or a crash, in whatever phase, leaves all files as they
\* were, for all command lines and any number of errors.
THEOREM KeepsFiles == Spec => []FailuresKeepFiles
<1>1. IInv => FailuresKeepFiles
  BY DEF IInv, PhaseOK, FailuresKeepFiles, NoExitCode, Killed
<1> QED BY <1>1, Invariance, PTL

-----------------------------------------------------------------------------
(* Where the output goes.                                                  *)

\* The arguments before idx were looked at: output is what the last -o of
\* them names, if there is one.
NamedOK ==
  \/ (\A i \in Named : i > idx) /\ output = ReplaceExtension(Input)
  \/ \E i \in Named : i <= idx /\ (\A j \in Named : j <= idx => j <= i) /\ output = Args[i]

\* Only the output is changed, and only when all arguments were looked at.
ChangesOK ==
  /\ phase \notin {"input", "options", "exit"} => idx = Len(Args) + 1
  /\ \A p \in Path : files[p] # original[p] => idx = Len(Args) + 1 /\ p = output

OutputInv == IInv /\ NamedOK /\ ChangesOK

\* Before anything is read, the output is next to the input.
LEMMA OutputInit == Init => OutputInv
<1> SUFFICES ASSUME Init PROVE OutputInv
  OBVIOUS
<1>1. IInv
  BY InitHolds
<1>2. \A i \in Named : i > idx
  BY DEF Named, Init
<1> QED BY <1>1, <1>2 DEF Init, OutputInv, NamedOK, ChangesOK, Input

\* An option that is read may name the output anew; all other steps leave the
\* name alone.
LEMMA NamedStep ==
  ASSUME OutputInv, [Next]_vars
  PROVE  NamedOK'
<1> USE PathAssumption
<1>1. /\ Args \in Seq(Option \cup Argument) /\ idx \in 1..(Len(Args) + 1)
      /\ Named \subseteq 1..Len(Args) /\ NamedOK
  BY DEF OutputInv, IInv, TypeOK, Args, Named
<1>2. argv' = argv
  BY DEF Next, FindInput, ReadOption, EndOptions, ReportError, Parse, CheckSyntax, Analyze,
         CheckAnalysis, CheckForErrors, GenerateCode, Fail, OpenOutput, WriteIRToFD, Exited, vars,
         driverVars
<1>3. Args' = Args /\ Named' = Named /\ Input' = Input
  BY <1>2 DEF Args, Named, Input
<1>4. CASE idx' = idx /\ output' = output
  BY <1>1, <1>3, <1>4 DEF NamedOK
<1>5. CASE ReadOption /\ idx' # idx
  <2>1. /\ idx <= Len(Args) /\ idx' = idx + 1
        /\ output' = IF Args[idx] = "-o" THEN Args[idx + 1] ELSE output
        /\ ~(IsOptionAt(idx) /\ Args[idx] = "-o" /\ ~HasFileName(idx))
    BY <1>5 DEF ReadOption
  <2>2. CASE Args[idx] = "-o"
    <3>1. idx + 1 \in Named /\ idx + 1 <= Len(Args)
      BY <1>1, <2>1, <2>2 DEF IsOptionAt, HasFileName, Named
    <3>2. /\ idx + 1 <= idx' /\ output' = Args'[idx + 1]
          /\ \A j \in Named' : j <= idx' => j <= idx + 1
      BY <1>1, <1>3, <2>1, <2>2
    <3> QED BY <1>3, <3>1, <3>2 DEF NamedOK
  <2>3. CASE Args[idx] # "-o"
    <3>1. idx + 1 \notin Named
      BY <1>1, <2>3 DEF Named
    <3>2. \A j \in Named : j <= idx' <=> j <= idx
      BY <1>1, <2>1, <3>1
    <3>3. \A j \in Named : j > idx => j > idx'
      BY <1>1, <2>1, <3>1
    <3> QED BY <1>1, <1>3, <2>1, <2>3, <3>2, <3>3 DEF NamedOK
  <2> QED BY <2>2, <2>3
<1>6. \/ idx' = idx /\ output' = output
      \/ ReadOption /\ idx' # idx
  <2>1. CASE ReadOption
    BY <1>1, <2>1 DEF ReadOption
  <2>2. CASE ~ReadOption
    BY <2>2 DEF Next, FindInput, EndOptions, ReportError, Parse, CheckSyntax, Analyze,
         CheckAnalysis, CheckForErrors, GenerateCode, Fail, OpenOutput, WriteIRToFD, Exited, vars,
         driverVars
  <2> QED BY <2>1, <2>2
<1> QED BY <1>4, <1>5, <1>6

\* The output file is opened and written by two actions only, after all
\* options were read.
LEMMA ChangesStep ==
  ASSUME OutputInv, [Next]_vars
  PROVE  ChangesOK'
<1> USE PathAssumption
<1>1. /\ output \in Path /\ DOMAIN files = Path /\ idx \in 1..(Len(Args) + 1)
      /\ Args \in Seq(Option \cup Argument) /\ phase \in Phases
      /\ phase \notin {"write", "exit"} => files = original
      /\ ChangesOK
  BY DEF OutputInv, IInv, TypeOK, PhaseOK, Args
<1> USE DEF ChangesOK, Exit, GoTo, LogFatal, LogFatalInternalError, Crash, Args
<1>2. CASE FindInput
  BY <1>1, <1>2 DEF FindInput
<1>3. CASE ReadOption
  BY <1>1, <1>3 DEF ReadOption
<1>4. CASE EndOptions
  BY <1>1, <1>4 DEF EndOptions
<1>5. CASE ReportError \/ Exited \/ UNCHANGED vars
  BY <1>1, <1>5 DEF ReportError, Exited, vars, driverVars
<1>6. CASE Parse \/ Analyze \/ GenerateCode \/ CheckSyntax \/ CheckAnalysis
  <2>1. /\ phase \notin {"input", "options", "write", "exit"}
        /\ UNCHANGED <<argv, idx, output, files, original>>
    BY <1>6 DEF Parse, Analyze, GenerateCode, CheckSyntax, CheckAnalysis, CheckForErrors
  <2>2. idx = Len(Args) + 1 /\ Args' = Args /\ files = original
    BY <1>1, <2>1
  <2> QED BY ONLY <2>1, <2>2 DEF ChangesOK
<1>7. CASE Fail
  BY <1>1, <1>7 DEF Fail
<1>8. CASE OpenOutput
  BY <1>1, <1>8 DEF OpenOutput
<1>9. CASE WriteIRToFD
  BY <1>1, <1>9 DEF WriteIRToFD
<1> QED BY <1>2, <1>3, <1>4, <1>5, <1>6, <1>7, <1>8, <1>9 DEF Next

\* The invariant about the output holds in every state of every run.
LEMMA OutputInvariance == Spec => []OutputInv
<1>1. Init => OutputInv
  BY OutputInit
<1>2. IInv /\ IInv' /\ OutputInv /\ [Next]_vars => OutputInv'
  BY NamedStep, ChangesStep DEF OutputInv
<1> QED BY <1>1, <1>2, Invariance, PTL DEF Spec


\* The only file that is ever changed is the one the last -o names, or the one
\* next to the input, for all command lines.
THEOREM WritesWhatIsNamed == Spec => []OutputIsTheOneNamed
<1>1. OutputInv => OutputIsTheOneNamed
  <2> SUFFICES ASSUME OutputInv, NEW p \in Path, files[p] # original[p]
               PROVE  IF Named = {} THEN p = ReplaceExtension(Input)
                      ELSE p = Args[CHOOSE i \in Named : \A j \in Named : j <= i]
    BY DEF OutputIsTheOneNamed
  <2>1. idx = Len(Args) + 1 /\ p = output /\ NamedOK
    BY DEF OutputInv, ChangesOK
  <2>2. Args \in Seq(Option \cup Argument) /\ Named \subseteq 1..Len(Args)
    BY PathAssumption DEF OutputInv, IInv, TypeOK, Args, Named
  <2>3. \A i \in Named : i <= idx /\ ~(i > idx)
    BY <2>1, <2>2
  <2>4. CASE Named = {}
    BY <2>1, <2>4 DEF NamedOK
  <2>5. CASE Named # {}
    <3>1. PICK i \in Named : (\A j \in Named : j <= i) /\ output = Args[i]
      BY <2>1, <2>3, <2>5 DEF NamedOK
    <3>2. \A k \in Named : (\A j \in Named : j <= k) => k = i
      BY <2>2, <3>1
    <3>3. (CHOOSE k \in Named : \A j \in Named : j <= k) = i
      BY <3>1, <3>2
    <3> QED BY <2>1, <2>5, <3>1, <3>3
  <2> QED BY <2>4, <2>5
<1> QED BY <1>1, OutputInvariance, PTL

-----------------------------------------------------------------------------
(* The parser.                                                             *)

\* The errors of the tokens behind now_reading are still to come.
ErrorsInv ==
  /\ tokens \in Seq(STRING)
  /\ pos \in 1..(Len(tokens) + 1)
  /\ syntax_errors \in Nat
  /\ ErrorsHaveTheirOwnTokens

\* The parser begins without errors.
LEMMA ErrorsInit == ParserInit => ErrorsInv
  BY TokensAssumption DEF ParserInit, ErrorsInv, ErrorsHaveTheirOwnTokens

\* A step reads at least as many tokens as it reports errors, or arrives at the
\* end of the file.
LEMMA ErrorsStep == ErrorsInv /\ [ParserNext]_parserVars => ErrorsInv'
<1> SUFFICES ASSUME ErrorsInv, [ParserNext]_parserVars PROVE ErrorsInv'
  OBVIOUS
<1> USE DEF ErrorsInv, ErrorsHaveTheirOwnTokens
<1>1. tokens' = tokens
  BY DEF ParserNext, parserVars, Found, SyntaxErrorUnexpectedToken,
         ReadOrKeep, AddChild, ExpectToken, CallRoutine,
         CallOneOf, Enter, Choose, Loop, BuildNode,
         Return, Finish, Done
<1>2. CASE SyntaxErrorUnexpectedToken
  BY <1>1, <1>2 DEF SyntaxErrorUnexpectedToken, ReadToken, Ahead
<1>3. CASE ReadOrKeep
  BY <1>1, <1>3 DEF ReadOrKeep, ReadToken, Ahead
<1>4. CASE ExpectToken
  BY <1>1, <1>4 DEF ExpectToken, ReadToken, Ahead
<1>5. CASE Finish
  BY <1>1, <1>5 DEF Finish, ReadToken, Ahead
<1>6. CASE UNCHANGED <<tokens, pos, syntax_errors>>
  BY <1>6
<1>7. QED
  BY <1>2, <1>3, <1>4, <1>5, <1>6
     DEF ParserNext, parserVars, Found, AddChild, CallRoutine,
         CallOneOf, Enter, Choose, Loop, BuildNode,
         Return, Done

\* No two errors are for the same token, in any text.
THEOREM ErrorsHaveTheirOwnTokensAlways == ParserSpec => []ErrorsHaveTheirOwnTokens
<1>1. ErrorsInv => ErrorsHaveTheirOwnTokens
  BY DEF ErrorsInv
<1>2. QED
  BY <1>1, ErrorsInit, ErrorsStep, PTL DEF ParserSpec
=============================================================================
