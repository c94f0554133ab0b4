------------------------------ MODULE Compiler ------------------------------
(***************************************************************************)
(* The driver of the compiler: it reads its command line, runs one phase   *)
(* after the other, stops between them if there are compile errors, and    *)
(* writes the output file at the end.                                      *)
(*                                                                         *)
(* What the phases do is left open here: parsing and analysis log any      *)
(* number of compile errors, every phase may stop at an internal error or  *)
(* crash.                                                                  *)
(***************************************************************************)
EXTENDS PunktLogger, FiniteSets

CONSTANTS
  Path,          \* the paths of files
  Option,        \* the options: -o and those that dump the AST
  Argument,      \* the other arguments: paths, too
  CommandLine,   \* the command lines: the input path and what follows it
  ReplaceExtension(_),  \* the path with the extension ll
  HasDirectory(_),      \* the directory of the path exists
  MaxLogged      \* bound: how often LogCompileError is called

ASSUME PathAssumption ==
  /\ "-o" \in Option
  /\ Argument \subseteq Path /\ Path \cap Option = {}
  /\ \A p \in Path : ReplaceExtension(p) \in Path /\ HasDirectory(p) \in BOOLEAN
  /\ CommandLine \subseteq Path \X Seq(Option \cup Argument)
  /\ MaxLogged \in Nat

VARIABLES
  argv,      \* the command line
  idx,       \* the next argument to look at
  output,    \* the path of the output file
  files,     \* what the files hold: none, text, empty, part of the IR, or all of it
  original,  \* what they held at the start
  phase,     \* what the driver does next
  exit_code  \* the exit code as the shell sees it

driverVars == <<argv, idx, output, files, original, phase, exit_code>>
vars == <<driverVars, loggerVars>>

Input == argv[1]
Args  == argv[2]

NoExitCode == 256  \* it has not exited
Killed     == 139  \* a null pointer was followed, or the call stack is full

Phases == {"input", "options", "parse", "check syntax", "analyze", "check analysis", "generate", "open",
           "write", "exit"}

-----------------------------------------------------------------------------
Exit(code) == phase' = "exit" /\ exit_code' = code

GoTo(next) == phase' = next /\ UNCHANGED exit_code

LogFatal              == Exit(1)
LogFatalInternalError == Exit(255)  \* that is -1
Crash                 == Exit(Killed)

\* GetInputFilePath
FindInput ==
  /\ phase = "input"
  /\ IF files[Input] = "none" THEN LogFatal ELSE GoTo("options")
  /\ UNCHANGED <<argv, idx, output, files, original, loggerVars>>

IsOptionAt(i) == i <= Len(Args) /\ Args[i] \in Option

\* Option i has an argument of its own: one that is not an option itself.
HasFileName(i) == i + 1 <= Len(Args) /\ ~IsOptionAt(i + 1)

NameIsLost(i) == HasFileName(i) /\ ~HasDirectory(Args[i + 1])

\* Mutant: the first -o wins.
ReadOptionOnce ==
  /\ phase = "options"
  /\ idx <= Len(Args)
  /\ IF IsOptionAt(idx) /\ (NameIsLost(idx) \/ (Args[idx] = "-o" /\ ~HasFileName(idx)))
     THEN LogFatal /\ UNCHANGED <<idx, output>>
     ELSE /\ output' = IF Args[idx] = "-o" /\ output = ReplaceExtension(Input)
                       THEN Args[idx + 1] ELSE output
          /\ idx' = idx + 1
          /\ UNCHANGED <<phase, exit_code>>
  /\ UNCHANGED <<argv, files, original, loggerVars>>

\* Mutant: the argument after an option is always taken for its name.
ReadOptionAndSkip ==
  /\ phase = "options"
  /\ idx <= Len(Args)
  /\ output' = IF Args[idx] = "-o" /\ HasFileName(idx) THEN Args[idx + 1] ELSE output
  /\ idx' = IF IsOptionAt(idx) THEN idx + 2 ELSE idx + 1
  /\ UNCHANGED <<phase, exit_code, argv, files, original, loggerVars>>

\* One turn of the loop over the arguments; those that are not options are
\* looked at only from the option before them.
ReadOption ==
  /\ phase = "options"
  /\ idx <= Len(Args)
  /\ IF IsOptionAt(idx) /\ (NameIsLost(idx) \/ (Args[idx] = "-o" /\ ~HasFileName(idx)))
     THEN LogFatal /\ UNCHANGED <<idx, output>>
     ELSE /\ output' = IF Args[idx] = "-o" THEN Args[idx + 1] ELSE output
          /\ idx' = idx + 1
          /\ UNCHANGED <<phase, exit_code>>
  /\ UNCHANGED <<argv, files, original, loggerVars>>

EndOptions ==
  /\ phase = "options"
  /\ idx > Len(Args)
  /\ GoTo("parse")
  /\ UNCHANGED <<argv, idx, output, files, original, loggerVars>>

\* Parsing and semantic analysis report errors and go on.
ReportError ==
  /\ phase \in {"parse", "analyze"}
  /\ logged < MaxLogged
  /\ LogCompileError
  /\ UNCHANGED driverVars

Parse ==
  /\ phase = "parse"
  /\ GoTo("check syntax")
  /\ UNCHANGED <<argv, idx, output, files, original, loggerVars>>

Analyze ==
  /\ phase = "analyze"
  /\ GoTo("check analysis")
  /\ UNCHANGED <<argv, idx, output, files, original, loggerVars>>

\* Mutant: only syntax errors stop the compiler.
CheckForErrorsAfterParsing(next) ==
  /\ IF ThereAreCompileErrors /\ next = "analyze"
     THEN DumpCompileErrorSummary /\ Exit(1)
     ELSE GoTo(next) /\ UNCHANGED loggerVars
  /\ UNCHANGED <<argv, idx, output, files, original>>

CheckForErrors(next) ==
  /\ IF ThereAreCompileErrors
     THEN DumpCompileErrorSummary /\ Exit(1)
     ELSE GoTo(next) /\ UNCHANGED loggerVars
  /\ UNCHANGED <<argv, idx, output, files, original>>

CheckSyntax   == phase = "check syntax" /\ CheckForErrors("analyze")
CheckAnalysis == phase = "check analysis" /\ CheckForErrors("generate")

\* Mutant: the output is opened first, and the code is generated into it.
GenerateCodeIntoFile ==
  /\ phase = "generate"
  /\ files' = [files EXCEPT ![output] = "empty"]
  /\ GoTo("write") \/ LogFatalInternalError \/ Crash
  /\ UNCHANGED <<argv, idx, output, original, loggerVars>>

\* All of the IR is generated and verified before the output file is touched.
GenerateCode ==
  /\ phase = "generate"
  /\ GoTo("open")
  /\ UNCHANGED <<argv, idx, output, files, original, loggerVars>>

\* The compiler may find an inconsistency of its own in every phase, or crash;
\* a file that cannot be opened is found before anything is parsed.
Fail ==
  /\ \/ phase \in {"parse", "analyze", "generate"} /\ (LogFatalInternalError \/ Crash)
     \/ phase = "parse" /\ logged = 0 /\ LogFatal
  /\ UNCHANGED <<argv, idx, output, files, original, loggerVars>>

\* open with O_CREAT and O_TRUNC.
OpenOutput ==
  /\ phase = "open"
  /\ \/ files' = [files EXCEPT ![output] = "empty"] /\ GoTo("write")
     \/ LogFatal /\ UNCHANGED files
  /\ UNCHANGED <<argv, idx, output, original, loggerVars>>

\* The stream of LLVM exits with 1 when not all could be written.
WriteIRToFD ==
  /\ phase = "write"
  /\ \/ files' = [files EXCEPT ![output] = "IR"] /\ Exit(0)
     \/ files' = [files EXCEPT ![output] = "part"] /\ Exit(1)
  /\ UNCHANGED <<argv, idx, output, original, loggerVars>>

Exited == phase = "exit" /\ UNCHANGED vars

Init ==
  /\ argv \in CommandLine
  /\ idx = 1
  /\ output = ReplaceExtension(argv[1])
  /\ files \in [Path -> {"none", "text"}]
  /\ original = files
  /\ phase = "input"
  /\ exit_code = NoExitCode
  /\ LoggerInit

Next ==
  \/ FindInput \/ ReadOption \/ EndOptions \/ ReportError \/ Parse \/ CheckSyntax \/ Analyze
  \/ CheckAnalysis \/ GenerateCode \/ Fail \/ OpenOutput \/ WriteIRToFD \/ Exited

Spec == Init /\ [][Next]_vars

-----------------------------------------------------------------------------
(* Correctness.                                                            *)

\* The types of the driver's state.
TypeOK ==
  /\ argv \in CommandLine
  /\ idx \in 1..(Len(Args) + 1)
  /\ output \in Path
  /\ files \in [Path -> {"none", "text", "empty", "part", "IR"}]
  /\ original \in [Path -> {"none", "text"}]
  /\ phase \in Phases
  /\ exit_code \in {0, 1, 255, Killed, NoExitCode}
  /\ LoggerTypeOK

\* "program has errors. no output file generated.": once an error is logged, in
\* whatever phase, the compiler fails and all files stay as they were.
NoOutputFromErrors == logged > 0 => files = original /\ exit_code # 0

\* A compiler that stops because of compile errors has printed one summary,
\* whose total counts every error that was logged and which shows the first
\* eight in their order.
ErrorsAreSummarized ==
  exit_code = 1 /\ logged > 0 =>
    /\ Len(summary) = 1
    /\ summary[1].total = logged
    /\ summary[1].suppressed = logged - Len(summary[1].errors)
    /\ summary[1].errors =
         [i \in 1..(IF logged < kMaxCompileErrors THEN logged ELSE kMaxCompileErrors) |-> i]

\* Whatever is wrong with the compiler itself, in whatever phase, shows before
\* the output is opened, which truncates it: what an earlier run has written is
\* still there after an internal error or a crash.
FailuresKeepFiles == exit_code \in {255, Killed} => files = original

\* The positions of the arguments of -o.
Named == {i \in 1..Len(Args) : i > 1 /\ Args[i - 1] = "-o"}

\* The output goes to the file that the last -o names, or next to the input
\* when there is none; no other file is ever changed.
OutputIsTheOneNamed ==
  \A p \in Path : files[p] # original[p] =>
    IF Named = {} THEN p = ReplaceExtension(Input)
    ELSE p = Args[CHOOSE i \in Named : \A j \in Named : j <= i]
=============================================================================
