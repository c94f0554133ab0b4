------------------------------ MODULE Execution ------------------------------
(***************************************************************************)
(* Runs the functions that CodeGeneration generated, next to the source    *)
(* they come from.                                                         *)
(*                                                                         *)
(* When the code of a program is complete, one of its functions is run:    *)
(* its basic blocks on one side, its body on the other (SourceSemantics).  *)
(* The two machines advance together at the events they share and go the   *)
(* same way at choices; everything else they do on their own.  The code is *)
(* correct when they always agree on the next event.                       *)
(***************************************************************************)
EXTENDS CodeGeneration, ReturnPaths

VARIABLES
  fn,      \* the function that runs, 0 before it is chosen
  pc,      \* the block and the position in it of the next instruction
  rest, result

Source == INSTANCE SourceSemantics

execVars == <<vars, fn, pc, rest, result>>

Executing == fn # 0 /\ result = "running"

Instr == blocks[pc.block].code[pc.at]

Advance   == pc' = [pc EXCEPT !.at = @ + 1]
JumpTo(b) == pc' = [block |-> b, at |-> 1]

\* What only the generated code does: it has no counterpart in the source.
IsSilent(i) == i.op \in {"alloca", "phi", "br"} \/ i.tag = "gcd"

-----------------------------------------------------------------------------
GenerateStep == Generate /\ UNCHANGED <<fn, pc, rest, result>>

Call ==
  /\ status = "done"
  /\ fn = 0
  /\ \E f \in 1..Len(functions) :
       /\ fn' = f
       /\ JumpTo(functions[f].entry)
       /\ Source!Start(functions[f].kind, functions[f].body)
  /\ UNCHANGED vars

SourceStep == Executing /\ Source!Unfold /\ UNCHANGED <<vars, fn, pc>>

SilentStep ==
  /\ Executing
  /\ Source!AtEvent
  /\ IsSilent(Instr)
  /\ CASE Instr.op \in {"br", "condbr"} -> \E i \in 1..Len(Instr.to) : JumpTo(Instr.to[i])
       [] OTHER -> Advance
  /\ UNCHANGED <<vars, fn, rest, result>>

DoStep ==
  /\ Executing
  /\ Instr.op = "do"
  /\ Source!Perform(Instr.tag)
  /\ Advance
  /\ UNCHANGED <<vars, fn>>

BranchStep ==
  /\ Executing
  /\ Instr.op = "condbr"
  /\ \E yes \in BOOLEAN :
       /\ Source!Choose(Instr.tag, yes)
       /\ JumpTo(Instr.to[IF yes THEN 1 ELSE 2])
  /\ UNCHANGED <<vars, fn>>

FailStep ==
  /\ Executing
  /\ Instr.op = "fail"
  /\ Source!Stop("fail", "failed")
  /\ UNCHANGED <<vars, fn, pc>>

ReturnStep ==
  /\ Executing
  /\ Instr.op = "ret"
  /\ Source!Stop("return", "returned")
  /\ UNCHANGED <<vars, fn, pc>>

Stopped == (status = "invalid" \/ result \in {"returned", "failed"}) /\ UNCHANGED execVars

ExecInit ==
  /\ Init
  /\ fn = 0
  /\ pc = [block |-> NoBlock, at |-> 1]
  /\ rest = <<>>
  /\ result = "none"

ExecNext ==
  \/ GenerateStep \/ Call \/ SourceStep \/ SilentStep
  \/ DoStep \/ BranchStep \/ FailStep \/ ReturnStep \/ Stopped

\* The visitor is one thread that goes on until it returns: its steps are fair.
\* Nothing is assumed of the program that it generates.
ExecSpec == ExecInit /\ [][ExecNext]_execVars /\ WF_execVars(GenerateStep)

-----------------------------------------------------------------------------
(* Correctness.                                                            *)

SameEvent(i, t) ==
  \/ i.op = "do" /\ t.op = "do" /\ i.tag = t.arg
  \/ i.op = "condbr" /\ t.op = "choose" /\ i.tag = t.arg.tag
  \/ i.op = "fail" /\ t.op = "fail" /\ i.tag = t.arg
  \/ i.op = "ret" /\ t.op = "return"

\* The generated code does what the statements mean: at every point of every
\* execution the next thing it does is the next thing the source does.
CodeFollowsSource ==
  Executing /\ Source!AtEvent =>
    /\ pc.at <= Len(blocks[pc.block].code)
    /\ IsSilent(Instr) \/ SameEvent(Instr, Head(rest))

FallsOffTheEnd ==
    /\ Executing /\ Source!AtEvent
    /\ Head(rest).op = "fail"
    /\ Head(rest).arg = MissingReturn

RECURSIVE EveryIfHasElse(_)
EveryIfHasElse(s) ==
  CASE s.kind = "block" -> \A i \in 1..Len(s.body) : EveryIfHasElse(s.body[i])
    [] s.kind = "if"    -> s.else # <<>> /\ EveryIfHasElse(s.then) /\ EveryIfHasElse(s.else[1])
    [] s.kind \in {"while", "for"} -> EveryIfHasElse(s.body)
    [] OTHER -> TRUE

Accepted == functions[fn].kind = "nonvoid" /\ DoAllControlPathsReturn(functions[fn].body)

\* A lambda the semantic analyzer accepts, and whose if-statements all have an
\* else, never stops with "non-void lambda does not return a value".
AcceptedLambdasWithElseReturn ==
  FallsOffTheEnd /\ Accepted => ~EveryIfHasElse(functions[fn].body)

\* "If this is a non-void lambda, make sure all control paths return a value":
\* no accepted lambda reaches its end without returning.
AcceptedLambdasReturn == FallsOffTheEnd => ~Accepted
=============================================================================
