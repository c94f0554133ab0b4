--------------------------- MODULE CodeGeneration ---------------------------
(***************************************************************************)
(* The code generation visitor: from statement trees to basic blocks.      *)
(*                                                                         *)
(* The visitor is a set of mutually recursive GenerateCode methods that    *)
(* share one IR builder.  The builder appends to its insert block, which   *)
(* every method moves; a method reads it again after each recursive call.  *)
(* Here the call stack is the variable work: a task is what a method still *)
(* has to do at one of the points where it calls GenerateCode, and an      *)
(* action is the stretch of a method between two such points.              *)
(***************************************************************************)
EXTENDS Naturals, Sequences, SequencesExt, Expressions

CONSTANTS
  Effect,     \* the effects of expressions
  Statement,  \* the statement trees, closed under taking subtrees
  Program     \* the programs: sequences of function definitions and main

Code == Seq(Effect)

ASSUME EffectAssumption ==
  \A e \in Effect :
    /\ e.op \in {"do", "check", "gcd", "lambda"}
    /\ e.tag \in STRING
    /\ e.op = "lambda" => e.body \in Statement /\ e.void \in BOOLEAN

StatementKinds == {"expression", "declaration", "dealloc", "return", "print", "block", "if",
                   "while", "for"}

\* The children the parser gives to each kind of statement.
ASSUME StatementAssumption ==
  \A s \in Statement :
    /\ s.kind \in StatementKinds
    /\ s.kind \notin {"print", "block"} => s.expr \in Code
    /\ s.kind = "declaration" => s.var \in STRING
    /\ s.kind = "print" => s.args \in Seq([expr : Code, depth : Nat])
    /\ s.kind = "block" => s.body \in Seq(Statement)
    /\ s.kind = "if" => s.then \in Statement /\ s.else \in Seq(Statement)
    /\ s.kind \in {"while", "for"} => s.body \in Statement
    /\ s.kind = "for" => /\ s.step \in Code
                         /\ s.init \in Statement
                         /\ s.init.kind \in {"declaration", "expression"}

\* A program is a sequence of function definitions and the main block.
ASSUME ProgramAssumption ==
  \A defs \in Program :
    /\ defs \in Seq([kind : {"main", "void", "nonvoid"}, body : Statement])
    /\ \A i \in 1..Len(defs) : defs[i].kind = "main" <=> i = Len(defs)

VARIABLES
  blocks,     \* the basic blocks in the order of their creation
  functions,  \* the functions in the order of their creation
  insert,     \* the builder's insert block
  work,       \* the tasks that remain, the current one last
  status      \* generating, done, or invalid: a failed LLVM verification

vars == <<blocks, functions, insert, work, status>>

-----------------------------------------------------------------------------
(* Basic blocks and the IR builder.                                        *)

NoBlock  == 0  \* a null block pointer
NoParent == 0  \* the parent of a block that is not part of a function yet

Instruction(op, tag, to) == [op |-> op, tag |-> tag, to |-> to]

Act(tag)                == Instruction("do", tag, <<>>)
Br(block)               == Instruction("br", "br", <<block>>)
CondBr(tag, yes, no)    == Instruction("condbr", tag, <<yes, no>>)
Phi(preds)              == Instruction("phi", "phi", preds)
Ret                     == Instruction("ret", "ret", <<>>)
RuntimeError(message)   == <<Instruction("fail", message, <<>>),
                             Instruction("unreachable", "exit", <<>>)>>

TerminatorOps == {"br", "condbr", "ret", "unreachable"}

\* BasicBlock::getTerminator looks at the last instruction only.
HasTerminator(block) ==
  block.code # <<>> /\ Last(block.code).op \in TerminatorOps

IsPreviousInstructionBlockTerminator == HasTerminator(blocks[insert])

Block(fn, code) == [fn |-> fn, code |-> code]
EmptyBlock(fn)  == Block(fn, <<>>)

\* Mutants: the block is created but never attached; the PHI node does not
\* learn of the way back.
ForgetToAttach(bs, b, fn)   == bs
ForgetIncoming(bs, b, pred) == bs

Put(bs, b, code)     == [bs EXCEPT ![b] = Block(@.fn, @.code \o code)]
PutInEntry(bs, b, i) == [bs EXCEPT ![b] = Block(@.fn, <<i>> \o @.code)]
Attach(bs, b, fn)    == [bs EXCEPT ![b] = Block(fn, @.code)]

\* The PHI node is the first instruction of its block.
AddIncoming(bs, b, pred) ==
  [bs EXCEPT ![b] = Block(@.fn, [@.code EXCEPT ![1] = Phi(Append(bs[b].code[1].to, pred))])]

-----------------------------------------------------------------------------
(* Tasks.  fn is the function the task adds code to (parent_function); owe *)
(* lists the blocks it created and has yet to attach to that function.     *)

Task(op, fn, arg, owe) == [op |-> op, fn |-> fn, arg |-> arg, owe |-> owe]

Gen(fn, node)  == Task("gen", fn, node, <<>>)
Eval(fn, expr) == Task("eval", fn, expr, <<>>)

\* A method in the loop over the children of its node, at child next.
Loop(op, fn, node, next) == Task(op, fn, [node |-> node, next |-> next], <<>>)
ProgramLoop(defs, next)  == Task("program", 0, [defs |-> defs, next |-> next], <<>>)

Top        == Last(work)
Doing(op)  == status = "generating" /\ work # <<>> /\ Top.op = op
Then(todo) == work' = Front(work) \o todo  \* todo's last task comes first


New(i) == Len(blocks) + i  \* the i-th block this action creates

-----------------------------------------------------------------------------
(* Programs and functions.                                                 *)

(* The blocks and the function that the prologue of a function creates.    *)
EnterFunction(kind, body) ==
  /\ functions' = Append(functions, [kind |-> kind, body |-> body, entry |-> New(1)])
  /\ blocks' = Append(blocks, EmptyBlock(Len(functions) + 1))
  /\ insert' = New(1)
  /\ UNCHANGED status

\* Mutant: the insert block is saved after it was moved to the new function.
FunctionTasksSavedTooLate(kind, body) ==
  LET fn == Len(functions) + 1
  IN  <<Task("function_end", fn, [kind |-> kind, saved |-> New(1)], <<>>), Gen(fn, body)>>

FunctionTasks(kind, body) ==
  LET fn == Len(functions) + 1
  IN  <<Task("function_end", fn, [kind |-> kind, saved |-> insert], <<>>), Gen(fn, body)>>

GenerateProgram ==
  /\ Doing("program")
  /\ Top.arg.next <= Len(Top.arg.defs)
  /\ LET def == Top.arg.defs[Top.arg.next]
     IN  /\ EnterFunction(def.kind, def.body)
         /\ Then(<<ProgramLoop(Top.arg.defs, Top.arg.next + 1)>> \o FunctionTasks(def.kind, def.body))

Epilogue(kind) ==
  IF kind = "nonvoid"
  THEN RuntimeError(MissingReturn)
  ELSE <<Ret>>

-----------------------------------------------------------------------------
(* What LLVM's verifyFunction requires of the blocks bs of function fn.    *)

BlocksOf(bs, fn) == {b \in 1..Len(bs) : bs[b].fn = fn}

Targets(block) ==
  IF HasTerminator(block)
  THEN {Last(block.code).to[i] : i \in 1..Len(Last(block.code).to)}
  ELSE {}

Predecessors(bs, b) == {p \in 1..Len(bs) : b \in Targets(bs[p])}

\* A block ends with its only terminator.
Terminated(block) ==
  /\ HasTerminator(block)
  /\ \A i \in 1..(Len(block.code) - 1) : block.code[i].op \notin TerminatorOps

\* The branches of a block lead to blocks of the same function.
TargetsInFunction(bs, b) ==
  \A t \in Targets(bs[b]) : t \in 1..Len(bs) /\ bs[t].fn = bs[b].fn

\* PHI nodes come first and have one entry for each predecessor.
PhisMatch(bs, b) ==
  \A i \in 1..Len(bs[b].code) : bs[b].code[i].op = "phi" =>
    /\ \A j \in 1..i : bs[b].code[j].op = "phi"
    /\ IsInjective(bs[b].code[i].to)
    /\ Range(bs[b].code[i].to) = Predecessors(bs, b)

VerifyFunction(bs, fn) ==
  /\ \A b \in BlocksOf(bs, fn) :
       Terminated(bs[b]) /\ TargetsInFunction(bs, b) /\ PhisMatch(bs, b)
  /\ Predecessors(bs, functions[fn].entry) = {}

EndFunction ==
  /\ Doing("function_end")
  /\ LET kind == Top.arg.kind
         done == IF IsPreviousInstructionBlockTerminator THEN blocks
                 ELSE Put(blocks, insert, Epilogue(kind))
     IN  /\ blocks' = done
         /\ IF VerifyFunction(done, Top.fn)
            THEN /\ insert' = IF kind = "main" THEN insert ELSE Top.arg.saved
                 /\ Then(<<>>)
                 /\ UNCHANGED status
            ELSE /\ status' = "invalid"
                 /\ UNCHANGED <<insert, work>>
  /\ UNCHANGED functions

\* verifyModule: all functions once more.
EndProgram ==
  /\ Doing("program")
  /\ Top.arg.next > Len(Top.arg.defs)
  /\ status' = IF \A f \in 1..Len(functions) : VerifyFunction(blocks, f)
               THEN "done" ELSE "invalid"
  /\ Then(<<>>)
  /\ UNCHANGED <<blocks, functions, insert>>

-----------------------------------------------------------------------------
(* Statements.  Every statement but a code block is skipped when the insert *)
(* block has its terminator: it is dead code.                               *)

SkipDeadStatement ==
  /\ Doing("gen")
  /\ Top.arg.kind # "block"
  /\ IsPreviousInstructionBlockTerminator
  /\ Then(<<>>)
  /\ UNCHANGED <<blocks, functions, insert, status>>

Visit(kinds) ==
  /\ Doing("gen")
  /\ Top.arg.kind \in kinds
  /\ ~IsPreviousInstructionBlockTerminator

GenerateLeaf ==
  /\ Visit({"expression", "declaration", "dealloc", "return"})
  /\ Then(<<Task(Top.arg.kind, Top.fn, Top.arg, <<>>), Eval(Top.fn, Top.arg.expr)>>)
  /\ UNCHANGED <<blocks, functions, insert, status>>

EndExpression ==
  /\ Doing("expression")
  /\ Then(<<>>)
  /\ UNCHANGED <<blocks, functions, insert, status>>

EndDeclaration ==
  /\ Doing("declaration")
  /\ LET entry == functions[blocks[insert].fn].entry
     IN  blocks' = Put(PutInEntry(blocks, entry, Instruction("alloca", Top.arg.var, <<>>)),
                       insert, <<Act(Top.arg.var)>>)
  /\ Then(<<>>)
  /\ UNCHANGED <<functions, insert, status>>

EndDealloc ==
  /\ Doing("dealloc")
  /\ blocks' = Put(blocks, insert, <<Act("free data"), Act("free array")>>)
  /\ Then(<<>>)
  /\ UNCHANGED <<functions, insert, status>>

EndReturn ==
  /\ Doing("return")
  /\ blocks' = Put(blocks, insert, <<Ret>>)
  /\ Then(<<>>)
  /\ UNCHANGED <<functions, insert, status>>

GenerateCodeBlock ==
  /\ Doing("gen")
  /\ Top.arg.kind = "block"
  /\ Then(<<Loop("block", Top.fn, Top.arg, 1)>>)
  /\ UNCHANGED <<blocks, functions, insert, status>>


GenerateBlockChild ==
  /\ Doing("block")
  /\ LET body == Top.arg.node.body
         next == Top.arg.next
     IN  IF next <= Len(body)
         THEN Then(<<Loop("block", Top.fn, Top.arg.node, next + 1), Gen(Top.fn, body[next])>>)
         ELSE Then(<<>>)
  /\ UNCHANGED <<blocks, functions, insert, status>>

-----------------------------------------------------------------------------
(* if                                                                      *)

GenerateIf ==
  /\ Visit({"if"})
  /\ Then(<<Task("if_cond", Top.fn, Top.arg, <<>>), Eval(Top.fn, Top.arg.expr)>>)
  /\ UNCHANGED <<blocks, functions, insert, status>>

HasElseBlock(node) == node.else # <<>>

\* Mutant: no block is created for the else part, the pointer to it stays null.
IfConditionForgettingElse ==
  /\ Doing("if_cond")
  /\ LET then  == New(1)
         merge == New(2)
         owe   == IF HasElseBlock(Top.arg) THEN <<NoBlock, merge>> ELSE <<merge>>
     IN  /\ blocks' = Put(blocks, insert, <<CondBr("if", then, Head(owe))>>)
                        \o <<EmptyBlock(Top.fn), EmptyBlock(NoParent)>>
         /\ insert' = then
         /\ Then(<<Task("then_end", Top.fn, Top.arg, owe), Gen(Top.fn, Top.arg.then)>>)
  /\ UNCHANGED <<functions, status>>

\* The condition has been generated: then is attached, merge and else are not.
IfCondition ==
  /\ Doing("if_cond")
  /\ LET node  == Top.arg
         then  == New(1)
         merge == New(2)
         owe   == IF HasElseBlock(node) THEN <<New(3), merge>> ELSE <<merge>>
         new   == IF HasElseBlock(node)
                  THEN <<EmptyBlock(Top.fn), EmptyBlock(NoParent), EmptyBlock(NoParent)>>
                  ELSE <<EmptyBlock(Top.fn), EmptyBlock(NoParent)>>
     IN  /\ blocks' = Put(blocks, insert, <<CondBr("if", then, Head(owe))>>) \o new
         /\ insert' = then
         /\ Then(<<Task("then_end", Top.fn, node, owe), Gen(Top.fn, node.then)>>)
  /\ UNCHANGED <<functions, status>>

\* Mutant: the branch is added behind a return, too.
FallThroughBehindReturn(b) == Put(blocks, insert, <<Br(b)>>)

\* Falls through to block b where the path has not ended already.
FallThrough(b) ==
  IF IsPreviousInstructionBlockTerminator THEN blocks ELSE Put(blocks, insert, <<Br(b)>>)

\* The next block the task owes is attached and code goes there.
EndThen ==
  /\ Doing("then_end")
  /\ LET merge == Last(Top.owe)
     IN  /\ blocks' = Attach(FallThrough(merge), Head(Top.owe), Top.fn)
         /\ insert' = Head(Top.owe)
         /\ Then(IF HasElseBlock(Top.arg)
                 THEN <<Task("else_end", Top.fn, Top.arg, <<merge>>),
                        Gen(Top.fn, Top.arg.else[1])>>
                 ELSE <<>>)
  /\ UNCHANGED <<functions, status>>

EndElse ==
  /\ Doing("else_end")
  /\ LET merge == Head(Top.owe)
     IN  /\ blocks' = Attach(FallThrough(merge), merge, Top.fn)
         /\ insert' = merge
  /\ Then(<<>>)
  /\ UNCHANGED <<functions, status>>

-----------------------------------------------------------------------------
(* while and for                                                           *)

\* The blocks of a loop: condcheck is attached, loop and afterloop are not.
EnterLoop(node) ==
  LET cond == New(1)
  IN  /\ blocks' = Put(blocks, insert, <<Br(cond)>>)
                     \o <<EmptyBlock(Top.fn), EmptyBlock(NoParent), EmptyBlock(NoParent)>>
      /\ insert' = cond
      /\ Then(<<Task("loop_cond", Top.fn, [node |-> node, cond |-> cond], <<New(2), New(3)>>),
                Eval(Top.fn, node.expr)>>)
      /\ UNCHANGED <<functions, status>>

GenerateWhile == Visit({"while"}) /\ EnterLoop(Top.arg)

GenerateFor ==
  /\ Visit({"for"})
  /\ Then(<<Task("for_init", Top.fn, Top.arg, <<>>), Gen(Top.fn, Top.arg.init)>>)
  /\ UNCHANGED <<blocks, functions, insert, status>>

ForInitialized == Doing("for_init") /\ EnterLoop(Top.arg)

LoopCondition ==
  /\ Doing("loop_cond")
  /\ LET loop  == Top.owe[1]
         after == Top.owe[2]
         node  == Top.arg.node
     IN  /\ blocks' = Attach(Put(blocks, insert, <<CondBr(node.kind, loop, after)>>), loop, Top.fn)
         /\ insert' = loop
         /\ Then(<<Task("body_end", Top.fn, Top.arg, <<after>>), Gen(Top.fn, node.body)>>)
  /\ UNCHANGED <<functions, status>>

LoopEnd == Task("loop_end", Top.fn, Top.arg, Top.owe)

\* Mutant: the step of a for loop is forgotten.
EndBodyWithoutStep ==
  /\ Doing("body_end")
  /\ Then(<<LoopEnd>>)
  /\ UNCHANGED <<blocks, functions, insert, status>>

\* The step of a for loop follows its body, unless the body has ended.
EndBody ==
  /\ Doing("body_end")
  /\ LET step == IF Top.arg.node.kind = "for" /\ ~IsPreviousInstructionBlockTerminator
                 THEN <<Eval(Top.fn, Top.arg.node.step)>>
                 ELSE <<>>
     IN  Then(<<LoopEnd>> \o step)
  /\ UNCHANGED <<blocks, functions, insert, status>>

EndLoop ==
  /\ Doing("loop_end")
  /\ blocks' = Attach(FallThrough(Top.arg.cond), Head(Top.owe), Top.fn)
  /\ insert' = Head(Top.owe)
  /\ Then(<<>>)
  /\ UNCHANGED <<functions, status>>

-----------------------------------------------------------------------------
(* Expressions: one effect at a time.                                      *)

Expecting(op) == Doing("eval") /\ Top.arg # <<>> /\ Head(Top.arg).op = op

RestOfExpression == <<Eval(Top.fn, Tail(Top.arg))>>

EndExpressionCode ==
  /\ Doing("eval")
  /\ Top.arg = <<>>
  /\ Then(<<>>)
  /\ UNCHANGED <<blocks, functions, insert, status>>

GenerateAct ==
  /\ Expecting("do")
  /\ blocks' = Put(blocks, insert, <<Act(Head(Top.arg).tag)>>)
  /\ Then(RestOfExpression)
  /\ UNCHANGED <<functions, insert, status>>

\* A runtime check; the code continues in the block of its second target.
GenerateCheck ==
  /\ Expecting("check")
  /\ LET tag == Head(Top.arg).tag
     IN  blocks' = Put(blocks, insert, <<CondBr(tag, New(1), New(2))>>)
                     \o <<Block(Top.fn, RuntimeError(tag)), EmptyBlock(Top.fn)>>
  /\ insert' = New(2)
  /\ Then(RestOfExpression)
  /\ UNCHANGED <<functions, status>>

GenerateGCD ==
  /\ Expecting("gcd")
  /\ LET cond == New(1)
         body == New(2)
         end  == New(3)
     IN  /\ blocks' = Put(blocks, insert, <<Act("gcd arguments"), Br(cond)>>)
              \o <<Block(Top.fn, <<Phi(<<insert, body>>), Phi(<<insert, body>>),
                                    CondBr("gcd", body, end)>>),
                   Block(Top.fn, <<Br(cond)>>),
                   EmptyBlock(Top.fn)>>
         /\ insert' = end
  /\ Then(RestOfExpression)
  /\ UNCHANGED <<functions, status>>

GenerateLambda ==
  /\ Expecting("lambda")
  /\ LET lambda == Head(Top.arg)
         kind   == IF lambda.void THEN "void" ELSE "nonvoid"
     IN  /\ EnterFunction(kind, lambda.body)
         /\ Then(RestOfExpression \o FunctionTasks(kind, lambda.body))

-----------------------------------------------------------------------------
(* print.  An operand has the depth of its array type, 0 for other types.  *)

GeneratePrint ==
  /\ Visit({"print"})
  /\ Then(<<Loop("print", Top.fn, Top.arg, 1)>>)
  /\ UNCHANGED <<blocks, functions, insert, status>>

PrintValue(depth) == Task("print_value", Top.fn, [depth |-> depth], <<>>)

PrintOperand ==
  /\ Doing("print")
  /\ LET node == Top.arg.node
         next == Top.arg.next
     IN  IF next <= Len(node.args)
         THEN /\ Then(<<Loop("print", Top.fn, node, next + 1),
                        PrintValue(node.args[next].depth),
                        Eval(Top.fn, node.args[next].expr)>>)
              /\ UNCHANGED blocks
         ELSE /\ blocks' = Put(blocks, insert, IF node.ln THEN <<Act("newline")>> ELSE <<>>)
              /\ Then(<<>>)
  /\ UNCHANGED <<functions, insert, status>>

PrintBaseTypeValue ==
  /\ Doing("print_value")
  /\ Top.arg.depth = 0
  /\ blocks' = Put(blocks, insert, <<Act("value")>>)
  /\ Then(<<>>)
  /\ UNCHANGED <<functions, insert, status>>

\* PrintArrayTypeValue up to the printing of the elements but the last.
PrintArray ==
  /\ Doing("print_value")
  /\ Top.arg.depth > 0
  /\ LET start == New(1)
         cond  == New(2)
         main  == New(3)
         last  == New(4)
         end   == New(5)
     IN  /\ blocks' = Put(blocks, insert, <<Act("open"), CondBr("empty", end, start)>>)
              \o <<Block(Top.fn, <<Br(cond)>>),
                   Block(Top.fn, <<Phi(<<start>>), CondBr("more", main, last)>>),
                   EmptyBlock(Top.fn), EmptyBlock(NoParent), EmptyBlock(NoParent)>>
         /\ insert' = main
         /\ Then(<<Task("print_main", Top.fn, [depth |-> Top.arg.depth, cond |-> cond],
                       <<last, end>>),
                   PrintValue(Top.arg.depth - 1)>>)
  /\ UNCHANGED <<functions, status>>

\* An element is printed: the loop goes back to its condition.
EndPrintMain ==
  /\ Doing("print_main")
  /\ LET cond == Top.arg.cond
         loop == Put(blocks, insert, <<Act("comma"), Act("space"), Br(cond)>>)
     IN  blocks' = Attach(AddIncoming(loop, cond, insert), Top.owe[1], Top.fn)
  /\ insert' = Top.owe[1]
  /\ Then(<<Task("print_last", Top.fn, Top.arg, <<Top.owe[2]>>), PrintValue(Top.arg.depth - 1)>>)
  /\ UNCHANGED <<functions, status>>

EndPrintLast ==
  /\ Doing("print_last")
  /\ LET end == Head(Top.owe)
     IN  /\ blocks' = Put(Attach(Put(blocks, insert, <<Br(end)>>), end, Top.fn),
                          end, <<Act("close")>>)
         /\ insert' = end
  /\ Then(<<>>)
  /\ UNCHANGED <<functions, status>>

-----------------------------------------------------------------------------
Init ==
  /\ blocks = <<>>
  /\ functions = <<>>
  /\ insert = NoBlock
  /\ \E defs \in Program : work = <<ProgramLoop(defs, 1)>>
  /\ status = "generating"

Generate ==
  \/ GenerateProgram \/ EndProgram \/ EndFunction
  \/ SkipDeadStatement
  \/ GenerateLeaf \/ EndExpression \/ EndDeclaration \/ EndDealloc \/ EndReturn
  \/ GenerateCodeBlock \/ GenerateBlockChild
  \/ GenerateIf \/ IfCondition \/ EndThen \/ EndElse
  \/ GenerateWhile \/ GenerateFor \/ ForInitialized
  \/ LoopCondition \/ EndBody \/ EndLoop
  \/ EndExpressionCode \/ GenerateAct \/ GenerateCheck \/ GenerateGCD \/ GenerateLambda
  \/ GeneratePrint \/ PrintOperand \/ PrintBaseTypeValue
  \/ PrintArray \/ EndPrintMain \/ EndPrintLast

\* The compiler goes on to its next phase, or has exited.
Finished == status # "generating" /\ UNCHANGED vars

Next == Generate \/ Finished

Spec == Init /\ [][Next]_vars /\ WF_vars(Generate)

-----------------------------------------------------------------------------
(* Correctness.                                                            *)

KindsOfTask ==
  {"program", "function_end", "gen", "block", "expression", "declaration", "dealloc",
   "return", "if_cond", "then_end", "else_end", "for_init", "loop_cond", "body_end",
   "loop_end", "eval", "print", "print_value", "print_main", "print_last"}

InstructionOps == {"do", "br", "condbr", "phi", "ret", "fail", "unreachable", "alloca"}

\* The tags of instructions: those of the program and those of the visitor.
VisitorTags ==
  {"br", "phi", "ret", "exit", MissingReturn, "if", "while", "for",
   "gcd", "gcd arguments", "free data", "free array", "newline", "value", "empty", "more",
   "open", "comma", "space", "close"}

Tags ==
  {e.tag : e \in Effect} \cup {s.var : s \in {d \in Statement : d.kind = "declaration"}}
    \cup VisitorTags

\* How many blocks a task owes.
Owing(t) ==
  CASE t.op \in {"loop_cond", "print_main"} -> 2
    [] t.op \in {"else_end", "body_end", "loop_end", "print_last"} -> 1
    [] t.op = "then_end" -> IF HasElseBlock(t.arg) THEN 2 ELSE 1
    [] OTHER -> 0

\* What the tasks of each kind carry, when there are n blocks.
TaskArgOK(t, n) ==
  /\ t.op = "program" => t.arg.defs \in Program /\ t.arg.next \in Nat \ {0}
  /\ t.op = "function_end" =>
       t.arg.kind \in {"main", "void", "nonvoid"} /\ t.arg.saved \in 0..n
  /\ t.op = "eval" => t.arg \in Code
  /\ t.op = "gen" => t.arg \in Statement
  /\ t.op = "declaration" => t.arg \in Statement /\ t.arg.kind = "declaration"
  /\ t.op \in {"if_cond", "then_end", "else_end"} => t.arg \in Statement /\ t.arg.kind = "if"
  /\ t.op = "for_init" => t.arg \in Statement /\ t.arg.kind = "for"
  /\ t.op \in {"block", "print"} =>
       t.arg.node \in Statement /\ t.arg.node.kind = t.op /\ t.arg.next \in Nat \ {0}
  /\ t.op \in {"loop_cond", "body_end", "loop_end"} =>
       t.arg.node \in Statement /\ t.arg.node.kind \in {"while", "for"}
  /\ t.op \in {"loop_cond", "body_end", "loop_end", "print_main", "print_last"} =>
       t.arg.cond \in 1..n
  /\ t.op = "print_value" => t.arg.depth \in Nat
  /\ t.op \in {"print_main", "print_last"} => t.arg.depth \in Nat \ {0}

\* The types of a task, when there are n blocks and m functions.
TaskOK(t, n, m) ==
  /\ t.op \in KindsOfTask
  /\ t.fn \in 0..m
  /\ t.owe \in Seq(1..n)
  /\ Len(t.owe) = Owing(t)
  /\ TaskArgOK(t, n)

\* Instructions and basic blocks, when there are n blocks and m functions.
InstructionSet(n) == [op : InstructionOps, tag : Tags, to : Seq(1..n)]
BlockSet(n, m)    == [fn : 0..m, code : Seq(InstructionSet(n))]
FunctionSet(n)    == [kind : {"main", "void", "nonvoid"}, body : Statement, entry : 1..n]

\* The state has the types of the code: blocks and tasks name functions that
\* exist, and branches, loops and tasks name blocks that exist.
TypeOK ==
  /\ blocks \in Seq(BlockSet(Len(blocks), Len(functions)))
  /\ functions \in Seq(FunctionSet(Len(blocks)))
  /\ insert \in 0..Len(blocks)
  /\ work \in Seq(Range(work))
  /\ \A k \in 1..Len(work) : TaskOK(work[k], Len(blocks), Len(functions))
  /\ status \in {"generating", "done", "invalid"}

Owed(k) == {work[k].owe[i] : i \in 1..Len(work[k].owe)}

\* A block without parent is empty, and exactly one method on the call stack
\* will attach it: no block is lost and none is attached twice.
DetachedBlocksAreOwed ==
  /\ {b \in 1..Len(blocks) : blocks[b].fn = NoParent} = UNION {Owed(k) : k \in 1..Len(work)}
  /\ \A k, l \in 1..Len(work) : k # l => Owed(k) \cap Owed(l) = {}
  /\ \A b \in 1..Len(blocks) : blocks[b].fn = NoParent => blocks[b].code = <<>>

\* A method adds code to the function it was called for, also after lambdas in
\* its operands moved the insert block to other functions.
InsertsIntoItsFunction ==
  status = "generating" /\ work # <<>> /\ Top.op # "program" => blocks[insert].fn = Top.fn

\* No program makes the compiler stop with "generated IR is invalid." because
\* of its control flow: every function passes LLVM's verification of blocks,
\* branches and PHI nodes when its code is complete.
GeneratedIRIsValid == status # "invalid"

\* Code generation ends: no program keeps the visitor busy forever.
GenerationEnds == <>(status = "done")
=============================================================================
