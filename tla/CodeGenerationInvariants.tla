---------------------- MODULE CodeGenerationInvariants ----------------------
(***************************************************************************)
(* The inductive invariants of CodeGeneration, and the predicates on steps *)
(* from which CodeGenerationProofs concludes that every action preserves   *)
(* them.                                                                   *)
(***************************************************************************)
EXTENDS CodeGeneration

-----------------------------------------------------------------------------
(* The tasks and the blocks they owe.                                      *)

\* The stack of tasks: the program at the bottom, above it a function and what
\* remains of its code, above an expression perhaps a lambda's function, ...
\* A lambda gives the insert block back to the function below it; main does not.
CallStackOK ==
  /\ \A k \in 1..Len(work) : work[k].op = "program" <=> k = 1
  /\ \A k \in 2..Len(work) :
       /\ work[k].fn # 0
       /\ work[k].op # "function_end" => work[k - 1].fn = work[k].fn
  /\ \A k \in 3..Len(work) : work[k].op = "function_end" =>
       /\ work[k].arg.kind # "main"
       /\ work[k].arg.saved \in 1..Len(blocks)
       /\ blocks[work[k].arg.saved].fn = work[k - 1].fn

InsertOK ==
  status = "generating" /\ Len(work) > 1 =>
    insert \in 1..Len(blocks) /\ blocks[insert].fn = work[Len(work)].fn

\* Blocks that are owed have no parent yet, and are owed once.
OwedOK ==
  /\ \A k \in 1..Len(work) : \A i \in 1..Len(work[k].owe) :
       blocks[work[k].owe[i]].fn = NoParent
  /\ \A k, l \in 1..Len(work) :
       \A i \in 1..Len(work[k].owe), j \in 1..Len(work[l].owe) :
         work[k].owe[i] = work[l].owe[j] => k = l /\ i = j

\* Blocks that have no parent are empty, and owed.
DetachedOK ==
  \A b \in 1..Len(blocks) : blocks[b].fn = NoParent =>
    /\ blocks[b].code = <<>>
    /\ \E k \in 1..Len(work) : \E i \in 1..Len(work[k].owe) : work[k].owe[i] = b

EntriesOK == \A f \in 1..Len(functions) : blocks[functions[f].entry].fn = f

IInv == TypeOK /\ CallStackOK /\ InsertOK /\ OwedOK /\ DetachedOK /\ EntriesOK

-----------------------------------------------------------------------------
(* Steps: what becomes of the stack of tasks and of the blocks.            *)

\* What replacing the top of the stack of tasks means for each task.
Replaced(w, w2, todo) ==
  /\ w2 \in Seq(Range(w2))
  /\ Len(w) \in Nat \ {0}
  /\ Len(todo) \in Nat
  /\ Len(w2) = Len(w) - 1 + Len(todo)
  /\ \A k \in 1..(Len(w) - 1) : w2[k] = w[k]
  /\ \A i \in 1..Len(todo) : w2[Len(w) - 1 + i] = todo[i]
  /\ \A k \in 1..Len(w2) :
       /\ k < Len(w) => k \in 1..(Len(w) - 1) /\ w2[k] = w[k]
       /\ ~(k < Len(w)) => \E i \in 1..Len(todo) : k = Len(w) - 1 + i /\ w2[k] = todo[i]

\* Replacing an element of a sequence, if there is one at i.
Updated(s, i, x) == [s EXCEPT ![i] = x]

\* What a method leaves on the stack, in place of its task: tasks for the same
\* function, the first of which owes the blocks that are then owed.
TodoOK(todo, owe, fn, n, m) ==
  /\ todo \in Seq(Range(todo))
  /\ owe \in Seq(1..n)
  /\ \A i \in 1..Len(todo) : /\ TaskOK(todo[i], n, m)
                             /\ todo[i].op \notin {"program", "function_end"}
                             /\ todo[i].fn = fn
                             /\ i = 1 => todo[i].owe = owe
                             /\ i # 1 => Len(todo[i].owe) = 0
  /\ Len(todo) = 0 => Len(owe) = 0

\* Blocks keep their parents.
KeepsParents(bs, bs2) ==
  /\ Len(bs) <= Len(bs2)
  /\ \A b \in 1..Len(bs) : bs[b].fn # NoParent => bs2[b].fn = bs[b].fn

\* Of the blocks without parent those that were owed are attached or still
\* owed, the others stay as they are; new ones are owed.
PaysWhatIsOwed(bs, bs2, owed, owe) ==
  /\ \A b \in 1..Len(bs) : bs[b].fn = NoParent => bs2[b] = bs[b] \/ b \in owed
  /\ \A j \in 1..Len(owe) : /\ bs2[owe[j]].fn = NoParent
                            /\ owe[j] > Len(bs) \/ owe[j] \in owed
  /\ \A i, j \in 1..Len(owe) : owe[i] = owe[j] => i = j
  /\ \A b \in 1..Len(bs2) :
       bs2[b].fn = NoParent /\ (b > Len(bs) \/ b \in owed) =>
         /\ bs2[b].code = <<>>
         /\ \E j \in 1..Len(owe) : owe[j] = b

QuietTask(t, fn, n, m) ==
  /\ TaskOK(t, n, m)
  /\ t.op \notin {"program", "function_end"}
  /\ t.fn = fn
  /\ Len(t.owe) = 0

QuietTodo(todo, fn, n, m) ==
  /\ todo \in Seq(Range(todo))
  /\ \A i \in 1..Len(todo) : QuietTask(todo[i], fn, n, m)

\* r is bs with new blocks, and with other code in block b.
Grown(bs, b, new, n, n2, m, r) ==
  /\ r \in Seq(BlockSet(n2, m))
  /\ Len(r) = n2
  /\ \A c \in 1..n : /\ r[c].fn = bs[c].fn
                     /\ c # b => r[c] = bs[c]
  /\ \A i \in 1..Len(new) : r[n + i] = new[i]
  /\ \A c \in 1..n2 : c > n => \E i \in 1..Len(new) : c = n + i /\ r[c] = new[i]

\* The new blocks of a step: those without parent are owed.
NewBlocksOK(new, owe, n) ==
  /\ \A i \in 1..Len(new) : new[i].fn = NoParent =>
       /\ new[i].code = <<>>
       /\ \E j \in 1..Len(owe) : owe[j] = n + i
  /\ \A j \in 1..Len(owe) : \E i \in 1..Len(new) : owe[j] = n + i /\ new[i].fn = NoParent
  /\ \A i, j \in 1..Len(owe) : owe[i] = owe[j] => i = j

\* bs is blocks, but for other code in blocks that are attached.
Extended(bs) ==
  /\ bs \in Seq(BlockSet(Len(blocks), Len(functions)))
  /\ Len(bs) = Len(blocks)
  /\ \A c \in 1..Len(blocks) : /\ bs[c].fn = blocks[c].fn
                               /\ blocks[c].fn = 0 => bs[c] = blocks[c]

\* bs is blocks, but for block b, which is attached to fn, and for other code
\* in blocks that are attached.
Attached(bs, b, fn) ==
  /\ bs \in Seq(BlockSet(Len(blocks), Len(functions)))
  /\ Len(bs) = Len(blocks)
  /\ \A c \in 1..Len(blocks) : c # b => /\ bs[c].fn = blocks[c].fn
                                        /\ blocks[c].fn = 0 => bs[c] = blocks[c]
  /\ bs[b].fn = fn

-----------------------------------------------------------------------------
(* Verification: blocks, branches and PHI nodes.                           *)

\* No instruction but the last one is a terminator.
EndsOnce(block) ==
  \A i \in 1..(Len(block.code) - 1) : block.code[i].op \notin TerminatorOps

\* A block without PHI nodes.
Plain(block) == \A i \in 1..Len(block.code) : block.code[i].op # "phi"

IsEntry(b) == \E f \in 1..Len(functions) : functions[f].entry = b

\* What is there of the control flow graph is right at every moment.
FlowOK(bs) == \A b \in 1..Len(bs) : EndsOnce(bs[b]) /\ PhisMatch(bs, b)

\* Block b belongs to function f, now or when the method that owes it attaches it.
OwedTo(w, b, f) ==
  \E k \in 1..Len(w) : w[k].fn = f /\ \E i \in 1..Len(w[k].owe) : w[k].owe[i] = b

Belongs(bs, w, b, f) == bs[b].fn = f \/ (bs[b].fn = NoParent /\ OwedTo(w, b, f))

EdgesOK ==
  \A b \in 1..Len(blocks) : \A t \in Targets(blocks[b]) :
    t \in 1..Len(blocks) /\ Belongs(blocks, work, t, blocks[b].fn) /\ ~IsEntry(t)

\* Allocas are inserted in front of the code of an entry block.
EntriesPlain == \A f \in 1..Len(functions) : Plain(blocks[functions[f].entry])

\* A block to which code generation returns after a lambda.
IsSaved(b) == \E k \in 1..Len(work) : work[k].op = "function_end" /\ work[k].arg.saved = b

\* No block is left without a terminator.
OpenOK ==
  \A b \in 1..Len(blocks) : blocks[b].fn # NoParent =>
    HasTerminator(blocks[b]) \/ b = insert \/ IsSaved(b)

\* The condition block of a loop: a branch to it needs no PHI node, except in
\* the loop that prints an array.
PrintLoopHead(block) ==
  /\ HasTerminator(block)
  /\ Len(block.code) > 1
  /\ \A i \in 1..Len(block.code) : block.code[i].op = "phi" <=> i = 1

LoopTaskOK(bs, t) ==
  /\ t.op \in {"loop_cond", "body_end", "loop_end", "print_main"} =>
       bs[t.arg.cond].fn = t.fn /\ ~IsEntry(t.arg.cond)
  /\ t.op \in {"loop_cond", "body_end", "loop_end"} => Plain(bs[t.arg.cond])
  /\ t.op = "print_main" => PrintLoopHead(bs[t.arg.cond])

LoopsOK == \A k \in 1..Len(work) : LoopTaskOK(blocks, work[k])

\* A lambda is generated before the rest of the function that contains it.
FnsOK ==
  /\ \A k \in 1..Len(work) : work[k].op = "program" => work[k].fn = 0
  /\ \A j, k \in 1..Len(work) : j < k =>
       /\ work[j].fn <= work[k].fn
       /\ work[k].op = "function_end" => work[j].fn < work[k].fn

\* Between two functions of the program there is nothing to go on with.
Closed(b) == b = NoBlock \/ HasTerminator(blocks[b])

FinishedOK ==
  /\ Len(work) = 1 => Closed(insert)
  /\ Len(work) > 1 => (work[2].op = "function_end" => Closed(work[2].arg.saved))

\* Methods that add code to the insert block without looking at its end, and
\* methods that leave it open if they find it open.
NeedOps == {"eval", "expression", "declaration", "dealloc", "return", "if_cond", "loop_cond",
            "for_init", "print", "print_value", "print_main", "print_last"}

KeepOps == {"eval", "expression", "declaration", "print_value", "print_main", "print_last"}

LeavesOpen(t) ==
  \/ t.op \in KeepOps
  \/ t.op = "gen" /\ t.arg.kind \in {"declaration", "expression"}

ComesBack(bs, t) ==
  t.op = "function_end" /\ t.arg.saved # NoBlock /\ ~HasTerminator(bs[t.arg.saved])

IsOpen == ~HasTerminator(blocks[insert])

\* A method that needs an open block is only ever interrupted by methods that
\* leave it one.
NeedOK ==
  /\ \A k \in 1..(Len(work) - 1) :
       /\ work[k].op # "gen"
       /\ work[k].op \in NeedOps => LeavesOpen(work[k + 1]) \/ ComesBack(blocks, work[k + 1])
  /\ Len(work) > 0 => (work[Len(work)].op \in NeedOps => IsOpen)
  /\ Len(work) > 1 =>
       (work[Len(work)].op = "gen" /\ work[Len(work) - 1].op \in NeedOps => IsOpen)

Flowing ==
  /\ FlowOK(blocks) /\ EdgesOK /\ EntriesPlain /\ OpenOK
  /\ LoopsOK /\ FnsOK /\ FinishedOK /\ NeedOK

VInv == GeneratedIRIsValid /\ (status = "generating" => Flowing)

-----------------------------------------------------------------------------
(* Steps: what becomes of the control flow.                                *)

\* The PHI nodes of y are PHI nodes of x, at the same place.
SamePhis(x, y) ==
  \A i \in 1..Len(y.code) : y.code[i].op = "phi" =>
    /\ i \in 1..Len(x.code)
    /\ \A j \in 1..i : y.code[j] = x.code[j]

SameEnd(x, y) == (HasTerminator(x) <=> HasTerminator(y)) /\ Targets(x) = Targets(y)

\* y has the control flow of x.
Keeps(x, y) == SameEnd(x, y) /\ (EndsOnce(x) => EndsOnce(y)) /\ SamePhis(x, y)

\* Code for an open block: at most its last instruction is a terminator, and
\* there are no PHI nodes in it.
Straight(code) == \A i \in 1..Len(code) : code[i].op \notin TerminatorOps /\ code[i].op # "phi"

Branching(code) ==
  /\ code # <<>>
  /\ \A i \in 1..Len(code) : code[i].op # "phi"
  /\ \A i \in 1..(Len(code) - 1) : code[i].op \notin TerminatorOps
  /\ code[Len(code)].op \in TerminatorOps

\* The edges that lead from block c of bs2 to blocks of bs, but x, lead to
\* blocks without PHI nodes.
LeadsToPlain(bs, bs2, c, x) == \A t \in Targets(bs2[c]) : t \in 1..Len(bs) => t = x \/ Plain(bs[t])

\* Block c keeps its end and its PHI nodes; or it is x, whose PHI nodes are those
\* of its new predecessors; or it was open and now leads to x and to blocks
\* without PHI nodes.
KeepsFlow(bs, bs2, c, x) ==
  \/ Keeps(bs[c], bs2[c]) /\ c # x
  \/ c = x /\ SameEnd(bs[c], bs2[c]) /\ EndsOnce(bs2[c]) /\ PhisMatch(bs2, c)
  \/ /\ SamePhis(bs[c], bs2[c]) /\ EndsOnce(bs2[c]) /\ Targets(bs[c]) = {}
     /\ LeadsToPlain(bs, bs2, c, x) /\ c # x

Ordinary(todo) ==
  /\ IInv /\ IInv' /\ Flowing
  /\ status = "generating" /\ functions' = functions
  /\ work # <<>> /\ Top.op \notin {"program", "function_end"}
  /\ Replaced(work, work', todo)
  /\ \A i \in 1..Len(todo) : todo[i].fn = Top.fn /\ todo[i].op \notin {"program", "function_end"}

\* Block c is new, or was open and is continued.
Continued(c) == c > Len(blocks) \/ (c = insert /\ IsOpen)

\* A block a branch may lead to.
Near(t) == t > Len(blocks) \/ blocks[t].fn = Top.fn \/ t \in Owed(Len(work))

OrdinaryEnds ==
  /\ Len(blocks) <= Len(blocks')
  /\ \A c \in 1..Len(blocks) :
       /\ ~Continued(c) => SameEnd(blocks[c], blocks'[c])
       /\ \/ blocks'[c].fn = blocks[c].fn
          \/ c \in Owed(Len(work)) /\ blocks'[c].fn = Top.fn /\ c = insert'
  /\ \A c \in 1..Len(blocks') : c > Len(blocks) => blocks'[c].fn \in {NoParent, Top.fn}
  /\ \A c \in 1..Len(blocks') : c > Len(blocks) =>
       HasTerminator(blocks'[c]) \/ blocks'[c].fn = NoParent \/ c = insert'
  /\ \A c \in 1..Len(blocks') : Continued(c) => \A t \in Targets(blocks'[c]) :
       t \in 1..Len(blocks') /\ Near(t) /\ ~IsEntry(t)
  /\ insert' = insert \/ HasTerminator(blocks'[insert])

\* todo leaves the methods below it what they need, and finds what it needs.
OrdinaryNeeds(todo) ==
  /\ \A i \in 1..(Len(todo) - 1) :
       /\ todo[i].op # "gen"
       /\ todo[i].op \in NeedOps => LeavesOpen(todo[i + 1])
  /\ Len(todo) = 0 => (LeavesOpen(Top) /\ IsOpen => ~HasTerminator(blocks'[insert']))
  /\ Len(todo) > 0 => /\ todo[1].op # "gen"
                      /\ LeavesOpen(Top) => LeavesOpen(todo[1])
                      /\ todo[Len(todo)].op \in NeedOps => ~HasTerminator(blocks'[insert'])
  /\ Len(todo) > 1 =>
       (todo[Len(todo)].op = "gen" /\ todo[Len(todo) - 1].op \in NeedOps =>
          ~HasTerminator(blocks'[insert']))

\* What an ordinary step does to the blocks that loops go back to, and to the
\* entry blocks.
OrdinaryHeads(todo) ==
  /\ \A c \in 1..Len(blocks) : Plain(blocks[c]) => Plain(blocks'[c])
  /\ \A c \in 1..Len(blocks) : PrintLoopHead(blocks[c]) /\ ~IsEntry(c) => PrintLoopHead(blocks'[c])
  /\ \A i \in 1..Len(todo) : LoopTaskOK(blocks', todo[i])

Local(t) == t.fn = Top.fn /\ t.op \notin {"program", "function_end"}

Going ==
  /\ IInv /\ IInv' /\ VInv
  /\ status = "generating" /\ status' = status /\ functions' = functions
  /\ work # <<>> /\ Top.op \notin {"program", "function_end"}

\* The current method goes on with todo, which finds the blocks it needs.
Goes(todo) ==
  /\ Ordinary(todo) /\ status' = status /\ OrdinaryNeeds(todo)
  /\ \A i \in 1..Len(todo) : LoopTaskOK(blocks', todo[i])

OpenAfter == ~HasTerminator(blocks'[insert'])

\* y has the code of x, and more code after it.
Extends(x, y, code) == y.code = x.code \o code

\* New blocks that a method may add: block x is the new insert block.  Those
\* with PHI nodes are looked at by themselves.
NewFlowOK(new, x, n) ==
  \A i \in 1..Len(new) :
    /\ new[i].fn \in {NoParent, Top.fn}
    /\ HasTerminator(new[i]) \/ new[i].fn = NoParent \/ i = x
    /\ EndsOnce(new[i])
    /\ Plain(new[i]) \/ PhisMatch(blocks', n + i)
    /\ \A t \in Targets(new[i]) : t > n /\ t \in 1..(n + Len(new))

\* A block that the current method owes, or a block of its function that a
\* loop goes back to.
MayLeadTo(t) ==
  \/ t \in Owed(Len(work))
  \/ t \in 1..Len(blocks) /\ blocks[t].fn = Top.fn /\ ~IsEntry(t) /\ Plain(blocks[t])

LoopOps == {"loop_cond", "body_end", "loop_end", "print_main"}

\* An instruction before the code of a block.
Precedes(x, y, i) == y.code = <<i>> \o x.code

\* Where an instruction leads to.
Reaches(e, t) == \E i \in 1..Len(e.to) : e.to[i] = t

\* PHI nodes with preds are right wherever block x has these predecessors.
MatchesIn(x, preds) ==
  \A bs, b : /\ bs[b] = x
             /\ IsInjective(preds) /\ Range(preds) = Predecessors(bs, b)
             => PhisMatch(bs, b)

\* The predecessors of block t when code leads to new blocks.
ComesFrom(new, code, t) ==
  /\ insert \in Predecessors(blocks', t) <=> Reaches(code[Len(code)], t)
  /\ \A j \in 1..Len(new) :
       Len(blocks) + j \in Predecessors(blocks', t) <=> t \in Targets(new[j])
  /\ \A p \in Predecessors(blocks', t) :
       p = insert \/ \E j \in 1..Len(new) : p = Len(blocks) + j

\* The PHI node at the start of block y of x has learnt of a predecessor.
Learns(x, y, pred) ==
  /\ Len(y.code) = Len(x.code)
  /\ y.code[1] = Phi(Append(x.code[1].to, pred))
  /\ \A i \in 1..Len(x.code) : i # 1 => y.code[i] = x.code[i]

\* A function is entered: its entry block is the new insert block, its tasks are
\* put on what remains, r, of the current task.
Entered(r) ==
  /\ Len(blocks) \in Nat /\ Len(functions) \in Nat /\ Len(work) \in Nat \ {0}
  /\ blocks \in Seq(BlockSet(Len(blocks), Len(functions)))
  /\ Top = work[Len(work)]
  /\ \A k \in 1..Len(work) : TaskOK(work[k], Len(blocks), Len(functions))
  /\ \A f \in 1..Len(functions) : functions[f].entry \in 1..Len(blocks)
  /\ Len(blocks') = Len(blocks) + 1
  /\ \A c \in 1..Len(blocks) : blocks'[c] = blocks[c]
  /\ blocks'[Len(blocks) + 1] = EmptyBlock(Len(functions) + 1)
  /\ Len(functions') = Len(functions) + 1
  /\ \A f \in 1..Len(functions) : functions'[f] = functions[f]
  /\ functions'[Len(functions) + 1].entry = Len(blocks) + 1
  /\ insert' = Len(blocks) + 1
  /\ status' = "generating"
  /\ Len(work') = Len(work) + 2
  /\ \A k \in 1..(Len(work) - 1) : work'[k] = work[k]
  /\ work'[Len(work)].op = r.op /\ work'[Len(work)].fn = r.fn
  /\ work'[Len(work) + 1].op = "function_end"
  /\ work'[Len(work) + 1].fn = Len(functions) + 1
  /\ work'[Len(work) + 1].arg.saved = insert
  /\ work'[Len(work) + 2].op = "gen"
  /\ work'[Len(work) + 2].fn = Len(functions) + 1

=============================================================================
