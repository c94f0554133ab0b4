----------------------------- MODULE ReturnPaths -----------------------------
(***************************************************************************)
(* DoAllControlPathsReturn: the check by which the semantic analyzer       *)
(* accepts the body of a lambda whose return type is not void.             *)
(***************************************************************************)
EXTENDS Naturals, Sequences

RECURSIVE BlockReturns(_, _), IfReturns(_)

\* A path of an if-statement: a code block, an if-statement, or one statement.
PathReturns(s) ==
  CASE s.kind = "block" -> BlockReturns(s.body, 1)
    [] s.kind = "if"    -> IfReturns(s)
    [] OTHER            -> s.kind = "return"

\* Mutant: one of the two paths is enough.
IfReturnsOnSomePath(s) ==
  IF s.else = <<>> THEN PathReturns(s.then)
  ELSE PathReturns(s.then) \/ PathReturns(s.else[1])

\* IfStatementNode::DoAllControlPathsReturn
IfReturns(s) ==
  IF s.else = <<>> THEN PathReturns(s.then)
  ELSE PathReturns(s.then) /\ PathReturns(s.else[1])

\* CodeBlockNode::DoAllControlPathsReturn, from statement i on.
BlockReturns(body, i) ==
  /\ i <= Len(body)
  /\ \/ body[i].kind = "return"
     \/ IF i = Len(body) /\ body[i].kind = "block" THEN BlockReturns(body[i].body, 1)
        ELSE IF i = Len(body) /\ body[i].kind = "if" THEN IfReturns(body[i])
        ELSE BlockReturns(body, i + 1)

DoAllControlPathsReturn(block) == BlockReturns(block.body, 1)
=============================================================================
