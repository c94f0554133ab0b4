----------------------------- MODULE Expressions -----------------------------
(***************************************************************************)
(* What the code generated for a Punkt expression does to the control flow *)
(* of the function it is part of.                                          *)
(*                                                                         *)
(* GenerateCode of an expression node first generates its operands and     *)
(* then appends its own instructions, so the code of a whole expression is *)
(* a sequence of effects, in the order in which they are generated:        *)
(*   do      straight-line instructions, named by a tag                    *)
(*   check   a runtime check: a branch to a block that prints a message    *)
(*           and exits, and to the block where the code continues          *)
(*   gcd     the loop of the Euclidean algorithm, with its PHI nodes       *)
(*   lambda  a lambda expression: the code of another function             *)
(* The operators below give the effects of one operator of the language    *)
(* from the effects l, r, ... of its operands.                             *)
(***************************************************************************)
EXTENDS Sequences

Do(tag)            == [op |-> "do", tag |-> tag]
Check(message)     == [op |-> "check", tag |-> message]
Gcd                == [op |-> "gcd", tag |-> "gcd"]
Lambda(body, void) == [op |-> "lambda", tag |-> "lambda", body |-> body, void |-> void]

\* The message of a function that runs off its end.
MissingReturn == "non-void lambda does not return a value"

-----------------------------------------------------------------------------
(* Integers and floats: only the divisions are checked.                    *)

Arithmetic(l, r)    == l \o r \o <<Do("arithmetic")>>
Comparison(l, r)    == l \o r \o <<Do("compare")>>
Division(l, r)      == l \o r \o <<Check("division by 0"), Do("divide")>>
IntegerModulo(l, r) == l \o r \o <<Do("srem")>>

(* Both operands of && and || are generated in the same block: there is no *)
(* short circuit.                                                          *)
BooleanAnd(l, r) == l \o r \o <<Do("and")>>
BooleanOr(l, r)  == l \o r \o <<Do("or")>>

(* Assignment generates the target's address first and the value second.   *)
Assignment(target, value) == target \o value \o <<Do("store")>>

-----------------------------------------------------------------------------
(* Rationals.  A rational is simplified, which needs a gcd, unless it is   *)
(* an operand of another arithmetic operation.                             *)

SimplifyRational == <<Do("sign"), Gcd, Do("reduce")>>

Simplify(nested) == IF nested THEN <<>> ELSE SimplifyRational

OverOperator(l, r, nested) ==
  l \o r \o <<Check("zero denominator")>> \o Simplify(nested) \o <<Do("pack")>>

RationalArithmetic(l, r, nested) ==
  l \o <<Do("unpack")>> \o r \o <<Do("unpack"), Do("cross")>>
    \o Simplify(nested) \o <<Do("pack")>>

-----------------------------------------------------------------------------
(* Arrays.  The data pointer is loaded before the index is evaluated, the  *)
(* size after it.                                                          *)

ArrayIndexing(array, index) ==
  array \o <<Do("load data")>> \o index
    \o <<Check("negative array index"), Do("load size"),
         Check("array index out of bounds"), Do("element")>>

AllocExpression(size) ==
  size \o <<Check("negative array size"), Do("malloc"), Do("memset")>>

PopulatedArray(first, second) ==
  <<Do("malloc")>> \o first \o <<Do("store")>> \o second \o <<Do("store")>>

(* The arguments of an invocation are generated before the callee.         *)
LambdaInvocation(callee, args) == args \o callee \o <<Do("call")>>
=============================================================================
