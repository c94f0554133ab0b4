------------------------------ MODULE Programs ------------------------------
(***************************************************************************)
(* Statement trees, and the small sets of programs the model checker uses. *)
(***************************************************************************)
EXTENDS Naturals, Sequences, SequencesExt, Expressions

Expression(e)    == [kind |-> "expression", expr |-> e]
Declaration(x,e) == [kind |-> "declaration", var |-> x, expr |-> e]
Dealloc(e)       == [kind |-> "dealloc", expr |-> e]
Println(args)    == [kind |-> "print", args |-> args, ln |-> TRUE]
Arg(e, depth)    == [expr |-> e, depth |-> depth]
Return(e)        == [kind |-> "return", expr |-> e]
CodeBlock(body)  == [kind |-> "block", body |-> body]
If(e, s, else)   == [kind |-> "if", expr |-> e, then |-> s, else |-> else]
While(e, s)      == [kind |-> "while", expr |-> e, body |-> s]
For(i, e, st, s) == [kind |-> "for", init |-> i, expr |-> e, step |-> st, body |-> s]

Main(body)      == [kind |-> "main", body |-> body]
Fun(kind, body) == [kind |-> kind, body |-> body]

A == <<Do("a")>>
B == <<Do("b")>>
C == <<Do("c")>>

Blocks(S) == {CodeBlock(body) : body \in BoundedSeq(S, 2)}

\* The if, while and for statements with condition e and parts from S.
Compound(e, S) ==
  {If(e, s, <<>>) : s \in S} \cup {If(e, s, <<t>>) : s \in S, t \in S}
    \cup {While(e, s) : s \in S} \cup {For(Declaration("x", A), e, A, s) : s \in S}

-----------------------------------------------------------------------------
(* Control flow: two levels of nesting, in every kind of function.         *)

Leaf   == {Expression(A), Return(<<>>)}
Level0 == Leaf \cup Blocks(Leaf)
Level1 == Level0 \cup Compound(B, Level0)
Body   == {CodeBlock(<<s, t>>) : s \in Level1, t \in {Expression(C), Return(<<>>)}}
            \cup {CodeBlock(<<s>>) : s \in Level1}

ControlProgram == {<<Fun("nonvoid", b), Main(CodeBlock(<<>>))>> : b \in Body}
                    \cup {<<Main(b)>> : b \in Body}

-----------------------------------------------------------------------------
(* Expressions with blocks of their own, in every place of a statement.    *)

Rational == OverOperator(A, B, FALSE)
Operands == {A, Division(A, B), Rational, ArrayIndexing(B, Division(A, B)),
             AllocExpression(Rational)}

Closure(body, void) == Lambda(CodeBlock(body), void)
Lambdas == {<<Closure(<<If(Rational, Return(A), <<>>)>>, FALSE)>>,
            LambdaInvocation(<<Closure(<<While(B, Return(<<>>))>>, TRUE)>>, Rational),
            <<Closure(<<Expression(<<Closure(<<Return(A)>>, FALSE)>>), Return(B)>>, FALSE)>>}

Exprs == Operands \cup Lambdas

\* Every other operator, with a check or a gcd loop between its operands' code and its own.
Straight == {Arithmetic(Division(A, B), C), Comparison(A, Rational), IntegerModulo(A, Division(B, C)),
             BooleanAnd(Comparison(A, B), Comparison(C, Rational)),
             BooleanOr(Comparison(A, Rational), B),
             Assignment(ArrayIndexing(A, B), Division(B, C)),
             Assignment(A, RationalArithmetic(B, OverOperator(B, C, TRUE), FALSE)),
             RationalArithmetic(RationalArithmetic(A, B, TRUE), OverOperator(B, C, TRUE), FALSE),
             PopulatedArray(PopulatedArray(A, Rational), PopulatedArray(Rational, B))}

Simple(e) == {Expression(e), Return(e), Declaration("x", e), Dealloc(e)}
               \cup {Println(<<Arg(e, 0), Arg(A, d)>>) : d \in 0..2}

Controlled(e, f) ==
  {If(e, Return(f), <<Expression(f)>>), While(e, Expression(f)),
   For(Declaration("i", e), f, Rational, CodeBlock(<<Expression(e)>>))}

ExprStatements == UNION {Simple(e) : e \in Exprs \cup Straight}
                    \cup UNION {Controlled(e, A) : e \in Straight}
                    \cup UNION {Controlled(e, f) : e \in Exprs, f \in Exprs}

ExprProgram == {<<Fun("void", CodeBlock(<<s>>)), Main(CodeBlock(<<Expression(A)>>))>> :
                  s \in ExprStatements}

-----------------------------------------------------------------------------
Programs == {p : p \in ControlProgram \cup ExprProgram}

\* The statement trees of all programs: a tree has at most seven levels.
CodeChildren(e) == {e[i].body : i \in {j \in DOMAIN e : e[j].op = "lambda"}}

Children(s) ==
  CASE s.kind = "print" -> UNION {CodeChildren(s.args[i].expr) : i \in DOMAIN s.args}
    [] s.kind = "block" -> Range(s.body)
    [] s.kind = "if"    -> CodeChildren(s.expr) \cup {s.then} \cup Range(s.else)
    [] s.kind = "while" -> CodeChildren(s.expr) \cup {s.body}
    [] s.kind = "for"   -> CodeChildren(s.expr) \cup CodeChildren(s.step) \cup {s.init, s.body}
    [] OTHER            -> CodeChildren(s.expr)

Descend(S) == UNION {{s} \cup Children(s) : s \in S}
Bodies     == UNION {{p[i].body : i \in DOMAIN p} : p \in Programs}
Statements == Descend(Descend(Descend(Descend(Descend(Descend(Bodies))))))

ExpressionsOf(s) ==
  CASE s.kind = "print" -> {s.args[i].expr : i \in DOMAIN s.args}
    [] s.kind = "block" -> {}
    [] s.kind = "for"   -> {s.expr, s.step}
    [] OTHER            -> {s.expr}
Effects == UNION {UNION {Range(e) : e \in ExpressionsOf(s)} : s \in Statements}
=============================================================================
