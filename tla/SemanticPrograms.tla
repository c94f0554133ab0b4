-------------------------- MODULE SemanticPrograms --------------------------
(***************************************************************************)
(* Small sets of parse trees for the passes behind the parser.             *)
(***************************************************************************)
EXTENDS Trees

Leaf(kind, token) == Node(kind, token, <<>>)
Id(name)      == Leaf("identifier", name)
TypeName(t)   == Leaf("base type", t)
ArrayType(t)  == Node("array type", "", <<t>>)
LambdaType(ts) == Node("lambda type", "", ts)

True  == Leaf("bool", "")
One   == Leaf("int", "")
Half  == Leaf("float", "")
Op(op, operands)     == Node("operator", op, operands)
Assign(target, e)    == Op("=", <<target, e>>)
Call(parts)          == Node("invocation", "", parts)
Array(es)            == Node("array", "", es)
Alloc(t, e)          == Node("alloc", "", <<t, e>>)
Lambda(ps, t, body)  == Node("lambda", "", ps \o <<t, Node("block", "", body)>>)
Parameter(t, name)   == Node("parameter", "", <<t, Id(name)>>)

Declaration(how, name, e) == Node("declaration", how, <<Id(name), e>>)
Var(name, e)     == Declaration("var", name, e)
Const(name, e)   == Declaration("const", name, e)
Do(e)            == Node("expression", "", <<e>>)
Println(es)        == Node("print", "", es)
Dealloc(e)       == Node("dealloc", "", <<e>>)
Return(es)       == Node("return", "", es)
Block(stmts)     == Node("block", "", stmts)
If(parts)        == Node("if", "", parts)
While(e, s)      == Node("while", "", <<e, s>>)
For(i, e, st, b) == Node("for", "", <<i, e, st, Block(b)>>)
Nop              == Leaf("nop", "")

Function(name, lambda) == Node("function", "", <<Id(name), lambda>>)
Program_(functions, stmts) ==
  Node("program", "", functions \o <<Node("main", "", <<Block(stmts)>>)>>)

-----------------------------------------------------------------------------
(* Types: an operation on every pair of operands, a declared variable, and *)
(* what uses it.                                                           *)

Atoms == {True, One, Half, Leaf("char", ""), Leaf("string", ""), Op("//", <<One, One>>)}

SomeOperators == {"+", "*", "%", "==", ">", "!", "&&", "[]", "sizeof"}

Operations ==
  {Op(op, <<a, b>>) : op \in SomeOperators \ {"!", "sizeof"}, a, b \in Atoms \cup {Array(<<One>>)}}
    \cup {Op(op, <<a>>) : op \in {"+", "!", "sizeof"}, a \in Atoms \cup {Array(<<One>>)}}

AboutOperations == {Program_(<<>>, <<Do(e)>>) : e \in Operations}

Identity == Lambda(<<Parameter(TypeName("int"), "a")>>, TypeName("int"), <<Return(<<Id("a")>>)>>)
Nothing  == Lambda(<<>>, TypeName("void"), <<>>)
Values == {One, True, Identity, Nothing, Array(<<One>>), Array(<<One, Half>>),
           Array(<<Array(<<One>>)>>), Call(<<Nothing>>), Array(<<Call(<<Nothing>>)>>),
           Alloc(ArrayType(TypeName("int")), One), Alloc(TypeName("int"), One),
           Alloc(ArrayType(TypeName("void")), One), Alloc(ArrayType(TypeName("int")), True),
           Call(<<Identity, One>>), Call(<<Identity, True>>), Call(<<Identity>>), Call(<<One>>),
           Op("+", <<Id("z"), One>>)}

X == Id("x")
Uses == {Do(X), Println(<<X, One>>), Dealloc(X), Do(Assign(X, One)), Do(Assign(X, True)),
         Do(Assign(Op("[]", <<X, One>>), One)), Do(Assign(Op("[]", <<X, One>>), Array(<<One>>))),
         Do(Assign(Op("+", <<X, One>>), One)), Do(Assign(One, X)), Do(Assign(X, X)),
         Do(Op("+", <<X, One>>)), Do(Call(<<X>>)), Do(Call(<<X, One>>)),
         If(<<X, Block(<<>>)>>), While(X, Block(<<>>)), For(Nop, X, Nop, <<>>),
         For(Assign(X, One), True, Assign(X, One), <<>>), Do(Array(<<X, One>>)), Return(<<>>),
         Return(<<X>>), Var("y", Assign(X, One)), Println(<<Assign(X, One)>>),
         Do(Op("+", <<Assign(X, One), One>>)), Do(Array(<<Assign(X, One)>>)),
         Do(Call(<<Identity, Assign(X, One)>>))}

AboutValues == {Program_(<<>>, <<Declaration(how, "x", v), use>>) :
                  how \in {"var", "const"}, v \in Values, use \in Uses}

\* Two uses of the operators that take any type, one behind the other.
Arbitraries ==
  {Do(Op("sizeof", <<a>>)) : a \in {Array(<<One>>), Array(<<True>>)}}
    \cup {Do(Op("[]", <<a, One>>)) : a \in {Array(<<One>>), Array(<<True>>), One}}
    \cup {Do(Assign(X, One)), Do(Assign(Id("y"), True)), Do(Assign(X, True)),
          Do(Assign(Op("[]", <<Array(<<True>>), One>>), True))}

AboutArbitraryTypes == {Program_(<<>>, <<Var("x", One), Var("y", True), s, t>>) :
                          s \in Arbitraries, t \in Arbitraries}

-----------------------------------------------------------------------------
(* Scopes: what some statements declare, and where it is in view.     *)

Simple == {Var("x", One), Const("x", True), Do(Assign(X, One)), Do(Op("!", <<X>>)),
           Do(Op("+", <<X, One>>))}
Nested == {Block(<<s, t>>) : s \in {Var("x", X), Var("x", True), Const("x", One)}, t \in Simple}
            \cup {While(True, s) : s \in Simple}
            \cup {If(<<True, s>>) : s \in Simple}
            \cup {If(<<True, While(True, Var("x", One)), s>>) : s \in Simple}
            \cup {For(Var("x", One), True, Assign(X, One), <<s>>) : s \in Simple}
            \cup {Do(Lambda(<<Parameter(TypeName("int"), "x")>>, TypeName("void"), <<s>>)) :
                    s \in Simple}
            \cup {Do(Lambda(<<Parameter(TypeName("bool"), "y")>>, TypeName("void"), <<s>>)) :
                    s \in Simple}

AboutScopes == {Program_(<<>>, <<s, t, u>>) : s \in Simple, t \in Nested, u \in Simple}
                 \cup {Program_(<<>>, <<s, t>>) : s \in Nested, t \in Nested}

-----------------------------------------------------------------------------
(* Functions: what they declare, take and return, before and behind their  *)
(* own definition.                                                         *)

F == Id("f")
ParameterTypes == {TypeName("int"), TypeName("void"), ArrayType(TypeName("int")),
                   ArrayType(TypeName("void")), LambdaType(<<TypeName("int"), TypeName("void")>>)}
Parameters == {<<>>} \cup {<<Parameter(t, "x")>> : t \in ParameterTypes}
                \cup {<<Parameter(TypeName("int"), "x"), Parameter(TypeName("int"), name)>> :
                        name \in {"x", "y"}}
Bodies == {<<>>, <<Return(<<>>)>>, <<Return(<<X>>)>>, <<Return(<<F>>)>>,
           <<Var("x", One), Return(<<X>>)>>, <<Do(Call(<<F, One>>)), Return(<<One>>)>>,
           <<If(<<True, Return(<<One>>)>>)>>, <<If(<<True, Return(<<One>>), Return(<<True>>)>>)>>,
           <<Const("y", One), Return(<<Assign(Id("y"), One)>>)>>,
           <<Do(Call(<<Id("g")>>)), Return(<<One>>)>>}
Functions == {Function("f", Lambda(ps, TypeName(t), body)) :
                ps \in Parameters, t \in {"int", "void", "bool"}, body \in Bodies}
Mains == {<<>>, <<Do(Call(<<F, One>>))>>, <<Var("f", Call(<<F, One>>)), Do(Assign(F, One))>>}
Procedure(name) == Function(name, Nothing)

AboutFunctions == {Program_(<<f, Procedure(g)>>, main) : f \in Functions, g \in {"f", "g"},
                                                        main \in Mains}

-----------------------------------------------------------------------------
(* Values: comparisons of all types where a boolean goes, code behind a    *)
(* return, lambdas that use what is around them, functions that use later  *)
(* ones, arguments of the type void.                                       *)

Comparing == {Op(op, <<a, a>>) : op \in {"==", ">"}, a \in Atoms \ {True, Leaf("string", "")}}
               \cup {Op("==", <<True, True>>)}

TakesBoolean == Lambda(<<Parameter(TypeName("bool"), "a")>>, TypeName("void"), <<>>)
BooleanBodies(b) ==
  {<<Return(<<b>>)>>, <<Return(<<Op("!", <<b>>)>>)>>, <<Var("x", b), Return(<<X>>)>>,
   <<Var("x", True), Do(Assign(X, b)), Return(<<X>>)>>, <<If(<<b, Return(<<True>>), Return(<<b>>)>>)>>,
   <<Do(Call(<<TakesBoolean, b>>)), Return(<<True>>)>>,
   <<For(Nop, b, Nop, <<Println(<<b>>)>>), Return(<<True>>)>>,
   <<Return(<<Op("[]", <<Array(<<b>>), One>>)>>)>>}

AboutBooleans == {Program_(<<Function("f", Lambda(<<>>, TypeName("bool"), body))>>, <<>>) :
                    body \in UNION {BooleanBodies(b) : b \in Comparing}}

UseOfX == {Println(<<X>>), Do(Assign(X, One)), Return(<<>>)}
Dead == {Block(<<Return(<<>>), Var("x", One), s>>) : s \in UseOfX}
          \cup {If(<<True, Block(<<Return(<<>>), Var("x", One), s>>), Return(<<>>)>>) : s \in UseOfX}
          \cup {If(<<True, Block(<<Var("x", One), s>>), Return(<<>>)>>) : s \in UseOfX}
          \cup {If(<<True, Block(<<Return(<<>>), Var("x", One), s>>)>>) : s \in UseOfX}
          \cup {While(True, s) : s \in {Var("x", One), Return(<<>>)}}
          \cup {For(Var("x", One), True, Assign(X, One), <<s, t>>) : s, t \in UseOfX}

AboutDeadCode == {Program_(<<>>, <<s, t, Var("x", One), Println(<<X>>)>>) : s, t \in Dead}

Reaching == {Do(Lambda(ps, TypeName("void"), <<s>>)) :
               ps \in {<<>>, <<Parameter(TypeName("int"), "x")>>}, s \in UseOfX}
              \cup {Do(Lambda(<<>>, TypeName("void"), <<Var("x", One), s>>)) : s \in UseOfX}

AboutCaptures == {Program_(<<>>, <<Var("x", One), s, t>>) : s, t \in Reaching}

G == Id("g")
Callback == LambdaType(<<TypeName("void")>>)
TakesFunction == Lambda(<<Parameter(Callback, "a")>>, TypeName("void"), <<Do(Call(<<Id("a")>>))>>)
UsesOfG == {<<Do(Call(<<G>>))>>, <<Do(G)>>, <<Println(<<G>>)>>, <<Var("h", G), Do(Call(<<Id("h")>>))>>,
            <<Do(Call(<<TakesFunction, G>>))>>, <<Do(Array(<<G>>))>>,
            <<Var("h", Nothing), Do(Assign(Id("h"), G))>>}

AboutDefinitions ==
  UNION {{Program_(<<f, Procedure("g")>>, <<>>), Program_(<<Procedure("g"), f>>, <<>>)} :
           f \in {Function("f", Lambda(<<>>, TypeName("void"), body)) : body \in UsesOfG}
                   \cup {Function("f", Lambda(<<>>, Callback, <<Return(<<G>>)>>))}}

\* Arguments of the type void, which a lambda type may have for a parameter.
TakesVoid == LambdaType(<<TypeName("void"), TypeName("void")>>)

AboutVoid ==
  {Program_(<<>>, <<Do(Lambda(<<Parameter(TakesVoid, "a")>>, TypeName("void"),
                              <<Var("x", One), Do(Call(<<Id("a"), e>>))>>))>>) :
     e \in {Call(<<Nothing>>), Assign(X, One), One}}

ValuePrograms ==
  AboutBooleans \cup AboutDeadCode \cup AboutCaptures \cup AboutDefinitions \cup AboutVoid

SemanticPrograms ==
  AboutOperations \cup AboutValues \cup AboutArbitraryTypes \cup AboutScopes \cup AboutFunctions
    \cup ValuePrograms
=============================================================================
