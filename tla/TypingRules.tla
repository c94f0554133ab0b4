---------------------------- MODULE TypingRules -----------------------------
(***************************************************************************)
(* The language's typing rules: which trees are programs, and the type of  *)
(* an expression, from the tree and an environment alone.  An environment  *)
(* maps the names in view to their types, and knows which of them may be   *)
(* assigned to and which belong to the innermost scope.  Nothing here      *)
(* visits, records or reports.                                             *)
(***************************************************************************)
EXTENDS Trees, Signatures

\* What has no type, and the environment behind a statement that is not well-typed.
Ill == [ill |-> "ill-typed"]

Env(type, mutable, local) == [type |-> type, mutable |-> mutable, local |-> local]

\* The environment with one more name in the innermost scope.
Extend(env, name, type, mutable) ==
  IF name \in env.local \/ type \in {Ill, VoidType} THEN Ill
  ELSE Env(With(env.type, name, type),
           IF mutable THEN env.mutable \cup {name} ELSE env.mutable \ {name},
           env.local \cup {name})

\* Inside a scope of its own, and behind it.
Inside(env)        == IF env = Ill THEN Ill ELSE [env EXCEPT !.local = {}]
Behind(env, inner) == IF inner = Ill THEN Ill ELSE env

-----------------------------------------------------------------------------
Arithmetic == {IntegerType, FloatType, RationalType}
Ordered    == Arithmetic \cup {CharacterType}

\* The type of an operation on operands of the given types.
OperationType(op, ts) ==
  LET both == Len(ts) = 2 /\ ts[1] = ts[Len(ts)]
  IN  CASE op \in {"+", "-"} /\ (both \/ Len(ts) = 1) /\ ts[1] \in Arithmetic -> ts[1]
        [] op \in {"*", "/"} /\ both /\ ts[1] \in Arithmetic -> ts[1]
        [] op = "%" /\ ts = <<IntegerType, IntegerType>> -> IntegerType
        [] op = "//" /\ ts = <<IntegerType, IntegerType>> -> RationalType
        [] op \in {"==", "!="} /\ both /\ ts[1] \in Ordered \cup {BooleanType} -> BooleanType
        [] op \in {">", "<", ">=", "<="} /\ both /\ ts[1] \in Ordered -> BooleanType
        [] op = "!" /\ ts = <<BooleanType>> -> BooleanType
        [] op \in {"&&", "||"} /\ ts = <<BooleanType, BooleanType>> -> BooleanType
        [] op = "[]" /\ Len(ts) = 2 /\ IsArray(ts[1]) /\ ts[2] = IntegerType -> ts[1].array
        [] op = "sizeof" /\ Len(ts) = 1 /\ IsArray(ts[1]) -> IntegerType
        [] op = "=" /\ both -> VoidType
        [] OTHER -> Ill

Assignable(node, env) ==
  \/ node.kind = "identifier" /\ node.token \in env.mutable
  \/ node.kind = "operator" /\ node.token = "[]"

RECURSIVE Denotes(_), TypeIn(_, _), Follows(_, _, _), LambdaTyping(_, _)

\* The type that a type node writes down.
Denotes(node) ==
  LET parts == [i \in 1..Len(node.children) |-> Denotes(node.children[i])]
  IN  CASE node.kind = "base type" -> Base(node.token)
        [] node.kind = "array type" ->
             IF parts[1] \in {Ill, VoidType} THEN Ill ELSE ArrayOf(parts[1])
        [] node.kind = "lambda type" ->
             IF \E i \in 1..Len(parts) : parts[i] = Ill THEN Ill
             ELSE LambdaOf(Front(parts), Last(parts))

\* The type of an expression, or Ill.
TypeIn(node, env) ==
  LET kids == node.children
      ts   == [i \in 1..Len(kids) |-> TypeIn(kids[i], env)]
      ill  == \E i \in 1..Len(kids) : ts[i] = Ill
  IN  CASE node.kind = "identifier" ->
             IF node.token \in DOMAIN env.type THEN env.type[node.token] ELSE Ill
        [] node.kind = "lambda" -> LambdaTyping(node, env)
        [] node.kind = "alloc" ->
             IF IsArray(Denotes(kids[1])) /\ TypeIn(kids[2], env) = IntegerType
             THEN Denotes(kids[1]) ELSE Ill
        [] node.kind = "operator" ->
             IF ill \/ (node.token = "=" /\ ~Assignable(kids[1], env)) THEN Ill
             ELSE OperationType(node.token, ts)
        [] node.kind = "invocation" ->
             IF ~ill /\ IsLambda(ts[1]) /\ ts[1].parameters = Tail(ts)
             THEN ts[1].result ELSE Ill
        [] node.kind = "array" ->
             IF ~ill /\ \A i \in 1..Len(ts) : ts[i] = ts[1] THEN ArrayOf(ts[1]) ELSE Ill
        [] OTHER -> Base(node.kind)

\* The environment behind the first n of the statements, in a function with the result.
RECURSIVE Sequence(_, _, _, _)
Sequence(stmts, n, env, result) ==
  IF n = 0 \/ env = Ill THEN env
  ELSE LET before == Sequence(stmts, n - 1, env, result)
       IN  IF before = Ill THEN Ill ELSE Follows(stmts[n], before, result)

\* The environment behind one statement.  A statement that is no block has no scope.
Follows(node, env, result) ==
  LET kids == node.children
      Type(i) == TypeIn(kids[i], env)
      Only(condition) == IF condition THEN env ELSE Ill
  IN  CASE node.kind = "block" ->
             Behind(env, Sequence(kids, Len(kids), Inside(env), result))
        [] node.kind = "declaration" ->
             Extend(env, kids[1].token, Type(2), node.token = "var")
        [] node.kind = "if" ->
             IF Type(1) = BooleanType /\ \A i \in 2..Len(kids) : kids[i].kind # "declaration"
             THEN Sequence(Tail(kids), Len(kids) - 1, env, result) ELSE Ill
        [] node.kind = "while" ->
             IF Type(1) = BooleanType THEN Follows(kids[2], env, result) ELSE Ill
        [] node.kind = "for" ->
             LET first == Follows(kids[1], Inside(env), result)
             IN  IF /\ first # Ill
                    /\ TypeIn(kids[2], first) = BooleanType
                    /\ Follows(kids[3], first, result) # Ill
                 THEN Behind(env, Follows(kids[4], first, result)) ELSE Ill
        [] node.kind = "print" -> Only(\A i \in 1..Len(kids) : Type(i) \notin {Ill, VoidType})
        [] node.kind = "dealloc" -> Only(IsArray(Type(1)))
        [] node.kind = "return" ->
             Only(IF result = VoidType THEN kids = <<>>
                  ELSE Len(kids) = 1 /\ Type(1) = result)
        [] node.kind = "nop" -> env
        [] node.kind = "expression" -> Only(Type(1) # Ill)
        [] OTHER -> Only(TypeIn(node, env) # Ill)

\* The parameters are in a scope of their own; the block sees everything around it.
LambdaTyping(node, env) ==
  LET n == Len(node.children) - 2
      parameters == [i \in 1..n |-> Denotes(node.children[i].children[1])]
      result == Denotes(node.children[n + 1])
      body == FoldLeft(LAMBDA e, i : IF e = Ill THEN Ill
                         ELSE Extend(e, node.children[i].children[2].token, parameters[i], TRUE),
                       Inside(env), [i \in 1..n |-> i])
  IN  IF \/ result = Ill \/ body = Ill
         \/ Follows(node.children[n + 2], body, result) = Ill
         \/ result # VoidType /\ ~DoAllControlPathsReturn(node, <<n + 2>>)
      THEN Ill
      ELSE LambdaOf(parameters, result)

\* The type of a lambda from what is written at its beginning.
Heading(node) ==
  LET n == Len(node.children) - 2
  IN  LambdaOf([i \in 1..n |-> Denotes(node.children[i].children[1])],
               Denotes(node.children[n + 1]))

WellTyped(program) ==
  LET kids == program.children
      functions == SubSeq(kids, 1, Len(kids) - 1)
      Name(f) == f.children[1].token
      globals == FoldLeft(LAMBDA e, f : IF e = Ill THEN Ill
                            ELSE Extend(e, Name(f), Heading(f.children[2]), FALSE),
                          Env(<<>>, {}, {}), functions)
  IN  /\ globals # Ill
      /\ \A i \in 1..Len(functions) : TypeIn(functions[i].children[2], globals) # Ill
      /\ Follows(Last(kids).children[1], globals, VoidType) # Ill
=============================================================================
