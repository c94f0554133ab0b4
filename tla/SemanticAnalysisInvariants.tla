--------------------- MODULE SemanticAnalysisInvariants ---------------------
(***************************************************************************)
(* The inductive invariants of SemanticAnalysis and TypedGeneration, and   *)
(* the predicates on nodes and steps from which SemanticAnalysisProofs and *)
(* TypedGenerationProofs conclude that every action preserves them.        *)
(***************************************************************************)
EXTENDS TypedGeneration

-----------------------------------------------------------------------------
(* Paths.                                                                  *)

Positive == Nat \ {0}
Path     == Seq(Positive)

\* p is q or an ancestor of q.
Under(q, p) == Len(p) <= Len(q) /\ \A i \in 1..Len(p) : p[i] = q[i]

\* p and what is below it is before q in the text.
Precedes(p, q) ==
  \E k \in 1..Len(p) : k <= Len(q) /\ p[k] < q[k] /\ \A i \in 1..(k - 1) : p[i] = q[i]

-----------------------------------------------------------------------------
(* The node at a path.                                                     *)

\* at is the first nodes on the way to a path.
IsWay(at, root, p, k) ==
  at = [n \in 0..k |-> IF n = 0 THEN root ELSE at[n - 1].children[p[n]]]

KindIn(root, p) == NodeAt(root, p).kind
Arity(root, p)  == Len(NodeAt(root, p).children)

\* The paths of the nodes of a tree.
NodesOf(root) ==
  {p \in Path : \A k \in 1..Len(p) : p[k] \in 1..Len(NodeAt(root, SubSeq(p, 1, k - 1)).children)}

\* What the handlers rely on of a node that is well-formed.
Shaped(tn) ==
  LET last == Len(tn.children)
      Have(places, kinds) == \A i \in places : tn.children[i].kind \in kinds
  IN  /\ \A i \in 1..last :
           LET kind == tn.children[i].kind
           IN  /\ kind # "program"
               /\ kind = "function" => tn.kind = "program"
               /\ kind = "declaration" =>
                    tn.kind \in {"block", "while", "for"} \/ (tn.kind = "if" /\ i > 1)
      /\ tn.kind \in LeafKinds => tn.children = <<>>
      /\ tn.kind \in {"declaration", "function", "parameter"} => last = 2
      /\ tn.kind \in {"declaration", "function"} => Have({1}, {"identifier"})
      /\ tn.kind = "declaration" => Have({2}, Expressions)
      /\ tn.kind = "function" => Have({2}, {"lambda"})
      /\ tn.kind = "parameter" => Have({1}, TypeKinds) /\ Have({2}, {"identifier"})
      /\ tn.kind = "lambda" =>
           last >= 2 /\ Have(1..(last - 2), {"parameter"}) /\ Have({last - 1}, TypeKinds)
      /\ tn.kind \in {"array type", "lambda type"} => last >= 1 /\ Have(1..last, TypeKinds)
      /\ tn.kind \in {"operator", "array", "return"} => Have(1..last, Expressions)
      /\ tn.kind = "array" => last >= 1
      /\ tn.kind = "operator" => tn.token \in Operators
      /\ tn.kind = "base type" => tn.token \in BaseTypes

-----------------------------------------------------------------------------
(* The walk of a visitor.                                                  *)

Moments == {"enter", "visit", "leave"}

\* At moment m of the node p, the node s was left; it is open; it was entered.
IsLeft(s, p, m)    == Precedes(s, p) \/ (m = "leave" /\ Under(s, p) /\ s # p)
IsAround(s, p, m)    == Under(p, s) /\ (s # p \/ m = "leave")
IsEntered(s, p, m) == IsLeft(s, p, m) \/ IsAround(s, p, m)

\* What the walk from p to q does to the nodes.
Moves(root, p, m, q, n) ==
  /\ q \in NodesOf(root) /\ n \in Moments
  /\ n = "visit" => NodeAt(root, q).kind \in LeafKinds
  /\ \A s \in Path :
       /\ IsLeft(s, p, m) => IsLeft(s, q, n)
       /\ IsEntered(s, p, m) => IsEntered(s, q, n)
       /\ IsAround(s, q, n) => IsAround(s, p, m) \/ (s = p /\ m = "enter")
       /\ s \in NodesOf(root) /\ IsLeft(s, q, n) => IsLeft(s, p, m) \/ (s = p /\ m # "enter")
  /\ IsEntered(p, q, n)
  /\ m # "enter" => IsLeft(p, q, n)

-----------------------------------------------------------------------------
(* What a step does, as far as names are concerned.                        *)

\* The cursor is at a node.
WalkInv ==
  /\ tree \in Program
  /\ visitor \in {"preprocessor", "visitor"}
  /\ here \in NodesOf(tree)
  /\ cursor.moment \in Moments
  /\ cursor = Cursor(here, cursor.moment)
  /\ cursor.moment = "visit" => Kind(here) \in LeafKinds
  /\ status = "done" => visitor = "visitor" /\ cursor = Cursor(<<>>, "leave")

\* What Advance does to the walk: it goes on, begins once more, or ends.
GoesOn ==
  /\ Moves(tree, here, cursor.moment, here', cursor.moment')
  /\ cursor' = Cursor(here', cursor.moment')
  /\ UNCHANGED <<visitor, status>>

TurnsRound ==
  /\ visitor = "preprocessor" /\ visitor' = "visitor"
  /\ here = <<>> /\ cursor.moment = "leave"
  /\ here' = <<>> /\ cursor.moment' = "enter"
  /\ cursor' = Cursor(<<>>, "enter")
  /\ UNCHANGED status

Finishes ==
  /\ visitor = "visitor" /\ status' = "done"
  /\ cursor = Cursor(<<>>, "leave")
  /\ UNCHANGED <<visitor, cursor>>

\* The kinds of nodes that the preprocessor gives a type, and those that the visitor does.
WrittenKinds == TypeKinds \cup {"lambda", "parameter"}
ValueKinds   == Expressions \ {"identifier", "lambda"}

GetsType ==
  /\ cursor.moment # "enter"
  /\ Kind(here) \in IF visitor = "preprocessor" THEN WrittenKinds ELSE ValueKinds

\* Symbols and what is found of them are as they were, and a node keeps its type, or gets
\* the error type, or it is the one at the cursor, or the name of a parameter there.
SetsTypes ==
  /\ UNCHANGED <<table, entries>>
  /\ errors \subseteq errors'
  /\ \A q : \/ TypeOf(q)' \in {TypeOf(q), ErrorType}
            \/ q = here /\ GetsType
            \/ visitor = "preprocessor" /\ Kind(here) = "parameter" /\ q = Child(here, 2)

\* A scope is opened.
Opens ==
  /\ cursor.moment = "enter"
  /\ \/ visitor = "preprocessor" /\ Kind(here) = "program"
     \/ visitor = "visitor" /\ Kind(here) \in {"block", "for", "lambda"}
  /\ table' = With(table, here, <<>>)
  /\ UNCHANGED <<types, entries, errors>>

\* The identifier p is declared, with the type of the second child if it is a name in a node.
Declares(p, type) ==
  LET scope  == LocalScope(p)
      taken  == Token(p) \in DOMAIN table[scope]
      symbol == IF Kind(here) = "function" THEN "function" ELSE "variable"
  IN  /\ \E mutable :
           table' = [table EXCEPT ![scope] = Insert(@, Token(p), Entry(mutable, type, symbol))]
      /\ entries' = With(entries, p, IF taken THEN NoEntry ELSE <<scope, Token(p)>>)
      /\ errors \subseteq errors'
      /\ taken => errors' # {}
      /\ \A q : q = p => TypeOf(q)' = type
      /\ \A q : q # p => TypeOf(q)' = TypeOf(q)
      /\ Kind(here) # "identifier" => type = TypeOf(Child(here, 2))
      /\ Kind(here) = "declaration" => type # VoidType

\* The place of a name in what declares it.
IsNameIn(kind, i) ==
  \/ visitor = "preprocessor" /\ kind = "function" /\ i = 1
  \/ visitor = "visitor" /\ kind = "declaration" /\ i = 1
  \/ visitor = "visitor" /\ kind = "parameter" /\ i = 2

DeclaresName ==
  /\ cursor.moment = "leave"
  /\ \E i, type : IsNameIn(Kind(here), i) /\ Declares(Child(here, i), type)

\* A name is used: there is no symbol, or one is found.
IsUse ==
  /\ visitor = "visitor" /\ cursor.moment = "visit"
  /\ Kind(here) = "identifier"
  /\ ~IsDeclaration(here)

DeclaresUnknown ==
  /\ IsUse
  /\ Declares(here, ErrorType)
  /\ \A p : p = here => TypeOf(p)' = ErrorType
  /\ errors' # {}

Resolves ==
  LET found == FindSymbolTableEntry(here)
  IN  /\ IsUse
      /\ found # NoEntry
      /\ entries' = With(entries, here, found)
      /\ \A p : p = here => TypeOf(p)' = EntryAt(found).type
      /\ \A q : q # here => TypeOf(q)' = TypeOf(q)
      /\ UNCHANGED <<table, errors>>

\* An if-statement with a declaration as its branch is refused.
RefusesBranch ==
  visitor = "visitor" /\ cursor.moment = "leave" /\ Kind(here) = "if" /\ errors' = {} =>
    \A i \in 2..Len(Children(here)) : Kind(Child(here, i)) # "declaration"

-----------------------------------------------------------------------------
(* Scopes.                                                                 *)

ScopeKinds == {"program", "block", "for", "lambda"}

\* The visitor has a table for every scope that is open.
ScopesInv ==
  /\ \A s \in DOMAIN table :
       /\ s \in NodesOf(tree) /\ Kind(s) \in ScopeKinds
       /\ IsEntered(s, here, cursor.moment) \/ (visitor = "visitor" /\ Kind(s) = "program")
       /\ visitor = "preprocessor" => Kind(s) = "program"
  /\ <<>> \in DOMAIN table \/ (visitor = "preprocessor" /\ here = <<>> /\ cursor.moment = "enter")
  /\ visitor = "visitor" =>
       \A s \in Path : IsAround(s, here, cursor.moment) /\ Kind(s) \in ScopeKinds => s \in DOMAIN table

-----------------------------------------------------------------------------
(* Symbol tables and their entries.                                        *)

\* What is found for names, and when.
EntriesInv ==
  /\ \A q \in DOMAIN entries :
       /\ q \in NodesOf(tree) /\ Kind(q) = "identifier"
       /\ entries[q] # NoEntry => \E s \in DOMAIN table : \E name \in DOMAIN table[s] : entries[q] = <<s, name>>
  /\ \A q \in References : visitor = "visitor" /\ IsLeft(q, here, cursor.moment)
  /\ ReferencesHaveTheirEntrysType

-----------------------------------------------------------------------------
(* No branch of an if-statement is a declaration.                          *)

\* The if-statements that were left have none.
BranchesInv ==
  visitor = "visitor" /\ errors = {} =>
    \A q \in NodesOf(tree) : Kind(q) = "if" /\ IsLeft(q, here, cursor.moment) =>
      \A i \in 2..Len(Children(q)) : Kind(Child(q, i)) # "declaration"

-----------------------------------------------------------------------------
(* Names mean the nearest declaration.                                     *)

\* Of the declarations seen so far d is the nearest to p.
IsNearest(d, p) ==
  /\ InView(d, p)
  /\ entries[p] = <<ScopeOf(d), Token(d)>>
  /\ \A other \in Declarations : InView(other, p) => IsPrefix(ScopeOf(other), ScopeOf(d))

\* What is declared was left, or is a function.
DeclaredInv ==
  \A d \in Declarations :
    Kind(Parent(d)) = "function" \/ (visitor = "visitor" /\ IsLeft(Parent(d), here, cursor.moment))

\* The tables have the names that were declared in their scopes, and no others.
TablesInv ==
  errors = {} =>
    /\ \A d \in Declarations :
         /\ ScopeOf(d) \in DOMAIN table /\ Token(d) \in DOMAIN table[ScopeOf(d)]
         /\ entries[d] = <<ScopeOf(d), Token(d)>>
    /\ \A s \in DOMAIN table : \A name \in DOMAIN table[s] :
         \E d \in Declarations : ScopeOf(d) = s /\ Token(d) = name

NamesInv ==
  /\ DeclaredInv
  /\ TablesInv
  /\ errors = {} => \A p \in References : \E d \in Declarations : IsNearest(d, p)

-----------------------------------------------------------------------------
(* Types without gaps.                                                     *)

NamedTypes == {Base(b) : b \in BaseTypes}

\* What elements and results have in common with their types.
IsClosed(S) ==
  \A t \in S : /\ t \in NamedTypes \/ IsArray(t) \/ IsLambda(t)
               /\ IsArray(t) => t.array \in S
               /\ IsLambda(t) => t.result \in S

\* A type that is no null pointer and no error, nor is what it is made of.
Complete(t) == \E S : t \in S /\ IsClosed(S)

-----------------------------------------------------------------------------
(* Signatures.                                                             *)

\* What arbitrary types are bound to.
BindingsOK(b) ==
  /\ DOMAIN b = {"T", "E"}
  /\ \A v \in {"T", "E"} : b[v] = Null \/ Complete(b[v])

Plain      == {VoidType, BooleanType, CharacterType, IntegerType, FloatType, RationalType}
InputTypes == Plain \cup {T, ArrayOf(E)}

\* The signatures there are, as far as arbitrary types are concerned.
KnownSignatures ==
  {s \in [inputs : Seq(InputTypes), output : Plain \cup {E}] :
     /\ Len(s.inputs) \in {1, 2}
     /\ s.output = E => s.inputs = <<ArrayOf(E), IntegerType>>}

\* The type of an operation whose first operand has the type t.
IsTypeOf(op, t, type) ==
  /\ op \in Comparisons \cup {"!", "&&", "||"} => type = BooleanType
  /\ op = "//" => type = RationalType
  /\ op = "sizeof" => type = IntegerType
  /\ op = "=" => type = VoidType
  /\ op = "[]" => IsArray(t) /\ type = t.array
  /\ op \in {"+", "-", "*", "/", "%"} => type = t

\* The signatures of an operator: those of [] and no others give what is in an array.
SignaturesOf(op) ==
  {s \in KnownSignatures :
     /\ op = "[]" <=> s.output = E
     /\ op # "[]" => IsTypeOf(op, s.inputs[1], s.output)
     /\ op \in {"+", "-", "*", "/", "%"} => s.inputs[1] \in Plain}

\* The comparisons of a signature with types, one after the other.
IsTry(try, signature, ts, reset, k) ==
  try = [n \in 0..k |->
           IF n = 0 THEN [accepts |-> TRUE, bindings |-> reset]
           ELSE LET r == try[n - 1]
                IN  IF r.accepts THEN EquivalentTo(signature.inputs[n], ts[n], r.bindings) ELSE r]

\* The search for a signature, one after the other.
IsSearch(search, signatures, ts, b, k) ==
  search = [n \in 0..k |->
              IF n = 0 THEN [type |-> Null, bindings |-> b]
              ELSE LET r   == search[n - 1]
                       try == Accepts(signatures[n], ts, r.bindings)
                   IN  IF r.type # Null THEN r
                       ELSE [type     |-> IF try.accepts THEN OutputType(signatures[n], try.bindings)
                                          ELSE Null,
                             bindings |-> try.bindings]]

-----------------------------------------------------------------------------
(* Types are missing behind errors only.                                   *)

\* A leaf is visited, and neither entered nor left.
LeafInv == cursor.moment # "visit" => Kind(here) \notin LeafKinds

\* The nodes with a value.
IsValue(p) == Kind(p) \in Expressions /\ ~IsBeingDeclared(p) /\ ~IsParameterIdentifier(p)

\* As long as there are no errors: all types are complete, and the nodes that were left have one.
TypesInv ==
  errors = {} =>
    /\ \A p \in DOMAIN types : Complete(types[p])
    /\ \A s \in DOMAIN table : \A name \in DOMAIN table[s] : Complete(table[s][name].type)
    /\ BindingsOK(bindings)
    /\ \A p \in NodesOf(tree) : visitor = "visitor" \/ IsLeft(p, here, cursor.moment) =>
         /\ Kind(p) \in WrittenKinds => p \in DOMAIN types
         /\ Kind(p) = "parameter" => Child(p, 2) \in DOMAIN types
    /\ \A p \in NodesOf(tree) : visitor = "visitor" /\ IsLeft(p, here, cursor.moment) =>
         (IsValue(p) => p \in DOMAIN types)

\* What a step does to types.
Fills ==
  /\ DOMAIN types \subseteq DOMAIN types'
  /\ \A p \in DOMAIN types' : Complete(types'[p])
  /\ \A s \in DOMAIN table' : \A name \in DOMAIN table'[s] : Complete(table'[s][name].type)
  /\ BindingsOK(bindings')
  /\ cursor.moment # "enter" =>
       /\ visitor = "preprocessor" /\ Kind(here) \in WrittenKinds => here \in DOMAIN types'
       /\ visitor = "preprocessor" /\ Kind(here) = "parameter" => Child(here, 2) \in DOMAIN types'
       /\ visitor = "visitor" /\ IsValue(here) => here \in DOMAIN types'

-----------------------------------------------------------------------------
(* How the handlers set types.                                             *)

\* What is known when a handler is called and no error was logged, nor is.
NoErrorsYet == WalkInv /\ LeafInv /\ ScopesInv /\ TypesInv /\ errors = {} /\ errors' = {}

IsUsed(p) == Kind(p) = "identifier" /\ ~IsBeingDeclared(p) /\ ~IsParameterIdentifier(p)

\* The names that were left were looked up.
UsesInv ==
  visitor = "visitor" =>
    \A p \in NodesOf(tree) : IsUsed(p) /\ IsLeft(p, here, cursor.moment) => p \in DOMAIN entries

\* The nodes that a step without errors may give another type: the one at the cursor, and
\* names there.
GetsTyped(q) ==
  \/ q = here /\ (GetsType \/ Kind(q) = "identifier")
  \/ /\ Kind(here) \in {"function", "parameter", "declaration"}
     /\ Kind(q) = "identifier" /\ \E i \in Positive : q = Child(here, i)

\* What code generation takes for granted of a node, and of its children.
TypedNode(p) ==
  /\ Kind(p) \in {"bool", "char", "int", "float", "string"} => TypeOf(p) = Base(Kind(p))
  /\ Kind(p) = "operator" => IsTypeOf(Token(p), TypeOf(Child(p, 1)), TypeOf(p))
  /\ Kind(p) = "alloc" => IsArray(TypeOf(p))
  /\ Kind(p) = "array" => TypeOf(p) = ArrayOf(Subtype(TypeOf(p)))
  /\ Kind(p) = "declaration" =>
       /\ Child(p, 1) \in DOMAIN entries
       /\ TypeOf(Child(p, 1)) = TypeOf(Child(p, 2)) /\ TypeOf(Child(p, 1)) # VoidType
  /\ Kind(p) = "parameter" => Child(p, 2) \in DOMAIN entries
  /\ Kind(p) = "return" /\ Arity(tree, p) = 1 => TypeOf(Child(p, 1)) # VoidType

\* The nodes that were left are typed.
TypedInv ==
  errors = {} =>
    /\ \A p \in NodesOf(tree) : Kind(p) = "nop" => TypeOf(p) = Null
    /\ \A p \in NodesOf(tree) :
         Kind(p) = "lambda" /\ (visitor = "visitor" \/ IsLeft(p, here, cursor.moment)) =>
           IsLambda(TypeOf(p))
    /\ visitor = "visitor" =>
         \A p \in NodesOf(tree) : IsLeft(p, here, cursor.moment) => TypedNode(p)

\* The symbols of functions are functions, and others are variables, and a symbol has the
\* type of its declaration.
SymbolOf(d) == IF Kind(Parent(d)) = "function" THEN "function" ELSE "variable"

SymbolsInv ==
  errors = {} =>
    \A d \in Declarations :
      /\ EntryAt(entries[d]).symbol = SymbolOf(d)
      /\ EntryAt(entries[d]).type = TypeOf(d)
      /\ Kind(Parent(d)) = "function" => IsLambda(TypeOf(d))

AnalysisInv ==
  /\ WalkInv /\ LeafInv /\ ScopesInv /\ EntriesInv /\ NamesInv
  /\ TypesInv /\ TypedInv /\ UsesInv /\ SymbolsInv

-----------------------------------------------------------------------------
(* Nodes and the kinds of their children.                                  *)

\* A node of the kind k is the child i, of last, of one of the kind parent.
IsPlaced(k, i, parent, last) ==
  \/ parent = "program" /\ (k = "function" \/ (k = "main" /\ i = last))
  \/ parent = "main" /\ k = "block" /\ i = last
  \/ parent = "function" /\ ((i = 1 /\ k = "identifier") \/ (i = 2 /\ k = "lambda"))
  \/ /\ parent = "lambda"
     /\ \/ k = "parameter" /\ i <= last - 2
        \/ k \in TypeKinds /\ i < last
        \/ k = "block" /\ i = last
  \/ parent = "parameter" /\ (k \in TypeKinds \/ (k = "identifier" /\ i = 2))
  \/ parent \in {"array type", "lambda type"} /\ k \in TypeKinds
  \/ parent = "block" /\ k \in Statements
  \/ parent = "declaration" /\ ((i = 1 /\ k = "identifier") \/ (i = 2 /\ k \in Expressions))
  \/ parent \in {"if", "while"} /\ ((i = 1 /\ k \in Expressions) \/ (i > 1 /\ k \in Statements))
  \/ /\ parent = "for"
     /\ \/ i = 1 /\ k \in Expressions \cup {"declaration", "nop"}
        \/ i \in {2, 3} /\ k \in Expressions \cup {"nop"}
        \/ i = 4 /\ k = "block"
  \/ parent = "alloc" /\ ((i = 1 /\ k \in TypeKinds) \/ (i = 2 /\ k \in Expressions))
  \/ /\ parent \in {"operator", "invocation", "array", "expression", "print", "dealloc", "return"}
     /\ k \in Expressions

-----------------------------------------------------------------------------
(* The order of code generation.                                           *)

Steps == {"generate", "open", "step", "finish"}
Tasks == [path : Path, step : Steps]

\* Code is generated for the child i of q.
IsPart(root, q, i) ==
  /\ i \in 1..Arity(root, q)
  /\ KindIn(root, q) \notin TypeKinds \cup {"parameter"}
  /\ KindIn(root, q) \in {"declaration", "function", "alloc"} => i = 2
  /\ KindIn(root, q) = "lambda" => i = Arity(root, q)

\* Its place in the order in which it is generated.
Rank(root, q, i) ==
  IF KindIn(root, q) = "for" /\ i = 3 THEN 5
  ELSE IF KindIn(root, q) = "invocation" /\ i = 1 THEN Arity(root, q) + 1
  ELSE i

PartOf(root, q, i) ==
  IF KindIn(root, q) = "for" /\ i = 3 THEN Task(q, "step")
  ELSE Task(Child(q, i), IF \/ KindIn(root, q) = "for" /\ i = 4
                            \/ KindIn(root, q) \in {"if", "while"} /\ i > 1
                         THEN "open" ELSE "generate")

\* In q, u is what is generated first behind the rank r.
IsNext(root, q, r, u) ==
  \/ \E j \in 1..Arity(root, q) :
       /\ IsPart(root, q, j) /\ r < Rank(root, q, j)
       /\ \A k \in 1..Arity(root, q) :
            IsPart(root, q, k) /\ r < Rank(root, q, k) => Rank(root, q, j) <= Rank(root, q, k)
       /\ u = PartOf(root, q, j)
  \/ /\ \A k \in 1..Arity(root, q) : IsPart(root, q, k) => Rank(root, q, k) <= r
     /\ u = Task(q, "finish")

Follows(root, t, u) ==
  \/ t.step = "open" /\ u = Task(t.path, "generate")
  \/ t.step = "step" /\ u = Task(t.path, "finish")
  \/ /\ t.step \in {"generate", "finish"} /\ t.path # <<>>
     /\ IsNext(root, Parent(t.path), Rank(root, Parent(t.path), Last(t.path)), u)

\* A node that is generated behind p, and is neither below it nor above.
Later(root, x, p) ==
  \E q \in NodesOf(root) : \E i, j \in 1..Arity(root, q) :
    /\ Under(x, Child(q, i)) /\ Under(p, Child(q, j))
    /\ IsPart(root, q, j) /\ Rank(root, q, i) < Rank(root, q, j)

\* At the task t the node p was not finished.
Pending(root, t, p) ==
  \/ t.step \in {"generate", "open"} /\ Under(p, t.path)
  \/ t.step = "step" /\ Under(p, Child(t.path, 3))
  \/ Later(root, t.path, p)
  \/ Under(t.path, p)

\* At the task t the node x was entered, and not left.
IsInside(t, x) == Under(t.path, x) /\ (x # t.path \/ t.step = "finish")

\* Code is generated for p, as it is for what is around it.
IsReached(root, p) ==
  \A x \in NodesOf(root) : Under(p, x) /\ x # <<>> => IsPart(root, Parent(x), Last(x))

IsGenerated(root, t) ==
  /\ t \in Tasks /\ t.path \in NodesOf(root) /\ IsReached(root, t.path)
  /\ t.step = "step" => KindIn(root, t.path) = "for"
  /\ t.step = "open" => t.path # <<>>

\* A list of tasks, of which each follows from the one in front of it.
IsPlan(root, w) ==
  /\ w \in Seq(Tasks) /\ w # <<>>
  /\ IsGenerated(root, Head(w))
  /\ \A i \in 1..(Len(w) - 1) : Follows(root, w[i], w[i + 1])
  /\ w[Len(w)].path = <<>> /\ w[Len(w)].step \in {"generate", "finish"}

\* What a node is replaced by: its parts in their order, and its own code.
IsExpansion(root, q, e) ==
  /\ e \in Seq(Tasks) /\ e # <<>>
  /\ IsNext(root, q, 0, Head(e))
  /\ \A i \in 1..(Len(e) - 1) : Follows(root, e[i], e[i + 1])
  /\ e[Len(e)] = Task(q, "finish")

\* The children o[1] to o[m] in turn.
InTurn(root, q, e, m, o) ==
  /\ m \in Nat /\ o \in [1..m -> 1..Arity(root, q)]
  /\ Len(e) = m + 1 /\ e[m + 1] = Task(q, "finish")
  /\ \A i \in 1..m : /\ IsPart(root, q, o[i])
                     /\ e[i] = Task(Child(q, o[i]), "generate")
                     /\ e[i] = PartOf(root, q, o[i])
  /\ \A k \in 1..Arity(root, q) : IsPart(root, q, k) => \E i \in 1..m : k = o[i]
  /\ \A i, j \in 1..m : i < j => Rank(root, q, o[i]) < Rank(root, q, o[j])

-----------------------------------------------------------------------------
(* The moves of the generator.                                             *)

\* Into a node, and into the step of a for-statement.
Enters(root, t, u)  == t.step = "generate" /\ IsNext(root, t.path, 0, u)
StepsOn(root, t, u) == t.step = "step" /\ u = Task(Child(t.path, 3), "generate")
IsMove(root, t, u)  == Enters(root, t, u) \/ Follows(root, t, u) \/ StepsOn(root, t, u)

\* Where the code that is generated may be behind a return: where a block is opened, at
\* the statements of a block, and at the end of what contains statements.
Tolerant(root, t) ==
  \/ t.step \in {"open", "step"}
  \/ t.step = "generate" /\ t.path # <<>> /\ KindIn(root, Parent(t.path)) = "block"
  \/ /\ t.step = "finish"
     /\ KindIn(root, t.path) \in {"if", "while", "for", "block", "lambda", "main", "program"}

-----------------------------------------------------------------------------
(* The functions that are open.                                            *)

Frame == [function : Path, open : BOOLEAN]
Reopened(ins, yes) == [ins EXCEPT ![Len(ins)].open = yes]

\* Code would be inserted behind a terminator.
HasEnded(ins) == ins # <<>> /\ ~Last(ins).open

IsFunctionAround(root, t, x) ==
  x \in NodesOf(root) /\ KindIn(root, x) \in {"lambda", "main"} /\ IsInside(t, x)

\* The open functions are those the generator is in, from the outer to the inner.
IsStack(root, ins, t) ==
  /\ ins \in Seq(Frame)
  /\ t # Task(<<>>, "finish") =>
       /\ \A k \in 1..Len(ins) : IsFunctionAround(root, t, ins[k].function)
       /\ \A x \in NodesOf(root) :
            IsFunctionAround(root, t, x) => \E k \in 1..Len(ins) : ins[k].function = x
  /\ \A j, k \in 1..Len(ins) : j < k => Len(ins[j].function) < Len(ins[k].function)

\* What an action does at the task t that u comes behind: to the open functions ins, and to
\* the entries known, those with an alloca.
EntersNode(root, t, u, ins, ins2) ==
  /\ Enters(root, t, u) /\ KindIn(root, t.path) \notin {"lambda", "main"}
  /\ KindIn(root, t.path) \in Skipped => Last(ins).open
  /\ ins2 = ins

EntersFunction(root, ents, t, u, ins, ins2, known2) ==
  /\ Enters(root, t, u) /\ KindIn(root, t.path) \in {"lambda", "main"}
  /\ ins2 = Append(ins, [function |-> t.path, open |-> TRUE])
  /\ KindIn(root, t.path) = "lambda" =>
       \A i \in 1..(Arity(root, t.path) - 2) : ents[Child(Child(t.path, i), 2)] \in known2

EntersStep(root, t, u, ins, ins2) == StepsOn(root, t, u) /\ Last(ins).open /\ ins2 = ins

SkipsNode(root, t, u, ins, ins2) ==
  /\ Follows(root, t, u) /\ t.step = "generate" /\ KindIn(root, t.path) \in Skipped
  /\ ~Last(ins).open /\ ins2 = ins

SkipsStep(root, t, u, ins, ins2) ==
  Follows(root, t, u) /\ t.step = "step" /\ ~Last(ins).open /\ ins2 = ins

OpensBlock(root, t, u, ins, ins2) ==
  Follows(root, t, u) /\ t.step = "open" /\ ins2 = Reopened(ins, TRUE)

LeavesBranches(root, t, u, ins, ins2) ==
  /\ Follows(root, t, u) /\ t.step = "finish" /\ KindIn(root, t.path) \in {"if", "while", "for"}
  /\ ins2 = Reopened(ins, TRUE)

LeavesReturn(root, t, u, ins, ins2) ==
  /\ Follows(root, t, u) /\ t.step = "finish" /\ KindIn(root, t.path) = "return"
  /\ ins2 = Reopened(ins, FALSE)

LeavesLambda(root, t, u, ins, ins2) ==
  /\ Follows(root, t, u) /\ t.step = "finish" /\ KindIn(root, t.path) = "lambda"
  /\ ins2 = Front(ins)

LeavesNode(root, ents, t, u, ins, ins2, known2) ==
  /\ Follows(root, t, u) /\ t.step = "finish"
  /\ KindIn(root, t.path) \notin {"if", "while", "for", "return", "lambda"}
  /\ KindIn(root, t.path) = "declaration" => ents[Child(t.path, 1)] \in known2
  /\ ins2 = ins

GeneratorStep(root, ents, t, u, ins, ins2, known, known2) ==
  /\ known \subseteq known2
  /\ \/ EntersNode(root, t, u, ins, ins2) \/ EntersFunction(root, ents, t, u, ins, ins2, known2)
     \/ EntersStep(root, t, u, ins, ins2) \/ SkipsNode(root, t, u, ins, ins2)
     \/ SkipsStep(root, t, u, ins, ins2) \/ OpensBlock(root, t, u, ins, ins2)
     \/ LeavesBranches(root, t, u, ins, ins2) \/ LeavesReturn(root, t, u, ins, ins2)
     \/ LeavesLambda(root, t, u, ins, ins2) \/ LeavesNode(root, ents, t, u, ins, ins2, known2)

\* Only the innermost function has ended, and only where that is tolerated.
IsEnded(root, ins, t) ==
  /\ \A k \in 1..Len(ins) : k < Len(ins) => ins[k].open = TRUE
  /\ HasEnded(ins) => Tolerant(root, t)

-----------------------------------------------------------------------------
(* What is known, when code is generated for a name.                       *)

\* In a lambda its parameters are known.
KnowsParameters(root, ents, t, known) ==
  \A l \in NodesOf(root) : KindIn(root, l) = "lambda" /\ IsInside(t, l) =>
    \A i \in 1..(Arity(root, l) - 2) : ents[Child(Child(l, i), 2)] \in known

\* The nodes in the scope of what s declares.
InScopeOf(root, s, p) ==
  \A x \in NodesOf(root) : Under(s, x) /\ KindIn(root, x) \in ScopeKinds => Under(p, x)

\* The generator is behind a return, and on from there no block is opened before p is left out.
IsDead(root, ins, t, p) ==
  /\ HasEnded(ins) /\ t.step \in {"generate", "finish"}
  /\ \E b \in NodesOf(root) :
       /\ Under(p, b) /\ IsInside(t, b)
       /\ \A x \in NodesOf(root) : IsInside(t, x) /\ Under(x, b) => KindIn(root, x) = "block"

\* A variable is known where it may be used, or its declaration is ahead, or its use is dead.
KnowsVariables(root, ents, t, ins, known) ==
  \A s, p \in NodesOf(root) :
    KindIn(root, s) = "declaration" /\ KindIn(root, p) = "identifier" /\ InScopeOf(root, s, p)
      /\ Pending(root, t, p) =>
    ents[Child(s, 1)] \in known \/ Pending(root, t, s) \/ IsDead(root, ins, t, p)

-----------------------------------------------------------------------------
(* The actions of the generator.                                           *)

\* What an action does: it ends code generation, or moves on.
IsStopped ==
  /\ outcome' \notin {"none", "running"} /\ UNCHANGED <<work, insert, allocas>>
  /\ outcome' = "no alloca" =>
       /\ Head(work).step = "finish" /\ Kind(node) = "identifier"
       /\ EntryAt(entries[node]).symbol # "function" /\ entries[node] \notin DOMAIN allocas

Moved ==
  /\ outcome' = outcome /\ IsPlan(tree, work')
  /\ GeneratorStep(tree, entries, Head(work), Head(work'), insert, insert', DOMAIN allocas, DOMAIN allocas')

-----------------------------------------------------------------------------
(* Names of variables have their allocas.                                  *)

IsReady(root, ents, t, ins, known) ==
  /\ IsStack(root, ins, t)
  /\ IsEnded(root, ins, t)
  /\ KnowsParameters(root, ents, t, known)
  /\ KnowsVariables(root, ents, t, ins, known)

\* What is left to do is a plan, and the generator is ready for the next task of it.
GenerationInv ==
  /\ outcome # "no alloca"
  /\ outcome = "none" => insert = <<>>
  /\ outcome # "none" =>
       Accepted /\ IsPlan(tree, work) /\ IsReady(tree, entries, Head(work), insert, DOMAIN allocas)

-----------------------------------------------------------------------------
(* Values have their types, and failures their causes.                     *)

\* Of what the generator is in, the expressions that are behind it have values.
HaveValues(root, t, known) ==
  \A q \in NodesOf(root) : \A i \in 1..Arity(root, q) :
    /\ IsPart(root, q, i) /\ KindIn(root, q) # "for" /\ KindIn(root, Child(q, i)) \in Expressions
    /\ IsInside(t, q) /\ ~Pending(root, t, Child(q, i))
    => Child(q, i) \in known

\* The functions whose lambdas were entered are known.
KnowsFunctions(root, ents, t, known) ==
  \A x \in NodesOf(root) :
    KindIn(root, x) = "function" /\ (IsInside(t, Child(x, 2)) \/ ~Pending(root, t, Child(x, 2)))
    => ents[Child(x, 1)] \in known

\* A value of the LLVM type of a type, if it is no narrow boolean.
Represents(value, type) ==
  value = LLVMType(type) \/ (value = "i1" /\ type = BooleanType /\ RationalComparisons)

IsTypedValue(p, value) ==
  /\ value = NullValue => EarlyUses
  /\ TypeOf(p) \notin {Null, VoidType} /\ ~IsTarget(p) /\ value # NullValue =>
       Represents(value, TypeOf(p))

IsTypedAlloca(e, alloca) ==
  /\ Represents(alloca.type, EntryAt(e).type)
  /\ \E d \in Declarations : entries[d] = e /\ alloca.function = EnclosingFunction(d)

Causes == Captures \/ RationalComparisons \/ EarlyUses \/ VoidElements \/ VoidArguments

ValueInv ==
  /\ outcome = "none" => values = <<>> /\ allocas = <<>> /\ functions = {} /\ faulty = {}
  /\ outcome # "none" =>
       /\ HaveValues(tree, Head(work), DOMAIN values)
       /\ KnowsFunctions(tree, entries, Head(work), functions)
       /\ \A p \in DOMAIN values : IsTypedValue(p, values[p])
       /\ \A e \in DOMAIN allocas : IsTypedAlloca(e, allocas[e])
       /\ faulty # {} => Causes
  /\ FailuresHaveTheirCause

\* What is known while code is generated.
Generating == AnalysisInv /\ GenerationInv /\ ValueInv /\ outcome = "running"

=============================================================================
