-------------------------- MODULE SemanticAnalysis --------------------------
(***************************************************************************)
(* The semantic analyzer: two visitors that walk the tree one after the    *)
(* other.  The preprocessor infers the types that are written down and     *)
(* declares the functions, the visitor declares variables, resolves names  *)
(* and infers the types of expressions.  An action is one call of a        *)
(* visitor.  An error is logged where it is found and the walk goes on; an *)
(* error type keeps it from being reported once more.  The analyzer        *)
(* crashes when it follows the type of a node that has none.               *)
(***************************************************************************)
EXTENDS Trees, Signatures

CONSTANTS
  Program,     \* the trees the parser hands over
  Subtrees(_)  \* the subtrees of a tree, and the tree itself

TypeKinds == {"base type", "array type", "lambda type"}

Statements == {"block", "declaration", "expression", "if", "while", "for", "dealloc", "return",
               "print"}

Kinds == LeafKinds \cup TypeKinds \cup Expressions \cup Statements
           \cup {"program", "function", "main", "parameter"}

UnaryOperators == {"!", "+", "-", "sizeof"}

BaseTypes == {"void", "bool", "char", "int", "float", "rat", "string"}

\* What the parser puts where.
WellFormed(node) ==
  LET last == Len(node.children)
      Are(places, kinds) == \A i \in places : node.children[i].kind \in kinds
  IN  /\ node.kind \in Kinds
      /\ node.kind \in LeafKinds => node.children = <<>>
      /\ node.kind = "program" =>
           last >= 1 /\ Are(1..(last - 1), {"function"}) /\ Are({last}, {"main"})
      /\ node.kind = "main" => last = 1 /\ Are({1}, {"block"})
      /\ node.kind = "function" => last = 2 /\ Are({1}, {"identifier"}) /\ Are({2}, {"lambda"})
      /\ node.kind = "lambda" =>
           /\ last >= 2 /\ Are(1..(last - 2), {"parameter"})
           /\ Are({last - 1}, TypeKinds) /\ Are({last}, {"block"})
      /\ node.kind = "parameter" => last = 2 /\ Are({1}, TypeKinds) /\ Are({2}, {"identifier"})
      /\ node.kind \in {"array type", "lambda type"} => last >= 1 /\ Are(1..last, TypeKinds)
      /\ node.kind = "block" => Are(1..last, Statements)
      /\ node.kind = "declaration" =>
           last = 2 /\ Are({1}, {"identifier"}) /\ Are({2}, Expressions)
      /\ node.kind = "if" => last \in {2, 3} /\ Are({1}, Expressions) /\ Are(2..last, Statements)
      /\ node.kind = "while" => last = 2 /\ Are({1}, Expressions) /\ Are({2}, Statements)
      /\ node.kind = "for" =>
           /\ last = 4 /\ Are({1}, Expressions \cup {"declaration", "nop"}) /\ Are({2}, Expressions)
           /\ Are({3}, Expressions \cup {"nop"}) /\ Are({4}, {"block"})
      /\ node.kind = "alloc" => last = 2 /\ Are({1}, TypeKinds) /\ Are({2}, Expressions)
      /\ node.kind \in {"operator", "invocation", "array", "expression", "print", "dealloc", "return"} =>
           Are(1..last, Expressions)
      /\ node.kind \in {"operator", "invocation", "array", "print"} => last >= 1
      /\ node.kind \in {"expression", "dealloc"} => last = 1
      /\ node.kind = "return" => last <= 1
      /\ node.kind = "operator" =>
           \/ last = 1 /\ node.token \in UnaryOperators
           \/ last = 2 /\ node.token \in Operators \ {"!", "sizeof"}
      /\ node.kind = "base type" => node.token \in BaseTypes

ASSUME ProgramAssumption ==
  \A root \in Program :
    LET nodes == Subtrees(root)
    IN  /\ root \in nodes
        /\ root.kind = "program"
        /\ \A node \in nodes : node.children \in Seq(nodes) /\ WellFormed(node)

VARIABLES
  tree,      \* the root
  visitor,   \* preprocessor or visitor
  cursor,    \* the call of the visitor that is next
  types,     \* the types of the nodes that have one
  table,     \* the nodes with a scope, each with its symbol table
  entries,   \* for identifiers: the scope and name of their symbol table entry
  bindings,  \* what the signatures' arbitrary types are set to
  errors,    \* the errors logged, each with its node
  status     \* running, done or crashed

vars == <<tree, visitor, cursor, types, table, entries, bindings, errors, status>>

here       == cursor.path
Kind(p)    == NodeAt(tree, p).kind
Token(p)   == NodeAt(tree, p).token
Children(p) == [i \in 1..Len(NodeAt(tree, p).children) |-> Child(p, i)]
TypeOf(p)  == IF p \in DOMAIN types THEN types[p] ELSE Null
TypesOf(ps) == [i \in 1..Len(ps) |-> TypeOf(ps[i])]

\* The parts of a lambda: its parameters, its return type and its block.
ParametersOf(p) == SubSeq(Children(p), 1, Len(Children(p)) - 2)
ReturnTypeOf(p) == Children(p)[Len(Children(p)) - 1]
BlockOf(p)      == Last(Children(p))

-----------------------------------------------------------------------------
(* Scopes and symbol tables.                                               *)

Entry(mutable, type, symbol) == [mutable |-> mutable, type |-> type, symbol |-> symbol]
NoEntry == <<>>

\* ParseNode::GetLocalScope
LocalScope(p) == Innermost(PathToRoot(p) \cap DOMAIN table)

Declaring(p, name) == {s \in PathToRoot(p) \cap DOMAIN table : name \in DOMAIN table[s]}

\* Mutant: the search begins at the global scope.
FindOutermostEntry(p) ==
  IF Declaring(p, Token(p)) = {} THEN NoEntry
  ELSE <<CHOOSE s \in Declaring(p, Token(p)) : \A t \in Declaring(p, Token(p)) : Len(s) <= Len(t),
         Token(p)>>

\* IdentifierNode::FindSymbolTableEntry
FindSymbolTableEntry(p) ==
  IF Declaring(p, Token(p)) = {} THEN NoEntry
  ELSE <<Innermost(Declaring(p, Token(p))), Token(p)>>

EntryAt(e) == table[e[1]][e[2]]

\* Mutant: a symbol that is declared again is replaced.
InsertOrReplace(symbols, name, entry) == With(symbols, name, entry)

\* SymbolTable::Insert
Insert(symbols, name, entry) ==
  IF name \in DOMAIN symbols THEN symbols ELSE With(symbols, name, entry)

-----------------------------------------------------------------------------
(* What a call of a visitor does.                                          *)

Init ==
  /\ tree \in Program
  /\ visitor = "preprocessor"
  /\ cursor = Start(tree, <<>>)
  /\ types = <<>>
  /\ table = <<>>
  /\ entries = <<>>
  /\ bindings = Unbound
  /\ errors = {}
  /\ status = "running"

At(v, kinds, moment) ==
  /\ status = "running"
  /\ visitor = v
  /\ cursor.moment = moment
  /\ Kind(here) \in kinds

\* SemanticAnalyzer::BeginSemanticAnalysis, and Accept of the nodes
Advance ==
  /\ IF cursor # Cursor(<<>>, "leave")
     THEN cursor' = Following(tree, cursor) /\ UNCHANGED <<visitor, status>>
     ELSE IF visitor = "preprocessor"
     THEN cursor' = Start(tree, <<>>) /\ visitor' = "visitor" /\ UNCHANGED status
     ELSE status' = "done" /\ UNCHANGED <<cursor, visitor>>
  /\ UNCHANGED tree

Crash ==
  /\ status' = "crashed"
  /\ UNCHANGED <<tree, visitor, cursor, types, table, entries, bindings, errors>>

Pass == Advance /\ UNCHANGED <<types, table, entries, bindings, errors>>

\* ParseNode::SetType, with no error.
Infer(p, type) ==
  /\ types' = With(types, p, type)
  /\ Advance
  /\ UNCHANGED <<table, entries, bindings, errors>>

\* Mutant: nothing is logged.
RefuseSilently(p, what) == Infer(p, ErrorType)

\* The error handlers: PunktLogger::LogCompileError, and the error type.
Refuse(p, what) ==
  /\ errors' = errors \cup {<<p, what>>}
  /\ types' = With(types, p, ErrorType)
  /\ Advance
  /\ UNCHANGED <<table, entries, bindings>>

\* Checks in their order, of which the first that fails is reported.
Check(wrong, p, what) == [wrong |-> wrong, at |-> p, what |-> what]
Fails(checks)  == \E i \in 1..Len(checks) : checks[i].wrong
Verdict(checks) ==
  LET i == CHOOSE i \in 1..Len(checks) : checks[i].wrong /\ \A j \in 1..(i-1) : ~checks[j].wrong
  IN  Refuse(checks[i].at, checks[i].what)

Examine(checks, type) ==
  \/ Fails(checks) /\ Verdict(checks)
  \/ ~Fails(checks) /\ (IF type = Null THEN Pass ELSE Infer(here, type))

OpenScope ==
  /\ table' = With(table, here, <<>>)
  /\ Advance
  /\ UNCHANGED <<types, entries, bindings, errors>>

\* DeclareInLocalScope, behind types were set and errors logged.  The identifier p
\* keeps the entry, or none when there is a symbol of that name.
Declare(p, entry, newTypes, newErrors) ==
  LET scope == LocalScope(p)
      taken == Token(p) \in DOMAIN table[scope]
  IN  /\ table'   = [table EXCEPT ![scope] = Insert(@, Token(p), entry)]
      /\ entries' = With(entries, p, IF taken THEN NoEntry ELSE <<scope, Token(p)>>)
      /\ errors'  = newErrors \cup (IF taken THEN {<<p, "redefinition">>} ELSE {})
      /\ types'   = newTypes
      /\ Advance
      /\ UNCHANGED bindings

-----------------------------------------------------------------------------
(* SemanticAnalysisPreprocessor                                            *)

EnterProgram == At("preprocessor", {"program"}, "enter") /\ OpenScope

VisitBaseType ==
  At("preprocessor", {"base type"}, "visit") /\ Infer(here, Base(Token(here)))

LeaveArrayType ==
  LET subtype == TypeOf(Child(here, 1))
  IN  /\ At("preprocessor", {"array type"}, "leave")
      /\ Examine(<<Check(subtype = VoidType, here, "void elements")>>,
                 IF subtype = ErrorType THEN ErrorType ELSE ArrayOf(subtype))

\* The last child is the return type.
LeaveLambdaType ==
  LET parts == TypesOf(Children(here))
  IN  /\ At("preprocessor", {"lambda type"}, "leave")
      /\ Infer(here, IF \E i \in 1..Len(parts) : parts[i] = ErrorType THEN ErrorType
                     ELSE LambdaOf(Front(parts), Last(parts)))

LeaveLambdaParameter ==
  LET type == TypeOf(Child(here, 1))
  IN  /\ At("preprocessor", {"parameter"}, "leave")
      /\ \/ type = VoidType /\ Refuse(Child(here, 1), "void parameter")
         \/ /\ type # VoidType
            /\ types' = With(With(types, here, type), Child(here, 2), type)
            /\ Advance
            /\ UNCHANGED <<table, entries, bindings, errors>>

LeaveLambda ==
  LET parameters == TypesOf(ParametersOf(here))
  IN  /\ At("preprocessor", {"lambda"}, "leave")
      /\ \/ (\E i \in 1..Len(parameters) : parameters[i] = Null) /\ Crash
         \/ /\ \A i \in 1..Len(parameters) : parameters[i] # Null
            /\ Infer(here, LambdaOf(parameters, TypeOf(ReturnTypeOf(here))))

LeaveFunctionDefinition ==
  LET identifier == Child(here, 1)
      type == TypeOf(Child(here, 2))
  IN  /\ At("preprocessor", {"function"}, "leave")
      /\ Declare(identifier, Entry(FALSE, type, "function"),
                 With(types, identifier, type), errors)

-----------------------------------------------------------------------------
(* SemanticAnalysisVisitor                                                 *)

EnterScope ==
  At("visitor", {"block", "for", "lambda"}, "enter") /\ OpenScope

IsBeingDeclared(p) == Last(p) = 1 /\ Kind(Parent(p)) \in {"declaration", "function"}
IsParameterIdentifier(p) == Kind(Parent(p)) = "parameter"

VisitIdentifier ==
  LET found == FindSymbolTableEntry(here)
  IN  /\ At("visitor", {"identifier"}, "visit")
      /\ \/ (IsBeingDeclared(here) \/ IsParameterIdentifier(here)) /\ Pass
         \/ /\ ~IsBeingDeclared(here) /\ ~IsParameterIdentifier(here)
            /\ \/ /\ found = NoEntry
                  /\ Declare(here, Entry(FALSE, ErrorType, "variable"), With(types, here, ErrorType),
                             errors \cup {<<here, "undefined">>})
               \/ /\ found # NoEntry
                  /\ types' = With(types, here, EntryAt(found).type)
                  /\ entries' = With(entries, here, found)
                  /\ Advance
                  /\ UNCHANGED <<table, bindings, errors>>

VisitLiteral ==
  /\ At("visitor", {"bool", "char", "int", "float", "string"}, "visit")
  /\ Infer(here, Base(Kind(here)))

LeaveParameter ==
  /\ At("visitor", {"parameter"}, "leave")
  /\ Declare(Child(here, 2), Entry(TRUE, TypeOf(Child(here, 2)), "variable"), types, errors)

LeaveDeclaration ==
  LET type == TypeOf(Child(here, 2))
  IN  /\ At("visitor", {"declaration"}, "leave")
      /\ \/ type = Null /\ Crash
         \/ type = VoidType /\ Refuse(here, "void declaration")
         \/ /\ type \notin {Null, VoidType}
            /\ Declare(Child(here, 1), Entry(Token(here) = "var", type, "variable"),
                       With(types, Child(here, 1), type), errors)

\* The first operand without a type is followed, the first of an error type ends
\* the analysis of the operator.
Unknown(operands) == {i \in 1..Len(operands) : operands[i] \in {Null, ErrorType}}
FirstUnknown(operands) ==
  operands[CHOOSE i \in Unknown(operands) : \A j \in Unknown(operands) : i <= j]

TargetChecks(target) ==
  <<Check(Kind(target) = "identifier" /\ ~EntryAt(entries[target]).mutable,
          target, "assignment to immutable variable"),
    Check(Kind(target) # "identifier" /\ ~(Kind(target) = "operator" /\ Token(target) = "[]"),
          here, "not targettable")>>

LeaveOperator ==
  LET operands == TypesOf(Children(here))
      target   == IF Token(here) = "=" THEN TargetChecks(Child(here, 1)) ELSE <<>>
      found    == AcceptingSignature(Token(here), operands, bindings)
  IN  /\ At("visitor", {"operator"}, "leave")
      /\ \/ /\ Unknown(operands) # {}
            /\ IF FirstUnknown(operands) = Null THEN Crash ELSE Infer(here, ErrorType)
         \/ Unknown(operands) = {} /\ Fails(target) /\ Verdict(target)
         \/ /\ Unknown(operands) = {} /\ ~Fails(target)
            /\ bindings' = found.bindings
            /\ types' = With(types, here, IF found.type = Null THEN ErrorType ELSE found.type)
            /\ errors' = errors \cup (IF found.type = Null THEN {<<here, "operand types">>} ELSE {})
            /\ Advance
            /\ UNCHANGED <<table, entries>>

LeaveLambdaInvocation ==
  LET callee == TypeOf(Child(here, 1))
      arguments == TypesOf(Tail(Children(here)))
  IN  /\ At("visitor", {"invocation"}, "leave")
      /\ Examine(<<Check(~IsLambda(callee), here, "not a lambda"),
                   Check(IsLambda(callee) /\ callee.parameters # arguments, here, "arguments")>>,
                 IF IsLambda(callee) THEN callee.result ELSE Null)

LeaveLambdaBody ==
  /\ At("visitor", {"lambda"}, "leave")
  /\ Examine(<<Check(/\ TypeOf(here).result # VoidType
                     /\ ~DoAllControlPathsReturn(tree, BlockOf(here)), here, "no return")>>, Null)

LeaveAlloc ==
  LET type == TypeOf(Child(here, 1))
  IN  /\ At("visitor", {"alloc"}, "leave")
      /\ Examine(<<Check(~IsArray(type), here, "not an array"),
                   Check(Subtype(type) = VoidType, here, "void elements"),
                   Check(TypeOf(Child(here, 2)) # IntegerType, here, "size")>>, type)

LeavePopulatedArray ==
  LET elements == TypesOf(Children(here))
  IN  /\ At("visitor", {"array"}, "leave")
      /\ IF elements[1] = Null THEN Crash
         ELSE Examine(<<Check(\E i \in 1..Len(elements) : elements[i] # elements[1],
                              here, "mixed elements")>>, ArrayOf(elements[1]))

ConditionOf(p) == IF Kind(p) = "for" THEN Child(p, 2) ELSE Child(p, 1)

\* Mutant: a branch may be a declaration.
NoBranchChecks == <<>>

BranchChecks ==
  LET branches == IF Kind(here) = "if" THEN Tail(Children(here)) ELSE <<>>
  IN  [i \in 1..Len(branches) |->
        Check(Kind(branches[i]) = "declaration", branches[i], "declaration as a branch")]

LeaveConditional ==
  /\ At("visitor", {"if", "while", "for"}, "leave")
  /\ Examine(<<Check(TypeOf(ConditionOf(here)) # BooleanType, here, "condition")>> \o BranchChecks, Null)

LeavePrint ==
  LET values == TypesOf(Children(here))
  IN  /\ At("visitor", {"print"}, "leave")
      /\ Examine(<<Check(\E i \in 1..Len(values) : values[i] = VoidType, here, "printing void")>>, Null)

LeaveDealloc ==
  /\ At("visitor", {"dealloc"}, "leave")
  /\ Examine(<<Check(~IsArray(TypeOf(Child(here, 1))), here, "not an array")>>, Null)

\* ReturnStatementNode::GetEnclosingFunctionNode
EnclosingFunction(p) ==
  Innermost({q \in PathToRoot(p) : Kind(q) \in {"lambda", "main"}})

LeaveReturn ==
  LET function == EnclosingFunction(here)
      values   == TypesOf(Children(here))
      result   == IF Kind(function) = "main" THEN VoidType ELSE TypeOf(ReturnTypeOf(function))
  IN  /\ At("visitor", {"return"}, "leave")
      /\ IF result # VoidType /\ values = <<Null>> THEN Crash
         ELSE Examine(<<Check(result = VoidType /\ values # <<>>, here, "value from void"),
                        Check(result # VoidType /\ values # <<result>>, here, "return type")>>, Null)

-----------------------------------------------------------------------------
\* The calls that do nothing.
Handled ==
  [preprocessor |->
     [enter |-> {"program"}, visit |-> {"base type"},
      leave |-> {"array type", "lambda type", "parameter", "lambda", "function"}],
   visitor |->
     [enter |-> {"block", "for", "lambda"},
      visit |-> {"identifier", "bool", "char", "int", "float", "string"},
      leave |-> {"parameter", "declaration", "operator", "invocation", "lambda", "alloc", "array",
                 "if", "while", "for", "print", "dealloc", "return"}]]

Skip ==
  /\ status = "running"
  /\ Kind(here) \notin Handled[visitor][cursor.moment]
  /\ Pass

Preprocess ==
  \/ EnterProgram
  \/ VisitBaseType
  \/ LeaveArrayType
  \/ LeaveLambdaType
  \/ LeaveLambdaParameter
  \/ LeaveLambda
  \/ LeaveFunctionDefinition

Visit ==
  \/ EnterScope
  \/ VisitIdentifier
  \/ VisitLiteral
  \/ LeaveParameter
  \/ LeaveDeclaration
  \/ LeaveOperator
  \/ LeaveLambdaInvocation
  \/ LeaveLambdaBody
  \/ LeaveAlloc
  \/ LeavePopulatedArray
  \/ LeaveConditional
  \/ LeavePrint
  \/ LeaveDealloc
  \/ LeaveReturn

Next == Preprocess \/ Visit \/ Skip

Spec == Init /\ [][Next]_vars /\ WF_vars(Next)

-----------------------------------------------------------------------------
Accepted == status = "done" /\ errors = {}

IsDeclaration(p) == IsBeingDeclared(p) \/ (IsParameterIdentifier(p) /\ Last(p) = 2)
References   == {p \in DOMAIN entries : ~IsDeclaration(p)}
Declarations == {p \in DOMAIN entries : IsDeclaration(p)}

\* The part of the text in which a declaration may be meant, by the grammar alone.
ScopeOf(d) == Innermost({q \in PathToRoot(d) : Kind(q) \in {"program", "block", "for", "lambda"}})

Before(p, q) ==
  \E k \in 1..Len(p) : k <= Len(q) /\ p[k] < q[k] /\ SubSeq(p, 1, k-1) = SubSeq(q, 1, k-1)

InView(d, p) ==
  /\ Token(d) = Token(p)
  /\ IsPrefix(ScopeOf(d), p)
  /\ Before(Parent(d), p) \/ Kind(Parent(d)) = "function"

(* In a program that is accepted a name means the nearest of the            *)
(* declarations that enclose it: of a function anywhere, of a variable or  *)
(* a parameter in the text before it.                                      *)
NamesMeanTheNearestDeclaration ==
  Accepted => \A p \in References : \E d \in Declarations :
    /\ InView(d, p)
    /\ entries[p] = <<ScopeOf(d), Token(d)>>
    /\ \A other \in Declarations : InView(other, p) => IsPrefix(ScopeOf(other), ScopeOf(d))

(* What an identifier was taken for when it was visited is what its symbol *)
(* table entry says ever after: no later declaration changes it.           *)
ReferencesHaveTheirEntrysType ==
  \A p \in References : entries[p] # NoEntry =>
    TypeOf(p) \in {EntryAt(entries[p]).type, ErrorType}

\* A correct program is analyzed to the end: types are missing behind errors only.
CrashesOnlyBehindErrors == status = "crashed" => errors # {}

\* Where a declaration is, what refers to it runs behind it or not at all.
RunsBefore(d) == Kind(Parent(d)) # "declaration" \/ Kind(Parent(Parent(d))) \in {"block", "for"}

(* The comment at the check of an if-statement's paths: no variable can be *)
(* used "despite it potentially not ever being initialized".               *)
AcceptedVariablesAreInitialized ==
  Accepted => \A p \in References, d \in Declarations :
    entries[p] = entries[d] => RunsBefore(d)

(* Only the body of a while-statement can be a declaration that is in view *)
(* behind it and never runs; no path of an if-statement is.                *)
UninitializedOnlyBehindLoops ==
  Accepted => \A p \in References, d \in Declarations :
    entries[p] = entries[d] => RunsBefore(d) \/ Kind(Parent(Parent(d))) = "while"

(* The error handlers exist so that a program with errors is reported: the *)
(* analyzer does not crash on one.                                         *)
AnalysisReportsErrors == status # "crashed"
=============================================================================
