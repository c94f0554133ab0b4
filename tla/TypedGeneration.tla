--------------------------- MODULE TypedGeneration ---------------------------
(***************************************************************************)
(* Code generation for the trees that the semantic analyzer accepts, as    *)
(* far as values, stack variables and functions are concerned.             *)
(*                                                                         *)
(* The analyzer gives nodes types and symbol table entries; the generator  *)
(* gives them values and fills the entries in: with the alloca of a        *)
(* variable, with the llvm::Function of a function.  It relies on what was *)
(* analyzed, checks little, and has every function verified by LLVM.  A    *)
(* value is abstracted to its LLVM type, and a function to the question    *)
(* whether the verifier will refuse it.                                    *)
(***************************************************************************)
EXTENDS SemanticAnalysis

VARIABLES
  work,      \* what is left to do, the next first
  insert,    \* the functions that are open, the innermost last, and whether the block
             \* that code is inserted into has no terminator
  values,    \* the LLVM types of the values that were generated for nodes
  allocas,   \* for entries of variables: the function and the LLVM type of the alloca
  functions, \* the entries with an llvm::Function
  faulty,    \* the functions with an instruction that the verifier refuses
  outcome    \* none, running, generated, invalid, crashed or no alloca

generated == <<work, insert, values, allocas, functions, faulty, outcome>>
allVars   == <<vars, generated>>

\* GetLLVMType
LLVMType(type) ==
  IF IsArray(type) \/ IsLambda(type) THEN "ptr"
  ELSE [void |-> "void", bool |-> "i8", char |-> "i8", int |-> "i64", float |-> "double",
        rat |-> "i128", string |-> "ptr"][type.base]

\* What a GenerateCode that returns nullptr gives: a function without its llvm::Function.
NullValue == "null"

-----------------------------------------------------------------------------
(* The order of code generation.                                           *)

Task(p, step) == [path |-> p, step |-> step]
Generate(ps)  == [i \in 1..Len(ps) |-> Task(ps[i], "generate")]

\* Code of p goes to a block that was just created.
Branch(p) == <<Task(p, "open"), Task(p, "generate")>>

\* The arguments come before the callee, and the step of a for-statement behind its body.
Parts(p) ==
  LET c == Children(p)
  IN  CASE Kind(p) = "invocation" -> Generate(Tail(c)) \o Generate(<<Head(c)>>)
        [] Kind(p) \in {"declaration", "function", "alloc"} -> Generate(<<c[2]>>)
        [] Kind(p) = "lambda"     -> Generate(<<Last(c)>>)
        [] Kind(p) = "for"        -> Generate(<<c[1], c[2]>>) \o Branch(c[4]) \o <<Task(p, "step")>>
        [] Kind(p) = "while"      -> Generate(<<c[1]>>) \o Branch(c[2])
        [] Kind(p) = "if"         -> Generate(<<c[1]>>) \o Branch(c[2])
                                       \o (IF Len(c) = 3 THEN Branch(c[3]) ELSE <<>>)
        [] OTHER                  -> Generate(c)

node    == Head(work).path
IsOpen  == Last(insert).open
Current == Last(insert).function
Opened(yes) == [insert EXCEPT ![Len(insert)].open = yes]
Alloca(function, type) == [function |-> function, type |-> type]

Doing(step) == outcome = "running" /\ Head(work).step = step

\* Mutant: a declaration behind a return is skipped and what follows it is not.
SkippingDeclarations == {"declaration"}

\* The statements that are left out when IsPreviousInstructionBlockTerminator.
Skipped == {"expression", "dealloc", "declaration", "for", "if", "print", "return", "while"}

EnterNode ==
  /\ Doing("generate")
  /\ Kind(node) \notin {"lambda", "main"}
  /\ work' = (IF Kind(node) \in Skipped /\ ~IsOpen THEN <<>>
              ELSE Parts(node) \o <<Task(node, "finish")>>) \o Tail(work)
  /\ UNCHANGED <<insert, values, allocas, functions, faulty, outcome>>

\* The entry block, with an alloca for every parameter; a function is known to its own body.
EnterFunction ==
  LET isMain == Kind(node) = "main"
      identifiers == IF isMain THEN {} ELSE {Child(p, 2) : p \in Range(ParametersOf(node))}
      Parameter(e) == CHOOSE p \in identifiers : entries[p] = e
      parameters  == {entries[p] : p \in identifiers}
  IN  /\ Doing("generate")
      /\ Kind(node) \in {"lambda", "main"}
      /\ insert' = Append(insert, [function |-> node, open |-> TRUE])
      /\ allocas' = [e \in DOMAIN allocas \cup parameters |->
                       IF e \in parameters THEN Alloca(node, LLVMType(TypeOf(Parameter(e))))
                       ELSE allocas[e]]
      /\ functions' = functions \cup (IF ~isMain /\ Kind(Parent(node)) = "function"
                                      THEN {entries[Child(Parent(node), 1)]} ELSE {})
      /\ work' = Parts(node) \o <<Task(node, "finish")>> \o Tail(work)
      /\ UNCHANGED <<values, faulty, outcome>>

OpenBlock ==
  /\ Doing("open")
  /\ insert' = Opened(TRUE)
  /\ work' = Tail(work)
  /\ UNCHANGED <<values, allocas, functions, faulty, outcome>>

\* The step is generated when the body has not ended in a terminator.
GenerateStep ==
  /\ Doing("step")
  /\ work' = (IF IsOpen THEN Generate(<<Child(node, 3)>>) ELSE <<>>) \o Tail(work)
  /\ UNCHANGED <<insert, values, allocas, functions, faulty, outcome>>

-----------------------------------------------------------------------------
(* Expressions.                                                            *)

ValueOf(i)  == values[Child(node, i)]
TypeOfChild(i) == TypeOf(Child(node, i))
HasNull(ps) == \E i \in 1..Len(ps) : values[ps[i]] = NullValue

Finishing(kinds) == Doing("finish") /\ Kind(node) \in kinds

Stop(how) ==
  /\ outcome' = how
  /\ UNCHANGED <<work, insert, values, allocas, functions, faulty>>

\* The value of the node; bad when the verifier will refuse its instruction.
Yield(value, bad) ==
  /\ values' = With(values, node, value)
  /\ faulty' = faulty \cup (IF bad THEN {Current} ELSE {})
  /\ work' = Tail(work)
  /\ UNCHANGED <<insert, allocas, functions, outcome>>

FinishConstant ==
  /\ Finishing({"bool", "char", "int", "float", "string", "nop"})
  /\ Yield(IF Kind(node) = "nop" THEN "i8" ELSE LLVMType(Base(Kind(node))), FALSE)

\* IsAssignmentTarget
IsTarget(p) ==
  Last(p) = 1 /\ Kind(Parent(p)) = "operator" /\ Token(Parent(p)) = "="

\* An instruction may refer to allocas of its own function only.
FinishIdentifier ==
  LET e == entries[node]
  IN  /\ Finishing({"identifier"})
      /\ \/ /\ EntryAt(e).symbol = "function"
            /\ Yield(IF e \in functions THEN "ptr" ELSE NullValue, FALSE)
         \/ /\ EntryAt(e).symbol # "function" /\ e \notin DOMAIN allocas
            /\ Stop("no alloca")
         \/ /\ EntryAt(e).symbol # "function" /\ e \in DOMAIN allocas
            /\ Yield(IF IsTarget(node) THEN "ptr" ELSE allocas[e].type,
                     allocas[e].function # Current)

Comparisons == {"==", "!=", ">", "<", ">=", "<="}

\* Mutant: the comparisons of characters are not extended.
NarrowComparison(operand) == IF operand \in {RationalType, CharacterType} THEN "i1" ELSE "i8"

\* The comparisons extend their result to the type of a boolean, those of rationals do not.
ComparisonValue(operand) == IF operand = RationalType THEN "i1" ELSE "i8"

\* Mutant: an indexing is the address of the element wherever it is.
AddressOfElement(p, type) == "ptr"

ElementOrAddress(p, type) == IF IsTarget(p) THEN "ptr" ELSE LLVMType(type)

OperatorValue ==
  CASE Token(node) \in Comparisons      -> ComparisonValue(TypeOfChild(1))
    [] Token(node) \in {"!", "&&", "||"} -> "i8"
    [] Token(node) = "//"               -> "i128"
    [] Token(node) = "sizeof"           -> "i64"
    [] Token(node) = "="                -> ValueOf(2)
    [] Token(node) = "[]"               -> ElementOrAddress(node, Subtype(TypeOfChild(1)))
    [] OTHER                            -> ValueOf(1)

FinishOperator ==
  /\ Finishing({"operator"})
  /\ IF HasNull(Children(node)) THEN Stop("crashed") ELSE Yield(OperatorValue, FALSE)

\* The arguments are values of the types that the function has for its parameters.  A
\* lambda type may have parameters of the type void, of which no type or value is defined.
FinishLambdaInvocation ==
  LET arguments == 2..Len(Children(node))
      hasVoid   == \E i \in arguments : TypeOfChild(i) = VoidType
  IN  /\ Finishing({"invocation"})
      /\ \/ (hasVoid \/ HasNull(Children(node))) /\ Stop("crashed")
         \/ /\ ~HasNull(Children(node))
            /\ Yield(LLVMType(TypeOf(node)),
                     hasVoid \/ \E i \in arguments : ValueOf(i) # LLVMType(TypeOfChild(i)))

FinishAlloc == Finishing({"alloc"}) /\ Yield("ptr", FALSE)

\* The null value of void, which elements of the type void are, is undefined.
FinishPopulatedArray ==
  LET isVoid == Subtype(TypeOf(node)) = VoidType
  IN  /\ Finishing({"array"})
      /\ \/ (isVoid \/ HasNull(Children(node))) /\ Stop("crashed")
         \/ ~HasNull(Children(node)) /\ Yield("ptr", isVoid)

-----------------------------------------------------------------------------
(* Statements and functions.                                               *)

FinishDeclaration ==
  /\ Finishing({"declaration"})
  /\ \/ ValueOf(2) = NullValue /\ Stop("crashed")
     \/ /\ ValueOf(2) # NullValue
        /\ allocas' = With(allocas, entries[Child(node, 1)], Alloca(Current, ValueOf(2)))
        /\ work' = Tail(work)
        /\ UNCHANGED <<insert, values, functions, faulty, outcome>>

\* The code behind the statement goes to its last block, ifcont or afterloop.
FinishConditional ==
  /\ Finishing({"if", "while", "for"})
  /\ insert' = Opened(TRUE)
  /\ work' = Tail(work)
  /\ UNCHANGED <<values, allocas, functions, faulty, outcome>>

\* A null return value makes a return of void.
FinishReturn ==
  LET isBad == Children(node) # <<>> /\ ValueOf(1) # LLVMType(TypeOfChild(1))
  IN  /\ Finishing({"return"})
      /\ faulty' = faulty \cup (IF isBad THEN {Current} ELSE {})
      /\ insert' = Opened(FALSE)
      /\ work' = Tail(work)
      /\ UNCHANGED <<values, allocas, functions, outcome>>

FinishOther ==
  /\ Finishing({"expression", "print", "dealloc", "block", "function"})
  /\ work' = Tail(work)
  /\ UNCHANGED <<insert, values, allocas, functions, faulty, outcome>>

\* verifyFunction; then code is inserted where it was before the lambda.
FinishLambda ==
  /\ Finishing({"lambda"})
  /\ \/ Current \in faulty /\ Stop("invalid")
     \/ /\ Current \notin faulty
        /\ insert' = Front(insert)
        /\ values' = With(values, node, "ptr")
        /\ work' = Tail(work)
        /\ UNCHANGED <<allocas, functions, faulty, outcome>>

FinishMain ==
  /\ Finishing({"main"})
  /\ \/ Current \in faulty /\ Stop("invalid")
     \/ /\ Current \notin faulty
        /\ work' = Tail(work)
        /\ UNCHANGED <<insert, values, allocas, functions, faulty, outcome>>

\* verifyModule
FinishProgram ==
  /\ Finishing({"program"})
  /\ Stop(IF faulty = {} THEN "generated" ELSE "invalid")

Begin ==
  /\ Accepted
  /\ outcome = "none"
  /\ outcome' = "running"
  /\ work' = Generate(<< <<>> >>)
  /\ UNCHANGED <<insert, values, allocas, functions, faulty>>

GenerateCode ==
  \/ Begin \/ EnterNode \/ EnterFunction \/ OpenBlock \/ GenerateStep
  \/ FinishConstant \/ FinishIdentifier \/ FinishOperator \/ FinishLambdaInvocation
  \/ FinishAlloc \/ FinishPopulatedArray \/ FinishDeclaration \/ FinishConditional
  \/ FinishReturn \/ FinishOther \/ FinishLambda \/ FinishMain \/ FinishProgram

\* The driver goes on to code generation when no error was logged.
Finished ==
  /\ status # "running"
  /\ Accepted => outcome \notin {"none", "running"}
  /\ UNCHANGED allVars

CompileInit ==
  /\ Init
  /\ work = <<>>
  /\ insert = <<>>
  /\ values = <<>>
  /\ allocas = <<>>
  /\ functions = {}
  /\ faulty = {}
  /\ outcome = "none"

CompileNext ==
  \/ Next /\ UNCHANGED generated
  \/ GenerateCode /\ UNCHANGED vars
  \/ Finished

CompileSpec == CompileInit /\ [][CompileNext]_allVars

-----------------------------------------------------------------------------
\* What the analyzer leaves for programs that fail behind it.

VariableReferences == {p \in References : EntryAt(entries[p]).symbol = "variable"}

\* A lambda that uses a variable of the function around it.
Captures == \E p \in VariableReferences : \E d \in Declarations :
  entries[d] = entries[p] /\ EnclosingFunction(d) # EnclosingFunction(p)

\* A function that is used in the text of an earlier one.
EarlyUses == \E p \in References \ VariableReferences : \E d \in Declarations :
  entries[d] = entries[p] /\ Head(p) < Head(d)

OfKind(kinds) == {p \in DOMAIN types : Kind(p) \in kinds}

RationalComparisons == \E p \in OfKind({"operator"}) :
  Token(p) \in Comparisons /\ TypeOf(Child(p, 1)) = RationalType

VoidElements == \E p \in OfKind({"array"}) : TypeOf(p) = ArrayOf(VoidType)

VoidArguments == \E p \in OfKind({"invocation"}) : \E i \in 2..Len(Children(p)) :
  TypeOf(Child(p, i)) = VoidType

(* When code generation is reached, what it needs is there: it fails only  *)
(* for what nobody checks, a lambda that captures, a function that is used *)
(* before its definition, the narrow booleans of comparisons of rationals, *)
(* and elements and arguments of the type void.                            *)
FailuresHaveTheirCause ==
  /\ outcome = "invalid" =>
       Captures \/ RationalComparisons \/ EarlyUses \/ VoidElements \/ VoidArguments
  /\ outcome = "crashed" => EarlyUses \/ VoidElements \/ VoidArguments

(* A name that is used has its alloca: no declaration is left out as dead  *)
(* code while code that uses its variable is generated.                    *)
VariablesHaveTheirAllocas == outcome # "no alloca"

(* A value has the LLVM type of its node's type, which those who use it    *)
(* take for granted; booleans may be narrow behind comparisons of          *)
(* rationals, from where they go through variables.                        *)
ValuesHaveTheirTypes ==
  \A p \in DOMAIN values :
    TypeOf(p) \notin {Null, VoidType} /\ ~IsTarget(p) /\ values[p] # NullValue =>
      \/ values[p] = LLVMType(TypeOf(p))
      \/ values[p] = "i1" /\ TypeOf(p) = BooleanType /\ RationalComparisons

(* An assertion of the code generator: no function of an accepted program  *)
(* is refused by the verifier, "generated IR is invalid".                  *)
VerificationSucceeds == outcome # "invalid"
=============================================================================
