------------------------------- MODULE Parser -------------------------------
(***************************************************************************)
(* The parser: recursive descent with one token of look-ahead, on the      *)
(* tokens that the scanner returns.  Each Parse method is a routine below: *)
(* a sequence of instructions for what it does in its order.  The stack    *)
(* has a frame for every method that is active, with what is left of it    *)
(* and the children that its node has so far.  An action is one            *)
(* instruction.                                                            *)
(*                                                                         *)
(* A token is its kind; identifiers and literals are one kind each.        *)
(***************************************************************************)
EXTENDS Naturals, Sequences

CONSTANT Tokens  \* the token sequences, each without the end of the file

ASSUME TokensAssumption == Tokens \subseteq Seq(STRING)

VARIABLES
  tokens,         \* what the scanner returns, one after the other
  pos,            \* now_reading is the token at this position
  stack,          \* the active methods
  syntax_errors,  \* how many errors were logged
  ast             \* what Parser::Parse returned, once it has

parserVars == <<tokens, pos, stack, syntax_errors, ast>>

Eof == "end of file"
NowReading == IF pos <= Len(tokens) THEN tokens[pos] ELSE Eof

\* Behind the end of the file is the end of the file.
Ahead(n) == IF pos + n <= Len(tokens) THEN pos + n ELSE Len(tokens) + 1

-----------------------------------------------------------------------------
(* The tokens that each construct starts with.                             *)

Literal         == {"true", "'a'", "1", "1.5", "\"a\""}
BaseTypeKeyword == {"void", "bool", "char", "int", "float", "rat", "string"}
UnaryOperator   == {"!", "+", "-", "sizeof"}
Postfix         == {"(", "["}

StartsType       == BaseTypeKeyword \cup {"[", "<"}
StartsAtomic     == {"(", "identifier", "alloc", "[", "<"} \cup Literal
StartsExpression == UnaryOperator \cup StartsAtomic

Starts ==
  [block |-> {"{"}, declaration |-> {"const", "var"},
   expression_statement |-> StartsExpression, if_statement |-> {"if"},
   while_statement |-> {"while"}, for_statement |-> {"for"},
   dealloc_statement |-> {"dealloc"}, return_statement |-> {"return"},
   print_statement |-> {"print", "println"},
   parenthesized |-> {"("}, identifier_atomic |-> {"identifier"}, literal |-> Literal,
   alloc |-> {"alloc"}, populated_array |-> {"["}, lambda_literal |-> {"<"},
   base_type |-> BaseTypeKeyword, array_type |-> {"["}, lambda_type |-> {"<"}]

StatementKinds ==
  <<"block", "declaration", "expression_statement", "if_statement", "while_statement",
    "for_statement", "dealloc_statement", "return_statement", "print_statement">>

AtomicKinds ==
  <<"parenthesized", "identifier_atomic", "literal", "alloc", "populated_array",
    "lambda_literal">>

StartsStatement == UNION {Starts[StatementKinds[i]] : i \in 1..Len(StatementKinds)}

-----------------------------------------------------------------------------
(* Instructions.                                                           *)

Need(set)        == [op |-> "need", set |-> set]         \* or a syntax error is returned
Read             == [op |-> "read"]                      \* discard the token
Keep             == [op |-> "keep"]                      \* the token becomes a child
Add(leaf)        == [op |-> "add", leaf |-> leaf]        \* a child that is not in the text
Expect(t)        == [op |-> "expect", token |-> t]
Call(routine)    == [op |-> "call", routine |-> routine] \* what it returns becomes a child
OneOf(routines)  == [op |-> "one_of", routines |-> routines]
If(set, a, b)    == [op |-> "if", set |-> set, then |-> a, else |-> b]
While(set, code) == [op |-> "while", set |-> set, code |-> code]
Build(kind)      == [op |-> "build", kind |-> kind]      \* a node of the children so far

-----------------------------------------------------------------------------
(* The Parse methods.                                                      *)

Program ==
  <<Need({"main", "function"}), While({"function"}, <<Call("function")>>), Call("main"),
    Build("program")>>

FunctionDefinition ==
  <<Need({"function"}), Read, Call("identifier"), Call("lambda"), Build("function")>>

\* Mutant: the parameters are parsed like the arguments of a call.
LambdaWithOneParameter ==
  <<Need({"<"}), Read, If(StartsType, <<Call("parameter")>>, <<>>),
    If({","}, <<Read, Call("parameter")>>, <<>>),
    Expect(">"), Expect("->"), Call("type"), Call("block"), Build("lambda")>>

Lambda ==
  <<Need({"<"}), Read, If(StartsType, <<Call("parameter")>>, <<>>),
    While({","}, <<Read, Call("parameter")>>),
    Expect(">"), Expect("->"), Call("type"), Call("block"), Build("lambda")>>

LambdaParameter == <<Call("type"), Call("identifier"), Build("parameter")>>

Main == <<Need({"main"}), Read, Call("block"), Build("main")>>

Statement == <<OneOf(StatementKinds)>>

CodeBlock ==
  <<Need({"{"}), Read, While(StartsStatement, <<Call("statement")>>), Expect("}"),
    Build("block")>>

\* A declaration without its terminator, as in a for statement.
DeclarationOfLoop ==
  <<Need({"const", "var"}), Keep, Call("identifier"), Expect("="), Call("expression"),
    Build("declaration")>>

Declaration == DeclarationOfLoop \o <<Expect(".")>>

ExpressionStatement ==
  <<Need(StartsExpression), Call("expression"), Build("expression"), Expect(".")>>

Branch == If({"{"}, <<Call("block")>>, <<Call("statement")>>)

IfStatement ==
  <<Need({"if"}), Read, Call("expression"), Branch,
    If({"else"}, <<Read, Branch>>, <<>>), Build("if")>>

WhileStatement ==
  <<Need({"while"}), Read, Call("expression"), Branch, Build("while")>>

ForStatement ==
  <<Need({"for"}), Read,
    If({"const", "var"}, <<Call("declaration_of_loop")>>,
       <<If(StartsExpression, <<Call("assignment")>>, <<Add("nop")>>)>>),
    Expect(","), If(StartsExpression, <<Call("expression")>>, <<Add("true")>>),
    Expect(","), If(StartsExpression, <<Call("assignment")>>, <<Add("nop")>>),
    Call("block"), Build("for")>>

DeallocStatement ==
  <<Need({"dealloc"}), Read, Call("expression"), Build("dealloc"), Expect(".")>>

List(routine) == <<Call(routine), While({","}, <<Read, Call(routine)>>)>>

PrintStatement ==
  <<Need({"print", "println"}), Keep>> \o List("expression")
    \o <<Expect("."), Build("print")>>

ReturnStatement ==
  <<Need({"return"}), Read, If(StartsExpression, <<Call("expression")>>, <<>>),
    Expect("."), Build("return")>>

Expression == <<Need(StartsExpression), Call("assignment")>>

CombinedAssignment == {"+=", "-=", "*=", "/=", "%="}

Assignment ==
  <<Need(StartsExpression), Call("or"),
    If({"="} \cup CombinedAssignment, <<Keep, Call("or"), Build("binary")>>, <<>>)>>

\* Mutant: the right operand is parsed by the method itself.
RightToLeft(operators, operand, self) ==
  <<Need(StartsExpression), Call(operand),
    If(operators, <<Keep, Call(self), Build("binary")>>, <<>>)>>

\* The methods for binary operators, which are alike: from left to right.
LeftToRight(operators, operand, self) ==
  <<Need(StartsExpression), Call(operand),
    While(operators, <<Keep, Call(operand), Build("binary")>>)>>

Unary ==
  <<Need(StartsExpression),
    If(UnaryOperator, <<Keep, Call("unary"), Build("unary")>>, <<Call("atomic")>>)>>

Atomic == <<OneOf(AtomicKinds)>>

Token(set) == <<Need(set), Keep>>

\* Mutant: the loop goes on for an argument list, that nothing in it reads.
IndexingOnly ==
  <<While(Postfix, <<If({"["}, <<Call("indexing"), Build("[]")>>, <<>>)>>)>>

\* Any number of indices and argument lists behind an expression.
IndexingAndInvocation ==
  <<While(Postfix, <<If({"["}, <<Call("indexing"), Build("[]")>>,
                              <<Call("invocation"), Build("()")>>)>>)>>

ArrayIndexing == <<Need({"["}), Read, Call("expression"), Expect("]")>>

LambdaInvocation ==
  <<Need({"("}), Read, If(StartsExpression, List("expression"), <<>>), Expect(")")>>

ParenthesizedExpression ==
  <<Need({"("}), Expect("("), Call("expression"), Expect(")")>> \o IndexingAndInvocation

IdentifierAtomic == <<Need({"identifier"}), Call("identifier")>> \o IndexingAndInvocation

AllocExpression ==
  <<Need({"alloc"}), Read, Call("array_type"), Expect("("), Call("expression"), Expect(")"),
    Build("alloc")>> \o IndexingAndInvocation

PopulatedArrayExpression ==
  <<Need({"["}), Read>> \o List("expression") \o <<Expect("]"), Build("array")>>
    \o IndexingAndInvocation

LambdaLiteral == <<Need({"<"}), Call("lambda")>> \o IndexingAndInvocation

Type == <<OneOf(<<"base_type", "array_type", "lambda_type">>)>>

ArrayType == <<Need({"["}), Read, Call("type"), Expect("]"), Build("array type")>>

LambdaType ==
  <<Need({"<"}), Read, If(StartsType, <<Call("type")>>, <<>>),
    While({","}, <<Read, Call("type")>>),
    Expect(">"), Expect("->"), Call("type"), Build("lambda type")>>

Routine ==
  [program |-> Program, function |-> FunctionDefinition, lambda |-> Lambda,
   parameter |-> LambdaParameter, main |-> Main, statement |-> Statement,
   block |-> CodeBlock, declaration |-> Declaration,
   declaration_of_loop |-> DeclarationOfLoop, expression_statement |-> ExpressionStatement,
   if_statement |-> IfStatement, while_statement |-> WhileStatement,
   for_statement |-> ForStatement, dealloc_statement |-> DeallocStatement,
   print_statement |-> PrintStatement, return_statement |-> ReturnStatement,
   expression |-> Expression, assignment |-> Assignment,
   or |-> LeftToRight({"||"}, "and", "or"),
   and |-> LeftToRight({"&&"}, "equality", "and"),
   equality |-> LeftToRight({"==", "!="}, "comparison", "equality"),
   comparison |-> LeftToRight({">", "<", ">=", "<="}, "additive", "comparison"),
   additive |-> LeftToRight({"+", "-"}, "multiplicative", "additive"),
   multiplicative |-> LeftToRight({"*", "/", "%", "//"}, "unary", "multiplicative"),
   unary |-> Unary, atomic |-> Atomic, literal |-> Token(Literal),
   identifier |-> Token({"identifier"}), identifier_atomic |-> IdentifierAtomic,
   parenthesized |-> ParenthesizedExpression, indexing |-> ArrayIndexing,
   invocation |-> LambdaInvocation, alloc |-> AllocExpression,
   populated_array |-> PopulatedArrayExpression, lambda_literal |-> LambdaLiteral,
   type |-> Type, base_type |-> Token(BaseTypeKeyword), array_type |-> ArrayType,
   lambda_type |-> LambdaType]

-----------------------------------------------------------------------------
(* Parse trees.                                                            *)

Node(label, kids) == [label |-> label, kids |-> kids]
Leaf(label)       == Node(label, <<>>)
Error             == Leaf("error")

\* A combined assignment has a copy of its target in the operator's operand.
Operation(o, l, r) ==
  IF o \in CombinedAssignment
  THEN Node("=", <<l, Node(CASE o = "+=" -> "+" [] o = "-=" -> "-" [] o = "*=" -> "*"
                             [] o = "/=" -> "/" [] o = "%=" -> "%", <<l, r>>)>>)
  ELSE Node(o, <<l, r>>)

NodeOf(kind, kids) ==
  CASE kind = "binary" -> Operation(kids[2].label, kids[1], kids[3])
    [] kind = "unary"  -> Node(kids[1].label, <<kids[2]>>)
    [] OTHER           -> Node(kind, kids)

-----------------------------------------------------------------------------
(* The actions: one for each instruction of the topmost method.            *)

Top  == stack[Len(stack)]
Rest == SubSeq(stack, 1, Len(stack) - 1)
Running(op) == stack # <<>> /\ Top.code # <<>> /\ Head(Top.code).op = op
Arg == Head(Top.code)

Frame(code, kids) == [code |-> code, kids |-> kids]

\* The method goes on with code before what is left of it.
GoOn(code, kids) == stack' = Append(Rest, Frame(code \o Tail(Top.code), kids))

\* The method returns nodes to the one that called it, or to Parser::Parse.
ReturnTo(s, nodes) ==
  LET caller == s[Len(s)]
  IN  Append(SubSeq(s, 1, Len(s) - 1), Frame(caller.code, caller.kids \o nodes))

ReadToken == pos' = Ahead(1)

ParserInit ==
  /\ tokens \in Tokens
  /\ pos = 1
  /\ stack = <<Frame(<<Call("program")>>, <<>>)>>
  /\ syntax_errors = 0
  /\ ast = Leaf("none")

Found ==
  /\ Running("need") /\ NowReading \in Arg.set
  /\ GoOn(<<>>, Top.kids)
  /\ UNCHANGED <<tokens, pos, syntax_errors, ast>>

\* Mutant: the unexpected token is not skipped.
SyntaxErrorWithoutReading ==
  /\ \/ Running("need") /\ NowReading \notin Arg.set
     \/ Running("one_of")
        /\ \A i \in 1..Len(Arg.routines) : NowReading \notin Starts[Arg.routines[i]]
  /\ syntax_errors' = syntax_errors + 1
  /\ stack' = ReturnTo(Rest, <<Error>>)
  /\ UNCHANGED <<tokens, pos, ast>>

\* SyntaxErrorUnexpectedToken: the token goes into the error node.
SyntaxErrorUnexpectedToken ==
  /\ \/ Running("need") /\ NowReading \notin Arg.set
     \/ Running("one_of")
        /\ \A i \in 1..Len(Arg.routines) : NowReading \notin Starts[Arg.routines[i]]
  /\ syntax_errors' = syntax_errors + 1
  /\ ReadToken
  /\ stack' = ReturnTo(Rest, <<Error>>)
  /\ UNCHANGED <<tokens, ast>>

ReadOrKeep ==
  /\ \/ Running("read") /\ GoOn(<<>>, Top.kids)
     \/ Running("keep") /\ GoOn(<<>>, Append(Top.kids, Leaf(NowReading)))
  /\ ReadToken
  /\ UNCHANGED <<tokens, syntax_errors, ast>>

AddChild ==
  /\ Running("add")
  /\ GoOn(<<>>, Append(Top.kids, Leaf(Arg.leaf)))
  /\ UNCHANGED <<tokens, pos, syntax_errors, ast>>

\* An unexpected token is skipped, and so is the one behind it.
ExpectToken ==
  /\ Running("expect")
  /\ IF NowReading = Arg.token THEN ReadToken /\ UNCHANGED syntax_errors
     ELSE pos' = Ahead(2) /\ syntax_errors' = syntax_errors + 1
  /\ GoOn(<<>>, Top.kids)
  /\ UNCHANGED <<tokens, ast>>

Enter(routine) ==
  /\ stack' = Append(Append(Rest, Frame(Tail(Top.code), Top.kids)),
                     Frame(Routine[routine], <<>>))
  /\ UNCHANGED <<tokens, pos, syntax_errors, ast>>

CallRoutine == Running("call") /\ Enter(Arg.routine)

\* The first routine that starts with the token.
CallOneOf ==
  /\ Running("one_of")
  /\ \E i \in 1..Len(Arg.routines) :
       /\ NowReading \in Starts[Arg.routines[i]]
       /\ \A j \in 1..(i - 1) : NowReading \notin Starts[Arg.routines[j]]
       /\ Enter(Arg.routines[i])

Choose ==
  /\ Running("if")
  /\ GoOn(IF NowReading \in Arg.set THEN Arg.then ELSE Arg.else, Top.kids)
  /\ UNCHANGED <<tokens, pos, syntax_errors, ast>>

Loop ==
  /\ Running("while")
  /\ GoOn(IF NowReading \in Arg.set THEN Append(Arg.code, Arg) ELSE <<>>, Top.kids)
  /\ UNCHANGED <<tokens, pos, syntax_errors, ast>>

BuildNode ==
  /\ Running("build")
  /\ GoOn(<<>>, <<NodeOf(Arg.kind, Top.kids)>>)
  /\ UNCHANGED <<tokens, pos, syntax_errors, ast>>

Return ==
  /\ Len(stack) > 1 /\ Top.code = <<>>
  /\ stack' = ReturnTo(Rest, Top.kids)
  /\ UNCHANGED <<tokens, pos, syntax_errors, ast>>

\* Parser::Parse returns the program, or an error node of its own.
Finish ==
  /\ Len(stack) = 1 /\ Top.code = <<>>
  /\ stack' = <<>>
  /\ IF Top.kids[1].label = "program" THEN ast' = Top.kids[1] /\ UNCHANGED pos
     ELSE ast' = Error /\ ReadToken
  /\ UNCHANGED <<tokens, syntax_errors>>

Done == stack = <<>> /\ UNCHANGED parserVars

ParserNext ==
  \/ Found \/ SyntaxErrorUnexpectedToken \/ ReadOrKeep \/ AddChild \/ ExpectToken
  \/ CallRoutine \/ CallOneOf \/ Choose \/ Loop \/ BuildNode \/ Return
  \/ Finish \/ Done

\* The parser is sequential code: it goes on as long as it can.
ParserSpec == ParserInit /\ [][ParserNext]_parserVars /\ WF_parserVars(ParserNext)

-----------------------------------------------------------------------------
(* Properties.  What the trees and the errors have to do with the grammar  *)
(* is in Grammar.                                                          *)

\* As long as there are tokens, every error is for a token of its own: an error
\* skips its token in GetSyntaxErrorNode, and no method that is active can report
\* it again.
ErrorsHaveTheirOwnTokens == pos <= Len(tokens) => syntax_errors < pos

Returned == stack = <<>>
Accepted == Returned /\ syntax_errors = 0

\* Parser::Parse returns for every text: no loop goes on without reading, at the
\* end of the file neither.
ParsingEnds == <>Returned
=============================================================================
