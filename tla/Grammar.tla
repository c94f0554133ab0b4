------------------------------- MODULE Grammar -------------------------------
(***************************************************************************)
(* The reference for the parser: the grammar of the README as a table of   *)
(* productions, and what it derives from a piece of the text, by trying    *)
(* every way to split it.  The expression grammar, the parts of a for      *)
(* statement that may be left out, dealloc, and the separator in front of  *)
(* a list are not in the README; they are stated as the Parse methods      *)
(* accept them.                                                            *)
(*                                                                         *)
(* The productions for operators recur on the left, which recursive        *)
(* descent cannot do, and no token is looked at before a production is     *)
(* chosen: the tables share the tokens and the nodes with Parser, and not  *)
(* the way to a tree.                                                      *)
(***************************************************************************)
EXTENDS Parser, FiniteSets

(* Symbols and productions.  A non-terminal derives a sequence of nodes:   *)
(* a production with a label makes one node of them.                       *)

T(set) == [set |-> set, keep |-> FALSE]
K(set) == [set |-> set, keep |-> TRUE]
N(name) == [name |-> name]
IsTerminal(symbol) == "set" \in DOMAIN symbol

Just(symbols)        == [label |-> "", symbols |-> symbols]
Make(label, symbols) == [label |-> label, symbols |-> symbols]

Nothing == Just(<<>>)
ListOf(item, self) == {Just(<<N(item)>>), Just(<<N(item), T({","}), N(self)>>)}
Many(item, self)   == {Nothing, Just(<<N(item), N(self)>>)}
Binary(operators, operand, self) ==
  {Just(<<N(operand)>>), Make("binary", <<N(self), K(operators), N(operand)>>)}

Programs ==
  [program    |-> {Make("program", <<N("functions"), N("main")>>)},
   main       |-> {Make("main", <<T({"main"}), N("block")>>)},
   functions  |-> Many("function", "functions"),
   function   |-> {Make("function", <<T({"function"}), N("name"), N("lambda")>>)},
   name       |-> {Just(<<K({"identifier"})>>)},
   lambda     |-> {Make("lambda", <<T({"<"}), N("parameters"), T({">"}), T({"->"}),
                                    N("type"), N("block")>>)},
   parameters |-> {Nothing, Just(<<N("parameter_list")>>),
                   Just(<<T({","}), N("parameter_list")>>)},
   parameter_list |-> ListOf("parameter", "parameter_list"),
   parameter  |-> {Make("parameter", <<N("type"), N("name")>>)},
   type       |-> {Just(<<K(BaseTypeKeyword)>>), Just(<<N("array_type")>>),
                   Make("lambda type", <<T({"<"}), N("types"), T({">"}), T({"->"}),
                                         N("type")>>)},
   array_type |-> {Make("array type", <<T({"["}), N("type"), T({"]"})>>)},
   types      |-> {Nothing, Just(<<N("type_list")>>), Just(<<T({","}), N("type_list")>>)},
   type_list  |-> ListOf("type", "type_list")]

Statements ==
  [block       |-> {Make("block", <<T({"{"}), N("statements"), T({"}"})>>)},
   statements  |-> Many("statement", "statements"),
   statement   |->
     {Just(<<N("block")>>), Just(<<N("declaration"), T({"."})>>),
      Make("expression", <<N("assignment"), T({"."})>>),
      Make("if", <<T({"if"}), N("assignment"), N("branch")>>),
      Make("if", <<T({"if"}), N("assignment"), N("branch"), T({"else"}), N("statement")>>),
      Make("while", <<T({"while"}), N("assignment"), N("branch")>>),
      Make("for", <<T({"for"}), N("first"), T({","}), N("condition"), T({","}), N("next"),
                    N("block")>>),
      Make("dealloc", <<T({"dealloc"}), N("assignment"), T({"."})>>),
      Make("return", <<T({"return"}), T({"."})>>),
      Make("return", <<T({"return"}), N("assignment"), T({"."})>>),
      Make("print", <<K({"print", "println"}), N("expressions"), T({"."})>>)},
   branch      |-> {Just(<<N("statement")>>)},
   declaration |-> {Make("declaration", <<K({"const", "var"}), N("name"), T({"="}),
                                          N("assignment")>>)},
   first       |-> {Make("nop", <<>>), Just(<<N("declaration")>>), Just(<<N("assignment")>>)},
   condition   |-> {Make("true", <<>>), Just(<<N("assignment")>>)},
   next        |-> {Make("nop", <<>>), Just(<<N("assignment")>>)}]

Expressions ==
  [assignment  |-> {Just(<<N("or")>>),
                    Make("binary", <<N("or"), K({"=", "+=", "-=", "*=", "/=", "%="}),
                                     N("or")>>)},
   or          |-> Binary({"||"}, "and", "or"),
   and         |-> Binary({"&&"}, "equality", "and"),
   equality    |-> Binary({"==", "!="}, "comparison", "equality"),
   comparison  |-> Binary({">", "<", ">=", "<="}, "sum", "comparison"),
   sum         |-> Binary({"+", "-"}, "product", "sum"),
   product     |-> Binary({"*", "/", "%", "//"}, "unary", "product"),
   unary       |-> {Just(<<N("atomic")>>),
                    Make("unary", <<K({"!", "+", "-", "sizeof"}), N("unary")>>)},
   atomic      |-> {Just(<<K(Literal)>>), Just(<<N("postfix")>>)},
   postfix     |-> {Just(<<N("name")>>), Just(<<N("lambda")>>),
                    Just(<<T({"("}), N("assignment"), T({")"})>>),
                    Make("alloc", <<T({"alloc"}), N("array_type"), T({"("}),
                                    N("assignment"), T({")"})>>),
                    Make("array", <<T({"["}), N("expressions"), T({"]"})>>),
                    Make("[]", <<N("postfix"), T({"["}), N("assignment"), T({"]"})>>),
                    Make("()", <<N("postfix"), T({"("}), N("arguments"), T({")"})>>)},
   arguments   |-> {Nothing, Just(<<N("expressions")>>)},
   expressions |-> ListOf("assignment", "expressions")]

Productions(name) ==
  CASE name \in DOMAIN Programs    -> Programs[name]
    [] name \in DOMAIN Statements  -> Statements[name]
    [] name \in DOMAIN Expressions -> Expressions[name]

-----------------------------------------------------------------------------
(* What is derived.                                                        *)

\* Where the grammar leaves a choice, an else belongs to the nearest if ...
RECURSIVE MayTakeElse(_)
MayTakeElse(node) ==
  \/ node.label = "if" /\ (Len(node.kids) = 2 \/ MayTakeElse(node.kids[3]))
  \/ node.label = "while" /\ MayTakeElse(node.kids[2])

Chosen(production, kids) ==
  production.label = "if" /\ Len(kids) = 3 => ~MayTakeElse(kids[2])

\* ... and an expression is as long as it can be: a branch does not begin with
\* what would continue the condition in front of it.
BeginsBranch(k) ==
  /\ tokens[k] \notin {"+", "-", "<"}
  /\ tokens[k] \in {"(", "["} => tokens[k - 1] \in Literal

MayBeEmpty(symbol) ==
  ~IsTerminal(symbol) /\ \E p \in Productions(symbol.name) : p.symbols = <<>>

\* Without the tokens of a production nothing is derived from it.
BeginsWith(symbols, k) ==
  symbols # <<>> /\ IsTerminal(symbols[1]) => tokens[k] \in symbols[1].set

HasTokensOf(symbols, i, j) ==
  \A n \in DOMAIN symbols :
    IsTerminal(symbols[n]) =>
      \E k \in i..(j - 1) : /\ n = 1 => k = i
                           /\ n = Len(symbols) => k = j - 1
                           /\ tokens[k] \in symbols[n].set

MayFollow(symbols, k) ==
  /\ BeginsWith(symbols, k)
  /\ ~IsTerminal(symbols[1]) =>
       /\ symbols[1].name = "branch" => BeginsBranch(k)
       /\ \E p \in Productions(symbols[1].name) : BeginsWith(p.symbols, k)

RECURSIVE FromSymbols(_, _, _), FromSymbol(_, _, _)

\* The sequences of nodes that symbols derive from the tokens from i up to, but
\* without, j.
FromSymbols(symbols, i, j) ==
  IF symbols = <<>> THEN IF i = j THEN {<<>>} ELSE {}
  ELSE LET rest  == Tail(symbols)
           least == Cardinality({n \in DOMAIN rest : ~MayBeEmpty(rest[n])})
           Ends  == {k \in i..(j - least) :
                       /\ k > i \/ MayBeEmpty(symbols[1])
                       /\ rest = <<>> => k = j
                       /\ rest # <<>> /\ k < j => MayFollow(rest, k)}
       IN  UNION {UNION {{first \o others : others \in FromSymbols(rest, k, j)} :
                         first \in FromSymbol(symbols[1], i, k)} : k \in Ends}

FromSymbol(symbol, i, j) ==
  IF IsTerminal(symbol)
  THEN IF j = i + 1 /\ tokens[i] \in symbol.set
       THEN {IF symbol.keep THEN <<Leaf(tokens[i])>> ELSE <<>>} ELSE {}
  ELSE LET Nodes(p) == {IF p.label = "" THEN kids ELSE <<NodeOf(p.label, kids)>> :
                          kids \in {s \in FromSymbols(p.symbols, i, j) : Chosen(p, s)}}
       IN  UNION {Nodes(p) : p \in {q \in Productions(symbol.name) :
                                      HasTokensOf(q.symbols, i, j)}}

ProgramsUpTo(j) == FromSymbol(N("program"), 1, j)

-----------------------------------------------------------------------------
(* Properties.                                                             *)

\* A tree that is returned without an error is the one that the grammar derives
\* from the tokens that were read: operators associate to the left and bind as
\* the levels of the grammar say, an else belongs to the nearest if, and nothing
\* was skipped.  README.md:23: the grammar is unambiguous, there is no other tree.
TreesAreDerived == Accepted => ProgramsUpTo(pos) = {<<ast>>}

\* No text of the language is refused: when an error was logged, no beginning of
\* the text is a program.
ProgramsAreAccepted ==
  Returned /\ syntax_errors > 0 => \A j \in 2..(Len(tokens) + 1) : ProgramsUpTo(j) = {}
=============================================================================
