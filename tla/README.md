# A TLA+ model of the Punkt compiler

Punkt is a small imperative language with first-class lambdas, arrays and
rationals.  The program in `src/` compiles a Punkt file to LLVM IR.  This
directory models it in TLA+, checks the models with TLC and proves theorems
about them with TLAPS.

## 1. The system

The compiler is one sequential process: no threads, no network, nothing that
survives a run except the output file.  What makes it hard is not concurrency
but *shared mutable state across deep recursion* (the IR builder's insert
block, the token being read, the current scope), *things that are created in
one place and finished in another* (detached basic blocks, PHI entries,
put-back characters, arbitrary types that are bound and reset), and inputs of
unbounded shape.

```
 file ──InputHandler──LocatedCharStream──Scanner──Parser──▶ parse tree
                                                              │
              SymbolTable/Scope ◀──SemanticAnalysis{Preprocessor,Visitor}──▶ Types/Signatures
                                                              │
                            CodeGenerationVisitor + operator_codegen ──▶ llvm::Module ──▶ file.ll
 PunktLogger: called by all of them; punkt_compiler.cc: calls them in order
```

| component | source | state | operations | what must be true |
|---|---|---|---|---|
| driver | `applications/punkt_compiler.cc` | options, output path | option loop, phases, `CheckForErrors` | no output from a program with errors; internal errors and crashes leave an earlier output alone |
| logger | `logging/punkt_logger.*` | at most 8 messages, a count of the rest | `LogCompileError`, summary, fatal errors | the summary counts every error |
| input handler, character stream | `input_handler/*` | queue of characters, line and column, look-ahead, the static end-of-file character | `Next`, `NextNonwhitespaceChar`, `Peek`, `PutBack` | every character once, in order, with its location, also after put-back and at the end |
| scanner | `scanner/*`, `token/*` | the next token | `GetNextToken`, one routine per kind of token | longest match, one token put back at most, ends on every file |
| parser | `parser/parser.cc` | the token being read | recursive descent, `Expect` | ends on every token sequence, makes progress after an error, no error node without an error |
| parse tree | `parse_node/**` | nodes, parents, types, symbol table entries | visiting, copying, `DoAllControlPathsReturn` | a non-void lambda that is accepted returns |
| symbol table, scopes | `symbol_table/*` | declarations per scope | declare, look up through base scopes | the innermost declaration, once per scope |
| semantic analysis | `semantic_analyzer/semantic_analysis_*.cc` | types of nodes | preprocessing of functions, checking of every node | declared before use, functions anywhere, well-typed trees |
| types, signatures | `semantic_analyzer/types/*`, `signatures/*` | the binding of arbitrary types | equivalence, acceptance | no binding survives the signature that made it |
| code generation | `code_generator/code_generation_visitor.cc`, `operator_codegen.cc` | the module, the builder's insert block, the C++ call stack | one `GenerateCode` per kind of node, one routine per operator | well-formed IR that does what the statements say |
| generator driver, context | `code_generator/code_generator.cc`, `codegen_context.cc` | module, functions, string constants | generate, then open, then write | the output is opened only when generation has succeeded |
| printers | `utilities/xml_generator_visitor.*`, `applications/*printer.cc` | none | output of trees and tokens | (output only) |

Components call each other directly; callbacks are the visitor methods.  A
fatal error (`LogFatal`, exit code 1; `LogFatalInternalError`, exit code -1)
ends the process wherever it is raised, and so does a null pointer (a signal, which a
shell sees as 139).  `PROJECT.json` lists every component
with its status and every hazard with its line and the properties that cover it.

## 2. Modules

```
TextFile ─ PushbackStream ◁─ CharStream          (◁─ : is implemented by)
              │
           Scanner        Parser ─ Grammar
Trees ─ Signatures ─ SemanticAnalysis ─ TypedGeneration ─ MCSemanticAnalysis
                  └─ TypingRules ───────────────────────┘
Expressions ─ CodeGeneration ─ Execution (with SourceSemantics, ReturnPaths)
Rationals          ArrayObjects ◁─ Arrays
PunktLogger ─ Compiler
```

### Character stream

| module | what it is |
|---|---|
| `TextFile` | characters, files, locations |
| `PushbackStream` | the promise to the scanner: the characters of the file in order, with locations; the last one may be put back |
| `CharStream` | `InputHandler` (line queue, counters, lazily located end-of-file character) under `LocatedCharStream` (look-ahead) |
| `CharStreamProofs` | the proof that `CharStream` implements `PushbackStream` |

The handler is one record; `PreloadNextLine`, `Fill`, `NextOf` and `RestOf` are
its methods.  `NextNonwhitespaceChar` is one action per turn of its loop
(`skipping` is true within it).  `got` is what the scanner got last: the
scanner puts back only that character, and at most once, which is the
precondition of `PutBack` (`scanner.cc`, the number and operator routines).
The mapping computes the abstract position from look-ahead and queue.
Abstractions: the file name is left out; a file holds no null characters
(`CharAssumption`), which the code would take for its end only in part; read
errors are left out.

### Scanner

| module | what it is |
|---|---|
| `Scanner` | `GetNextToken` and the routines for each kind of token |
| `ScannerProofs` | its theorems, for all files, keywords and classes of characters |

`Scanner` is written on top of `PushbackStream`: an action of the scanner is
one operation of the stream (`Next`, a turn of `NextNonwhitespaceChar`,
`PutBack`) or none, together with what the routine does with the result, and
`Peek` reads what is coming.  `at` is the routine and the place in it; the
local variables of the routines are `got` (what `Next` returned) and `located`
(the character whose location the token gets).  `items` is everything the
scanner produced, tokens and errors, with two history fields (`from`, `end`)
that say which text was read for it.  A call of `PutBack` that the stream does
not allow would stop the scanner, which the check for deadlock rules out.
Whether a number fits is a constant (`OutOfRange`); the tables of operators and
punctuators are those of the code.  What `isalpha`, `isdigit` and `isspace`
accept and what the keywords are is left open; `ClassAssumption` has the classes
disjoint and without the characters that the scanner names, `KeywordAssumption` has the
types of tokens that a keyword may have (`alloc` and `sizeof` are operators).

### Parser

| module | what it is |
|---|---|
| `Parser` | the Parse methods, as sequences of instructions, and the machine that runs them |
| `Grammar` | the reference: the grammar as a table of productions, all trees it derives from a piece of text, and the properties that compare the two |

A Parse method is a sequence of instructions: `Need` is the test of
`StartsX(*now_reading)` that it begins with, `Read` and `Keep` are `ReadToken`
(the token is dropped, or has become a node), `Expect`, `Call`, `If` and
`While` are what they are called, `Build` is the node with its children.
`stack` holds a frame for every active method, with what is left of its
instructions and the nodes it has so far; an action is one instruction.  A node
that a loop passes to the next method as its first child (`ParseArrayIndexing`,
`ParseLambdaInvocation`) stays in the frame of the loop until `Build`.  The
methods for literals and identifiers are a `Token` each, the six
methods for binary operators are `LeftToRight` with the operators and
the next level.

`Grammar` does not share the way the parser goes: its productions recur on the
left, and a text is derived by trying every split.  The proof that no token is
reported twice is short, and at the end of `CompilerProofs`.  Where the README's grammar
leaves a choice, `Chosen` and `BeginsBranch` say which: an `else` belongs to the
nearest `if`, and a condition is as long as it can be (there is nothing between
it and the branch, so `if a (b).` has the condition `a(b)` and no branch).

### Semantic analysis

| module | what it is |
|---|---|
| `Trees` | parse trees, paths, the order in which a visitor calls its methods |
| `Signatures` | types, the table of operator signatures, `Accepts` with the binding and the reset of arbitrary types |
| `SemanticAnalysis` | the preprocessor and the visitor, one action per handler |
| `TypingRules` | the reference: which trees are well-typed, as rules over environments |
| `SemanticAnalysisInvariants` | the inductive invariants of `SemanticAnalysis` and `TypedGeneration`, and the predicates on nodes, steps and types their proofs use |
| `SemanticAnalysisProofs` | what names mean in a program that is accepted, that crashes come behind errors, and that what is accepted is typed, for all trees |
| `SemanticPrograms` | the finite set of trees for TLC |

A node is named by its path from the root.  `cursor` is the call of
`VisitEnter`, `Visit` or `VisitLeave` that is next, and an action is one such
call.  What the analyzer leaves in the tree are the functions `types` and
`entries`; scopes are nodes with a symbol table (`table`), and a lookup goes
through the scopes on the path to the root, as `GetBaseScope` does.  The
signatures are singletons in the code, shared by all operator nodes, so
the types their arbitrary types are bound to are a variable (`bindings`)
that lives from one operator node to the next.  A handler that follows the type
of a node that has none is a crash (`status = "crashed"`), as following the null
pointer is.  Errors are a set of nodes with the kind of the message.

`TypingRules` visits nothing, keeps no table and has no error type: it gives a tree a
type or `Ill`.

### Code generation

| module | what it is |
|---|---|
| `Expressions` | what the code of each operator does to control flow: a sequence of effects (`do`, `check`, `gcd`, `lambda`) in the order in which the C++ routine generates them |
| `CodeGeneration` | the visitor: statements, functions, lambdas, operators and print routines to basic blocks |
| `SourceSemantics` | what a statement *means*, as an abstract machine on statement trees |
| `Execution` | runs generated code and source side by side |
| `ReturnPaths` | `DoAllControlPathsReturn` |
| `Programs` | the finite sets of programs for TLC |
| `TypedGeneration` | the same visitor on the analyzed trees, as far as values, stack variables and `llvm::Function`s are concerned |
| `CodeGenerationInvariants` | the inductive invariants of `CodeGeneration` and the predicates on steps its proofs use |
| `CodeGenerationProofs` | the proof of the inductive invariant, and on top of it the proof that what is generated passes the verifier |
| `TypedGenerationProofs` | the proofs about allocas, values and failures of `TypedGeneration`, for all trees |

The visitor is a set of recursive methods that share one `IRBuilder`.  In
`CodeGeneration` the C++ call stack is the variable `work`: a *task* is what is
left of one activation of a method, split at the points where it calls
`GenerateCode` for a child.  An action is the stretch of a method between two
such calls, so everything a method reads after a recursive call (above all the
insert block) is read in the action after it.  The method for `if`, for
example, is `GenerateIf` (up to the condition), `IfCondition` (branch, creation
of the blocks), `EndThen` (fall-through, attaching the next block) and
`EndElse`.  The other variables are `blocks` (all basic blocks in the order of
creation, with the function they are part of and their instructions),
`functions`, `insert` (the insert block) and `status`.  A block created without
parent has `fn = NoParent`, and the task that must attach it lists it in `owe`.

Data is abstracted to what control flow can tell apart: a straight-line piece
of code is `Act(tag)`, a branch keeps its targets and the tag of its condition,
a PHI node keeps the blocks it expects.  Declarations of libc functions are
left out; parameters of functions are straight-line code in
the entry block and are left out too.  `VerifyFunction` states what LLVM's
verifier demands of blocks: exactly one terminator at the end, targets in the
same function, PHI nodes first and with exactly the predecessors of their
block, no branch to the entry block.

`Execution` extends `CodeGeneration`: when a program is done, one of its
functions is called and its blocks run in lockstep with `SourceSemantics`, an
interpreter of statement trees that knows nothing of blocks.  They must agree
on every event (action, choice, failure, return) in its order; the code may
take silent steps (branches, PHI nodes, allocas, the gcd loop).

`TypedGeneration` composes with `SemanticAnalysis`: `CompileSpec` runs the
analyzer on a tree and, when it logged nothing, the generator on the tree with the types
and entries the analyzer left.  It is the other half of the visitor: a value is
its LLVM type, an entry gets its alloca or its function, and an instruction
whose operands do not have the types LLVM demands makes its function `faulty`, which
`verifyFunction` finds.  `insert` keeps only which functions are open and whether
the current block has a terminator, since that is what each statement looks at to
decide that it is dead code.

### The running program

| module | what it is |
|---|---|
| `Rationals` | the generated arithmetic of rational numbers, next to exact fractions |
| `RationalsProofs` | its theorems, for integers of any width |
| `ArrayObjects` | what arrays are to the programmer |
| `Arrays` | what the generated code does: `PunktArray`s and blocks from `malloc`, pointers, byte offsets |
| `ArraysProofs` | the proof that `Arrays` implements `ArrayObjects` |

`Rationals` is one calculation that goes on for ever: `value` is what the
code has in its two integers of `2 * Limit` values, `number` the fraction it
stands for, computed without overflow and without a loop.  Operations wrap
around (`Wrap`); the absolute value of the smallest integer is that integer,
and the gcd's registers are unsigned, as `urem` takes them.  An operation on
an operand leaves a raw value, the top of an expression simplifies it (`GcdStep`
is one turn of `gcd_loop_body`).  A division by a gcd of zero is undefined.
Once an integer has wrapped around or something was divided by zero, there is no
number that the value stands for (`NoNumber`).

`Arrays` and `ArrayObjects` share one idea of a program: any sequence of
operations on a stack of operands that static typing allows.  An operand
may be a call, so between the steps of one operation (the pointer is loaded,
the index is evaluated, the element is addressed, the value is evaluated, the
value is stored) any other operations may run, which may store, allocate and
deallocate.  In `Arrays` a value is a pointer, an element is at a byte offset
of a block whose size is a product that wraps around at 64 bits, and
an array expression has an array and a block that are not connected until its
elements are evaluated.  In `ArrayObjects` an array is a sequence of
elements.  Both stop where the behaviour is undefined; the refinement says that
`Arrays` stops there only for programs that `ArrayObjects` calls a misuse: an
array that was deallocated, one that was never set (the elements of a new array of arrays are
null), or one with more elements than their bytes can be counted.
What is freed is not allocated again in the model: the first access to it is
where the model stops.

### Driver and logger

`PunktLogger` keeps the first eight errors and counts the rest.  `Compiler`
extends it with the option loop, the phases, the checks between them and the
output file.  What parsing, analysis and generation compute is left open: they
may log errors, stop with an internal error and crash at any time (`ReportError`,
`Fail`), so what holds here holds whatever they do.  `CompilerProofs` has the
proofs.  That a stream of LLVM makes the process exit with 1 when a write fails
is LLVM's behaviour, not the repository's.

## 3. Runs

| run | module, cfg | what it shows |
|---|---|---|
| `char_stream` | `MCCharStream` | the two layers of the character stream implement the stream with put-back |
| `scanner` | `MCScanner` | tokens, errors, blanks and comments account for every character of a file; lexemes and locations are those of the text; tokens are as long as they can be; scanning ends unless the file ends in a string literal |
| `parser` | `MCParser` | parsing ends; what is accepted has exactly one tree in the grammar and the parser returned that one; what is refused has no beginning that is a program; no token is reported twice |
| `semantic_analysis` | `MCSemanticAnalysis` | the analyzer accepts exactly the well-typed trees; a name means the nearest declaration and keeps its type; a crash happens only behind an error; what is accepted fails in the generator only for five reasons that the properties name; every variable that is used has its alloca, and every value the LLVM type of its node |
| `uninitialized_variable` | `MCSemanticAnalysis`, `MCUninitialized.cfg` | *violated*: no variable can be used that is never initialized |
| `void_parameter` | `MCSemanticAnalysis`, `MCVoidParameter.cfg` | *violated*: the analyzer reports its errors instead of crashing |
| `narrow_boolean` | `MCSemanticAnalysis`, `MCNarrowBoolean.cfg` | *violated*: the verifier accepts what is generated for an accepted program |
| `code_generation` | `MCExecution` | for every program of `Programs`: detached blocks are owed once, code goes to the right function, the verifier accepts each function when it is finished and all of them at the end, every path through every function does what the source says, accepted lambdas whose `if`s all have an `else` never run off their end, and the visitor ends |
| `return_paths` | `MCExecution`, `MCReturnPaths.cfg` | *violated*: "make sure all control paths return a value" does not hold |
| `rationals` | `MCRationals` | values are exact as long as nothing wraps around, simple values are canonical, comparisons of them are right, the loop finds the greatest common divisor and ends, and the division by it is undefined only for what is no number |
| `arrays` | `MCArrays` | arrays and blocks implement objects with elements, every block belongs to one array, and memory is misused only by programs that misuse arrays |
| `compiler` | `MCCompiler` | errors keep the compiler from touching a file, all of them are summarized unless a phase stops with an internal error or crashes, which leaves what an earlier run has written; only the file that the command line names is changed |

### Findings

* `IfStatementNode::DoAllControlPathsReturn` (`if_statement_node.cc:48`)
  answers for an `if` without `else` with the answer for its then-part.  The
  lambda `<bool c> -> int { if c { return 1. } }` is accepted although the
  comment at `semantic_analysis_visitor.cc:202` says that all control paths
  return, and its code stops with "non-void lambda does not return a value".
  `AcceptedLambdasWithElseReturn` is what does hold.
* The handler of `while` (`semantic_analysis_visitor.cc:344`) accepts a
  declaration as the body, whose variable is in view behind it and has no value
  when the body has not run.  The handler of `if` refuses it for this reason (lines
  138-142).  `UninitializedOnlyBehindLoops` is what does hold.
* A parameter of type void is reported, and left without a type
  (`semantic_analysis_preprocessor.cc:68`); the type of its lambda is then built from
  the null pointer, and the compiler crashes before the error is printed.
  `CrashesOnlyBehindErrors` is what does hold.
* Comparisons of rationals return an `i1` (`operator_codegen.cc:964`), all others
  the `i8` that a boolean is: `function f <> -> bool { return 1//2 < 1//3. }` is
  accepted and ends in the internal error "generated IR is invalid".

`FailuresHaveTheirCause` allows four more reasons why the generator fails
on what the analyzer accepts, which no document of the repository excludes: a lambda that
uses a variable of the function around it (the alloca is in another function),
a function that is used in the text before its own definition (its
`llvm::Function` is still null, `code_generation_visitor.cc:708`), an
array expression whose elements have no value (`[f()]` with a void `f`), and a call
whose argument has none: a parameter of a lambda cannot be void, but one of a lambda
*type* can (`parser.cc:1222`, `code_generation_visitor.cc:331`), so that in a function
with a parameter `g` of the type `<void> -> int` the call `g(f())` is accepted.

Met while modelling, without a run of their own:

* a string literal with a backslash at the end of its line goes on in the next
  line (`scanner.cc:442`), where `README.md:15` of the repository excludes newlines;
* a file whose last line has no newline and ends inside a string literal is
  read for ever (`scanner.cc:393` does not look for the end of the file):
  `ScanningEnds` excepts it;
* what follows `main` is ignored: the test for the end of the file is commented
  out (`parser.cc:81`), where `README.md:27` has nothing behind it;
* lists of parameters and types may begin with a comma (`parser.cc:142`),
  which `README.md:33` and `:79` exclude; `Grammar` derives such lists;
* `a += e` has the target's node twice (`parser.cc:593`): calls in it run twice;
* a denominator that is the smallest integer keeps its sign
  (`operator_codegen.cc:1185`), where lines 17-20 promise the forms `a/b` and
  `-a/b`; in the model the number is then one that wrapped around;
* the modulo of integers has no check for zero (`operator_codegen.cc:343`), and what
  `malloc` returns is not checked: both are the machine's undefined
  behaviour at run time and not modelled further (in `Arrays` a program may be
  out of memory at any allocation, and stops).

### Bounds

* `MCCharStream`: files of up to five characters from a letter, a space and the
  newline: empty files, empty lines, several lines, ends with and without
  newline; put-back at every position and at the end.
* `MCScanner`: all files of up to three characters of every kind; up to six
  characters of numbers (sign, point, exponent, each followed by each); up to five of
  strings with escapes and newlines, of words with comments, and of character
  literals; all pairs of operator characters.  A routine looks at most two characters
  ahead, so longer files repeat these situations.  Identifiers are too long
  from the fourth character (`kMaxIdentifierLength`), numbers with more than three
  digits do not fit, and the buffer of a string that never ends is cut at
  `MaxBuffer`, which is longer than any file.
* `MCParser`: all programs `main { e . }` with expressions `e` of up to three
  tokens (two operators, as many as precedence and associativity need), all texts of up to
  three tokens of the top level, and eleven programs that between them have
  every statement and expression, as they are and with each token removed,
  doubled or exchanged for one of six: errors in every place of every method, and the
  end of the file in the middle of a construct.
* `SemanticPrograms`: every operator of every family on every pair of operand
  types, and unary operators on each; every kind of initial value with every use of the variable; two uses
  of the operators on arbitrary types behind each other (a binding that is not
  reset shows in the second); three statements that declare the same name in
  nested and neighbouring scopes; functions with every kind of parameter, result and
  body, called before, in and behind their definition; code behind a return
  next to code that is not; lambdas that reach out; calls with arguments of the type void; all comparisons in every place a
  boolean can have.  A handler sees one node, its children and the table on its
  path, so larger trees repeat these situations.
* `Programs`, control flow: two levels in a code block of one or two
  statements, in `main` and in a non-void function (the epilogues differ in
  these kinds; `void` functions come with the other set).  Every statement kind is
  nested in every other, with dead code after returns on both levels.  The
  interactions of the visitor's methods are between a method and the method
  that calls it, through the insert block alone, so two levels show them.
* `Programs`, expressions: those that make blocks of their own (checks, gcd loops,
  nested lambdas with control flow) in every place of a statement an expression
  can have, and arrays of depth 0 to 2, the least that tells "the block of
  the loop" from "the block in which the element ended".  Every other operator comes with
  operands that end in another block than they began in (`Straight`).
* Execution is cut by the program text: loops go around as often
  as TLC likes, since the state of a loop iteration is the same each time.
* `MCRationals`: integers of four bits, all operands, canonical or not, among them the
  smallest integer and denominators that are zero or negative.
* `MCArrays`: integers of three bits (`Limit = 4`), elements of one byte and
  of four, so that the size of an array of two arrays is more than its
  product can hold; the numbers -1, 0 and 2 (below, within and beyond an array), array expressions of
  one element, a variable of each type; at most `MaxArrays = 2` arrays
  and `MaxStack = 3` operands (an assignment to an element whose value is being computed).
  `ArraysProofs` needs none of these bounds.
* `MCCompiler`: up to four arguments (`-o` twice with a name each), up to
  `MaxLogged = 10` errors, two more than are stored, spread over both phases in any way.

Deadlock is checked in every run but `rationals`, where a calculation that has failed
stops.

### Fairness

`Execution!ExecSpec` has weak fairness of the visitor's steps: the visitor is a sequential
program that nothing blocks, so it takes its next step as long as it has one.
`Scanner!Spec` and `ParserSpec` are fair to all steps for the same reason: the file is
read without waiting.  `Rationals!Spec` is fair to the loop for the gcd alone: once begun it
runs on, whatever the program does behind it.  `GenerationEnds`, `ScanningEnds`,
`ParsingEnds` and `GcdEnds` are the liveness properties; the other modules state safety only.

## 4. Proofs

**Character stream, for all files.**  `IInv` says where the characters are: the
look-ahead is a character of the file followed by the queue (`InFile`), or the
last character with the end of the file put back behind it (`BeforeEnd`), or the end
(`AtEnd`); the counters of the handler are those of the last line read
(`HandlerOK`).  The mapping is a function of this case.  `Implementation`
proves `Spec => IsPushbackStream`, that is, initial states map to initial
states and every step maps to a step or a stutter; `TypeCorrect` follows from
the same invariant.  That a line has a first newline rests on the library's
theorem that `<` is well-founded on the natural numbers.

**Scanner, for all files, classes of characters, keywords and limits.**  The three
properties speak of items that are complete; the invariant `IInv` says what is
true while one is being read:

* `StreamInv`: what `Next` delivered last is the character before the position,
  or the end of the file, so that `PutBack` leads back to it (`Unread`);
* `GapInv`, `BeginInv`: between the end of the last item and the position, or the
  beginning of the current token, there are blanks and comments; within a
  comment the text so far is in one (`OpenGap`), and a token begins only where it is not
  (`ClosedGap`), except at the end of the file, which ends an open comment;
* `LexemeInv`: the buffer is the text from the beginning of the token, but for
  the character that was read ahead to look behind it; what a lexeme of the number
  routines has so far (an exponent, a sign) follows from the place;
* `QuotedInv`: literals begin with their quote, and a string that looks for another
  literal has had nothing but blanks since its last quote.

`Comment` is a function over the positions of a text and not over the
scanner's steps; that it is well defined, and that reading a character changes it
only at that character, is proved with the least position at which it would
differ.  There is one lemma per action, and one for the end of an item
(`AddItem`) that all routines use.  Results: `TextsOfTokens`
(`TokensAreTheText`), `NothingBetween` (`NothingIsDropped`), `MaximalMunch`
(`LongestMatch`), and `StreamIsUsedWell`: every step is an operation of
`PushbackStream` or leaves it alone, which together with the first proof
puts the scanner on the real character stream.

**Parser, for all texts.**  `ErrorsInv` (positions, and fewer errors than tokens
read as long as there are tokens) is inductive: of the actions only syntax
errors and `Expect` report anything, and both read on.

**Code generation, for all programs.**  The assumptions are those on the
constants: `EffectAssumption`, `StatementAssumption` and `ProgramAssumption`
give the shape of the trees the parser builds, nothing else.  `TypeOK` is not
inductive: that an action may append to `blocks[insert]` needs that `insert` is
not null, which depends on the tasks below the current one: a function that
ends gives the insert block back to a task that expects it to be in its own
function.  The inductive invariant `IInv` therefore
describes the call stack:

* `CallStackOK`: the program is at the bottom; a task is for the function of
  the task below it, unless it is the end of a function; the end of a lambda has saved
  a block of the function below it;
* `InsertOK`: the insert block is in the function of the current task;
* `OwedOK`, `DetachedOK`: a block without parent is empty and in exactly one
  place of exactly one task's `owe`, and everything owed is without parent;
* `EntriesOK`: the entry block of a function is in that function.

The lemmas say how pushing tasks, appending code, adding blocks and attaching
blocks act on each conjunct; the proof has one step per action.  Results:
`TypeCorrect`, `InsertsCorrectly` (`InsertsIntoItsFunction`) and `NoBlockIsLost`
(`DetachedBlocksAreOwed`).

The definitions are in `CodeGenerationInvariants`, the proofs in `CodeGenerationProofs`.
Its second part builds on them: `IRIsValid` is `GeneratedIRIsValid`, that LLVM's
verifier accepts every function when it is finished and all of them at the end.
While a function is being generated its blocks are not valid, and the invariant
`VInv` says what is missing and who will add it:

* `FlowOK`, `EntriesPlain`: what there is has terminators only at the end and PHI nodes
  that agree with the predecessors so far; entry blocks, into which allocas
  are still inserted, have no PHI nodes;
* `EdgesOK`: branches go to blocks of the same function, or to blocks that a
  method of that function owes, and never to an entry block;
* `OpenOK`: a block without a terminator is the insert block or one that a
  lambda saved;
* `NeedOK`: methods that append without looking (the code of an expression, the
  branch behind a condition, a `ret`) find the block open, because the methods that
  run in between leave it open or come back to the block they left;
* `LoopsOK`: the back edge of a loop goes to a block without PHI nodes, or, when an
  array is printed, to the loop whose PHI node waits for just this edge;
* `FnsOK`, `FinishedOK`: lambdas are finished before the function they are in, and
  nothing is added to a function that is finished.

**Semantic analysis, for all programs.**  `ProgramAssumption` says which trees there
are: those whose nodes are `WellFormed`, the table of what the parser puts where (how many
children a node of each kind has, and of which kinds they are).
An operator has the operands that the parser reads for it, one or two (`UnaryOperators`).
`Subtrees` names the nodes of a tree, so that the assumption needs no
recursion.  For names the proof does not look at what a handler computes as a type: the lemma `Effects` sorts
the steps by what they do to names (`SetsTypes`, `Opens`, `DeclaresName`,
`DeclaresUnknown`, `Resolves`), and four invariants follow from that and from
the order of the visits.

* `WalkInv`: the cursor is at a node of the tree.  The lemmas on `Following` say that
  a step of the walk changes exactly which node `IsEntered` or `IsLeft`, and `Precedes` that
  what is before a node in the text has been left before the node is entered.
* `ScopesInv`: every scope that is open has its table, and a table belongs to a
  scope that has been entered, so none is opened twice and nothing in it is lost.
* `EntriesInv`: a resolved name has the type of its entry.  A declaration
  puts the name in the table and the type at its node in one step, and
  `Insert` keeps the first entry; an undeclared name gets an entry of the error type only in a program
  that is refused.
* `BranchesInv`: unless there are errors, no branch of an `if` that has been
  left is a declaration.
* `NamesInv`: unless there are errors, a table holds just the declarations of its scope
  that have been left (`DeclaredInv`, `TablesInv`), and the entry of a name is the
  one of the nearest declaration (`IsNearest`): nothing nearer can be in view later,
  since what is in view of a name was left before the name was visited.

Results: `ReferencesKeepTheirEntrysType` (`ReferencesHaveTheirEntrysType`),
`OnlyLoopsHideDeclarations` (`UninitializedOnlyBehindLoops`) and
`NamesMeanWhatTheTextSays` (`NamesMeanTheNearestDeclaration`).

`CrashesComeBehindErrors` (`CrashesOnlyBehindErrors`) is about types.  A handler
follows the types of the children, of the symbol table's entries and of
elements and results of other types, so all of them must be there as long as no
error was logged:

* `LeafInv`: only leaves are visited, so that no node with a handler is passed over
  (`SkipFills`);
* `TypesInv`: a node that was left has its type, written types, parameters and
  lambdas from the preprocessor and expressions from the visitor, and every type
  of a node, of an entry and of a binding is `Complete`: it is in a set of types
  that holds their elements and results and no null pointer.  The set stands for
  an induction over types.

Every handler gives its node a complete type or logs an error (the lemmas
`...Fills`).  For operators that is a lemma on the signatures
(`OperationsAreComplete`): `Accepts` and `AcceptingSignature` are recursive functions
over the inputs and the signatures, the invariant of both is that bindings are null or complete, and
the one signature whose output is an arbitrary type has bound it when it accepts
(`AcceptsBinds`).

**Typed generation, for all programs.**  `VariablesAlwaysHaveTheirAllocas`
(`VariablesHaveTheirAllocas`): when the generator comes to a name, the name's symbol table
entry has its alloca.  The generator gives an alloca to an entry when it
visits the declaration, or when it enters the lambda for parameters, and skips
declarations and other statements behind a return.  So the property needs both what the analyzer did and
what the generator skipped: in `{ return 1; define x << 2; x; }` the name `x` is in the
scope of a declaration for which there is no alloca, and is not visited only
because it is a statement that is skipped as well.  `GenerationInv` says

* `IsPlan`: of the tasks that are left each one follows from the one before (`Follows`),
  up to the end of the program.  The order is the one of `Rank`, in which
  the generator, unlike the analyzer, visits the step of a `for` behind its body;
* `IsStack`: the functions with an insert block are those the generator is in, from
  the outermost to the innermost;
* `IsEnded`: only the innermost has a terminator at its insert block, and only where
  that is tolerated (`Tolerant`: at statements of a block, where a block is opened, and at the
  end of what contains statements), never in an expression;
* `KnowsParameters`: in a lambda its parameters have their allocas;
* `KnowsVariables`: for a declaration and a name in its scope (`InScopeOf`) that
  is not finished (`Pending`), the declaration has its alloca, or
  is not finished either, or the name is dead (`IsDead`): the generator is
  behind a return and opens no block before it has left the name out.

One lemma per action shows what it does to plan, functions and allocas
(`GeneratorStep`), and one per part that such a step keeps it.  At a name, `NamesInv` gives
the declaration that its entry belongs to, and that it comes before the name
in the text; it has been left then, and a name that is visited is not dead.

`ValuesAlwaysHaveTheirTypes` (`ValuesHaveTheirTypes`) and
`FailuresAlwaysHaveTheirCause` (`FailuresHaveTheirCause`) are about what flows through the
generator: an operand's value, a variable's alloca, a function's pointer.  None of
these is inductive without the others.  A value gets its type from values of operands, or from an
alloca, and an alloca from a value; that a value is there at all needs the order
of the generator; and what the types of nodes have to do with each other is the
analyzer's.  Of the analyzer (`AnalysisInv`) it takes

* `TypedInv`: in a program without errors, a node that was left has the type that its children
  demand (`TypedNode`): literals their own, an operator what its token makes of its first operand
  (`IsTypeOf`, a lemma on the table of signatures), a declaration that of
  its initial value, which is not void.  The table of signatures is searched with
  arbitrary types bound, so `KnownSignatures` and `IsSearch` say what
  any search through it can end with;
* `SymbolsInv`: the symbol that a declaration put in the table has the type of the
  declaration, and is a function or a variable as the declaration is.

and adds `ValueInv`:

* `HaveValues`: of the nodes the generator is in, the operands it is done with have
  values (it is done when they are not `Pending`);
* `KnowsFunctions`: a function has its `llvm::Function` from the moment its lambda is
  entered;
* `IsTypedValue`: a value represents the type of its node (`Represents`: it is its LLVM
  type, or a narrow boolean in a program that compares rationals), and is null only
  in a program that uses a function early;
* `IsTypedAlloca`: an alloca represents the type of its entry and is in the
  function around the declaration, so that an identifier in another function is a
  capture (`CurrentIsEnclosing` and `InnermostOfAll` show that the innermost
  open function is the one around the node);
* a function that the verifier will refuse, and a crash, have one of the causes.

The proof has one lemma per action.  A null pointer of a function at a name is traced
(`MissingFunctions`) to a declaration in a later function of the file: the functions before are
finished, and one that the generator is in knows itself.  Working on it changed the model in
two places: arguments of the type void were missing among the causes, and `WellFormed`
did not say how many operands an operator has.

**Rationals, for integers of any width and all operands.**  The assumptions are that there
are at least four integers (`LimitAssumption`) and that operands are pairs of
them.  The inductive invariant has two parts besides the types.  `SameDivisors`:
in the loop the registers have the common divisors that the numerator's absolute value and the
denominator (unsigned) have, which a step of Euclid's algorithm keeps.
`SameNumber`: cross products of value and number are equal, and the denominator
is positive in the loop when there is a number.  Results: `TypeCorrect`,
`Exact` (`ValuesAreExact`: the operations and the division by the gcd keep the
number), `Defined` (`UndefinedOnlyWithoutValue`) and `GreatestCommonDivisor`
(`GcdIsGreatest`).  The lemmas are about division with remainder, wrapping,
divisors, and products of fractions.  `Canonicity` (`SimpleValuesAreCanonical`) adds to the
invariant that a simplified value is in lowest terms (`Reduction`): a common
divisor of the two quotients would make a larger divisor out of the gcd.  Two
equal fractions in lowest terms are the same, because each has the least
denominator of all fractions that are equal to it.  `Comparison`
(`ComparisonsAreExact`) is about the cross products that the code compares.

**Arrays, for all widths, sizes of elements, variables and bounds.**  The
assumption is `ArraysAssumption`: the constants have their types, and the
bytes of an array *expression*, which is written down, can be counted.
The refinement is not inductive: that an element is stored in its block needs
that the address that was computed before the value was evaluated is still in
the block.  `IInv` says

* `HeapOK`: an array and its block have the same number and live equally
  long, connected or not; an array without data is alive and not large; all
  elements of a connected array are set unless it is large;
* `StackOK`: what the pointers are good for that an operation loaded before it
  waits for an operand (the index of an address is below the size, a population has set
  exactly the elements before its own), and every array without data is
  populated by exactly one operation (`PopulatedOnce`);
* `VariablesOK`: variables point to complete arrays of their type, or are null.

One lemma per action shows that it keeps `IInv` and is a step of
`ArrayObjects` under the mapping: the same operation when the heap is used
well, `Misuse` when the code comes to a block that is freed, null or too small,
and a stutter when only a block is filled.  Results: `TypeCorrect`,
`BlocksBelong` (`BlocksBelongToTheirArrays`) and `Implementation`
(`Spec => IsArrayObjects`).

**Driver and logger, for any number of errors and all command lines.**  `IInv`
adds to the types that the logger holds the first errors in order, that
errors exist only until the next check, and that internal errors and crashes find
the files as they were.  Results: `TypeCorrect`, `NoOutput` (`NoOutputFromErrors`),
`Summarizes` (`ErrorsAreSummarized`) and `KeepsFiles` (`FailuresKeepFiles`).  `OutputInv` adds what the output path is after each argument (the last
`-o` so far, `NamedOK`) and that no file changes before all of them were read
(`ChangesOK`).  Result: `WritesWhatIsNamed` (`OutputIsTheOneNamed`).

**Only model-checked**: the trees of the parser (`TreesAreDerived`,
`ProgramsAreAccepted`) and the typing rules (`AcceptsExactlyTheWellTyped`), whose
references are recursive; the agreement of execution and source
(`CodeFollowsSource`, `AcceptedLambdasWithElseReturn`), whose reference is
recursive; and liveness (`ScanningEnds`, `ParsingEnds`, `GenerationEnds`,
`GcdEnds`), which the prover cannot do.  Recursive operators and induction over data are out of its
reach as well.

## 5. What is not modelled, and the plan

What could come next, in this order:

1. **Composition**: the parser's trees as the programs of the analyzer; today
   each has its own set, and `Compiler` leaves its phases open.
2. **Integers and floating-point numbers** of the running program: the
   instructions are LLVM's, and the generated code adds a check for zero to one of them.

Left out for good: the printers and dumps (pure output), token classes (data),
the text of error messages and the formats of `printf`, the tables of C
functions and string constants in `CodegenContext` (each is a map that is filled on
first use), read errors of the input file, LLVM itself (modelled only as far as the
visitor relies on it), the message for a command line without a file name, build files
and tests.

## 6. Checking it

```
tlc -config MCCharStream.cfg MCCharStream
tlc -config MCScanner.cfg MCScanner
tlc -config MCParser.cfg MCParser
tlc -config MCSemanticAnalysis.cfg MCSemanticAnalysis
tlc -config MCUninitialized.cfg MCSemanticAnalysis  # reports the violation
tlc -config MCVoidParameter.cfg MCSemanticAnalysis  # reports the violation
tlc -config MCNarrowBoolean.cfg MCSemanticAnalysis  # reports the violation
tlc -config MCExecution.cfg MCExecution
tlc -config MCReturnPaths.cfg MCExecution           # reports the violation
tlc -config MCRationals.cfg MCRationals
tlc -config MCArrays.cfg MCArrays
tlc -config MCCompiler.cfg MCCompiler
tlapm CharStreamProofs.tla; tlapm CompilerProofs.tla
tlapm ScannerProofs.tla; tlapm RationalsProofs.tla; tlapm ArraysProofs.tla
tlapm SemanticAnalysisProofs.tla; tlapm TypedGenerationProofs.tla; tlapm CodeGenerationProofs.tla
```

The longest, `MCArrays`, takes about two minutes with two workers, and
of the proofs `CodeGenerationProofs` about seventeen minutes, `SemanticAnalysisProofs`
and `TypedGenerationProofs` about eight each, and the others up to three.

Definitions whose comment begins with "Mutant" are faulty variants of the
definition that follows them.  They are not part of the models: putting one in
the place of the original makes TLC report the property that `PROJECT.json`
pairs it with, which shows that the property can fail.
