------------------------------- MODULE Arrays -------------------------------
(***************************************************************************)
(* Arrays in a running program, as the generated code keeps them: a        *)
(* PunktArray with a size and a pointer, and a block with the data, both   *)
(* from malloc.                                                            *)
(*                                                                         *)
(* The generated code of one operation loads, checks and stores in an      *)
(* order that its operands interrupt: an operand may be a call, and then   *)
(* any other operations run before it goes on.  A program is any sequence  *)
(* of operations on a stack of operands that static typing allows.  What   *)
(* is freed is never allocated again: the first access to it is where the  *)
(* behaviour is undefined, and where the model stops.                      *)
(***************************************************************************)
EXTENDS Integers, Sequences

CONSTANTS
  Limit,        \* integers are -Limit .. Limit - 1
  Number,       \* the integers of the program
  Variable,
  VariableType, \* the type of the elements of a variable's array
  ElementSize,  \* the size of an element of each type, in bytes
  Length,       \* the lengths of array expressions
  MaxStack, MaxArrays

\* Arrays have integers as elements, or arrays of integers.
ElementType == {"int", "array"}

\* Array expressions are written down: their bytes can be counted.
ASSUME ArraysAssumption ==
  /\ Limit \in Nat \ {0}
  /\ Number \subseteq -Limit .. Limit - 1
  /\ VariableType \in [Variable -> ElementType]
  /\ ElementSize \in [ElementType -> Nat \ {0}]
  /\ Length \subseteq 1 .. Limit - 1
  /\ \A k \in Length, t \in ElementType : k * ElementSize[t] < 2 * Limit
  /\ MaxStack \in Nat
  /\ MaxArrays \in Nat

VARIABLES
  arrays,     \* the PunktArrays by their addresses; the type of the elements is static
  blocks,     \* the blocks of data: how many bytes, which elements were set, and to what
  variables,  \* the pointers in the variables that were declared
  stack,      \* operands, and operations that wait for one
  status      \* running, stopped with an error, out of memory, or undefined

vars == <<arrays, blocks, variables, stack, status>>

\* Addresses count from one.
Null == 0

Operand(kind, t, v, d, i) == [kind |-> kind, of |-> t, value |-> v, data |-> d, index |-> i]
Num(n)    == Operand("number", "int", n, Null, 0)
Arr(t, a) == Operand("array", t, a, Null, 0)

\* The element v of type t as an operand, and the operands that are such elements.
Element(t, v) == IF t = "int" THEN Num(v) ELSE Arr("int", v)
IsElement(x, t) ==
  IF t = "int" THEN x.kind = "number" ELSE x.kind = "array" /\ x.of = "int"

Running == status = "running"
Has(n)  == Running /\ Len(stack) >= n
Top     == stack[Len(stack)]
Below   == stack[Len(stack) - 1]
Pop(n)  == SubSeq(stack, 1, Len(stack) - n)
Push(x) == Len(stack) < MaxStack /\ stack' = Append(stack, x)
Replace(n, x) == stack' = Append(Pop(n), x)

\* GenerateRuntimeErrorWithMessage, an access outside of the memory that is allocated,
\* and one to what malloc gives when there is none.
Stop(how)    == status' = how /\ UNCHANGED <<arrays, blocks, variables, stack>>
RuntimeError == Stop("stopped")
Undefined    == Stop("undefined")
OutOfMemory  == Stop("out of memory")

Unsigned(n) == n % (2 * Limit)

IsArray(a) == a \in 1 .. Len(arrays) /\ arrays[a].live
IsBlock(d) == d \in 1 .. Len(blocks) /\ blocks[d].live

\* The element at index i lies in the block.
Inside(d, i, t)   == IsBlock(d) /\ (i + 1) * ElementSize[t] <= blocks[d].bytes
Readable(d, i, t) == Inside(d, i, t) /\ i \in blocks[d].set
Write(d, i, v)    == blocks' = [blocks EXCEPT ![d].set = @ \cup {i}, ![d].cells[i] = v]


\* The bytes that are asked for are a product of machine integers.
DataSize(n, t) == Unsigned(n * ElementSize[t])

\* The elements that memset sets when it sets all bytes.
AllElements(n, t) == 0 .. (DataSize(n, t) \div ElementSize[t]) - 1

\* malloc of a PunktArray and of its data.
Malloc(t, n, data, set) ==
  /\ Len(arrays) < MaxArrays
  /\ arrays' = Append(arrays, [of |-> t, live |-> TRUE, size |-> n, data |-> data])
  /\ blocks' = Append(blocks, [live |-> TRUE, bytes |-> DataSize(n, t), set |-> set,
                               cells |-> [i \in 0 .. 2 * Limit - 1 |-> 0]])

NewArray == Len(arrays) + 1
NewBlock == Len(blocks) + 1

-----------------------------------------------------------------------------
LoadNumber ==
  /\ Running
  /\ \E n \in Number : Push(Num(n))
  /\ UNCHANGED <<arrays, blocks, variables, status>>

LoadVariable ==
  /\ Running
  /\ \E x \in DOMAIN variables : Push(Arr(VariableType[x], variables[x]))
  /\ UNCHANGED <<arrays, blocks, variables, status>>

\* The pointer is copied.
StoreVariable ==
  /\ Has(1)
  /\ Top.kind = "array"
  /\ \E x \in Variable :
       /\ VariableType[x] = Top.of
       /\ variables' = [y \in DOMAIN variables \cup {x} |-> IF y = x THEN Top.value ELSE variables[y]]
  /\ stack' = Pop(1)
  /\ UNCHANGED <<arrays, blocks, status>>

ExpressionStatement ==
  /\ Has(1)
  /\ Top.kind \in {"number", "array"}
  /\ stack' = Pop(1)
  /\ UNCHANGED <<arrays, blocks, variables, status>>

\* Mutant: the size is not checked.
AllocUnchecked ==
  /\ Has(1)
  /\ Top.kind = "number"
  /\ \/ OutOfMemory
     \/ /\ \E t \in ElementType :
             /\ Malloc(t, Top.value, NewBlock, AllElements(Top.value, t))
             /\ Replace(1, Arr(t, NewArray))
        /\ UNCHANGED <<variables, status>>

\* The size is checked before anything is allocated; all of the data is set to zero.
AllocExpression ==
  /\ Has(1)
  /\ Top.kind = "number"
  /\ \/ Top.value < 0 /\ RuntimeError
     \/ Top.value >= 0 /\ OutOfMemory
     \/ /\ Top.value >= 0
        /\ \E t \in ElementType :
             /\ Malloc(t, Top.value, NewBlock, AllElements(Top.value, t))
             /\ Replace(1, Arr(t, NewArray))
        /\ UNCHANGED <<variables, status>>

\* Array and data are allocated before the elements are evaluated, and connected after that.
BeginPopulatedArray ==
  /\ Running
  /\ Len(stack) + 1 < MaxStack
  /\ \/ OutOfMemory
     \/ /\ \E t \in ElementType, k \in Length :
             /\ Malloc(t, k, Null, {})
             /\ Push(Operand("populating", t, NewArray, NewBlock, 0))
        /\ UNCHANGED <<variables, status>>

PopulateElement ==
  /\ Has(2)
  /\ Below.kind = "populating"
  /\ Below.index < arrays[Below.value].size
  /\ IsElement(Top, Below.of)
  /\ \/ ~Inside(Below.data, Below.index, Below.of) /\ Undefined
     \/ /\ Inside(Below.data, Below.index, Below.of)
        /\ Write(Below.data, Below.index, Top.value)
        /\ Replace(2, [Below EXCEPT !.index = @ + 1])
        /\ UNCHANGED <<arrays, variables, status>>

EndPopulatedArray ==
  /\ Has(1)
  /\ Top.kind = "populating"
  /\ Top.index = arrays[Top.value].size
  /\ arrays' = [arrays EXCEPT ![Top.value].data = Top.data]
  /\ Replace(1, Arr(Top.of, Top.value))
  /\ UNCHANGED <<blocks, variables, status>>

\* The pointer to the data is loaded before the index is evaluated.
BeginArrayIndexing ==
  /\ Has(1)
  /\ Len(stack) < MaxStack
  /\ Top.kind = "array"
  /\ \/ ~IsArray(Top.value) /\ Undefined
     \/ /\ IsArray(Top.value)
        /\ Replace(1, Operand("indexing", Top.of, Top.value, arrays[Top.value].data, 0))
        /\ UNCHANGED <<arrays, blocks, variables, status>>

\* Mutant: the index after the last is let through.
BeyondSizeOffByOne(i, a) == Unsigned(i) > Unsigned(arrays[a].size)

\* array_ooo_check
BeyondSize(i, a) == Unsigned(i) >= Unsigned(arrays[a].size)

EndArrayIndexing ==
  LET i == Top.value
      a == Below.value
  IN  /\ Has(2)
      /\ Below.kind = "indexing" /\ Top.kind = "number"
      /\ \/ i < 0 /\ RuntimeError
         \/ i >= 0 /\ ~IsArray(a) /\ Undefined
         \/ i >= 0 /\ IsArray(a) /\ BeyondSize(i, a) /\ RuntimeError
         \/ /\ i >= 0 /\ IsArray(a) /\ ~BeyondSize(i, a)
            /\ Replace(2, Operand("address", Below.of, Null, Below.data, i))
            /\ UNCHANGED <<arrays, blocks, variables, status>>
         \/ /\ i >= 0 /\ IsArray(a) /\ ~BeyondSize(i, a)
            /\ ~Readable(Below.data, i, Below.of)
            /\ Undefined
         \/ /\ i >= 0 /\ IsArray(a) /\ ~BeyondSize(i, a)
            /\ Readable(Below.data, i, Below.of)
            /\ Replace(2, Element(Below.of, blocks[Below.data].cells[i]))
            /\ UNCHANGED <<arrays, blocks, variables, status>>

\* The address was computed before the value was.
AssignElement ==
  /\ Has(2)
  /\ Below.kind = "address"
  /\ IsElement(Top, Below.of)
  /\ \/ ~Inside(Below.data, Below.index, Below.of) /\ Undefined
     \/ /\ Inside(Below.data, Below.index, Below.of)
        /\ Write(Below.data, Below.index, Top.value)
        /\ stack' = Pop(2)
        /\ UNCHANGED <<arrays, variables, status>>

ArraySizeof ==
  /\ Has(1)
  /\ Top.kind = "array"
  /\ \/ ~IsArray(Top.value) /\ Undefined
     \/ /\ IsArray(Top.value)
        /\ Replace(1, Num(arrays[Top.value].size))
        /\ UNCHANGED <<arrays, blocks, variables, status>>

\* Every element up to the size is loaded, and printed in the same way if it is an array.
CanPrint(t, a) ==
  IsArray(a) /\ \A i \in 0 .. arrays[a].size - 1 : Readable(arrays[a].data, i, t)

PrintStatement ==
  LET CanPrintAll ==
        /\ CanPrint(Top.of, Top.value)
        /\ Top.of = "array" =>
             \A i \in 0 .. arrays[Top.value].size - 1 :
               CanPrint("int", blocks[arrays[Top.value].data].cells[i])
  IN  /\ Has(1)
      /\ Top.kind = "array"
      /\ \/ ~CanPrintAll /\ Undefined
         \/ /\ CanPrintAll
            /\ stack' = Pop(1)
            /\ UNCHANGED <<arrays, blocks, variables, status>>

\* Mutant: the data is not freed.
FreeArrayOnly(a, d) ==
  /\ arrays' = [arrays EXCEPT ![a].live = FALSE]
  /\ UNCHANGED blocks

\* The data is freed, then the array.
Free(a, d) ==
  /\ blocks' = [blocks EXCEPT ![d].live = FALSE]
  /\ arrays' = [arrays EXCEPT ![a].live = FALSE]

\* Variables and elements keep their pointers.
Dealloc ==
  LET d == arrays[Top.value].data
  IN  /\ Has(1)
      /\ Top.kind = "array"
      /\ \/ ~(IsArray(Top.value) /\ IsBlock(d)) /\ Undefined
         \/ /\ IsArray(Top.value) /\ IsBlock(d)
            /\ Free(Top.value, d)
            /\ stack' = Pop(1)
            /\ UNCHANGED <<variables, status>>

Ended == ~Running /\ UNCHANGED vars

Init ==
  /\ arrays = <<>>
  /\ blocks = <<>>
  /\ variables = <<>>
  /\ stack = <<>>
  /\ status = "running"

Next ==
  \/ LoadNumber \/ LoadVariable \/ StoreVariable \/ ExpressionStatement
  \/ AllocExpression \/ BeginPopulatedArray \/ PopulateElement \/ EndPopulatedArray
  \/ BeginArrayIndexing \/ EndArrayIndexing \/ AssignElement
  \/ ArraySizeof \/ PrintStatement \/ Dealloc \/ Ended

Spec == Init /\ [][Next]_vars

-----------------------------------------------------------------------------
(* Correctness.                                                            *)

Kind == {"number", "array", "populating", "indexing", "address"}

TypeOK ==
  /\ arrays \in Seq([of : ElementType, live : BOOLEAN, size : 0 .. Limit - 1, data : Nat])
  /\ blocks \in Seq([live : BOOLEAN, bytes : 0 .. 2 * Limit - 1,
                     set : SUBSET (0 .. 2 * Limit - 1), cells : [0 .. 2 * Limit - 1 -> Int]])
  /\ DOMAIN variables \subseteq Variable
  /\ \A x \in DOMAIN variables : variables[x] \in Nat
  /\ stack \in Seq([kind : Kind, of : ElementType, value : Int, data : Nat, index : Nat])
  /\ status \in {"running", "stopped", "out of memory", "undefined"}

Connected(a) == arrays[a].data # Null

\* A block is allocated as long as its array is, no two arrays share one, and a block
\* without an array waits for its elements: nothing leaks and nothing is freed twice.
BlocksBelongToTheirArrays ==
  /\ \A a, b \in 1 .. Len(arrays) :
       Connected(a) /\ arrays[a].data = arrays[b].data => a = b
  /\ \A a \in 1 .. Len(arrays) :
       Connected(a) => arrays[a].live = blocks[arrays[a].data].live
  /\ \A d \in 1 .. Len(blocks) :
       \/ \E a \in 1 .. Len(arrays) : arrays[a].data = d
       \/ \E k \in 1 .. Len(stack) : stack[k].kind = "populating" /\ stack[k].data = d

-----------------------------------------------------------------------------
(* The objects that the arrays stand for: an array expression is one when  *)
(* it is connected, and an address stands for the array with its block,    *)
(* which has the same number as the array.                                 *)

CellsOf(B, d, n) ==
  [i \in 1 .. n |-> IF i - 1 \in B[d].set THEN B[d].cells[i - 1] ELSE Null]

ObjectOf(A, B, a) ==
  [of |-> A[a].of, live |-> A[a].live, elements |-> CellsOf(B, A[a].data, A[a].size)]

Abstract(kind, t, v, i, elements) ==
  [kind |-> kind, of |-> t, value |-> v, index |-> i, elements |-> elements]

OperandOf(A, B, x) ==
  CASE x.kind = "populating" ->
         Abstract(x.kind, x.of, A[x.value].size, 0, CellsOf(B, x.data, x.index))
    [] x.kind = "address" -> Abstract(x.kind, x.of, x.data, x.index, <<>>)
    [] OTHER -> Abstract(x.kind, x.of, x.value, 0, <<>>)

ObjectsOf(A, B)  == [a \in {b \in 1 .. Len(A) : A[b].data # Null} |-> ObjectOf(A, B, a)]
StackOf(A, B, S) == [k \in 1 .. Len(S) |-> OperandOf(A, B, S[k])]

Objects == INSTANCE ArrayObjects WITH
  objects <- ObjectsOf(arrays, blocks),
  stack   <- StackOf(arrays, blocks, stack)

\* The generated code does what arrays promise: elements keep what was stored in them and
\* in no other array, sizes are what they were, errors stop exactly the accesses that are
\* out of range, and no access leaves its block unless the program used an array that was
\* deallocated, never set or too large.
IsArrayObjects == Objects!Spec
=============================================================================
