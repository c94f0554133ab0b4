---------------------------- MODULE ArrayObjects ----------------------------
(***************************************************************************)
(* What arrays are to the programmer: objects with elements, which are     *)
(* passed around by reference, indexed, measured, printed and deallocated. *)
(*                                                                         *)
(* A program is any sequence of operations on a stack of operands: a call  *)
(* in an operand runs statements of other functions before the operation   *)
(* goes on.  An index that is out of range stops the program with an       *)
(* error.  Anything may happen to a program that uses an array that was    *)
(* deallocated, one that was never set, or one with too many elements for  *)
(* their bytes to be counted.                                              *)
(***************************************************************************)
EXTENDS Integers, Sequences

CONSTANTS
  Limit,        \* integers are -Limit .. Limit - 1
  Number,       \* the integers of the program
  Variable,
  VariableType, \* the type of the elements of a variable's array
  ElementSize,  \* the size of an element of each type, in bytes
  Length,       \* the lengths of array expressions
  MaxStack, MaxArrays

VARIABLES
  objects,    \* the arrays by their references
  variables,  \* the references in the variables that were declared
  stack,      \* operands, and operations that wait for one
  status      \* running, stopped with an error, out of memory, or undefined

vars == <<objects, variables, stack, status>>

ElementType == {"int", "array"}
Reference   == 1 .. MaxArrays

Operand(kind, t, v) == [kind |-> kind, of |-> t, value |-> v, index |-> 0, elements |-> <<>>]
Num(n)      == Operand("number", "int", n)
Arr(t, ref) == Operand("array", t, ref)

\* The element v of type t as an operand, and the operands that are such elements.
Element(t, v) == IF t = "int" THEN Num(v) ELSE Arr("int", v)
IsElement(x, t) ==
  IF t = "int" THEN x.kind = "number" ELSE x.kind = "array" /\ x.of = "int"

Running == status = "running"
Has(n)  == Running /\ Len(stack) >= n
Top     == stack[Len(stack)]
Below   == stack[Len(stack) - 1]
Pop(n)  == SubSeq(stack, 1, Len(stack) - n)
Push(x) == Len(stack) < MaxStack /\ stack' = Append(stack, x)
Replace(n, x) == stack' = Append(Pop(n), x)
Stop(how)     == status' = how /\ UNCHANGED <<objects, variables, stack>>

Size(r)    == Len(objects[r].elements)
IsLive(r)  == r \in DOMAIN objects /\ objects[r].live
IsLarge(r) == Size(r) * ElementSize[objects[r].of] >= 2 * Limit
IsBad(r)   == ~IsLive(r) \/ IsLarge(r)

\* The references that an operation uses when x is its operand; printing uses the elements.
Uses(x) ==
  IF x.kind \in {"array", "indexing", "address"} THEN {x.value} ELSE {}
Prints(x) ==
  {x.value} \cup (IF x.of = "array" /\ IsLive(x.value)
                  THEN {objects[x.value].elements[i] : i \in 1 .. Size(x.value)} ELSE {})

\* A new object, and the operand that refers to it instead of the n topmost.
Create(n, t, elements) ==
  \E r \in Reference \ DOMAIN objects :
    /\ objects' = [q \in DOMAIN objects \cup {r} |->
                     IF q = r THEN [of |-> t, live |-> TRUE, elements |-> elements] ELSE objects[q]]
    /\ Replace(n, Arr(t, r))

-----------------------------------------------------------------------------
LoadNumber ==
  /\ Running
  /\ \E n \in Number : Push(Num(n))
  /\ UNCHANGED <<objects, variables, status>>

LoadVariable ==
  /\ Running
  /\ \E x \in DOMAIN variables : Push(Arr(VariableType[x], variables[x]))
  /\ UNCHANGED <<objects, variables, status>>

StoreVariable ==
  /\ Has(1)
  /\ Top.kind = "array"
  /\ \E x \in Variable :
       /\ VariableType[x] = Top.of
       /\ variables' = [y \in DOMAIN variables \cup {x} |-> IF y = x THEN Top.value ELSE variables[y]]
  /\ stack' = Pop(1)
  /\ UNCHANGED <<objects, status>>

Discard ==
  /\ Has(1)
  /\ Top.kind \in {"number", "array"}
  /\ stack' = Pop(1)
  /\ UNCHANGED <<objects, variables, status>>

\* alloc gives an array of zeros.
Alloc ==
  /\ Has(1)
  /\ Top.kind = "number"
  /\ \/ Top.value < 0 /\ Stop("stopped")
     \/ /\ Top.value >= 0
        /\ \E t \in ElementType : Create(1, t, [i \in 1 .. Top.value |-> 0])
        /\ UNCHANGED <<variables, status>>

BeginArray ==
  /\ Running
  /\ \E t \in ElementType, k \in Length : Push(Operand("populating", t, k))
  /\ UNCHANGED <<objects, variables, status>>

AddElement ==
  /\ Has(2)
  /\ Below.kind = "populating"
  /\ Len(Below.elements) < Below.value
  /\ IsElement(Top, Below.of)
  /\ Replace(2, [Below EXCEPT !.elements = Append(@, Top.value)])
  /\ UNCHANGED <<objects, variables, status>>

EndArray ==
  /\ Has(1)
  /\ Top.kind = "populating"
  /\ Len(Top.elements) = Top.value
  /\ Create(1, Top.of, Top.elements)
  /\ UNCHANGED <<variables, status>>

BeginIndexing ==
  /\ Has(1)
  /\ Top.kind = "array"
  /\ Replace(1, Operand("indexing", Top.of, Top.value))
  /\ UNCHANGED <<objects, variables, status>>

\* An element is read, or its place kept for an assignment.
EndIndexing ==
  /\ Has(2)
  /\ Below.kind = "indexing" /\ Top.kind = "number"
  /\ \/ Top.value < 0 /\ Stop("stopped")
     \/ IsLive(Below.value) /\ Top.value >= Size(Below.value) /\ Stop("stopped")
     \/ /\ IsLive(Below.value)
        /\ Top.value \in 0 .. Size(Below.value) - 1
        /\ \/ Replace(2, Element(Below.of, objects[Below.value].elements[Top.value + 1]))
           \/ Replace(2, [Operand("address", Below.of, Below.value) EXCEPT !.index = Top.value])
        /\ UNCHANGED <<objects, variables, status>>

StoreElement ==
  /\ Has(2)
  /\ Below.kind = "address"
  /\ IsElement(Top, Below.of)
  /\ IsLive(Below.value)
  /\ objects' = [objects EXCEPT ![Below.value].elements[Below.index + 1] = Top.value]
  /\ stack' = Pop(2)
  /\ UNCHANGED <<variables, status>>

Sizeof ==
  /\ Has(1)
  /\ Top.kind = "array"
  /\ IsLive(Top.value)
  /\ Replace(1, Num(Size(Top.value)))
  /\ UNCHANGED <<objects, variables, status>>

PrintStatement ==
  /\ Has(1)
  /\ Top.kind = "array"
  /\ \A r \in Prints(Top) : IsLive(r)
  /\ stack' = Pop(1)
  /\ UNCHANGED <<objects, variables, status>>

Dealloc ==
  /\ Has(1)
  /\ Top.kind = "array"
  /\ IsLive(Top.value)
  /\ objects' = [objects EXCEPT ![Top.value].live = FALSE]
  /\ stack' = Pop(1)
  /\ UNCHANGED <<variables, status>>

\* An operation on what is no array any more, none yet, or a large one.
Misuse ==
  /\ Has(1)
  /\ \/ \E k \in {Len(stack), Len(stack) - 1} \ {0} : \E r \in Uses(stack[k]) : IsBad(r)
     \/ Top.kind = "array" /\ \E r \in Prints(Top) : IsBad(r)
  /\ Stop("undefined")

\* There is no memory for an array.
Exhaust ==
  /\ Running
  /\ Stop("out of memory")

Init ==
  /\ objects = <<>>
  /\ variables = <<>>
  /\ stack = <<>>
  /\ status = "running"

Next ==
  \/ LoadNumber \/ LoadVariable \/ StoreVariable \/ Discard \/ Alloc
  \/ BeginArray \/ AddElement \/ EndArray \/ BeginIndexing \/ EndIndexing
  \/ StoreElement \/ Sizeof \/ PrintStatement \/ Dealloc \/ Misuse \/ Exhaust

Spec == Init /\ [][Next]_vars
=============================================================================
