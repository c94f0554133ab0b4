---------------------------- MODULE ArraysProofs ----------------------------
(***************************************************************************)
(* Arrays implements ArrayObjects, for all widths of integers and sizes of *)
(* elements.                                                               *)
(*                                                                         *)
(* The inductive invariant says to whom a block belongs before and after   *)
(* its array is connected to it, and what the pointers are good for that   *)
(* an operation loaded before it waits for an operand.                     *)
(***************************************************************************)
EXTENDS Arrays, TLAPS

Integer == -Limit .. Limit - 1
Offset  == 0 .. 2 * Limit - 1

Arrayz  == [of : ElementType, live : BOOLEAN, size : 0 .. Limit - 1, data : Nat]
Blockz  == [live : BOOLEAN, bytes : Offset, set : SUBSET Offset, cells : [Offset -> Int]]
Operands == [kind : Kind, of : ElementType, value : Int, data : Nat, index : Nat]

\* The pointer v is null or to an array with elements of type t that is complete.
Pointer(A, t, v) ==
  v = Null \/ (v \in 1 .. Len(A) /\ A[v].data = v /\ A[v].of = t)

\* What an element of type t may hold.
Fits(A, t, v) == v \in Int /\ IF t = "int" THEN v \in Integer ELSE Pointer(A, "int", v)

Large(n, t) == n * ElementSize[t] >= 2 * Limit

\* An array and its block have the same number, whether or not they are connected.
ArrayOK(A, B, a) ==
  /\ A[a].data \in {Null, a}
  /\ A[a].live = B[a].live
  /\ A[a].data = Null => A[a].live /\ ~Large(A[a].size, A[a].of)
  /\ B[a].bytes = DataSize(A[a].size, A[a].of)
  /\ \A i \in Offset : Fits(A, A[a].of, B[a].cells[i])
  /\ A[a].data = a /\ ~Large(A[a].size, A[a].of) => B[a].set = 0 .. A[a].size - 1

HeapOK(A, B) ==
  /\ A \in Seq(Arrayz)
  /\ B \in Seq(Blockz)
  /\ Len(B) = Len(A)
  /\ Len(A) <= MaxArrays
  /\ \A a \in 1 .. Len(A) : ArrayOK(A, B, a)

\* The pointers that an operand holds.
OperandOK(A, B, x) ==
  /\ x.kind = "number" => x.value \in Integer
  /\ x.kind = "array" => Pointer(A, x.of, x.value)
  /\ x.kind = "indexing" => Pointer(A, x.of, x.value) /\ x.value # Null /\ x.data = x.value
  /\ x.kind = "address" =>
       Pointer(A, x.of, x.data) /\ x.data # Null /\ x.index < A[x.data].size
  /\ x.kind = "populating" =>
       /\ x.value = x.data
       /\ x.data \in 1 .. Len(A)
       /\ A[x.data].data = Null
       /\ A[x.data].of = x.of
       /\ x.index <= A[x.data].size
       /\ B[x.data].set = 0 .. x.index - 1

Populates(x, a) == x.kind = "populating" /\ x.data = a

\* Every array without data is populated by an operation, and none by two.
PopulatedOnce(A, S) ==
  /\ \A a \in 1 .. Len(A) : A[a].data = Null => \E k \in 1 .. Len(S) : Populates(S[k], a)
  /\ \A j, k \in 1 .. Len(S) :
       Populates(S[j], S[k].data) /\ Populates(S[k], S[j].data) => j = k

StackTyped(A, B, S) ==
  /\ S \in Seq(Operands)
  /\ \A k \in 1 .. Len(S) : OperandOK(A, B, S[k])

StackOK(A, B, S) == StackTyped(A, B, S) /\ PopulatedOnce(A, S)

VariablesOK(A, V) ==
  /\ DOMAIN V \subseteq Variable
  /\ \A x \in DOMAIN V : V[x] \in Nat /\ Pointer(A, VariableType[x], V[x])

IInv ==
  /\ HeapOK(arrays, blocks)
  /\ StackOK(arrays, blocks, stack)
  /\ VariablesOK(arrays, variables)
  /\ status \in {"running", "stopped", "out of memory", "undefined"}

-----------------------------------------------------------------------------
(* Numbers.                                                                *)

\* The division of natural numbers.
LEMMA Quotients ==
  ASSUME NEW a \in Nat, NEW b \in Nat \ {0}
  PROVE  /\ a \div b \in Nat
         /\ a % b \in 0 .. b - 1
         /\ a = b * (a \div b) + (a % b)
  OBVIOUS

\* Products grow with their factors.
LEMMA Products ==
  ASSUME NEW m \in Nat, NEW n \in Nat, NEW e \in Nat \ {0}
  PROVE  /\ m * e \in Nat
         /\ m <= m * e
         /\ m <= n => m * e <= n * e
         /\ m < n => m * e + e <= n * e
<1>1. m * e \in Nat /\ m <= m * e
  OBVIOUS
<1>2. ASSUME m <= n PROVE m * e <= n * e
  <2>1. n = m + (n - m) /\ n - m \in Nat
    BY <1>2
  <2>2. n * e = m * e + (n - m) * e /\ (n - m) * e \in Nat
    BY <2>1
  <2> QED BY <1>1, <2>2
<1>3. ASSUME m < n PROVE m * e + e <= n * e
  <2>1. n = m + 1 + (n - m - 1) /\ n - m - 1 \in Nat
    BY <1>3
  <2>2. n * e = m * e + e + (n - m - 1) * e /\ (n - m - 1) * e \in Nat
    BY <2>1
  <2> QED BY <1>1, <2>2
<1> QED BY <1>1, <1>2, <1>3

\* A quotient without remainder.
LEMMA ExactQuotient ==
  ASSUME NEW n \in Nat, NEW e \in Nat \ {0}
  PROVE  (n * e) \div e = n
<1> DEFINE q == (n * e) \div e
           r == (n * e) % e
<1>1. n * e \in Nat
  BY Products
<1>2. q \in Nat /\ r \in 0 .. e - 1 /\ n * e = e * q + r
  BY <1>1, Quotients
<1> HIDE DEF q, r
<1>3. n * e = q * e + r
  BY <1>2
<1>4. ~(q < n)
  <2>1. SUFFICES ASSUME q < n PROVE FALSE
    OBVIOUS
  <2>2. q * e + e <= n * e /\ q * e \in Nat
    BY <1>2, <2>1, Products
  <2> QED BY <1>1, <1>2, <1>3, <2>2
<1>5. ~(n < q)
  <2>1. SUFFICES ASSUME n < q PROVE FALSE
    OBVIOUS
  <2>2. n * e + e <= q * e /\ q * e \in Nat
    BY <1>2, <2>1, Products
  <2> QED BY <1>1, <1>2, <1>3, <2>2
<1>6. q = n
  BY <1>2, <1>4, <1>5
<1> QED BY <1>6 DEF q

\* What fits into a machine integer is its own unsigned value.
LEMMA UnsignedOf ==
  ASSUME NEW n \in Nat
  PROVE  /\ Unsigned(n) \in Offset
         /\ n < 2 * Limit => Unsigned(n) = n
<1> DEFINE b == 2 * Limit
<1>1. b \in Nat \ {0}
  BY ArraysAssumption
<1>2. n \div b \in Nat /\ n % b \in 0 .. b - 1 /\ n = b * (n \div b) + (n % b)
  BY <1>1, Quotients
<1>3. n < b => n \div b = 0
  <2>1. SUFFICES ASSUME n < b, n \div b >= 1 PROVE FALSE
    BY <1>2
  <2> HIDE DEF b
  <2>2. b * (n \div b) >= b
    BY <1>1, <1>2, <2>1
  <2> QED BY <1>1, <1>2, <2>1, <2>2
<1>4. n < b => n % b = n
  BY <1>1, <1>2, <1>3
<1> QED BY <1>2, <1>4 DEF Unsigned, Offset

\* The bytes of an array that is not large are those of its elements.
LEMMA DataSizes ==
  ASSUME NEW n \in Nat, NEW t \in ElementType
  PROVE  /\ DataSize(n, t) \in Offset
         /\ AllElements(n, t) \subseteq Offset
         /\ ~Large(n, t) => DataSize(n, t) = n * ElementSize[t]
         /\ ~Large(n, t) => AllElements(n, t) = 0 .. n - 1
<1> DEFINE e == ElementSize[t]
<1>1. e \in Nat \ {0} /\ n * e \in Nat /\ 2 * Limit \in Nat
  BY ArraysAssumption, Products
<1>2. /\ DataSize(n, t) \in Offset
      /\ ~Large(n, t) => DataSize(n, t) = n * e
  BY <1>1, UnsignedOf DEF DataSize, Large
<1>3. AllElements(n, t) \subseteq Offset
  <2> DEFINE s == DataSize(n, t)
             q == s \div e
  <2>1. s \in Nat /\ s < 2 * Limit
    BY <1>1, <1>2 DEF Offset
  <2> HIDE DEF s, e
  <2>2. q \in Nat /\ s % e \in Nat /\ s = e * q + (s % e)
    <3>1. s \div e \in Nat /\ s % e \in 0 .. e - 1 /\ s = e * (s \div e) + (s % e)
      BY <1>1, <2>1, Quotients
    <3> QED BY <1>1, <3>1
  <2> HIDE DEF q
  <2>3. q <= q * e /\ q * e \in Nat /\ q * e = e * q
    BY <1>1, <2>2, Products
  <2>4. q < 2 * Limit
    BY <1>1, <2>1, <2>2, <2>3
  <2> QED BY <1>1, <2>2, <2>4 DEF e, s, q, AllElements, Offset
<1>4. ~Large(n, t) => AllElements(n, t) = 0 .. n - 1
  BY <1>1, <1>2, ExactQuotient DEF AllElements
<1> QED BY <1>2, <1>3, <1>4

\* An element that lies in a block is one of those that can be counted, and those below
\* the size of an array that is not large lie in its block.
LEMMA Elements ==
  ASSUME NEW i \in Nat, NEW n \in Nat, NEW t \in ElementType
  PROVE  /\ (i + 1) * ElementSize[t] <= DataSize(n, t) => i \in Offset
         /\ ~Large(n, t) /\ i < n => (i + 1) * ElementSize[t] <= DataSize(n, t)
<1> DEFINE e == ElementSize[t]
<1>1. e \in Nat \ {0} /\ 2 * Limit \in Nat /\ i + 1 \in Nat
  BY ArraysAssumption
<1>2. i + 1 <= (i + 1) * e /\ (i + 1) * e \in Nat
  BY <1>1, Products
<1>3. i < n => (i + 1) * e <= n * e
  BY <1>1, Products
<1>4. DataSize(n, t) \in Offset /\ (~Large(n, t) => DataSize(n, t) = n * e)
  BY DataSizes
<1> QED BY <1>1, <1>2, <1>3, <1>4 DEF Offset

-----------------------------------------------------------------------------
(* Sequences.                                                              *)

\* The end of a sequence.
LEMMA Popped ==
  ASSUME NEW X, NEW s \in Seq(X), NEW n \in 0 .. Len(s)
  PROVE  LET p == SubSeq(s, 1, Len(s) - n)
         IN  /\ p \in Seq(X)
             /\ Len(p) = Len(s) - n
             /\ \A k \in 1 .. Len(s) - n : p[k] = s[k]
  OBVIOUS

\* A sequence with one more element.
LEMMA Pushed ==
  ASSUME NEW X, NEW s \in Seq(X), NEW x \in X
  PROVE  /\ Append(s, x) \in Seq(X)
         /\ Len(Append(s, x)) = Len(s) + 1
         /\ \A k \in 1 .. Len(s) : Append(s, x)[k] = s[k]
         /\ Append(s, x)[Len(s) + 1] = x
  OBVIOUS

\* A sequence with another element at one place.
LEMMA Replaced ==
  ASSUME NEW X, NEW s \in Seq(X), NEW k \in 1 .. Len(s), NEW x \in X
  PROVE  /\ [s EXCEPT ![k] = x] \in Seq(X)
         /\ Len([s EXCEPT ![k] = x]) = Len(s)
         /\ [s EXCEPT ![k] = x][k] = x
         /\ \A j \in 1 .. Len(s) : j # k => [s EXCEPT ![k] = x][j] = s[j]
  OBVIOUS

-----------------------------------------------------------------------------
(* The stack.                                                              *)

\* Operands leave the stack, and none of them populates an array.
LEMMA PopKeeps ==
  ASSUME NEW A, NEW B, NEW S, StackOK(A, B, S), NEW n \in 0 .. Len(S),
         \A k \in Len(S) - n + 1 .. Len(S) : S[k].kind # "populating"
  PROVE  StackOK(A, B, SubSeq(S, 1, Len(S) - n))
<1> DEFINE T == SubSeq(S, 1, Len(S) - n)
<1>1. /\ S \in Seq(Operands) /\ Len(S) \in Nat
      /\ \A k \in 1 .. Len(S) : OperandOK(A, B, S[k])
      /\ PopulatedOnce(A, S)
  BY DEF StackOK, StackTyped
<1>2. /\ T \in Seq(Operands)
      /\ Len(T) = Len(S) - n
      /\ \A k \in 1 .. Len(S) - n : T[k] = S[k]
  BY <1>1, Popped
<1> HIDE DEF T
<1>3. \A k \in 1 .. Len(T) : OperandOK(A, B, T[k])
  BY <1>1, <1>2
<1>4. ASSUME NEW a \in 1 .. Len(A), A[a].data = Null
      PROVE  \E k \in 1 .. Len(T) : Populates(T[k], a)
  <2>1. PICK k \in 1 .. Len(S) : Populates(S[k], a)
    BY <1>1, <1>4 DEF PopulatedOnce
  <2>2. k \in 1 .. Len(T)
    BY <1>1, <1>2, <2>1 DEF Populates
  <2> QED BY <1>2, <2>1, <2>2
<1>5. ASSUME NEW j \in 1 .. Len(T), NEW k \in 1 .. Len(T),
             Populates(T[j], T[k].data), Populates(T[k], T[j].data)
      PROVE  j = k
  <2>1. j \in 1 .. Len(S) /\ k \in 1 .. Len(S) /\ T[j] = S[j] /\ T[k] = S[k]
    BY <1>1, <1>2
  <2> QED BY <1>1, <1>5, <2>1 DEF PopulatedOnce
<1>6. StackOK(A, B, T)
  BY <1>2, <1>3, <1>4, <1>5 DEF StackOK, StackTyped, PopulatedOnce
<1> QED BY <1>6 DEF T

\* An operand is pushed that does not populate an array.
LEMMA PushKeeps ==
  ASSUME NEW A, NEW B, NEW S, StackOK(A, B, S), NEW x \in Operands,
         OperandOK(A, B, x), x.kind # "populating"
  PROVE  StackOK(A, B, Append(S, x))
<1> DEFINE T == Append(S, x)
<1>1. /\ S \in Seq(Operands) /\ Len(S) \in Nat
      /\ \A k \in 1 .. Len(S) : OperandOK(A, B, S[k])
      /\ PopulatedOnce(A, S)
  BY DEF StackOK, StackTyped
<1>2. /\ T \in Seq(Operands)
      /\ Len(T) = Len(S) + 1
      /\ \A k \in 1 .. Len(S) : T[k] = S[k]
      /\ T[Len(S) + 1] = x
  BY <1>1, Pushed
<1> HIDE DEF T
<1>3. \A k \in 1 .. Len(T) : k \in 1 .. Len(S) \/ T[k] = x
  BY <1>1, <1>2
<1>4. \A k \in 1 .. Len(T) : OperandOK(A, B, T[k])
  BY <1>1, <1>2, <1>3
<1>5. ASSUME NEW a \in 1 .. Len(A), A[a].data = Null
      PROVE  \E k \in 1 .. Len(T) : Populates(T[k], a)
  <2>1. PICK k \in 1 .. Len(S) : Populates(S[k], a)
    BY <1>1, <1>5 DEF PopulatedOnce
  <2> QED BY <1>1, <1>2, <2>1
<1>6. ASSUME NEW j \in 1 .. Len(T), NEW k \in 1 .. Len(T),
             Populates(T[j], T[k].data), Populates(T[k], T[j].data)
      PROVE  j = k
  <2>1. j \in 1 .. Len(S) /\ k \in 1 .. Len(S) /\ T[j] = S[j] /\ T[k] = S[k]
    BY <1>2, <1>3, <1>6 DEF Populates
  <2> QED BY <1>1, <1>6, <2>1 DEF PopulatedOnce
<1>7. StackOK(A, B, T)
  BY <1>2, <1>4, <1>5, <1>6 DEF StackOK, StackTyped, PopulatedOnce
<1> QED BY <1>7 DEF T

-----------------------------------------------------------------------------
(* The heap.                                                               *)

\* Arrays are added and connected: what a pointer refers to stays what it is.
Grows(A, A2) ==
  /\ Len(A) <= Len(A2)
  /\ \A a \in 1 .. Len(A) :
       /\ A2[a].of = A[a].of
       /\ A2[a].size = A[a].size
       /\ A[a].data = a => A2[a].data = a

\* A pointer stays good.
LEMMA PointersKeep ==
  ASSUME NEW A \in Seq(Arrayz), NEW A2 \in Seq(Arrayz), Grows(A, A2), NEW t, NEW v
  PROVE  /\ Pointer(A, t, v) => Pointer(A2, t, v)
         /\ Fits(A, t, v) => Fits(A2, t, v)
<1>1. Len(A) \in Nat /\ Len(A2) \in Nat
  OBVIOUS
<1>2. ASSUME NEW u, Pointer(A, u, v) PROVE Pointer(A2, u, v)
  BY <1>1, <1>2 DEF Pointer, Grows
<1> QED BY <1>2 DEF Fits

\* An operand keeps its pointers, and its array while it populates one.
LEMMA OperandKeeps ==
  ASSUME NEW A \in Seq(Arrayz), NEW A2 \in Seq(Arrayz), Grows(A, A2), NEW B, NEW B2,
         NEW x, OperandOK(A, B, x),
         x.kind = "populating" =>
           A2[x.data].data = A[x.data].data /\ B2[x.data].set = B[x.data].set
  PROVE  OperandOK(A2, B2, x)
<1>1. Len(A) \in Nat /\ Len(A2) \in Nat /\ Len(A) <= Len(A2)
  BY DEF Grows
<1>2. CASE x.kind = "populating"
  BY <1>1, <1>2 DEF OperandOK, Grows
<1>3. CASE x.kind = "address"
  <2>1. Pointer(A, x.of, x.data) /\ x.data # Null /\ x.index < A[x.data].size
    BY <1>3 DEF OperandOK
  <2>2. x.data \in 1 .. Len(A)
    BY <2>1 DEF Pointer
  <2>3. Pointer(A2, x.of, x.data)
    BY <2>1, PointersKeep
  <2> QED BY <1>3, <2>1, <2>2, <2>3 DEF OperandOK, Grows
<1>4. CASE x.kind \notin {"populating", "address"}
  <2>1. Pointer(A, x.of, x.value) => Pointer(A2, x.of, x.value)
    BY PointersKeep
  <2> QED BY <1>4, <2>1 DEF OperandOK
<1> QED BY <1>2, <1>3, <1>4

\* The stack stays as it is and the arrays that are populated do.
LEMMA StackKeeps ==
  ASSUME NEW A \in Seq(Arrayz), NEW A2 \in Seq(Arrayz), Grows(A, A2), NEW B, NEW B2,
         NEW S, StackOK(A, B, S),
         \A a \in 1 .. Len(A) :
           A[a].data = Null => A2[a].data = Null /\ B2[a].set = B[a].set,
         \A a \in 1 .. Len(A2) : A2[a].data = Null => a \in 1 .. Len(A) /\ A[a].data = Null
  PROVE  StackOK(A2, B2, S)
<1>1. /\ S \in Seq(Operands)
      /\ \A k \in 1 .. Len(S) : OperandOK(A, B, S[k])
      /\ PopulatedOnce(A, S)
  BY DEF StackOK, StackTyped
<1>2. ASSUME NEW k \in 1 .. Len(S) PROVE OperandOK(A2, B2, S[k])
  <2>1. OperandOK(A, B, S[k])
    BY <1>1
  <2>2. S[k].kind = "populating" =>
          A2[S[k].data].data = A[S[k].data].data /\ B2[S[k].data].set = B[S[k].data].set
    BY <2>1 DEF OperandOK
  <2> QED BY <2>1, <2>2, OperandKeeps
<1>3. PopulatedOnce(A2, S)
  BY <1>1 DEF PopulatedOnce
<1> QED BY <1>1, <1>2, <1>3 DEF StackOK, StackTyped

\* Variables keep their pointers.
LEMMA VariablesKeep ==
  ASSUME NEW A \in Seq(Arrayz), NEW A2 \in Seq(Arrayz), Grows(A, A2),
         NEW V, VariablesOK(A, V)
  PROVE  VariablesOK(A2, V)
BY PointersKeep DEF VariablesOK

\* Only the arrays that change have to be looked at.
LEMMA HeapKeeps ==
  ASSUME NEW A, NEW B, HeapOK(A, B),
         NEW A2 \in Seq(Arrayz), NEW B2 \in Seq(Blockz), Grows(A, A2),
         Len(B2) = Len(A2), Len(A2) <= MaxArrays,
         \A a \in 1 .. Len(A2) :
           \/ a \in 1 .. Len(A) /\ A2[a] = A[a] /\ B2[a] = B[a]
           \/ ArrayOK(A2, B2, a)
  PROVE  HeapOK(A2, B2)
<1>1. A \in Seq(Arrayz) /\ \A a \in 1 .. Len(A) : ArrayOK(A, B, a)
  BY DEF HeapOK
<1>2. ASSUME NEW a \in 1 .. Len(A), A2[a] = A[a], B2[a] = B[a]
      PROVE  ArrayOK(A2, B2, a)
  <2>1. \A i \in Offset : Fits(A, A[a].of, B[a].cells[i]) => Fits(A2, A[a].of, B[a].cells[i])
    BY <1>1, PointersKeep
  <2> QED BY <1>1, <1>2, <2>1 DEF ArrayOK
<1> QED BY <1>1, <1>2 DEF HeapOK

NewRecord(t, n, data) == [of |-> t, live |-> TRUE, size |-> n, data |-> data]
NewCells(t, n, set) ==
  [live |-> TRUE, bytes |-> DataSize(n, t), set |-> set, cells |-> [i \in Offset |-> 0]]

\* An array is allocated: its block is full of zeros, or its elements are set later.
IsNew(A, B, t, n, data, set, A2, B2) ==
  /\ Len(A) < MaxArrays
  /\ t \in ElementType
  /\ n \in 0 .. Limit - 1
  /\ \/ data = Null /\ set = {} /\ ~Large(n, t)
     \/ data = Len(A) + 1 /\ set = AllElements(n, t)
  /\ A2 = Append(A, NewRecord(t, n, data))
  /\ B2 = Append(B, NewCells(t, n, set))

Added(A, B, t, n, data, set, A2, B2) ==
  /\ HeapOK(A2, B2)
  /\ Grows(A, A2)
  /\ Len(A2) = Len(A) + 1
  /\ \A a \in 1 .. Len(A) : A2[a] = A[a] /\ B2[a] = B[a]
  /\ A2[Len(A) + 1] = NewRecord(t, n, data)
  /\ B2[Len(A) + 1] = NewCells(t, n, set)

\* The heap with a new array: connected to a block of zeros, or to be populated.
LEMMA NewKeeps ==
  ASSUME NEW A, NEW B, HeapOK(A, B), NEW t, NEW n, NEW data, NEW set, NEW A2, NEW B2,
         IsNew(A, B, t, n, data, set, A2, B2)
  PROVE  Added(A, B, t, n, data, set, A2, B2)
<1>0. /\ Len(A) < MaxArrays /\ t \in ElementType /\ n \in 0 .. Limit - 1
      /\ \/ data = Null /\ set = {} /\ ~Large(n, t)
         \/ data = Len(A) + 1 /\ set = AllElements(n, t)
  BY DEF IsNew
<1>1. /\ A \in Seq(Arrayz) /\ B \in Seq(Blockz) /\ Len(B) = Len(A) /\ Len(A) \in Nat
      /\ MaxArrays \in Nat /\ Limit \in Nat \ {0}
  BY ArraysAssumption DEF HeapOK
<1>2. n \in Nat /\ 0 \in Integer
  BY <1>0, <1>1 DEF Integer
<1>3. set \subseteq Offset /\ DataSize(n, t) \in Offset
  BY <1>0, <1>2, DataSizes
<1>4. NewRecord(t, n, data) \in Arrayz
  BY <1>0, <1>1, <1>2 DEF NewRecord, Arrayz, Null
<1>5. NewCells(t, n, set) \in Blockz
  <2>1. [i \in Offset |-> 0] \in [Offset -> Int]
    OBVIOUS
  <2> QED BY <1>3, <2>1 DEF NewCells, Blockz
<1>6. /\ A2 \in Seq(Arrayz) /\ Len(A2) = Len(A) + 1
      /\ \A a \in 1 .. Len(A) : A2[a] = A[a]
      /\ A2[Len(A) + 1] = NewRecord(t, n, data)
  BY <1>1, <1>4, Pushed DEF IsNew
<1>7. /\ B2 \in Seq(Blockz) /\ Len(B2) = Len(A) + 1
      /\ \A a \in 1 .. Len(A) : B2[a] = B[a]
      /\ B2[Len(A) + 1] = NewCells(t, n, set)
  BY <1>1, <1>5, Pushed DEF IsNew
<1>8. Grows(A, A2)
  BY <1>1, <1>6 DEF Grows
<1>9. ArrayOK(A2, B2, Len(A) + 1)
  <2> DEFINE a == Len(A) + 1
  <2>1. /\ A2[a].of = t /\ A2[a].live = TRUE /\ A2[a].size = n /\ A2[a].data = data
        /\ B2[a].live = TRUE /\ B2[a].bytes = DataSize(n, t) /\ B2[a].set = set
        /\ \A i \in Offset : B2[a].cells[i] = 0
    BY <1>6, <1>7 DEF NewRecord, NewCells
  <2>2. Fits(A2, t, 0)
    BY <1>2 DEF Fits, Pointer, Null
  <2>3. a # Null
    BY <1>1 DEF Null
  <2>4. data = a /\ ~Large(n, t) => set = 0 .. n - 1
    BY <1>0, <1>2, <2>3, DataSizes
  <2> HIDE DEF a
  <2>5. data \in {Null, a} /\ (data = Null => ~Large(n, t))
    BY <1>0, <2>3 DEF a
  <2>6. ArrayOK(A2, B2, a)
    BY <2>1, <2>2, <2>4, <2>5 DEF ArrayOK
  <2> QED BY <2>6 DEF a
<1>10. \A a \in 1 .. Len(A2) : a \in 1 .. Len(A) \/ a = Len(A) + 1
  BY <1>1, <1>6
<1>11. HeapOK(A2, B2)
  <2>1. Len(A2) <= MaxArrays /\ Len(B2) = Len(A2)
    BY <1>0, <1>1, <1>6, <1>7
  <2> QED BY <1>6, <1>7, <1>8, <1>9, <1>10, <2>1, HeapKeeps
<1> QED BY <1>6, <1>7, <1>8, <1>11 DEF Added

\* The element i of d is set to v, which lies in the block.
Written(A, B, d, i, v, B2) ==
  /\ d \in 1 .. Len(A)
  /\ i \in Nat
  /\ i < A[d].size
  /\ (i + 1) * ElementSize[A[d].of] <= B[d].bytes
  /\ Fits(A, A[d].of, v)
  /\ B2 = [B EXCEPT ![d].set = @ \cup {i}, ![d].cells[i] = v]

Stored(B, d, i, v, B2) ==
  /\ i \in Offset /\ v \in Int
  /\ B2[d].live = B[d].live
  /\ B2[d].set = B[d].set \cup {i}
  /\ B2[d].cells = [B[d].cells EXCEPT ![i] = v]

\* A write changes one element of one block, and what it sets is an element of its array.
LEMMA WriteKeeps ==
  ASSUME NEW A, NEW B, HeapOK(A, B), NEW d, NEW i, NEW v, NEW B2, Written(A, B, d, i, v, B2)
  PROVE  /\ HeapOK(A, B2)
         /\ \A a \in 1 .. Len(A) : a # d => B2[a] = B[a]
         /\ Stored(B, d, i, v, B2)
<1>0. /\ d \in 1 .. Len(A) /\ i \in Nat
      /\ i < A[d].size /\ (i + 1) * ElementSize[A[d].of] <= B[d].bytes /\ Fits(A, A[d].of, v)
      /\ B2 = [B EXCEPT ![d].set = @ \cup {i}, ![d].cells[i] = v]
  BY DEF Written
<1>1. /\ A \in Seq(Arrayz) /\ B \in Seq(Blockz) /\ Len(B) = Len(A) /\ Len(A) \in Nat
      /\ Len(A) <= MaxArrays
      /\ A[d] \in Arrayz /\ B[d] \in Blockz /\ ArrayOK(A, B, d)
  BY <1>0 DEF HeapOK
<1>2. /\ A[d].of \in ElementType /\ A[d].size \in Nat
      /\ B[d].bytes = DataSize(A[d].size, A[d].of)
  BY <1>1 DEF Arrayz, ArrayOK
<1>3. i \in Offset
  BY <1>0, <1>2, Elements
<1> DEFINE new == [B[d] EXCEPT !.set = @ \cup {i}, !.cells = [@ EXCEPT ![i] = v]]
<1>4. /\ B[d].set \subseteq Offset /\ B[d].cells \in [Offset -> Int]
      /\ B[d].live \in BOOLEAN /\ B[d].bytes \in Offset /\ v \in Int
  BY <1>0, <1>1 DEF Blockz, Fits
<1>5. /\ new.live = B[d].live /\ new.bytes = B[d].bytes
      /\ new.set = B[d].set \cup {i}
      /\ new.cells = [B[d].cells EXCEPT ![i] = v]
      /\ new \in Blockz
  BY <1>1, <1>3, <1>4 DEF Blockz
<1>6. B2 = [B EXCEPT ![d] = new]
  BY <1>0, <1>1
<1> HIDE DEF new
<1>7. /\ B2 \in Seq(Blockz) /\ Len(B2) = Len(A) /\ B2[d] = new
      /\ \A a \in 1 .. Len(A) : a # d => B2[a] = B[a]
  <2>1. d \in 1 .. Len(B)
    BY <1>0, <1>1
  <2>2. /\ [B EXCEPT ![d] = new] \in Seq(Blockz)
        /\ Len([B EXCEPT ![d] = new]) = Len(B)
        /\ [B EXCEPT ![d] = new][d] = new
        /\ \A j \in 1 .. Len(B) : j # d => [B EXCEPT ![d] = new][j] = B[j]
    BY <1>1, <1>5, <2>1, Replaced
  <2> QED BY <1>1, <1>6, <2>2
<1>8. ArrayOK(A, B2, d)
  <2>1. \A j \in Offset : Fits(A, A[d].of, B2[d].cells[j])
    <3>1. \A j \in Offset : B2[d].cells[j] = v \/ B2[d].cells[j] = B[d].cells[j]
      BY <1>4, <1>5, <1>7
    <3> QED BY <1>0, <1>1, <3>1 DEF ArrayOK
  <2>2. B[d].set = 0 .. A[d].size - 1 => B2[d].set = 0 .. A[d].size - 1
    <3>1. \A n \in Nat : i < n => (0 .. n - 1) \cup {i} = 0 .. n - 1
      BY <1>0
    <3>2. B2[d].set = B[d].set \cup {i}
      BY <1>5, <1>7
    <3> QED BY <1>0, <1>2, <3>1, <3>2
  <2> QED BY <1>1, <1>5, <1>7, <2>1, <2>2 DEF ArrayOK
<1>9. HeapOK(A, B2)
  <2>1. Grows(A, A)
    BY <1>1 DEF Grows
  <2> QED BY <1>1, <1>7, <1>8, <2>1, HeapKeeps
<1> QED BY <1>0, <1>3, <1>4, <1>5, <1>7, <1>9 DEF Stored

Connects(A, d, A2) == A2 = [A EXCEPT ![d].data = d]

\* An array is connected to a block in which every element is set.
LEMMA ConnectKeeps ==
  ASSUME NEW A, NEW B, HeapOK(A, B), NEW d \in 1 .. Len(A),
         A[d].data = Null, B[d].set = 0 .. A[d].size - 1,
         NEW A2, Connects(A, d, A2)
  PROVE  /\ HeapOK(A2, B)
         /\ Grows(A, A2)
         /\ Len(A2) = Len(A)
         /\ \A a \in 1 .. Len(A) : a # d => A2[a] = A[a]
         /\ A2[d] = [A[d] EXCEPT !.data = d]
<1>1. /\ A \in Seq(Arrayz) /\ B \in Seq(Blockz) /\ Len(B) = Len(A) /\ Len(A) \in Nat
      /\ Len(A) <= MaxArrays
      /\ A[d] \in Arrayz /\ ArrayOK(A, B, d) /\ d # Null
  BY DEF HeapOK, Null
<1> DEFINE new == [A[d] EXCEPT !.data = d]
<1>2. /\ new.of = A[d].of /\ new.live = A[d].live /\ new.size = A[d].size /\ new.data = d
      /\ new \in Arrayz
  <2>1. d \in Nat
    BY <1>1
  <2> QED BY <1>1, <2>1 DEF Arrayz
<1>3. A2 = [A EXCEPT ![d] = new]
  BY <1>1 DEF Connects
<1>4. /\ A2 \in Seq(Arrayz) /\ Len(A2) = Len(A) /\ A2[d] = new
      /\ \A a \in 1 .. Len(A) : a # d => A2[a] = A[a]
  BY <1>1, <1>2, <1>3, Replaced
<1>5. A2[d] = [A[d] EXCEPT !.data = d]
  BY <1>4
<1> HIDE DEF new
<1>6. Grows(A, A2)
  BY <1>1, <1>2, <1>4 DEF Grows
<1>7. ArrayOK(A2, B, d)
  <2>1. \A i \in Offset : Fits(A2, A[d].of, B[d].cells[i])
    <3>1. \A t, v : Fits(A, t, v) => Fits(A2, t, v)
      BY <1>1, <1>4, <1>6, PointersKeep
    <3> QED BY <1>1, <3>1 DEF ArrayOK
  <2> QED BY <1>1, <1>2, <1>4, <2>1 DEF ArrayOK
<1>8. HeapOK(A2, B)
  BY <1>1, <1>4, <1>6, <1>7, HeapKeeps
<1> QED BY <1>4, <1>5, <1>6, <1>8

Frees(A, B, d, A2, B2) ==
  /\ A2 = [A EXCEPT ![d].live = FALSE]
  /\ B2 = [B EXCEPT ![d].live = FALSE]

Freed(A, B, d, A2, B2) ==
  /\ HeapOK(A2, B2)
  /\ Grows(A, A2)
  /\ Len(A2) = Len(A)
  /\ \A a \in 1 .. Len(A) : a # d => A2[a] = A[a] /\ B2[a] = B[a]
  /\ A2[d] = [A[d] EXCEPT !.live = FALSE]
  /\ B2[d] = [B[d] EXCEPT !.live = FALSE]

\* A connected array and its block are freed.
LEMMA FreeKeeps ==
  ASSUME NEW A, NEW B, HeapOK(A, B), NEW d \in 1 .. Len(A), A[d].data = d,
         NEW A2, NEW B2, Frees(A, B, d, A2, B2)
  PROVE  Freed(A, B, d, A2, B2)
<1>1. /\ A \in Seq(Arrayz) /\ B \in Seq(Blockz) /\ Len(B) = Len(A) /\ Len(A) \in Nat
      /\ Len(A) <= MaxArrays
      /\ A[d] \in Arrayz /\ B[d] \in Blockz /\ ArrayOK(A, B, d) /\ d # Null
  BY DEF HeapOK, Null
<1> DEFINE new == [A[d] EXCEPT !.live = FALSE]
           block == [B[d] EXCEPT !.live = FALSE]
<1>2. /\ new.of = A[d].of /\ new.live = FALSE /\ new.size = A[d].size /\ new.data = d
      /\ new \in Arrayz
  BY <1>1 DEF Arrayz
<1>3. /\ block.live = FALSE /\ block.bytes = B[d].bytes /\ block.set = B[d].set
      /\ block.cells = B[d].cells /\ block \in Blockz
  BY <1>1 DEF Blockz
<1>4. A2 = [A EXCEPT ![d] = new] /\ B2 = [B EXCEPT ![d] = block]
  BY <1>1 DEF Frees
<1> HIDE DEF new, block
<1>5. /\ A2 \in Seq(Arrayz) /\ Len(A2) = Len(A) /\ A2[d] = new
      /\ \A a \in 1 .. Len(A) : a # d => A2[a] = A[a]
  <2>1. d \in 1 .. Len(A)
    BY <1>1
  <2>2. /\ [A EXCEPT ![d] = new] \in Seq(Arrayz)
        /\ Len([A EXCEPT ![d] = new]) = Len(A)
        /\ [A EXCEPT ![d] = new][d] = new
        /\ \A j \in 1 .. Len(A) : j # d => [A EXCEPT ![d] = new][j] = A[j]
    BY <1>1, <1>2, <2>1, Replaced
  <2> QED BY <1>1, <1>4, <2>2
<1>6. /\ B2 \in Seq(Blockz) /\ Len(B2) = Len(A) /\ B2[d] = block
      /\ \A a \in 1 .. Len(A) : a # d => B2[a] = B[a]
  <2>1. d \in 1 .. Len(B)
    BY <1>1
  <2>2. /\ [B EXCEPT ![d] = block] \in Seq(Blockz)
        /\ Len([B EXCEPT ![d] = block]) = Len(B)
        /\ [B EXCEPT ![d] = block][d] = block
        /\ \A j \in 1 .. Len(B) : j # d => [B EXCEPT ![d] = block][j] = B[j]
    BY <1>1, <1>3, <2>1, Replaced
  <2> QED BY <1>1, <1>4, <2>2
<1>7. A2[d] = [A[d] EXCEPT !.live = FALSE] /\ B2[d] = [B[d] EXCEPT !.live = FALSE]
  BY <1>5, <1>6 DEF new, block
<1>8. Grows(A, A2)
  BY <1>1, <1>2, <1>5 DEF Grows
<1>9. ArrayOK(A2, B2, d)
  <2>1. \A i \in Offset : Fits(A2, A[d].of, B[d].cells[i])
    <3>1. \A t, v : Fits(A, t, v) => Fits(A2, t, v)
      BY <1>1, <1>5, <1>8, PointersKeep
    <3> QED BY <1>1, <3>1 DEF ArrayOK
  <2> QED BY <1>1, <1>2, <1>3, <1>5, <1>6, <2>1 DEF ArrayOK
<1>10. HeapOK(A2, B2)
  BY <1>1, <1>5, <1>6, <1>8, <1>9, HeapKeeps
<1> QED BY <1>5, <1>6, <1>7, <1>8, <1>10 DEF Freed

-----------------------------------------------------------------------------
(* The objects that the arrays stand for.                                  *)

\* A sequence is known by its elements.
LEMMA SameSequence ==
  ASSUME NEW X, NEW s \in Seq(X), NEW r \in Seq(X), Len(s) = Len(r),
         \A k \in 1 .. Len(s) : s[k] = r[k]
  PROVE  s = r
  OBVIOUS

\* A function on the first numbers is a sequence.
LEMMA FunctionIsSeq ==
  ASSUME NEW X, NEW n \in Nat, NEW f \in [1 .. n -> X]
  PROVE  f \in Seq(X) /\ Len(f) = n
  OBVIOUS

\* What an array and its block are made of.
LEMMA HeapTypes ==
  ASSUME NEW A, NEW B, HeapOK(A, B), NEW a \in 1 .. Len(A)
  PROVE  /\ Len(A) \in Nat /\ Len(A) <= MaxArrays /\ Len(B) = Len(A)
         /\ A[a].of \in ElementType /\ A[a].size \in 0 .. Limit - 1 /\ A[a].size \in Nat
         /\ A[a].data \in {Null, a} /\ A[a].live \in BOOLEAN /\ B[a].live = A[a].live
         /\ B[a].set \subseteq Offset /\ B[a].cells \in [Offset -> Int]
         /\ B[a].bytes = DataSize(A[a].size, A[a].of)
         /\ ArrayOK(A, B, a)
         /\ a # Null
<1>1. /\ A \in Seq(Arrayz) /\ B \in Seq(Blockz) /\ Len(B) = Len(A) /\ Len(A) \in Nat
      /\ Len(A) <= MaxArrays /\ ArrayOK(A, B, a)
  BY DEF HeapOK
<1>2. A[a] \in Arrayz /\ B[a] \in Blockz
  BY <1>1
<1>3. Limit \in Nat \ {0}
  BY ArraysAssumption
<1>4. A[a].of \in ElementType /\ A[a].size \in 0 .. Limit - 1 /\ A[a].live \in BOOLEAN
  BY <1>2 DEF Arrayz
<1>5. B[a].set \subseteq Offset /\ B[a].cells \in [Offset -> Int]
  BY <1>2 DEF Blockz
<1>6. A[a].size \in Nat /\ a # Null
  BY <1>3, <1>4 DEF Null
<1> QED BY <1>1, <1>4, <1>5, <1>6 DEF ArrayOK

AbstractOperands ==
  [kind : Kind, of : ElementType, value : Int, index : Nat, elements : Seq(Int)]

\* The elements of an object are a sequence as long as its array.
LEMMA CellsMapped ==
  ASSUME NEW A, NEW B, HeapOK(A, B), NEW d \in 1 .. Len(A), NEW n \in Nat
  PROVE  /\ CellsOf(B, d, n) \in Seq(Int)
         /\ Len(CellsOf(B, d, n)) = n
<1>1. B[d].set \subseteq Offset /\ B[d].cells \in [Offset -> Int]
  BY HeapTypes
<1>2. CellsOf(B, d, n) \in [1 .. n -> Int]
  BY <1>1 DEF CellsOf, Null
<1> QED BY <1>2, FunctionIsSeq

\* An element of an object is the cell of the block.
LEMMA CellAt ==
  ASSUME NEW B, NEW d, NEW n \in Nat, NEW j \in 1 .. n
  PROVE  CellsOf(B, d, n)[j] = IF j - 1 \in B[d].set THEN B[d].cells[j - 1] ELSE Null
  BY DEF CellsOf

\* An operand stands for one of the objects' program.
LEMMA OperandMapped ==
  ASSUME NEW A, NEW B, HeapOK(A, B), NEW x \in Operands, OperandOK(A, B, x)
  PROVE  OperandOf(A, B, x) \in AbstractOperands
<1>1. /\ x.kind \in Kind /\ x.of \in ElementType /\ x.value \in Int
      /\ x.data \in Nat /\ x.index \in Nat
  BY DEF Operands
<1>2. CASE x.kind = "populating"
  <2>1. x.data \in 1 .. Len(A) /\ x.value = x.data
    BY <1>2 DEF OperandOK
  <2>2. CellsOf(B, x.data, x.index) \in Seq(Int)
    BY <1>1, <2>1, CellsMapped
  <2>3. A[x.value].size \in Int
    BY <2>1, HeapTypes
  <2> QED BY <1>1, <1>2, <2>2, <2>3 DEF OperandOf, Abstract, AbstractOperands
<1>3. CASE x.kind # "populating"
  <2>1. <<>> \in Seq(Int) /\ x.data \in Int /\ 0 \in Nat
    BY <1>1
  <2> QED BY <1>1, <1>3, <2>1 DEF OperandOf, Abstract, AbstractOperands
<1> QED BY <1>2, <1>3

\* The stack stands for one that is as long, operand by operand.
LEMMA StackMapped ==
  ASSUME NEW A, NEW B, HeapOK(A, B), NEW S, StackTyped(A, B, S)
  PROVE  /\ StackOf(A, B, S) \in Seq(AbstractOperands)
         /\ Len(StackOf(A, B, S)) = Len(S)
         /\ \A k \in 1 .. Len(S) : StackOf(A, B, S)[k] = OperandOf(A, B, S[k])
<1>1. S \in Seq(Operands) /\ Len(S) \in Nat
  BY DEF StackTyped
<1>2. \A k \in 1 .. Len(S) : OperandOf(A, B, S[k]) \in AbstractOperands
  BY <1>1, OperandMapped DEF StackTyped
<1>3. StackOf(A, B, S) \in [1 .. Len(S) -> AbstractOperands]
  BY <1>2 DEF StackOf
<1> QED BY <1>1, <1>3, FunctionIsSeq DEF StackOf

\* What is popped and pushed is popped and pushed in both.
LEMMA PopMapped ==
  ASSUME NEW A, NEW B, HeapOK(A, B), NEW S, StackTyped(A, B, S), NEW n \in 0 .. Len(S)
  PROVE  StackOf(A, B, SubSeq(S, 1, Len(S) - n))
           = SubSeq(StackOf(A, B, S), 1, Len(StackOf(A, B, S)) - n)
<1> DEFINE T == SubSeq(S, 1, Len(S) - n)
           K == StackOf(A, B, S)
           L == StackOf(A, B, T)
           R == SubSeq(K, 1, Len(K) - n)
<1>1. S \in Seq(Operands) /\ Len(S) \in Nat
  BY DEF StackTyped
<1>2. Len(T) = Len(S) - n /\ \A k \in 1 .. Len(S) - n : T[k] = S[k]
  BY <1>1, Popped
<1>3. StackTyped(A, B, T)
  BY <1>1, <1>2, Popped DEF StackTyped
<1> HIDE DEF T, K, L
<1>4. /\ K \in Seq(AbstractOperands) /\ Len(K) = Len(S)
      /\ \A k \in 1 .. Len(S) : K[k] = OperandOf(A, B, S[k])
  BY StackMapped DEF K
<1>5. /\ L \in Seq(AbstractOperands) /\ Len(L) = Len(T)
      /\ \A k \in 1 .. Len(T) : L[k] = OperandOf(A, B, T[k])
  BY <1>3, StackMapped DEF L
<1>6. /\ R \in Seq(AbstractOperands) /\ Len(R) = Len(K) - n
      /\ \A k \in 1 .. Len(K) - n : R[k] = K[k]
  BY <1>4, Popped
<1> HIDE DEF R
<1>7. \A k \in 1 .. Len(L) : L[k] = R[k]
  BY <1>1, <1>2, <1>4, <1>5, <1>6
<1>8. L = R
  BY <1>2, <1>4, <1>5, <1>6, <1>7, SameSequence
<1> QED BY <1>8 DEF L, R, K, T

\* What is pushed is pushed in both.
LEMMA PushMapped ==
  ASSUME NEW A, NEW B, HeapOK(A, B), NEW S, StackTyped(A, B, S), NEW x \in Operands,
         OperandOK(A, B, x)
  PROVE  StackOf(A, B, Append(S, x)) = Append(StackOf(A, B, S), OperandOf(A, B, x))
<1> DEFINE T == Append(S, x)
           K == StackOf(A, B, S)
           L == StackOf(A, B, T)
           y == OperandOf(A, B, x)
           R == Append(K, y)
<1>1. S \in Seq(Operands) /\ Len(S) \in Nat
  BY DEF StackTyped
<1>2. Len(T) = Len(S) + 1 /\ (\A k \in 1 .. Len(S) : T[k] = S[k]) /\ T[Len(S) + 1] = x
  BY <1>1, Pushed
<1>3. y \in AbstractOperands
  BY OperandMapped
<1> HIDE DEF T, K, y
<1>4. /\ K \in Seq(AbstractOperands) /\ Len(K) = Len(S)
      /\ \A k \in 1 .. Len(S) : K[k] = OperandOf(A, B, S[k])
  BY StackMapped DEF K
<1>5. /\ R \in Seq(AbstractOperands) /\ Len(R) = Len(K) + 1
      /\ (\A k \in 1 .. Len(K) : R[k] = K[k]) /\ R[Len(K) + 1] = y
  BY <1>3, <1>4, Pushed
<1> HIDE DEF R
<1>6. \A k \in 1 .. Len(T) : OperandOf(A, B, T[k]) = R[k]
  <2> TAKE k \in 1 .. Len(T)
  <2>1. k \in 1 .. Len(S) \/ k = Len(S) + 1
    BY <1>1, <1>2
  <2>2. CASE k \in 1 .. Len(S)
    BY <1>2, <1>4, <1>5, <2>2
  <2>3. CASE k = Len(S) + 1
    BY <1>2, <1>4, <1>5, <2>3 DEF y
  <2> QED BY <2>1, <2>2, <2>3
<1>7. L \in Seq(AbstractOperands) /\ Len(L) = Len(T) /\ \A k \in 1 .. Len(T) : L[k] = R[k]
  <2>1. \A k \in 1 .. Len(T) : R[k] \in AbstractOperands
    BY <1>1, <1>2, <1>4, <1>5
  <2>2. L = [k \in 1 .. Len(T) |-> R[k]]
    BY <1>6 DEF StackOf
  <2> HIDE DEF L
  <2>3. L \in [1 .. Len(T) -> AbstractOperands]
    BY <2>1, <2>2
  <2> QED BY <1>1, <1>2, <2>2, <2>3, FunctionIsSeq
<1> HIDE DEF L
<1>8. L = R
  BY <1>2, <1>4, <1>5, <1>7, SameSequence
<1> QED BY <1>8 DEF L, R, K, T, y

\* An operand instead of the n topmost.
LEMMA ReplaceKeeps ==
  ASSUME NEW A, NEW B, HeapOK(A, B), NEW S, StackOK(A, B, S), NEW n \in 0 .. Len(S),
         \A k \in Len(S) - n + 1 .. Len(S) : S[k].kind # "populating",
         NEW x \in Operands, OperandOK(A, B, x), x.kind # "populating",
         NEW T, T = Append(SubSeq(S, 1, Len(S) - n), x)
  PROVE  /\ StackOK(A, B, T)
         /\ StackOf(A, B, T)
              = Append(SubSeq(StackOf(A, B, S), 1, Len(StackOf(A, B, S)) - n), OperandOf(A, B, x))
<1> DEFINE P == SubSeq(StackOf(A, B, S), 1, Len(StackOf(A, B, S)) - n)
<1> DEFINE R == SubSeq(S, 1, Len(S) - n)
<1>1. StackOK(A, B, R)
  BY PopKeeps
<1>2. StackOf(A, B, R) = P
  BY PopMapped DEF StackOK
<1> HIDE DEF R, P
<1>3. StackOK(A, B, Append(R, x))
  BY <1>1, PushKeeps
<1>4. StackOf(A, B, Append(R, x)) = Append(P, OperandOf(A, B, x))
  BY <1>1, <1>2, PushMapped DEF StackOK
<1> QED BY <1>3, <1>4 DEF R, P

\* What the objects know of an operand.
LEMMA OperandFields ==
  ASSUME NEW A, NEW B, NEW x
  PROVE  /\ OperandOf(A, B, x).kind = x.kind
         /\ OperandOf(A, B, x).of = x.of
         /\ x.kind \notin {"populating", "address"} => OperandOf(A, B, x).value = x.value
         /\ x.kind = "address" =>
              OperandOf(A, B, x).value = x.data /\ OperandOf(A, B, x).index = x.index
         /\ x.kind = "populating" =>
              /\ OperandOf(A, B, x).value = A[x.value].size
              /\ OperandOf(A, B, x).elements = CellsOf(B, x.data, x.index)
  BY DEF OperandOf, Abstract

\* Numbers and arrays are the same operands in both.
LEMMA Values ==
  ASSUME NEW A, NEW B
  PROVE  /\ \A n \in Int : Num(n) \in Operands /\ Num(n).kind = "number"
         /\ \A n \in Integer : OperandOK(A, B, Num(n))
         /\ \A n : OperandOf(A, B, Num(n)) = Objects!Num(n)
         /\ \A t \in ElementType, a \in Int : Arr(t, a) \in Operands /\ Arr(t, a).kind = "array"
         /\ \A t, a : Pointer(A, t, a) => OperandOK(A, B, Arr(t, a))
         /\ \A t, a : OperandOf(A, B, Arr(t, a)) = Objects!Arr(t, a)
<1>1. \A n \in Int : Num(n) \in Operands /\ Num(n).kind = "number"
  BY DEF Num, Operand, Operands, Kind, ElementType, Null
<1>2. \A n \in Integer : OperandOK(A, B, Num(n))
  BY DEF Num, Operand, OperandOK
<1>3. \A n : OperandOf(A, B, Num(n)) = Objects!Num(n)
  BY DEF Num, Operand, OperandOf, Abstract, Objects!Num, Objects!Operand
<1>4. \A t \in ElementType, a \in Int : Arr(t, a) \in Operands /\ Arr(t, a).kind = "array"
  BY DEF Arr, Operand, Operands, Kind, Null
<1>5. \A t, a : Pointer(A, t, a) => OperandOK(A, B, Arr(t, a))
  BY DEF Arr, Operand, OperandOK
<1>6. \A t, a : OperandOf(A, B, Arr(t, a)) = Objects!Arr(t, a)
  BY DEF Arr, Operand, OperandOf, Abstract, Objects!Arr, Objects!Operand
<1> QED BY <1>1, <1>2, <1>3, <1>4, <1>5, <1>6

-----------------------------------------------------------------------------
(* The state of the program.                                               *)

K == StackOf(arrays, blocks, stack)
O == ObjectsOf(arrays, blocks)

\* The parts of the invariant, and the stack of the objects' program.
LEMMA Invariant ==
  ASSUME IInv
  PROVE  /\ HeapOK(arrays, blocks)
         /\ StackOK(arrays, blocks, stack)
         /\ VariablesOK(arrays, variables)
         /\ K \in Seq(AbstractOperands) /\ Len(K) = Len(stack) /\ Len(stack) \in Nat
         /\ \A k \in 1 .. Len(stack) :
              /\ stack[k] \in Operands
              /\ OperandOK(arrays, blocks, stack[k])
              /\ K[k] = OperandOf(arrays, blocks, stack[k])
<1>1. HeapOK(arrays, blocks) /\ StackOK(arrays, blocks, stack) /\ VariablesOK(arrays, variables)
  BY DEF IInv
<1>2. stack \in Seq(Operands) /\ \A k \in 1 .. Len(stack) : OperandOK(arrays, blocks, stack[k])
  BY <1>1 DEF StackOK, StackTyped
<1> QED BY <1>1, <1>2, StackMapped DEF K, StackOK

\* The topmost operand and the one below it.
LEMMA TopOperand ==
  ASSUME IInv, Has(1)
  PROVE  /\ Len(stack) \in 1 .. Len(stack)
         /\ Top \in Operands /\ OperandOK(arrays, blocks, Top)
         /\ Objects!Top = OperandOf(arrays, blocks, Top)
         /\ Objects!Has(1)
         /\ stack[Len(stack)] = Top
         /\ \A k \in Len(stack) - 1 + 1 .. Len(stack) : stack[k] = Top
<1>1. Len(stack) \in Nat /\ Len(stack) >= 1
  BY Invariant DEF Has
<1>2. Len(stack) \in 1 .. Len(stack)
  BY <1>1
<1>3. \A k \in Len(stack) - 1 + 1 .. Len(stack) : k = Len(stack)
  BY <1>1
<1> QED BY <1>1, <1>2, <1>3, Invariant
        DEF Top, Objects!Top, Has, Objects!Has, Running, Objects!Running, K

\* The same of two operands.
LEMMA TwoOperands ==
  ASSUME IInv, Has(2)
  PROVE  /\ Has(1)
         /\ Len(stack) - 1 \in 1 .. Len(stack)
         /\ Below \in Operands /\ OperandOK(arrays, blocks, Below)
         /\ Objects!Below = OperandOf(arrays, blocks, Below)
         /\ Objects!Has(2)
         /\ \A k \in Len(stack) - 2 + 1 .. Len(stack) : stack[k] = Top \/ stack[k] = Below
<1>1. Len(stack) \in Nat /\ Len(stack) >= 2
  BY Invariant DEF Has
<1>2. Len(stack) - 1 \in 1 .. Len(stack)
  BY <1>1
<1>3. \A k \in Len(stack) - 2 + 1 .. Len(stack) : k = Len(stack) \/ k = Len(stack) - 1
  BY <1>1
<1>4. Has(1)
  BY <1>1 DEF Has
<1> QED BY <1>1, <1>2, <1>3, <1>4, Invariant
        DEF Top, Below, Objects!Below, Has, Objects!Has, Running, Objects!Running, K

-----------------------------------------------------------------------------
(* Steps that leave the heap alone.                                        *)

\* An operand takes the place of the n topmost.
LEMMA ReplaceStep ==
  ASSUME IInv, UNCHANGED <<arrays, blocks>>, NEW n \in 0 .. Len(stack),
         \A k \in Len(stack) - n + 1 .. Len(stack) : stack[k].kind # "populating",
         NEW x \in Operands, OperandOK(arrays, blocks, x), x.kind # "populating",
         Replace(n, x)
  PROVE  /\ HeapOK(arrays', blocks') /\ StackOK(arrays', blocks', stack')
         /\ O' = O
         /\ K' = Append(SubSeq(K, 1, Len(K) - n), OperandOf(arrays, blocks, x))
<1>1. HeapOK(arrays, blocks) /\ StackOK(arrays, blocks, stack)
  BY Invariant
<1>2. stack' = Append(SubSeq(stack, 1, Len(stack) - n), x)
  BY DEF Replace, Pop
<1>3. /\ StackOK(arrays, blocks, stack')
      /\ StackOf(arrays, blocks, stack')
           = Append(SubSeq(StackOf(arrays, blocks, stack), 1, Len(StackOf(arrays, blocks, stack)) - n),
                    OperandOf(arrays, blocks, x))
  BY <1>1, <1>2, ReplaceKeeps
<1>4. arrays' = arrays /\ blocks' = blocks
  OBVIOUS
<1>5. K' = StackOf(arrays, blocks, stack') /\ O' = O
  BY <1>4 DEF K, O
<1> QED BY <1>1, <1>3, <1>4, <1>5 DEF K

\* The n topmost operands leave the stack.
LEMMA PopStep ==
  ASSUME IInv, UNCHANGED <<arrays, blocks>>, NEW n \in 0 .. Len(stack),
         \A k \in Len(stack) - n + 1 .. Len(stack) : stack[k].kind # "populating",
         stack' = Pop(n)
  PROVE  /\ HeapOK(arrays', blocks') /\ StackOK(arrays', blocks', stack')
         /\ O' = O
         /\ K' = SubSeq(K, 1, Len(K) - n)
<1>1. HeapOK(arrays, blocks) /\ StackOK(arrays, blocks, stack)
  BY Invariant
<1>2. stack' = SubSeq(stack, 1, Len(stack) - n)
  BY DEF Pop
<1>3. /\ StackOK(arrays, blocks, stack')
      /\ StackOf(arrays, blocks, stack') = SubSeq(K, 1, Len(K) - n)
  BY <1>1, <1>2, PopKeeps, PopMapped DEF K, StackOK
<1>4. arrays' = arrays /\ blocks' = blocks
  OBVIOUS
<1>5. K' = StackOf(arrays, blocks, stack') /\ O' = O
  BY <1>4 DEF K, O
<1> QED BY <1>1, <1>3, <1>4, <1>5

\* An operand is pushed.
LEMMA PushStep ==
  ASSUME IInv, UNCHANGED <<arrays, blocks>>,
         NEW x \in Operands, OperandOK(arrays, blocks, x), x.kind # "populating", Push(x)
  PROVE  /\ HeapOK(arrays', blocks') /\ StackOK(arrays', blocks', stack')
         /\ O' = O
         /\ Len(K) < MaxStack
         /\ K' = Append(K, OperandOf(arrays, blocks, x))
<1>1. HeapOK(arrays, blocks) /\ StackOK(arrays, blocks, stack) /\ Len(K) = Len(stack)
  BY Invariant
<1>2. stack' = Append(stack, x) /\ Len(stack) < MaxStack
  BY DEF Push
<1>3. /\ StackOK(arrays, blocks, stack')
      /\ StackOf(arrays, blocks, stack') = Append(K, OperandOf(arrays, blocks, x))
  BY <1>1, <1>2, PushKeeps, PushMapped DEF K, StackOK
<1>4. arrays' = arrays /\ blocks' = blocks
  OBVIOUS
<1>5. K' = StackOf(arrays, blocks, stack') /\ O' = O
  BY <1>4 DEF K, O
<1> QED BY <1>1, <1>2, <1>3, <1>4, <1>5

\* The program stops.
LEMMA StopStep ==
  ASSUME IInv, NEW how \in {"stopped", "out of memory", "undefined"}, Stop(how)
  PROVE  IInv' /\ Objects!Stop(how)
<1>1. /\ arrays' = arrays /\ blocks' = blocks /\ variables' = variables /\ stack' = stack
      /\ status' = how
  BY DEF Stop
<1>2. IInv'
  BY <1>1 DEF IInv
<1>3. Objects!Stop(how)
  BY <1>1 DEF Objects!Stop
<1> QED BY <1>2, <1>3

\* A number is loaded as one of the objects' program is.
LEMMA LoadNumberStep == IInv /\ LoadNumber => IInv' /\ Objects!LoadNumber
<1> SUFFICES ASSUME IInv, LoadNumber PROVE IInv' /\ Objects!LoadNumber
  OBVIOUS
<1>1. PICK n \in Number : Push(Num(n))
  BY DEF LoadNumber
<1>2. /\ Running /\ UNCHANGED <<arrays, blocks>>
      /\ variables' = variables /\ status' = status
  BY DEF LoadNumber
<1>3. n \in Integer /\ n \in Int
  BY ArraysAssumption DEF Integer
<1>4. /\ Num(n) \in Operands /\ Num(n).kind = "number" /\ OperandOK(arrays, blocks, Num(n))
      /\ OperandOf(arrays, blocks, Num(n)) = Objects!Num(n)
  BY <1>3, Values
<1>5. /\ HeapOK(arrays', blocks') /\ StackOK(arrays', blocks', stack')
      /\ O' = O /\ Len(K) < MaxStack
      /\ K' = Append(K, Objects!Num(n))
  BY <1>1, <1>2, <1>4, PushStep
<1>6. IInv'
  BY <1>2, <1>5 DEF IInv
<1>7. Objects!LoadNumber
  BY <1>2, <1>5 DEF Objects!LoadNumber, Objects!Push, Objects!Running, Running, K, O
<1> QED BY <1>6, <1>7

\* The pointer of a variable is loaded as a reference is.
LEMMA LoadVariableStep == IInv /\ LoadVariable => IInv' /\ Objects!LoadVariable
<1> SUFFICES ASSUME IInv, LoadVariable PROVE IInv' /\ Objects!LoadVariable
  OBVIOUS
<1>1. PICK x \in DOMAIN variables : Push(Arr(VariableType[x], variables[x]))
  BY DEF LoadVariable
<1>2. /\ Running /\ UNCHANGED <<arrays, blocks>>
      /\ variables' = variables /\ status' = status
  BY DEF LoadVariable
<1> DEFINE t == VariableType[x]
           a == variables[x]
<1>3. t \in ElementType /\ a \in Int /\ Pointer(arrays, t, a)
  BY ArraysAssumption, Invariant DEF VariablesOK
<1> HIDE DEF t, a
<1>4. /\ Arr(t, a) \in Operands /\ Arr(t, a).kind = "array" /\ OperandOK(arrays, blocks, Arr(t, a))
      /\ OperandOf(arrays, blocks, Arr(t, a)) = Objects!Arr(t, a)
  BY <1>3, Values
<1>5. /\ HeapOK(arrays', blocks') /\ StackOK(arrays', blocks', stack')
      /\ O' = O /\ Len(K) < MaxStack
      /\ K' = Append(K, Objects!Arr(t, a))
  BY <1>1, <1>2, <1>4, PushStep DEF t, a
<1>6. IInv'
  BY <1>2, <1>5 DEF IInv
<1>7. Objects!LoadVariable
  BY <1>2, <1>5 DEF Objects!LoadVariable, Objects!Push, Objects!Running, Running, K, O, t, a
<1> QED BY <1>6, <1>7

\* A pointer is stored as a reference is.
LEMMA StoreVariableStep == IInv /\ StoreVariable => IInv' /\ Objects!StoreVariable
<1> SUFFICES ASSUME IInv, StoreVariable PROVE IInv' /\ Objects!StoreVariable
  OBVIOUS
<1>1. /\ Has(1) /\ Top.kind = "array" /\ stack' = Pop(1)
      /\ UNCHANGED <<arrays, blocks>> /\ status' = status
  BY DEF StoreVariable
<1>2. PICK x \in Variable :
        /\ VariableType[x] = Top.of
        /\ variables' = [y \in DOMAIN variables \cup {x} |-> IF y = x THEN Top.value ELSE variables[y]]
  BY DEF StoreVariable
<1>3. /\ Top \in Operands /\ OperandOK(arrays, blocks, Top)
      /\ Objects!Top = OperandOf(arrays, blocks, Top) /\ Objects!Has(1)
      /\ 1 \in 0 .. Len(stack)
      /\ \A k \in Len(stack) - 1 + 1 .. Len(stack) : stack[k].kind # "populating"
  BY <1>1, TopOperand
<1>4. /\ HeapOK(arrays', blocks') /\ StackOK(arrays', blocks', stack')
      /\ O' = O /\ K' = SubSeq(K, 1, Len(K) - 1)
  BY <1>1, <1>3, PopStep
<1>5. Pointer(arrays, Top.of, Top.value) /\ Top.value \in Nat
  BY <1>1, <1>3 DEF OperandOK, Pointer, Null
<1>6. VariablesOK(arrays, variables)
  BY Invariant
<1>7. VariablesOK(arrays', variables')
  BY <1>1, <1>2, <1>5, <1>6 DEF VariablesOK
<1>8. IInv'
  BY <1>1, <1>4, <1>7 DEF IInv
<1>9. Objects!Top.kind = "array" /\ Objects!Top.of = Top.of /\ Objects!Top.value = Top.value
  BY <1>1, <1>3, OperandFields
<1>10. Objects!StoreVariable
  BY <1>1, <1>2, <1>3, <1>4, <1>9 DEF Objects!StoreVariable, Objects!Pop, K, O
<1> QED BY <1>8, <1>10

\* A result that nobody uses is discarded.
LEMMA ExpressionStatementStep == IInv /\ ExpressionStatement => IInv' /\ Objects!Discard
<1> SUFFICES ASSUME IInv, ExpressionStatement PROVE IInv' /\ Objects!Discard
  OBVIOUS
<1>1. /\ Has(1) /\ Top.kind \in {"number", "array"} /\ stack' = Pop(1)
      /\ UNCHANGED <<arrays, blocks>> /\ variables' = variables /\ status' = status
  BY DEF ExpressionStatement
<1>2. /\ Objects!Top = OperandOf(arrays, blocks, Top) /\ Objects!Has(1)
      /\ 1 \in 0 .. Len(stack)
      /\ \A k \in Len(stack) - 1 + 1 .. Len(stack) : stack[k].kind # "populating"
  BY <1>1, TopOperand
<1>3. /\ HeapOK(arrays', blocks') /\ StackOK(arrays', blocks', stack')
      /\ O' = O /\ K' = SubSeq(K, 1, Len(K) - 1)
  BY <1>1, <1>2, PopStep
<1>4. IInv'
  BY <1>1, <1>3 DEF IInv
<1>5. Objects!Top.kind \in {"number", "array"}
  BY <1>1, <1>2, OperandFields
<1>6. Objects!Discard
  BY <1>1, <1>2, <1>3, <1>5 DEF Objects!Discard, Objects!Pop, K, O
<1> QED BY <1>4, <1>6

-----------------------------------------------------------------------------
(* Steps that read the heap.                                               *)

\* A pointer to an array that is allocated is a reference to an object that lives.
LEMMA LiveObjects ==
  ASSUME IInv, NEW t, NEW v, Pointer(arrays, t, v)
  PROVE  /\ Objects!IsLive(v) <=> IsArray(v)
         /\ v # Null =>
              /\ v \in 1 .. Len(arrays) /\ arrays[v].data = v /\ arrays[v].of = t
              /\ v \in DOMAIN O
              /\ O[v].elements = CellsOf(blocks, v, arrays[v].size)
              /\ Objects!Size(v) = arrays[v].size
              /\ O[v].of = t /\ O[v].live = arrays[v].live
              /\ Large(arrays[v].size, t) => Objects!IsBad(v)
<1>1. HeapOK(arrays, blocks)
  BY Invariant
<1>2. Len(arrays) \in Nat
  BY <1>1 DEF HeapOK
<1>3. CASE v = Null
  <2>1. v \notin 1 .. Len(arrays)
    BY <1>2, <1>3 DEF Null
  <2>2. v \notin DOMAIN O
    BY <2>1 DEF O, ObjectsOf
  <2> QED BY <1>3, <2>1, <2>2 DEF Objects!IsLive, IsArray, O
<1>4. CASE v # Null
  <2>1. v \in 1 .. Len(arrays) /\ arrays[v].data = v /\ arrays[v].of = t
    BY <1>4 DEF Pointer
  <2>2. v \in DOMAIN O /\ O[v] = ObjectOf(arrays, blocks, v)
    BY <1>4, <2>1 DEF O, ObjectsOf
  <2>3. /\ O[v].of = t /\ O[v].live = arrays[v].live
        /\ O[v].elements = CellsOf(blocks, v, arrays[v].size)
    BY <2>1, <2>2 DEF ObjectOf
  <2>4. arrays[v].size \in Nat
    BY <1>1, <2>1, HeapTypes
  <2>5. Len(CellsOf(blocks, v, arrays[v].size)) = arrays[v].size
    BY <1>1, <2>1, <2>4, CellsMapped
  <2>6. Objects!Size(v) = arrays[v].size
    BY <2>3, <2>5 DEF Objects!Size, O
  <2>7. Objects!IsLive(v) <=> IsArray(v)
    BY <2>1, <2>2, <2>3 DEF Objects!IsLive, IsArray, O
  <2>8. Large(arrays[v].size, t) => Objects!IsBad(v)
    BY <2>3, <2>6 DEF Objects!IsBad, Objects!IsLarge, Large, O
  <2> QED BY <1>4, <2>1, <2>2, <2>3, <2>6, <2>7, <2>8
<1> QED BY <1>3, <1>4

\* Every element of an array that is not large can be read.
LEMMA ElementsAreReadable ==
  ASSUME IInv, NEW a \in 1 .. Len(arrays), arrays[a].data = a, arrays[a].live,
         ~Large(arrays[a].size, arrays[a].of), NEW i \in 0 .. arrays[a].size - 1
  PROVE  Readable(a, i, arrays[a].of)
<1>1. HeapOK(arrays, blocks)
  BY Invariant
<1>2. /\ arrays[a].of \in ElementType /\ arrays[a].size \in Nat
      /\ Len(blocks) = Len(arrays) /\ blocks[a].live
      /\ blocks[a].bytes = DataSize(arrays[a].size, arrays[a].of)
      /\ ArrayOK(arrays, blocks, a)
  BY <1>1, HeapTypes
<1>3. i \in Nat /\ i < arrays[a].size
  BY <1>2
<1>4. (i + 1) * ElementSize[arrays[a].of] <= blocks[a].bytes
  BY <1>2, <1>3, Elements
<1>5. i \in blocks[a].set
  BY <1>2 DEF ArrayOK
<1> QED BY <1>2, <1>4, <1>5 DEF Readable, Inside, IsBlock

\* An element as an operand.
LEMMA ElementValues ==
  ASSUME NEW A, NEW B, NEW t \in ElementType, NEW v, Fits(A, t, v)
  PROVE  /\ Element(t, v) \in Operands /\ Element(t, v).kind # "populating"
         /\ OperandOK(A, B, Element(t, v))
         /\ OperandOf(A, B, Element(t, v)) = Objects!Element(t, v)
<1>1. CASE t = "int"
  <2>1. v \in Integer /\ v \in Int
    BY <1>1 DEF Fits
  <2>2. Element(t, v) = Num(v) /\ Objects!Element(t, v) = Objects!Num(v)
    BY <1>1 DEF Element, Objects!Element
  <2> QED BY <2>1, <2>2, Values
<1>2. CASE t # "int"
  <2>1. Pointer(A, "int", v) /\ v \in Int /\ "int" \in ElementType
    BY <1>2 DEF Fits, ElementType
  <2>2. Element(t, v) = Arr("int", v) /\ Objects!Element(t, v) = Objects!Arr("int", v)
    BY <1>2 DEF Element, Objects!Element
  <2> QED BY <2>1, <2>2, Values
<1> QED BY <1>1, <1>2

\* Anything may happen when an operand refers to what can not be used.
LEMMA MisuseOfTop ==
  ASSUME IInv, Has(1), Undefined, Top.kind \in {"array", "indexing"}, Objects!IsBad(Top.value)
  PROVE  IInv' /\ Objects!Misuse
<1>1. IInv' /\ Objects!Stop("undefined")
  BY StopStep DEF Undefined
<1>2. Objects!Top = OperandOf(arrays, blocks, Top) /\ Objects!Has(1)
  BY TopOperand
<1>3. Top.value \in Objects!Uses(Objects!Top)
  BY <1>2, OperandFields DEF Objects!Uses
<1>4. Objects!Top = K[Len(K)] /\ Len(K) \in {Len(K), Len(K) - 1} \ {0}
  BY Invariant DEF Objects!Top, K, Has
<1> QED BY <1>1, <1>2, <1>3, <1>4 DEF Objects!Misuse, K

\* The same of the operand below the topmost: an array that is indexed, or an address.
LEMMA MisuseBelow ==
  ASSUME IInv, Has(2), Undefined,
         \/ Below.kind = "indexing" /\ Objects!IsBad(Below.value)
         \/ Below.kind = "address" /\ Objects!IsBad(Below.data)
  PROVE  IInv' /\ Objects!Misuse
<1>1. IInv' /\ Objects!Stop("undefined")
  BY StopStep DEF Undefined
<1>2. Objects!Below = OperandOf(arrays, blocks, Below) /\ Has(1)
  BY TwoOperands
<1>3. Objects!Has(1)
  BY <1>2, TopOperand
<1>4. \E r \in Objects!Uses(Objects!Below) : Objects!IsBad(r)
  BY <1>2, OperandFields DEF Objects!Uses
<1>5. Objects!Below = K[Len(K) - 1] /\ Len(K) - 1 \in {Len(K), Len(K) - 1} \ {0}
  BY Invariant DEF Objects!Below, K, Has
<1> QED BY <1>1, <1>3, <1>4, <1>5 DEF Objects!Misuse, K

\* The array is kept for its index, unless it is none.
LEMMA BeginArrayIndexingStep ==
  IInv /\ BeginArrayIndexing => IInv' /\ (Objects!BeginIndexing \/ Objects!Misuse)
<1> SUFFICES ASSUME IInv, BeginArrayIndexing
             PROVE  IInv' /\ (Objects!BeginIndexing \/ Objects!Misuse)
  OBVIOUS
<1>1. Has(1) /\ Top.kind = "array"
  BY DEF BeginArrayIndexing
<1>2. /\ Top \in Operands /\ OperandOK(arrays, blocks, Top)
      /\ Objects!Top = OperandOf(arrays, blocks, Top) /\ Objects!Has(1)
      /\ 1 \in 0 .. Len(stack)
      /\ \A k \in Len(stack) - 1 + 1 .. Len(stack) : stack[k].kind # "populating"
  BY <1>1, TopOperand
<1>3. Pointer(arrays, Top.of, Top.value)
  BY <1>1, <1>2 DEF OperandOK
<1>4. CASE ~IsArray(Top.value) /\ Undefined
  <2>1. Objects!IsBad(Top.value)
    BY <1>3, <1>4, LiveObjects DEF Objects!IsBad
  <2> QED BY <1>1, <1>4, <2>1, MisuseOfTop
<1> DEFINE x == Operand("indexing", Top.of, Top.value, arrays[Top.value].data, 0)
<1>5. CASE IsArray(Top.value) /\ Replace(1, x) /\ UNCHANGED <<arrays, blocks, variables, status>>
  <2>1. Top.value # Null /\ Top.value \in 1 .. Len(arrays) /\ arrays[Top.value].data = Top.value
    BY <1>3, <1>5 DEF IsArray, Pointer, Null
  <2>2. Top.of \in ElementType /\ Top.value \in Int /\ Top.value \in Nat
    BY <1>2, <2>1 DEF Operands
  <2>3. x = [kind |-> "indexing", of |-> Top.of, value |-> Top.value, data |-> Top.value, index |-> 0]
    BY <2>1 DEF Operand
  <2>4. x \in Operands /\ x.kind = "indexing"
    BY <2>2, <2>3 DEF Operands, Kind
  <2>5. OperandOK(arrays, blocks, x)
    BY <1>3, <2>1, <2>3 DEF OperandOK
  <2>6. OperandOf(arrays, blocks, x) = Objects!Operand("indexing", Top.of, Top.value)
    BY <2>3 DEF OperandOf, Abstract, Objects!Operand
  <2> HIDE DEF x
  <2>7. /\ HeapOK(arrays', blocks') /\ StackOK(arrays', blocks', stack')
        /\ O' = O
        /\ K' = Append(SubSeq(K, 1, Len(K) - 1), Objects!Operand("indexing", Top.of, Top.value))
    BY <1>2, <1>5, <2>4, <2>5, <2>6, ReplaceStep
  <2>8. IInv'
    BY <1>5, <2>7 DEF IInv
  <2>9. Objects!Top.kind = "array" /\ Objects!Top.of = Top.of /\ Objects!Top.value = Top.value
    BY <1>1, <1>2, OperandFields
  <2>10. Objects!BeginIndexing
    BY <1>2, <1>5, <2>7, <2>9 DEF Objects!BeginIndexing, Objects!Replace, Objects!Pop, K, O
  <2> QED BY <2>8, <2>10
<1> QED BY <1>4, <1>5 DEF BeginArrayIndexing

\* An index in range gives the element that was stored, or its place; any other stops.
LEMMA EndArrayIndexingStep ==
  IInv /\ EndArrayIndexing => IInv' /\ (Objects!EndIndexing \/ Objects!Misuse)
<1> SUFFICES ASSUME IInv, EndArrayIndexing
             PROVE  IInv' /\ (Objects!EndIndexing \/ Objects!Misuse)
  OBVIOUS
<1> DEFINE i == Top.value
           a == Below.value
           t == Below.of
<1>1. Has(2) /\ Below.kind = "indexing" /\ Top.kind = "number"
  BY DEF EndArrayIndexing
<1>2. /\ Has(1) /\ 2 \in 0 .. Len(stack)
      /\ Below \in Operands /\ OperandOK(arrays, blocks, Below)
      /\ Objects!Below = OperandOf(arrays, blocks, Below) /\ Objects!Has(2)
      /\ \A k \in Len(stack) - 2 + 1 .. Len(stack) : stack[k].kind # "populating"
  BY <1>1, TwoOperands
<1>3. /\ Top \in Operands /\ OperandOK(arrays, blocks, Top)
      /\ Objects!Top = OperandOf(arrays, blocks, Top)
  BY <1>2, TopOperand
<1>4. /\ Objects!Top.kind = "number" /\ Objects!Top.value = i
      /\ Objects!Below.kind = "indexing" /\ Objects!Below.value = a /\ Objects!Below.of = t
  BY <1>1, <1>2, <1>3, OperandFields
<1>5. /\ Pointer(arrays, t, a) /\ a # Null /\ Below.data = a
      /\ i \in Integer /\ t \in ElementType
  BY <1>1, <1>2, <1>3 DEF OperandOK, Operands
<1>6. /\ Objects!IsLive(a) <=> IsArray(a)
      /\ a \in 1 .. Len(arrays) /\ arrays[a].data = a /\ arrays[a].of = t
      /\ O[a].elements = CellsOf(blocks, a, arrays[a].size)
      /\ Objects!Size(a) = arrays[a].size
      /\ Large(arrays[a].size, t) => Objects!IsBad(a)
  BY <1>5, LiveObjects
<1>7. /\ arrays[a].size \in 0 .. Limit - 1 /\ arrays[a].size \in Nat
      /\ HeapOK(arrays, blocks) /\ ArrayOK(arrays, blocks, a) /\ blocks[a].set \subseteq Offset
  BY <1>6, Invariant, HeapTypes
<1>8. i \in Int /\ Limit \in Nat \ {0}
  BY <1>5, ArraysAssumption DEF Integer
<1>9. i >= 0 => (BeyondSize(i, a) <=> i >= arrays[a].size)
  <2>1. SUFFICES ASSUME i >= 0 PROVE BeyondSize(i, a) <=> i >= arrays[a].size
    OBVIOUS
  <2>2. i \in Nat /\ i < 2 * Limit /\ arrays[a].size < 2 * Limit
    BY <1>5, <1>7, <1>8, <2>1 DEF Integer
  <2> QED BY <1>7, <2>2, UnsignedOf DEF BeyondSize
<1> HIDE DEF i, a, t
<1>10. CASE i < 0 /\ RuntimeError
  <2>1. IInv' /\ Objects!Stop("stopped")
    BY <1>10, StopStep DEF RuntimeError
  <2> QED BY <1>2, <1>4, <1>10, <2>1 DEF Objects!EndIndexing
<1>11. CASE i >= 0 /\ ~IsArray(a) /\ Undefined
  <2>1. Objects!IsBad(a)
    BY <1>6, <1>11 DEF Objects!IsBad
  <2> QED BY <1>1, <1>11, <2>1, MisuseBelow DEF a
<1>12. CASE i >= 0 /\ IsArray(a) /\ BeyondSize(i, a) /\ RuntimeError
  <2>1. IInv' /\ Objects!Stop("stopped")
    BY <1>12, StopStep DEF RuntimeError
  <2>2. i >= Objects!Size(a) /\ Objects!IsLive(a)
    BY <1>6, <1>9, <1>12
  <2> QED BY <1>2, <1>4, <2>1, <2>2 DEF Objects!EndIndexing
<1>13. ASSUME i >= 0, IsArray(a), ~BeyondSize(i, a)
       PROVE  /\ i \in Nat /\ i < arrays[a].size /\ i \in 0 .. arrays[a].size - 1
              /\ i \in 0 .. Objects!Size(a) - 1 /\ Objects!IsLive(a)
  BY <1>6, <1>7, <1>8, <1>9, <1>13
<1> DEFINE x == Operand("address", t, Null, a, i)
<1>14. CASE /\ i >= 0 /\ IsArray(a) /\ ~BeyondSize(i, a)
            /\ Replace(2, x) /\ UNCHANGED <<arrays, blocks, variables, status>>
  <2>1. x = [kind |-> "address", of |-> t, value |-> Null, data |-> a, index |-> i]
    BY DEF Operand
  <2>2. a \in Nat /\ Null \in Int
    BY <1>6 DEF Null
  <2>3. x \in Operands /\ x.kind = "address"
    BY <1>5, <1>13, <1>14, <2>1, <2>2 DEF Operands, Kind
  <2>4. OperandOK(arrays, blocks, x)
    BY <1>5, <1>13, <1>14, <2>1 DEF OperandOK
  <2>5. OperandOf(arrays, blocks, x) = [Objects!Operand("address", t, a) EXCEPT !.index = i]
    BY <2>1 DEF OperandOf, Abstract, Objects!Operand
  <2> HIDE DEF x
  <2>6. /\ HeapOK(arrays', blocks') /\ StackOK(arrays', blocks', stack')
        /\ O' = O
        /\ K' = Append(SubSeq(K, 1, Len(K) - 2), OperandOf(arrays, blocks, x))
    BY <1>2, <1>14, <2>3, <2>4, ReplaceStep
  <2>7. IInv'
    BY <1>14, <2>6 DEF IInv
  <2>8. Objects!Replace(2, [Objects!Operand("address", t, a) EXCEPT !.index = i])
    BY <2>5, <2>6 DEF Objects!Replace, Objects!Pop, K
  <2>9. Objects!EndIndexing
    BY <1>2, <1>4, <1>13, <1>14, <2>6, <2>8 DEF Objects!EndIndexing, O
  <2> QED BY <2>7, <2>9
<1>15. CASE /\ i >= 0 /\ IsArray(a) /\ ~BeyondSize(i, a)
            /\ ~Readable(a, i, t) /\ Undefined
  <2>1. Large(arrays[a].size, t)
    BY <1>6, <1>13, <1>15, ElementsAreReadable DEF IsArray
  <2> QED BY <1>1, <1>6, <1>15, <2>1, MisuseBelow DEF a
<1> DEFINE v == blocks[a].cells[i]
<1>16. CASE /\ i >= 0 /\ IsArray(a) /\ ~BeyondSize(i, a) /\ Readable(a, i, t)
            /\ Replace(2, Element(t, v)) /\ UNCHANGED <<arrays, blocks, variables, status>>
  <2>1. i \in blocks[a].set /\ i \in Offset
    BY <1>7, <1>16 DEF Readable
  <2>2. Fits(arrays, t, v)
    BY <1>6, <1>7, <2>1 DEF ArrayOK
  <2>3. O[a].elements[i + 1] = v
    <3>1. i + 1 \in 1 .. arrays[a].size /\ (i + 1) - 1 = i
      BY <1>7, <1>13, <1>16
    <3>2. CellsOf(blocks, a, arrays[a].size)[i + 1]
            = IF (i + 1) - 1 \in blocks[a].set THEN blocks[a].cells[(i + 1) - 1] ELSE Null
      BY <1>7, <3>1, CellAt
    <3>3. CellsOf(blocks, a, arrays[a].size)[i + 1] = v
      BY <2>1, <3>1, <3>2
    <3> QED BY <1>6, <3>3
  <2> HIDE DEF v
  <2>4. /\ Element(t, v) \in Operands /\ Element(t, v).kind # "populating"
        /\ OperandOK(arrays, blocks, Element(t, v))
        /\ OperandOf(arrays, blocks, Element(t, v)) = Objects!Element(t, v)
    BY <1>5, <2>2, ElementValues
  <2>5. /\ HeapOK(arrays', blocks') /\ StackOK(arrays', blocks', stack')
        /\ O' = O
        /\ K' = Append(SubSeq(K, 1, Len(K) - 2), Objects!Element(t, v))
    BY <1>2, <1>16, <2>4, ReplaceStep
  <2>6. IInv'
    BY <1>16, <2>5 DEF IInv
  <2>7. Objects!Replace(2, Objects!Element(t, v))
    BY <2>5 DEF Objects!Replace, Objects!Pop, K
  <2>8. Objects!EndIndexing
    BY <1>2, <1>4, <1>13, <1>16, <2>3, <2>5, <2>7 DEF Objects!EndIndexing, O
  <2> QED BY <2>6, <2>8
<1>17. \/ i < 0 /\ RuntimeError
       \/ i >= 0 /\ ~IsArray(a) /\ Undefined
       \/ i >= 0 /\ IsArray(a) /\ BeyondSize(i, a) /\ RuntimeError
       \/ /\ i >= 0 /\ IsArray(a) /\ ~BeyondSize(i, a)
          /\ Replace(2, x) /\ UNCHANGED <<arrays, blocks, variables, status>>
       \/ i >= 0 /\ IsArray(a) /\ ~BeyondSize(i, a) /\ ~Readable(a, i, t) /\ Undefined
       \/ /\ i >= 0 /\ IsArray(a) /\ ~BeyondSize(i, a) /\ Readable(a, i, t)
          /\ Replace(2, Element(t, v)) /\ UNCHANGED <<arrays, blocks, variables, status>>
  BY <1>5 DEF EndArrayIndexing, i, a, t
<1> HIDE DEF x, v
<1> QED BY <1>10, <1>11, <1>12, <1>14, <1>15, <1>16, <1>17

\* The size is the number of elements.
LEMMA ArraySizeofStep ==
  IInv /\ ArraySizeof => IInv' /\ (Objects!Sizeof \/ Objects!Misuse)
<1> SUFFICES ASSUME IInv, ArraySizeof PROVE IInv' /\ (Objects!Sizeof \/ Objects!Misuse)
  OBVIOUS
<1>1. Has(1) /\ Top.kind = "array"
  BY DEF ArraySizeof
<1>2. /\ Top \in Operands /\ OperandOK(arrays, blocks, Top)
      /\ Objects!Top = OperandOf(arrays, blocks, Top) /\ Objects!Has(1)
      /\ 1 \in 0 .. Len(stack)
      /\ \A k \in Len(stack) - 1 + 1 .. Len(stack) : stack[k].kind # "populating"
  BY <1>1, TopOperand
<1>3. Pointer(arrays, Top.of, Top.value)
  BY <1>1, <1>2 DEF OperandOK
<1>4. CASE ~IsArray(Top.value) /\ Undefined
  <2>1. Objects!IsBad(Top.value)
    BY <1>3, <1>4, LiveObjects DEF Objects!IsBad
  <2> QED BY <1>1, <1>4, <2>1, MisuseOfTop
<1> DEFINE n == arrays[Top.value].size
<1>5. CASE IsArray(Top.value) /\ Replace(1, Num(n)) /\ UNCHANGED <<arrays, blocks, variables, status>>
  <2>1. Top.value # Null /\ Top.value \in 1 .. Len(arrays)
    BY <1>3, <1>5 DEF IsArray, Pointer, Null
  <2>2. Objects!IsLive(Top.value) /\ Objects!Size(Top.value) = n
    BY <1>3, <1>5, <2>1, LiveObjects
  <2>3. n \in Integer /\ n \in Int
    <3>1. n \in 0 .. Limit - 1 /\ Limit \in Nat \ {0}
      BY <2>1, Invariant, HeapTypes, ArraysAssumption
    <3> HIDE DEF n
    <3> QED BY <3>1 DEF Integer
  <2> HIDE DEF n
  <2>4. /\ Num(n) \in Operands /\ Num(n).kind = "number" /\ OperandOK(arrays, blocks, Num(n))
        /\ OperandOf(arrays, blocks, Num(n)) = Objects!Num(n)
    BY <2>3, Values
  <2>5. /\ HeapOK(arrays', blocks') /\ StackOK(arrays', blocks', stack')
        /\ O' = O /\ K' = Append(SubSeq(K, 1, Len(K) - 1), Objects!Num(n))
    BY <1>2, <1>5, <2>4, ReplaceStep
  <2>6. IInv'
    BY <1>5, <2>5 DEF IInv
  <2>7. Objects!Top.kind = "array" /\ Objects!Top.value = Top.value
    BY <1>1, <1>2, OperandFields
  <2>8. Objects!Sizeof
    BY <1>2, <1>5, <2>2, <2>5, <2>7 DEF Objects!Sizeof, Objects!Replace, Objects!Pop, K, O
  <2> QED BY <2>6, <2>8
<1> QED BY <1>4, <1>5 DEF ArraySizeof

\* An array whose elements can not all be loaded is none, or a large one.
LEMMA Printing ==
  ASSUME IInv, NEW t, NEW v, Pointer(arrays, t, v)
  PROVE  /\ CanPrint(t, v) => Objects!IsLive(v)
         /\ ~CanPrint(t, v) => Objects!IsBad(v)
<1>1. /\ Objects!IsLive(v) <=> IsArray(v)
      /\ v # Null =>
           /\ v \in 1 .. Len(arrays) /\ arrays[v].data = v /\ arrays[v].of = t
           /\ Large(arrays[v].size, t) => Objects!IsBad(v)
  BY LiveObjects
<1>2. IsArray(v) => v # Null
  BY DEF IsArray, Null
<1>3. ASSUME IsArray(v), ~Large(arrays[v].size, t) PROVE CanPrint(t, v)
  BY <1>1, <1>2, <1>3, ElementsAreReadable DEF CanPrint, IsArray
<1> QED BY <1>1, <1>2, <1>3 DEF CanPrint, Objects!IsBad

\* Printing reads an array and the arrays in it, if all of them are some.
LEMMA PrintStep ==
  IInv /\ PrintStatement => IInv' /\ (Objects!PrintStatement \/ Objects!Misuse)
<1> SUFFICES ASSUME IInv, PrintStatement
             PROVE  IInv' /\ (Objects!PrintStatement \/ Objects!Misuse)
  OBVIOUS
<1> DEFINE v == Top.value
           n == arrays[v].size
           e(i) == blocks[arrays[v].data].cells[i]
           Inner == Top.of = "array" => \A i \in 0 .. n - 1 : CanPrint("int", e(i))
<1>1. Has(1) /\ Top.kind = "array"
  BY DEF PrintStatement
<1>2. /\ Top \in Operands /\ OperandOK(arrays, blocks, Top)
      /\ Objects!Top = OperandOf(arrays, blocks, Top) /\ Objects!Has(1)
      /\ 1 \in 0 .. Len(stack)
      /\ \A k \in Len(stack) - 1 + 1 .. Len(stack) : stack[k].kind # "populating"
  BY <1>1, TopOperand
<1>3. Pointer(arrays, Top.of, v)
  BY <1>1, <1>2 DEF OperandOK
<1>4. Objects!Top.kind = "array" /\ Objects!Top.of = Top.of /\ Objects!Top.value = v
  BY <1>1, <1>2, OperandFields
<1>5. /\ CanPrint(Top.of, v) => Objects!IsLive(v)
      /\ ~CanPrint(Top.of, v) => Objects!IsBad(v)
  BY <1>3, Printing
<1>6. v \in Objects!Prints(Objects!Top)
  BY <1>4 DEF Objects!Prints
<1>7. ASSUME CanPrint(Top.of, v)
      PROVE  /\ v # Null /\ v \in 1 .. Len(arrays) /\ arrays[v].data = v
             /\ n \in Nat /\ Objects!Size(v) = n
             /\ O[v].elements = CellsOf(blocks, v, n)
             /\ \A i \in 0 .. n - 1 :
                  CellsOf(blocks, v, n)[i + 1] = e(i) /\ Fits(arrays, Top.of, e(i))
  <2>1. v # Null
    BY <1>7 DEF CanPrint, IsArray, Null
  <2>2. /\ v \in 1 .. Len(arrays) /\ arrays[v].data = v /\ arrays[v].of = Top.of
        /\ Objects!Size(v) = n /\ O[v].elements = CellsOf(blocks, v, n)
    BY <1>3, <2>1, LiveObjects
  <2>3. n \in Nat /\ blocks[v].set \subseteq Offset /\ ArrayOK(arrays, blocks, v)
    BY <2>2, Invariant, HeapTypes
  <2>4. ASSUME NEW i \in 0 .. n - 1
        PROVE  CellsOf(blocks, v, n)[i + 1] = e(i) /\ Fits(arrays, Top.of, e(i))
    <3>1. i + 1 \in 1 .. n /\ (i + 1) - 1 = i
      BY <2>3
    <3>2. i \in blocks[v].set
      BY <1>7, <2>2 DEF CanPrint, Readable
    <3>3. CellsOf(blocks, v, n)[i + 1]
            = IF (i + 1) - 1 \in blocks[v].set THEN blocks[v].cells[(i + 1) - 1] ELSE Null
      BY <2>3, <3>1, CellAt
    <3>4. CellsOf(blocks, v, n)[i + 1] = e(i)
      BY <2>2, <3>1, <3>2, <3>3
    <3>5. Fits(arrays, Top.of, e(i))
      BY <2>2, <2>3, <3>2 DEF ArrayOK
    <3> QED BY <3>4, <3>5
  <2> QED BY <2>1, <2>2, <2>3, <2>4
<1> HIDE DEF v, n, e
<1>8. CASE ~CanPrint(Top.of, v) /\ Undefined
  BY <1>1, <1>5, <1>8, MisuseOfTop DEF v
<1>9. CASE CanPrint(Top.of, v) /\ ~Inner /\ Undefined
  <2>1. IInv' /\ Objects!Stop("undefined")
    BY <1>9, StopStep DEF Undefined
  <2>2. PICK i \in 0 .. n - 1 : ~CanPrint("int", e(i))
    BY <1>9
  <2>3. Pointer(arrays, "int", e(i))
    BY <1>7, <1>9, <2>2 DEF Fits
  <2>4. Objects!IsBad(e(i))
    BY <2>2, <2>3, Printing
  <2>5. e(i) \in Objects!Prints(Objects!Top)
    <3>1. i + 1 \in 1 .. Objects!Size(v) /\ O[v].elements[i + 1] = e(i)
      BY <1>7, <1>9
    <3> QED BY <1>4, <1>5, <1>9, <3>1 DEF Objects!Prints, O
  <2> QED BY <1>2, <1>4, <2>1, <2>4, <2>5 DEF Objects!Misuse, Objects!Top
<1>10. CASE CanPrint(Top.of, v) /\ Inner /\ stack' = Pop(1) /\ UNCHANGED <<arrays, blocks, variables, status>>
  <2>1. /\ HeapOK(arrays', blocks') /\ StackOK(arrays', blocks', stack')
        /\ O' = O /\ K' = SubSeq(K, 1, Len(K) - 1)
    BY <1>2, <1>10, PopStep
  <2>2. IInv'
    BY <1>10, <2>1 DEF IInv
  <2>3. ASSUME NEW r \in Objects!Prints(Objects!Top) PROVE Objects!IsLive(r)
    <3>1. CASE r = v
      BY <1>5, <1>10, <3>1
    <3>2. CASE r # v
      <4>1. Top.of = "array" /\ \E j \in 1 .. Objects!Size(v) : r = O[v].elements[j]
        BY <1>4, <2>3, <3>2 DEF Objects!Prints, O
      <4>2. PICK j \in 1 .. n : r = CellsOf(blocks, v, n)[j]
        BY <1>7, <1>10, <4>1
      <4>3. j - 1 \in 0 .. n - 1 /\ (j - 1) + 1 = j
        BY <1>7, <1>10
      <4>4. r = e(j - 1) /\ Fits(arrays, Top.of, e(j - 1)) /\ CanPrint("int", e(j - 1))
        BY <1>7, <1>10, <4>1, <4>2, <4>3
      <4>5. Pointer(arrays, "int", r)
        BY <4>1, <4>4 DEF Fits
      <4> QED BY <4>4, <4>5, Printing
    <3> QED BY <3>1, <3>2
  <2>4. Objects!PrintStatement
    BY <1>2, <1>4, <1>10, <2>1, <2>3 DEF Objects!PrintStatement, Objects!Pop, K, O
  <2> QED BY <2>2, <2>4
<1>11. \/ ~(CanPrint(Top.of, v) /\ Inner) /\ Undefined
       \/ CanPrint(Top.of, v) /\ Inner /\ stack' = Pop(1) /\ UNCHANGED <<arrays, blocks, variables, status>>
  BY DEF PrintStatement, v, n, e
<1> HIDE DEF Inner
<1> QED BY <1>8, <1>9, <1>10, <1>11

-----------------------------------------------------------------------------
(* Steps that change the heap.                                             *)

\* The stack stands for the same as long as the arrays that are populated do.
LEMMA FrameMapped ==
  ASSUME NEW A, NEW B, NEW S, StackTyped(A, B, S), NEW A2, NEW B2, Grows(A, A2),
         \A k \in 1 .. Len(S) :
           S[k].kind = "populating" => B2[S[k].data] = B[S[k].data]
  PROVE  StackOf(A2, B2, S) = StackOf(A, B, S)
<1>1. ASSUME NEW k \in 1 .. Len(S) PROVE OperandOf(A2, B2, S[k]) = OperandOf(A, B, S[k])
  <2>1. CASE S[k].kind = "populating"
    <3>1. S[k].value = S[k].data /\ S[k].data \in 1 .. Len(A)
      BY <2>1 DEF StackTyped, OperandOK
    <3>2. A2[S[k].value].size = A[S[k].value].size
      BY <3>1 DEF Grows
    <3>3. CellsOf(B2, S[k].data, S[k].index) = CellsOf(B, S[k].data, S[k].index)
      BY <2>1 DEF CellsOf
    <3> QED BY <2>1, <3>2, <3>3 DEF OperandOf
  <2>2. CASE S[k].kind # "populating"
    BY <2>2 DEF OperandOf
  <2> QED BY <2>1, <2>2
<1> QED BY <1>1 DEF StackOf

Extended(F, r, x, F2) ==
  /\ r \notin DOMAIN F
  /\ F2 = [q \in DOMAIN F \cup {r} |-> IF q = r THEN x ELSE F[q]]

\* One more array is connected.
LEMMA ObjectsExtended ==
  ASSUME NEW A, NEW B, HeapOK(A, B), NEW A2, NEW B2, HeapOK(A2, B2), Len(A) <= Len(A2),
         NEW r \in 1 .. Len(A2), A2[r].data # Null, r \in 1 .. Len(A) => A[r].data = Null,
         \A a \in 1 .. Len(A2) : a # r => a \in 1 .. Len(A) /\ A2[a] = A[a] /\ B2[a] = B[a]
  PROVE  Extended(ObjectsOf(A, B), r, ObjectOf(A2, B2, r), ObjectsOf(A2, B2))
<1> DEFINE D == {b \in 1 .. Len(A) : A[b].data # Null}
           D2 == {b \in 1 .. Len(A2) : A2[b].data # Null}
<1>1. Len(A) \in Nat /\ Len(A2) \in Nat
  BY DEF HeapOK
<1>2. DOMAIN ObjectsOf(A, B) = D /\ r \notin D
  BY DEF ObjectsOf
<1>3. D2 = D \cup {r}
  BY <1>1
<1>4. ASSUME NEW a \in D, a # r PROVE ObjectOf(A2, B2, a) = ObjectsOf(A, B)[a]
  <2>1. a \in 1 .. Len(A2) /\ A2[a] = A[a] /\ B2[a] = B[a]
    BY <1>1, <1>4
  <2>2. A[a].data = a
    BY HeapTypes
  <2>3. CellsOf(B2, a, A[a].size) = CellsOf(B, a, A[a].size)
    BY <2>1 DEF CellsOf
  <2>4. ObjectOf(A2, B2, a) = ObjectOf(A, B, a)
    BY <2>1, <2>2, <2>3 DEF ObjectOf
  <2> QED BY <2>4 DEF ObjectsOf
<1>5. ObjectsOf(A2, B2) = [a \in D2 |-> ObjectOf(A2, B2, a)]
  BY DEF ObjectsOf
<1> HIDE DEF D, D2
<1> QED BY <1>2, <1>3, <1>4, <1>5 DEF Extended

\* One object changes.
LEMMA ObjectChanged ==
  ASSUME NEW A, NEW B, HeapOK(A, B), NEW A2, NEW B2, HeapOK(A2, B2), Len(A2) = Len(A),
         NEW d \in 1 .. Len(A), A[d].data # Null, A2[d].data # Null,
         \A a \in 1 .. Len(A) : a # d => A2[a] = A[a] /\ B2[a] = B[a]
  PROVE  ObjectsOf(A2, B2) = [ObjectsOf(A, B) EXCEPT ![d] = ObjectOf(A2, B2, d)]
<1> DEFINE D == {b \in 1 .. Len(A) : A[b].data # Null}
           D2 == {b \in 1 .. Len(A2) : A2[b].data # Null}
<1>1. D2 = D /\ DOMAIN ObjectsOf(A, B) = D
  BY DEF ObjectsOf
<1>2. ASSUME NEW a \in D, a # d PROVE ObjectOf(A2, B2, a) = ObjectsOf(A, B)[a]
  <2>1. a \in 1 .. Len(A) /\ A2[a] = A[a] /\ B2[a] = B[a]
    BY <1>2
  <2>2. A[a].data = a
    BY HeapTypes
  <2>3. CellsOf(B2, a, A[a].size) = CellsOf(B, a, A[a].size)
    BY <2>1 DEF CellsOf
  <2>4. ObjectOf(A2, B2, a) = ObjectOf(A, B, a)
    BY <2>1, <2>2, <2>3 DEF ObjectOf
  <2> QED BY <2>4 DEF ObjectsOf
<1>3. /\ ObjectsOf(A2, B2) = [a \in D2 |-> ObjectOf(A2, B2, a)]
      /\ ObjectsOf(A, B) = [a \in D |-> ObjectOf(A, B, a)]
  BY DEF ObjectsOf
<1> HIDE DEF D, D2
<1> QED BY <1>1, <1>2, <1>3

\* The objects stay as they are when only an array changes that is not connected.
LEMMA ObjectsSame ==
  ASSUME NEW A, NEW B, HeapOK(A, B), NEW A2, NEW B2, HeapOK(A2, B2), Len(A) <= Len(A2),
         \A a \in 1 .. Len(A2) :
           IF a \in 1 .. Len(A)
           THEN A2[a] = A[a] /\ (B2[a] = B[a] \/ A[a].data = Null)
           ELSE A2[a].data = Null
  PROVE  ObjectsOf(A2, B2) = ObjectsOf(A, B)
<1> DEFINE D == {b \in 1 .. Len(A) : A[b].data # Null}
           D2 == {b \in 1 .. Len(A2) : A2[b].data # Null}
<1>1. Len(A) \in Nat /\ Len(A2) \in Nat
  BY DEF HeapOK
<1>2. D2 = D
  BY <1>1
<1>3. ASSUME NEW a \in D PROVE ObjectOf(A2, B2, a) = ObjectOf(A, B, a)
  <2>1. a \in 1 .. Len(A2) /\ A2[a] = A[a] /\ B2[a] = B[a]
    BY <1>1, <1>3
  <2>2. A[a].data = a
    BY HeapTypes
  <2>3. CellsOf(B2, a, A[a].size) = CellsOf(B, a, A[a].size)
    BY <2>1 DEF CellsOf
  <2> QED BY <2>1, <2>2, <2>3 DEF ObjectOf
<1> QED BY <1>2, <1>3 DEF ObjectsOf

\* There may be no memory.
LEMMA OutOfMemoryStep ==
  ASSUME IInv, Running, OutOfMemory
  PROVE  IInv' /\ Objects!Exhaust
<1>1. IInv' /\ Objects!Stop("out of memory")
  BY StopStep DEF OutOfMemory
<1> QED BY <1>1 DEF Objects!Exhaust, Objects!Running, Running

\* alloc gives a new array of zeros, unless its size is negative.
LEMMA AllocExpressionStep ==
  IInv /\ AllocExpression => IInv' /\ (Objects!Alloc \/ Objects!Exhaust)
<1> SUFFICES ASSUME IInv, AllocExpression
             PROVE  IInv' /\ (Objects!Alloc \/ Objects!Exhaust)
  OBVIOUS
<1> DEFINE n == Top.value
<1>1. Has(1) /\ Top.kind = "number"
  BY DEF AllocExpression
<1>2. /\ Top \in Operands /\ OperandOK(arrays, blocks, Top)
      /\ Objects!Top = OperandOf(arrays, blocks, Top) /\ Objects!Has(1)
      /\ 1 \in 0 .. Len(stack)
      /\ \A k \in Len(stack) - 1 + 1 .. Len(stack) : stack[k].kind # "populating"
  BY <1>1, TopOperand
<1>3. Objects!Top.kind = "number" /\ Objects!Top.value = n
  BY <1>1, <1>2, OperandFields
<1>4. n \in Integer
  BY <1>1, <1>2 DEF OperandOK
<1>5. CASE n < 0 /\ RuntimeError
  <2>1. IInv' /\ Objects!Stop("stopped")
    BY <1>5, StopStep DEF RuntimeError
  <2> QED BY <1>2, <1>3, <1>5, <2>1 DEF Objects!Alloc
<1>6. CASE OutOfMemory
  BY <1>1, <1>6, OutOfMemoryStep DEF Has
<1>7. ASSUME n >= 0, NEW t \in ElementType,
             Malloc(t, n, NewBlock, AllElements(n, t)), Replace(1, Arr(t, NewArray)),
             UNCHANGED <<variables, status>>
      PROVE  IInv' /\ Objects!Alloc
  <2> DEFINE r == Len(arrays) + 1
  <2>1. HeapOK(arrays, blocks) /\ StackOK(arrays, blocks, stack) /\ VariablesOK(arrays, variables)
    BY Invariant
  <2>2. /\ arrays \in Seq(Arrayz) /\ Len(arrays) \in Nat /\ Len(blocks) = Len(arrays)
        /\ r # Null /\ MaxArrays \in Nat
    BY <2>1, ArraysAssumption DEF HeapOK, Null
  <2>3. n \in 0 .. Limit - 1 /\ n \in Nat
    BY <1>4, <1>7, ArraysAssumption DEF Integer
  <2> HIDE DEF n
  <2>4. Len(arrays) < MaxArrays /\ IsNew(arrays, blocks, t, n, r, AllElements(n, t), arrays', blocks')
    BY <1>7, <2>2, <2>3 DEF Malloc, NewBlock, NewRecord, NewCells, Offset, IsNew
  <2> HIDE DEF r
  <2>5. /\ HeapOK(arrays', blocks')
        /\ Grows(arrays, arrays')
        /\ Len(arrays') = Len(arrays) + 1
        /\ \A a \in 1 .. Len(arrays) : arrays'[a] = arrays[a] /\ blocks'[a] = blocks[a]
        /\ arrays'[r] = NewRecord(t, n, r)
        /\ blocks'[r] = NewCells(t, n, AllElements(n, t))
    <3>1. Added(arrays, blocks, t, n, r, AllElements(n, t), arrays', blocks')
      BY <2>1, <2>4, NewKeeps
    <3> QED BY <3>1 DEF Added, r
  <2>6. r \in 1 .. Len(arrays') /\ r \notin 1 .. Len(arrays) /\ r \in 1 .. MaxArrays /\ r \in Int
    BY <2>2, <2>4, <2>5 DEF r
  <2>7. \A a \in 1 .. Len(arrays') : a # r => a \in 1 .. Len(arrays)
    BY <2>2, <2>5 DEF r
  <2>8. /\ arrays'[r].data = r /\ arrays'[r].of = t /\ arrays'[r].size = n /\ arrays'[r].live
        /\ \A i \in Offset : blocks'[r].cells[i] = 0
        /\ blocks'[r].set = AllElements(n, t) /\ AllElements(n, t) \subseteq Offset
    BY <2>3, <2>5, DataSizes DEF NewRecord, NewCells
  <2>9. arrays' \in Seq(Arrayz)
    BY <2>5 DEF HeapOK
  <2>10. StackOK(arrays', blocks', stack)
    BY <2>1, <2>2, <2>5, <2>7, <2>8, <2>9, StackKeeps
  <2>11. StackOf(arrays', blocks', stack) = K
    <3>1. StackTyped(arrays, blocks, stack)
      BY <2>1 DEF StackOK
    <3>2. \A k \in 1 .. Len(stack) :
            stack[k].kind = "populating" => blocks'[stack[k].data] = blocks[stack[k].data]
      BY <2>5, <3>1 DEF StackTyped, OperandOK
    <3> QED BY <2>5, <3>1, <3>2, FrameMapped DEF K
  <2>12. Pointer(arrays', t, r)
    BY <2>6, <2>8 DEF Pointer
  <2>13. /\ Arr(t, r) \in Operands /\ Arr(t, r).kind # "populating"
         /\ OperandOK(arrays', blocks', Arr(t, r))
         /\ OperandOf(arrays', blocks', Arr(t, r)) = Objects!Arr(t, r)
    BY <2>6, <2>12, Values
  <2>14. stack' = Append(SubSeq(stack, 1, Len(stack) - 1), Arr(t, r))
    BY <1>7 DEF Replace, Pop, NewArray, r
  <2>15. /\ StackOK(arrays', blocks', stack')
         /\ K' = Append(SubSeq(K, 1, Len(K) - 1), Objects!Arr(t, r))
    <3>1. /\ StackOK(arrays', blocks', stack')
          /\ StackOf(arrays', blocks', stack')
               = Append(SubSeq(StackOf(arrays', blocks', stack), 1,
                               Len(StackOf(arrays', blocks', stack)) - 1),
                        OperandOf(arrays', blocks', Arr(t, r)))
      BY <1>2, <2>5, <2>10, <2>13, <2>14, ReplaceKeeps
    <3> QED BY <2>11, <2>13, <3>1 DEF K
  <2>16. IInv'
    BY <1>7, <2>1, <2>2, <2>5, <2>9, <2>15, VariablesKeep DEF IInv
  <2>17. ObjectOf(arrays', blocks', r) = [of |-> t, live |-> TRUE, elements |-> [i \in 1 .. n |-> 0]]
    <3>1. CellsOf(blocks', r, n) = [i \in 1 .. n |-> 0]
      <4>1. \A i \in 1 .. n : i - 1 \in AllElements(n, t) => blocks'[r].cells[i - 1] = 0
        BY <2>8
      <4> QED BY <2>8, <4>1 DEF CellsOf, Null
    <3> QED BY <2>5, <2>8, <3>1 DEF ObjectOf, NewRecord
  <2>18. /\ r \notin DOMAIN O
         /\ O' = [q \in DOMAIN O \cup {r} |->
                    IF q = r THEN [of |-> t, live |-> TRUE, elements |-> [i \in 1 .. n |-> 0]] ELSE O[q]]
    <3>1. Len(arrays) <= Len(arrays')
      BY <2>5 DEF Grows
    <3>2. Extended(ObjectsOf(arrays, blocks), r, ObjectOf(arrays', blocks', r), ObjectsOf(arrays', blocks'))
      <4>1. arrays'[r].data # Null
        BY <2>2, <2>8
      <4>2. \A a \in 1 .. Len(arrays') :
              a # r => a \in 1 .. Len(arrays) /\ arrays'[a] = arrays[a] /\ blocks'[a] = blocks[a]
        BY <2>5, <2>7
      <4>3. HeapOK(arrays, blocks) /\ HeapOK(arrays', blocks')
        BY <2>1, <2>5
      <4> QED BY <2>6, <3>1, <4>1, <4>2, <4>3, ObjectsExtended
    <3> QED BY <2>17, <3>2 DEF O, Extended
  <2>19. Objects!Create(1, t, [i \in 1 .. n |-> 0])
    BY <2>6, <2>15, <2>18 DEF Objects!Create, Objects!Reference, Objects!Replace, Objects!Pop, K, O
  <2> QED BY <1>2, <1>3, <1>7, <2>16, <2>19
          DEF Objects!Alloc, Objects!ElementType, ElementType
<1>8. \/ n < 0 /\ RuntimeError
      \/ OutOfMemory
      \/ /\ n >= 0
         /\ \E t \in ElementType :
              Malloc(t, n, NewBlock, AllElements(n, t)) /\ Replace(1, Arr(t, NewArray))
         /\ UNCHANGED <<variables, status>>
  BY DEF AllocExpression
<1> HIDE DEF n
<1> QED BY <1>5, <1>6, <1>7, <1>8

\* The operand that populates a new array.
Populating(t, r, i) == Operand("populating", t, r, r, i)

\* The fields of that operand.
LEMMA PopulatingFields ==
  ASSUME NEW t \in ElementType, NEW r \in Nat, NEW i \in Nat
  PROVE  /\ Populating(t, r, i) \in Operands
         /\ Populating(t, r, i).kind = "populating" /\ Populating(t, r, i).of = t
         /\ Populating(t, r, i).value = r /\ Populating(t, r, i).data = r
         /\ Populating(t, r, i).index = i
  BY DEF Populating, Operand, Operands, Kind

\* A new array is on the stack as soon as it is there.
LEMMA PopulatingKeeps ==
  ASSUME NEW A \in Seq(Arrayz), NEW B, NEW S, StackOK(A, B, S),
         NEW A2 \in Seq(Arrayz), NEW B2, Grows(A, A2),
         NEW r, r = Len(A) + 1, Len(A2) = r,
         \A a \in 1 .. Len(A) : A2[a] = A[a] /\ B2[a] = B[a],
         A2[r].data = Null, A2[r].size \in Nat, B2[r].set = {},
         NEW x \in Operands, x.kind = "populating", x.of = A2[r].of, x.value = r, x.data = r,
         x.index = 0
  PROVE  /\ StackOK(A2, B2, Append(S, x))
         /\ StackTyped(A2, B2, S) /\ OperandOK(A2, B2, x)
<1> DEFINE T == Append(S, x)
<1>1. /\ S \in Seq(Operands) /\ Len(S) \in Nat /\ Len(A) \in Nat /\ r \in Nat
      /\ \A k \in 1 .. Len(S) : OperandOK(A, B, S[k])
      /\ PopulatedOnce(A, S)
  <2>1. /\ S \in Seq(Operands) /\ PopulatedOnce(A, S)
        /\ \A k \in 1 .. Len(S) : OperandOK(A, B, S[k])
    BY DEF StackOK, StackTyped
  <2>2. Len(S) \in Nat
    BY <2>1
  <2>3. Len(A) \in Nat
    OBVIOUS
  <2>4. r \in Nat
    BY <2>3
  <2> QED BY <2>1, <2>2, <2>3, <2>4
<1>2. /\ T \in Seq(Operands) /\ Len(T) = Len(S) + 1
      /\ \A k \in 1 .. Len(S) : T[k] = S[k]
      /\ T[Len(S) + 1] = x
  BY <1>1, Pushed
<1> HIDE DEF T
<1>3. \A k \in 1 .. Len(S) : S[k].kind = "populating" => S[k].data \in 1 .. Len(A)
  BY <1>1 DEF OperandOK
<1>4. ASSUME NEW k \in 1 .. Len(S) PROVE OperandOK(A2, B2, S[k])
  <2>1. OperandOK(A, B, S[k])
    BY <1>1
  <2>2. S[k].kind = "populating" =>
          A2[S[k].data].data = A[S[k].data].data /\ B2[S[k].data].set = B[S[k].data].set
    BY <1>3
  <2> QED BY <2>1, <2>2, OperandKeeps
<1>5. OperandOK(A2, B2, x)
  <2>1. 0 .. 0 - 1 = {} /\ r \in 1 .. Len(A2)
    BY <1>1
  <2> QED BY <2>1 DEF OperandOK
<1>6. \A k \in 1 .. Len(T) : k \in 1 .. Len(S) \/ k = Len(S) + 1
  BY <1>1, <1>2
<1>7. \A a \in 1 .. Len(A2) : A2[a].data = Null => \E k \in 1 .. Len(T) : Populates(T[k], a)
  <2> SUFFICES ASSUME NEW a \in 1 .. Len(A2), A2[a].data = Null
               PROVE  \E k \in 1 .. Len(T) : Populates(T[k], a)
    OBVIOUS
  <2>1. CASE a = r
    <3>1. Len(S) + 1 \in 1 .. Len(T) /\ Populates(T[Len(S) + 1], a)
      BY <1>1, <1>2, <2>1 DEF Populates
    <3> QED BY <3>1
  <2>2. CASE a # r
    <3>1. a \in 1 .. Len(A) /\ A[a].data = Null
      BY <1>1, <2>2
    <3>2. PICK k \in 1 .. Len(S) : Populates(S[k], a)
      BY <1>1, <3>1 DEF PopulatedOnce
    <3>3. k \in 1 .. Len(T) /\ Populates(T[k], a)
      BY <1>1, <1>2, <3>2
    <3> QED BY <3>3
  <2> QED BY <2>1, <2>2
<1>8. \A j, k \in 1 .. Len(T) :
        Populates(T[j], T[k].data) /\ Populates(T[k], T[j].data) => j = k
  <2> SUFFICES ASSUME NEW j \in 1 .. Len(T), NEW k \in 1 .. Len(T),
                      Populates(T[j], T[k].data), Populates(T[k], T[j].data)
               PROVE  j = k
    OBVIOUS
  <2>1. CASE j \in 1 .. Len(S) /\ k \in 1 .. Len(S)
    <3>1. Populates(S[j], S[k].data) /\ Populates(S[k], S[j].data)
      BY <1>2, <2>1
    <3> QED BY <1>1, <2>1, <3>1 DEF PopulatedOnce
  <2>2. CASE j \in 1 .. Len(S) /\ k = Len(S) + 1
    <3>1. S[j].kind = "populating" /\ S[j].data = r
      BY <1>2, <2>2 DEF Populates
    <3> QED BY <1>1, <1>3, <2>2, <3>1
  <2>3. CASE j = Len(S) + 1 /\ k \in 1 .. Len(S)
    <3>1. S[k].kind = "populating" /\ S[k].data = r
      BY <1>2, <2>3 DEF Populates
    <3> QED BY <1>1, <1>3, <2>3, <3>1
  <2> QED BY <1>6, <2>1, <2>2, <2>3
<1>9. PopulatedOnce(A2, T)
  BY <1>7, <1>8 DEF PopulatedOnce
<1>10. \A k \in 1 .. Len(T) : OperandOK(A2, B2, T[k])
  BY <1>2, <1>4, <1>5, <1>6
<1>11. StackOK(A2, B2, T) /\ StackTyped(A2, B2, S)
  BY <1>1, <1>2, <1>4, <1>9, <1>10 DEF StackOK, StackTyped
<1> QED BY <1>5, <1>11 DEF T

\* The objects do not know of it, and the operation waits for its first element.
LEMMA PopulatingMapped ==
  ASSUME NEW A, NEW B, HeapOK(A, B), NEW S, StackOK(A, B, S),
         NEW t \in ElementType, NEW n \in Nat,
         NEW A2, NEW B2, IsNew(A, B, t, n, Null, {}, A2, B2)
  PROVE  /\ HeapOK(A2, B2) /\ Grows(A, A2)
         /\ A \in Seq(Arrayz) /\ A2 \in Seq(Arrayz)
         /\ StackOK(A2, B2, Append(S, Populating(t, Len(A) + 1, 0)))
         /\ ObjectsOf(A2, B2) = ObjectsOf(A, B)
         /\ StackOf(A2, B2, Append(S, Populating(t, Len(A) + 1, 0)))
              = Append(StackOf(A, B, S), Objects!Operand("populating", t, n))
<1> DEFINE r == Len(A) + 1
           x == Populating(t, r, 0)
<1>1. A \in Seq(Arrayz) /\ Len(A) \in Nat /\ Limit \in Nat /\ StackTyped(A, B, S)
  BY ArraysAssumption DEF HeapOK, StackOK
<1>2. r \in Nat /\ \A a \in 1 .. r : a \in 1 .. Len(A) \/ a = r
  BY <1>1
<1>3. /\ HeapOK(A2, B2) /\ Grows(A, A2) /\ Len(A2) = Len(A) + 1
      /\ \A a \in 1 .. Len(A) : A2[a] = A[a] /\ B2[a] = B[a]
      /\ A2[Len(A) + 1] = NewRecord(t, n, Null)
      /\ B2[Len(A) + 1] = NewCells(t, n, {})
  BY NewKeeps DEF Added
<1>4. A2 \in Seq(Arrayz)
  BY <1>3 DEF HeapOK
<1>5. /\ x \in Operands /\ x.kind = "populating" /\ x.of = t /\ x.value = r /\ x.data = r
      /\ x.index = 0
  BY <1>2, PopulatingFields
<1>6. /\ A2[r].data = Null /\ A2[r].of = t /\ A2[r].size = n
      /\ B2[r].set = {}
  BY <1>3 DEF NewRecord, NewCells
<1>7. r = Len(A) + 1 /\ Len(A2) = r
  BY <1>3
<1> HIDE DEF x
<1> HIDE DEF r
<1>8. /\ StackOK(A2, B2, Append(S, x)) /\ StackTyped(A2, B2, S) /\ OperandOK(A2, B2, x)
  BY <1>1, <1>2, <1>3, <1>4, <1>5, <1>6, <1>7, PopulatingKeeps
<1>9. ObjectsOf(A2, B2) = ObjectsOf(A, B)
  <2>1. \A a \in 1 .. Len(A2) :
          IF a \in 1 .. Len(A)
          THEN A2[a] = A[a] /\ (B2[a] = B[a] \/ A[a].data = Null)
          ELSE A2[a].data = Null
    BY <1>2, <1>3, <1>6, <1>7
  <2>2. Len(A) <= Len(A2)
    BY <1>1, <1>3
  <2> QED BY <1>3, <2>1, <2>2, ObjectsSame
<1>10. StackOf(A2, B2, S) = StackOf(A, B, S)
  <2>1. \A k \in 1 .. Len(S) : S[k].kind = "populating" => B2[S[k].data] = B[S[k].data]
    BY <1>1, <1>3 DEF StackTyped, OperandOK
  <2> QED BY <1>1, <1>3, <2>1, FrameMapped
<1>11. OperandOf(A2, B2, x) = Objects!Operand("populating", t, n)
  <2>1. CellsOf(B2, r, 0) = <<>>
    BY DEF CellsOf
  <2> QED BY <1>5, <1>6, <2>1 DEF OperandOf, Abstract, Objects!Operand
<1>12. StackOf(A2, B2, Append(S, x)) = Append(StackOf(A2, B2, S), OperandOf(A2, B2, x))
  BY <1>3, <1>5, <1>8, PushMapped
<1> QED BY <1>1, <1>3, <1>4, <1>8, <1>9, <1>10, <1>11, <1>12 DEF x, r

\* An array expression starts without elements.
LEMMA BeginPopulatedArrayStep ==
  IInv /\ BeginPopulatedArray => IInv' /\ (Objects!BeginArray \/ Objects!Exhaust)
<1> SUFFICES ASSUME IInv, BeginPopulatedArray
             PROVE  IInv' /\ (Objects!BeginArray \/ Objects!Exhaust)
  OBVIOUS
<1>1. Running
  BY DEF BeginPopulatedArray
<1>2. CASE OutOfMemory
  BY <1>1, <1>2, OutOfMemoryStep
<1>3. ASSUME NEW t \in ElementType, NEW n \in Length,
             Malloc(t, n, Null, {}), Push(Operand("populating", t, NewArray, NewBlock, 0)),
             UNCHANGED <<variables, status>>
      PROVE  IInv' /\ Objects!BeginArray
  <2> DEFINE x == Populating(t, Len(arrays) + 1, 0)
  <2>1. HeapOK(arrays, blocks) /\ StackOK(arrays, blocks, stack) /\ VariablesOK(arrays, variables)
    BY Invariant
  <2>2. Len(blocks) = Len(arrays) /\ Len(K) = Len(stack)
    BY <2>1, Invariant DEF HeapOK
  <2>3. n \in 0 .. Limit - 1 /\ n \in Nat /\ ~Large(n, t)
    BY ArraysAssumption DEF Large
  <2>4. IsNew(arrays, blocks, t, n, Null, {}, arrays', blocks')
    BY <1>3, <2>2, <2>3 DEF Malloc, NewRecord, NewCells, Offset, IsNew
  <2>5. stack' = Append(stack, x) /\ Len(stack) < MaxStack
    BY <1>3, <2>2 DEF Push, NewArray, NewBlock, Populating
  <2> HIDE DEF x
  <2>6. /\ HeapOK(arrays', blocks') /\ Grows(arrays, arrays')
        /\ arrays \in Seq(Arrayz) /\ arrays' \in Seq(Arrayz)
        /\ StackOK(arrays', blocks', Append(stack, x))
        /\ ObjectsOf(arrays', blocks') = ObjectsOf(arrays, blocks)
        /\ StackOf(arrays', blocks', Append(stack, x))
             = Append(StackOf(arrays, blocks, stack), Objects!Operand("populating", t, n))
    BY <2>1, <2>3, <2>4, PopulatingMapped DEF x
  <2>7. /\ StackOK(arrays', blocks', stack') /\ O' = O
        /\ K' = Append(K, Objects!Operand("populating", t, n))
    BY <2>5, <2>6 DEF K, O
  <2>8. VariablesOK(arrays', variables')
    BY <1>3, <2>1, <2>6, VariablesKeep
  <2>9. IInv'
    BY <1>3, <2>6, <2>7, <2>8 DEF IInv
  <2>10. Objects!Push(Objects!Operand("populating", t, n))
    BY <2>2, <2>5, <2>7 DEF Objects!Push, K
  <2>11. Objects!BeginArray
    BY <1>1, <1>3, <2>7, <2>10
       DEF Objects!BeginArray, Objects!Running, Running, Objects!ElementType, ElementType, O
  <2> QED BY <2>9, <2>11
<1>4. \/ OutOfMemory
      \/ /\ \E t \in ElementType, n \in Length :
              Malloc(t, n, Null, {}) /\ Push(Operand("populating", t, NewArray, NewBlock, 0))
         /\ UNCHANGED <<variables, status>>
  BY DEF BeginPopulatedArray
<1> QED BY <1>2, <1>3, <1>4

\* The arrays that wait for their elements are populated by R, and d is not by R.
Besides(A, R, d) ==
  /\ \A k \in 1 .. Len(R) : ~Populates(R[k], d)
  /\ \A a \in 1 .. Len(A) :
       A[a].data = Null /\ a # d => \E k \in 1 .. Len(R) : Populates(R[k], a)
  /\ \A j, k \in 1 .. Len(R) :
       Populates(R[j], R[k].data) /\ Populates(R[k], R[j].data) => j = k

\* The first of the n topmost operands populates d, and none above it does any array.
Populator(S, n, d) ==
  /\ n \in 1 .. Len(S)
  /\ Populates(S[Len(S) - n + 1], d)
  /\ \A k \in Len(S) - n + 2 .. Len(S) : S[k].kind # "populating"

\* Only the array d changes.
OthersKeep(A, B, A2, B2, d) ==
  /\ Grows(A, A2)
  /\ \A a \in 1 .. Len(A) : a # d => A2[a] = A[a] /\ B2[a] = B[a]

RestOf(S, n) == SubSeq(S, 1, Len(S) - n)

\* The stack below the operand that populates an array.
LEMMA Rest ==
  ASSUME NEW A, NEW B, HeapOK(A, B), NEW S, StackOK(A, B, S), NEW n, NEW d, Populator(S, n, d)
  PROVE  /\ StackTyped(A, B, RestOf(S, n))
         /\ StackOf(A, B, RestOf(S, n)) = RestOf(StackOf(A, B, S), n)
         /\ Besides(A, RestOf(S, n), d)
<1> DEFINE p == Len(S) - n + 1
           R == RestOf(S, n)
<1>0. /\ n \in 1 .. Len(S) /\ Populates(S[p], d)
      /\ \A k \in Len(S) - n + 2 .. Len(S) : S[k].kind # "populating"
      /\ R = SubSeq(S, 1, Len(S) - n)
      /\ RestOf(StackOf(A, B, S), n) = SubSeq(StackOf(A, B, S), 1, Len(StackOf(A, B, S)) - n)
  BY DEF Populator, RestOf
<1> HIDE DEF R
<1>1. /\ S \in Seq(Operands) /\ Len(S) \in Nat /\ StackTyped(A, B, S)
      /\ \A k \in 1 .. Len(S) : OperandOK(A, B, S[k])
      /\ PopulatedOnce(A, S)
  BY DEF StackOK, StackTyped
<1>2. n \in 0 .. Len(S) /\ p \in 1 .. Len(S)
  BY <1>0, <1>1
<1>3. /\ R \in Seq(Operands) /\ Len(R) = Len(S) - n
      /\ \A k \in 1 .. Len(S) - n : R[k] = S[k]
  BY <1>0, <1>1, <1>2, Popped
<1>4. \A k \in 1 .. Len(R) : k \in 1 .. Len(S) /\ k # p /\ R[k] = S[k]
  BY <1>0, <1>1, <1>3
<1>5. StackTyped(A, B, R)
  BY <1>1, <1>3, <1>4 DEF StackTyped
<1>6. StackOf(A, B, R) = RestOf(StackOf(A, B, S), n)
  BY <1>0, <1>1, <1>2, PopMapped
<1>7. \A k \in 1 .. Len(S) : k \in 1 .. Len(R) \/ k = p \/ S[k].kind # "populating"
  BY <1>0, <1>1, <1>3
<1>8. Populates(S[p], d)
  BY <1>0
<1> HIDE DEF p
<1>9. ASSUME NEW k \in 1 .. Len(R) PROVE ~Populates(R[k], d)
  <2>1. SUFFICES ASSUME Populates(S[k], d) PROVE FALSE
    BY <1>4
  <2>2. Populates(S[k], S[p].data) /\ Populates(S[p], S[k].data)
    BY <1>8, <2>1 DEF Populates
  <2> QED BY <1>1, <1>2, <1>4, <2>2 DEF PopulatedOnce
<1>10. ASSUME NEW a \in 1 .. Len(A), A[a].data = Null, a # d
       PROVE  \E k \in 1 .. Len(R) : Populates(R[k], a)
  <2>1. PICK k \in 1 .. Len(S) : Populates(S[k], a)
    BY <1>1, <1>10 DEF PopulatedOnce
  <2>2. k # p /\ S[k].kind = "populating"
    BY <1>8, <1>10, <2>1 DEF Populates
  <2>3. k \in 1 .. Len(R)
    BY <1>7, <2>2
  <2> QED BY <1>4, <2>1, <2>3
<1>11. ASSUME NEW j \in 1 .. Len(R), NEW k \in 1 .. Len(R),
              Populates(R[j], R[k].data), Populates(R[k], R[j].data)
       PROVE  j = k
  BY <1>1, <1>4, <1>11 DEF PopulatedOnce
<1>12. Besides(A, R, d)
  BY <1>9, <1>10, <1>11 DEF Besides
<1> QED BY <1>5, <1>6, <1>12 DEF R

\* It stays what it is when the array of that operand changes.
LEMMA RestKeeps ==
  ASSUME NEW A \in Seq(Arrayz), NEW A2 \in Seq(Arrayz), NEW B, NEW B2,
         NEW R, StackTyped(A, B, R), NEW d, Besides(A, R, d), OthersKeep(A, B, A2, B2, d)
  PROVE  StackTyped(A2, B2, R) /\ StackOf(A2, B2, R) = StackOf(A, B, R)
<1>0. Grows(A, A2) /\ \A a \in 1 .. Len(A) : a # d => A2[a] = A[a] /\ B2[a] = B[a]
  BY DEF OthersKeep
<1>1. R \in Seq(Operands) /\ \A k \in 1 .. Len(R) : OperandOK(A, B, R[k])
  BY DEF StackTyped
<1>2. \A k \in 1 .. Len(R) :
        R[k].kind = "populating" => R[k].data # d /\ R[k].data \in 1 .. Len(A)
  BY <1>1 DEF Besides, Populates, OperandOK
<1>3. ASSUME NEW k \in 1 .. Len(R) PROVE OperandOK(A2, B2, R[k])
  <2>1. OperandOK(A, B, R[k])
    BY <1>1
  <2>2. R[k].kind = "populating" =>
          A2[R[k].data].data = A[R[k].data].data /\ B2[R[k].data].set = B[R[k].data].set
    BY <1>0, <1>2
  <2> QED BY <1>0, <2>1, <2>2, OperandKeeps
<1>4. \A k \in 1 .. Len(R) : R[k].kind = "populating" => B2[R[k].data] = B[R[k].data]
  BY <1>0, <1>2
<1>5. StackTyped(A2, B2, R)
  BY <1>1, <1>3 DEF StackTyped
<1> QED BY <1>0, <1>4, <1>5, FrameMapped

\* The operation goes on with its next element.
LEMMA RestGoesOn ==
  ASSUME NEW A, NEW B, NEW R, StackTyped(A, B, R), NEW d, Besides(A, R, d),
         NEW y \in Operands, OperandOK(A, B, y), Populates(y, d)
  PROVE  StackOK(A, B, Append(R, y))
<1> DEFINE T == Append(R, y)
<1>1. R \in Seq(Operands) /\ Len(R) \in Nat /\ \A k \in 1 .. Len(R) : OperandOK(A, B, R[k])
  BY DEF StackTyped
<1>2. /\ T \in Seq(Operands) /\ Len(T) = Len(R) + 1
      /\ \A k \in 1 .. Len(R) : T[k] = R[k]
      /\ T[Len(R) + 1] = y
  BY <1>1, Pushed
<1> HIDE DEF T
<1>3. /\ Len(R) + 1 \in 1 .. Len(T)
      /\ \A k \in 1 .. Len(R) : k \in 1 .. Len(T)
      /\ \A k \in 1 .. Len(T) : k \in 1 .. Len(R) \/ k = Len(R) + 1
  BY <1>1, <1>2
<1>4. \A k \in 1 .. Len(T) : OperandOK(A, B, T[k])
  BY <1>1, <1>2, <1>3
<1>5. \A a \in 1 .. Len(A) : A[a].data = Null => \E k \in 1 .. Len(T) : Populates(T[k], a)
  <2> SUFFICES ASSUME NEW a \in 1 .. Len(A), A[a].data = Null
               PROVE  \E k \in 1 .. Len(T) : Populates(T[k], a)
    OBVIOUS
  <2>1. CASE a = d
    BY <1>2, <1>3, <2>1
  <2>2. CASE a # d
    <3>1. PICK k \in 1 .. Len(R) : Populates(R[k], a)
      BY <2>2 DEF Besides
    <3> QED BY <1>2, <1>3, <3>1
  <2> QED BY <2>1, <2>2
<1>6. \A j, k \in 1 .. Len(T) :
        Populates(T[j], T[k].data) /\ Populates(T[k], T[j].data) => j = k
  <2> SUFFICES ASSUME NEW j \in 1 .. Len(T), NEW k \in 1 .. Len(T),
                      Populates(T[j], T[k].data), Populates(T[k], T[j].data)
               PROVE  j = k
    OBVIOUS
  <2>1. CASE j \in 1 .. Len(R) /\ k \in 1 .. Len(R)
    <3>1. Populates(R[j], R[k].data) /\ Populates(R[k], R[j].data)
      BY <1>2, <2>1
    <3> QED BY <2>1, <3>1 DEF Besides
  <2>2. CASE j \in 1 .. Len(R) /\ k = Len(R) + 1
    <3>1. Populates(R[j], d)
      BY <1>2, <2>2 DEF Populates
    <3> QED BY <2>2, <3>1 DEF Besides
  <2>3. CASE j = Len(R) + 1 /\ k \in 1 .. Len(R)
    <3>1. Populates(R[k], d)
      BY <1>2, <2>3 DEF Populates
    <3> QED BY <2>3, <3>1 DEF Besides
  <2> QED BY <1>3, <2>1, <2>2, <2>3
<1>7. StackOK(A, B, T)
  BY <1>2, <1>4, <1>5, <1>6 DEF StackOK, StackTyped, PopulatedOnce
<1> QED BY <1>7 DEF T

\* The array of the operand is complete.
LEMMA RestEnds ==
  ASSUME NEW A, NEW A2, NEW B, NEW R, StackTyped(A2, B, R),
         NEW d, Besides(A, R, d), Len(A2) = Len(A), A2[d].data # Null,
         \A a \in 1 .. Len(A) : a # d => A2[a] = A[a]
  PROVE  StackOK(A2, B, R)
<1>1. \A a \in 1 .. Len(A2) : A2[a].data = Null => \E k \in 1 .. Len(R) : Populates(R[k], a)
  BY DEF Besides
<1>2. \A j, k \in 1 .. Len(R) :
        Populates(R[j], R[k].data) /\ Populates(R[k], R[j].data) => j = k
  BY DEF Besides
<1> QED BY <1>1, <1>2 DEF StackOK, PopulatedOnce

\* The elements of an array that gets one more.
LEMMA CellsGrow ==
  ASSUME NEW A, NEW B, NEW B2, HeapOK(A, B), HeapOK(A, B2), NEW d \in 1 .. Len(A),
         NEW i, NEW v, B[d].set = 0 .. i - 1, Stored(B, d, i, v, B2)
  PROVE  CellsOf(B2, d, i + 1) = Append(CellsOf(B, d, i), v)
<1>0. /\ i \in Offset /\ v \in Int
      /\ B2[d].set = B[d].set \cup {i} /\ B2[d].cells = [B[d].cells EXCEPT ![i] = v]
  BY DEF Stored
<1> DEFINE s == CellsOf(B, d, i)
           r == CellsOf(B2, d, i + 1)
<1>1. i \in Nat /\ i + 1 \in Nat /\ 2 * Limit \in Nat
  BY <1>0, ArraysAssumption DEF Offset
<1>2. s \in Seq(Int) /\ Len(s) = i /\ r \in Seq(Int) /\ Len(r) = i + 1
  <2>1. s \in Seq(Int) /\ Len(s) = i
    BY <1>1, CellsMapped
  <2>2. r \in Seq(Int) /\ Len(r) = i + 1
    BY <1>1, CellsMapped
  <2> QED BY <2>1, <2>2
<1>3. B[d].cells \in [Offset -> Int]
  BY HeapTypes
<1>4. \A j \in 1 .. i : s[j] = IF j - 1 \in B[d].set THEN B[d].cells[j - 1] ELSE Null
  BY <1>1, CellAt
<1>5. \A j \in 1 .. i + 1 : r[j] = IF j - 1 \in B2[d].set THEN B2[d].cells[j - 1] ELSE Null
  BY <1>1, CellAt
<1> HIDE DEF s, r
<1>6. /\ Append(s, v) \in Seq(Int) /\ Len(Append(s, v)) = i + 1
      /\ \A j \in 1 .. i : Append(s, v)[j] = s[j]
      /\ Append(s, v)[i + 1] = v
  BY <1>0, <1>2, Pushed
<1>7. ASSUME NEW j \in 1 .. i PROVE r[j] = s[j]
  <2>1. j \in 1 .. i + 1 /\ j - 1 \in 0 .. i - 1 /\ j - 1 # i /\ j - 1 \in Offset
    BY <1>0, <1>1 DEF Offset
  <2>2. r[j] = B2[d].cells[j - 1] /\ s[j] = B[d].cells[j - 1]
    BY <1>0, <1>4, <1>5, <2>1
  <2> QED BY <1>0, <1>3, <2>1, <2>2
<1>8. r[i + 1] = v
  <2>1. i + 1 \in 1 .. i + 1 /\ (i + 1) - 1 = i
    BY <1>1
  <2>2. r[i + 1] = B2[d].cells[i]
    BY <1>0, <1>5, <2>1
  <2> QED BY <1>0, <1>3, <2>2
<1>9. \A j \in 1 .. Len(r) : r[j] = Append(s, v)[j]
  <2> TAKE j \in 1 .. Len(r)
  <2>1. j \in 1 .. i \/ j = i + 1
    BY <1>1, <1>2
  <2> QED BY <1>6, <1>7, <1>8, <2>1
<1>10. r = Append(s, v)
  BY <1>2, <1>6, <1>9, SameSequence
<1> QED BY <1>10 DEF r, s

\* The elements of an array in which one is set.
LEMMA CellsChange ==
  ASSUME NEW A, NEW B, NEW B2, HeapOK(A, B), HeapOK(A, B2), NEW d \in 1 .. Len(A),
         NEW i, NEW v, NEW n \in Nat, i < n, Stored(B, d, i, v, B2)
  PROVE  CellsOf(B2, d, n) = [CellsOf(B, d, n) EXCEPT ![i + 1] = v]
<1>0. /\ i \in Offset /\ v \in Int
      /\ B2[d].set = B[d].set \cup {i} /\ B2[d].cells = [B[d].cells EXCEPT ![i] = v]
  BY DEF Stored
<1> DEFINE s == CellsOf(B, d, n)
           r == CellsOf(B2, d, n)
<1>1. i \in Nat /\ i + 1 \in 1 .. n /\ (i + 1) - 1 = i
  BY <1>0, ArraysAssumption DEF Offset
<1>2. s \in Seq(Int) /\ Len(s) = n /\ r \in Seq(Int) /\ Len(r) = n
  <2>1. s \in Seq(Int) /\ Len(s) = n
    BY CellsMapped
  <2>2. r \in Seq(Int) /\ Len(r) = n
    BY CellsMapped
  <2> QED BY <2>1, <2>2
<1>3. B[d].cells \in [Offset -> Int] /\ B[d].set \subseteq Offset
  BY HeapTypes
<1>4. \A j \in 1 .. n : s[j] = IF j - 1 \in B[d].set THEN B[d].cells[j - 1] ELSE Null
  BY CellAt
<1>5. \A j \in 1 .. n : r[j] = IF j - 1 \in B2[d].set THEN B2[d].cells[j - 1] ELSE Null
  BY CellAt
<1> HIDE DEF s, r
<1> DEFINE w == [s EXCEPT ![i + 1] = v]
<1>6. /\ w \in Seq(Int) /\ Len(w) = n /\ w[i + 1] = v
      /\ \A j \in 1 .. n : j # i + 1 => w[j] = s[j]
  BY <1>0, <1>1, <1>2, Replaced
<1> HIDE DEF w
<1>7. ASSUME NEW j \in 1 .. n, j # i + 1 PROVE r[j] = s[j]
  <2>1. j - 1 # i
    BY <1>1, <1>7
  <2>2. j - 1 \in B2[d].set <=> j - 1 \in B[d].set
    BY <1>0, <2>1
  <2>3. j - 1 \in B[d].set => B2[d].cells[j - 1] = B[d].cells[j - 1]
    BY <1>0, <1>3, <2>1
  <2> QED BY <1>4, <1>5, <2>2, <2>3
<1>8. r[i + 1] = v
  <2>1. r[i + 1] = B2[d].cells[i]
    BY <1>0, <1>1, <1>5
  <2> QED BY <1>0, <1>3, <2>1
<1>9. \A j \in 1 .. Len(r) : r[j] = w[j]
  BY <1>2, <1>6, <1>7, <1>8
<1>10. r = w
  BY <1>2, <1>6, <1>9, SameSequence
<1> QED BY <1>10 DEF r, s, w

\* The operation that populates an array sets the next element of it.
LEMMA ElementKeeps ==
  ASSUME NEW A, NEW B, HeapOK(A, B), NEW S, StackOK(A, B, S), NEW n, NEW d, Populator(S, n, d),
         NEW i, NEW v, NEW B2, Written(A, B, d, i, v, B2),
         S[Len(S) - n + 1] = Populating(A[d].of, d, i)
  PROVE  /\ HeapOK(A, B2)
         /\ ObjectsOf(A, B2) = ObjectsOf(A, B)
         /\ StackOK(A, B2, Append(RestOf(S, n), Populating(A[d].of, d, i + 1)))
         /\ StackOf(A, B2, Append(RestOf(S, n), Populating(A[d].of, d, i + 1)))
              = Append(RestOf(StackOf(A, B, S), n),
                       Abstract("populating", A[d].of, A[d].size, 0, Append(CellsOf(B, d, i), v)))
<1> DEFINE R == RestOf(S, n)
           t == A[d].of
           x == Populating(t, d, i)
           y == Populating(t, d, i + 1)
<1>1. d \in 1 .. Len(A) /\ i \in Nat /\ i < A[d].size /\ Fits(A, t, v)
  BY DEF Written
<1>2. /\ A \in Seq(Arrayz) /\ Len(A) \in Nat /\ Len(S) \in Nat /\ d \in Nat /\ i + 1 \in Nat
      /\ t \in ElementType /\ A[d].size \in Nat
  BY <1>1, HeapTypes DEF HeapOK, StackOK, StackTyped
<1>3. Len(S) - n + 1 \in 1 .. Len(S)
  BY <1>2 DEF Populator
<1>4. OperandOK(A, B, x)
  BY <1>3 DEF StackOK, StackTyped
<1>5. x.kind = "populating" /\ x.data = d /\ x.index = i
  BY <1>1, <1>2, PopulatingFields
<1>6. /\ y \in Operands /\ y.kind = "populating" /\ y.of = t /\ y.value = d /\ y.data = d
      /\ y.index = i + 1
  BY <1>2, PopulatingFields
<1> HIDE DEF x, y
<1>7. A[d].data = Null /\ B[d].set = 0 .. i - 1
  BY <1>4, <1>5 DEF OperandOK
<1>8. StackTyped(A, B, R) /\ Besides(A, R, d) /\ StackOf(A, B, R) = RestOf(StackOf(A, B, S), n)
  BY Rest
<1> HIDE DEF R
<1>9. /\ HeapOK(A, B2)
      /\ \A a \in 1 .. Len(A) : a # d => B2[a] = B[a]
      /\ Stored(B, d, i, v, B2)
  BY WriteKeeps
<1>10. OthersKeep(A, B, A, B2, d)
  BY <1>2, <1>9 DEF Grows, OthersKeep
<1>11. StackTyped(A, B2, R) /\ StackOf(A, B2, R) = StackOf(A, B, R)
  BY <1>2, <1>8, <1>10, RestKeeps
<1>12. OperandOK(A, B2, y)
  <2>1. B2[d].set = 0 .. (i + 1) - 1 /\ i + 1 <= A[d].size
    BY <1>1, <1>2, <1>7, <1>9 DEF Stored
  <2> QED BY <1>1, <1>6, <1>7, <2>1 DEF OperandOK
<1>13. StackOK(A, B2, Append(R, y))
  <2>1. Populates(y, d)
    BY <1>6 DEF Populates
  <2> QED BY <1>6, <1>8, <1>11, <1>12, <2>1, RestGoesOn
<1>14. ObjectsOf(A, B2) = ObjectsOf(A, B)
  <2>1. \A a \in 1 .. Len(A) :
          IF a \in 1 .. Len(A)
          THEN A[a] = A[a] /\ (B2[a] = B[a] \/ A[a].data = Null)
          ELSE A[a].data = Null
    BY <1>7, <1>9
  <2>2. Len(A) <= Len(A)
    BY <1>2
  <2> QED BY <1>9, <2>1, <2>2, ObjectsSame
<1>15. OperandOf(A, B2, y) = Abstract("populating", t, A[d].size, 0, Append(CellsOf(B, d, i), v))
  <2>1. CellsOf(B2, d, i + 1) = Append(CellsOf(B, d, i), v)
    BY <1>1, <1>7, <1>9, CellsGrow
  <2> QED BY <1>6, <2>1 DEF OperandOf
<1>16. StackOf(A, B2, Append(R, y)) = Append(StackOf(A, B2, R), OperandOf(A, B2, y))
  BY <1>6, <1>9, <1>11, <1>12, PushMapped
<1> QED BY <1>8, <1>9, <1>11, <1>13, <1>14, <1>15, <1>16 DEF R, y

\* An operand that is an element fits, and is the same element in both.
LEMMA ElementOperands ==
  ASSUME NEW A, NEW B, NEW x \in Operands, OperandOK(A, B, x), NEW t \in ElementType,
         IsElement(x, t)
  PROVE  /\ Fits(A, t, x.value)
         /\ Objects!IsElement(OperandOf(A, B, x), t)
         /\ OperandOf(A, B, x).value = x.value
         /\ x.kind \in {"number", "array"}
<1>1. x.value \in Int
  BY DEF Operands
<1>2. x.kind \in {"number", "array"}
  BY DEF IsElement
<1>3. Fits(A, t, x.value)
  BY <1>1 DEF IsElement, OperandOK, Fits
<1>4. /\ OperandOf(A, B, x).kind = x.kind /\ OperandOf(A, B, x).of = x.of
      /\ OperandOf(A, B, x).value = x.value
  BY <1>2, OperandFields
<1>5. Objects!IsElement(OperandOf(A, B, x), t)
  BY <1>4 DEF IsElement, Objects!IsElement
<1> QED BY <1>2, <1>3, <1>4, <1>5

\* An operand that populates, by its fields.
LEMMA PopulatingOperands ==
  ASSUME NEW x \in Operands, x.kind = "populating", x.value = x.data
  PROVE  /\ x = Populating(x.of, x.data, x.index)
         /\ [x EXCEPT !.index = @ + 1] = Populating(x.of, x.data, x.index + 1)
<1>1. x = [kind |-> x.kind, of |-> x.of, value |-> x.value, data |-> x.data, index |-> x.index]
  BY DEF Operands
<1>2. [x EXCEPT !.index = @ + 1]
        = [kind |-> x.kind, of |-> x.of, value |-> x.value, data |-> x.data, index |-> x.index + 1]
  BY DEF Operands
<1> QED BY <1>1, <1>2 DEF Populating, Operand

\* The next element is added, and lies in the block: nothing can free it so early.
LEMMA PopulateElementStep == IInv /\ PopulateElement => IInv' /\ Objects!AddElement
<1> SUFFICES ASSUME IInv, PopulateElement PROVE IInv' /\ Objects!AddElement
  OBVIOUS
<1> DEFINE d == Below.data
           i == Below.index
           v == Top.value
           t == Below.of
<1>1. /\ Has(2) /\ Below.kind = "populating" /\ i < arrays[Below.value].size
      /\ IsElement(Top, t)
  BY DEF PopulateElement
<1>2. /\ Has(1) /\ Len(stack) - 1 \in 1 .. Len(stack) /\ Len(stack) \in Nat
      /\ Below \in Operands /\ OperandOK(arrays, blocks, Below)
      /\ Objects!Below = OperandOf(arrays, blocks, Below) /\ Objects!Has(2)
  BY <1>1, TwoOperands, Invariant
<1>3. /\ Top \in Operands /\ OperandOK(arrays, blocks, Top)
      /\ Objects!Top = OperandOf(arrays, blocks, Top)
  BY <1>2, TopOperand
<1>4. HeapOK(arrays, blocks) /\ StackOK(arrays, blocks, stack) /\ VariablesOK(arrays, variables)
  BY Invariant
<1>5. /\ t \in ElementType /\ i \in Nat
      /\ Below.value = d /\ d \in 1 .. Len(arrays) /\ arrays[d].data = Null /\ arrays[d].of = t
      /\ i < arrays[d].size
  BY <1>1, <1>2 DEF OperandOK, Operands
<1>6. /\ Fits(arrays, t, v) /\ Objects!IsElement(Objects!Top, t) /\ Objects!Top.value = v
      /\ Top.kind \in {"number", "array"}
  BY <1>1, <1>3, <1>5, ElementOperands
<1>7. /\ arrays[d].size \in Nat /\ Len(blocks) = Len(arrays)
      /\ blocks[d].live /\ ~Large(arrays[d].size, t)
      /\ blocks[d].bytes = DataSize(arrays[d].size, t)
  BY <1>4, <1>5, HeapTypes DEF ArrayOK
<1>8. (i + 1) * ElementSize[t] <= blocks[d].bytes
  BY <1>5, <1>7, Elements
<1>9. Inside(d, i, t)
  BY <1>5, <1>7, <1>8 DEF Inside, IsBlock
<1>10. /\ Write(d, i, v) /\ Replace(2, [Below EXCEPT !.index = @ + 1])
       /\ UNCHANGED <<arrays, variables, status>>
  BY <1>9 DEF PopulateElement
<1>11. /\ Below = Populating(t, d, i)
       /\ [Below EXCEPT !.index = @ + 1] = Populating(t, d, i + 1)
  BY <1>1, <1>2, <1>5, PopulatingOperands
<1> HIDE DEF d, i, v, t
<1>12. Written(arrays, blocks, d, i, v, blocks')
  BY <1>5, <1>6, <1>8, <1>10 DEF Written, Write
<1>13. Populator(stack, 2, d)
  <2>1. 2 \in 1 .. Len(stack) /\ Len(stack) - 2 + 1 = Len(stack) - 1
        /\ Len(stack) - 2 + 2 = Len(stack)
    BY <1>1, <1>2 DEF Has
  <2>2. Populates(stack[Len(stack) - 2 + 1], d)
    BY <1>1, <2>1 DEF Populates, Below, d
  <2>3. \A k \in Len(stack) - 2 + 2 .. Len(stack) : k = Len(stack)
    <3>1. \A n \in Nat : \A k \in n - 2 + 2 .. n : k = n
      OBVIOUS
    <3> QED BY <1>2, <3>1
  <2>4. \A k \in Len(stack) - 2 + 2 .. Len(stack) : stack[k].kind # "populating"
    BY <1>6, <2>3 DEF Top
  <2> QED BY <2>1, <2>2, <2>4 DEF Populator
<1>14. stack[Len(stack) - 2 + 1] = Populating(arrays[d].of, d, i)
  <2>1. Len(stack) - 2 + 1 = Len(stack) - 1
    BY <1>2
  <2> QED BY <1>5, <1>11, <2>1 DEF Below
<1>15. /\ HeapOK(arrays, blocks')
       /\ ObjectsOf(arrays, blocks') = ObjectsOf(arrays, blocks)
       /\ StackOK(arrays, blocks', Append(RestOf(stack, 2), Populating(arrays[d].of, d, i + 1)))
       /\ StackOf(arrays, blocks', Append(RestOf(stack, 2), Populating(arrays[d].of, d, i + 1)))
            = Append(RestOf(StackOf(arrays, blocks, stack), 2),
                     Abstract("populating", arrays[d].of, arrays[d].size, 0,
                              Append(CellsOf(blocks, d, i), v)))
  BY <1>4, <1>12, <1>13, <1>14, ElementKeeps
<1>16. stack' = Append(RestOf(stack, 2), Populating(t, d, i + 1)) /\ arrays' = arrays
  BY <1>10, <1>11 DEF Replace, Pop, RestOf
<1>17. /\ HeapOK(arrays', blocks') /\ StackOK(arrays', blocks', stack') /\ O' = O
       /\ K' = Append(RestOf(K, 2), Abstract("populating", t, arrays[d].size, 0,
                                             Append(CellsOf(blocks, d, i), v)))
  BY <1>5, <1>15, <1>16 DEF K, O
<1>18. IInv'
  BY <1>4, <1>10, <1>17 DEF IInv
<1>19. Objects!Below = Abstract("populating", t, arrays[d].size, 0, CellsOf(blocks, d, i))
  BY <1>1, <1>2, <1>5 DEF OperandOf, d, i, t
<1>20. /\ Objects!Below.kind = "populating" /\ Objects!Below.of = t
       /\ Objects!Below.value = arrays[d].size /\ Objects!Below.elements = CellsOf(blocks, d, i)
       /\ [Objects!Below EXCEPT !.elements = Append(@, v)]
            = Abstract("populating", t, arrays[d].size, 0, Append(CellsOf(blocks, d, i), v))
  BY <1>19 DEF Abstract
<1>21. Len(CellsOf(blocks, d, i)) = i
  BY <1>4, <1>5, CellsMapped
<1>22. Objects!Replace(2, [Objects!Below EXCEPT !.elements = Append(@, Objects!Top.value)])
  BY <1>6, <1>17, <1>20 DEF Objects!Replace, Objects!Pop, RestOf, K
<1>23. Objects!AddElement
  BY <1>2, <1>5, <1>6, <1>10, <1>17, <1>20, <1>21, <1>22 DEF Objects!AddElement, O
<1> QED BY <1>18, <1>23

\* An array that is populated becomes an object.
LEMMA ConnectedKeeps ==
  ASSUME NEW A, NEW B, HeapOK(A, B), NEW S, StackOK(A, B, S), NEW d, Populator(S, 1, d),
         S[Len(S) - 1 + 1] = Populating(A[d].of, d, A[d].size), d \in 1 .. Len(A),
         NEW A2, Connects(A, d, A2)
  PROVE  /\ HeapOK(A2, B) /\ Grows(A, A2) /\ A \in Seq(Arrayz) /\ A2 \in Seq(Arrayz)
         /\ Extended(ObjectsOf(A, B), d,
                     [of |-> A[d].of, live |-> TRUE, elements |-> CellsOf(B, d, A[d].size)],
                     ObjectsOf(A2, B))
         /\ StackOK(A2, B, Append(RestOf(S, 1), Arr(A[d].of, d)))
         /\ StackOf(A2, B, Append(RestOf(S, 1), Arr(A[d].of, d)))
              = Append(RestOf(StackOf(A, B, S), 1), Objects!Arr(A[d].of, d))
<1> DEFINE R == RestOf(S, 1)
           t == A[d].of
           n == A[d].size
           x == Populating(t, d, n)
           y == Arr(t, d)
<1>1. /\ A \in Seq(Arrayz) /\ Len(A) \in Nat /\ Len(S) \in Nat /\ d \in Nat /\ d \in Int
      /\ t \in ElementType /\ n \in Nat /\ d # Null
  BY HeapTypes DEF HeapOK, StackOK, StackTyped
<1>2. Len(S) - 1 + 1 \in 1 .. Len(S)
  BY <1>1 DEF Populator
<1>3. OperandOK(A, B, x)
  BY <1>2 DEF StackOK, StackTyped
<1>4. x.kind = "populating" /\ x.data = d /\ x.index = n
  BY <1>1, PopulatingFields
<1> HIDE DEF x
<1>5. A[d].data = Null /\ B[d].set = 0 .. A[d].size - 1
  BY <1>3, <1>4 DEF OperandOK
<1>6. StackTyped(A, B, R) /\ Besides(A, R, d) /\ StackOf(A, B, R) = RestOf(StackOf(A, B, S), 1)
  BY Rest
<1> HIDE DEF R
<1>7. /\ HeapOK(A2, B) /\ Grows(A, A2) /\ Len(A2) = Len(A)
      /\ \A a \in 1 .. Len(A) : a # d => A2[a] = A[a]
      /\ A2[d] = [A[d] EXCEPT !.data = d]
  BY <1>5, ConnectKeeps
<1>8. A[d] \in Arrayz /\ A[d].live = TRUE
  BY <1>1, <1>5, HeapTypes DEF ArrayOK
<1>9. A2[d].data = d /\ A2[d].of = t /\ A2[d].size = n /\ A2[d].live = TRUE /\ A2[d].data # Null
  BY <1>1, <1>7, <1>8 DEF Arrayz
<1>10. A2 \in Seq(Arrayz)
  BY <1>7 DEF HeapOK
<1>11. OthersKeep(A, B, A2, B, d)
  BY <1>7 DEF OthersKeep
<1>12. StackTyped(A2, B, R) /\ StackOf(A2, B, R) = StackOf(A, B, R)
  BY <1>1, <1>6, <1>10, <1>11, RestKeeps
<1>13. StackOK(A2, B, R)
  BY <1>6, <1>7, <1>9, <1>12, RestEnds
<1>14. Pointer(A2, t, d)
  BY <1>7, <1>9 DEF Pointer
<1>15. /\ y \in Operands /\ y.kind # "populating" /\ OperandOK(A2, B, y)
       /\ OperandOf(A2, B, y) = Objects!Arr(t, d)
  <2> HIDE DEF t
  <2>1. /\ Arr(t, d) \in Operands /\ Arr(t, d).kind = "array"
        /\ OperandOK(A2, B, Arr(t, d)) /\ OperandOf(A2, B, Arr(t, d)) = Objects!Arr(t, d)
    BY <1>1, <1>14, Values
  <2> QED BY <2>1
<1> HIDE DEF y
<1>16. StackOK(A2, B, Append(R, y))
  BY <1>13, <1>15, PushKeeps
<1>17. StackOf(A2, B, Append(R, y)) = Append(StackOf(A2, B, R), OperandOf(A2, B, y))
  BY <1>7, <1>12, <1>15, PushMapped
<1>18. Extended(ObjectsOf(A, B), d, ObjectOf(A2, B, d), ObjectsOf(A2, B))
  <2>1. \A a \in 1 .. Len(A2) : a # d => a \in 1 .. Len(A) /\ A2[a] = A[a] /\ B[a] = B[a]
    BY <1>7
  <2>2. Len(A) <= Len(A2) /\ d \in 1 .. Len(A2)
    BY <1>1, <1>7
  <2> QED BY <1>5, <1>7, <1>9, <2>1, <2>2, ObjectsExtended
<1>19. ObjectOf(A2, B, d) = [of |-> t, live |-> TRUE, elements |-> CellsOf(B, d, n)]
  BY <1>9 DEF ObjectOf
<1> QED BY <1>1, <1>6, <1>7, <1>10, <1>12, <1>15, <1>16, <1>17, <1>18, <1>19 DEF R, y

\* The array with all its elements becomes an object.
LEMMA EndPopulatedArrayStep == IInv /\ EndPopulatedArray => IInv' /\ Objects!EndArray
<1> SUFFICES ASSUME IInv, EndPopulatedArray PROVE IInv' /\ Objects!EndArray
  OBVIOUS
<1> DEFINE d == Top.data
           t == Top.of
           n == arrays[d].size
<1>1. /\ Has(1) /\ Top.kind = "populating" /\ Top.index = arrays[Top.value].size
      /\ arrays' = [arrays EXCEPT ![Top.value].data = Top.data]
      /\ Replace(1, Arr(Top.of, Top.value))
      /\ blocks' = blocks /\ variables' = variables /\ status' = status
  BY DEF EndPopulatedArray
<1>2. /\ Len(stack) \in 1 .. Len(stack) /\ stack[Len(stack)] = Top
      /\ Top \in Operands /\ OperandOK(arrays, blocks, Top)
      /\ Objects!Top = OperandOf(arrays, blocks, Top) /\ Objects!Has(1)
  BY <1>1, TopOperand
<1>3. /\ HeapOK(arrays, blocks) /\ StackOK(arrays, blocks, stack) /\ VariablesOK(arrays, variables)
      /\ Len(stack) \in Nat
  BY Invariant
<1>4. /\ t \in ElementType /\ Top.value = d /\ d \in 1 .. Len(arrays)
      /\ arrays[d].data = Null /\ arrays[d].of = t /\ Top.index = n
  BY <1>1, <1>2 DEF OperandOK, Operands
<1>5. Top = Populating(t, d, n)
  BY <1>1, <1>2, <1>4, PopulatingOperands
<1>6. Connects(arrays, d, arrays')
  BY <1>1, <1>4 DEF Connects
<1>7. stack' = Append(RestOf(stack, 1), Arr(t, d))
  BY <1>1, <1>4 DEF Replace, Pop, RestOf
<1>8. Objects!Top = Abstract("populating", t, n, 0, CellsOf(blocks, d, n))
  BY <1>1, <1>2, <1>4 DEF OperandOf
<1>9. Top.kind = "populating" /\ Top.data = d
  BY <1>1
<1> HIDE DEF d, t
<1>10. Populator(stack, 1, d)
  <2>1. 1 \in 1 .. Len(stack) /\ Len(stack) - 1 + 1 = Len(stack)
    BY <1>2, <1>3
  <2>2. \A k \in Len(stack) - 1 + 2 .. Len(stack) : FALSE
    BY <1>3
  <2> QED BY <1>2, <1>9, <2>1, <2>2 DEF Populator, Populates
<1>11. stack[Len(stack) - 1 + 1] = Populating(arrays[d].of, d, arrays[d].size)
  <2>1. Len(stack) - 1 + 1 = Len(stack)
    BY <1>3
  <2> QED BY <1>2, <1>4, <1>5, <2>1
<1>12. /\ HeapOK(arrays', blocks) /\ Grows(arrays, arrays')
       /\ arrays \in Seq(Arrayz) /\ arrays' \in Seq(Arrayz)
       /\ Extended(ObjectsOf(arrays, blocks), d,
                   [of |-> arrays[d].of, live |-> TRUE, elements |-> CellsOf(blocks, d, arrays[d].size)],
                   ObjectsOf(arrays', blocks))
       /\ StackOK(arrays', blocks, Append(RestOf(stack, 1), Arr(arrays[d].of, d)))
       /\ StackOf(arrays', blocks, Append(RestOf(stack, 1), Arr(arrays[d].of, d)))
            = Append(RestOf(StackOf(arrays, blocks, stack), 1), Objects!Arr(arrays[d].of, d))
  BY <1>3, <1>4, <1>6, <1>10, <1>11, ConnectedKeeps
<1> HIDE DEF n
<1>13. /\ HeapOK(arrays', blocks') /\ StackOK(arrays', blocks', stack')
       /\ Extended(O, d, [of |-> t, live |-> TRUE, elements |-> CellsOf(blocks, d, n)], O')
       /\ K' = Append(RestOf(K, 1), Objects!Arr(t, d))
  BY <1>1, <1>4, <1>7, <1>12 DEF K, O, n
<1>14. VariablesOK(arrays', variables')
  BY <1>1, <1>3, <1>12, VariablesKeep
<1>15. IInv'
  BY <1>1, <1>3, <1>13, <1>14 DEF IInv
<1>16. /\ Objects!Top.kind = "populating" /\ Objects!Top.of = t
       /\ Objects!Top.value = n /\ Objects!Top.elements = CellsOf(blocks, d, n)
  BY <1>8 DEF Abstract
<1>17. Len(CellsOf(blocks, d, n)) = n /\ d \in Objects!Reference
  <2>1. n \in Nat /\ Len(arrays) \in Nat /\ Len(arrays) <= MaxArrays /\ MaxArrays \in Nat
    BY <1>3, <1>4, HeapTypes, ArraysAssumption DEF n
  <2>2. d \in 1 .. MaxArrays
    BY <1>4, <2>1
  <2> QED BY <1>3, <1>4, <2>1, <2>2, CellsMapped DEF Objects!Reference
<1>18. Objects!Replace(1, Objects!Arr(t, d))
  BY <1>13 DEF Objects!Replace, Objects!Pop, RestOf, K
<1>19. Objects!Create(1, t, CellsOf(blocks, d, n))
  BY <1>13, <1>17, <1>18 DEF Objects!Create, Extended, O
<1>20. Objects!EndArray
  BY <1>1, <1>2, <1>16, <1>17, <1>19 DEF Objects!EndArray
<1> QED BY <1>15, <1>20

\* An object changes as its array does: one element is set, or it is freed.
LEMMA StoredObject ==
  ASSUME NEW A, NEW B, HeapOK(A, B), NEW B2, HeapOK(A, B2), NEW d \in 1 .. Len(A), A[d].data = d,
         \A a \in 1 .. Len(A) : a # d => B2[a] = B[a],
         NEW i, NEW v, Stored(B, d, i, v, B2), i < A[d].size
  PROVE  ObjectsOf(A, B2) = [ObjectsOf(A, B) EXCEPT ![d].elements[i + 1] = v]
<1> DEFINE F == ObjectsOf(A, B)
<1>1. d # Null /\ A[d].data # Null /\ A[d].size \in Nat
  BY HeapTypes
<1>2. ObjectsOf(A, B2) = [F EXCEPT ![d] = ObjectOf(A, B2, d)]
  <2>1. \A a \in 1 .. Len(A) : a # d => A[a] = A[a] /\ B2[a] = B[a]
    OBVIOUS
  <2> QED BY <1>1, <2>1, ObjectChanged
<1>3. F[d] = ObjectOf(A, B, d)
  BY <1>1 DEF ObjectsOf
<1>4. CellsOf(B2, d, A[d].size) = [CellsOf(B, d, A[d].size) EXCEPT ![i + 1] = v]
  BY <1>1, CellsChange
<1>5. ObjectOf(A, B2, d) = [ObjectOf(A, B, d) EXCEPT !.elements[i + 1] = v]
  BY <1>4 DEF ObjectOf
<1> HIDE DEF F
<1>6. [F EXCEPT ![d].elements[i + 1] = v] = [F EXCEPT ![d] = [ObjectOf(A, B, d) EXCEPT !.elements[i + 1] = v]]
  BY <1>3
<1> QED BY <1>2, <1>5, <1>6 DEF F

\* An object dies when its array is freed.
LEMMA FreedObject ==
  ASSUME NEW A, NEW B, HeapOK(A, B), NEW A2, NEW B2, NEW d \in 1 .. Len(A), A[d].data = d,
         Frees(A, B, d, A2, B2)
  PROVE  ObjectsOf(A2, B2) = [ObjectsOf(A, B) EXCEPT ![d].live = FALSE]
<1> DEFINE F == ObjectsOf(A, B)
<1>1. d # Null /\ A[d].data # Null /\ A[d] \in Arrayz /\ B[d] \in Blockz
  BY HeapTypes DEF HeapOK
<1>2. /\ HeapOK(A2, B2) /\ Len(A2) = Len(A)
      /\ \A a \in 1 .. Len(A) : a # d => A2[a] = A[a] /\ B2[a] = B[a]
      /\ A2[d] = [A[d] EXCEPT !.live = FALSE] /\ B2[d] = [B[d] EXCEPT !.live = FALSE]
  <2>1. Freed(A, B, d, A2, B2)
    BY FreeKeeps
  <2> QED BY <2>1 DEF Freed
<1>3. /\ A2[d].of = A[d].of /\ A2[d].live = FALSE /\ A2[d].size = A[d].size /\ A2[d].data = d
      /\ B2[d].set = B[d].set /\ B2[d].cells = B[d].cells
  BY <1>1, <1>2 DEF Arrayz, Blockz
<1>4. ObjectsOf(A2, B2) = [F EXCEPT ![d] = ObjectOf(A2, B2, d)]
  <2>1. A2[d].data # Null
    BY <1>1, <1>3
  <2>2. \A a \in 1 .. Len(A) : a # d => A2[a] = A[a] /\ B2[a] = B[a]
    BY <1>2
  <2>3. HeapOK(A2, B2) /\ Len(A2) = Len(A) /\ A[d].data # Null
    BY <1>1, <1>2
  <2> QED BY <2>1, <2>2, <2>3, ObjectChanged
<1>5. F[d] = ObjectOf(A, B, d)
  BY <1>1 DEF ObjectsOf
<1>6. CellsOf(B2, d, A[d].size) = CellsOf(B, d, A[d].size)
  BY <1>3 DEF CellsOf
<1>7. ObjectOf(A2, B2, d) = [ObjectOf(A, B, d) EXCEPT !.live = FALSE]
  <2>1. ObjectOf(A2, B2, d) = [of |-> A[d].of, live |-> FALSE, elements |-> CellsOf(B, d, A[d].size)]
    BY <1>3, <1>6 DEF ObjectOf
  <2>2. ObjectOf(A, B, d) = [of |-> A[d].of, live |-> A[d].live, elements |-> CellsOf(B, d, A[d].size)]
    BY DEF ObjectOf
  <2>3. \A x : [ObjectOf(A, B, d) EXCEPT !.live = x]
                = [of |-> A[d].of, live |-> x, elements |-> CellsOf(B, d, A[d].size)]
    BY <2>2
  <2> QED BY <2>1, <2>3
<1> HIDE DEF F
<1>8. [F EXCEPT ![d].live = FALSE] = [F EXCEPT ![d] = [ObjectOf(A, B, d) EXCEPT !.live = FALSE]]
  BY <1>5
<1> QED BY <1>4, <1>7, <1>8 DEF F

\* The stack does not know of a change to an array that is connected.
LEMMA ConnectedChange ==
  ASSUME NEW A, NEW B, HeapOK(A, B), NEW S, StackOK(A, B, S), NEW A2, NEW B2, HeapOK(A2, B2),
         NEW d \in 1 .. Len(A), A[d].data = d, A2[d].data = d, Len(A2) = Len(A),
         OthersKeep(A, B, A2, B2, d), NEW n \in 0 .. Len(S),
         \A k \in Len(S) - n + 1 .. Len(S) : S[k].kind # "populating"
  PROVE  /\ StackOK(A2, B2, RestOf(S, n))
         /\ StackOf(A2, B2, RestOf(S, n)) = RestOf(StackOf(A, B, S), n)
<1>1. A \in Seq(Arrayz) /\ A2 \in Seq(Arrayz) /\ d # Null /\ StackTyped(A, B, S)
  BY HeapTypes DEF HeapOK, StackOK
<1>2. Grows(A, A2) /\ \A a \in 1 .. Len(A) : a # d => A2[a] = A[a] /\ B2[a] = B[a]
  BY DEF OthersKeep
<1>3. StackOK(A2, B2, S)
  <2>1. \A a \in 1 .. Len(A) :
          A[a].data = Null => A2[a].data = Null /\ B2[a].set = B[a].set
    BY <1>1, <1>2
  <2>2. \A a \in 1 .. Len(A2) : A2[a].data = Null => a \in 1 .. Len(A) /\ A[a].data = Null
    BY <1>1, <1>2
  <2> QED BY <1>1, <1>2, <2>1, <2>2, StackKeeps
<1>4. StackOf(A2, B2, S) = StackOf(A, B, S)
  <2>1. \A k \in 1 .. Len(S) : S[k].kind = "populating" => B2[S[k].data] = B[S[k].data]
    BY <1>1, <1>2 DEF StackTyped, OperandOK
  <2> QED BY <1>1, <1>2, <2>1, FrameMapped
<1>5. StackOK(A2, B2, SubSeq(S, 1, Len(S) - n))
  BY <1>3, PopKeeps
<1>6. StackOf(A2, B2, SubSeq(S, 1, Len(S) - n))
        = SubSeq(StackOf(A2, B2, S), 1, Len(StackOf(A2, B2, S)) - n)
  BY <1>3, PopMapped DEF StackOK
<1> QED BY <1>4, <1>5, <1>6 DEF RestOf

\* An array is freed that the topmost operand refers to.
LEMMA FreedKeeps ==
  ASSUME NEW A, NEW B, HeapOK(A, B), NEW S, StackOK(A, B, S), NEW d \in 1 .. Len(A), A[d].data = d,
         1 \in 0 .. Len(S), \A k \in Len(S) - 1 + 1 .. Len(S) : S[k].kind # "populating",
         NEW A2, NEW B2, Frees(A, B, d, A2, B2)
  PROVE  /\ HeapOK(A2, B2) /\ Grows(A, A2) /\ A \in Seq(Arrayz) /\ A2 \in Seq(Arrayz)
         /\ StackOK(A2, B2, RestOf(S, 1))
         /\ StackOf(A2, B2, RestOf(S, 1)) = RestOf(StackOf(A, B, S), 1)
         /\ ObjectsOf(A2, B2) = [ObjectsOf(A, B) EXCEPT ![d].live = FALSE]
<1>1. /\ HeapOK(A2, B2) /\ Grows(A, A2) /\ Len(A2) = Len(A)
      /\ \A a \in 1 .. Len(A) : a # d => A2[a] = A[a] /\ B2[a] = B[a]
  <2>1. Freed(A, B, d, A2, B2)
    BY FreeKeeps
  <2> QED BY <2>1 DEF Freed
<1>2. A \in Seq(Arrayz) /\ A2 \in Seq(Arrayz)
  BY <1>1 DEF HeapOK
<1>3. OthersKeep(A, B, A2, B2, d) /\ A2[d].data = d
  BY <1>1 DEF OthersKeep, Grows
<1>4. /\ StackOK(A2, B2, RestOf(S, 1))
      /\ StackOf(A2, B2, RestOf(S, 1)) = RestOf(StackOf(A, B, S), 1)
  BY <1>1, <1>3, ConnectedChange
<1>5. ObjectsOf(A2, B2) = [ObjectsOf(A, B) EXCEPT ![d].live = FALSE]
  BY FreedObject
<1> QED BY <1>1, <1>2, <1>4, <1>5

\* A block and its array are allocated as long as each other.
LEMMA LiveBlocks ==
  ASSUME IInv, NEW a \in 1 .. Len(arrays), arrays[a].data = a
  PROVE  IsBlock(a) <=> IsArray(a)
<1>1. Len(blocks) = Len(arrays) /\ blocks[a].live = arrays[a].live
  BY Invariant, HeapTypes
<1> QED BY <1>1 DEF IsBlock, IsArray

\* An element is stored in its object and in no other, unless the object is none any more.
LEMMA AssignElementStep ==
  IInv /\ AssignElement => IInv' /\ (Objects!StoreElement \/ Objects!Misuse)
<1> SUFFICES ASSUME IInv, AssignElement
             PROVE  IInv' /\ (Objects!StoreElement \/ Objects!Misuse)
  OBVIOUS
<1> DEFINE d == Below.data
           i == Below.index
           v == Top.value
           t == Below.of
<1>1. Has(2) /\ Below.kind = "address" /\ IsElement(Top, t)
  BY DEF AssignElement
<1>2. /\ Has(1) /\ 2 \in 0 .. Len(stack)
      /\ Below \in Operands /\ OperandOK(arrays, blocks, Below)
      /\ Objects!Below = OperandOf(arrays, blocks, Below) /\ Objects!Has(2)
      /\ \A k \in Len(stack) - 2 + 1 .. Len(stack) : stack[k] = Top \/ stack[k] = Below
  BY <1>1, TwoOperands
<1>3. /\ Top \in Operands /\ OperandOK(arrays, blocks, Top)
      /\ Objects!Top = OperandOf(arrays, blocks, Top)
  BY <1>2, TopOperand
<1>4. HeapOK(arrays, blocks) /\ StackOK(arrays, blocks, stack) /\ VariablesOK(arrays, variables)
  BY Invariant
<1>5. /\ t \in ElementType /\ i \in Nat
      /\ Pointer(arrays, t, d) /\ d # Null /\ i < arrays[d].size
  BY <1>1, <1>2 DEF OperandOK, Operands
<1>6. /\ Fits(arrays, t, v) /\ Objects!IsElement(Objects!Top, t) /\ Objects!Top.value = v
      /\ Top.kind \in {"number", "array"}
  BY <1>1, <1>3, <1>5, ElementOperands
<1>7. \A k \in Len(stack) - 2 + 1 .. Len(stack) : stack[k].kind # "populating"
  BY <1>1, <1>2, <1>6
<1>8. /\ Objects!IsLive(d) <=> IsArray(d)
      /\ d \in 1 .. Len(arrays) /\ arrays[d].data = d /\ arrays[d].of = t
      /\ Large(arrays[d].size, t) => Objects!IsBad(d)
  BY <1>5, LiveObjects
<1>9. /\ Objects!Below.kind = "address" /\ Objects!Below.of = t
      /\ Objects!Below.value = d /\ Objects!Below.index = i
  BY <1>1, <1>2, OperandFields
<1>10. IsBlock(d) <=> IsArray(d)
  BY <1>8, LiveBlocks
<1>11. CASE ~Inside(d, i, t) /\ Undefined
  <2>1. arrays[d].size \in Nat /\ blocks[d].bytes = DataSize(arrays[d].size, t)
    BY <1>4, <1>8, HeapTypes
  <2>2. IsBlock(d) => Large(arrays[d].size, t)
    BY <1>5, <1>11, <2>1, Elements DEF Inside
  <2>3. Objects!IsBad(d)
    BY <1>8, <1>10, <2>2 DEF Objects!IsBad
  <2> QED BY <1>1, <1>11, <2>3, MisuseBelow
<1>12. CASE Inside(d, i, t) /\ Write(d, i, v) /\ stack' = Pop(2) /\ UNCHANGED <<arrays, variables, status>>
  <2> HIDE DEF d, i, v, t
  <2>1. Written(arrays, blocks, d, i, v, blocks')
    BY <1>5, <1>6, <1>8, <1>12 DEF Written, Write, Inside
  <2>2. /\ HeapOK(arrays, blocks')
        /\ \A a \in 1 .. Len(arrays) : a # d => blocks'[a] = blocks[a]
        /\ Stored(blocks, d, i, v, blocks')
    BY <1>4, <2>1, WriteKeeps
  <2>3. OthersKeep(arrays, blocks, arrays, blocks', d)
    BY <2>2 DEF OthersKeep, Grows, HeapOK
  <2>4. /\ StackOK(arrays, blocks', RestOf(stack, 2))
        /\ StackOf(arrays, blocks', RestOf(stack, 2)) = RestOf(StackOf(arrays, blocks, stack), 2)
    BY <1>2, <1>4, <1>7, <1>8, <2>2, <2>3, ConnectedChange
  <2>5. ObjectsOf(arrays, blocks') = [ObjectsOf(arrays, blocks) EXCEPT ![d].elements[i + 1] = v]
    BY <1>4, <1>5, <1>8, <2>2, StoredObject
  <2>6. stack' = RestOf(stack, 2) /\ arrays' = arrays
    BY <1>12 DEF Pop, RestOf
  <2>7. /\ HeapOK(arrays', blocks') /\ StackOK(arrays', blocks', stack')
        /\ O' = [O EXCEPT ![d].elements[i + 1] = v] /\ K' = RestOf(K, 2)
    BY <2>2, <2>4, <2>5, <2>6 DEF K, O
  <2>8. IInv'
    BY <1>4, <1>12, <2>7 DEF IInv
  <2>9. Objects!IsLive(d)
    BY <1>8, <1>10, <1>12 DEF Inside
  <2>10. Objects!StoreElement
    BY <1>2, <1>6, <1>9, <1>12, <2>7, <2>9 DEF Objects!StoreElement, Objects!Pop, RestOf, K, O
  <2> QED BY <2>8, <2>10
<1>13. \/ ~Inside(d, i, t) /\ Undefined
       \/ Inside(d, i, t) /\ Write(d, i, v) /\ stack' = Pop(2) /\ UNCHANGED <<arrays, variables, status>>
  BY DEF AssignElement
<1> QED BY <1>11, <1>12, <1>13

\* dealloc ends one object, unless it is none any more.
LEMMA DeallocStep == IInv /\ Dealloc => IInv' /\ (Objects!Dealloc \/ Objects!Misuse)
<1> SUFFICES ASSUME IInv, Dealloc PROVE IInv' /\ (Objects!Dealloc \/ Objects!Misuse)
  OBVIOUS
<1> DEFINE v == Top.value
<1>1. Has(1) /\ Top.kind = "array"
  BY DEF Dealloc
<1>2. /\ Top \in Operands /\ OperandOK(arrays, blocks, Top)
      /\ Objects!Top = OperandOf(arrays, blocks, Top) /\ Objects!Has(1)
      /\ 1 \in 0 .. Len(stack)
      /\ \A k \in Len(stack) - 1 + 1 .. Len(stack) : stack[k].kind # "populating"
  BY <1>1, TopOperand
<1>3. HeapOK(arrays, blocks) /\ StackOK(arrays, blocks, stack) /\ VariablesOK(arrays, variables)
  BY Invariant
<1>4. Pointer(arrays, Top.of, v)
  BY <1>1, <1>2 DEF OperandOK
<1>5. /\ Objects!IsLive(v) <=> IsArray(v)
      /\ IsArray(v) => v \in 1 .. Len(arrays) /\ arrays[v].data = v
  BY <1>4, LiveObjects DEF IsArray, Null
<1>6. IsArray(v) => IsBlock(arrays[v].data)
  BY <1>5, LiveBlocks
<1>7. Objects!Top.kind = "array" /\ Objects!Top.value = v
  BY <1>1, <1>2, OperandFields
<1>8. CASE ~(IsArray(v) /\ IsBlock(arrays[v].data)) /\ Undefined
  <2>1. Objects!IsBad(v)
    BY <1>5, <1>6, <1>8 DEF Objects!IsBad
  <2> QED BY <1>1, <1>8, <2>1, MisuseOfTop
<1>9. CASE IsArray(v) /\ Free(v, arrays[v].data) /\ stack' = Pop(1) /\ UNCHANGED <<variables, status>>
  <2> HIDE DEF v
  <2>1. v \in 1 .. Len(arrays) /\ arrays[v].data = v
    BY <1>5, <1>9
  <2>2. Frees(arrays, blocks, v, arrays', blocks')
    BY <1>9, <2>1 DEF Frees, Free
  <2>3. /\ HeapOK(arrays', blocks') /\ Grows(arrays, arrays')
        /\ arrays \in Seq(Arrayz) /\ arrays' \in Seq(Arrayz)
        /\ StackOK(arrays', blocks', RestOf(stack, 1))
        /\ StackOf(arrays', blocks', RestOf(stack, 1)) = RestOf(StackOf(arrays, blocks, stack), 1)
        /\ ObjectsOf(arrays', blocks') = [ObjectsOf(arrays, blocks) EXCEPT ![v].live = FALSE]
    BY <1>2, <1>3, <2>1, <2>2, FreedKeeps
  <2>4. stack' = RestOf(stack, 1)
    BY <1>9 DEF Pop, RestOf
  <2>5. /\ StackOK(arrays', blocks', stack')
        /\ O' = [O EXCEPT ![v].live = FALSE] /\ K' = RestOf(K, 1)
    BY <2>3, <2>4 DEF K, O
  <2>6. VariablesOK(arrays', variables')
    BY <1>3, <1>9, <2>3, VariablesKeep
  <2>7. IInv'
    BY <1>3, <1>9, <2>3, <2>5, <2>6 DEF IInv
  <2>8. Objects!Dealloc
    BY <1>2, <1>5, <1>7, <1>9, <2>5 DEF Objects!Dealloc, Objects!Pop, RestOf, K, O
  <2> QED BY <2>7, <2>8
<1>10. \/ ~(IsArray(v) /\ IsBlock(arrays[v].data)) /\ Undefined
       \/ IsArray(v) /\ Free(v, arrays[v].data) /\ stack' = Pop(1) /\ UNCHANGED <<variables, status>>
  BY DEF Dealloc
<1> QED BY <1>8, <1>9, <1>10

-----------------------------------------------------------------------------
(* The program.                                                            *)

\* No array is there at first.
LEMMA Starts == Init => IInv /\ Objects!Init
<1> SUFFICES ASSUME Init PROVE IInv /\ Objects!Init
  OBVIOUS
<1>1. arrays = <<>> /\ blocks = <<>> /\ variables = <<>> /\ stack = <<>> /\ status = "running"
  BY DEF Init
<1>2. \A X : <<>> \in Seq(X) /\ Len(<<>>) = 0
  OBVIOUS
<1>3. HeapOK(arrays, blocks)
  BY <1>1, <1>2, ArraysAssumption DEF HeapOK
<1>4. StackOK(arrays, blocks, stack)
  BY <1>1, <1>2 DEF StackOK, StackTyped, PopulatedOnce
<1>5. VariablesOK(arrays, variables)
  <2>1. DOMAIN variables = {}
    BY <1>1
  <2> QED BY <2>1 DEF VariablesOK
<1>6. ObjectsOf(arrays, blocks) = <<>> /\ StackOf(arrays, blocks, stack) = <<>>
  <2>1. 1 .. Len(arrays) = {} /\ 1 .. Len(stack) = {}
    BY <1>1
  <2>2. DOMAIN <<>> = {}
    OBVIOUS
  <2>3. ObjectsOf(arrays, blocks) = [a \in {} |-> ObjectOf(arrays, blocks, a)]
    BY <2>1 DEF ObjectsOf
  <2>4. StackOf(arrays, blocks, stack) = [k \in {} |-> OperandOf(arrays, blocks, stack[k])]
    BY <2>1 DEF StackOf
  <2> QED BY <2>3, <2>4
<1>7. IInv
  BY <1>1, <1>3, <1>4, <1>5 DEF IInv
<1>8. Objects!Init
  BY <1>1, <1>6 DEF Objects!Init
<1> QED BY <1>7, <1>8

\* Every step keeps the invariant and is a step of the objects.
LEMMA Steps == IInv /\ [Next]_vars => IInv' /\ [Objects!Next]_Objects!vars
<1> SUFFICES ASSUME IInv, [Next]_vars PROVE IInv' /\ [Objects!Next]_Objects!vars
  OBVIOUS
<1>1. CASE UNCHANGED vars
  <2>1. /\ arrays' = arrays /\ blocks' = blocks /\ variables' = variables
        /\ stack' = stack /\ status' = status
    BY <1>1 DEF vars
  <2>2. IInv'
    BY <2>1 DEF IInv
  <2>3. UNCHANGED Objects!vars
    BY <2>1 DEF Objects!vars
  <2> QED BY <2>2, <2>3
<1>2. CASE Next
  <2>1. CASE LoadNumber
    BY <2>1, LoadNumberStep DEF Objects!Next
  <2>2. CASE LoadVariable
    BY <2>2, LoadVariableStep DEF Objects!Next
  <2>3. CASE StoreVariable
    BY <2>3, StoreVariableStep DEF Objects!Next
  <2>4. CASE ExpressionStatement
    BY <2>4, ExpressionStatementStep DEF Objects!Next
  <2>5. CASE AllocExpression
    BY <2>5, AllocExpressionStep DEF Objects!Next
  <2>6. CASE BeginPopulatedArray
    BY <2>6, BeginPopulatedArrayStep DEF Objects!Next
  <2>7. CASE PopulateElement
    BY <2>7, PopulateElementStep DEF Objects!Next
  <2>8. CASE EndPopulatedArray
    BY <2>8, EndPopulatedArrayStep DEF Objects!Next
  <2>9. CASE BeginArrayIndexing
    BY <2>9, BeginArrayIndexingStep DEF Objects!Next
  <2>10. CASE EndArrayIndexing
    BY <2>10, EndArrayIndexingStep DEF Objects!Next
  <2>11. CASE AssignElement
    BY <2>11, AssignElementStep DEF Objects!Next
  <2>12. CASE ArraySizeof
    BY <2>12, ArraySizeofStep DEF Objects!Next
  <2>13. CASE PrintStatement
    BY <2>13, PrintStep DEF Objects!Next
  <2>14. CASE Dealloc
    BY <2>14, DeallocStep DEF Objects!Next
  <2>15. CASE Ended
    BY <1>1, <2>15 DEF Ended
  <2> QED BY <1>2, <2>1, <2>2, <2>3, <2>4, <2>5, <2>6, <2>7, <2>8, <2>9, <2>10, <2>11, <2>12,
             <2>13, <2>14, <2>15 DEF Next
<1> QED BY <1>1, <1>2

\* What the invariant says of the types of the variables.
LEMMA InvariantIsTyped == IInv => TypeOK
<1> SUFFICES ASSUME IInv PROVE TypeOK
  OBVIOUS
<1>1. /\ arrays \in Seq(Arrayz) /\ blocks \in Seq(Blockz) /\ stack \in Seq(Operands)
      /\ VariablesOK(arrays, variables)
      /\ status \in {"running", "stopped", "out of memory", "undefined"}
  BY DEF IInv, HeapOK, StackOK, StackTyped
<1> QED BY <1>1 DEF TypeOK, Arrayz, Blockz, Operands, Offset, VariablesOK

\* The block of an array has the number of the array.
LEMMA InvariantIsOwnership == IInv => BlocksBelongToTheirArrays
<1> SUFFICES ASSUME IInv PROVE BlocksBelongToTheirArrays
  OBVIOUS
<1>1. \A a \in 1 .. Len(arrays) :
        /\ a # Null /\ arrays[a].data \in {Null, a} /\ blocks[a].live = arrays[a].live
        /\ Len(blocks) = Len(arrays)
  BY Invariant, HeapTypes
<1>2. Len(blocks) = Len(arrays)
  BY Invariant DEF HeapOK
<1>3. \A a, b \in 1 .. Len(arrays) :
        Connected(a) /\ arrays[a].data = arrays[b].data => a = b
  BY <1>1 DEF Connected
<1>4. \A a \in 1 .. Len(arrays) :
        Connected(a) => arrays[a].live = blocks[arrays[a].data].live
  BY <1>1 DEF Connected
<1>5. ASSUME NEW d \in 1 .. Len(blocks)
      PROVE  \/ \E a \in 1 .. Len(arrays) : arrays[a].data = d
             \/ \E k \in 1 .. Len(stack) : stack[k].kind = "populating" /\ stack[k].data = d
  <2>1. d \in 1 .. Len(arrays)
    BY <1>2
  <2>2. CASE arrays[d].data = d
    BY <2>1, <2>2
  <2>3. CASE arrays[d].data = Null
    <3>1. \E k \in 1 .. Len(stack) : Populates(stack[k], d)
      BY <2>1, <2>3, Invariant DEF StackOK, PopulatedOnce
    <3> QED BY <3>1 DEF Populates
  <2> QED BY <1>1, <2>1, <2>2, <2>3
<1> QED BY <1>3, <1>4, <1>5 DEF BlocksBelongToTheirArrays

-----------------------------------------------------------------------------

\* The invariant holds as long as the program runs.
LEMMA Always == Spec => []IInv
<1>1. Init => IInv
  BY Starts
<1>2. IInv /\ [Next]_vars => IInv'
  BY Steps
<1> QED BY <1>1, <1>2, PTL DEF Spec

\* The variables of the program have their types: sizes fit into integers, blocks have bytes
\* that can be counted, and no operand holds what is no address.
THEOREM TypeCorrect == Spec => []TypeOK
<1>1. IInv => TypeOK
  BY InvariantIsTyped
<1> QED BY <1>1, Always, PTL

\* A block is allocated as long as its array is, belongs to no other array, and waits for its
\* elements while it belongs to none.
THEOREM BlocksBelong == Spec => []BlocksBelongToTheirArrays
<1>1. IInv => BlocksBelongToTheirArrays
  BY InvariantIsOwnership
<1> QED BY <1>1, Always, PTL

\* The arrays and blocks of the generated code are objects with elements, whatever the program
\* does, how wide integers are and how large elements.
THEOREM Implementation == Spec => IsArrayObjects
<1>1. Init => Objects!Init
  BY Starts
<1>2. IInv /\ [Next]_vars => [Objects!Next]_Objects!vars
  BY Steps
<1> QED BY <1>1, <1>2, Always, PTL DEF Spec, IsArrayObjects, Objects!Spec
=============================================================================
