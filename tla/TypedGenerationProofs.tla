------------------------ MODULE TypedGenerationProofs ------------------------
(***************************************************************************)
(* Theorems about code generation for the trees that the analyzer accepts, *)
(* from what is proved of the analyzer.                                    *)
(***************************************************************************)
EXTENDS SemanticAnalysisProofs

-----------------------------------------------------------------------------
(* Nodes and the kinds of their children.                                  *)

LEMMA ChildrenArePlaced ==
  ASSUME NEW tn, WellFormed(tn), NEW n, n = Len(tn.children), n \in Nat, NEW i \in 1..n
  PROVE  IsPlaced(tn.children[i].kind, i, tn.kind, n)
<1> DEFINE k == tn.children[i].kind
           Are(places, kinds) == \A j \in places : tn.children[j].kind \in kinds
<1>1. i \in Nat /\ i >= 1 /\ i <= n /\ n \in Nat
  OBVIOUS
<1>2. CASE tn.kind = "program"
  <2>1. Are(1..(n - 1), {"function"}) /\ Are({n}, {"main"})
    BY <1>2, Zenon DEF WellFormed
  <2>2. k = "function" \/ (k = "main" /\ i = n)
    BY <1>1, <2>1
  <2> QED BY <1>2, <2>2 DEF IsPlaced
<1>3. CASE tn.kind = "lambda"
  <2>1. Are(1..(n - 2), {"parameter"}) /\ Are({n - 1}, TypeKinds) /\ Are({n}, {"block"})
    BY <1>3, Zenon DEF WellFormed
  <2>2. \/ k = "parameter" /\ i <= n - 2
        \/ k \in TypeKinds /\ i < n
        \/ k = "block" /\ i = n
    BY <1>1, <2>1
  <2> QED BY <1>3, <2>2 DEF IsPlaced
<1>4. CASE tn.kind = "main"
  <2>1. n = 1 /\ Are({1}, {"block"})
    BY <1>4, Zenon DEF WellFormed
  <2>2. k = "block" /\ i = n
    BY <1>1, <2>1
  <2> QED BY <1>4, <2>2 DEF IsPlaced
<1>5. CASE tn.kind \in {"function", "parameter", "declaration", "alloc"}
  <2>1. /\ tn.kind = "function" => n = 2 /\ Are({1}, {"identifier"}) /\ Are({2}, {"lambda"})
        /\ tn.kind = "parameter" => n = 2 /\ Are({1}, TypeKinds) /\ Are({2}, {"identifier"})
        /\ tn.kind = "declaration" => n = 2 /\ Are({1}, {"identifier"}) /\ Are({2}, Expressions)
        /\ tn.kind = "alloc" => n = 2 /\ Are({1}, TypeKinds) /\ Are({2}, Expressions)
    BY Zenon DEF WellFormed
  <2>0. n = 2
    BY <1>5, <2>1
  <2>2. i = 1 \/ i = 2
    BY <1>1, <2>0
  <2>3. /\ tn.kind = "function" => (i = 1 /\ k = "identifier") \/ (i = 2 /\ k = "lambda")
        /\ tn.kind = "parameter" => k \in TypeKinds \/ (k = "identifier" /\ i = 2)
        /\ tn.kind = "declaration" => (i = 1 /\ k = "identifier") \/ (i = 2 /\ k \in Expressions)
        /\ tn.kind = "alloc" => (i = 1 /\ k \in TypeKinds) \/ (i = 2 /\ k \in Expressions)
    BY <2>1, <2>2
  <2> QED BY <1>5, <2>3 DEF IsPlaced
<1>6. CASE tn.kind \in {"if", "while"}
  <2>1. /\ tn.kind = "if" => Are({1}, Expressions) /\ Are(2..n, Statements)
        /\ tn.kind = "while" => n = 2 /\ Are({1}, Expressions) /\ Are({2}, Statements)
    BY Zenon DEF WellFormed
  <2>2. Are({1}, Expressions) /\ Are(2..n, Statements)
    <3>1. CASE tn.kind = "while"
      <4>1. n = 2 /\ Are({1}, Expressions) /\ Are({2}, Statements)
        BY <2>1, <3>1
      <4>2. \A j \in 2..n : j = 2
        BY <4>1
      <4> QED BY <4>1, <4>2
    <3> QED BY <1>6, <2>1, <3>1
  <2>3. (i = 1 /\ k \in Expressions) \/ (i > 1 /\ k \in Statements)
    BY <1>1, <2>2
  <2> QED BY <1>6, <2>3 DEF IsPlaced
<1>7. CASE tn.kind = "for"
  <2>1. /\ n = 4 /\ Are({1}, Expressions \cup {"declaration", "nop"}) /\ Are({2}, Expressions)
        /\ Are({3}, Expressions \cup {"nop"}) /\ Are({4}, {"block"})
    BY <1>7, Zenon DEF WellFormed
  <2>2. i = 1 \/ i = 2 \/ i = 3 \/ i = 4
    BY <1>1, <2>1
  <2>3. \/ i = 1 /\ k \in Expressions \cup {"declaration", "nop"}
        \/ i \in {2, 3} /\ k \in Expressions \cup {"nop"}
        \/ i = 4 /\ k = "block"
    BY <2>1, <2>2
  <2> QED BY <1>7, <2>3 DEF IsPlaced
<1>8. CASE tn.kind \in {"array type", "lambda type", "block", "operator", "invocation", "array",
                        "expression", "print", "dealloc", "return"}
  <2>1. /\ tn.kind \in {"array type", "lambda type"} => Are(1..n, TypeKinds)
        /\ tn.kind = "block" => Are(1..n, Statements)
        /\ tn.kind \in {"operator", "invocation", "array", "expression", "print", "dealloc", "return"} =>
             Are(1..n, Expressions)
    BY Zenon DEF WellFormed
  <2>2. /\ tn.kind \in {"array type", "lambda type"} => k \in TypeKinds
        /\ tn.kind = "block" => k \in Statements
        /\ tn.kind \in {"operator", "invocation", "array", "expression", "print", "dealloc", "return"} =>
             k \in Expressions
    BY <2>1
  <2> QED BY <1>8, <2>2 DEF IsPlaced
<1>9. CASE tn.kind \in LeafKinds
  <2>1. tn.children = <<>>
    BY <1>9, Zenon DEF WellFormed
  <2> QED BY <1>1, <2>1
<1>10. tn.kind \in Kinds
  BY Zenon DEF WellFormed
<1> QED BY <1>2, <1>3, <1>4, <1>5, <1>6, <1>7, <1>8, <1>9, <1>10
        DEF Kinds, LeafKinds, TypeKinds, Expressions, Statements

LEMMA ChildNode ==
  ASSUME NEW root \in Program, NEW q \in NodesOf(root), NEW i \in 1..Arity(root, q)
  PROVE  /\ Child(q, i) \in NodesOf(root) /\ Child(q, i) # <<>>
         /\ Parent(Child(q, i)) = q /\ Last(Child(q, i)) = i
         /\ i \in Positive /\ q \in Path /\ Arity(root, q) \in Nat
         /\ IsPlaced(KindIn(root, Child(q, i)), i, KindIn(root, q), Arity(root, q))
<1>1. q \in Path /\ Arity(root, q) \in Nat /\ WellFormed(NodeAt(root, q))
  BY NodesAreWellFormed DEF NodesOf, Arity
<1>2. i \in Positive
  BY <1>1 DEF Positive
<1>3. Child(q, i) \in NodesOf(root) /\ Parent(Child(q, i)) = q /\ Last(Child(q, i)) = i /\ Child(q, i) # <<>>
  BY <1>1, <1>2, NodesAndChildren, ParentOfChild, ChildPath DEF Arity
<1>4. KindIn(root, Child(q, i)) = NodeAt(root, q).children[i].kind
  BY <1>1, <1>2, NodeAtChild DEF KindIn
<1>5. IsPlaced(NodeAt(root, q).children[i].kind, i, NodeAt(root, q).kind, Arity(root, q))
  BY <1>1, ChildrenArePlaced DEF Arity
<1> QED BY <1>1, <1>2, <1>3, <1>4, <1>5 DEF KindIn

LEMMA ParentNode ==
  ASSUME NEW root \in Program, NEW x \in NodesOf(root), x # <<>>
  PROVE  /\ Parent(x) \in NodesOf(root) /\ Last(x) \in 1..Arity(root, Parent(x))
         /\ Child(Parent(x), Last(x)) = x
         /\ Last(x) \in Positive /\ Parent(x) \in Path /\ Arity(root, Parent(x)) \in Nat
         /\ IsPlaced(KindIn(root, x), Last(x), KindIn(root, Parent(x)), Arity(root, Parent(x)))
<1>1. /\ Parent(x) \in NodesOf(root) /\ Last(x) \in 1..Arity(root, Parent(x))
      /\ Child(Parent(x), Last(x)) = x
  BY NodeOfParent DEF Arity
<1> QED BY <1>1, ChildNode

LEMMA UnderTransitive ==
  ASSUME NEW a \in Path, NEW b \in Path, NEW c \in Path, Under(a, b), Under(b, c)
  PROVE  Under(a, c)
<1>1. Len(a) \in Nat /\ Len(b) \in Nat /\ Len(c) \in Nat
  BY LenProperties DEF Path
<1> QED BY <1>1 DEF Under

\* What is above a node is its parent or above that.
LEMMA UnderParent ==
  ASSUME NEW x \in Path, x # <<>>, NEW a \in Path
  PROVE  Under(x, a) <=> a = x \/ Under(Parent(x), a)
<1>1. Parent(x) \in Path /\ Last(x) \in Positive /\ Child(Parent(x), Last(x)) = x
  BY ParentPath
<1> QED BY <1>1, AroundChild

\* What is above a node is a node.
LEMMA AboveNode ==
  ASSUME NEW root, NEW s \in NodesOf(root), NEW x \in Path, Under(s, x)
  PROVE  x \in NodesOf(root)
<1>1. s \in Path /\ Len(s) \in Nat /\ Len(x) \in Nat
  BY LenProperties DEF NodesOf, Path
<1> SUFFICES ASSUME NEW k \in 1..Len(x)
             PROVE  x[k] \in 1..Len(NodeAt(root, SubSeq(x, 1, k - 1)).children)
  BY DEF NodesOf
<1>2. k \in 1..Len(s) /\ x[k] = s[k] /\ k - 1 \in 0..Len(x) /\ k - 1 \in 0..Len(s)
  BY <1>1 DEF Under
<1> DEFINE a == SubSeq(x, 1, k - 1)
           b == SubSeq(s, 1, k - 1)
<1>3. a \in Path /\ Len(a) = k - 1 /\ \A j \in 1..(k - 1) : a[j] = x[j]
  BY <1>2, Beginning
<1>4. b \in Path /\ Len(b) = k - 1 /\ \A j \in 1..(k - 1) : b[j] = s[j]
  BY <1>1, <1>2, Beginning
<1>5. s[k] \in 1..Len(NodeAt(root, b).children)
  BY <1>2 DEF NodesOf
<1> HIDE DEF a, b
<1>6. \A j \in 1..(k - 1) : x[j] = s[j]
  BY <1>1, <1>2 DEF Under
<1>7. a = b
  BY <1>3, <1>4, <1>6, PathsEqual
<1> QED BY <1>2, <1>5, <1>7 DEF a, b

\* On the way from a node of some kinds down to one of another kind there is a child of another
\* kind.
LEMMA WayOut ==
  ASSUME NEW root \in Program, NEW S, NEW x \in Path, NEW s \in NodesOf(root), Under(s, x),
         KindIn(root, x) \in S, KindIn(root, s) \notin S
  PROVE  \E q \in NodesOf(root) : \E i \in 1..Arity(root, q) :
           /\ Under(q, x) /\ Under(s, Child(q, i))
           /\ KindIn(root, q) \in S /\ KindIn(root, Child(q, i)) \notin S
<1> DEFINE Out == {n \in Nat : \E c \in Path : /\ Len(c) = n /\ Under(s, c) /\ Under(c, x)
                                               /\ KindIn(root, c) \notin S}
<1>1. s \in Path /\ Len(s) \in Nat /\ x \in Path
  BY LenProperties DEF NodesOf, Path
<1>2. Len(s) \in Out
  BY <1>1, UnderItself
<1>3. PICK n \in Out : \A m \in Out : n <= m
  <2>1. Out \in SUBSET Nat /\ Out # {}
    BY <1>2
  <2> HIDE DEF Out
  <2> QED BY <2>1, Least
<1>4. PICK c \in Path : Len(c) = n /\ Under(s, c) /\ Under(c, x) /\ KindIn(root, c) \notin S
  OBVIOUS
<1>5. c \in NodesOf(root) /\ c # x
  BY <1>4, AboveNode
<1>6. c # <<>>
  <2>1. Under(c, x) /\ c = <<>> => x = <<>>
    <3>1. Len(<<>>) = 0 /\ Len(x) \in Nat
      BY <1>1, EmptySeq, LenProperties DEF Path
    <3>2. Len(x) <= 0 => x = <<>>
      BY <3>1, EmptySeq DEF Path
    <3> QED BY <3>1, <3>2 DEF Under
  <2> QED BY <1>4, <1>5, <2>1
<1> DEFINE q == Parent(c)
           i == Last(c)
<1>7. q \in NodesOf(root) /\ i \in 1..Arity(root, q) /\ Child(q, i) = c /\ q \in Path
  BY <1>5, <1>6, ParentNode
<1>8. Under(q, x) /\ Len(q) = n - 1 /\ n \in Nat /\ n - 1 \in Nat /\ Under(c, q)
  BY <1>1, <1>4, <1>5, <1>6, <1>7, ParentPath, UnderParent, UnderItself
<1> HIDE DEF q, i
<1>9. Under(s, q)
  BY <1>1, <1>4, <1>7, <1>8, UnderTransitive
<1>10. KindIn(root, q) \in S
  <2>1. n - 1 \notin Out
    BY <1>3, <1>8
  <2> QED BY <1>7, <1>8, <1>9, <2>1
<1> HIDE DEF Out
<1> QED BY <1>4, <1>7, <1>8, <1>10

-----------------------------------------------------------------------------
(* The order of code generation.                                           *)

LEMMA Ranks ==
  ASSUME NEW root \in Program, NEW q \in NodesOf(root), NEW i \in 1..Arity(root, q)
  PROVE  /\ Rank(root, q, i) \in Nat /\ 0 < Rank(root, q, i)
         /\ KindIn(root, q) = "for" => Arity(root, q) = 4 /\ Rank(root, q, i) <= 5
         /\ \A j \in 1..Arity(root, q) : Rank(root, q, i) = Rank(root, q, j) => i = j
<1>1. Arity(root, q) \in Nat /\ WellFormed(NodeAt(root, q))
  BY NodesAreWellFormed DEF Arity
<1>2. KindIn(root, q) = "for" => Arity(root, q) = 4
  BY <1>1, Zenon DEF KindIn, Arity, WellFormed
<1> QED BY <1>1, <1>2 DEF Rank

\* What is generated behind a child is so behind its parent, or is a later child.
LEMMA LaterThanChild ==
  ASSUME NEW root \in Program, NEW q \in NodesOf(root), NEW i \in 1..Arity(root, q), NEW p \in Path
  PROVE  Later(root, Child(q, i), p) <=>
           \/ Later(root, q, p)
           \/ \E k \in 1..Arity(root, q) :
                /\ Under(p, Child(q, k)) /\ IsPart(root, q, k)
                /\ Rank(root, q, i) < Rank(root, q, k)
<1>1. q \in Path /\ i \in Positive /\ Child(q, i) \in Path
  BY ChildNode, ChildPath
<1>2. ASSUME NEW a \in NodesOf(root), NEW k \in 1..Arity(root, a)
      PROVE  Under(Child(q, i), Child(a, k)) <=> (a = q /\ k = i) \/ Under(q, Child(a, k))
  <2>1. a \in Path /\ k \in Positive /\ Child(a, k) \in Path
    BY ChildNode, ChildPath
  <2>2. Child(a, k) = Child(q, i) => a = q /\ k = i
    BY ChildNode
  <2> QED BY <1>1, <2>1, <2>2, AroundChild
<1> QED BY <1>2 DEF Later

\* What is below a node is not generated behind it.
LEMMA NotLaterThanAround ==
  ASSUME NEW root \in Program, NEW x \in Path, NEW p \in Path, Under(p, x)
  PROVE  ~Later(root, x, p)
<1> SUFFICES ASSUME NEW q \in NodesOf(root), NEW i \in 1..Arity(root, q), NEW j \in 1..Arity(root, q),
                    Under(x, Child(q, i)), Under(p, Child(q, j)), i # j
             PROVE  FALSE
  BY Ranks DEF Later
<1>1. q \in Path /\ i \in Positive /\ j \in Positive /\ Child(q, i) \in Path /\ Child(q, j) \in Path
  BY ChildNode, ChildPath
<1>2. Under(p, Child(q, i))
  BY <1>1, UnderTransitive
<1> QED BY <1>1, <1>2, AroundChild

\* What is pending where the generator goes on in q.
LEMMA PendingNext ==
  ASSUME NEW root \in Program, NEW q \in NodesOf(root), NEW r \in Nat, NEW u, IsNext(root, q, r, u),
         NEW p \in Path
  PROVE  Pending(root, u, p) <=>
           \/ Later(root, q, p)
           \/ Under(q, p)
           \/ \E k \in 1..Arity(root, q) :
                Under(p, Child(q, k)) /\ IsPart(root, q, k) /\ r < Rank(root, q, k)
<1> DEFINE Is(k) == Under(p, Child(q, k)) /\ IsPart(root, q, k)
<1>0. q \in Path
  BY DEF NodesOf
<1>1. ASSUME NEW j \in 1..Arity(root, q), IsPart(root, q, j), r < Rank(root, q, j),
             \A k \in 1..Arity(root, q) :
               IsPart(root, q, k) /\ r < Rank(root, q, k) => Rank(root, q, j) <= Rank(root, q, k),
             u = PartOf(root, q, j)
      PROVE  Pending(root, u, p) <=>
               Later(root, q, p) \/ Under(q, p) \/ \E k \in 1..Arity(root, q) : Is(k) /\ r < Rank(root, q, k)
  <2>1. j \in Positive /\ Child(q, j) \in Path
    BY ChildNode, ChildPath
  <2>2. \A k \in 1..Arity(root, q) :
          Is(k) => (r < Rank(root, q, k) <=> k = j \/ Rank(root, q, j) < Rank(root, q, k))
    <3> SUFFICES ASSUME NEW k \in 1..Arity(root, q), IsPart(root, q, k)
                 PROVE  r < Rank(root, q, k) <=> k = j \/ Rank(root, q, j) < Rank(root, q, k)
      OBVIOUS
    <3>1. /\ Rank(root, q, k) \in Nat /\ Rank(root, q, j) \in Nat
          /\ Rank(root, q, k) = Rank(root, q, j) => k = j
      BY Ranks
    <3> QED BY <1>1, <3>1
  <2>3. CASE KindIn(root, q) = "for" /\ j = 3
    <3>1. u = Task(q, "step")
      BY <1>1, <2>3 DEF PartOf
    <3>2. \A k \in 1..Arity(root, q) : ~(Rank(root, q, j) < Rank(root, q, k))
      <4>1. Rank(root, q, j) = 5
        BY <2>3 DEF Rank
      <4> QED BY <2>3, <4>1, Ranks
    <3>3. Pending(root, u, p) <=> Under(p, Child(q, 3)) \/ Later(root, q, p) \/ Under(q, p)
      BY <3>1 DEF Pending, Task
    <3> QED BY <1>1, <2>2, <2>3, <3>2, <3>3
  <2>4. CASE ~(KindIn(root, q) = "for" /\ j = 3)
    <3>1. u = Task(Child(q, j), "open") \/ u = Task(Child(q, j), "generate")
      BY <1>1, <2>4 DEF PartOf
    <3>2. Pending(root, u, p) <=>
            Under(p, Child(q, j)) \/ Later(root, Child(q, j), p) \/ Under(Child(q, j), p)
      BY <3>1 DEF Pending, Task
    <3>3. Under(Child(q, j), p) => Under(q, p) \/ Under(p, Child(q, j))
      BY <1>0, <2>1, AroundChild, UnderItself
    <3>4. Under(q, p) => Under(Child(q, j), p)
      BY <1>0, <2>1, AroundChild
    <3>5. Later(root, Child(q, j), p) <=>
            Later(root, q, p) \/ \E k \in 1..Arity(root, q) : Is(k) /\ Rank(root, q, j) < Rank(root, q, k)
      BY LaterThanChild
    <3> QED BY <1>1, <2>2, <3>2, <3>3, <3>4, <3>5
  <2> QED BY <2>3, <2>4
<1>2. CASE /\ \A k \in 1..Arity(root, q) : IsPart(root, q, k) => Rank(root, q, k) <= r
           /\ u = Task(q, "finish")
  <2>1. Pending(root, u, p) <=> Later(root, q, p) \/ Under(q, p)
    BY <1>2 DEF Pending, Task
  <2>2. \A k \in 1..Arity(root, q) : IsPart(root, q, k) => ~(r < Rank(root, q, k))
    BY <1>2, Ranks
  <2> QED BY <2>1, <2>2
<1> QED BY <1>1, <1>2 DEF IsNext

LEMMA RootNode ==
  ASSUME NEW root \in Program
  PROVE  KindIn(root, <<>>) = "program" /\ <<>> \in NodesOf(root) /\ <<>> \in Path
<1>1. root.kind = "program"
  BY ProgramAssumption
<1>2. <<>> \in Path /\ NodeAt(root, <<>>) = root
  BY NodeAtRoot
<1>3. <<>> \in NodesOf(root)
  BY <1>2, EmptySeq DEF NodesOf
<1> QED BY <1>1, <1>2, <1>3 DEF KindIn

\* Code is generated for no types and parameters.
LEMMA ReachedKinds ==
  ASSUME NEW root \in Program, NEW p \in NodesOf(root), IsReached(root, p)
  PROVE  KindIn(root, p) \notin TypeKinds \cup {"parameter"}
<1>1. CASE p = <<>>
  BY <1>1, RootNode DEF TypeKinds
<1>2. CASE p # <<>>
  <2> DEFINE q == Parent(p)
             i == Last(p)
             n == Arity(root, q)
             k == KindIn(root, p)
             parent == KindIn(root, q)
  <2>1. i \in 1..n /\ n \in Nat /\ IsPlaced(k, i, parent, n)
    BY <1>2, ParentNode
  <2>2. IsPart(root, q, i)
    BY <1>2, UnderItself DEF IsReached, NodesOf
  <2>4. /\ parent \notin TypeKinds \cup {"parameter"}
        /\ parent \in {"declaration", "function", "alloc"} => i = 2
        /\ parent = "lambda" => i = n
    BY <2>2 DEF IsPart
  <2> HIDE DEF q, i, n, k, parent
  <2>5. i \in Nat /\ 1 <= i /\ i <= n
    BY <2>1
  <2>6. k \notin TypeKinds \cup {"parameter"}
    <3>1. CASE parent = "lambda"
      <4>1. k = "block"
        BY <2>1, <2>4, <2>5, <3>1 DEF IsPlaced
      <4> QED BY <4>1 DEF TypeKinds
    <3>2. CASE parent \in {"program", "main", "function", "block", "if", "while", "for"}
      <4>1. \/ k \in Expressions \/ k \in Statements
            \/ k \in {"function", "main", "block", "identifier", "lambda", "declaration", "nop"}
        <5>1. CASE parent = "for"
          BY <2>1, <5>1 DEF IsPlaced, TypeKinds
        <5>2. CASE parent \in {"if", "while", "block"}
          BY <2>1, <5>2 DEF IsPlaced, TypeKinds
        <5>3. CASE parent \in {"program", "main", "function"}
          BY <2>1, <5>3 DEF IsPlaced, TypeKinds
        <5> QED BY <3>2, <5>1, <5>2, <5>3
      <4> QED BY <4>1 DEF TypeKinds, Statements, Expressions
    <3>3. CASE parent \notin {"lambda", "program", "main", "function", "block", "if", "while", "for"}
      <4>1. k \in Expressions
        <5>1. CASE parent \in {"declaration", "alloc"}
          <6>1. i = 2
            BY <2>4, <5>1
          <6>2. (i = 1 /\ (k = "identifier" \/ k \in TypeKinds)) \/ (i = 2 /\ k \in Expressions)
            BY <2>1, <5>1, Zenon DEF IsPlaced
          <6> QED BY <6>1, <6>2
        <5>2. CASE parent \notin {"declaration", "alloc"}
          <6>1. parent \notin {"parameter", "array type", "lambda type"}
            BY <2>4 DEF TypeKinds
          <6> QED BY <2>1, <3>3, <5>2, <6>1 DEF IsPlaced
        <5> QED BY <5>1, <5>2
      <4> QED BY <4>1 DEF TypeKinds, Expressions
    <3> QED BY <3>1, <3>2, <3>3
  <2> QED BY <2>6 DEF k
<1> QED BY <1>1, <1>2

LEMMA ReachedParent ==
  ASSUME NEW root \in Program, NEW p \in NodesOf(root), IsReached(root, p), p # <<>>
  PROVE  IsReached(root, Parent(p)) /\ IsPart(root, Parent(p), Last(p))
<1>1. p \in Path /\ Parent(p) \in Path /\ Under(p, p)
  BY ParentNode, UnderItself DEF NodesOf
<1>2. ASSUME NEW x \in NodesOf(root), Under(Parent(p), x)
      PROVE  Under(p, x)
  BY <1>1, <1>2, UnderParent DEF NodesOf
<1> QED BY <1>1, <1>2 DEF IsReached

LEMMA ReachedChild ==
  ASSUME NEW root \in Program, NEW q \in NodesOf(root), IsReached(root, q),
         NEW j \in 1..Arity(root, q), IsPart(root, q, j)
  PROVE  IsReached(root, Child(q, j))
<1> SUFFICES ASSUME NEW x \in NodesOf(root), Under(Child(q, j), x), x # <<>>
             PROVE  IsPart(root, Parent(x), Last(x))
  BY DEF IsReached
<1>1. j \in Positive /\ q \in Path /\ Parent(Child(q, j)) = q /\ Last(Child(q, j)) = j /\ x \in Path
  BY ChildNode DEF NodesOf
<1>2. x = Child(q, j) \/ Under(q, x)
  BY <1>1, AroundChild
<1> QED BY <1>1, <1>2 DEF IsReached

LEMMA TaskFields ==
  ASSUME NEW p, NEW step
  PROVE  /\ Task(p, step).path = p /\ Task(p, step).step = step
         /\ p \in Path /\ step \in Steps => Task(p, step) \in Tasks
BY DEF Task, Tasks

\* Where the generator goes on in q there is code to generate.
LEMMA NextIsGenerated ==
  ASSUME NEW root \in Program, NEW q \in NodesOf(root), IsReached(root, q), NEW r, NEW u,
         IsNext(root, q, r, u)
  PROVE  IsGenerated(root, u)
<1>0. q \in Path
  BY DEF NodesOf
<1>1. ASSUME NEW j \in 1..Arity(root, q), IsPart(root, q, j), u = PartOf(root, q, j)
      PROVE  IsGenerated(root, u)
  <2>1. Child(q, j) \in NodesOf(root) /\ Child(q, j) # <<>> /\ Child(q, j) \in Path
    BY ChildNode DEF NodesOf
  <2>2. IsReached(root, Child(q, j))
    BY <1>1, ReachedChild
  <2>3. CASE KindIn(root, q) = "for" /\ j = 3
    <3>1. u = Task(q, "step")
      BY <1>1, <2>3 DEF PartOf
    <3> QED BY <1>0, <2>3, <3>1, TaskFields DEF IsGenerated, Steps
  <2>4. CASE ~(KindIn(root, q) = "for" /\ j = 3)
    <3>1. u = Task(Child(q, j), "open") \/ u = Task(Child(q, j), "generate")
      BY <1>1, <2>4 DEF PartOf
    <3> QED BY <2>1, <2>2, <3>1, TaskFields DEF IsGenerated, Steps
  <2> QED BY <2>3, <2>4
<1>2. CASE u = Task(q, "finish")
  BY <1>0, <1>2, TaskFields DEF IsGenerated, Steps
<1> QED BY <1>1, <1>2 DEF IsNext

\* And the generator is inside of what is around q.
LEMMA InsideNext ==
  ASSUME NEW root \in Program, NEW q \in NodesOf(root), NEW r, NEW u, IsNext(root, q, r, u), NEW x \in Path
  PROVE  /\ IsInside(u, x) => Under(q, x)
         /\ Under(q, x) /\ (x # q \/ KindIn(root, q) # "for") => IsInside(u, x)
<1>0. q \in Path
  BY DEF NodesOf
<1>1. ASSUME NEW j \in 1..Arity(root, q), u = PartOf(root, q, j)
      PROVE  /\ IsInside(u, x) => Under(q, x)
             /\ Under(q, x) /\ (x # q \/ KindIn(root, q) # "for") => IsInside(u, x)
  <2>1. j \in Positive /\ Child(q, j) \in Path
    BY ChildNode, ChildPath
  <2>2. /\ Under(Child(q, j), x) <=> x = Child(q, j) \/ Under(q, x)
        /\ ~Under(q, Child(q, j))
    BY <1>0, <2>1, AroundChild
  <2>3. CASE KindIn(root, q) = "for" /\ j = 3
    <3>1. u = Task(q, "step")
      BY <1>1, <2>3 DEF PartOf
    <3> QED BY <2>3, <3>1, TaskFields DEF IsInside
  <2>4. CASE ~(KindIn(root, q) = "for" /\ j = 3)
    <3>1. u = Task(Child(q, j), "open") \/ u = Task(Child(q, j), "generate")
      BY <1>1, <2>4 DEF PartOf
    <3>2. u.path = Child(q, j) /\ u.step # "finish"
      BY <3>1, TaskFields
    <3>3. IsInside(u, x) <=> Under(q, x)
      BY <2>2, <3>2 DEF IsInside
    <3> QED BY <3>3
  <2> QED BY <2>3, <2>4
<1>2. CASE u = Task(q, "finish")
  BY <1>2, TaskFields DEF IsInside
<1> QED BY <1>1, <1>2 DEF IsNext

\* What follows a task: it is a task, at which no more is pending, and as much is around.
LEMMA TaskThatFollows ==
  ASSUME NEW root \in Program, NEW t, IsGenerated(root, t), NEW u, Follows(root, t, u), NEW p \in Path
  PROVE  /\ IsGenerated(root, u)
         /\ Pending(root, u, p) <=>
              IF t.step = "open" THEN Pending(root, t, p)
              ELSE \/ Later(root, t.path, p)
                   \/ Under(IF t.step = "step" THEN t.path ELSE Parent(t.path), p)
         /\ IsInside(u, p) => IsInside(t, p) \/ (p = t.path /\ t.step = "step")
         /\ IsInside(u, p) /\ t.step # "open" => Under(IF t.step = "step" THEN t.path ELSE Parent(t.path), p)
<1>1. /\ t \in Tasks /\ t.path \in NodesOf(root) /\ t.path \in Path /\ t.step \in Steps
      /\ IsReached(root, t.path)
  BY DEF IsGenerated, Tasks
<1>2. CASE t.step = "open"
  <2>1. u = Task(t.path, "generate")
    BY <1>2 DEF Follows
  <2> QED BY <1>1, <1>2, <2>1, TaskFields DEF IsGenerated, Pending, IsInside, Steps
<1>3. CASE t.step = "step"
  <2>1. u = Task(t.path, "finish")
    BY <1>3 DEF Follows
  <2> QED BY <1>1, <1>3, <2>1, TaskFields DEF IsGenerated, Pending, IsInside, Steps
<1>4. CASE t.step \in {"generate", "finish"}
  <2> DEFINE q == Parent(t.path)
             i == Last(t.path)
             r == Rank(root, q, i)
  <2>1. t.path # <<>> /\ IsNext(root, q, r, u)
    BY <1>4 DEF Follows
  <2>2. q \in NodesOf(root) /\ i \in 1..Arity(root, q) /\ Child(q, i) = t.path /\ q \in Path
    BY <1>1, <2>1, ParentNode
  <2>3. IsReached(root, q) /\ r \in Nat
    BY <1>1, <2>1, <2>2, ReachedParent, Ranks
  <2>4. i \in Positive
    BY <2>2, ChildNode
  <2>5. Under(t.path, p) <=> p = t.path \/ Under(q, p)
    BY <2>2, <2>4, AroundChild
  <2>6. ~Under(q, t.path)
    BY <2>2, <2>4, AroundChild
  <2> HIDE DEF q, i, r
  <2>7. IsGenerated(root, u)
    BY <2>1, <2>2, <2>3, NextIsGenerated
  <2>8. IsInside(u, p) => Under(q, p)
    BY <2>1, <2>2, InsideNext
  <2>9. Under(q, p) => IsInside(t, p)
    BY <2>5, <2>6 DEF IsInside
  <2>10. Pending(root, u, p) <=>
           Later(root, q, p) \/ Under(q, p)
             \/ \E k \in 1..Arity(root, q) : Under(p, Child(q, k)) /\ IsPart(root, q, k) /\ r < Rank(root, q, k)
    BY <2>1, <2>2, <2>3, PendingNext
  <2>11. Later(root, t.path, p) <=>
           Later(root, q, p)
             \/ \E k \in 1..Arity(root, q) : Under(p, Child(q, k)) /\ IsPart(root, q, k) /\ r < Rank(root, q, k)
    <3>1. Later(root, Child(q, i), p) <=>
           Later(root, q, p)
             \/ \E k \in 1..Arity(root, q) :
                  Under(p, Child(q, k)) /\ IsPart(root, q, k) /\ Rank(root, q, i) < Rank(root, q, k)
      BY <2>2, LaterThanChild
    <3> QED BY <2>2, <3>1 DEF r
  <2>12. Pending(root, u, p) <=> Later(root, t.path, p) \/ Under(q, p)
    BY <2>10, <2>11
  <2> QED BY <1>4, <2>7, <2>8, <2>9, <2>12 DEF q
<1> QED BY <1>1, <1>2, <1>3, <1>4 DEF Steps

LEMMA SequenceEnds ==
  ASSUME NEW S, NEW s \in Seq(S), s # <<>>
  PROVE  /\ Len(s) \in Nat /\ Len(s) >= 1 /\ s[1] = Head(s) /\ Head(s) \in S /\ s[Len(s)] \in S
         /\ Tail(s) \in Seq(S) /\ Len(Tail(s)) = Len(s) - 1
         /\ \A i \in 1..(Len(s) - 1) : Tail(s)[i] = s[i + 1]
<1>1. Len(s) \in Nat /\ Len(s) >= 1
  BY EmptySeq
<1>2. s[Len(s)] \in S
  BY <1>1, ElementOfSeq
<1> QED BY <1>1, <1>2, HeadTailProperties

\* When the first task is done, the rest is a plan.
LEMMA RestOfPlan ==
  ASSUME NEW root \in Program, NEW w, IsPlan(root, w), Head(w).path # <<>>
  PROVE  IsPlan(root, Tail(w)) /\ Follows(root, Head(w), Head(Tail(w)))
<1> DEFINE n == Len(w)
           v == Tail(w)
<1>1. w \in Seq(Tasks) /\ w # <<>> /\ IsGenerated(root, Head(w)) /\ w[n].path = <<>>
      /\ w[n].step \in {"generate", "finish"}
      /\ \A i \in 1..(n - 1) : Follows(root, w[i], w[i + 1])
  BY DEF IsPlan
<1>2. /\ n \in Nat /\ n >= 1 /\ w[1] = Head(w)
      /\ v \in Seq(Tasks) /\ Len(v) = n - 1 /\ \A i \in 1..(n - 1) : v[i] = w[i + 1]
  BY <1>1, SequenceEnds
<1>3. n # 1
  BY <1>1, <1>2
<1> HIDE DEF v, n
<1>4. v # <<>> /\ v[1] = Head(v)
  <2>1. v # <<>>
    BY <1>2, <1>3, EmptySeq
  <2> QED BY <1>2, <2>1, SequenceEnds
<1>5. v[1] = w[2] /\ Follows(root, w[1], w[2])
  <2>1. 1 \in 1..(n - 1)
    BY <1>2, <1>3
  <2> QED BY <1>1, <1>2, <2>1
<1>6. IsGenerated(root, Head(v))
  <2>1. Follows(root, Head(w), Head(v)) /\ <<>> \in Path
    BY <1>2, <1>4, <1>5, RootNode
  <2> QED BY <1>1, <2>1, TaskThatFollows
<1>7. \A i \in 1..(Len(v) - 1) : Follows(root, v[i], v[i + 1])
  <2> SUFFICES ASSUME NEW i \in 1..(Len(v) - 1) PROVE Follows(root, v[i], v[i + 1])
    OBVIOUS
  <2>1. i \in 1..(n - 1) /\ i + 1 \in 1..(n - 1)
    BY <1>2, <1>3
  <2>2. Follows(root, w[i + 1], w[(i + 1) + 1])
    BY <1>1, <2>1
  <2> QED BY <1>2, <2>1, <2>2
<1>8. v[Len(v)] = w[n]
  <2>1. n - 1 \in 1..(n - 1) /\ (n - 1) + 1 = n
    BY <1>2, <1>3
  <2> QED BY <1>2, <2>1
<1> QED BY <1>1, <1>2, <1>4, <1>5, <1>6, <1>7, <1>8 DEF IsPlan, v

\* The first task is replaced by its parts.
LEMMA PlanWithParts ==
  ASSUME NEW root \in Program, NEW w, IsPlan(root, w), NEW e \in Seq(Tasks), e # <<>>,
         IsGenerated(root, Head(e)),
         \A i \in 1..(Len(e) - 1) : Follows(root, e[i], e[i + 1]),
         \A u : Follows(root, Head(w), u) => Follows(root, e[Len(e)], u),
         Head(w).path = <<>> => e[Len(e)] = Task(<<>>, "finish")
  PROVE  IsPlan(root, e \o Tail(w)) /\ Head(e \o Tail(w)) = Head(e)
<1> DEFINE n == Len(w)
           m == Len(e)
           v == Tail(w)
           x == e \o v
<1>1. w \in Seq(Tasks) /\ w # <<>> /\ w[n].path = <<>> /\ w[n].step \in {"generate", "finish"}
      /\ \A i \in 1..(n - 1) : Follows(root, w[i], w[i + 1])
  BY DEF IsPlan
<1>2. /\ n \in Nat /\ n >= 1 /\ w[1] = Head(w)
      /\ v \in Seq(Tasks) /\ Len(v) = n - 1 /\ \A i \in 1..(n - 1) : v[i] = w[i + 1]
  BY <1>1, SequenceEnds
<1>3. m \in Nat /\ m >= 1 /\ e[1] = Head(e)
  BY SequenceEnds
<1>4. /\ x \in Seq(Tasks) /\ Len(x) = m + (n - 1)
      /\ \A i \in 1..(m + (n - 1)) : x[i] = IF i <= m THEN e[i] ELSE v[i - m]
  BY <1>2, ConcatProperties
<1> HIDE DEF v, x, n, m
<1>5. x # <<>>
  <2>1. Len(x) # 0
    BY <1>2, <1>3, <1>4
  <2> QED BY <2>1, EmptySeq
<1>6. x[1] = Head(x) /\ x[1] = e[1]
  <2>1. x[1] = Head(x)
    BY <1>4, <1>5, SequenceEnds
  <2>2. 1 \in 1..(m + (n - 1)) /\ 1 <= m
    BY <1>2, <1>3
  <2> QED BY <1>4, <2>1, <2>2
<1>7. \A i \in 1..(Len(x) - 1) : Follows(root, x[i], x[i + 1])
  <2> SUFFICES ASSUME NEW i \in 1..((m + (n - 1)) - 1) PROVE Follows(root, x[i], x[i + 1])
    BY <1>4
  <2>1. i \in Nat /\ i >= 1 /\ i \in 1..(m + (n - 1)) /\ i + 1 \in 1..(m + (n - 1))
    BY <1>2, <1>3
  <2>2. CASE i < m
    <3>1. i \in 1..(m - 1) /\ i <= m /\ i + 1 <= m
      BY <1>3, <2>1, <2>2
    <3>2. x[i] = e[i] /\ x[i + 1] = e[i + 1]
      BY <1>4, <2>1, <3>1
    <3>3. Follows(root, e[i], e[i + 1])
      BY <3>1 DEF m
    <3> QED BY <3>2, <3>3
  <2>3. CASE i = m
    <3>1. 1 \in 1..(n - 1) /\ ~(m + 1 <= m) /\ (m + 1) - m = 1
      BY <1>2, <1>3, <2>3
    <3>2. x[i] = e[m] /\ x[i + 1] = w[2]
      BY <1>2, <1>4, <2>1, <2>3, <3>1
    <3>3. Follows(root, w[1], w[2])
      BY <1>1, <3>1
    <3> QED BY <1>2, <2>3, <3>2, <3>3 DEF m
  <2>4. CASE i > m
    <3> DEFINE k == i - m
    <3>1. k \in 1..(n - 1) /\ k + 1 \in 1..(n - 1) /\ ~(i <= m) /\ ~(i + 1 <= m) /\ (i + 1) - m = k + 1
      BY <1>2, <1>3, <2>1, <2>4
    <3>2. x[i] = v[k] /\ x[i + 1] = v[k + 1]
      BY <1>4, <2>1, <3>1
    <3> HIDE DEF k
    <3>3. v[k] = w[k + 1] /\ v[k + 1] = w[(k + 1) + 1] /\ Follows(root, w[k + 1], w[(k + 1) + 1])
      BY <1>1, <1>2, <3>1
    <3> QED BY <3>2, <3>3
  <2> QED BY <1>3, <2>1, <2>2, <2>3, <2>4
<1>8. x[Len(x)].path = <<>> /\ x[Len(x)].step \in {"generate", "finish"}
  <2>1. CASE n = 1
    <3>1. Len(x) = m /\ m \in 1..(m + (n - 1)) /\ m <= m
      BY <1>2, <1>3, <1>4, <2>1
    <3>2. x[Len(x)] = e[m]
      BY <1>4, <3>1
    <3>3. Head(w).path = <<>>
      BY <1>1, <1>2, <2>1
    <3> QED BY <3>2, <3>3, TaskFields DEF m
  <2>2. CASE n > 1
    <3>1. /\ n - 1 \in 1..(n - 1) /\ (n - 1) + 1 = n /\ m + (n - 1) \in 1..(m + (n - 1))
          /\ ~(m + (n - 1) <= m) /\ (m + (n - 1)) - m = n - 1
      BY <1>2, <1>3, <2>2
    <3>2. x[Len(x)] = v[n - 1] /\ v[n - 1] = w[n]
      BY <1>2, <1>4, <3>1
    <3> QED BY <1>1, <3>2
  <2> QED BY <1>2, <2>1, <2>2
<1> QED BY <1>3, <1>4, <1>5, <1>6, <1>7, <1>8 DEF IsPlan, x, v

LEMMA ChildrenInTurn ==
  ASSUME NEW root \in Program, NEW q \in NodesOf(root), NEW e \in Seq(Tasks), NEW m, NEW o,
         InTurn(root, q, e, m, o)
  PROVE  IsExpansion(root, q, e)
<1> USE DEF InTurn
<1> DEFINE R(k) == Rank(root, q, k)
<1>1. \A k \in 1..Arity(root, q) : R(k) \in Nat /\ 0 < R(k)
  BY Ranks
<1>2. e # <<>> /\ e[1] = Head(e)
  <2>1. e # <<>>
    BY EmptySeq
  <2> QED BY <2>1, SequenceEnds
<1>3. ASSUME NEW i \in 0..m, NEW r \in Nat, i = 0 => r = 0, i # 0 => r = R(o[i])
      PROVE  IsNext(root, q, r, e[i + 1])
  <2>1. CASE i < m
    <3> DEFINE j == o[i + 1]
    <3>1. i + 1 \in 1..m
      BY <2>1
    <3>2. j \in 1..Arity(root, q) /\ IsPart(root, q, j) /\ e[i + 1] = PartOf(root, q, j)
      BY <3>1
    <3>3. r < R(j)
      <4>1. CASE i = 0
        BY <1>1, <1>3, <3>2, <4>1
      <4>2. CASE i # 0
        <5>1. i \in 1..m /\ i < i + 1
          BY <4>2
        <5> QED BY <1>3, <3>1, <4>2, <5>1
      <4> QED BY <4>1, <4>2
    <3>4. ASSUME NEW k \in 1..Arity(root, q), IsPart(root, q, k), r < R(k)
          PROVE  R(j) <= R(k)
      <4>1. PICK l \in 1..m : k = o[l]
        BY <3>4
      <4>2. CASE l <= i
        <5>1. i # 0 /\ i \in 1..m
          BY <4>2
        <5>2. r = R(o[i]) /\ (l < i => R(o[l]) < R(o[i])) /\ R(o[i]) \in Nat /\ R(k) \in Nat
          BY <1>1, <1>3, <5>1
        <5>3. l < i \/ l = i
          BY <4>2
        <5> QED BY <3>4, <4>1, <5>2, <5>3
      <4>3. CASE l > i
        <5>1. l = i + 1 \/ i + 1 < l
          BY <4>3
        <5>2. R(j) \in Nat /\ R(k) \in Nat
          BY <1>1, <3>2
        <5> QED BY <3>1, <4>1, <5>1, <5>2
      <4> QED BY <4>2, <4>3
    <3> QED BY <3>2, <3>3, <3>4 DEF IsNext
  <2>2. CASE i = m
    <3>1. ASSUME NEW k \in 1..Arity(root, q), IsPart(root, q, k)
          PROVE  R(k) <= r
      <4>1. PICK l \in 1..m : k = o[l]
        BY <3>1
      <4>2. m \in 1..m /\ (l < m \/ l = m) /\ r = R(o[m]) /\ R(k) \in Nat /\ R(o[m]) \in Nat
        BY <1>1, <1>3, <2>2
      <4> QED BY <4>1, <4>2
    <3> QED BY <2>2, <3>1 DEF IsNext
  <2> QED BY <2>1, <2>2
<1>4. IsNext(root, q, 0, Head(e))
  <2>1. 0 \in 0..m /\ 0 \in Nat /\ 0 + 1 = 1
    OBVIOUS
  <2>2. IsNext(root, q, 0, e[0 + 1])
    BY <1>3, <2>1
  <2> QED BY <1>2, <2>1, <2>2
<1>5. ASSUME NEW i \in 1..(Len(e) - 1)
      PROVE  Follows(root, e[i], e[i + 1])
  <2>1. i \in 1..m /\ i \in 0..m /\ i # 0
    OBVIOUS
  <2>2. o[i] \in 1..Arity(root, q) /\ e[i] = Task(Child(q, o[i]), "generate")
    BY <2>1
  <2>3. R(o[i]) \in Nat
    BY <1>1, <2>2
  <2>4. IsNext(root, q, R(o[i]), e[i + 1])
    BY <1>3, <2>1, <2>3
  <2>5. Parent(Child(q, o[i])) = q /\ Last(Child(q, o[i])) = o[i] /\ Child(q, o[i]) # <<>>
    BY <2>2, ChildNode
  <2>6. e[i].path = Child(q, o[i]) /\ e[i].step = "generate"
    BY <2>2, TaskFields
  <2> QED BY <2>4, <2>5, <2>6 DEF Follows
<1> QED BY <1>2, <1>4, <1>5 DEF IsExpansion

\* The children of a node, and tasks for them.
LEMMA ChildrenOf ==
  ASSUME WalkInv, NEW q \in NodesOf(tree)
  PROVE  /\ Kind(q) = KindIn(tree, q) /\ tree \in Program /\ q \in Path
         /\ Children(q) \in Seq(NodesOf(tree)) /\ Len(Children(q)) = Arity(tree, q)
         /\ Arity(tree, q) \in Nat
         /\ \A i \in 1..Arity(tree, q) :
              /\ Children(q)[i] = Child(q, i) /\ Child(q, i) \in NodesOf(tree)
              /\ Task(Child(q, i), "generate") \in Tasks /\ Task(Child(q, i), "open") \in Tasks
         /\ Task(q, "step") \in Tasks /\ Task(q, "finish") \in Tasks
<1>1. tree \in Program /\ q \in Path
  BY DEF WalkInv, NodesOf
<1> DEFINE n == Arity(tree, q)
           c == Children(q)
<1>2. n \in Nat
  BY <1>1, NodesAreWellFormed DEF Arity
<1>3. \A i \in 1..n : Child(q, i) \in NodesOf(tree) /\ Child(q, i) \in Path
  BY <1>1, ChildNode DEF NodesOf
<1>4. c = [i \in 1..n |-> Child(q, i)]
  BY DEF Children, Arity
<1> HIDE DEF c, n
<1>5. c \in Seq(NodesOf(tree)) /\ Len(c) = n /\ \A i \in 1..n : c[i] = Child(q, i)
  BY <1>2, <1>3, <1>4, SeqDef
<1> QED BY <1>1, <1>2, <1>3, <1>5, TaskFields DEF c, n, Kind, KindIn, Steps

LEMMA GenerateTasks ==
  ASSUME NEW S, NEW ps \in Seq(S), \A p \in S : Task(p, "generate") \in Tasks
  PROVE  /\ Generate(ps) \in Seq(Tasks) /\ Len(Generate(ps)) = Len(ps)
         /\ \A i \in 1..Len(ps) : Generate(ps)[i] = Task(ps[i], "generate")
<1>1. Len(ps) \in Nat /\ \A i \in 1..Len(ps) : ps[i] \in S
  BY LenProperties, ElementOfSeq
<1> DEFINE n == Len(ps)
<1>2. Generate(ps) = [i \in 1..n |-> Task(ps[i], "generate")]
  BY DEF Generate
<1> HIDE DEF n
<1>3. Generate(ps) \in Seq(Tasks) /\ Len(Generate(ps)) = n /\ \A i \in 1..n : Generate(ps)[i] = Task(ps[i], "generate")
  BY <1>1, <1>2, SeqDef DEF n
<1> QED BY <1>3 DEF n

\* The parts of a node, by its kind.
LEMMA PartsByKind ==
  ASSUME NEW q
  PROVE  LET c == Children(q)
         IN  /\ Kind(q) = "invocation" => Parts(q) = Generate(Tail(c)) \o Generate(<<Head(c)>>)
             /\ Kind(q) \in {"declaration", "function", "alloc"} => Parts(q) = Generate(<<c[2]>>)
             /\ Kind(q) = "lambda" => Parts(q) = Generate(<<Last(c)>>)
             /\ Kind(q) = "for" =>
                  Parts(q) = Generate(<<c[1], c[2]>>) \o Branch(c[4]) \o <<Task(q, "step")>>
             /\ Kind(q) = "while" => Parts(q) = Generate(<<c[1]>>) \o Branch(c[2])
             /\ Kind(q) = "if" =>
                  Parts(q) = Generate(<<c[1]>>) \o Branch(c[2])
                               \o (IF Len(c) = 3 THEN Branch(c[3]) ELSE <<>>)
             /\ Kind(q) \notin {"invocation", "declaration", "function", "alloc", "lambda", "for", "while", "if"} =>
                  Parts(q) = Generate(c)
<1> DEFINE c == Children(q)
           k == Kind(q)
           a1 == Generate(Tail(c)) \o Generate(<<Head(c)>>)
           a2 == Generate(<<c[2]>>)
           a3 == Generate(<<Last(c)>>)
           a4 == Generate(<<c[1], c[2]>>) \o Branch(c[4]) \o <<Task(q, "step")>>
           a5 == Generate(<<c[1]>>) \o Branch(c[2])
           a6 == Generate(<<c[1]>>) \o Branch(c[2]) \o (IF Len(c) = 3 THEN Branch(c[3]) ELSE <<>>)
           a7 == Generate(c)
<1>1. Parts(q) =
        CASE k = "invocation" -> a1
          [] k \in {"declaration", "function", "alloc"} -> a2
          [] k = "lambda" -> a3
          [] k = "for" -> a4
          [] k = "while" -> a5
          [] k = "if" -> a6
          [] OTHER -> a7
  BY DEF Parts
<1> HIDE DEF c, k, a1, a2, a3, a4, a5, a6, a7
<1>2. /\ k = "invocation" => Parts(q) = a1
      /\ k \in {"declaration", "function", "alloc"} => Parts(q) = a2
      /\ k = "lambda" => Parts(q) = a3
      /\ k = "for" => Parts(q) = a4
      /\ k = "while" => Parts(q) = a5
      /\ k = "if" => Parts(q) = a6
      /\ k \notin {"invocation", "declaration", "function", "alloc", "lambda", "for", "while", "if"} =>
           Parts(q) = a7
  BY <1>1
<1> QED BY <1>2 DEF c, k, a1, a2, a3, a4, a5, a6, a7

LEMMA Joined ==
  ASSUME NEW S, NEW s \in Seq(S), NEW t \in Seq(S)
  PROVE  /\ s \o t \in Seq(S) /\ Len(s \o t) = Len(s) + Len(t) /\ Len(s) \in Nat /\ Len(t) \in Nat
         /\ \A i \in 1..Len(s) : (s \o t)[i] = s[i]
         /\ \A i \in 1..Len(t) : (s \o t)[Len(s) + i] = t[i]
<1> DEFINE m == Len(s)
           n == Len(t)
           x == s \o t
<1>1. m \in Nat /\ n \in Nat
  BY LenProperties
<1>2. /\ x \in Seq(S) /\ Len(x) = m + n
      /\ \A i \in 1..(m + n) : x[i] = IF i <= m THEN s[i] ELSE t[i - m]
  BY ConcatProperties
<1> HIDE DEF x, m, n
<1>3. \A i \in 1..m : x[i] = s[i]
  BY <1>1, <1>2
<1>4. ASSUME NEW i \in 1..n PROVE x[m + i] = t[i]
  <2>1. m + i \in 1..(m + n) /\ ~(m + i <= m) /\ (m + i) - m = i
    BY <1>1
  <2> QED BY <1>2, <2>1
<1> QED BY <1>1, <1>2, <1>3, <1>4 DEF x, m, n

LEMMA FollowsChild ==
  ASSUME NEW root \in Program, NEW q \in NodesOf(root), NEW i \in 1..Arity(root, q),
         NEW step \in {"generate", "finish"}, NEW u, IsNext(root, q, Rank(root, q, i), u)
  PROVE  Follows(root, Task(Child(q, i), step), u)
<1>1. Parent(Child(q, i)) = q /\ Last(Child(q, i)) = i /\ Child(q, i) # <<>>
  BY ChildNode
<1> QED BY <1>1, TaskFields DEF Follows

\* Children with one task each.
LEMMA ExpansionInTurn ==
  ASSUME WalkInv, NEW q \in NodesOf(tree), IsReached(tree, q),
         Kind(q) \notin {"for", "while", "if"}
  PROVE  IsExpansion(tree, q, Parts(q) \o <<Task(q, "finish")>>)
<1> DEFINE n == Arity(tree, q)
           c == Children(q)
           parts == Parts(q)
           end == <<Task(q, "finish")>>
           e == parts \o end
           k == KindIn(tree, q)
<1>1. /\ Kind(q) = k /\ tree \in Program
      /\ c \in Seq(NodesOf(tree)) /\ Len(c) = n /\ n \in Nat
      /\ \A i \in 1..n : c[i] = Child(q, i) /\ Child(q, i) \in NodesOf(tree)
      /\ Task(q, "finish") \in Tasks
  BY ChildrenOf
<1>2. \A p \in NodesOf(tree) : Task(p, "generate") \in Tasks
  BY TaskFields DEF NodesOf, Steps
<1>3. k \notin TypeKinds \cup {"parameter"}
  BY <1>1, ReachedKinds
<1>4. end \in Seq(Tasks) /\ Len(end) = 1 /\ end[1] = Task(q, "finish")
  BY <1>1
<1>5. ASSUME NEW i \in 1..n
      PROVE  /\ PartOf(tree, q, i) = Task(Child(q, i), "generate")
             /\ Rank(tree, q, i) = IF k = "invocation" /\ i = 1 THEN n + 1 ELSE i
  BY <1>1 DEF PartOf, Rank
<1>6. ASSUME NEW m \in Nat, parts \in Seq(Tasks), Len(parts) = m, NEW o \in [1..m -> 1..n],
             \A i \in 1..m : IsPart(tree, q, o[i]) /\ parts[i] = Task(Child(q, o[i]), "generate"),
             \A j \in 1..n : IsPart(tree, q, j) => \E i \in 1..m : j = o[i],
             \A i, j \in 1..m : i < j => Rank(tree, q, o[i]) < Rank(tree, q, o[j])
      PROVE  IsExpansion(tree, q, e)
  <2> HIDE DEF parts, end, n
  <2>0. parts \in Seq(Tasks) /\ end \in Seq(Tasks) /\ m = Len(parts) /\ 1 = Len(end)
    BY <1>4, <1>6
  <2>1. /\ e \in Seq(Tasks) /\ Len(e) = m + 1
        /\ \A i \in 1..m : e[i] = parts[i]
        /\ \A i \in 1..1 : e[m + i] = end[i]
    BY <2>0, Joined
  <2> HIDE DEF e
  <2>2. e[m + 1] = Task(q, "finish")
    BY <1>4, <2>1
  <2>3. \A i \in 1..m : /\ IsPart(tree, q, o[i])
                       /\ e[i] = Task(Child(q, o[i]), "generate")
                       /\ e[i] = PartOf(tree, q, o[i])
    BY <1>5, <1>6, <2>1
  <2>4. o \in [1..m -> 1..Arity(tree, q)]
    BY <1>6 DEF n
  <2>5. \A j \in 1..Arity(tree, q) : IsPart(tree, q, j) => \E i \in 1..m : j = o[i]
    BY <1>6 DEF n
  <2>6. InTurn(tree, q, e, m, o)
    BY <1>6, <2>1, <2>2, <2>3, <2>4, <2>5 DEF InTurn
  <2> QED BY <1>1, <2>1, <2>6, ChildrenInTurn
<1>7. ASSUME k \in {"declaration", "function", "alloc", "lambda"} PROVE IsExpansion(tree, q, e)
  <2>1. n >= 1 /\ (k # "lambda" => n = 2)
    <3>1. WellFormed(NodeAt(tree, q))
      BY <1>1, NodesAreWellFormed
    <3>2. n = 2 \/ (k = "lambda" /\ n >= 2)
      BY <1>7, <3>1, Zenon DEF WellFormed, KindIn, Arity
    <3> HIDE DEF n
    <3> QED BY <1>1, <3>2
  <2> DEFINE only == <<Child(q, n)>>
  <2>2. n \in 1..n /\ c[n] = Child(q, n) /\ Last(c) = Child(q, n) /\ Child(q, n) \in NodesOf(tree)
    <3>1. n \in 1..n
      BY <1>1, <2>1
    <3> HIDE DEF n
    <3> QED BY <1>1, <3>1 DEF Last
  <2>3. parts = Generate(only)
    <3>1. CASE k = "lambda"
      BY <1>1, <2>2, <3>1, PartsByKind
    <3>2. CASE k # "lambda"
      <4>1. parts = Generate(<<c[2]>>)
        BY <1>1, <1>7, <3>2, PartsByKind
      <4> QED BY <2>1, <2>2, <3>2, <4>1
    <3> QED BY <3>1, <3>2
  <2>4. only \in Seq(NodesOf(tree)) /\ Len(only) = 1 /\ only[1] = Child(q, n)
    BY <2>2
  <2>5. /\ parts \in Seq(Tasks) /\ Len(parts) = 1
        /\ \A i \in 1..1 : parts[i] = Task(only[i], "generate")
    <3> HIDE DEF only, parts
    <3> QED BY <1>2, <2>3, <2>4, GenerateTasks
  <2> DEFINE o == [i \in 1..1 |-> n]
  <2>6. o \in [1..1 -> 1..n] /\ \A i \in 1..1 : o[i] = n
    BY <2>2
  <2>7. \A j \in 1..n : IsPart(tree, q, j) <=> j = n
    <3>1. \A j \in 1..n : IsPart(tree, q, j) => j = n
      BY <1>7, <2>1 DEF IsPart
    <3>2. IsPart(tree, q, n)
      BY <1>3, <1>7, <2>1, <2>2 DEF IsPart
    <3> QED BY <3>1, <3>2
  <2> HIDE DEF o, n, parts, only, e
  <2>8. \A i \in 1..1 : IsPart(tree, q, o[i]) /\ parts[i] = Task(Child(q, o[i]), "generate")
    <3>1. \A i \in 1..1 : i = 1
      OBVIOUS
    <3> QED BY <2>2, <2>4, <2>5, <2>6, <2>7, <3>1
  <2>9. \A i, j \in 1..1 : i < j => Rank(tree, q, o[i]) < Rank(tree, q, o[j])
    OBVIOUS
  <2>10. \A j \in 1..n : IsPart(tree, q, j) => \E i \in 1..1 : j = o[i]
    BY <2>6, <2>7
  <2> QED BY <1>6, <2>5, <2>6, <2>8, <2>9, <2>10
<1>8. ASSUME k \notin {"declaration", "function", "alloc", "lambda", "invocation"} PROVE IsExpansion(tree, q, e)
  <2>1. parts = Generate(c)
    BY <1>1, <1>8, PartsByKind
  <2>2. parts \in Seq(Tasks) /\ Len(parts) = n /\ \A i \in 1..n : parts[i] = Task(c[i], "generate")
    <3> HIDE DEF c, parts
    <3> QED BY <1>1, <1>2, <2>1, GenerateTasks
  <2> DEFINE o == [i \in 1..n |-> i]
  <2>3. o \in [1..n -> 1..n] /\ \A i \in 1..n : o[i] = i
    OBVIOUS
  <2>4. \A i \in 1..n : IsPart(tree, q, i)
    BY <1>3, <1>8 DEF IsPart
  <2>5. \A i \in 1..n : Rank(tree, q, i) = i
    BY <1>5, <1>8
  <2> HIDE DEF o, n, parts, c, e
  <2>6. \A i \in 1..n : IsPart(tree, q, o[i]) /\ parts[i] = Task(Child(q, o[i]), "generate")
    BY <1>1, <2>2, <2>3, <2>4
  <2>7. \A j \in 1..n : IsPart(tree, q, j) => \E i \in 1..n : j = o[i]
    BY <2>3
  <2>8. \A i, j \in 1..n : i < j => Rank(tree, q, o[i]) < Rank(tree, q, o[j])
    BY <2>3, <2>5
  <2> QED BY <1>1, <1>6, <2>2, <2>3, <2>6, <2>7, <2>8
<1>9. ASSUME k = "invocation" PROVE IsExpansion(tree, q, e)
  <2>1. n >= 1
    <3>1. WellFormed(NodeAt(tree, q))
      BY <1>1, NodesAreWellFormed
    <3> QED BY <1>9, <3>1, Zenon DEF WellFormed, KindIn, Arity
  <2>2. c # <<>> /\ Head(c) = Child(q, 1) /\ Tail(c) \in Seq(NodesOf(tree)) /\ Len(Tail(c)) = n - 1
        /\ \A i \in 1..(n - 1) : Tail(c)[i] = Child(q, i + 1)
    <3> HIDE DEF c, n
    <3>1. c # <<>>
      BY <1>1, <2>1, EmptySeq
    <3>2. /\ c[1] = Head(c) /\ Tail(c) \in Seq(NodesOf(tree)) /\ Len(Tail(c)) = n - 1
          /\ \A i \in 1..(n - 1) : Tail(c)[i] = c[i + 1]
      BY <1>1, <3>1, SequenceEnds
    <3> QED BY <1>1, <2>1, <3>1, <3>2
  <2> DEFINE callee == <<Head(c)>>
             g == Generate(Tail(c))
             h == Generate(callee)
  <2>3. parts = g \o h
    BY <1>1, <1>9, PartsByKind
  <2>4. callee \in Seq(NodesOf(tree)) /\ Len(callee) = 1 /\ callee[1] = Child(q, 1)
    <3>1. Child(q, 1) \in NodesOf(tree)
      BY <1>1, <2>1
    <3> QED BY <2>2, <3>1
  <2>5. /\ g \in Seq(Tasks) /\ Len(g) = n - 1
        /\ \A i \in 1..(n - 1) : g[i] = Task(Child(q, i + 1), "generate")
    <3> DEFINE t == Tail(c)
    <3> HIDE DEF t, n
    <3>1. /\ Generate(t) \in Seq(Tasks) /\ Len(Generate(t)) = Len(t)
          /\ \A i \in 1..Len(t) : Generate(t)[i] = Task(t[i], "generate")
      BY <1>2, <2>2, GenerateTasks DEF t
    <3> QED BY <2>2, <3>1 DEF t
  <2>6. h \in Seq(Tasks) /\ Len(h) = 1 /\ h[1] = Task(Child(q, 1), "generate")
    <3> HIDE DEF callee
    <3>1. Len(h) = 1 /\ h \in Seq(Tasks) /\ \A i \in 1..1 : h[i] = Task(callee[i], "generate")
      BY <1>2, <2>4, GenerateTasks
    <3> QED BY <2>4, <3>1
  <2> HIDE DEF g, h, parts, n, callee, e
  <2>7. /\ parts \in Seq(Tasks) /\ Len(parts) = n
        /\ \A i \in 1..(n - 1) : parts[i] = g[i]
        /\ parts[n] = h[1]
    <3>0. g \in Seq(Tasks) /\ h \in Seq(Tasks) /\ n - 1 = Len(g) /\ Len(h) = 1
      BY <2>5, <2>6
    <3> DEFINE y == g \o h
    <3>1. /\ y \in Seq(Tasks) /\ Len(y) = Len(g) + Len(h)
          /\ \A i \in 1..Len(g) : y[i] = g[i]
          /\ \A i \in 1..Len(h) : y[Len(g) + i] = h[i]
      <4>1. g \in Seq(Tasks) /\ h \in Seq(Tasks)
        BY <3>0
      <4> QED BY <4>1, Joined
    <3> HIDE DEF y
    <3>2. Len(g) + 1 = n /\ 1 \in 1..Len(h) /\ Len(y) = n
      <4>1. n \in Nat
        BY <1>1
      <4>2. Len(g) + 1 = n
        BY <3>0, <4>1
      <4>3. Len(h) = 1 /\ 1 \in 1..1
        BY <2>6
      <4>4. Len(y) = n
        BY <3>0, <3>1, <4>2
      <4> QED BY <4>2, <4>3, <4>4
    <3>3. y[n] = h[1] /\ \A i \in 1..(n - 1) : y[i] = g[i]
      <4>1. y[Len(g) + 1] = h[1] /\ \A i \in 1..Len(g) : y[i] = g[i]
        BY <3>1, <3>2
      <4> QED BY <3>0, <3>2, <4>1
    <3>4. parts = y
      BY <2>3 DEF y
    <3> QED BY <3>1, <3>2, <3>3, <3>4
  <2> DEFINE o == [i \in 1..n |-> IF i = n THEN 1 ELSE i + 1]
  <2>8. o \in [1..n -> 1..n] /\ \A i \in 1..n : o[i] = IF i = n THEN 1 ELSE i + 1
    BY <1>1, <2>1
  <2> HIDE DEF o
  <2>9. \A i \in 1..n : IsPart(tree, q, i)
    BY <1>3, <1>9 DEF IsPart, n
  <2>10. \A i \in 1..n : IsPart(tree, q, o[i]) /\ parts[i] = Task(Child(q, o[i]), "generate")
    BY <1>1, <2>5, <2>6, <2>7, <2>8, <2>9
  <2>11. \A j \in 1..n : IsPart(tree, q, j) => \E i \in 1..n : j = o[i]
    <3> SUFFICES ASSUME NEW j \in 1..n PROVE \E i \in 1..n : j = o[i]
      OBVIOUS
    <3>1. CASE j = 1
      <4>1. n \in 1..n /\ o[n] = 1
        BY <1>1, <2>1, <2>8
      <4> QED BY <3>1, <4>1
    <3>2. CASE j # 1
      <4>1. j - 1 \in 1..n /\ j - 1 # n /\ (j - 1) + 1 = j
        BY <1>1, <3>2
      <4>2. o[j - 1] = j
        BY <2>8, <4>1
      <4> QED BY <4>1, <4>2
    <3> QED BY <3>1, <3>2
  <2>12. \A i \in 1..n : Rank(tree, q, o[i]) = i + 1
    BY <1>1, <1>5, <1>9, <2>1, <2>8
  <2>13. \A i, j \in 1..n : i < j => Rank(tree, q, o[i]) < Rank(tree, q, o[j])
    BY <2>12
  <2> QED BY <1>1, <1>6, <2>7, <2>8, <2>10, <2>11, <2>13
<1> QED BY <1>7, <1>8, <1>9

LEMMA OneMore ==
  ASSUME NEW S, NEW s \in Seq(S), NEW a \in S
  PROVE  /\ s \o <<a>> \in Seq(S) /\ Len(s \o <<a>>) = Len(s) + 1
         /\ \A i \in 1..Len(s) : (s \o <<a>>)[i] = s[i]
         /\ (s \o <<a>>)[Len(s) + 1] = a
<1> DEFINE t == <<a>>
<1>1. t \in Seq(S) /\ Len(t) = 1 /\ t[1] = a
  OBVIOUS
<1> HIDE DEF t
<1> DEFINE x == s \o t
<1>2. /\ x \in Seq(S) /\ Len(x) = Len(s) + Len(t)
      /\ \A i \in 1..Len(s) : x[i] = s[i]
      /\ \A i \in 1..Len(t) : x[Len(s) + i] = t[i]
  <2>1. t \in Seq(S)
    BY <1>1
  <2> QED BY ONLY <2>1, s \in Seq(S), Joined
<1> HIDE DEF x
<1>3. 1 \in 1..Len(t)
  BY <1>1
<1>4. Len(x) = Len(s) + 1 /\ (\A i \in 1..Len(s) : x[i] = s[i]) /\ x[Len(s) + 1] = a
  <2>1. Len(x) = Len(s) + 1
    BY <1>1, <1>2
  <2>2. \A i \in 1..Len(s) : x[i] = s[i]
    BY <1>2
  <2>3. x[Len(s) + 1] = t[1]
    BY <1>2, <1>3
  <2> QED BY <1>1, <2>1, <2>2, <2>3
<1> QED BY <1>2, <1>4 DEF x, t

LEMMA TwoMore ==
  ASSUME NEW S, NEW s \in Seq(S), NEW a \in S, NEW b \in S
  PROVE  /\ s \o <<a, b>> \in Seq(S) /\ Len(s \o <<a, b>>) = Len(s) + 2
         /\ \A i \in 1..Len(s) : (s \o <<a, b>>)[i] = s[i]
         /\ (s \o <<a, b>>)[Len(s) + 1] = a /\ (s \o <<a, b>>)[Len(s) + 2] = b
<1> DEFINE t == <<a, b>>
<1>1. t \in Seq(S) /\ Len(t) = 2 /\ t[1] = a /\ t[2] = b
  OBVIOUS
<1> HIDE DEF t
<1> DEFINE x == s \o t
<1>2. /\ x \in Seq(S) /\ Len(x) = Len(s) + Len(t)
      /\ \A i \in 1..Len(s) : x[i] = s[i]
      /\ \A i \in 1..Len(t) : x[Len(s) + i] = t[i]
  <2>1. t \in Seq(S)
    BY <1>1
  <2> QED BY ONLY <2>1, s \in Seq(S), Joined
<1> HIDE DEF x
<1>3. 1 \in 1..Len(t) /\ 2 \in 1..Len(t)
  BY <1>1
<1>4. Len(x) = Len(s) + 2 /\ (\A i \in 1..Len(s) : x[i] = s[i]) /\ x[Len(s) + 1] = a /\ x[Len(s) + 2] = b
  <2>1. Len(x) = Len(s) + 2
    BY <1>1, <1>2
  <2>2. \A i \in 1..Len(s) : x[i] = s[i]
    BY <1>2
  <2>3. x[Len(s) + 1] = t[1] /\ x[Len(s) + 2] = t[2]
    BY <1>2, <1>3
  <2> QED BY <1>1, <2>1, <2>2, <2>3
<1> QED BY <1>2, <1>4 DEF x, t

LEMMA NextPart ==
  ASSUME NEW root \in Program, NEW q \in NodesOf(root), NEW r \in Nat, NEW j \in 1..Arity(root, q),
         IsPart(root, q, j), r < Rank(root, q, j),
         \A k \in 1..Arity(root, q) : Rank(root, q, k) <= r \/ Rank(root, q, j) <= Rank(root, q, k)
  PROVE  IsNext(root, q, r, PartOf(root, q, j))
<1>1. \A k \in 1..Arity(root, q) : Rank(root, q, k) \in Nat
  BY Ranks
<1>2. ASSUME NEW k \in 1..Arity(root, q), r < Rank(root, q, k)
      PROVE  Rank(root, q, j) <= Rank(root, q, k)
  <2>1. Rank(root, q, k) \in Nat
    BY <1>1
  <2> QED BY <1>2, <2>1
<1> QED BY <1>2 DEF IsNext

LEMMA ChildThenPart ==
  ASSUME NEW root \in Program, NEW q \in NodesOf(root), NEW i \in 1..Arity(root, q),
         NEW j \in 1..Arity(root, q), IsPart(root, q, j), Rank(root, q, i) < Rank(root, q, j),
         \A k \in 1..Arity(root, q) :
           Rank(root, q, k) <= Rank(root, q, i) \/ Rank(root, q, j) <= Rank(root, q, k)
  PROVE  Follows(root, Task(Child(q, i), "generate"), PartOf(root, q, j))
<1>1. Rank(root, q, i) \in Nat
  BY Ranks
<1>2. IsNext(root, q, Rank(root, q, i), PartOf(root, q, j))
  BY <1>1, NextPart
<1> QED BY <1>2, FollowsChild

LEMMA ChildThenFinish ==
  ASSUME NEW root \in Program, NEW q \in NodesOf(root), NEW i \in 1..Arity(root, q),
         \A k \in 1..Arity(root, q) : Rank(root, q, k) <= Rank(root, q, i)
  PROVE  Follows(root, Task(Child(q, i), "generate"), Task(q, "finish"))
<1>1. IsNext(root, q, Rank(root, q, i), Task(q, "finish"))
  BY DEF IsNext
<1> QED BY <1>1, FollowsChild

LEMMA FollowsOwn ==
  ASSUME NEW root, NEW p
  PROVE  /\ Follows(root, Task(p, "open"), Task(p, "generate"))
         /\ Follows(root, Task(p, "step"), Task(p, "finish"))
BY TaskFields DEF Follows

\* The statements with branches.
LEMMA ExpansionOfBranches ==
  ASSUME WalkInv, NEW q \in NodesOf(tree), IsReached(tree, q), Kind(q) \in {"for", "while", "if"}
  PROVE  IsExpansion(tree, q, Parts(q) \o <<Task(q, "finish")>>)
<1> DEFINE n == Arity(tree, q)
           c == Children(q)
           k == KindIn(tree, q)
           G(i) == Task(Child(q, i), "generate")
           O(i) == Task(Child(q, i), "open")
           end == Task(q, "finish")
           step == Task(q, "step")
           e == Parts(q) \o <<end>>
<1>1. /\ Kind(q) = k /\ tree \in Program
      /\ c \in Seq(NodesOf(tree)) /\ Len(c) = n /\ n \in Nat
      /\ \A i \in 1..n : c[i] = Child(q, i) /\ Child(q, i) \in NodesOf(tree)
      /\ step \in Tasks /\ end \in Tasks
      /\ \A i \in 1..n : G(i) \in Tasks /\ O(i) \in Tasks
  BY ChildrenOf
<1>2. \A p \in NodesOf(tree) : Task(p, "generate") \in Tasks
  BY TaskFields DEF NodesOf, Steps
<1>3. WellFormed(NodeAt(tree, q))
  BY <1>1, NodesAreWellFormed
<1>4. /\ k = "for" => n = 4
      /\ k = "while" => n = 2
      /\ k = "if" => n \in {2, 3}
  BY <1>3, Zenon DEF WellFormed, KindIn, Arity
<1>5. \A i \in 1..n : IsPart(tree, q, i)
  BY <1>1 DEF IsPart, TypeKinds
<1>6. /\ k = "for" => \A i \in 1..n : Rank(tree, q, i) = IF i = 3 THEN 5 ELSE i
      /\ k # "for" => \A i \in 1..n : Rank(tree, q, i) = i
  BY <1>1 DEF Rank
<1>7. /\ k = "for" => PartOf(tree, q, 1) = G(1) /\ PartOf(tree, q, 2) = G(2) /\ PartOf(tree, q, 4) = O(4)
                        /\ PartOf(tree, q, 3) = step
      /\ k \in {"while", "if"} =>
           PartOf(tree, q, 1) = G(1) /\ PartOf(tree, q, 2) = O(2) /\ PartOf(tree, q, 3) = O(3)
  BY DEF PartOf
<1>8. \A i \in 1..n : Follows(tree, O(i), G(i))
  BY FollowsOwn
<1>9. Follows(tree, step, end)
  BY FollowsOwn
<1>10. ASSUME NEW i \in 1..n, NEW j \in 1..n, Rank(tree, q, i) < Rank(tree, q, j),
              \A l \in 1..n : Rank(tree, q, l) <= Rank(tree, q, i) \/ Rank(tree, q, j) <= Rank(tree, q, l)
       PROVE  Follows(tree, G(i), PartOf(tree, q, j))
  BY <1>1, <1>5, <1>10, ChildThenPart
<1>11. ASSUME NEW i \in 1..n, \A l \in 1..n : Rank(tree, q, l) <= Rank(tree, q, i)
       PROVE  Follows(tree, G(i), end)
  BY <1>1, <1>11, ChildThenFinish
<1>12. 1 \in 1..n => IsNext(tree, q, 0, PartOf(tree, q, 1))
  <2> SUFFICES ASSUME 1 \in 1..n PROVE IsNext(tree, q, 0, PartOf(tree, q, 1))
    OBVIOUS
  <2>1. Rank(tree, q, 1) = 1
    BY <1>6
  <2>2. \A l \in 1..n : Rank(tree, q, l) <= 0 \/ Rank(tree, q, 1) <= Rank(tree, q, l)
    BY <1>1, <1>6, <2>1
  <2> QED BY <1>1, <1>5, <2>1, <2>2, NextPart
<1>13. ASSUME NEW m \in Nat, e \in Seq(Tasks), Len(e) = m + 1,
              IsNext(tree, q, 0, e[1]),
              \A i \in 1..m : Follows(tree, e[i], e[i + 1]),
              e[m + 1] = end
       PROVE  IsExpansion(tree, q, e)
  <2> HIDE DEF e
  <2>1. e # <<>>
    BY <1>13, EmptySeq
  <2>2. e[1] = Head(e)
    BY <1>13, <2>1, SequenceEnds
  <2>3. Len(e) - 1 = m
    BY <1>13
  <2> QED BY <1>13, <2>1, <2>2, <2>3 DEF IsExpansion
<1>14. ASSUME 1 \in 1..n
       PROVE  /\ Generate(<<c[1]>>) \in Seq(Tasks) /\ Len(Generate(<<c[1]>>)) = 1
              /\ Generate(<<c[1]>>)[1] = G(1)
  <2> DEFINE one == <<c[1]>>
  <2>1. one \in Seq(NodesOf(tree)) /\ Len(one) = 1 /\ one[1] = Child(q, 1)
    BY <1>1, <1>14
  <2> HIDE DEF one
  <2>2. /\ Generate(one) \in Seq(Tasks) /\ Len(Generate(one)) = Len(one)
        /\ \A i \in 1..Len(one) : Generate(one)[i] = Task(one[i], "generate")
    <3>1. one \in Seq(NodesOf(tree))
      BY <2>1
    <3> QED BY ONLY <1>2, <3>1, GenerateTasks
  <2>3. 1 \in 1..1
    OBVIOUS
  <2> QED BY <2>1, <2>2, <2>3 DEF one
<1>15. ASSUME NEW i \in 1..n
       PROVE  Branch(c[i]) = <<O(i), G(i)>>
  BY <1>1 DEF Branch
<1> HIDE DEF c, G, O, end, step
<1>16. ASSUME k = "while" PROVE IsExpansion(tree, q, e)
  <2> DEFINE s0 == Generate(<<c[1]>>)
             s1 == s0 \o <<O(2), G(2)>>
  <2>1. n = 2 /\ 1 \in 1..n /\ 2 \in 1..n
    BY <1>4, <1>16
  <2>2. Parts(q) = s1
    <3>1. Parts(q) = s0 \o Branch(c[2])
      BY <1>1, <1>16, PartsByKind DEF c
    <3> QED BY <1>15, <2>1, <3>1
  <2>3. s0 \in Seq(Tasks) /\ Len(s0) = 1 /\ s0[1] = G(1)
    BY <1>14, <2>1
  <2>4. O(2) \in Tasks /\ G(2) \in Tasks /\ end \in Tasks
    BY <1>1, <2>1
  <2> HIDE DEF s0
  <2>5. s1 \in Seq(Tasks) /\ Len(s1) = 3 /\ s1[1] = G(1) /\ s1[2] = O(2) /\ s1[3] = G(2)
    <3>1. /\ s1 \in Seq(Tasks) /\ Len(s1) = 1 + 2 /\ \A i \in 1..1 : s1[i] = s0[i]
          /\ s1[1 + 1] = O(2) /\ s1[1 + 2] = G(2)
      <4>1. s0 \in Seq(Tasks) /\ O(2) \in Tasks /\ G(2) \in Tasks
        BY <2>3, <2>4
      <4> DEFINE y == s0 \o <<O(2), G(2)>>
      <4>2. /\ y \in Seq(Tasks) /\ Len(y) = Len(s0) + 2
            /\ \A i \in 1..Len(s0) : y[i] = s0[i]
            /\ y[Len(s0) + 1] = O(2) /\ y[Len(s0) + 2] = G(2)
        BY ONLY <4>1, TwoMore
      <4>3. s1 = y
        OBVIOUS
      <4> HIDE DEF y, s1
      <4> QED BY <2>3, <2>4, <4>2, <4>3
    <3> QED BY <2>3, <3>1
  <2> HIDE DEF s1
  <2>6. /\ e \in Seq(Tasks) /\ Len(e) = 3 + 1 /\ \A i \in 1..3 : e[i] = s1[i]
        /\ e[3 + 1] = end
    <3>1. s1 \in Seq(Tasks) /\ end \in Tasks
      BY <2>2, <2>4, <2>5
    <3> DEFINE y == s1 \o <<end>>
    <3>2. /\ y \in Seq(Tasks) /\ Len(y) = Len(s1) + 1
          /\ \A i \in 1..Len(s1) : y[i] = s1[i]
          /\ y[Len(s1) + 1] = end
      BY ONLY <3>1, OneMore
    <3>3. e = y
      BY <2>2, <2>4, <2>5
    <3> HIDE DEF y, e
    <3> QED BY <2>2, <2>4, <2>5, <3>2, <3>3
  <2> HIDE DEF e
  <2>7. e[1] = G(1) /\ e[2] = O(2) /\ e[3] = G(2) /\ e[4] = end
    BY <2>5, <2>6
  <2>8. IsNext(tree, q, 0, e[1])
    BY <1>7, <1>12, <1>16, <2>1, <2>7
  <2>9. Follows(tree, e[1], e[2])
    <3>1. Rank(tree, q, 1) = 1 /\ Rank(tree, q, 2) = 2 /\ \A l \in 1..n : l = 1 \/ l = 2
      BY <1>6, <1>16, <2>1
    <3>2. Follows(tree, G(1), PartOf(tree, q, 2))
      BY <1>10, <2>1, <3>1
    <3> QED BY <1>7, <1>16, <2>7, <3>2
  <2>10. Follows(tree, e[2], e[3])
    BY <1>8, <2>1, <2>7
  <2>11. Follows(tree, e[3], e[4])
    <3>1. \A l \in 1..n : Rank(tree, q, l) <= Rank(tree, q, 2)
      BY <1>6, <1>16, <2>1
    <3> QED BY <1>11, <2>1, <2>7, <3>1
  <2>12. \A i \in 1..3 : Follows(tree, e[i], e[i + 1])
    BY <2>9, <2>10, <2>11
  <2> QED BY <1>13, <2>6, <2>7, <2>8, <2>12
<1>17. ASSUME k = "for" PROVE IsExpansion(tree, q, e)
  <2> DEFINE s0 == Generate(<<c[1], c[2]>>)
             s1 == s0 \o <<O(4), G(4)>>
             s2 == s1 \o <<step>>
  <2>1. n = 4 /\ 1 \in 1..n /\ 2 \in 1..n /\ 3 \in 1..n /\ 4 \in 1..n
    BY <1>4, <1>17
  <2>2. Parts(q) = s2
    <3>1. Parts(q) = s0 \o Branch(c[4]) \o <<step>>
      BY <1>1, <1>17, PartsByKind DEF c, step
    <3> QED BY <1>15, <2>1, <3>1
  <2>3. s0 \in Seq(Tasks) /\ Len(s0) = 2 /\ s0[1] = G(1) /\ s0[2] = G(2)
    <3> DEFINE two == <<c[1], c[2]>>
    <3>1. two \in Seq(NodesOf(tree)) /\ Len(two) = 2 /\ two[1] = Child(q, 1) /\ two[2] = Child(q, 2)
      <4>1. c[1] = Child(q, 1) /\ c[2] = Child(q, 2) /\ c[1] \in NodesOf(tree) /\ c[2] \in NodesOf(tree)
        BY <1>1, <2>1
      <4> QED BY <4>1
    <3> HIDE DEF two
    <3>2. /\ Generate(two) \in Seq(Tasks) /\ Len(Generate(two)) = Len(two)
          /\ \A i \in 1..Len(two) : Generate(two)[i] = Task(two[i], "generate")
      <4>1. two \in Seq(NodesOf(tree))
        BY <3>1
      <4> QED BY ONLY <1>2, <4>1, GenerateTasks
    <3>3. 1 \in 1..2 /\ 2 \in 1..2
      OBVIOUS
    <3> QED BY <3>1, <3>2, <3>3 DEF two, G
  <2>4. O(4) \in Tasks /\ G(4) \in Tasks /\ step \in Tasks /\ end \in Tasks
    BY <1>1, <2>1
  <2> HIDE DEF s0
  <2>5. /\ s1 \in Seq(Tasks) /\ Len(s1) = 4
        /\ s1[1] = G(1) /\ s1[2] = G(2) /\ s1[3] = O(4) /\ s1[4] = G(4)
    <3>1. /\ s1 \in Seq(Tasks) /\ Len(s1) = 2 + 2 /\ \A i \in 1..2 : s1[i] = s0[i]
          /\ s1[2 + 1] = O(4) /\ s1[2 + 2] = G(4)
      <4>1. s0 \in Seq(Tasks) /\ O(4) \in Tasks /\ G(4) \in Tasks
        BY <2>3, <2>4
      <4> DEFINE y == s0 \o <<O(4), G(4)>>
      <4>2. /\ y \in Seq(Tasks) /\ Len(y) = Len(s0) + 2
            /\ \A i \in 1..Len(s0) : y[i] = s0[i]
            /\ y[Len(s0) + 1] = O(4) /\ y[Len(s0) + 2] = G(4)
        BY ONLY <4>1, TwoMore
      <4>3. s1 = y
        OBVIOUS
      <4> HIDE DEF y, s1
      <4> QED BY <2>3, <2>4, <4>2, <4>3
    <3> QED BY <2>3, <3>1
  <2> HIDE DEF s1
  <2>6. /\ s2 \in Seq(Tasks) /\ Len(s2) = 5
        /\ s2[1] = G(1) /\ s2[2] = G(2) /\ s2[3] = O(4) /\ s2[4] = G(4) /\ s2[5] = step
    <3>1. /\ s2 \in Seq(Tasks) /\ Len(s2) = 4 + 1 /\ \A i \in 1..4 : s2[i] = s1[i]
          /\ s2[4 + 1] = step
      <4>1. s1 \in Seq(Tasks) /\ step \in Tasks
        BY <2>4, <2>5
      <4> DEFINE y == s1 \o <<step>>
      <4>2. /\ y \in Seq(Tasks) /\ Len(y) = Len(s1) + 1
            /\ \A i \in 1..Len(s1) : y[i] = s1[i]
            /\ y[Len(s1) + 1] = step
        BY ONLY <4>1, OneMore
      <4>3. s2 = y
        OBVIOUS
      <4> HIDE DEF y, s2
      <4> QED BY <2>4, <2>5, <4>2, <4>3
    <3> QED BY <2>5, <3>1
  <2> HIDE DEF s2
  <2>7. /\ e \in Seq(Tasks) /\ Len(e) = 5 + 1 /\ \A i \in 1..5 : e[i] = s2[i]
        /\ e[5 + 1] = end
    <3>1. s2 \in Seq(Tasks) /\ end \in Tasks
      BY <2>2, <2>4, <2>6
    <3> DEFINE y == s2 \o <<end>>
    <3>2. /\ y \in Seq(Tasks) /\ Len(y) = Len(s2) + 1
          /\ \A i \in 1..Len(s2) : y[i] = s2[i]
          /\ y[Len(s2) + 1] = end
      BY ONLY <3>1, OneMore
    <3>3. e = y
      BY <2>2, <2>4, <2>6
    <3> HIDE DEF y, e
    <3> QED BY <2>2, <2>4, <2>6, <3>2, <3>3
  <2> HIDE DEF e
  <2>8. /\ e[1] = G(1) /\ e[2] = G(2) /\ e[3] = O(4) /\ e[4] = G(4) /\ e[5] = step /\ e[6] = end
    BY <2>6, <2>7
  <2>9. IsNext(tree, q, 0, e[1])
    BY <1>7, <1>12, <1>17, <2>1, <2>8
  <2>10. /\ Rank(tree, q, 1) = 1 /\ Rank(tree, q, 2) = 2 /\ Rank(tree, q, 3) = 5 /\ Rank(tree, q, 4) = 4
         /\ \A l \in 1..n : l = 1 \/ l = 2 \/ l = 3 \/ l = 4
    BY <1>6, <1>17, <2>1
  <2>11. Follows(tree, e[1], e[2])
    <3>1. Follows(tree, G(1), PartOf(tree, q, 2))
      BY <1>10, <2>1, <2>10
    <3> QED BY <1>7, <1>17, <2>8, <3>1
  <2>12. Follows(tree, e[2], e[3])
    <3>1. Follows(tree, G(2), PartOf(tree, q, 4))
      BY <1>10, <2>1, <2>10
    <3> QED BY <1>7, <1>17, <2>8, <3>1
  <2>13. Follows(tree, e[3], e[4])
    BY <1>8, <2>1, <2>8
  <2>14. Follows(tree, e[4], e[5])
    <3>1. Follows(tree, G(4), PartOf(tree, q, 3))
      BY <1>10, <2>1, <2>10
    <3> QED BY <1>7, <1>17, <2>8, <3>1
  <2>15. Follows(tree, e[5], e[6])
    BY <1>9, <2>8
  <2>16. \A i \in 1..5 : Follows(tree, e[i], e[i + 1])
    BY <2>11, <2>12, <2>13, <2>14, <2>15
  <2> QED BY <1>13, <2>7, <2>8, <2>9, <2>16
<1>18. ASSUME k = "if" PROVE IsExpansion(tree, q, e)
  <2> DEFINE s0 == Generate(<<c[1]>>)
             s1 == s0 \o <<O(2), G(2)>>
             s2 == s1 \o <<O(3), G(3)>>
  <2>1. n \in {2, 3} /\ 1 \in 1..n /\ 2 \in 1..n
    BY <1>4, <1>18
  <2>2. Parts(q) = IF n = 3 THEN s2 ELSE s1
    <3>1. Parts(q) = s0 \o Branch(c[2]) \o (IF Len(c) = 3 THEN Branch(c[3]) ELSE <<>>)
      BY <1>1, <1>18, PartsByKind DEF c
    <3>2. Branch(c[2]) = <<O(2), G(2)>>
      BY <1>15, <2>1
    <3>3. CASE n = 3
      <4>1. Branch(c[3]) = <<O(3), G(3)>>
        BY <1>15, <3>3
      <4> QED BY <1>1, <3>1, <3>2, <3>3, <4>1
    <3>4. CASE n # 3
      <4>1. Parts(q) = s1 \o <<>>
        BY <1>1, <3>1, <3>2, <3>4
      <4>2. s1 \in Seq(Tasks)
        <5>1. s0 \in Seq(Tasks) /\ <<O(2), G(2)>> \in Seq(Tasks)
          BY <1>1, <1>14, <2>1
        <5> HIDE DEF s0
        <5> QED BY <5>1
      <4> HIDE DEF s1
      <4>3. s1 \o <<>> = s1
        BY <4>2
      <4> QED BY <3>4, <4>1, <4>3
    <3> QED BY <3>3, <3>4
  <2>3. s0 \in Seq(Tasks) /\ Len(s0) = 1 /\ s0[1] = G(1)
    BY <1>14, <2>1
  <2>4. O(2) \in Tasks /\ G(2) \in Tasks /\ end \in Tasks
    BY <1>1, <2>1
  <2> HIDE DEF s0
  <2>5. s1 \in Seq(Tasks) /\ Len(s1) = 3 /\ s1[1] = G(1) /\ s1[2] = O(2) /\ s1[3] = G(2)
    <3>1. /\ s1 \in Seq(Tasks) /\ Len(s1) = 1 + 2 /\ \A i \in 1..1 : s1[i] = s0[i]
          /\ s1[1 + 1] = O(2) /\ s1[1 + 2] = G(2)
      <4>1. s0 \in Seq(Tasks) /\ O(2) \in Tasks /\ G(2) \in Tasks
        BY <2>3, <2>4
      <4> DEFINE y == s0 \o <<O(2), G(2)>>
      <4>2. /\ y \in Seq(Tasks) /\ Len(y) = Len(s0) + 2
            /\ \A i \in 1..Len(s0) : y[i] = s0[i]
            /\ y[Len(s0) + 1] = O(2) /\ y[Len(s0) + 2] = G(2)
        BY ONLY <4>1, TwoMore
      <4>3. s1 = y
        OBVIOUS
      <4> HIDE DEF y, s1
      <4> QED BY <2>3, <2>4, <4>2, <4>3
    <3> QED BY <2>3, <3>1
  <2> HIDE DEF s1
  <2>6. Rank(tree, q, 1) = 1 /\ Rank(tree, q, 2) = 2 /\ (n = 3 => Rank(tree, q, 3) = 3)
    BY <1>6, <1>18, <2>1
  <2>7. ASSUME n = 2
        PROVE  IsExpansion(tree, q, e)
    <3>1. /\ e \in Seq(Tasks) /\ Len(e) = 3 + 1 /\ \A i \in 1..3 : e[i] = s1[i]
          /\ e[3 + 1] = end
      <4>1. Parts(q) = s1
        BY <2>2, <2>7
      <4>2. s1 \in Seq(Tasks) /\ end \in Tasks
        BY <2>4, <2>5
      <4> DEFINE y == s1 \o <<end>>
      <4>3. /\ y \in Seq(Tasks) /\ Len(y) = Len(s1) + 1
            /\ \A i \in 1..Len(s1) : y[i] = s1[i]
            /\ y[Len(s1) + 1] = end
        BY ONLY <4>2, OneMore
      <4>4. e = y
        BY <2>4, <2>5, <4>1
      <4> HIDE DEF y, e
      <4> QED BY <2>4, <2>5, <4>1, <4>3, <4>4
    <3> HIDE DEF e
    <3>2. e[1] = G(1) /\ e[2] = O(2) /\ e[3] = G(2) /\ e[4] = end
      BY <2>5, <3>1
    <3>3. IsNext(tree, q, 0, e[1])
      BY <1>7, <1>12, <1>18, <2>1, <3>2
    <3>4. \A l \in 1..n : l = 1 \/ l = 2
      BY <2>7
    <3>5. Follows(tree, e[1], e[2])
      <4>1. Follows(tree, G(1), PartOf(tree, q, 2))
        BY <1>10, <2>1, <2>6, <3>4
      <4> QED BY <1>7, <1>18, <3>2, <4>1
    <3>6. Follows(tree, e[2], e[3])
      BY <1>8, <2>1, <3>2
    <3>7. Follows(tree, e[3], e[4])
      <4>1. \A l \in 1..n : Rank(tree, q, l) <= Rank(tree, q, 2)
        BY <2>6, <3>4
      <4> QED BY <1>11, <2>1, <3>2, <4>1
    <3>8. \A i \in 1..3 : Follows(tree, e[i], e[i + 1])
      BY <3>5, <3>6, <3>7
    <3> QED BY <1>13, <3>1, <3>2, <3>3, <3>8
  <2>8. ASSUME n = 3
        PROVE  IsExpansion(tree, q, e)
    <3>1. 3 \in 1..n /\ O(3) \in Tasks /\ G(3) \in Tasks
      BY <1>1, <2>8
    <3>2. /\ s2 \in Seq(Tasks) /\ Len(s2) = 5
          /\ s2[1] = G(1) /\ s2[2] = O(2) /\ s2[3] = G(2) /\ s2[4] = O(3) /\ s2[5] = G(3)
      <4>1. /\ s2 \in Seq(Tasks) /\ Len(s2) = 3 + 2 /\ \A i \in 1..3 : s2[i] = s1[i]
            /\ s2[3 + 1] = O(3) /\ s2[3 + 2] = G(3)
        <5>1. s1 \in Seq(Tasks) /\ O(3) \in Tasks /\ G(3) \in Tasks
          BY <2>5, <3>1
        <5> DEFINE y == s1 \o <<O(3), G(3)>>
        <5>2. /\ y \in Seq(Tasks) /\ Len(y) = Len(s1) + 2
              /\ \A i \in 1..Len(s1) : y[i] = s1[i]
              /\ y[Len(s1) + 1] = O(3) /\ y[Len(s1) + 2] = G(3)
          BY ONLY <5>1, TwoMore
        <5>3. s2 = y
          OBVIOUS
        <5> HIDE DEF y, s2
        <5> QED BY <2>5, <3>1, <5>2, <5>3
      <4> QED BY <2>5, <4>1
    <3> HIDE DEF s2
    <3>3. /\ e \in Seq(Tasks) /\ Len(e) = 5 + 1 /\ \A i \in 1..5 : e[i] = s2[i]
          /\ e[5 + 1] = end
      <4>1. Parts(q) = s2
        BY <2>2, <2>8
      <4>2. s2 \in Seq(Tasks) /\ end \in Tasks
        BY <2>4, <3>2
      <4> DEFINE y == s2 \o <<end>>
      <4>3. /\ y \in Seq(Tasks) /\ Len(y) = Len(s2) + 1
            /\ \A i \in 1..Len(s2) : y[i] = s2[i]
            /\ y[Len(s2) + 1] = end
        BY ONLY <4>2, OneMore
      <4>4. e = y
        BY <2>4, <3>2, <4>1
      <4> HIDE DEF y, e
      <4> QED BY <2>4, <3>2, <4>1, <4>3, <4>4
    <3> HIDE DEF e
    <3>4. e[1] = G(1) /\ e[2] = O(2) /\ e[3] = G(2) /\ e[4] = O(3) /\ e[5] = G(3) /\ e[6] = end
      BY <3>2, <3>3
    <3>5. IsNext(tree, q, 0, e[1])
      BY <1>7, <1>12, <1>18, <2>1, <3>4
    <3>6. \A l \in 1..n : l = 1 \/ l = 2 \/ l = 3
      BY <2>8
    <3>7. Follows(tree, e[1], e[2])
      <4>1. Follows(tree, G(1), PartOf(tree, q, 2))
        BY <1>10, <2>1, <2>6, <2>8, <3>6
      <4> QED BY <1>7, <1>18, <3>4, <4>1
    <3>8. Follows(tree, e[2], e[3])
      BY <1>8, <2>1, <3>4
    <3>9. Follows(tree, e[3], e[4])
      <4>1. Follows(tree, G(2), PartOf(tree, q, 3))
        BY <1>10, <2>1, <2>6, <2>8, <3>1, <3>6
      <4> QED BY <1>7, <1>18, <3>4, <4>1
    <3>10. Follows(tree, e[4], e[5])
      BY <1>8, <3>1, <3>4
    <3>11. Follows(tree, e[5], e[6])
      <4>1. \A l \in 1..n : Rank(tree, q, l) <= Rank(tree, q, 3)
        BY <2>6, <2>8, <3>6
      <4> QED BY <1>11, <3>1, <3>4, <4>1
    <3>12. \A i \in 1..5 : Follows(tree, e[i], e[i + 1])
      BY <3>7, <3>8, <3>9, <3>10, <3>11
    <3> QED BY <1>13, <3>3, <3>4, <3>5, <3>12
  <2> QED BY <2>1, <2>7, <2>8
<1> QED BY <1>1, <1>16, <1>17, <1>18 DEF end

LEMMA Expansion ==
  ASSUME WalkInv, NEW q \in NodesOf(tree), IsReached(tree, q)
  PROVE  IsExpansion(tree, q, Parts(q) \o <<Task(q, "finish")>>)
BY ExpansionInTurn, ExpansionOfBranches

-----------------------------------------------------------------------------
(* The moves of the generator.                                             *)

\* What is below a node is below one of its children.
LEMMA BelowAChild ==
  ASSUME NEW root \in Program, NEW q \in NodesOf(root), NEW s \in NodesOf(root), Under(s, q), s # q
  PROVE  \E i \in 1..Arity(root, q) : Under(s, Child(q, i))
<1> DEFINE i == s[Len(q) + 1]
<1>1. q \in Path /\ s \in Path
  BY DEF NodesOf
<1>2. i \in 1..Arity(root, q)
  BY <1>1, BelowNode DEF Arity
<1>3. i \in Positive
  BY <1>2, ChildNode
<1> HIDE DEF i
<1>4. Under(s, Child(q, i))
  BY <1>1, <1>3, AroundChild DEF i
<1> QED BY <1>2, <1>4

\* The child of a for-statement that is its step.
LEMMA StepNode ==
  ASSUME NEW root \in Program, NEW t, IsGenerated(root, t), t.step = "step"
  PROVE  /\ t.path \in NodesOf(root) /\ t.path \in Path /\ KindIn(root, t.path) = "for"
         /\ 3 \in 1..Arity(root, t.path) /\ IsPart(root, t.path, 3)
         /\ \A k \in 1..Arity(root, t.path) : ~(Rank(root, t.path, 3) < Rank(root, t.path, k))
<1>1. t.path \in NodesOf(root) /\ t.path \in Path /\ KindIn(root, t.path) = "for"
  BY DEF IsGenerated, Tasks
<1> DEFINE q == t.path
<1> HIDE DEF q
<1>2. q \in NodesOf(root) /\ KindIn(root, q) = "for"
  BY <1>1 DEF q
<1>3. Arity(root, q) = 4
  <2>1. WellFormed(NodeAt(root, q))
    BY <1>2, NodesAreWellFormed
  <2> QED BY <1>2, <2>1, Zenon DEF WellFormed, KindIn, Arity
<1>4. 3 \in 1..Arity(root, q) /\ Rank(root, q, 3) = 5
  BY <1>2, <1>3 DEF Rank
<1>5. IsPart(root, q, 3)
  BY <1>2, <1>4 DEF IsPart, TypeKinds
<1>6. \A k \in 1..Arity(root, q) : Rank(root, q, k) \in Nat /\ Rank(root, q, k) <= 5
  BY <1>2, Ranks
<1>7. \A k \in 1..Arity(root, q) : ~(Rank(root, q, 3) < Rank(root, q, k))
  BY <1>4, <1>6
<1> QED BY <1>1, <1>4, <1>5, <1>7 DEF q

\* No node is pending again.
LEMMA PendingShrinks ==
  ASSUME NEW root \in Program, NEW t, IsGenerated(root, t), NEW u, IsMove(root, t, u), NEW p \in Path,
         Pending(root, u, p)
  PROVE  Pending(root, t, p)
<1> DEFINE q == t.path
<1>1. q \in NodesOf(root) /\ q \in Path /\ t.step \in Steps
  BY DEF IsGenerated, Tasks
<1>2. CASE Enters(root, t, u)
  <2>1. \/ Later(root, q, p)
        \/ Under(q, p)
        \/ \E k \in 1..Arity(root, q) : Under(p, Child(q, k)) /\ IsPart(root, q, k) /\ 0 < Rank(root, q, k)
    BY <1>1, <1>2, PendingNext DEF Enters
  <2>2. ASSUME NEW k \in 1..Arity(root, q), Under(p, Child(q, k))
        PROVE  Under(p, q)
    <3>1. k \in Positive
      BY <1>1, ChildNode
    <3> QED BY <1>1, <2>2, <3>1, AroundChild
  <2> QED BY <1>2, <2>1, <2>2 DEF Enters, Pending
<1>3. CASE Follows(root, t, u)
  <2>1. Pending(root, u, p) <=>
          IF t.step = "open" THEN Pending(root, t, p)
          ELSE Later(root, q, p) \/ Under(IF t.step = "step" THEN q ELSE Parent(q), p)
    BY <1>3, TaskThatFollows
  <2>2. CASE t.step = "open"
    BY <2>1, <2>2
  <2>3. CASE t.step = "step"
    BY <2>1, <2>3 DEF Pending
  <2>4. CASE t.step \in {"generate", "finish"}
    <3>1. q # <<>> /\ (Later(root, q, p) \/ Under(Parent(q), p))
      BY <1>3, <2>1, <2>4 DEF Follows
    <3>2. Under(Parent(q), p) => Under(q, p)
      BY <1>1, <3>1, UnderParent
    <3> QED BY <3>1, <3>2 DEF Pending
  <2> QED BY <1>1, <2>2, <2>3, <2>4 DEF Steps
<1>4. CASE StepsOn(root, t, u)
  <2>1. t.step = "step" /\ u.path = Child(q, 3) /\ u.step = "generate"
    BY <1>4, TaskFields DEF StepsOn
  <2>2. 3 \in 1..Arity(root, q) /\ \A k \in 1..Arity(root, q) : ~(Rank(root, q, 3) < Rank(root, q, k))
    BY <2>1, StepNode
  <2>3. 3 \in Positive /\ Child(q, 3) \in Path
    BY <1>1, <2>2, ChildNode, ChildPath
  <2>4. Under(p, Child(q, 3)) \/ Later(root, Child(q, 3), p) \/ Under(Child(q, 3), p)
    BY <2>1 DEF Pending
  <2>5. Later(root, Child(q, 3), p) => Later(root, q, p)
    BY <1>1, <2>2, LaterThanChild
  <2>6. Under(Child(q, 3), p) => Under(q, p) \/ Under(p, Child(q, 3))
    BY <1>1, <2>3, AroundChild, UnderItself
  <2> QED BY <2>1, <2>4, <2>5, <2>6 DEF Pending
<1> QED BY <1>2, <1>3, <1>4 DEF IsMove

\* A move goes into the node, or out of it.
LEMMA InsideAfter ==
  ASSUME NEW root \in Program, NEW t, IsGenerated(root, t), NEW u, IsMove(root, t, u), NEW x \in Path
  PROVE  /\ IsInside(u, x) => IsInside(t, x) \/ x = t.path
         /\ KindIn(root, x) # "for" =>
              /\ Enters(root, t, u) => (IsInside(u, x) <=> IsInside(t, x) \/ x = t.path)
              /\ Follows(root, t, u) => (IsInside(u, x) <=> IsInside(t, x) /\ x # t.path)
              /\ StepsOn(root, t, u) => (IsInside(u, x) <=> IsInside(t, x))
<1> DEFINE q == t.path
<1>1. /\ q \in NodesOf(root) /\ q \in Path /\ t.step \in Steps
      /\ t.step = "step" => KindIn(root, q) = "for"
  BY DEF IsGenerated, Tasks
<1>2. Under(q, q)
  BY <1>1, UnderItself
<1>3. ASSUME Enters(root, t, u)
      PROVE  /\ IsInside(u, x) => IsInside(t, x) \/ x = q
             /\ KindIn(root, x) # "for" => (IsInside(u, x) <=> IsInside(t, x) \/ x = q)
  <2>1. t.step = "generate" /\ IsNext(root, q, 0, u)
    BY <1>3 DEF Enters
  <2>2. /\ IsInside(u, x) => Under(q, x)
        /\ Under(q, x) /\ (x # q \/ KindIn(root, q) # "for") => IsInside(u, x)
    BY <1>1, <2>1, InsideNext
  <2>3. IsInside(t, x) <=> Under(q, x) /\ x # q
    BY <2>1 DEF IsInside
  <2> QED BY <1>2, <2>2, <2>3
<1>4. ASSUME Follows(root, t, u)
      PROVE  /\ IsInside(u, x) => IsInside(t, x) \/ x = q
             /\ KindIn(root, x) # "for" => (IsInside(u, x) <=> IsInside(t, x) /\ x # q)
  <2>1. CASE t.step \in {"open", "step"}
    <3>1. \/ t.step = "open" /\ u = Task(q, "generate")
          \/ t.step = "step" /\ u = Task(q, "finish")
      BY <1>4, <2>1 DEF Follows
    <3>2. u.path = q /\ (t.step = "open" => u.step = "generate")
      BY <3>1, TaskFields
    <3> QED BY <1>1, <2>1, <3>2 DEF IsInside
  <2>2. CASE t.step \in {"generate", "finish"}
    <3> DEFINE r == Parent(q)
    <3>1. q # <<>> /\ IsNext(root, r, Rank(root, r, Last(q)), u)
      BY <1>4, <2>2 DEF Follows
    <3>2. r \in NodesOf(root) /\ Child(r, Last(q)) = q /\ r \in Path /\ Last(q) \in Positive
      BY <1>1, <3>1, ParentNode
    <3>3. (Under(q, x) <=> x = q \/ Under(r, x)) /\ ~Under(r, q)
      BY <3>2, AroundChild
    <3>4. /\ IsInside(u, x) => Under(r, x)
          /\ Under(r, x) /\ (x # r \/ KindIn(root, r) # "for") => IsInside(u, x)
      BY <3>1, <3>2, InsideNext
    <3> HIDE DEF r
    <3>5. IsInside(u, x) => IsInside(t, x) /\ x # q
      BY <3>3, <3>4 DEF IsInside
    <3>6. KindIn(root, x) # "for" /\ IsInside(t, x) /\ x # q => IsInside(u, x)
      BY <3>3, <3>4 DEF IsInside
    <3> QED BY <3>5, <3>6
  <2> QED BY <1>1, <2>1, <2>2 DEF Steps
<1>5. ASSUME StepsOn(root, t, u)
      PROVE  /\ IsInside(u, x) => IsInside(t, x) \/ x = q
             /\ KindIn(root, x) # "for" => (IsInside(u, x) <=> IsInside(t, x))
  <2>1. t.step = "step" /\ u.path = Child(q, 3) /\ u.step = "generate"
    BY <1>5, TaskFields DEF StepsOn
  <2>2. 3 \in Positive
    BY DEF Positive
  <2>3. (Under(Child(q, 3), x) <=> x = Child(q, 3) \/ Under(q, x)) /\ ~Under(q, Child(q, 3))
    BY <1>1, <2>2, ChildPath, AroundChild
  <2>4. IsInside(u, x) <=> Under(q, x)
    BY <2>1, <2>3 DEF IsInside
  <2>5. IsInside(t, x) <=> Under(q, x) /\ x # q
    BY <2>1 DEF IsInside
  <2> QED BY <1>1, <2>1, <2>4, <2>5
<1> QED BY <1>3, <1>4, <1>5 DEF IsMove

\* In types, in parameters and in names there are no declarations.
LEMMA NoDeclarationBelow ==
  ASSUME NEW root \in Program, NEW c \in NodesOf(root), NEW s \in NodesOf(root), Under(s, c),
         KindIn(root, c) \in TypeKinds \cup {"parameter", "identifier"}
  PROVE  KindIn(root, s) # "declaration"
<1> DEFINE S == TypeKinds \cup {"parameter", "identifier"}
<1>1. c \in Path
  BY DEF NodesOf
<1> SUFFICES ASSUME KindIn(root, s) = "declaration" PROVE FALSE
  OBVIOUS
<1>2. KindIn(root, s) \notin S
  BY DEF TypeKinds
<1>3. PICK q \in NodesOf(root) : \E i \in 1..Arity(root, q) :
        /\ Under(q, c) /\ Under(s, Child(q, i))
        /\ KindIn(root, q) \in S /\ KindIn(root, Child(q, i)) \notin S
  <2>1. c \in Path /\ KindIn(root, c) \in S
    BY <1>1
  <2> HIDE DEF S
  <2> QED BY <1>2, <2>1, WayOut
<1>4. PICK i \in 1..Arity(root, q) : KindIn(root, Child(q, i)) \notin S
  BY <1>3
<1>5. IsPlaced(KindIn(root, Child(q, i)), i, KindIn(root, q), Arity(root, q))
  BY ChildNode
<1>6. KindIn(root, q) \in S
  BY <1>3
<1>7. CASE KindIn(root, q) \in TypeKinds
  BY <1>4, <1>5, <1>7 DEF IsPlaced, TypeKinds
<1>8. CASE KindIn(root, q) = "parameter"
  BY <1>4, <1>5, <1>8 DEF IsPlaced, TypeKinds
<1>9. CASE KindIn(root, q) = "identifier"
  BY <1>4, <1>5, <1>9 DEF IsPlaced, TypeKinds
<1> QED BY <1>6, <1>7, <1>8, <1>9

\* A declaration is not pending any more when it is finished, or skipped with a node or a step.
LEMMA LostDeclarations ==
  ASSUME NEW root \in Program, NEW t, IsGenerated(root, t), NEW u, IsMove(root, t, u),
         NEW s \in NodesOf(root), KindIn(root, s) = "declaration",
         Pending(root, t, s), ~Pending(root, u, s)
  PROVE  /\ Follows(root, t, u) /\ ~Enters(root, t, u) /\ ~StepsOn(root, t, u)
         /\ \/ t.step = "generate" /\ t.path # <<>> /\ Under(s, t.path)
            \/ t.step = "step" /\ Under(s, Child(t.path, 3))
            \/ t.step = "finish" /\ s = t.path
<1> DEFINE q == t.path
<1>1. q \in NodesOf(root) /\ q \in Path /\ t.step \in Steps /\ s \in Path /\ IsReached(root, q)
  BY DEF IsGenerated, Tasks, NodesOf
<1>2. ~Enters(root, t, u)
  <2> SUFFICES ASSUME Enters(root, t, u) PROVE FALSE
    OBVIOUS
  <2>1. t.step = "generate" /\ IsNext(root, q, 0, u)
    BY DEF Enters
  <2>2. ~( \/ Later(root, q, s)
           \/ Under(q, s)
           \/ \E k \in 1..Arity(root, q) : Under(s, Child(q, k)) /\ IsPart(root, q, k) /\ 0 < Rank(root, q, k))
    BY <1>1, <2>1, PendingNext
  <2>3. Under(s, q) /\ s # q
    BY <1>1, <2>1, <2>2, UnderItself DEF Pending
  <2>4. PICK i \in 1..Arity(root, q) : Under(s, Child(q, i))
    BY <1>1, <2>3, BelowAChild
  <2>5. ~IsPart(root, q, i)
    BY <1>1, <2>2, <2>4, Ranks
  <2>6. KindIn(root, Child(q, i)) \in TypeKinds \cup {"parameter", "identifier"}
    <3>1. KindIn(root, q) \notin TypeKinds \cup {"parameter"}
      BY <1>1, ReachedKinds
    <3>2. /\ IsPlaced(KindIn(root, Child(q, i)), i, KindIn(root, q), Arity(root, q))
          /\ i \in Nat /\ Arity(root, q) \in Nat
      BY <1>1, ChildNode DEF Positive
    <3> DEFINE k == KindIn(root, Child(q, i))
               parent == KindIn(root, q)
               n == Arity(root, q)
    <3>3. \/ parent \in {"declaration", "function", "alloc"} /\ i # 2
          \/ parent = "lambda" /\ i # n
      BY <2>5, <3>1 DEF IsPart
    <3> HIDE DEF k, parent, n
    <3>4. IsPlaced(k, i, parent, n)
      BY <3>2 DEF k, parent, n
    <3>5. k \in TypeKinds \cup {"parameter", "identifier"}
      <4>1. CASE parent = "lambda"
        BY <3>3, <3>4, <4>1 DEF IsPlaced
      <4>2. CASE parent = "declaration"
        BY <3>3, <3>4, <4>2 DEF IsPlaced
      <4>3. CASE parent = "function"
        BY <3>3, <3>4, <4>3 DEF IsPlaced
      <4>4. CASE parent = "alloc"
        BY <3>3, <3>4, <4>4 DEF IsPlaced
      <4> QED BY <3>3, <4>1, <4>2, <4>3, <4>4
    <3> QED BY <3>5 DEF k
  <2>7. Child(q, i) \in NodesOf(root)
    BY <1>1, ChildNode
  <2> QED BY <2>4, <2>6, <2>7, NoDeclarationBelow
<1>3. ~StepsOn(root, t, u)
  <2> SUFFICES ASSUME StepsOn(root, t, u) PROVE FALSE
    OBVIOUS
  <2>1. t.step = "step" /\ u.path = Child(q, 3) /\ u.step = "generate"
    BY TaskFields DEF StepsOn
  <2>2. 3 \in 1..Arity(root, q)
    BY <2>1, StepNode
  <2>3. 3 \in Positive /\ Child(q, 3) \in Path
    BY <1>1, <2>2, ChildNode, ChildPath
  <2>4. Later(root, q, s) => Later(root, Child(q, 3), s)
    BY <1>1, <2>2, LaterThanChild
  <2>5. Under(q, s) => Under(Child(q, 3), s)
    BY <1>1, <2>3, AroundChild
  <2> QED BY <2>1, <2>4, <2>5 DEF Pending
<1>4. Follows(root, t, u)
  BY <1>2, <1>3 DEF IsMove
<1>5. Pending(root, u, s) <=>
        IF t.step = "open" THEN Pending(root, t, s)
        ELSE Later(root, q, s) \/ Under(IF t.step = "step" THEN q ELSE Parent(q), s)
  BY <1>1, <1>4, TaskThatFollows
<1>6. CASE t.step = "open"
  BY <1>2, <1>3, <1>5, <1>6
<1>7. CASE t.step = "step"
  BY <1>2, <1>3, <1>4, <1>5, <1>7 DEF Pending
<1>8. CASE t.step \in {"generate", "finish"}
  <2>1. q # <<>> /\ ~Later(root, q, s) /\ ~Under(Parent(q), s)
    BY <1>4, <1>5, <1>8 DEF Follows
  <2>2. Under(q, s) => s = q
    BY <1>1, <2>1, UnderParent
  <2>3. Under(q, q)
    BY <1>1, UnderItself
  <2> QED BY <1>2, <1>3, <1>4, <1>8, <2>1, <2>2, <2>3 DEF Pending
<1> QED BY <1>1, <1>6, <1>7, <1>8 DEF Steps

\* In a block, and behind a statement.
LEMMA TolerantInBlock ==
  ASSUME NEW root \in Program, NEW q \in NodesOf(root), KindIn(root, q) = "block", NEW r, NEW u,
         IsNext(root, q, r, u)
  PROVE  Tolerant(root, u) /\ u.step \in {"generate", "finish"}
<1>1. ASSUME NEW j \in 1..Arity(root, q), u = PartOf(root, q, j)
      PROVE  Tolerant(root, u) /\ u.step \in {"generate", "finish"}
  <2>1. u = Task(Child(q, j), "generate")
    BY <1>1 DEF PartOf
  <2>2. Parent(Child(q, j)) = q /\ Child(q, j) # <<>>
    BY ChildNode
  <2> QED BY <2>1, <2>2, TaskFields DEF Tolerant
<1>2. CASE u = Task(q, "finish")
  BY <1>2, TaskFields DEF Tolerant
<1> QED BY <1>1, <1>2 DEF IsNext

LEMMA StatementFollowed ==
  ASSUME NEW root \in Program, NEW x \in NodesOf(root), KindIn(root, x) \in {"block", "return"},
         NEW t, t.path = x, t.step = "finish", NEW u, Follows(root, t, u)
  PROVE  Tolerant(root, u)
<1> DEFINE q == Parent(x)
           i == Last(x)
           n == Arity(root, q)
           k == KindIn(root, x)
           parent == KindIn(root, q)
<1>1. x # <<>> /\ IsNext(root, q, Rank(root, q, i), u)
  BY DEF Follows
<1>2. q \in NodesOf(root) /\ i \in 1..n /\ n \in Nat /\ IsPlaced(k, i, parent, n)
  BY <1>1, ParentNode
<1>3. k \in {"block", "return"}
  OBVIOUS
<1> HIDE DEF k, parent, q, i, n
<1>4. \/ parent = "block"
      \/ parent \in {"main", "lambda"} /\ i = n
      \/ parent \in {"if", "while"} /\ i > 1
      \/ parent = "for" /\ i = 4
  <2>1. k \notin Expressions /\ k \notin TypeKinds
    BY <1>3 DEF Expressions, TypeKinds
  <2> QED BY <1>2, <1>3, <2>1, Zenon DEF IsPlaced
<1>5. u = Task(q, "finish") => Tolerant(root, u) \/ parent \notin {"main", "lambda", "if", "while", "for"}
  BY TaskFields DEF Tolerant, parent
<1>6. CASE parent = "block"
  BY <1>1, <1>2, <1>6, TolerantInBlock DEF parent, q, i
<1>7. ASSUME parent \in {"main", "lambda", "if", "while", "for"}, u # Task(q, "finish")
      PROVE  Tolerant(root, u)
  <2>1. PICK j \in 1..n : IsPart(root, q, j) /\ Rank(root, q, i) < Rank(root, q, j) /\ u = PartOf(root, q, j)
    BY <1>1, <1>7 DEF IsNext, n, q, i
  <2>2. CASE parent \in {"main", "lambda"}
    <3>1. Rank(root, q, i) = i /\ Rank(root, q, j) = j /\ i = n
      BY <1>4, <2>2 DEF Rank, parent
    <3> QED BY <1>2, <2>1, <3>1
  <2>3. CASE parent \in {"if", "while"}
    <3>1. Rank(root, q, i) = i /\ Rank(root, q, j) = j /\ i > 1
      BY <1>4, <2>3 DEF Rank, parent
    <3>2. j > 1
      BY <1>2, <2>1, <3>1
    <3>3. u = Task(Child(q, j), "open")
      BY <2>1, <2>3, <3>2 DEF PartOf, parent
    <3> QED BY <3>3, TaskFields DEF Tolerant
  <2>4. CASE parent = "for"
    <3>1. i = 4 /\ Rank(root, q, i) = 4 /\ Rank(root, q, j) = IF j = 3 THEN 5 ELSE j
      BY <1>4, <2>4 DEF Rank, parent
    <3>2. n = 4
      BY <1>2, <2>4, Ranks DEF n, parent
    <3>3. j = 3
      BY <1>2, <2>1, <3>1, <3>2
    <3>4. u = Task(q, "step")
      BY <2>1, <2>4, <3>3 DEF PartOf, parent
    <3> QED BY <3>4, TaskFields DEF Tolerant
  <2> QED BY <1>7, <2>2, <2>3, <2>4
<1> QED BY <1>4, <1>5, <1>6, <1>7

-----------------------------------------------------------------------------
(* The functions that are open.                                            *)

LEMMA ReopenedStack ==
  ASSUME NEW ins \in Seq(Frame), NEW yes \in BOOLEAN
  PROVE  /\ Reopened(ins, yes) \in Seq(Frame) /\ Len(Reopened(ins, yes)) = Len(ins) /\ Len(ins) \in Nat
         /\ \A k \in 1..Len(ins) : /\ Reopened(ins, yes)[k].function = ins[k].function
                                   /\ k # Len(ins) => Reopened(ins, yes)[k] = ins[k]
         /\ ins # <<>> => Last(Reopened(ins, yes)).open = yes
         /\ ins = <<>> => Reopened(ins, yes) = <<>>
<1> DEFINE n == Len(ins)
           x == Reopened(ins, yes)
<1>1. n \in Nat /\ ins \in [1..n -> Frame]
  BY LenProperties
<1>2. x = [k \in 1..n |-> IF k = n THEN [ins[k] EXCEPT !.open = yes] ELSE ins[k]]
  BY <1>1 DEF Reopened
<1>3. \A k \in 1..n : /\ [ins[k] EXCEPT !.open = yes] \in Frame
                      /\ [ins[k] EXCEPT !.open = yes].function = ins[k].function
                      /\ [ins[k] EXCEPT !.open = yes].open = yes
  BY <1>1 DEF Frame
<1> HIDE DEF x, n
<1>4. \A k \in 1..n : ins[k] \in Frame
  BY <1>1
<1>5. x \in Seq(Frame) /\ Len(x) = n
  <2>1. \A k \in 1..n : (IF k = n THEN [ins[k] EXCEPT !.open = yes] ELSE ins[k]) \in Frame
    BY <1>3, <1>4
  <2> QED BY <1>1, <1>2, <2>1, SeqDef
<1>6. \A k \in 1..n : x[k] = IF k = n THEN [ins[k] EXCEPT !.open = yes] ELSE ins[k]
  BY <1>2
<1>7. ins # <<>> => n \in 1..n
  BY <1>1, EmptySeq DEF n
<1>8. ins = <<>> => x = <<>>
  <2>1. ins = <<>> => n = 0
    BY EmptySeq DEF n
  <2> QED BY <1>5, <2>1, EmptySeq
<1>9. ins # <<>> => Last(x).open = yes
  BY <1>3, <1>5, <1>6, <1>7 DEF Last
<1>10. \A k \in 1..n : x[k].function = ins[k].function /\ (k # n => x[k] = ins[k])
  BY <1>3, <1>6
<1> QED BY <1>1, <1>5, <1>8, <1>9, <1>10 DEF x, n

LEMMA PushedStack ==
  ASSUME NEW ins \in Seq(Frame), NEW q \in Path
  PROVE  LET x == Append(ins, [function |-> q, open |-> TRUE])
         IN  /\ x \in Seq(Frame) /\ Len(x) = Len(ins) + 1 /\ Len(ins) \in Nat /\ x # <<>>
             /\ \A k \in 1..Len(ins) : x[k] = ins[k]
             /\ x[Len(ins) + 1].function = q
             /\ Last(x).open = TRUE
<1> DEFINE f == [function |-> q, open |-> TRUE]
           x == Append(ins, f)
<1>1. f \in Frame /\ f.function = q /\ f.open = TRUE
  BY DEF Frame
<1> HIDE DEF f
<1>2. /\ x \in Seq(Frame) /\ x # <<>> /\ Len(x) = Len(ins) + 1
      /\ \A k \in 1..Len(ins) : x[k] = ins[k]
      /\ x[Len(ins) + 1] = f
  BY <1>1, AppendProperties
<1>3. Len(ins) \in Nat
  BY LenProperties
<1> HIDE DEF x
<1>4. Last(x).open = TRUE
  BY <1>1, <1>2 DEF Last
<1> QED BY <1>1, <1>2, <1>3, <1>4 DEF x, f

LEMMA PoppedStack ==
  ASSUME NEW ins \in Seq(Frame), ins # <<>>
  PROVE  /\ Front(ins) \in Seq(Frame) /\ Len(Front(ins)) = Len(ins) - 1 /\ Len(ins) \in Nat /\ Len(ins) >= 1
         /\ \A k \in 1..(Len(ins) - 1) : Front(ins)[k] = ins[k]
<1> DEFINE n == Len(ins)
           x == SubSeq(ins, 1, n - 1)
<1>1. n \in Nat /\ n >= 1
  BY SequenceEnds
<1>2. x \in Seq(Frame) /\ Len(x) = n - 1 /\ \A k \in 1..(n - 1) : x[k] = ins[k]
  <2>1. \A k \in 1..n : ins[k] \in Frame
    BY ElementOfSeq
  <2>2. x = [k \in 1..(n - 1) |-> ins[(1 + k) - 1]]
    BY <1>1
  <2>3. \A k \in 1..(n - 1) : (1 + k) - 1 = k /\ k \in 1..n
    BY <1>1
  <2> HIDE DEF x, n
  <2>4. \A k \in 1..(n - 1) : x[k] = ins[k] /\ ins[k] \in Frame
    BY <2>1, <2>2, <2>3
  <2>5. x = [k \in 1..(n - 1) |-> ins[k]]
    BY <2>2, <2>3
  <2> QED BY <1>1, <2>4, <2>5, SeqDef
<1> HIDE DEF n
<1> QED BY <1>1, <1>2 DEF Front, n

\* What is around, or is strictly above, is shorter.
LEMMA UnderIsLonger ==
  ASSUME NEW p \in Path, NEW q \in Path, Under(q, p)
  PROVE  Len(p) \in Nat /\ Len(q) \in Nat /\ Len(p) <= Len(q) /\ (p # q => Len(p) < Len(q))
<1>1. Len(p) \in Nat /\ Len(q) \in Nat
  BY LenProperties DEF Path
<1>2. Len(p) = Len(q) => p = q
  BY <1>1, PathsEqual DEF Under
<1> QED BY <1>1, <1>2 DEF Under

\* When the main function is finished the program is.
LEMMA MainIsLast ==
  ASSUME NEW root \in Program, NEW t, IsGenerated(root, t), t.step = "finish",
         KindIn(root, t.path) = "main", NEW u, Follows(root, t, u)
  PROVE  u = Task(<<>>, "finish")
<1> DEFINE x == t.path
           q == Parent(x)
           i == Last(x)
           n == Arity(root, q)
<1>1. x \in NodesOf(root) /\ x # <<>> /\ IsNext(root, q, Rank(root, q, i), u)
  BY DEF IsGenerated, Follows
<1>2. q \in NodesOf(root) /\ i \in 1..n /\ n \in Nat /\ IsPlaced("main", i, KindIn(root, q), n)
  BY <1>1, ParentNode
<1>3. KindIn(root, q) = "program" /\ i = n
  BY <1>2, Zenon DEF IsPlaced, Expressions, Statements, TypeKinds
<1>4. q = <<>>
  <2> SUFFICES ASSUME q # <<>> PROVE FALSE
    OBVIOUS
  <2> HIDE DEF q
  <2>1. IsPlaced("program", Last(q), KindIn(root, Parent(q)), Arity(root, Parent(q)))
    BY <1>2, <1>3, ParentNode
  <2> QED BY <2>1, Zenon DEF IsPlaced, Expressions, Statements, TypeKinds
<1>5. \A j \in 1..n : Rank(root, q, j) = j
  BY <1>3 DEF Rank
<1> HIDE DEF q, i, n, x
<1>6. ~(\E j \in 1..n : Rank(root, q, i) < Rank(root, q, j))
  BY <1>2, <1>3, <1>5
<1> QED BY <1>1, <1>4, <1>6 DEF IsNext, n

\* The functions around, behind a move.
LEMMA FunctionsAround ==
  ASSUME NEW root \in Program, NEW t, IsGenerated(root, t), NEW u, IsMove(root, t, u), NEW x
  PROVE  /\ Enters(root, t, u) =>
              (IsFunctionAround(root, u, x) <=>
                 \/ IsFunctionAround(root, t, x)
                 \/ x = t.path /\ KindIn(root, x) \in {"lambda", "main"})
         /\ Follows(root, t, u) =>
              (IsFunctionAround(root, u, x) <=> IsFunctionAround(root, t, x) /\ x # t.path)
         /\ StepsOn(root, t, u) => (IsFunctionAround(root, u, x) <=> IsFunctionAround(root, t, x))
         /\ IsFunctionAround(root, t, x) =>
              /\ x \in Path /\ t.path \in Path /\ Under(t.path, x)
              /\ x = t.path => t.step = "finish"
<1>1. t.path \in NodesOf(root) /\ t.path \in Path
  BY DEF IsGenerated, Tasks
<1>2. IsFunctionAround(root, t, x) =>
        /\ x \in Path /\ t.path \in Path /\ Under(t.path, x)
        /\ x = t.path => t.step = "finish"
  BY <1>1 DEF IsFunctionAround, IsInside, NodesOf
<1>3. CASE x \notin NodesOf(root)
  BY <1>1, <1>3 DEF IsFunctionAround
<1>4. CASE x \in NodesOf(root) /\ KindIn(root, x) \in {"lambda", "main"}
  <2>1. x \in Path /\ KindIn(root, x) # "for"
    BY <1>4 DEF NodesOf
  <2>2. /\ Enters(root, t, u) => (IsInside(u, x) <=> IsInside(t, x) \/ x = t.path)
        /\ Follows(root, t, u) => (IsInside(u, x) <=> IsInside(t, x) /\ x # t.path)
        /\ StepsOn(root, t, u) => (IsInside(u, x) <=> IsInside(t, x))
    BY <2>1, InsideAfter
  <2> QED BY <1>2, <1>4, <2>2 DEF IsFunctionAround
<1>5. CASE x \in NodesOf(root) /\ KindIn(root, x) \notin {"lambda", "main"}
  BY <1>2, <1>5 DEF IsFunctionAround
<1> QED BY <1>3, <1>4, <1>5

LEMMA SameStack ==
  ASSUME NEW root, NEW ins \in Seq(Frame), NEW t, IsStack(root, ins, t), t # Task(<<>>, "finish"),
         NEW ins2 \in Seq(Frame), Len(ins2) = Len(ins),
         \A k \in 1..Len(ins) : ins2[k].function = ins[k].function,
         NEW u, \A x : IsFunctionAround(root, u, x) <=> IsFunctionAround(root, t, x)
  PROVE  IsStack(root, ins2, u)
<1>1. /\ \A k \in 1..Len(ins) : IsFunctionAround(root, t, ins[k].function)
      /\ \A x \in NodesOf(root) :
           IsFunctionAround(root, t, x) => \E k \in 1..Len(ins) : ins[k].function = x
      /\ \A j, k \in 1..Len(ins) : j < k => Len(ins[j].function) < Len(ins[k].function)
  BY DEF IsStack
<1>2. \A k \in 1..Len(ins2) : IsFunctionAround(root, u, ins2[k].function)
  BY <1>1
<1>3. \A x \in NodesOf(root) :
        IsFunctionAround(root, u, x) => \E k \in 1..Len(ins2) : ins2[k].function = x
  BY <1>1
<1>4. \A j, k \in 1..Len(ins2) : j < k => Len(ins2[j].function) < Len(ins2[k].function)
  BY <1>1
<1> QED BY <1>2, <1>3, <1>4 DEF IsStack

LEMMA StackStep ==
  ASSUME NEW root \in Program, NEW ents, NEW t, IsGenerated(root, t), NEW u, NEW ins, NEW ins2,
         NEW known, NEW known2, GeneratorStep(root, ents, t, u, ins, ins2, known, known2),
         IsStack(root, ins, t)
  PROVE  IsStack(root, ins2, u)
<1> DEFINE n == Len(ins)
           q == t.path
<1>1. ins \in Seq(Frame) /\ n \in Nat /\ q \in NodesOf(root) /\ q \in Path
  BY LenProperties DEF IsStack, IsGenerated, Tasks
<1>2. IsMove(root, t, u)
  BY DEF GeneratorStep, EntersNode, EntersFunction, EntersStep, SkipsNode, SkipsStep, OpensBlock,
         LeavesBranches, LeavesReturn, LeavesLambda, LeavesNode, IsMove
<1>3. t # Task(<<>>, "finish")
  BY <1>2, TaskFields DEF IsMove, Enters, Follows, StepsOn
<1>4. /\ \A k \in 1..n : IsFunctionAround(root, t, ins[k].function)
      /\ \A x \in NodesOf(root) :
           IsFunctionAround(root, t, x) => \E k \in 1..n : ins[k].function = x
      /\ \A j, k \in 1..n : j < k => Len(ins[j].function) < Len(ins[k].function)
  BY <1>3 DEF IsStack
<1>5. CASE u = Task(<<>>, "finish") /\ ins2 = ins
  BY <1>1, <1>4, <1>5 DEF IsStack
<1>6. ASSUME \A x : IsFunctionAround(root, u, x) <=> IsFunctionAround(root, t, x),
             ins2 = ins \/ \E yes \in BOOLEAN : ins2 = Reopened(ins, yes)
      PROVE  IsStack(root, ins2, u)
  <2>1. ins2 \in Seq(Frame) /\ Len(ins2) = n /\ \A k \in 1..n : ins2[k].function = ins[k].function
    BY <1>1, <1>6, ReopenedStack
  <2> QED BY <1>1, <1>3, <1>6, <2>1, SameStack
<1>7. ASSUME KindIn(root, q) \notin {"lambda", "main"}
      PROVE  \A x : IsFunctionAround(root, u, x) <=> IsFunctionAround(root, t, x)
  <2> SUFFICES ASSUME NEW x PROVE IsFunctionAround(root, u, x) <=> IsFunctionAround(root, t, x)
    OBVIOUS
  <2>1. IsFunctionAround(root, t, x) => x # q
    BY <1>7 DEF IsFunctionAround
  <2> QED BY <1>2, <1>7, <2>1, FunctionsAround DEF IsMove
<1>8. CASE EntersFunction(root, ents, t, u, ins, ins2, known2)
  <2>1. Enters(root, t, u) /\ KindIn(root, q) \in {"lambda", "main"} /\ t.step = "generate"
        /\ ins2 = Append(ins, [function |-> q, open |-> TRUE])
    BY <1>8 DEF EntersFunction, Enters
  <2>2. /\ ins2 \in Seq(Frame) /\ Len(ins2) = n + 1
        /\ \A k \in 1..n : ins2[k] = ins[k]
        /\ ins2[n + 1].function = q
    BY <1>1, <2>1, PushedStack
  <2>3. \A x : IsFunctionAround(root, u, x) <=> IsFunctionAround(root, t, x) \/ x = q
    BY <1>2, <2>1, FunctionsAround
  <2>4. \A k \in 1..n : ins[k].function \in Path /\ Len(ins[k].function) < Len(q)
    <3> SUFFICES ASSUME NEW k \in 1..n
                 PROVE  ins[k].function \in Path /\ Len(ins[k].function) < Len(q)
      OBVIOUS
    <3> DEFINE x == ins[k].function
    <3>1. IsFunctionAround(root, t, x)
      BY <1>4
    <3> HIDE DEF x
    <3>2. x \in Path /\ Under(q, x) /\ x # q
      BY <1>2, <2>1, <3>1, FunctionsAround
    <3>3. x \in Path /\ Len(x) < Len(q)
      BY <1>1, <3>2, UnderIsLonger
    <3> QED BY <3>3 DEF x
  <2> HIDE DEF n, q
  <2>5. \A k \in 1..Len(ins2) : IsFunctionAround(root, u, ins2[k].function)
    <3> SUFFICES ASSUME NEW k \in 1..(n + 1) PROVE IsFunctionAround(root, u, ins2[k].function)
      BY <2>2
    <3>1. k = n + 1 \/ k \in 1..n
      BY <1>1
    <3> QED BY <1>4, <2>2, <2>3, <3>1
  <2>6. \A x \in NodesOf(root) :
          IsFunctionAround(root, u, x) => \E k \in 1..Len(ins2) : ins2[k].function = x
    <3> SUFFICES ASSUME NEW x \in NodesOf(root), IsFunctionAround(root, u, x)
                 PROVE  \E k \in 1..(n + 1) : ins2[k].function = x
      BY <2>2
    <3>1. CASE x = q
      <4>1. n + 1 \in 1..(n + 1)
        BY <1>1
      <4> QED BY <2>2, <3>1, <4>1
    <3>2. CASE IsFunctionAround(root, t, x)
      <4>1. PICK k \in 1..n : ins[k].function = x
        BY <1>4, <3>2
      <4>2. k \in 1..(n + 1)
        BY <1>1
      <4> QED BY <2>2, <4>1, <4>2
    <3> QED BY <2>3, <3>1, <3>2
  <2>7. \A j, k \in 1..Len(ins2) : j < k => Len(ins2[j].function) < Len(ins2[k].function)
    <3> SUFFICES ASSUME NEW j \in 1..(n + 1), NEW k \in 1..(n + 1), j < k
                 PROVE  Len(ins2[j].function) < Len(ins2[k].function)
      BY <2>2
    <3>1. j \in 1..n /\ (k = n + 1 \/ k \in 1..n)
      BY <1>1
    <3> QED BY <1>4, <2>2, <2>4, <3>1
  <2> QED BY <2>2, <2>5, <2>6, <2>7 DEF IsStack
<1>9. CASE LeavesLambda(root, t, u, ins, ins2)
  <2>1. Follows(root, t, u) /\ KindIn(root, q) = "lambda" /\ t.step = "finish" /\ ins2 = Front(ins)
    BY <1>9 DEF LeavesLambda
  <2>2. IsFunctionAround(root, t, q)
    BY <1>1, <2>1, UnderItself DEF IsFunctionAround, IsInside
  <2>3. PICK last \in 1..n : ins[last].function = q
    BY <1>1, <1>4, <2>2
  <2>4. ins # <<>>
    <3>1. n # 0
      BY <1>1, <2>3
    <3> QED BY <3>1, EmptySeq
  <2>5. /\ ins2 \in Seq(Frame) /\ Len(ins2) = n - 1 /\ n >= 1
        /\ \A k \in 1..(n - 1) : ins2[k] = ins[k]
    BY <1>1, <2>1, <2>4, PoppedStack
  <2>6. last = n
    <3> SUFFICES ASSUME last # n PROVE FALSE
      OBVIOUS
    <3> DEFINE x == ins[n].function
    <3>1. n \in 1..n /\ last < n
      BY <1>1, <2>5
    <3>2. IsFunctionAround(root, t, x) /\ Len(q) < Len(x)
      BY <1>4, <2>3, <3>1
    <3> HIDE DEF x
    <3>3. x \in Path /\ Under(q, x)
      BY <1>2, <3>2, FunctionsAround
    <3>4. Len(x) <= Len(q) /\ Len(x) \in Nat /\ Len(q) \in Nat
      BY <1>1, <3>3, UnderIsLonger
    <3> QED BY <3>2, <3>4
  <2>7. \A x : IsFunctionAround(root, u, x) <=> IsFunctionAround(root, t, x) /\ x # q
    BY <1>2, <2>1, FunctionsAround
  <2> HIDE DEF n, q
  <2>8. \A k \in 1..(n - 1) : k \in 1..n /\ k < n /\ n \in 1..n
    BY <1>1, <2>5
  <2>9. \A k \in 1..(n - 1) : ins[k].function # q
    <3> SUFFICES ASSUME NEW k \in 1..(n - 1), ins[k].function = q PROVE FALSE
      OBVIOUS
    <3>1. Len(q) < Len(q)
      BY <1>4, <2>3, <2>6, <2>8
    <3>2. Len(q) \in Nat
      BY <1>1, LenProperties DEF Path
    <3> QED BY <3>1, <3>2
  <2>10. \A k \in 1..Len(ins2) : IsFunctionAround(root, u, ins2[k].function)
    BY <1>4, <2>5, <2>7, <2>8, <2>9
  <2>11. \A x \in NodesOf(root) :
           IsFunctionAround(root, u, x) => \E k \in 1..Len(ins2) : ins2[k].function = x
    <3> SUFFICES ASSUME NEW x \in NodesOf(root), IsFunctionAround(root, u, x)
                 PROVE  \E k \in 1..(n - 1) : ins2[k].function = x
      BY <2>5
    <3>1. PICK k \in 1..n : ins[k].function = x
      BY <1>4, <2>7
    <3>2. k # n
      BY <2>3, <2>6, <2>7, <3>1
    <3>3. k \in 1..(n - 1)
      BY <1>1, <3>2
    <3> QED BY <2>5, <3>1, <3>3
  <2>12. \A j, k \in 1..Len(ins2) : j < k => Len(ins2[j].function) < Len(ins2[k].function)
    BY <1>4, <2>5, <2>8
  <2> QED BY <2>5, <2>10, <2>11, <2>12 DEF IsStack
<1>10. CASE KindIn(root, q) = "main" /\ LeavesNode(root, ents, t, u, ins, ins2, known2)
  <2>1. u = Task(<<>>, "finish") /\ ins2 = ins
    BY <1>10, MainIsLast DEF LeavesNode
  <2> QED BY <1>5, <2>1
<1>11. CASE KindIn(root, q) # "main" /\ LeavesNode(root, ents, t, u, ins, ins2, known2)
  BY <1>6, <1>7, <1>11 DEF LeavesNode
<1>12. CASE \/ EntersNode(root, t, u, ins, ins2) \/ SkipsNode(root, t, u, ins, ins2)
            \/ LeavesBranches(root, t, u, ins, ins2) \/ LeavesReturn(root, t, u, ins, ins2)
  <2>1. KindIn(root, q) \notin {"lambda", "main"} /\ (ins2 = ins \/ \E yes \in BOOLEAN : ins2 = Reopened(ins, yes))
    BY <1>12 DEF EntersNode, SkipsNode, LeavesBranches, LeavesReturn, Skipped
  <2> QED BY <1>6, <1>7, <2>1
<1>13. CASE EntersStep(root, t, u, ins, ins2) \/ SkipsStep(root, t, u, ins, ins2)
  <2>1. t.step = "step" /\ ins2 = ins
    BY <1>13 DEF EntersStep, SkipsStep, StepsOn
  <2>2. KindIn(root, q) = "for"
    BY <2>1 DEF IsGenerated
  <2> QED BY <1>6, <1>7, <2>1, <2>2
<1>14. CASE OpensBlock(root, t, u, ins, ins2)
  <2>1. Follows(root, t, u) /\ t.step = "open" /\ ins2 = Reopened(ins, TRUE)
    BY <1>14 DEF OpensBlock
  <2>2. \A x : IsFunctionAround(root, u, x) <=> IsFunctionAround(root, t, x)
    BY <1>2, <2>1, FunctionsAround
  <2> QED BY <1>6, <2>1, <2>2
<1> QED BY <1>8, <1>9, <1>10, <1>11, <1>12, <1>13, <1>14 DEF GeneratorStep

\* The statements of a block.
LEMMA StatementOfBlock ==
  ASSUME NEW root \in Program, NEW t, IsGenerated(root, t), t.step = "generate", Tolerant(root, t)
  PROVE  /\ t.path # <<>> /\ Parent(t.path) \in NodesOf(root) /\ Parent(t.path) \in Path
         /\ KindIn(root, Parent(t.path)) = "block" /\ KindIn(root, t.path) \in Statements
<1>1. t.path # <<>> /\ KindIn(root, Parent(t.path)) = "block" /\ t.path \in NodesOf(root)
  BY DEF Tolerant, IsGenerated
<1>2. /\ Parent(t.path) \in NodesOf(root) /\ Parent(t.path) \in Path
      /\ IsPlaced(KindIn(root, t.path), Last(t.path), "block", Arity(root, Parent(t.path)))
  BY <1>1, ParentNode
<1>3. KindIn(root, t.path) \in Statements
  BY <1>2, Zenon DEF IsPlaced
<1> QED BY <1>1, <1>2, <1>3

\* Behind a terminator, nodes that are not skipped are blocks, and what is finished may be.
LEMMA EndedNodes ==
  ASSUME NEW root \in Program, NEW t, IsGenerated(root, t), Tolerant(root, t), NEW u, NEW ins, HasEnded(ins)
  PROVE  /\ EntersNode(root, t, u, ins, ins) => KindIn(root, t.path) = "block"
         /\ t.step = "generate" => KindIn(root, t.path) \notin {"lambda", "main"}
         /\ t.step = "finish" =>
              KindIn(root, t.path) \in {"if", "while", "for", "block", "lambda", "main", "program"}
<1>1. CASE t.step = "generate"
  <2>1. KindIn(root, t.path) \in Statements
    BY <1>1, StatementOfBlock
  <2>2. EntersNode(root, t, u, ins, ins) => KindIn(root, t.path) \notin Skipped
    BY DEF EntersNode, HasEnded
  <2> QED BY <1>1, <2>1, <2>2 DEF Statements, Skipped
<1>2. CASE t.step # "generate"
  BY <1>2 DEF Tolerant, EntersNode, Enters
<1> QED BY <1>1, <1>2

LEMMA EndedStep ==
  ASSUME NEW root \in Program, NEW ents, NEW t, IsGenerated(root, t), NEW u, NEW ins, NEW ins2,
         NEW known, NEW known2, GeneratorStep(root, ents, t, u, ins, ins2, known, known2),
         IsStack(root, ins, t), IsEnded(root, ins, t)
  PROVE  IsEnded(root, ins2, u)
<1> DEFINE n == Len(ins)
           q == t.path
           k == KindIn(root, q)
           Below(s) == \A i \in 1..Len(s) : i < Len(s) => s[i].open = TRUE
<1>1. ins \in Seq(Frame) /\ n \in Nat /\ q \in NodesOf(root) /\ q \in Path
  BY LenProperties DEF IsStack, IsGenerated, Tasks
<1>2. Below(ins) /\ (HasEnded(ins) => Tolerant(root, t))
  BY DEF IsEnded
<1>3. ASSUME NEW yes \in BOOLEAN, ins2 = Reopened(ins, yes)
      PROVE  /\ Below(ins2)
             /\ yes => ~HasEnded(ins2)
  <2>1. /\ Len(ins2) = n /\ \A i \in 1..n : i # n => ins2[i] = ins[i]
        /\ ins # <<>> => Last(ins2).open = yes
        /\ ins = <<>> => ins2 = <<>>
    BY <1>1, <1>3, ReopenedStack
  <2>2. Below(ins2)
    BY <1>1, <1>2, <2>1
  <2>3. yes => ~HasEnded(ins2)
    BY <2>1 DEF HasEnded
  <2> QED BY <2>2, <2>3
<1>4. CASE EntersNode(root, t, u, ins, ins2)
  <2>1. ins2 = ins /\ t.step = "generate" /\ IsNext(root, q, 0, u)
    BY <1>4 DEF EntersNode, Enters
  <2>2. ASSUME HasEnded(ins) PROVE Tolerant(root, u)
    <3>1. k = "block"
      BY <1>2, <1>4, <2>1, <2>2, EndedNodes
    <3> QED BY <1>1, <2>1, <3>1, TolerantInBlock
  <2> QED BY <1>2, <2>1, <2>2 DEF IsEnded
<1>5. CASE EntersFunction(root, ents, t, u, ins, ins2, known2)
  <2>1. t.step = "generate" /\ k \in {"lambda", "main"} /\ ins2 = Append(ins, [function |-> q, open |-> TRUE])
    BY <1>5 DEF EntersFunction, Enters
  <2>2. ~HasEnded(ins)
    BY <1>2, <2>1, EndedNodes
  <2>3. /\ Len(ins2) = n + 1 /\ \A i \in 1..n : ins2[i] = ins[i]
        /\ Last(ins2).open = TRUE
    BY <1>1, <2>1, PushedStack
  <2>4. ASSUME NEW i \in 1..(n + 1), i < n + 1 PROVE ins[i].open = TRUE
    <3>1. i \in 1..n
      BY <1>1, <2>4
    <3>2. CASE i = n
      <4>1. ins # <<>> /\ ins[n] \in Frame
        BY <1>1, <3>1, <3>2, EmptySeq, ElementOfSeq
      <4>2. ins[n].open
        BY <2>2, <4>1, Zenon DEF HasEnded, Last
      <4>3. ins[n].open \in BOOLEAN
        BY <4>1 DEF Frame
      <4> QED BY <3>2, <4>2, <4>3
    <3>3. CASE i # n
      BY <1>1, <1>2, <3>1, <3>3
    <3> QED BY <3>2, <3>3
  <2>5. Below(ins2)
    <3> SUFFICES ASSUME NEW i \in 1..(n + 1), i < n + 1 PROVE ins2[i].open = TRUE
      BY <2>3
    <3>1. i \in 1..n
      BY <1>1
    <3> QED BY <2>3, <2>4, <3>1
  <2>6. ~HasEnded(ins2)
    BY <2>3 DEF HasEnded
  <2> QED BY <2>5, <2>6 DEF IsEnded
<1>6. CASE EntersStep(root, t, u, ins, ins2)
  <2>1. ins2 = ins /\ ~HasEnded(ins)
    BY <1>6 DEF EntersStep, HasEnded
  <2> QED BY <1>2, <2>1 DEF IsEnded
<1>7. CASE SkipsNode(root, t, u, ins, ins2)
  <2>1. ins2 = ins /\ t.step = "generate" /\ IsNext(root, Parent(q), Rank(root, Parent(q), Last(q)), u)
    BY <1>7 DEF SkipsNode, Follows
  <2>2. ASSUME HasEnded(ins) PROVE Tolerant(root, u)
    <3>1. Parent(q) \in NodesOf(root) /\ KindIn(root, Parent(q)) = "block"
      BY <1>2, <2>1, <2>2, StatementOfBlock
    <3> QED BY <2>1, <3>1, TolerantInBlock
  <2> QED BY <1>2, <2>1, <2>2 DEF IsEnded
<1>8. CASE SkipsStep(root, t, u, ins, ins2)
  <2>1. ins2 = ins /\ t.step = "step" /\ u = Task(q, "finish")
    BY <1>8 DEF SkipsStep, Follows
  <2>2. k = "for"
    BY <2>1 DEF IsGenerated
  <2>3. Tolerant(root, u)
    BY <2>1, <2>2, TaskFields DEF Tolerant
  <2> QED BY <1>2, <2>1, <2>3 DEF IsEnded
<1>9. CASE OpensBlock(root, t, u, ins, ins2) \/ LeavesBranches(root, t, u, ins, ins2)
  <2>1. ins2 = Reopened(ins, TRUE)
    BY <1>9 DEF OpensBlock, LeavesBranches
  <2> QED BY <1>3, <2>1 DEF IsEnded
<1>10. CASE LeavesReturn(root, t, u, ins, ins2)
  <2>1. ins2 = Reopened(ins, FALSE) /\ t.step = "finish" /\ k = "return" /\ Follows(root, t, u)
    BY <1>10 DEF LeavesReturn
  <2>2. Tolerant(root, u)
    BY <1>1, <2>1, StatementFollowed
  <2> QED BY <1>3, <2>1, <2>2 DEF IsEnded
<1>11. CASE LeavesLambda(root, t, u, ins, ins2)
  <2>1. Follows(root, t, u) /\ k = "lambda" /\ t.step = "finish" /\ ins2 = Front(ins)
    BY <1>11 DEF LeavesLambda
  <2>2. ins # <<>>
    <3>1. IsFunctionAround(root, t, q) /\ t # Task(<<>>, "finish")
      BY <1>1, <2>1, UnderItself, TaskFields DEF IsFunctionAround, IsInside, Follows
    <3>2. \E i \in 1..n : ins[i].function = q
      BY <1>1, <3>1 DEF IsStack
    <3>3. n # 0
      BY <1>1, <3>2
    <3> QED BY <3>3, EmptySeq
  <2>3. Len(ins2) = n - 1 /\ n >= 1 /\ \A i \in 1..(n - 1) : ins2[i] = ins[i]
    BY <1>1, <2>1, <2>2, PoppedStack
  <2>4. \A i \in 1..(n - 1) : ins2[i].open = TRUE
    <3> SUFFICES ASSUME NEW i \in 1..(n - 1) PROVE ins2[i].open = TRUE
      OBVIOUS
    <3>1. i \in 1..n /\ i < n
      BY <1>1
    <3> QED BY <1>2, <2>3, <3>1
  <2>5. Below(ins2)
    BY <2>3, <2>4
  <2>6. ~HasEnded(ins2)
    <3> SUFFICES ASSUME ins2 # <<>> PROVE Last(ins2).open = TRUE
      BY DEF HasEnded
    <3>1. ins2 \in Seq(Frame)
      BY <1>1, <2>1, <2>2, PoppedStack
    <3>2. n - 1 \in 1..(n - 1)
      BY <1>1, <2>3, <3>1, EmptySeq
    <3> QED BY <2>3, <2>4, <3>2 DEF Last
  <2> QED BY <2>5, <2>6 DEF IsEnded
<1>12. CASE LeavesNode(root, ents, t, u, ins, ins2, known2)
  <2>1. /\ Follows(root, t, u) /\ t.step = "finish" /\ ins2 = ins
        /\ k \notin {"if", "while", "for", "return", "lambda"}
    BY <1>12 DEF LeavesNode
  <2>2. ASSUME HasEnded(ins) PROVE Tolerant(root, u)
    <3>1. k \in {"block", "main", "program"}
      <4>1. k \in {"if", "while", "for", "block", "lambda", "main", "program"}
        BY <1>2, <2>1, <2>2, EndedNodes
      <4> QED BY <2>1, <4>1
    <3>2. CASE k = "block"
      BY <1>1, <2>1, <3>2, StatementFollowed
    <3>3. CASE k = "main"
      <4>1. u = Task(<<>>, "finish")
        BY <2>1, <3>3, MainIsLast
      <4> QED BY <4>1, RootNode, TaskFields DEF Tolerant
    <3>4. CASE k = "program"
      <4>1. q # <<>>
        BY <2>1 DEF Follows
      <4>2. IsPlaced("program", Last(q), KindIn(root, Parent(q)), Arity(root, Parent(q)))
        BY <1>1, <3>4, <4>1, ParentNode
      <4> QED BY <4>2, Zenon DEF IsPlaced, Expressions, Statements, TypeKinds
    <3> QED BY <3>1, <3>2, <3>3, <3>4
  <2> QED BY <1>2, <2>1, <2>2 DEF IsEnded
<1> QED BY <1>4, <1>5, <1>6, <1>7, <1>8, <1>9, <1>10, <1>11, <1>12 DEF GeneratorStep

-----------------------------------------------------------------------------
(* What is known, when code is generated for a name.                       *)

LEMMA ParametersStep ==
  ASSUME NEW root \in Program, NEW ents, NEW t, IsGenerated(root, t), NEW u, NEW ins, NEW ins2,
         NEW known, NEW known2, GeneratorStep(root, ents, t, u, ins, ins2, known, known2),
         KnowsParameters(root, ents, t, known)
  PROVE  KnowsParameters(root, ents, u, known2)
<1> SUFFICES ASSUME NEW l \in NodesOf(root), KindIn(root, l) = "lambda", IsInside(u, l),
                    NEW i \in 1..(Arity(root, l) - 2)
             PROVE  ents[Child(Child(l, i), 2)] \in known2
  BY DEF KnowsParameters
<1>1. IsMove(root, t, u) /\ known \subseteq known2
  BY DEF GeneratorStep, EntersNode, EntersFunction, EntersStep, SkipsNode, SkipsStep, OpensBlock,
         LeavesBranches, LeavesReturn, LeavesLambda, LeavesNode, IsMove
<1>2. CASE IsInside(t, l)
  BY <1>1, <1>2 DEF KnowsParameters
<1>3. CASE ~IsInside(t, l)
  <2>1. l = t.path /\ Enters(root, t, u)
    <3>1. IsFunctionAround(root, u, l) /\ ~IsFunctionAround(root, t, l)
      BY <1>3 DEF IsFunctionAround
    <3> QED BY <1>1, <3>1, FunctionsAround DEF IsMove
  <2>2. ~EntersNode(root, t, u, ins, ins2)
    BY <2>1 DEF EntersNode
  <2>3. t.step = "generate"
    BY <2>1 DEF Enters
  <2>4. ~EntersStep(root, t, u, ins, ins2) /\ ~SkipsNode(root, t, u, ins, ins2)
        /\ ~SkipsStep(root, t, u, ins, ins2) /\ ~OpensBlock(root, t, u, ins, ins2)
        /\ ~LeavesBranches(root, t, u, ins, ins2) /\ ~LeavesReturn(root, t, u, ins, ins2)
        /\ ~LeavesLambda(root, t, u, ins, ins2) /\ ~LeavesNode(root, ents, t, u, ins, ins2, known2)
    BY <2>1, <2>3 DEF EntersStep, StepsOn, SkipsNode, Skipped, SkipsStep, OpensBlock, LeavesBranches,
                      LeavesReturn, LeavesLambda, LeavesNode
  <2>5. EntersFunction(root, ents, t, u, ins, ins2, known2)
    BY <2>2, <2>4 DEF GeneratorStep
  <2> QED BY <2>1, <2>5 DEF EntersFunction
<1> QED BY <1>2, <1>3

\* A node at which the generator goes on in a block, behind a return.
LEMMA DeadInBlock ==
  ASSUME NEW root \in Program, NEW r \in NodesOf(root), KindIn(root, r) = "block", NEW i, NEW u,
         IsNext(root, r, i, u), NEW ins, HasEnded(ins), NEW p, NEW b \in NodesOf(root), Under(p, b), Under(r, b),
         \A x \in NodesOf(root) : Under(r, x) /\ Under(x, b) => KindIn(root, x) = "block"
  PROVE  IsDead(root, ins, u, p)
<1>1. u.step \in {"generate", "finish"}
  BY TolerantInBlock
<1>2. r \in Path /\ b \in Path
  BY DEF NodesOf
<1>3. IsInside(u, b)
  BY <1>2, InsideNext
<1>4. \A x \in NodesOf(root) : IsInside(u, x) /\ Under(x, b) => KindIn(root, x) = "block"
  <2> SUFFICES ASSUME NEW x \in NodesOf(root), IsInside(u, x), Under(x, b)
               PROVE  KindIn(root, x) = "block"
    OBVIOUS
  <2>1. x \in Path
    BY DEF NodesOf
  <2>2. Under(r, x)
    BY <2>1, InsideNext
  <2> QED BY <2>2
<1> QED BY <1>1, <1>3, <1>4 DEF IsDead

\* Dead code stays dead, up to the end of the block.
LEMMA DeadStep ==
  ASSUME NEW root \in Program, NEW ents, NEW t, IsGenerated(root, t), NEW u, NEW ins, NEW ins2,
         NEW known, NEW known2, GeneratorStep(root, ents, t, u, ins, ins2, known, known2),
         IsEnded(root, ins, t), NEW p \in NodesOf(root), IsDead(root, ins, t, p), Pending(root, u, p)
  PROVE  IsDead(root, ins2, u, p)
<1> DEFINE q == t.path
           k == KindIn(root, q)
           r == Parent(q)
<1>1. q \in NodesOf(root) /\ q \in Path /\ p \in Path
  BY DEF IsGenerated, Tasks, NodesOf
<1>2. HasEnded(ins) /\ t.step \in {"generate", "finish"} /\ Tolerant(root, t)
  BY DEF IsDead, IsEnded
<1>3. PICK b \in NodesOf(root) :
        /\ Under(p, b) /\ IsInside(t, b)
        /\ \A x \in NodesOf(root) : IsInside(t, x) /\ Under(x, b) => KindIn(root, x) = "block"
  BY DEF IsDead
<1>4. b \in Path /\ Under(q, b) /\ (b # q \/ t.step = "finish") /\ Under(q, q)
  BY <1>1, <1>3, UnderItself DEF IsInside, NodesOf
<1>5. ASSUME Follows(root, t, u), b # q
      PROVE  /\ r \in NodesOf(root) /\ r \in Path /\ Under(r, b) /\ KindIn(root, r) = "block"
             /\ IsNext(root, r, Rank(root, r, Last(q)), u)
             /\ \A x \in NodesOf(root) : Under(r, x) /\ Under(x, b) => KindIn(root, x) = "block"
  <2>1. q # <<>> /\ IsNext(root, r, Rank(root, r, Last(q)), u)
    BY <1>2, <1>5 DEF Follows
  <2>2. r \in NodesOf(root) /\ r \in Path /\ Child(r, Last(q)) = q /\ Last(q) \in Positive
    BY <1>1, <2>1, ParentNode
  <2>3. ~Under(r, q)
    BY <2>2, AroundChild
  <2>4. Under(r, b)
    BY <1>1, <1>4, <1>5, <2>1, UnderParent
  <2>5. \A x \in NodesOf(root) : Under(r, x) => IsInside(t, x)
    <3> SUFFICES ASSUME NEW x \in NodesOf(root), Under(r, x) PROVE IsInside(t, x)
      OBVIOUS
    <3>1. x \in Path
      BY DEF NodesOf
    <3>2. Under(q, x)
      BY <1>1, <2>1, <3>1, UnderParent
    <3> QED BY <2>3, <3>2 DEF IsInside
  <2>6. \A x \in NodesOf(root) : Under(r, x) /\ Under(x, b) => KindIn(root, x) = "block"
    BY <1>3, <2>5
  <2>7. KindIn(root, r) = "block"
    BY <2>2, <2>4, <2>6, UnderItself
  <2> QED BY <2>1, <2>2, <2>4, <2>6, <2>7
<1>6. CASE EntersNode(root, t, u, ins, ins2)
  <2>1. ins2 = ins /\ t.step = "generate" /\ IsNext(root, q, 0, u)
    BY <1>6 DEF EntersNode, Enters
  <2>2. k = "block"
    BY <1>2, <1>6, <2>1, EndedNodes
  <2>3. \A x \in NodesOf(root) : Under(q, x) /\ Under(x, b) => KindIn(root, x) = "block"
    <3> SUFFICES ASSUME NEW x \in NodesOf(root), Under(q, x), Under(x, b), x # q
                 PROVE  KindIn(root, x) = "block"
      BY <2>2
    <3>1. IsInside(t, x)
      BY DEF IsInside
    <3> QED BY <1>3, <3>1
  <2> HIDE DEF q
  <2> QED BY <1>1, <1>2, <1>3, <1>4, <2>1, <2>2, <2>3, DeadInBlock DEF k
<1>7. CASE SkipsNode(root, t, u, ins, ins2)
  <2>1. Follows(root, t, u) /\ ins2 = ins /\ b # q
    BY <1>4, <1>7 DEF SkipsNode
  <2> HIDE DEF r
  <2> QED BY <1>2, <1>3, <1>5, <2>1, DeadInBlock
<1>8. ASSUME t.step = "finish", Follows(root, t, u), ins2 = ins
      PROVE  IsDead(root, ins2, u, p)
  <2>1. b # q
    <3> SUFFICES ASSUME b = q PROVE FALSE
      OBVIOUS
    <3>1. Later(root, q, p) \/ Under(r, p)
      BY <1>1, <1>8, TaskThatFollows
    <3>2. ~Later(root, q, p)
      BY <1>1, <1>3, NotLaterThanAround
    <3>3. q # <<>>
      BY <1>8 DEF Follows
    <3>4. r \in Path /\ Child(r, Last(q)) = q /\ Last(q) \in Positive
      BY <1>1, <3>3, ParentNode
    <3>5. Under(r, q)
      BY <1>1, <1>3, <3>1, <3>2, <3>4, UnderTransitive
    <3> QED BY <3>4, <3>5, AroundChild
  <2> HIDE DEF r
  <2> QED BY <1>2, <1>3, <1>5, <1>8, <2>1, DeadInBlock
<1>9. t.step = "finish" => k = "block"
  BY <1>1, <1>3, <1>4 DEF IsInside
<1>10. ~EntersFunction(root, ents, t, u, ins, ins2, known2) /\ ~EntersStep(root, t, u, ins, ins2)
       /\ ~SkipsStep(root, t, u, ins, ins2) /\ ~OpensBlock(root, t, u, ins, ins2)
       /\ ~LeavesBranches(root, t, u, ins, ins2) /\ ~LeavesReturn(root, t, u, ins, ins2)
       /\ ~LeavesLambda(root, t, u, ins, ins2)
  <2>1. ~EntersFunction(root, ents, t, u, ins, ins2, known2)
    BY <1>2, EndedNodes DEF EntersFunction, Enters
  <2> QED BY <1>2, <1>9, <2>1 DEF EntersStep, StepsOn, SkipsStep, OpensBlock, LeavesBranches,
                                  LeavesReturn, LeavesLambda
<1> QED BY <1>6, <1>7, <1>8, <1>10 DEF GeneratorStep, LeavesNode

LEMMA VariablesStep ==
  ASSUME NEW root \in Program, NEW ents, NEW t, IsGenerated(root, t), NEW u, NEW ins, NEW ins2,
         NEW known, NEW known2, GeneratorStep(root, ents, t, u, ins, ins2, known, known2),
         IsStack(root, ins, t), IsEnded(root, ins, t), KnowsVariables(root, ents, t, ins, known),
         \A x \in NodesOf(root) : KindIn(root, x) \in Skipped =>
           \E f \in NodesOf(root) : KindIn(root, f) \in {"lambda", "main"} /\ Under(x, f) /\ x # f
  PROVE  KnowsVariables(root, ents, u, ins2, known2)
<1> SUFFICES ASSUME NEW s \in NodesOf(root), NEW p \in NodesOf(root),
                    KindIn(root, s) = "declaration", KindIn(root, p) = "identifier",
                    InScopeOf(root, s, p), Pending(root, u, p),
                    ents[Child(s, 1)] \notin known2, ~Pending(root, u, s)
             PROVE  IsDead(root, ins2, u, p)
  BY DEF KnowsVariables
<1> DEFINE q == t.path
           k == KindIn(root, q)
           r == Parent(q)
<1>1. q \in NodesOf(root) /\ q \in Path /\ p \in Path /\ s \in Path
  BY DEF IsGenerated, Tasks, NodesOf
<1>2. IsMove(root, t, u) /\ known \subseteq known2
  BY DEF GeneratorStep, EntersNode, EntersFunction, EntersStep, SkipsNode, SkipsStep, OpensBlock,
         LeavesBranches, LeavesReturn, LeavesLambda, LeavesNode, IsMove
<1>3. Pending(root, t, p)
  BY <1>1, <1>2, PendingShrinks
<1>4. Pending(root, t, s) \/ IsDead(root, ins, t, p)
  BY <1>2, <1>3 DEF KnowsVariables
<1>5. CASE IsDead(root, ins, t, p)
  BY <1>5, DeadStep
<1>6. ASSUME Pending(root, t, s) PROVE IsDead(root, ins2, u, p)
  <2>1. /\ Follows(root, t, u) /\ ~Enters(root, t, u) /\ ~StepsOn(root, t, u)
        /\ \/ t.step = "generate" /\ q # <<>> /\ Under(s, q)
           \/ t.step = "step" /\ Under(s, Child(q, 3))
           \/ t.step = "finish" /\ s = q
    BY <1>2, <1>6, LostDeclarations
  <2>2. ASSUME k \in Skipped, t.step # "finish", ~Last(ins).open
        PROVE  HasEnded(ins) /\ Tolerant(root, t)
    <3>1. PICK f \in NodesOf(root) : KindIn(root, f) \in {"lambda", "main"} /\ Under(q, f) /\ q # f
      BY <1>1, <2>2
    <3>2. IsFunctionAround(root, t, f)
      BY <3>1 DEF IsFunctionAround, IsInside
    <3>3. t # Task(<<>>, "finish")
      BY <2>2, TaskFields
    <3>4. ins \in Seq(Frame) /\ Len(ins) \in Nat /\ \E i \in 1..Len(ins) : ins[i].function = f
      BY <3>2, <3>3, LenProperties DEF IsStack
    <3>5. ins # <<>>
      <4>1. Len(ins) # 0
        BY <3>4
      <4> QED BY <4>1, EmptySeq
    <3> QED BY <2>2, <3>5 DEF HasEnded, IsEnded
  <2>3. CASE t.step = "generate"
    <3>1. SkipsNode(root, t, u, ins, ins2)
      BY <2>1, <2>3 DEF GeneratorStep, EntersNode, EntersFunction, EntersStep, SkipsStep, OpensBlock,
                        LeavesBranches, LeavesReturn, LeavesLambda, LeavesNode
    <3>2. ins2 = ins /\ k \in Skipped /\ ~Last(ins).open /\ IsNext(root, r, Rank(root, r, Last(q)), u)
      BY <2>3, <3>1 DEF SkipsNode, Follows
    <3>3. HasEnded(ins) /\ Tolerant(root, t)
      BY <2>2, <2>3, <3>2
    <3>4. r \in NodesOf(root) /\ r \in Path /\ KindIn(root, r) = "block"
      BY <2>3, <3>3, StatementOfBlock
    <3>5. Under(s, r)
      BY <1>1, <2>1, <2>3, <3>4, UnderParent, UnderItself, UnderTransitive
    <3>6. Under(p, r)
      BY <3>4, <3>5 DEF InScopeOf, ScopeKinds
    <3>7. Under(r, r)
      BY <3>4, UnderItself
    <3>8. \A x \in NodesOf(root) : Under(r, x) /\ Under(x, r) => KindIn(root, x) = "block"
      <4> SUFFICES ASSUME NEW x \in NodesOf(root), Under(r, x), Under(x, r)
                   PROVE  KindIn(root, x) = "block"
        OBVIOUS
      <4>1. x = r
        BY <3>4, UnderAntisymmetric DEF NodesOf
      <4> QED BY <3>4, <4>1
    <3> HIDE DEF r
    <3> QED BY <3>2, <3>3, <3>4, <3>6, <3>7, <3>8, DeadInBlock
  <2>4. CASE t.step = "step"
    <3>1. SkipsStep(root, t, u, ins, ins2)
      BY <2>1, <2>4 DEF GeneratorStep, EntersNode, EntersFunction, EntersStep, SkipsNode, OpensBlock,
                        LeavesBranches, LeavesReturn, LeavesLambda, LeavesNode
    <3>2. k = "for" /\ 3 \in 1..Arity(root, q)
      BY <2>4, StepNode
    <3>3. Under(s, q)
      <4>1. 3 \in Positive
        BY <1>1, <3>2, ChildNode
      <4> QED BY <1>1, <2>1, <2>4, <4>1, AroundChild
    <3>4. Under(p, q)
      BY <1>1, <3>2, <3>3 DEF InScopeOf, ScopeKinds
    <3>5. Later(root, q, p) \/ Under(q, p)
      BY <1>1, <2>1, <2>4, TaskThatFollows
    <3>6. Under(q, p)
      BY <1>1, <3>4, <3>5, NotLaterThanAround
    <3>7. p = q
      BY <1>1, <3>4, <3>6, UnderAntisymmetric
    <3> QED BY <3>2, <3>7
  <2>5. CASE t.step = "finish"
    <3>1. s = q /\ k = "declaration"
      BY <2>1, <2>5
    <3>2. LeavesNode(root, ents, t, u, ins, ins2, known2)
      BY <2>1, <2>5, <3>1 DEF GeneratorStep, EntersNode, EntersFunction, EntersStep, SkipsNode,
                        SkipsStep, OpensBlock, LeavesBranches, LeavesReturn, LeavesLambda
    <3> QED BY <3>1, <3>2 DEF LeavesNode
  <2> QED BY <2>1, <2>3, <2>4, <2>5
<1> QED BY <1>4, <1>5, <1>6

LEMMA UnderRoot ==
  ASSUME NEW p \in Path
  PROVE  Under(p, <<>>) /\ (Under(<<>>, p) => p = <<>>)
<1>1. Len(p) \in Nat /\ Len(<<>>) = 0
  BY LenProperties, EmptySeq DEF Path
<1>2. Under(p, <<>>)
  BY <1>1 DEF Under
<1>3. Under(<<>>, p) => Len(p) = 0
  BY <1>1 DEF Under
<1>4. Len(p) = 0 => p = <<>>
  BY EmptySeq DEF Path
<1> QED BY <1>2, <1>3, <1>4

\* Statements are parts of functions.
LEMMA SkippedInFunctions ==
  ASSUME NEW root \in Program, NEW x \in NodesOf(root), KindIn(root, x) \in Skipped
  PROVE  \E f \in NodesOf(root) : KindIn(root, f) \in {"lambda", "main"} /\ Under(x, f) /\ x # f
<1> DEFINE S == {"program", "function"}
<1>1. x \in Path /\ <<>> \in Path /\ Under(x, <<>>) /\ KindIn(root, <<>>) \in S
  BY UnderRoot, RootNode DEF NodesOf
<1>2. KindIn(root, x) \notin S \cup {"lambda", "main", "identifier"}
  BY DEF Skipped
<1> HIDE DEF S
<1>3. PICK q \in NodesOf(root) : \E i \in 1..Arity(root, q) :
        /\ Under(x, Child(q, i)) /\ KindIn(root, q) \in S /\ KindIn(root, Child(q, i)) \notin S
  <2>1. KindIn(root, x) \notin S
    BY <1>2
  <2>2. \E q \in NodesOf(root) : \E i \in 1..Arity(root, q) :
           /\ Under(q, <<>>) /\ Under(x, Child(q, i))
           /\ KindIn(root, q) \in S /\ KindIn(root, Child(q, i)) \notin S
    BY <1>1, <2>1, WayOut
  <2> QED BY <2>2
<1>0. PICK i \in 1..Arity(root, q) :
        /\ Under(x, Child(q, i)) /\ KindIn(root, q) \in S /\ KindIn(root, Child(q, i)) \notin S
  BY <1>3
<1> DEFINE c == Child(q, i)
<1>4. c \in NodesOf(root) /\ IsPlaced(KindIn(root, c), i, KindIn(root, q), Arity(root, q))
  BY ChildNode
<1>5. KindIn(root, c) \in {"main", "lambda", "identifier"}
  BY <1>0, <1>4 DEF IsPlaced, S
<1>6. KindIn(root, c) # "identifier"
  <2> SUFFICES ASSUME KindIn(root, c) = "identifier" PROVE FALSE
    OBVIOUS
  <2>1. KindIn(root, c) \in LeafKinds
    BY DEF LeafKinds
  <2>2. x = c
    BY <1>0, <1>4, <2>1, NothingBelowLeaf DEF KindIn
  <2> QED BY <1>2, <2>2
<1> QED BY <1>0, <1>2, <1>4, <1>5, <1>6

LEMMA OrderOfChildren ==
  ASSUME NEW q \in Path, NEW i \in Positive, NEW j \in Positive, NEW a \in Path, NEW b \in Path,
         Under(a, Child(q, i)), Under(b, Child(q, j))
  PROVE  (i < j => Precedes(a, b)) /\ (i # j => ~Under(a, Child(q, j)))
<1> DEFINE n == Len(q)
<1>1. Under(a, q) /\ a # q /\ a[n + 1] = i
  BY AroundChild
<1>2. Under(b, q) /\ b # q /\ b[n + 1] = j
  BY AroundChild
<1>3. i # j => ~Under(a, Child(q, j))
  BY <1>1, AroundChild
<1>4. n \in Nat /\ Len(a) \in Nat /\ Len(b) \in Nat
  BY LenProperties DEF Path
<1>5. n + 1 \in 1..Len(a) /\ n + 1 <= Len(b)
  <2>1. Child(q, i) \in Path /\ Len(Child(q, i)) = n + 1 /\ Child(q, j) \in Path /\ Len(Child(q, j)) = n + 1
    BY ChildPath
  <2>2. n + 1 <= Len(a) /\ n + 1 <= Len(b)
    BY <2>1 DEF Under
  <2> QED BY <1>4, <2>2
<1>6. \A k \in 1..((n + 1) - 1) : a[k] = b[k]
  <2>1. (n + 1) - 1 = n
    BY <1>4
  <2>2. \A k \in 1..n : a[k] = q[k] /\ b[k] = q[k]
    BY <1>1, <1>2 DEF Under
  <2> QED BY <2>1, <2>2
<1> HIDE DEF n
<1>7. i < j => Precedes(a, b)
  BY <1>1, <1>2, <1>5, <1>6 DEF Precedes
<1> QED BY <1>3, <1>7

\* The statements in an expression are in a lambda.
LEMMA StatementInExpression ==
  ASSUME NEW root \in Program, NEW c \in NodesOf(root), KindIn(root, c) \in Expressions \cup {"nop"},
         NEW s \in NodesOf(root), KindIn(root, s) = "declaration", Under(s, c)
  PROVE  \E x \in NodesOf(root) : KindIn(root, x) = "lambda" /\ Under(s, x) /\ Under(x, c)
<1> DEFINE S == (Expressions \ {"lambda"}) \cup TypeKinds \cup {"nop"}
<1>1. c \in Path /\ Under(c, c)
  BY UnderItself DEF NodesOf
<1>2. CASE KindIn(root, c) = "lambda"
  BY <1>1, <1>2
<1>3. CASE KindIn(root, c) # "lambda"
  <2>1. KindIn(root, c) \in S /\ KindIn(root, s) \notin S
    BY <1>3 DEF Expressions, TypeKinds
  <2> HIDE DEF S
  <2>2. PICK q \in NodesOf(root) : \E i \in 1..Arity(root, q) :
           /\ Under(q, c) /\ Under(s, Child(q, i))
           /\ KindIn(root, q) \in S /\ KindIn(root, Child(q, i)) \notin S
    BY <1>1, <2>1, WayOut
  <2>3. PICK i \in 1..Arity(root, q) :
           /\ Under(q, c) /\ Under(s, Child(q, i))
           /\ KindIn(root, q) \in S /\ KindIn(root, Child(q, i)) \notin S
    BY <2>2
  <2> DEFINE x == Child(q, i)
  <2>4. /\ x \in NodesOf(root) /\ x \in Path /\ q \in Path /\ i \in Positive
        /\ IsPlaced(KindIn(root, x), i, KindIn(root, q), Arity(root, q))
    BY ChildNode DEF NodesOf
  <2>5. KindIn(root, x) \in Expressions \cup TypeKinds
    BY <2>3, <2>4 DEF IsPlaced, S, Expressions, TypeKinds
  <2>6. KindIn(root, x) = "lambda"
    BY <2>3, <2>5 DEF S
  <2>7. Under(x, q)
    BY <2>4, UnderItself, AroundChild
  <2> HIDE DEF x
  <2>8. Under(x, c)
    BY <1>1, <2>3, <2>4, <2>7, UnderTransitive
  <2> QED BY <2>3, <2>4, <2>6, <2>8 DEF x
<1> QED BY <1>2, <1>3

\* A declaration in front of a name that it is in view of is not ahead of it in the generator's order.
LEMMA DeclaredBefore ==
  ASSUME NEW root \in Program, NEW s \in NodesOf(root), NEW p \in NodesOf(root), Precedes(s, p),
         KindIn(root, s) = "declaration", InScopeOf(root, s, p), NEW t, t.path = p, t.step = "finish"
  PROVE  ~Pending(root, t, s)
<1>1. s \in Path /\ p \in Path
  BY DEF NodesOf
<1>2. ~Under(p, s) /\ ~Precedes(p, s)
  BY <1>1, PrecedesExcludes
<1>3. ~Later(root, p, s)
  <2> SUFFICES ASSUME NEW q \in NodesOf(root), NEW i \in 1..Arity(root, q), NEW j \in 1..Arity(root, q),
                      Under(p, Child(q, i)), Under(s, Child(q, j)), Rank(root, q, i) < Rank(root, q, j)
               PROVE  FALSE
    BY DEF Later
  <2>1. /\ q \in Path /\ i \in Positive /\ j \in Positive /\ Arity(root, q) \in Nat
        /\ Child(q, j) \in NodesOf(root) /\ Child(q, j) \in Path
        /\ IsPlaced(KindIn(root, Child(q, j)), j, KindIn(root, q), Arity(root, q))
    BY ChildNode DEF NodesOf
  <2>2. ~(i < j)
    BY <1>1, <1>2, <2>1, OrderOfChildren
  <2>3. i # j
    BY Ranks
  <2>4. \/ KindIn(root, q) = "for" /\ j = 3
        \/ KindIn(root, q) = "invocation" /\ j = 1
    <3>1. i \in Nat /\ j \in Nat /\ i > j /\ i <= Arity(root, q)
      BY <2>1, <2>2, <2>3
    <3>2. KindIn(root, q) = "for" => Arity(root, q) = 4
      BY Ranks
    <3> QED BY <2>1, <3>1, <3>2 DEF Rank
  <2>5. KindIn(root, Child(q, j)) \in Expressions \cup {"nop"}
    <3>1. CASE KindIn(root, q) = "for" /\ j = 3
      BY <2>1, <3>1 DEF IsPlaced
    <3>2. CASE KindIn(root, q) = "invocation"
      BY <2>1, <3>2 DEF IsPlaced, TypeKinds
    <3> QED BY <2>4, <3>1, <3>2
  <2>6. PICK x \in NodesOf(root) : KindIn(root, x) = "lambda" /\ Under(s, x) /\ Under(x, Child(q, j))
    BY <2>1, <2>5, StatementInExpression
  <2>7. x \in Path /\ Under(p, x)
    BY <2>6 DEF InScopeOf, ScopeKinds, NodesOf
  <2>8. Under(p, Child(q, j))
    BY <1>1, <2>1, <2>6, <2>7, UnderTransitive
  <2> QED BY <1>1, <2>1, <2>3, <2>8, OrderOfChildren
<1> QED BY <1>2, <1>3 DEF Pending

\* What is known when the analyzer has accepted the program.
LEMMA AcceptedTree ==
  ASSUME WalkInv, Accepted
  PROVE  /\ tree \in Program /\ visitor = "visitor" /\ here = <<>> /\ cursor.moment = "leave" /\ errors = {}
         /\ \A q : KindIn(tree, q) = Kind(q)
         /\ \A p \in NodesOf(tree) : p \in Path
<1>1. visitor = "visitor" /\ cursor = Cursor(<<>>, "leave")
  BY DEF WalkInv, Accepted
<1> QED BY <1>1 DEF WalkInv, Accepted, NodesOf, here, Cursor, Kind, KindIn

\* The names that code is generated for were looked up, and mean a declaration.
LEMMA NamesAreFound ==
  ASSUME WalkInv, NamesInv, UsesInv, Accepted,
         NEW p \in NodesOf(tree), Kind(p) = "identifier", IsReached(tree, p)
  PROVE  /\ p \in References /\ p # <<>>
         /\ \E d \in Declarations : IsNearest(d, p) /\ entries[p] = entries[d]
<1>1. /\ tree \in Program /\ visitor = "visitor" /\ here = <<>> /\ cursor.moment = "leave" /\ errors = {}
      /\ p \in Path /\ \A q : KindIn(tree, q) = Kind(q)
  BY AcceptedTree
<1>2. p # <<>>
  BY <1>1, RootNode
<1>3. IsUsed(p)
  <2>1. IsPart(tree, Parent(p), Last(p))
    BY <1>1, <1>2, UnderItself DEF IsReached
  <2>2. /\ KindIn(tree, Parent(p)) # "parameter"
        /\ KindIn(tree, Parent(p)) \in {"declaration", "function"} => Last(p) = 2
    BY <2>1 DEF IsPart
  <2> QED BY <1>1, <2>2 DEF IsUsed, IsBeingDeclared, IsParameterIdentifier
<1>4. p \in References
  <2>1. IsLeft(p, here, cursor.moment)
    BY <1>1, <1>2, AllIsLeftAtTheEnd
  <2>2. p \in DOMAIN entries
    BY <1>1, <1>3, <2>1 DEF UsesInv
  <2> QED BY <1>3, <2>2 DEF References, IsDeclaration, IsUsed
<1>5. PICK d \in Declarations : IsNearest(d, p)
  BY <1>1, <1>4 DEF NamesInv
<1>6. entries[p] = entries[d]
  BY <1>1, <1>5 DEF NamesInv, TablesInv, IsNearest
<1> QED BY <1>2, <1>4, <1>5, <1>6

\* What is known of the declaration that the name of a variable means.
LEMMA MeansADeclaration ==
  ASSUME WalkInv, EntriesInv, NamesInv, UsesInv, SymbolsInv, Accepted,
         NEW p \in NodesOf(tree), Kind(p) = "identifier", IsReached(tree, p),
         EntryAt(entries[p]).symbol # "function"
  PROVE  \E d \in NodesOf(tree) :
           /\ d # <<>> /\ entries[p] = entries[d] /\ Precedes(Parent(d), p)
           /\ \/ KindIn(tree, Parent(d)) = "declaration" /\ Last(d) = 1
              \/ KindIn(tree, Parent(d)) = "parameter" /\ Last(d) = 2
           /\ \A x \in NodesOf(tree) : Under(d, x) /\ KindIn(tree, x) \in ScopeKinds => Under(p, x)
<1>1. /\ tree \in Program /\ visitor = "visitor" /\ here = <<>> /\ cursor.moment = "leave" /\ errors = {}
      /\ p \in Path /\ \A q : KindIn(tree, q) = Kind(q)
  BY AcceptedTree
<1>5. PICK d \in Declarations : IsNearest(d, p) /\ entries[p] = entries[d]
  BY NamesAreFound
<1>6. entries[p] = entries[d]
  BY <1>5
<1>7. Kind(Parent(d)) # "function"
  BY <1>1, <1>6 DEF SymbolsInv, SymbolOf
<1>8. d \in NodesOf(tree) /\ d \in Path /\ Kind(d) = "identifier" /\ d # <<>>
  <2>1. d \in NodesOf(tree) /\ Kind(d) = "identifier"
    BY DEF EntriesInv, Declarations
  <2> QED BY <1>1, <2>1, RootNode DEF NodesOf
<1>9. Parent(d) \in Path /\ Last(d) \in Positive
  BY <1>1, <1>8, ParentNode
<1>10. Precedes(Parent(d), p) /\ IsPrefix(ScopeOf(d), p)
  <2>1. Before(Parent(d), p) /\ IsPrefix(ScopeOf(d), p)
    BY <1>5, <1>7 DEF IsNearest, InView
  <2> QED BY <1>1, <1>9, <2>1, BeforePrecedes
<1>11. \/ Kind(Parent(d)) = "declaration" /\ Last(d) = 1
       \/ Kind(Parent(d)) = "parameter" /\ Last(d) = 2
  BY <1>7 DEF Declarations, IsDeclaration, IsBeingDeclared, IsParameterIdentifier
<1> DEFINE X == {q \in PathToRoot(d) : Kind(q) \in ScopeKinds}
           o == ScopeOf(d)
<1>12. \A q : q \in X <=> q \in Path /\ Under(d, q) /\ Kind(q) \in ScopeKinds
  BY <1>8, OnPathToRoot
<1>13. o = Innermost(X)
  BY DEF ScopeOf, ScopeKinds
<1>14. <<>> \in X
  BY <1>1, <1>8, <1>12, UnderRoot, RootNode DEF ScopeKinds
<1> HIDE DEF X, o
<1>15. o \in X /\ \A q \in X : Len(q) <= Len(o)
  <2>1. X # {} /\ \A q \in X : q \in Path /\ Under(d, q)
    BY <1>12, <1>14
  <2>2. /\ Innermost(X) \in X
        /\ \A q \in X : Len(q) <= Len(Innermost(X))
    BY <1>8, <2>1, InnermostIsThere
  <2> QED BY <1>13, <2>2
<1>16. o \in Path /\ Under(d, o) /\ Under(p, o)
  <2>1. o \in Path /\ Under(d, o)
    BY <1>12, <1>15
  <2> QED BY <1>1, <1>10, <2>1, BeforePrecedes DEF o
<1>17. ASSUME NEW x \in NodesOf(tree), Under(d, x), KindIn(tree, x) \in ScopeKinds PROVE Under(p, x)
  <2>1. x \in X /\ x \in Path /\ Len(x) <= Len(o)
    BY <1>1, <1>12, <1>15, <1>17 DEF NodesOf
  <2>2. Under(o, x)
    BY <1>8, <1>16, <1>17, <2>1, PrefixesOfOne, BeforePrecedes
  <2> QED BY <1>1, <1>16, <2>1, <2>2, UnderTransitive
<1> QED BY <1>1, <1>6, <1>8, <1>10, <1>11, <1>17

\* Where code is generated for the name of a variable, its entry has an alloca.
LEMMA NamesAreKnown ==
  ASSUME WalkInv, EntriesInv, NamesInv, UsesInv, SymbolsInv, Accepted,
         NEW t, IsGenerated(tree, t), t.step = "finish", Kind(t.path) = "identifier",
         EntryAt(entries[t.path]).symbol # "function", NEW ins, IsEnded(tree, ins, t), NEW known,
         KnowsParameters(tree, entries, t, known), KnowsVariables(tree, entries, t, ins, known)
  PROVE  entries[t.path] \in known
<1> DEFINE p == t.path
<1>1. tree \in Program /\ p \in NodesOf(tree) /\ p \in Path /\ KindIn(tree, p) = "identifier"
  BY DEF WalkInv, IsGenerated, NodesOf, KindIn, Kind
<1>2. PICK d \in NodesOf(tree) :
        /\ d # <<>> /\ entries[p] = entries[d] /\ Precedes(Parent(d), p)
        /\ \/ KindIn(tree, Parent(d)) = "declaration" /\ Last(d) = 1
           \/ KindIn(tree, Parent(d)) = "parameter" /\ Last(d) = 2
        /\ \A x \in NodesOf(tree) : Under(d, x) /\ KindIn(tree, x) \in ScopeKinds => Under(p, x)
  <2>1. IsReached(tree, p)
    BY DEF IsGenerated
  <2> QED BY <1>1, <2>1, MeansADeclaration
<1> DEFINE s == Parent(d)
<1>3. /\ d \in Path /\ s \in NodesOf(tree) /\ s \in Path /\ Child(s, Last(d)) = d /\ Last(d) \in Positive
  BY <1>1, <1>2, ParentNode DEF NodesOf
<1>4. CASE KindIn(tree, s) = "declaration" /\ Last(d) = 1
  <2>1. InScopeOf(tree, s, p)
    <3> SUFFICES ASSUME NEW x \in NodesOf(tree), Under(s, x), KindIn(tree, x) \in ScopeKinds
                 PROVE  Under(p, x)
      BY DEF InScopeOf
    <3>1. Under(d, x)
      BY <1>2, <1>3, UnderParent DEF NodesOf
    <3> QED BY <1>2, <3>1
  <2>2. Pending(tree, t, p)
    BY <1>1, UnderItself DEF Pending
  <2>3. ~Pending(tree, t, s)
    <3>1. Precedes(s, p) /\ KindIn(tree, s) = "declaration"
      BY <1>2, <1>4
    <3> QED BY <1>1, <1>3, <2>1, <3>1, DeclaredBefore
  <2>4. ~IsDead(tree, ins, t, p)
    <3>1. ~Tolerant(tree, t)
      BY <1>1 DEF Tolerant
    <3> QED BY <3>1 DEF IsDead, IsEnded
  <2>5. entries[Child(s, 1)] \in known
    BY <1>1, <1>3, <1>4, <2>1, <2>2, <2>3, <2>4 DEF KnowsVariables
  <2> QED BY <1>2, <1>3, <1>4, <2>5
<1>5. CASE KindIn(tree, s) = "parameter" /\ Last(d) = 2
  <2> DEFINE l == Parent(s)
  <2>1. s # <<>>
    BY <1>1, <1>5, RootNode
  <2>2. /\ l \in NodesOf(tree) /\ l \in Path /\ Child(l, Last(s)) = s
        /\ Last(s) \in 1..Arity(tree, l) /\ Arity(tree, l) \in Nat
        /\ IsPlaced("parameter", Last(s), KindIn(tree, l), Arity(tree, l))
    BY <1>1, <1>3, <1>5, <2>1, ParentNode
  <2>3. KindIn(tree, l) = "lambda" /\ Last(s) <= Arity(tree, l) - 2
    BY <2>2 DEF IsPlaced, TypeKinds, Statements, Expressions
  <2>4. Under(d, l)
    <3>1. Under(l, l)
      BY <2>2, UnderItself
    <3>2. Under(s, l)
      BY <1>3, <2>1, <2>2, <3>1, UnderParent
    <3> QED BY <1>2, <1>3, <2>2, <3>2, UnderParent
  <2>5. IsInside(t, l)
    BY <1>2, <2>2, <2>3, <2>4 DEF IsInside, ScopeKinds
  <2>6. Last(s) \in 1..(Arity(tree, l) - 2)
    BY <2>2, <2>3
  <2>7. entries[Child(Child(l, Last(s)), 2)] \in known
    BY <2>2, <2>3, <2>5, <2>6 DEF KnowsParameters
  <2> QED BY <1>2, <1>3, <1>5, <2>2, <2>7
<1> QED BY <1>2, <1>4, <1>5

-----------------------------------------------------------------------------
(* The actions of the generator.                                           *)

LEMMA BelowTheRoot ==
  ASSUME WalkInv, IsPlan(tree, work), Kind(node) # "program"
  PROVE  /\ IsPlan(tree, Tail(work)) /\ Follows(tree, Head(work), Head(Tail(work)))
         /\ work \in Seq(Tasks) /\ <<>> \o Tail(work) = Tail(work)
<1>1. tree \in Program /\ KindIn(tree, node) = Kind(node)
  BY DEF WalkInv, KindIn, Kind
<1>2. Head(work).path # <<>>
  BY <1>1, RootNode DEF node
<1>3. work \in Seq(Tasks) /\ Tail(work) \in Seq(Tasks)
  BY SequenceEnds DEF IsPlan
<1>4. <<>> \o Tail(work) = Tail(work)
  BY <1>3, ConcatEmptySeq
<1> QED BY <1>1, <1>2, <1>3, <1>4, RestOfPlan

LEMMA NodeIsEntered ==
  ASSUME WalkInv, IsPlan(tree, work), Head(work).step = "generate"
  PROVE  LET w == (Parts(node) \o <<Task(node, "finish")>>) \o Tail(work)
         IN  IsPlan(tree, w) /\ Enters(tree, Head(work), Head(w))
<1> DEFINE e == Parts(node) \o <<Task(node, "finish")>>
<1>1. /\ tree \in Program /\ IsGenerated(tree, Head(work)) /\ node \in NodesOf(tree) /\ IsReached(tree, node)
      /\ Head(work).path = node
  BY DEF WalkInv, IsPlan, IsGenerated, node
<1>2. IsExpansion(tree, node, e)
  BY <1>1, Expansion
<1> HIDE DEF e
<1>3. /\ e \in Seq(Tasks) /\ e # <<>> /\ IsNext(tree, node, 0, Head(e))
      /\ \A i \in 1..(Len(e) - 1) : Follows(tree, e[i], e[i + 1])
      /\ e[Len(e)] = Task(node, "finish")
  BY <1>2 DEF IsExpansion
<1>4. IsGenerated(tree, Head(e))
  BY <1>1, <1>3, NextIsGenerated
<1>5. \A u : Follows(tree, Head(work), u) => Follows(tree, e[Len(e)], u)
  BY <1>1, <1>3, TaskFields DEF Follows
<1>6. Head(work).path = <<>> => e[Len(e)] = Task(<<>>, "finish")
  BY <1>1, <1>3
<1>7. IsPlan(tree, e \o Tail(work)) /\ Head(e \o Tail(work)) = Head(e)
  BY <1>1, <1>3, <1>4, <1>5, <1>6, PlanWithParts
<1>8. Enters(tree, Head(work), Head(e \o Tail(work)))
  BY <1>1, <1>3, <1>7 DEF Enters
<1> QED BY <1>7, <1>8 DEF e

LEMMA StepIsEntered ==
  ASSUME WalkInv, IsPlan(tree, work), Head(work).step = "step"
  PROVE  LET w == Generate(<<Child(node, 3)>>) \o Tail(work)
         IN  IsPlan(tree, w) /\ StepsOn(tree, Head(work), Head(w))
<1> DEFINE c == Child(node, 3)
           e == Generate(<<c>>)
<1>1. /\ tree \in Program /\ IsGenerated(tree, Head(work)) /\ node \in NodesOf(tree) /\ IsReached(tree, node)
      /\ Head(work).path = node
  BY DEF WalkInv, IsPlan, IsGenerated, node
<1>2. /\ KindIn(tree, node) = "for" /\ 3 \in 1..Arity(tree, node) /\ IsPart(tree, node, 3)
      /\ \A k \in 1..Arity(tree, node) : ~(Rank(tree, node, 3) < Rank(tree, node, k))
  BY <1>1, StepNode
<1>3. c \in NodesOf(tree) /\ c \in Path /\ IsReached(tree, c) /\ c # <<>>
  BY <1>1, <1>2, ChildNode, ReachedChild DEF NodesOf
<1>4. \A k \in 1..Arity(tree, node) : Rank(tree, node, k) <= Rank(tree, node, 3)
  BY <1>1, <1>2, Ranks
<1>5. Follows(tree, Task(c, "generate"), Task(node, "finish"))
  BY <1>1, <1>2, <1>4, ChildThenFinish
<1> HIDE DEF c
<1>6. Task(c, "generate") \in Tasks /\ IsGenerated(tree, Task(c, "generate"))
  BY <1>3, TaskFields DEF IsGenerated, Steps
<1>7. e = <<Task(c, "generate")>>
  BY DEF Generate
<1> HIDE DEF e
<1>8. e \in Seq(Tasks) /\ e # <<>> /\ Len(e) = 1 /\ Head(e) = Task(c, "generate") /\ e[1] = Task(c, "generate")
  BY <1>6, <1>7
<1>9. \A i \in 1..(Len(e) - 1) : Follows(tree, e[i], e[i + 1])
  BY <1>8
<1>10. \A u : Follows(tree, Head(work), u) => Follows(tree, e[Len(e)], u)
  <2> SUFFICES ASSUME NEW u, Follows(tree, Head(work), u) PROVE Follows(tree, e[Len(e)], u)
    OBVIOUS
  <2>1. u = Task(node, "finish")
    BY <1>1 DEF Follows
  <2> QED BY <1>5, <1>8, <2>1
<1>11. Head(work).path # <<>>
  BY <1>1, <1>2, RootNode
<1>12. IsPlan(tree, e \o Tail(work)) /\ Head(e \o Tail(work)) = Head(e)
  BY <1>1, <1>6, <1>8, <1>9, <1>10, <1>11, PlanWithParts
<1> QED BY <1>1, <1>8, <1>12 DEF StepsOn, c, e

\* The entry block of a lambda has an alloca for each parameter.
LEMMA ParametersAreThere ==
  ASSUME WalkInv, NEW q \in NodesOf(tree), NEW i \in 1..(Arity(tree, q) - 2)
  PROVE  Child(q, i) \in Range(ParametersOf(q))
<1> DEFINE c == Children(q)
           n == Arity(tree, q)
<1>1. n \in Nat /\ Len(c) = n /\ \A k \in 1..n : c[k] = Child(q, k)
  BY ChildrenOf
<1>2. ParametersOf(q) = SubSeq(c, 1, n - 2)
  BY <1>1 DEF ParametersOf
<1> HIDE DEF c, n
<1>3. SubSeq(c, 1, n - 2) = [k \in 1..(n - 2) |-> c[(1 + k) - 1]]
  BY <1>1
<1>4. i \in 1..(n - 2) /\ (1 + i) - 1 = i /\ i \in 1..n
  BY <1>1 DEF n
<1>5. i \in DOMAIN SubSeq(c, 1, n - 2) /\ SubSeq(c, 1, n - 2)[i] = Child(q, i)
  BY <1>1, <1>3, <1>4
<1> QED BY <1>2, <1>5 DEF Range

LEMMA FunctionIsEntered ==
  ASSUME WalkInv, IsPlan(tree, work), EnterFunction
  PROVE  /\ DOMAIN allocas \subseteq DOMAIN allocas'
         /\ Kind(node) = "lambda" =>
              \A i \in 1..(Arity(tree, node) - 2) : entries[Child(Child(node, i), 2)] \in DOMAIN allocas'
<1> DEFINE identifiers == IF Kind(node) = "main" THEN {}
                          ELSE {Child(p, 2) : p \in Range(ParametersOf(node))}
           parameters  == {entries[p] : p \in identifiers}
<1>1. DOMAIN allocas' = DOMAIN allocas \cup parameters
  BY DEF EnterFunction
<1>2. node \in NodesOf(tree)
  BY DEF IsPlan, IsGenerated, node
<1>3. ASSUME Kind(node) = "lambda", NEW i \in 1..(Arity(tree, node) - 2)
      PROVE  entries[Child(Child(node, i), 2)] \in parameters
  <2>1. Child(node, i) \in Range(ParametersOf(node))
    BY <1>2, ParametersAreThere
  <2>2. Child(Child(node, i), 2) \in identifiers
    BY <1>3, <2>1
  <2> HIDE DEF identifiers
  <2> QED BY <2>2
<1> HIDE DEF parameters
<1> QED BY <1>1, <1>3

LEMMA NodeIsLeft ==
  ASSUME WalkInv, IsPlan(tree, work), outcome' = outcome, Head(work).step = "finish", work' = Tail(work),
         Kind(node) # "program", DOMAIN allocas \subseteq DOMAIN allocas',
         \/ Kind(node) \in {"if", "while", "for"} /\ insert' = Reopened(insert, TRUE)
         \/ Kind(node) = "return" /\ insert' = Reopened(insert, FALSE)
         \/ Kind(node) = "lambda" /\ insert' = Front(insert)
         \/ /\ Kind(node) \notin {"if", "while", "for", "return", "lambda"} /\ insert' = insert
            /\ Kind(node) = "declaration" => entries[Child(node, 1)] \in DOMAIN allocas'
  PROVE  Moved
<1> DEFINE t == Head(work)
           u == Head(work')
           known == DOMAIN allocas
           known2 == DOMAIN allocas'
<1>1. IsPlan(tree, work') /\ Follows(tree, t, u)
  BY BelowTheRoot
<1>2. KindIn(tree, t.path) = Kind(node) /\ t.path = node
  BY DEF KindIn, Kind, node
<1> HIDE DEF u, known, known2
<1>3. CASE Kind(node) \in {"if", "while", "for"} /\ insert' = Reopened(insert, TRUE)
  <2>1. LeavesBranches(tree, t, u, insert, insert')
    BY <1>1, <1>2, <1>3 DEF LeavesBranches
  <2> QED BY <1>1, <2>1 DEF Moved, GeneratorStep, u, known, known2
<1>4. CASE Kind(node) = "return" /\ insert' = Reopened(insert, FALSE)
  <2>1. LeavesReturn(tree, t, u, insert, insert')
    BY <1>1, <1>2, <1>4 DEF LeavesReturn
  <2> QED BY <1>1, <2>1 DEF Moved, GeneratorStep, u, known, known2
<1>5. CASE Kind(node) = "lambda" /\ insert' = Front(insert)
  <2>1. LeavesLambda(tree, t, u, insert, insert')
    BY <1>1, <1>2, <1>5 DEF LeavesLambda
  <2> QED BY <1>1, <2>1 DEF Moved, GeneratorStep, u, known, known2
<1>6. CASE /\ Kind(node) \notin {"if", "while", "for", "return", "lambda"} /\ insert' = insert
           /\ Kind(node) = "declaration" => entries[Child(node, 1)] \in DOMAIN allocas'
  <2>1. LeavesNode(tree, entries, t, u, insert, insert', known2)
    BY <1>1, <1>2, <1>6 DEF LeavesNode, known2
  <2> QED BY <1>1, <2>1 DEF Moved, GeneratorStep, u, known, known2
<1> QED BY <1>3, <1>4, <1>5, <1>6

LEMMA WhatIsFinished ==
  ASSUME WalkInv, IsPlan(tree, work),
         \/ FinishConstant \/ FinishIdentifier \/ FinishOperator \/ FinishLambdaInvocation
         \/ FinishAlloc \/ FinishPopulatedArray \/ FinishDeclaration \/ FinishConditional
         \/ FinishReturn \/ FinishOther \/ FinishLambda \/ FinishMain \/ FinishProgram
  PROVE  IsStopped \/ Moved
<1>1. ASSUME NEW how, Stop(how), how \notin {"none", "running", "no alloca"} PROVE IsStopped
  BY <1>1 DEF Stop, IsStopped
<1>2. ASSUME NEW kinds, NEW value, NEW bad, Finishing(kinds), Yield(value, bad),
             kinds \cap {"if", "while", "for", "return", "lambda", "declaration", "program"} = {}
      PROVE  Moved
  <2>1. /\ outcome' = outcome /\ Head(work).step = "finish" /\ work' = Tail(work) /\ insert' = insert
        /\ allocas' = allocas /\ Kind(node) \in kinds
    BY <1>2 DEF Finishing, Doing, Yield
  <2>2. Kind(node) \notin {"if", "while", "for", "return", "lambda", "declaration", "program"}
    BY <1>2, <2>1
  <2> QED BY <2>1, <2>2, NodeIsLeft
<1>3. CASE FinishConstant
  BY <1>2, <1>3 DEF FinishConstant
<1>4. CASE FinishIdentifier
  <2>1. CASE Stop("no alloca") /\ EntryAt(entries[node]).symbol # "function" /\ entries[node] \notin DOMAIN allocas
    BY <1>4, <2>1 DEF FinishIdentifier, Finishing, Doing, Stop, IsStopped
  <2>2. CASE \E value, bad : Yield(value, bad)
    <3>1. Finishing({"identifier"})
      BY <1>4 DEF FinishIdentifier
    <3> QED BY <1>2, <2>2, <3>1
  <2> QED BY <1>4, <2>1, <2>2 DEF FinishIdentifier
<1>5. CASE FinishOperator
  BY <1>1, <1>2, <1>5 DEF FinishOperator
<1>6. CASE FinishLambdaInvocation
  BY <1>1, <1>2, <1>6 DEF FinishLambdaInvocation
<1>7. CASE FinishAlloc
  BY <1>2, <1>7 DEF FinishAlloc
<1>8. CASE FinishPopulatedArray
  BY <1>1, <1>2, <1>8 DEF FinishPopulatedArray
<1>9. CASE FinishDeclaration
  <2>1. CASE Stop("crashed")
    BY <1>1, <2>1
  <2>2. CASE /\ allocas' = With(allocas, entries[Child(node, 1)], Alloca(Current, ValueOf(2)))
             /\ work' = Tail(work) /\ UNCHANGED <<insert, outcome>>
    <3>1. DOMAIN allocas' = DOMAIN allocas \cup {entries[Child(node, 1)]}
      BY <2>2 DEF With
    <3>2. Head(work).step = "finish" /\ Kind(node) = "declaration"
      BY <1>9 DEF FinishDeclaration, Finishing, Doing
    <3> QED BY <2>2, <3>1, <3>2, NodeIsLeft
  <2> QED BY <1>9, <2>1, <2>2 DEF FinishDeclaration
<1>10. CASE FinishConditional
  <2>1. /\ outcome' = outcome /\ Head(work).step = "finish" /\ work' = Tail(work)
        /\ insert' = Reopened(insert, TRUE) /\ allocas' = allocas /\ Kind(node) \in {"if", "while", "for"}
    BY <1>10 DEF FinishConditional, Finishing, Doing, Opened, Reopened
  <2> QED BY <2>1, NodeIsLeft
<1>11. CASE FinishReturn
  <2>1. /\ outcome' = outcome /\ Head(work).step = "finish" /\ work' = Tail(work)
        /\ insert' = Reopened(insert, FALSE) /\ allocas' = allocas /\ Kind(node) = "return"
    BY <1>11 DEF FinishReturn, Finishing, Doing, Opened, Reopened
  <2> QED BY <2>1, NodeIsLeft
<1>12. CASE FinishOther
  <2>1. /\ outcome' = outcome /\ Head(work).step = "finish" /\ work' = Tail(work)
        /\ insert' = insert /\ allocas' = allocas
        /\ Kind(node) \in {"expression", "print", "dealloc", "block", "function"}
    BY <1>12 DEF FinishOther, Finishing, Doing
  <2> QED BY <2>1, NodeIsLeft
<1>13. CASE FinishLambda
  <2>1. CASE Stop("invalid")
    BY <1>1, <2>1
  <2>2. CASE /\ insert' = Front(insert) /\ work' = Tail(work) /\ UNCHANGED <<allocas, outcome>>
    <3>1. Head(work).step = "finish" /\ Kind(node) = "lambda"
      BY <1>13 DEF FinishLambda, Finishing, Doing
    <3> QED BY <2>2, <3>1, NodeIsLeft
  <2> QED BY <1>13, <2>1, <2>2 DEF FinishLambda
<1>14. CASE FinishMain
  <2>1. CASE Stop("invalid")
    BY <1>1, <2>1
  <2>2. CASE work' = Tail(work) /\ UNCHANGED <<insert, allocas, outcome>>
    <3>1. Head(work).step = "finish" /\ Kind(node) = "main"
      BY <1>14 DEF FinishMain, Finishing, Doing
    <3> QED BY <2>2, <3>1, NodeIsLeft
  <2> QED BY <1>14, <2>1, <2>2 DEF FinishMain
<1>15. CASE FinishProgram
  <2>1. Stop("generated") \/ Stop("invalid")
    BY <1>15 DEF FinishProgram
  <2> QED BY <1>1, <2>1
<1> QED BY <1>3, <1>4, <1>5, <1>6, <1>7, <1>8, <1>9, <1>10, <1>11, <1>12, <1>13, <1>14, <1>15

LEMMA GenerationMoves ==
  ASSUME WalkInv, IsPlan(tree, work), GenerateCode, ~Begin
  PROVE  IsStopped \/ Moved
<1> DEFINE t == Head(work)
           u == Head(work')
           known == DOMAIN allocas
           known2 == DOMAIN allocas'
<1>1. KindIn(tree, t.path) = Kind(node) /\ t.path = node /\ IsGenerated(tree, t)
  BY DEF KindIn, Kind, node, IsPlan
<1>2. CASE EnterNode
  <2>1. /\ outcome' = outcome /\ t.step = "generate" /\ insert' = insert /\ allocas' = allocas
        /\ Kind(node) \notin {"lambda", "main"}
    BY <1>2 DEF EnterNode, Doing
  <2>2. CASE Kind(node) \in Skipped /\ ~IsOpen
    <3>1. Kind(node) # "program"
      BY <2>2 DEF Skipped
    <3>2. work' = <<>> \o Tail(work)
      BY <1>2, <2>2 DEF EnterNode
    <3>3. IsPlan(tree, work') /\ Follows(tree, t, u)
      BY <3>1, <3>2, BelowTheRoot
    <3> HIDE DEF u, known, known2
    <3>4. SkipsNode(tree, t, u, insert, insert')
      BY <1>1, <2>1, <2>2, <3>3 DEF SkipsNode, IsOpen
    <3>5. known \subseteq known2
      BY <2>1 DEF known, known2
    <3> QED BY <2>1, <3>3, <3>4, <3>5 DEF Moved, GeneratorStep, u, known, known2
  <2>3. CASE ~(Kind(node) \in Skipped /\ ~IsOpen)
    <3>1. work' = (Parts(node) \o <<Task(node, "finish")>>) \o Tail(work)
      BY <1>2, <2>3 DEF EnterNode
    <3>2. IsPlan(tree, work') /\ Enters(tree, t, u)
      BY <2>1, <3>1, NodeIsEntered
    <3> HIDE DEF u, known, known2
    <3>3. EntersNode(tree, t, u, insert, insert')
      BY <1>1, <2>1, <2>3, <3>2 DEF EntersNode, IsOpen
    <3>4. known \subseteq known2
      BY <2>1 DEF known, known2
    <3> QED BY <2>1, <3>2, <3>3, <3>4 DEF Moved, GeneratorStep, u, known, known2
  <2> QED BY <2>2, <2>3
<1>3. CASE EnterFunction
  <2>1. /\ outcome' = outcome /\ t.step = "generate" /\ Kind(node) \in {"lambda", "main"}
        /\ insert' = Append(insert, [function |-> node, open |-> TRUE])
        /\ work' = (Parts(node) \o <<Task(node, "finish")>>) \o Tail(work)
    BY <1>3 DEF EnterFunction, Doing
  <2>2. IsPlan(tree, work') /\ Enters(tree, t, u)
    BY <2>1, NodeIsEntered
  <2>3. /\ known \subseteq known2
        /\ Kind(node) = "lambda" =>
              \A i \in 1..(Arity(tree, node) - 2) : entries[Child(Child(node, i), 2)] \in known2
    BY <1>3, FunctionIsEntered
  <2> HIDE DEF u, known, known2
  <2>4. EntersFunction(tree, entries, t, u, insert, insert', known2)
    BY <1>1, <2>1, <2>2, <2>3 DEF EntersFunction
  <2> QED BY <2>1, <2>2, <2>3, <2>4 DEF Moved, GeneratorStep, u, known, known2
<1>4. CASE OpenBlock
  <2>1. /\ outcome' = outcome /\ t.step = "open" /\ insert' = Reopened(insert, TRUE) /\ allocas' = allocas
        /\ work' = Tail(work)
    BY <1>4 DEF OpenBlock, Doing, Opened, Reopened
  <2>2. tree \in Program /\ t.path # <<>>
    BY <1>1, <2>1 DEF IsGenerated, WalkInv
  <2>3. IsPlan(tree, work') /\ Follows(tree, t, u)
    BY <2>1, <2>2, RestOfPlan
  <2> HIDE DEF u, known, known2
  <2>4. OpensBlock(tree, t, u, insert, insert')
    BY <2>1, <2>3 DEF OpensBlock
  <2>5. known \subseteq known2
    BY <2>1 DEF known, known2
  <2> QED BY <2>1, <2>3, <2>4, <2>5 DEF Moved, GeneratorStep, u, known, known2
<1>5. CASE GenerateStep
  <2>1. outcome' = outcome /\ t.step = "step" /\ insert' = insert /\ allocas' = allocas
    BY <1>5 DEF GenerateStep, Doing
  <2>2. known \subseteq known2
    BY <2>1
  <2>3. CASE IsOpen
    <3>1. work' = Generate(<<Child(node, 3)>>) \o Tail(work)
      BY <1>5, <2>3 DEF GenerateStep
    <3>2. IsPlan(tree, work') /\ StepsOn(tree, t, u)
      BY <2>1, <3>1, StepIsEntered
    <3> HIDE DEF u, known, known2
    <3>3. EntersStep(tree, t, u, insert, insert')
      BY <2>1, <2>3, <3>2 DEF EntersStep, IsOpen
    <3> QED BY <2>1, <2>2, <3>2, <3>3 DEF Moved, GeneratorStep, u, known, known2
  <2>4. CASE ~IsOpen
    <3>1. work' = <<>> \o Tail(work)
      BY <1>5, <2>4 DEF GenerateStep
    <3>2. Kind(node) # "program"
      BY <1>1, <2>1 DEF IsGenerated
    <3>3. IsPlan(tree, work') /\ Follows(tree, t, u)
      BY <3>1, <3>2, BelowTheRoot
    <3> HIDE DEF u, known, known2
    <3>4. SkipsStep(tree, t, u, insert, insert')
      BY <2>1, <2>4, <3>3 DEF SkipsStep, IsOpen
    <3> QED BY <2>1, <2>2, <3>3, <3>4 DEF Moved, GeneratorStep, u, known, known2
  <2> QED BY <2>3, <2>4
<1> QED BY <1>2, <1>3, <1>4, <1>5, WhatIsFinished DEF GenerateCode

-----------------------------------------------------------------------------
(* Names of variables have their allocas.                                  *)

LEMMA ReadyStep ==
  ASSUME NEW root \in Program, NEW ents, NEW t, IsGenerated(root, t), NEW u, NEW ins, NEW ins2,
         NEW known, NEW known2, GeneratorStep(root, ents, t, u, ins, ins2, known, known2),
         IsReady(root, ents, t, ins, known)
  PROVE  IsReady(root, ents, u, ins2, known2)
<1>1. /\ IsStack(root, ins, t) /\ IsEnded(root, ins, t) /\ KnowsParameters(root, ents, t, known)
      /\ KnowsVariables(root, ents, t, ins, known)
  BY DEF IsReady
<1>2. IsStack(root, ins2, u)
  BY <1>1, StackStep
<1>3. IsEnded(root, ins2, u)
  BY <1>1, EndedStep
<1>4. KnowsParameters(root, ents, u, known2)
  BY <1>1, ParametersStep
<1>5. KnowsVariables(root, ents, u, ins2, known2)
  <2>1. \A x \in NodesOf(root) : KindIn(root, x) \in Skipped =>
           \E f \in NodesOf(root) : KindIn(root, f) \in {"lambda", "main"} /\ Under(x, f) /\ x # f
    BY SkippedInFunctions
  <2> QED BY <1>1, <2>1, VariablesStep
<1> QED BY <1>2, <1>3, <1>4, <1>5 DEF IsReady

\* The plan begins with the whole program.
LEMMA ReadyAtTheBegin ==
  ASSUME NEW root \in Program, NEW ents, NEW known
  PROVE  /\ IsPlan(root, Generate(<< <<>> >>)) /\ Head(Generate(<< <<>> >>)) = Task(<<>>, "generate")
         /\ IsReady(root, ents, Task(<<>>, "generate"), <<>>, known)
<1> DEFINE t == Task(<<>>, "generate")
           w == Generate(<< <<>> >>)
<1>1. <<>> \in NodesOf(root) /\ <<>> \in Path
  BY RootNode
<1>2. \A x \in Path : Under(<<>>, x) <=> x = <<>>
  BY <1>1, UnderRoot
<1>3. t.path = <<>> /\ t.step = "generate" /\ t \in Tasks
  BY <1>1, TaskFields DEF Steps
<1>4. IsGenerated(root, t)
  BY <1>1, <1>2, <1>3 DEF IsGenerated, IsReached, NodesOf
<1>5. w = <<t>>
  BY DEF Generate
<1>6. \A x \in NodesOf(root) : ~IsInside(t, x)
  BY <1>2, <1>3 DEF IsInside, NodesOf
<1> HIDE DEF t, w
<1>7. w \in Seq(Tasks) /\ w # <<>> /\ Len(w) = 1 /\ Head(w) = t /\ w[1] = t
  BY <1>3, <1>5
<1>8. IsPlan(root, w)
  BY <1>3, <1>4, <1>7 DEF IsPlan
<1>9. <<>> \in Seq(Frame) /\ Len(<<>>) = 0
  BY EmptySeq
<1>10. IsStack(root, <<>>, t)
  BY <1>6, <1>9 DEF IsStack, IsFunctionAround
<1>11. IsEnded(root, <<>>, t)
  BY <1>9 DEF IsEnded, HasEnded
<1>12. KnowsParameters(root, ents, t, known)
  BY <1>6 DEF KnowsParameters
<1>13. KnowsVariables(root, ents, t, <<>>, known)
  <2>1. \A s \in NodesOf(root) : Pending(root, t, s)
    BY <1>3, UnderRoot DEF Pending, NodesOf
  <2> QED BY <2>1 DEF KnowsVariables
<1> QED BY <1>7, <1>8, <1>10, <1>11, <1>12, <1>13 DEF IsReady, t, w

LEMMA AnalysisIsOver ==
  ASSUME Next
  PROVE  status = "running"
<1>1. CASE Preprocess
  BY <1>1 DEF Preprocess, EnterProgram, VisitBaseType, LeaveArrayType, LeaveLambdaType,
              LeaveLambdaParameter, LeaveLambda, LeaveFunctionDefinition, At
<1>2. CASE EnterScope \/ VisitIdentifier \/ VisitLiteral \/ LeaveParameter \/ LeaveDeclaration
           \/ LeaveOperator \/ LeaveLambdaInvocation \/ LeaveLambdaBody
  BY <1>2 DEF EnterScope, VisitIdentifier, VisitLiteral, LeaveParameter, LeaveDeclaration,
              LeaveOperator, LeaveLambdaInvocation, LeaveLambdaBody, At
<1>3. CASE LeaveAlloc \/ LeavePopulatedArray \/ LeaveConditional \/ LeavePrint \/ LeaveDealloc
           \/ LeaveReturn
  BY <1>3 DEF LeaveAlloc, LeavePopulatedArray, LeaveConditional, LeavePrint, LeaveDealloc,
              LeaveReturn, At
<1>4. CASE Skip
  BY <1>4 DEF Skip
<1> QED BY <1>1, <1>2, <1>3, <1>4 DEF Next, Visit

LEMMA GenerationInit == CompileInit => GenerationInv
BY DEF CompileInit, GenerationInv

\* The invariants of the analyzer hold while code is generated.
LEMMA AnalysisInit == CompileInit => AnalysisInv
BY WalkInit, ScopesInit, EntriesInit, NamesInit, LeafInit, TypesInit, TypedInit, UsesInit, SymbolsInit
   DEF CompileInit, AnalysisInv

LEMMA AnalysisStep == AnalysisInv /\ [CompileNext]_allVars => AnalysisInv'
<1>1. [CompileNext]_allVars => [Next]_vars
  BY DEF CompileNext, Finished, allVars
<1>2. AnalysisInv /\ [Next]_vars => AnalysisInv'
  BY WalkStep, ScopesStep, EntriesStep, NamesStep, LeafStep, TypesStep, TypedStep, UsesStep, SymbolsStep
     DEF AnalysisInv
<1> QED BY <1>1, <1>2

LEMMA GenerationStep == AnalysisInv /\ GenerationInv /\ [CompileNext]_allVars => GenerationInv'
<1> SUFFICES ASSUME WalkInv, EntriesInv, NamesInv, UsesInv, SymbolsInv, GenerationInv,
                    [CompileNext]_allVars
             PROVE  GenerationInv'
  BY DEF AnalysisInv
<1>1. CASE UNCHANGED allVars
  BY <1>1 DEF allVars, vars, generated, GenerationInv, Accepted
<1>2. CASE Next /\ UNCHANGED generated
  <2>1. outcome = "none"
    BY <1>2, AnalysisIsOver DEF GenerationInv, Accepted
  <2>2. outcome' = "none" /\ insert' = insert
    BY <1>2, <2>1 DEF generated
  <2> QED BY <2>1, <2>2 DEF GenerationInv
<1>3. CASE GenerateCode /\ UNCHANGED vars
  <2>1. tree' = tree /\ entries' = entries /\ Accepted' = Accepted /\ tree \in Program
    BY <1>3 DEF vars, Accepted, WalkInv
  <2>2. CASE Begin
    <3>1. /\ Accepted /\ outcome = "none" /\ outcome' = "running" /\ work' = Generate(<< <<>> >>)
          /\ insert' = insert /\ insert = <<>> /\ allocas' = allocas
      BY <2>2 DEF Begin, GenerationInv
    <3>2. IsPlan(tree, work') /\ IsReady(tree, entries, Head(work'), insert', DOMAIN allocas')
      BY <2>1, <3>1, ReadyAtTheBegin
    <3> QED BY <2>1, <3>1, <3>2 DEF GenerationInv
  <2>3. CASE ~Begin
    <3>1. outcome = "running"
      BY <1>3, <2>3 DEF GenerateCode, EnterNode, EnterFunction, OpenBlock, GenerateStep, FinishConstant,
                        FinishIdentifier, FinishOperator, FinishLambdaInvocation, FinishAlloc,
                        FinishPopulatedArray, FinishDeclaration, FinishConditional, FinishReturn,
                        FinishOther, FinishLambda, FinishMain, FinishProgram, Finishing, Doing
    <3>2. Accepted /\ IsPlan(tree, work) /\ IsReady(tree, entries, Head(work), insert, DOMAIN allocas)
      BY <3>1 DEF GenerationInv
    <3>3. IsGenerated(tree, Head(work)) /\ Head(work).path = node
      BY <3>2 DEF IsPlan, node
    <3>4. CASE Moved
      <4>1. /\ outcome' = outcome /\ IsPlan(tree, work')
            /\ IsReady(tree, entries, Head(work'), insert', DOMAIN allocas')
        BY <2>1, <3>2, <3>3, <3>4, ReadyStep DEF Moved
      <4> QED BY <2>1, <3>1, <3>2, <4>1 DEF GenerationInv
    <3>5. CASE IsStopped
      <4>1. outcome' # "no alloca"
        <5> SUFFICES ASSUME outcome' = "no alloca" PROVE FALSE
          OBVIOUS
        <5>1. /\ Head(work).step = "finish" /\ Kind(node) = "identifier"
              /\ EntryAt(entries[node]).symbol # "function" /\ entries[node] \notin DOMAIN allocas
          BY <3>5 DEF IsStopped
        <5>2. /\ IsEnded(tree, insert, Head(work)) /\ KnowsParameters(tree, entries, Head(work), DOMAIN allocas)
              /\ KnowsVariables(tree, entries, Head(work), insert, DOMAIN allocas)
          BY <3>2 DEF IsReady
        <5> QED BY <3>2, <3>3, <5>1, <5>2, NamesAreKnown
      <4>2. outcome' # "none" /\ work' = work /\ insert' = insert /\ allocas' = allocas
        BY <3>5 DEF IsStopped
      <4> QED BY <2>1, <3>2, <4>1, <4>2 DEF GenerationInv
    <3> QED BY <1>3, <2>3, <3>2, <3>4, <3>5, GenerationMoves
  <2> QED BY <2>2, <2>3
<1>4. CASE Finished
  BY <1>1, <1>4 DEF Finished
<1> QED BY <1>1, <1>2, <1>3, <1>4 DEF CompileNext

(* Code is generated for a name of a variable only where the variable has  *)
(* its alloca: the generator comes to a declaration before it comes to     *)
(* what its scope lets use it, and when it leaves a declaration out behind *)
(* a return it leaves out everything up to the end of the block, too.      *)
THEOREM VariablesAlwaysHaveTheirAllocas == CompileSpec => []VariablesHaveTheirAllocas
<1>1. AnalysisInv /\ GenerationInv => VariablesHaveTheirAllocas
  BY DEF GenerationInv, VariablesHaveTheirAllocas
<1> QED BY <1>1, AnalysisInit, AnalysisStep, GenerationInit, GenerationStep, PTL DEF CompileSpec

-----------------------------------------------------------------------------
(* What is behind the generator.                                           *)

\* What is pending, and is not any more behind a move: it is finished, or it is below a node
\* or a step that is left out, or it is below a node that is entered and no part of it.
LEMMA PendingNoMore ==
  ASSUME NEW root \in Program, NEW t, IsGenerated(root, t), NEW u, IsMove(root, t, u), NEW x \in Path,
         Pending(root, t, x), ~Pending(root, u, x)
  PROVE  \/ /\ Enters(root, t, u) /\ Under(x, t.path) /\ x # t.path
            /\ \A k \in 1..Arity(root, t.path) : Under(x, Child(t.path, k)) => ~IsPart(root, t.path, k)
         \/ Follows(root, t, u) /\ t.step = "generate" /\ Under(x, t.path)
         \/ Follows(root, t, u) /\ t.step = "step" /\ Under(x, Child(t.path, 3))
         \/ Follows(root, t, u) /\ t.step = "finish" /\ x = t.path
<1>1. t.path \in NodesOf(root) /\ t.path \in Path /\ t.step \in Steps
  BY DEF IsGenerated, Tasks, NodesOf
<1>2. CASE Enters(root, t, u)
  <2>1. IsNext(root, t.path, 0, u) /\ t.step = "generate"
    BY <1>2 DEF Enters
  <2>2. /\ ~Later(root, t.path, x) /\ ~Under(t.path, x)
        /\ \A k \in 1..Arity(root, t.path) :
             ~(Under(x, Child(t.path, k)) /\ IsPart(root, t.path, k) /\ 0 < Rank(root, t.path, k))
    BY <1>1, <2>1, PendingNext
  <2>3. Under(x, t.path)
    BY <2>1, <2>2 DEF Pending
  <2>4. x # t.path
    BY <1>1, <2>2, UnderItself
  <2> QED BY <1>1, <1>2, <2>2, <2>3, <2>4, Ranks
<1>3. CASE StepsOn(root, t, u)
  <2>1. t.step = "step" /\ u.path = Child(t.path, 3) /\ u.step = "generate"
    BY <1>3, TaskFields DEF StepsOn
  <2>2. 3 \in 1..Arity(root, t.path) /\ 3 \in Positive
    BY <2>1, StepNode DEF Positive
  <2>3. Later(root, t.path, x) => Later(root, u.path, x)
    BY <1>1, <2>1, <2>2, LaterThanChild
  <2>4. Under(t.path, x) => Under(u.path, x)
    BY <1>1, <2>1, <2>2, AroundChild
  <2> QED BY <2>1, <2>3, <2>4 DEF Pending
<1>4. CASE Follows(root, t, u)
  <2>1. t.step # "open" /\ ~Later(root, t.path, x)
        /\ ~Under(IF t.step = "step" THEN t.path ELSE Parent(t.path), x)
    BY <1>4, TaskThatFollows
  <2>2. t.step \in {"generate", "step", "finish"}
    BY <1>1, <2>1 DEF Steps
  <2>3. CASE t.step = "step"
    BY <1>4, <2>1, <2>3 DEF Pending
  <2>4. CASE t.step \in {"generate", "finish"}
    <3>1. t.path # <<>>
      BY <1>4, <2>4 DEF Follows
    <3>2. Under(t.path, x) => x = t.path
      BY <1>1, <2>1, <2>4, <3>1, UnderParent
    <3>3. Under(t.path, t.path)
      BY <1>1, UnderItself
    <3> QED BY <1>4, <2>1, <2>4, <3>2, <3>3 DEF Pending
  <2> QED BY <2>2, <2>3, <2>4
<1> QED BY <1>2, <1>3, <1>4 DEF IsMove

\* The value of an expression is there when the generator is behind it.
LEMMA HaveValuesStep ==
  ASSUME NEW root \in Program, NEW t, IsGenerated(root, t), NEW u, IsMove(root, t, u),
         NEW known, NEW known2, HaveValues(root, t, known), known \subseteq known2,
         Follows(root, t, u) /\ t.step = "generate" => KindIn(root, t.path) \in Skipped,
         t.step = "finish" /\ KindIn(root, t.path) \in Expressions => t.path \in known2
  PROVE  HaveValues(root, u, known2)
<1>1. t.path \in NodesOf(root) /\ t.path \in Path
  BY DEF IsGenerated, NodesOf
<1> SUFFICES ASSUME NEW q \in NodesOf(root), NEW i \in 1..Arity(root, q),
                    IsPart(root, q, i), KindIn(root, q) # "for", KindIn(root, Child(q, i)) \in Expressions,
                    IsInside(u, q), ~Pending(root, u, Child(q, i))
             PROVE  Child(q, i) \in known2
  BY DEF HaveValues
<1> DEFINE x == Child(q, i)
<1>2. x \in NodesOf(root) /\ x \in Path /\ q \in Path /\ i \in Positive /\ Parent(x) = q /\ x # <<>>
  BY ChildNode DEF NodesOf
<1>3. \A y \in Path : Under(x, y) <=> y = x \/ Under(q, y)
  BY <1>2, UnderParent
<1>4. Under(x, x)
  BY <1>2, UnderItself
<1>5. CASE IsInside(t, q) /\ ~Pending(root, t, x)
  BY <1>5 DEF HaveValues
<1>6. CASE ~IsInside(t, q)
  <2>1. q = t.path /\ Enters(root, t, u)
    BY <1>2, <1>6, InsideAfter DEF IsMove
  <2>2. IsNext(root, t.path, 0, u)
    BY <2>1 DEF Enters
  <2>3. Under(x, Child(t.path, i)) /\ IsPart(root, t.path, i) /\ 0 < Rank(root, t.path, i)
    BY <1>4, <2>1, Ranks
  <2>4. i \in 1..Arity(root, t.path)
    BY <2>1
  <2>5. Pending(root, u, x)
    <3> HIDE DEF x
    <3> QED BY <1>1, <1>2, <2>2, <2>3, <2>4, PendingNext
  <2> QED BY <2>5
<1>7. CASE IsInside(t, q) /\ Pending(root, t, x)
  <2>1. Under(t.path, q) /\ (Follows(root, t, u) => q # t.path)
    BY <1>2, <1>7, InsideAfter DEF IsInside
  <2>2. Under(q, t.path) => q = t.path
    BY <1>1, <1>2, <2>1, UnderAntisymmetric
  <2>3. CASE /\ Enters(root, t, u) /\ Under(x, t.path) /\ x # t.path
             /\ \A k \in 1..Arity(root, t.path) : Under(x, Child(t.path, k)) => ~IsPart(root, t.path, k)
    BY <1>1, <1>3, <1>4, <2>2, <2>3
  <2>4. CASE Follows(root, t, u) /\ t.step = "generate" /\ Under(x, t.path)
    <3>1. x = t.path
      BY <1>1, <1>3, <2>1, <2>2, <2>4
    <3>2. KindIn(root, x) \in Skipped
      BY <2>4, <3>1
    <3> QED BY <3>2 DEF Skipped, Expressions
  <2>5. CASE Follows(root, t, u) /\ t.step = "step" /\ Under(x, Child(t.path, 3))
    <3>1. KindIn(root, t.path) = "for" /\ 3 \in Positive
      BY <2>5, StepNode DEF Positive
    <3>2. Child(t.path, 3) \in Path /\ Under(Child(t.path, 3), t.path) /\ Parent(Child(t.path, 3)) = t.path
      BY <1>1, <3>1, AroundChild, ChildPath, ParentOfChild, UnderItself
    <3>3. x = Child(t.path, 3) \/ Under(q, Child(t.path, 3))
      BY <1>3, <2>5, <3>2
    <3>4. CASE x = Child(t.path, 3)
      BY <1>2, <3>1, <3>2, <3>4
    <3>5. CASE Under(q, Child(t.path, 3))
      <4>1. Under(q, t.path)
        BY <1>1, <1>2, <3>2, <3>5, UnderTransitive
      <4> QED BY <2>1, <2>2, <2>5, <4>1
    <3> QED BY <3>3, <3>4, <3>5
  <2>6. CASE Follows(root, t, u) /\ t.step = "finish" /\ x = t.path
    BY <2>6
  <2> QED BY <1>2, <1>7, <2>3, <2>4, <2>5, <2>6, PendingNoMore
<1> QED BY <1>5, <1>6, <1>7

\* Above the lambda of a function are the function and the program.
LEMMA AboveFunction ==
  ASSUME NEW root \in Program, NEW x \in NodesOf(root), KindIn(root, x) = "function"
  PROVE  LET l == Child(x, 2)
         IN  /\ l \in NodesOf(root) /\ l \in Path /\ x \in Path /\ Parent(l) = x /\ l # <<>> /\ x # <<>>
             /\ KindIn(root, l) = "lambda" /\ 2 \in 1..Arity(root, x) /\ Parent(x) = <<>>
             /\ IsPart(root, x, 2) /\ IsPart(root, <<>>, Last(x))
             /\ \A y \in Path : Under(l, y) => y \in {l, x, <<>>}
<1> DEFINE l == Child(x, 2)
<1>1. x \in Path /\ x # <<>> /\ KindIn(root, <<>>) = "program" /\ <<>> \in NodesOf(root)
  BY RootNode DEF NodesOf
<1>2. /\ Parent(x) \in NodesOf(root) /\ Parent(x) \in Path /\ Last(x) \in 1..Arity(root, Parent(x))
      /\ IsPlaced("function", Last(x), KindIn(root, Parent(x)), Arity(root, Parent(x)))
  BY <1>1, ParentNode
<1>3. KindIn(root, Parent(x)) = "program"
  BY <1>2 DEF IsPlaced, TypeKinds, Statements, Expressions
<1>4. Parent(x) = <<>>
  <2> SUFFICES ASSUME Parent(x) # <<>> PROVE FALSE
    OBVIOUS
  <2>1. IsPlaced("program", Last(Parent(x)), KindIn(root, Parent(Parent(x))), Arity(root, Parent(Parent(x))))
    BY <1>2, <1>3, ParentNode
  <2> QED BY <2>1 DEF IsPlaced, TypeKinds, Statements, Expressions
<1>5. Arity(root, x) = 2 /\ KindIn(root, l) = "lambda" /\ 2 \in Positive
  <2> DEFINE tn == NodeAt(root, x)
  <2>1. Shaped(tn) /\ tn.kind = "function"
    BY NodesAreWellFormed DEF KindIn
  <2>2. Len(tn.children) = 2 /\ tn.children[2].kind = "lambda"
    <3> HIDE DEF tn
    <3>1. Len(tn.children) = 2 /\ \A j \in {2} : tn.children[j].kind \in {"lambda"}
      BY <2>1, Zenon DEF Shaped
    <3> QED BY <3>1
  <2> QED BY <1>1, <2>2, NodeAtChild DEF Arity, KindIn, Positive
<1>6. l \in NodesOf(root) /\ l \in Path /\ Parent(l) = x /\ l # <<>>
  BY <1>5, ChildNode DEF NodesOf
<1>7. \A y \in Path : Under(l, y) => y \in {l, x, <<>>}
  <2> SUFFICES ASSUME NEW y \in Path, Under(l, y) PROVE y \in {l, x, <<>>}
    OBVIOUS
  <2>1. y = l \/ y = x \/ Under(<<>>, y)
    BY <1>1, <1>4, <1>6, UnderParent
  <2> QED BY <2>1, UnderRoot
<1>8. IsPart(root, x, 2) /\ IsPart(root, <<>>, Last(x))
  <2>1. IsPart(root, x, 2)
    BY <1>5 DEF IsPart, TypeKinds
  <2>2. Last(x) \in 1..Arity(root, <<>>)
    BY <1>2, <1>4
  <2>3. ASSUME NEW j \in 1..Arity(root, <<>>) PROVE IsPart(root, <<>>, j)
    BY <1>1 DEF IsPart, TypeKinds
  <2> QED BY <2>1, <2>2, <2>3
<1> QED BY <1>1, <1>4, <1>5, <1>6, <1>7, <1>8

\* A function is known when the generator is in its lambda, or behind it.
LEMMA KnowsFunctionsStep ==
  ASSUME NEW root \in Program, NEW ents, NEW t, IsGenerated(root, t), NEW u, IsMove(root, t, u),
         NEW known, NEW known2, KnowsFunctions(root, ents, t, known), known \subseteq known2,
         Follows(root, t, u) /\ t.step = "generate" => KindIn(root, t.path) \in Skipped,
         Enters(root, t, u) /\ KindIn(root, t.path) = "lambda" /\ KindIn(root, Parent(t.path)) = "function" =>
           ents[Child(Parent(t.path), 1)] \in known2
  PROVE  KnowsFunctions(root, ents, u, known2)
<1>1. t.path \in NodesOf(root) /\ t.path \in Path
  BY DEF IsGenerated, NodesOf
<1> SUFFICES ASSUME NEW x \in NodesOf(root), KindIn(root, x) = "function",
                    IsInside(u, Child(x, 2)) \/ ~Pending(root, u, Child(x, 2))
             PROVE  ents[Child(x, 1)] \in known2
  BY DEF KnowsFunctions
<1> DEFINE l == Child(x, 2)
<1>2. /\ l \in NodesOf(root) /\ l \in Path /\ x \in Path /\ Parent(l) = x /\ l # <<>> /\ x # <<>>
      /\ KindIn(root, l) = "lambda" /\ 2 \in 1..Arity(root, x) /\ Parent(x) = <<>>
      /\ IsPart(root, x, 2) /\ IsPart(root, <<>>, Last(x))
      /\ \A y \in Path : Under(l, y) => y \in {l, x, <<>>}
  BY AboveFunction
<1> HIDE DEF l
<1>3. CASE IsInside(t, l) \/ ~Pending(root, t, l)
  BY <1>3 DEF KnowsFunctions, l
<1>4. CASE ~IsInside(t, l) /\ Pending(root, t, l)
  <2>1. CASE IsInside(u, l)
    <3>1. l = t.path /\ Enters(root, t, u)
      BY <1>2, <1>4, <2>1, InsideAfter DEF IsMove
    <3> QED BY <1>2, <3>1
  <2>2. CASE ~Pending(root, u, l)
    <3>1. ASSUME Enters(root, t, u), Under(l, t.path), l # t.path,
                 \A k \in 1..Arity(root, t.path) : Under(l, Child(t.path, k)) => ~IsPart(root, t.path, k)
          PROVE  FALSE
      <4>1. t.path \in {x, <<>>}
        BY <1>1, <1>2, <3>1
      <4>2. CASE t.path = x
        BY <1>2, <3>1, <4>2, UnderItself DEF l
      <4>3. CASE t.path = <<>>
        <5>1. Last(x) \in 1..Arity(root, <<>>) /\ Child(<<>>, Last(x)) = x
          BY <1>2, ParentNode
        <5>2. Under(l, x)
          BY <1>2, UnderParent, UnderItself
        <5> QED BY <1>2, <3>1, <4>3, <5>1, <5>2
      <4> QED BY <4>1, <4>2, <4>3
    <3>2. ASSUME Under(l, t.path) PROVE KindIn(root, t.path) \in {"lambda", "function", "program"}
      BY <1>1, <1>2, <3>2, RootNode
    <3>3. ~(Follows(root, t, u) /\ t.step = "generate" /\ Under(l, t.path))
      BY <3>2 DEF Skipped
    <3>4. ~(t.step = "step" /\ Under(l, Child(t.path, 3)))
      <4> SUFFICES ASSUME t.step = "step", Under(l, Child(t.path, 3)) PROVE FALSE
        OBVIOUS
      <4>1. KindIn(root, t.path) = "for" /\ 3 \in Positive
        BY StepNode DEF Positive
      <4>2. Child(t.path, 3) \in Path /\ Under(Child(t.path, 3), t.path)
        BY <1>1, <4>1, AroundChild, ChildPath, UnderItself
      <4>3. Under(l, t.path)
        BY <1>1, <1>2, <4>2, UnderTransitive
      <4> QED BY <3>2, <4>1, <4>3
    <3>5. ~(t.step = "finish" /\ l = t.path)
      BY <1>2, <1>4, UnderItself DEF IsInside
    <3> QED BY <1>2, <1>4, <2>2, <3>1, <3>3, <3>4, <3>5, PendingNoMore
  <2> QED BY <2>1, <2>2 DEF l
<1> QED BY <1>3, <1>4

-----------------------------------------------------------------------------
(* What is known of the node that code is generated for.                   *)

\* In a program that is accepted every node was left.
LEMMA AcceptedTypes ==
  ASSUME AnalysisInv, Accepted, NEW p \in NodesOf(tree), p # <<>>
  PROVE  /\ TypedNode(p)
         /\ IsValue(p) => p \in DOMAIN types /\ Complete(TypeOf(p))
         /\ Kind(p) = "lambda" => IsLambda(TypeOf(p))
         /\ Kind(p) = "nop" => TypeOf(p) = Null
<1>1. WalkInv /\ TypesInv /\ TypedInv
  BY DEF AnalysisInv
<1>2. visitor = "visitor" /\ errors = {} /\ here = <<>> /\ cursor.moment = "leave" /\ p \in Path
  BY <1>1, AcceptedTree
<1>3. IsLeft(p, here, cursor.moment)
  BY <1>2, AllIsLeftAtTheEnd
<1>4. TypedNode(p) /\ (Kind(p) = "lambda" => IsLambda(TypeOf(p))) /\ (Kind(p) = "nop" => TypeOf(p) = Null)
  BY <1>1, <1>2, <1>3 DEF TypedInv
<1>5. IsValue(p) => p \in DOMAIN types
  BY <1>1, <1>2, <1>3 DEF TypesInv
<1>6. p \in DOMAIN types => Complete(TypeOf(p))
  BY <1>1, <1>2 DEF TypesInv, TypeOf
<1> QED BY <1>4, <1>5, <1>6

\* An expression that is a part of a node has a value.
LEMMA PartsAreValues ==
  ASSUME AnalysisInv, Accepted, NEW q \in NodesOf(tree), NEW i \in 1..Arity(tree, q),
         IsPart(tree, q, i), Kind(Child(q, i)) \in Expressions
  PROVE  /\ Child(q, i) \in NodesOf(tree) /\ Child(q, i) # <<>>
         /\ Child(q, i) \in DOMAIN types /\ Complete(TypeOf(Child(q, i)))
         /\ IsTarget(Child(q, i)) <=> i = 1 /\ Kind(q) = "operator" /\ Token(q) = "="
<1>1. WalkInv
  BY DEF AnalysisInv
<1>2. tree \in Program /\ \A x : KindIn(tree, x) = Kind(x)
  BY <1>1, AcceptedTree
<1> DEFINE x == Child(q, i)
<1>3. x \in NodesOf(tree) /\ x # <<>> /\ Parent(x) = q /\ Last(x) = i
  BY <1>2, ChildNode
<1> HIDE DEF x
<1>4. IsValue(x)
  BY <1>2, <1>3 DEF IsPart, IsValue, IsBeingDeclared, IsParameterIdentifier, x
<1>5. x \in DOMAIN types /\ Complete(TypeOf(x))
  BY <1>3, <1>4, AcceptedTypes
<1>6. IsTarget(x) <=> i = 1 /\ Kind(q) = "operator" /\ Token(q) = "="
  BY <1>3 DEF IsTarget
<1> QED BY <1>3, <1>5, <1>6 DEF x

\* The node that code is generated for, and what the invariants say of it.
LEMMA AtWork ==
  ASSUME Generating
  PROVE  /\ WalkInv /\ Accepted /\ errors = {} /\ tree \in Program /\ IsPlan(tree, work)
         /\ \A x : KindIn(tree, x) = Kind(x)
         /\ node = Head(work).path /\ node \in NodesOf(tree) /\ node \in Path
         /\ IsGenerated(tree, Head(work)) /\ IsReached(tree, node)
         /\ IsStack(tree, insert, Head(work))
         /\ HaveValues(tree, Head(work), DOMAIN values)
         /\ KnowsFunctions(tree, entries, Head(work), functions)
         /\ \A p \in DOMAIN values : IsTypedValue(p, values[p])
         /\ \A e \in DOMAIN allocas : IsTypedAlloca(e, allocas[e])
         /\ faulty # {} => Causes
<1>1. WalkInv /\ Accepted /\ IsPlan(tree, work) /\ IsReady(tree, entries, Head(work), insert, DOMAIN allocas)
  BY DEF Generating, AnalysisInv, GenerationInv
<1>2. errors = {} /\ tree \in Program /\ \A x : KindIn(tree, x) = Kind(x)
  BY <1>1, AcceptedTree
<1>3. IsGenerated(tree, Head(work)) /\ node = Head(work).path
  BY <1>1 DEF IsPlan, node
<1>4. node \in NodesOf(tree) /\ node \in Path /\ IsReached(tree, node)
  BY <1>3 DEF IsGenerated, NodesOf
<1>5. ValueInv /\ outcome # "none"
  BY DEF Generating
<1> QED BY <1>1, <1>2, <1>3, <1>4, <1>5 DEF ValueInv, IsReady

\* The node itself, if it is an expression, has a type.
LEMMA NodeIsValue ==
  ASSUME Generating, Kind(node) \in Expressions
  PROVE  /\ node # <<>> /\ node \in DOMAIN types /\ Complete(TypeOf(node)) /\ TypedNode(node)
         /\ Kind(node) = "lambda" => IsLambda(TypeOf(node))
<1>1. /\ AnalysisInv /\ Accepted /\ tree \in Program /\ \A x : KindIn(tree, x) = Kind(x)
      /\ node \in NodesOf(tree) /\ IsReached(tree, node)
  BY AtWork DEF Generating
<1>2. node # <<>>
  BY <1>1, RootNode DEF Expressions
<1>3. IsPart(tree, Parent(node), Last(node))
  BY <1>1, <1>2, ReachedParent
<1>4. IsValue(node)
  BY <1>1, <1>3 DEF IsPart, IsValue, IsBeingDeclared, IsParameterIdentifier
<1> QED BY <1>1, <1>2, <1>4, AcceptedTypes

\* The operands of a node have values when the node itself is finished.
LEMMA OperandsHaveValues ==
  ASSUME Generating, Head(work).step = "finish", Kind(node) # "for",
         NEW i \in 1..Arity(tree, node), IsPart(tree, node, i), Kind(Child(node, i)) \in Expressions
  PROVE  /\ Child(node, i) \in DOMAIN values
         /\ IsTypedValue(Child(node, i), values[Child(node, i)])
<1>1. /\ tree \in Program /\ \A x : KindIn(tree, x) = Kind(x)
      /\ node \in NodesOf(tree) /\ node \in Path /\ node = Head(work).path
      /\ HaveValues(tree, Head(work), DOMAIN values)
      /\ \A p \in DOMAIN values : IsTypedValue(p, values[p])
  BY AtWork
<1> DEFINE x == Child(node, i)
<1>2. x \in Path /\ i \in Positive
  BY <1>1, ChildNode DEF NodesOf
<1>3. Under(x, node) /\ ~Under(node, x) /\ Under(node, node)
  BY <1>1, <1>2, AroundChild, UnderItself
<1>4. ~Later(tree, node, x)
  BY <1>1, <1>2, <1>3, NotLaterThanAround
<1>5. IsInside(Head(work), node) /\ ~Pending(tree, Head(work), x)
  BY <1>1, <1>3, <1>4 DEF IsInside, Pending
<1>6. x \in DOMAIN values
  BY <1>1, <1>5 DEF HaveValues
<1> QED BY <1>1, <1>6

\* A type that is complete has an LLVM type.
LEMMA LLVMTypes ==
  /\ \A t : Complete(t) => LLVMType(t) # NullValue
  /\ \A t : IsArray(t) \/ IsLambda(t) => LLVMType(t) = "ptr"
  /\ LLVMType(BooleanType) = "i8" /\ LLVMType(IntegerType) = "i64" /\ LLVMType(RationalType) = "i128"
<1>1. ASSUME NEW b \in BaseTypes
      PROVE  /\ LLVMType(Base(b)) = [void |-> "void", bool |-> "i8", char |-> "i8", int |-> "i64",
                                     float |-> "double", rat |-> "i128", string |-> "ptr"][b]
             /\ LLVMType(Base(b)) # NullValue
  <2>1. ~IsArray(Base(b)) /\ ~IsLambda(Base(b)) /\ Base(b).base = b
    BY KindsOfTypes DEF Base
  <2> QED BY <2>1 DEF LLVMType, NullValue, BaseTypes
<1>2. \A t : IsArray(t) \/ IsLambda(t) => LLVMType(t) = "ptr"
  BY DEF LLVMType
<1>3. ASSUME NEW t, Complete(t) PROVE LLVMType(t) # NullValue
  BY <1>1, <1>2, <1>3, PartsOfComplete DEF NamedTypes, NullValue
<1> QED BY <1>1, <1>2, <1>3 DEF BooleanType, IntegerType, RationalType, BaseTypes

\* What is said of a program that was analyzed does not depend on code generation.
LEMMA SameProgram ==
  ASSUME UNCHANGED vars
  PROVE  /\ tree' = tree /\ entries' = entries /\ Accepted' = Accepted
         /\ Captures' = Captures /\ RationalComparisons' = RationalComparisons /\ EarlyUses' = EarlyUses
         /\ VoidElements' = VoidElements /\ VoidArguments' = VoidArguments /\ Causes' = Causes
         /\ \A p : TypeOf(p)' = TypeOf(p) /\ IsTarget(p)' = IsTarget(p)
         /\ \A p : EntryAt(p)' = EntryAt(p) /\ EnclosingFunction(p)' = EnclosingFunction(p)
         /\ Declarations' = Declarations
<1>1. tree' = tree /\ entries' = entries /\ types' = types /\ table' = table /\ errors' = errors /\ status' = status
  BY DEF vars
<1>2. Accepted' = Accepted
  BY <1>1 DEF Accepted
<1>3. /\ \A p : Kind(p)' = Kind(p) /\ Token(p)' = Token(p)
      /\ \A p : TypeOf(p)' = TypeOf(p)
      /\ \A e : EntryAt(e)' = EntryAt(e)
  BY <1>1 DEF Kind, Token, TypeOf, EntryAt
<1>4. \A p : Children(p)' = Children(p) /\ EnclosingFunction(p)' = EnclosingFunction(p) /\ IsTarget(p)' = IsTarget(p)
  BY <1>1 DEF Children, EnclosingFunction, IsTarget, Kind, Token
<1>5. \A p : IsDeclaration(p)' = IsDeclaration(p)
  BY <1>3 DEF IsDeclaration, IsBeingDeclared, IsParameterIdentifier
<1>6. References' = References /\ Declarations' = Declarations
  BY <1>1, <1>5 DEF References, Declarations
<1>7. VariableReferences' = VariableReferences
  BY <1>1, <1>3, <1>6 DEF VariableReferences
<1>8. Captures' = Captures
  BY <1>1, <1>4, <1>6, <1>7 DEF Captures
<1>9. EarlyUses' = EarlyUses
  BY <1>1, <1>6, <1>7 DEF EarlyUses
<1>10. \A kinds : OfKind(kinds)' = OfKind(kinds)
  BY <1>1, <1>3 DEF OfKind
<1>11. RationalComparisons' = RationalComparisons /\ VoidElements' = VoidElements /\ VoidArguments' = VoidArguments
  BY <1>3, <1>4, <1>10 DEF RationalComparisons, VoidElements, VoidArguments
<1>12. Causes' = Causes
  BY <1>8, <1>9, <1>11 DEF Causes
<1> QED BY <1>1, <1>2, <1>3, <1>4, <1>6, <1>8, <1>9, <1>11, <1>12

LEMMA ValuesStayTyped ==
  ASSUME UNCHANGED vars
  PROVE  /\ (\A p \in DOMAIN values' : IsTypedValue(p, values'[p])) =>
              (\A p \in DOMAIN values : IsTypedValue(p, values[p]))'
         /\ (\A e \in DOMAIN allocas' : IsTypedAlloca(e, allocas'[e])) =>
              (\A e \in DOMAIN allocas : IsTypedAlloca(e, allocas[e]))'
<1>1. /\ entries' = entries /\ RationalComparisons' = RationalComparisons /\ EarlyUses' = EarlyUses
      /\ \A p : TypeOf(p)' = TypeOf(p) /\ IsTarget(p)' = IsTarget(p)
      /\ \A p : EntryAt(p)' = EntryAt(p) /\ EnclosingFunction(p)' = EnclosingFunction(p)
      /\ Declarations' = Declarations
  BY SameProgram
<1>2. (\A p \in DOMAIN values' : IsTypedValue(p, values'[p])) =>
        (\A p \in DOMAIN values : IsTypedValue(p, values[p]))'
  BY <1>1 DEF IsTypedValue, Represents
<1>3. (\A e \in DOMAIN allocas' : IsTypedAlloca(e, allocas'[e])) =>
        (\A e \in DOMAIN allocas : IsTypedAlloca(e, allocas[e]))'
  BY <1>1 DEF IsTypedAlloca, Represents
<1> QED BY <1>2, <1>3

\* Code generation ends, with a cause if it fails.
LEMMA StopKeepsValues ==
  ASSUME Generating, UNCHANGED vars, NEW how, Stop(how), how # "none",
         how = "invalid" => Causes,
         how = "crashed" => EarlyUses \/ VoidElements \/ VoidArguments
  PROVE  ValueInv'
<1>1. /\ outcome' = how /\ work' = work /\ insert' = insert /\ values' = values /\ allocas' = allocas
      /\ functions' = functions /\ faulty' = faulty
  BY DEF Stop
<1>2. /\ HaveValues(tree, Head(work), DOMAIN values)
      /\ KnowsFunctions(tree, entries, Head(work), functions)
      /\ \A p \in DOMAIN values : IsTypedValue(p, values[p])
      /\ \A e \in DOMAIN allocas : IsTypedAlloca(e, allocas[e])
      /\ faulty # {} => Causes
  BY AtWork
<1>3. FailuresHaveTheirCause'
  BY <1>1, SameProgram DEF FailuresHaveTheirCause, Causes
<1>4. (\A p \in DOMAIN values : IsTypedValue(p, values[p]))'
  BY <1>1, <1>2, ValuesStayTyped
<1>5. (\A e \in DOMAIN allocas : IsTypedAlloca(e, allocas[e]))'
  BY <1>1, <1>2, ValuesStayTyped
<1> QED BY <1>1, <1>2, <1>3, <1>4, <1>5, SameProgram DEF ValueInv

\* Code generation goes on: what it comes behind, and what it leaves out.
LEMMA WorkMoves ==
  ASSUME Generating, GenerateCode, outcome' = outcome
  PROVE  LET t == Head(work)
             u == Head(work')
         IN  /\ IsMove(tree, t, u)
             /\ Follows(tree, t, u) /\ t.step = "generate" => KindIn(tree, t.path) \in Skipped
<1> DEFINE t == Head(work)
           u == Head(work')
<1>1. WalkInv /\ IsPlan(tree, work) /\ tree \in Program /\ IsGenerated(tree, t) /\ outcome = "running"
  BY AtWork DEF Generating
<1>2. ~Begin /\ ~IsStopped
  BY <1>1 DEF Begin, IsStopped
<1>3. GeneratorStep(tree, entries, t, u, insert, insert', DOMAIN allocas, DOMAIN allocas')
  BY <1>1, <1>2, GenerationMoves DEF Moved
<1> HIDE DEF t, u
<1>4. Enters(tree, t, u) /\ Follows(tree, t, u) => KindIn(tree, t.path) = "for"
  <2> SUFFICES ASSUME Enters(tree, t, u), Follows(tree, t, u), KindIn(tree, t.path) # "for" PROVE FALSE
    OBVIOUS
  <2>1. IsMove(tree, t, u) /\ t.path \in Path
    BY <1>1 DEF IsMove, IsGenerated, NodesOf
  <2> QED BY <1>1, <2>1, InsideAfter
<1>5. IsMove(tree, t, u)
  BY <1>3 DEF GeneratorStep, IsMove, EntersNode, EntersFunction, EntersStep, SkipsNode, SkipsStep,
              OpensBlock, LeavesBranches, LeavesReturn, LeavesLambda, LeavesNode
<1>6. Follows(tree, t, u) /\ t.step = "generate" => KindIn(tree, t.path) \in Skipped
  BY <1>3, <1>4 DEF GeneratorStep, EntersNode, EntersFunction, EntersStep, SkipsNode, SkipsStep,
              OpensBlock, LeavesBranches, LeavesReturn, LeavesLambda, LeavesNode, StepsOn, Skipped
<1> QED BY <1>5, <1>6 DEF t, u

LEMMA MoveKeepsValues ==
  ASSUME Generating, UNCHANGED vars, GenerateCode, outcome' = outcome,
         DOMAIN values \subseteq DOMAIN values', functions \subseteq functions',
         Head(work).step = "finish" /\ Kind(node) \in Expressions => node \in DOMAIN values',
         Head(work).step = "generate" /\ Kind(node) = "lambda" /\ Kind(Parent(node)) = "function" =>
           entries[Child(Parent(node), 1)] \in functions',
         \A p \in DOMAIN values' : IsTypedValue(p, values'[p]),
         \A e \in DOMAIN allocas' : IsTypedAlloca(e, allocas'[e]),
         faulty' # {} => Causes
  PROVE  ValueInv'
<1> DEFINE t == Head(work)
           u == Head(work')
<1>1. /\ tree \in Program /\ IsGenerated(tree, t) /\ node = t.path /\ \A x : KindIn(tree, x) = Kind(x)
      /\ HaveValues(tree, t, DOMAIN values) /\ KnowsFunctions(tree, entries, t, functions)
      /\ outcome = "running"
  BY AtWork DEF Generating
<1>2. /\ IsMove(tree, t, u)
      /\ Follows(tree, t, u) /\ t.step = "generate" => KindIn(tree, t.path) \in Skipped
  BY WorkMoves
<1> HIDE DEF t, u
<1>3. HaveValues(tree, u, DOMAIN values')
  <2>1. t.step = "finish" /\ KindIn(tree, t.path) \in Expressions => t.path \in DOMAIN values'
    BY <1>1 DEF t
  <2> QED BY <1>1, <1>2, <2>1, HaveValuesStep
<1>4. KnowsFunctions(tree, entries, u, functions')
  <2>1. Enters(tree, t, u) /\ KindIn(tree, t.path) = "lambda" /\ KindIn(tree, Parent(t.path)) = "function" =>
          entries[Child(Parent(t.path), 1)] \in functions'
    BY <1>1 DEF Enters, t
  <2> QED BY <1>1, <1>2, <2>1, KnowsFunctionsStep
<1>5. FailuresHaveTheirCause'
  BY <1>1 DEF FailuresHaveTheirCause
<1>6. (\A p \in DOMAIN values : IsTypedValue(p, values[p]))'
  BY ValuesStayTyped
<1>7. (\A e \in DOMAIN allocas : IsTypedAlloca(e, allocas[e]))'
  BY ValuesStayTyped
<1> QED BY <1>1, <1>3, <1>4, <1>5, <1>6, <1>7, SameProgram DEF ValueInv, u

-----------------------------------------------------------------------------
(* The innermost function that is open.                                    *)

\* The innermost of the paths above a path is the longest of them, and there is only one.
LEMMA InnermostOfAll ==
  ASSUME NEW p \in Path, NEW S, \A q \in S : q \in Path /\ Under(p, q),
         NEW x \in S, \A q \in S : Len(q) <= Len(x)
  PROVE  Innermost(S) = x
<1> DEFINE y == Innermost(S)
<1>1. y \in S /\ \A q \in S : Len(q) <= Len(y)
  BY InnermostIsThere
<1> HIDE DEF y
<1>2. x \in Path /\ y \in Path /\ Under(p, x) /\ Under(p, y) /\ Len(x) <= Len(y) /\ Len(y) <= Len(x)
  BY <1>1
<1>3. Len(x) \in Nat /\ Len(y) \in Nat
  BY <1>2, LenProperties DEF Path
<1>4. Len(x) = Len(y)
  BY <1>2, <1>3
<1>5. \A i \in 1..Len(x) : x[i] = y[i]
  BY <1>2, <1>4 DEF Under
<1> QED BY <1>2, <1>4, <1>5, PathsEqual DEF y

\* A name that code is generated for, and a declaration, are in a function.
LEMMA InAFunction ==
  ASSUME NEW root \in Program, NEW p \in NodesOf(root), IsReached(root, p),
         KindIn(root, p) \in {"identifier", "declaration"}
  PROVE  \E f \in NodesOf(root) : KindIn(root, f) \in {"lambda", "main"} /\ Under(p, f)
<1> DEFINE S == {"program", "function"}
<1>1. p \in Path /\ <<>> \in Path /\ Under(p, <<>>) /\ KindIn(root, <<>>) \in S /\ KindIn(root, p) \notin S
  BY RootNode, UnderRoot DEF NodesOf
<1>2. PICK q \in NodesOf(root) : \E i \in 1..Arity(root, q) :
         Under(p, Child(q, i)) /\ KindIn(root, q) \in S /\ KindIn(root, Child(q, i)) \notin S
  BY <1>1, WayOut
<1> PICK i \in 1..Arity(root, q) :
      Under(p, Child(q, i)) /\ KindIn(root, q) \in S /\ KindIn(root, Child(q, i)) \notin S
  BY <1>2
<1>3. /\ Child(q, i) \in NodesOf(root) /\ Child(q, i) # <<>> /\ Parent(Child(q, i)) = q
      /\ Last(Child(q, i)) = i
      /\ IsPlaced(KindIn(root, Child(q, i)), i, KindIn(root, q), Arity(root, q))
  BY ChildNode
<1>4. IsPart(root, q, i)
  BY <1>2, <1>3 DEF IsReached
<1>5. KindIn(root, Child(q, i)) \in {"lambda", "main"}
  <2>1. KindIn(root, q) = "function" => i # 1
    BY <1>4 DEF IsPart
  <2>2. ASSUME NEW k, NEW parent \in {"program", "function"}, NEW last, IsPlaced(k, i, parent, last),
               k \notin {"program", "function"}, parent = "function" => i # 1
        PROVE  k \in {"lambda", "main"}
    <3>1. CASE parent = "program"
      BY <2>2, <3>1, Zenon DEF IsPlaced
    <3>2. CASE parent = "function"
      BY <2>2, <3>2, Zenon DEF IsPlaced
    <3> QED BY <3>1, <3>2
  <2> QED BY <1>3, <2>1, <2>2
<1> QED BY <1>2, <1>3, <1>5

\* When a node is finished, the innermost function that is open is the one around it.
LEMMA CurrentIsEnclosing ==
  ASSUME Generating, Head(work).step = "finish", Kind(node) \in {"identifier", "declaration"},
         NEW x \in Path, Under(x, node),
         \A q \in Path : Under(x, q) /\ Kind(q) \in {"lambda", "main"} => Under(node, q)
  PROVE  Current = EnclosingFunction(x)
<1> DEFINE t == Head(work)
           X == {q \in PathToRoot(x) : Kind(q) \in {"lambda", "main"}}
           n == Len(insert)
<1>1. /\ tree \in Program /\ \A q : KindIn(tree, q) = Kind(q)
      /\ node = t.path /\ node \in NodesOf(tree) /\ node \in Path /\ IsReached(tree, node)
      /\ IsStack(tree, insert, t)
  BY AtWork
<1>2. \A q : q \in X <=> q \in Path /\ Under(node, q) /\ Kind(q) \in {"lambda", "main"}
  BY <1>1, OnPathToRoot, UnderTransitive
<1>3. \A q : q \in X <=> IsFunctionAround(tree, t, q)
  <2>1. \A q \in Path : Under(node, q) => q \in NodesOf(tree)
    BY <1>1, AboveNode
  <2> QED BY <1>1, <1>2, <2>1 DEF IsFunctionAround, IsInside, NodesOf
<1>4. X # {}
  <2>1. PICK f \in NodesOf(tree) : KindIn(tree, f) \in {"lambda", "main"} /\ Under(node, f)
    BY <1>1, InAFunction
  <2> QED BY <1>1, <1>2, <2>1 DEF NodesOf
<1>5. t # Task(<<>>, "finish")
  <2>1. node # <<>>
    BY <1>1, RootNode
  <2> QED BY <1>1, <2>1 DEF Task
<1> HIDE DEF X, t
<1>6. insert \in Seq(Frame) /\ n \in Nat
  BY <1>1 DEF IsStack
<1>7. n >= 1
  <2>1. \E k \in 1..n : TRUE
    BY <1>1, <1>3, <1>4, <1>5 DEF IsStack, IsFunctionAround
  <2> QED BY <1>6, <2>1
<1>8. Current = insert[n].function
  BY <1>6, <1>7 DEF Current, Last
<1>9. insert[n].function \in X
  BY <1>1, <1>3, <1>5, <1>6, <1>7 DEF IsStack
<1>10. ASSUME NEW q \in X PROVE Len(q) <= Len(insert[n].function)
  <2>1. PICK k \in 1..n : insert[k].function = q
    BY <1>1, <1>3, <1>5 DEF IsStack, IsFunctionAround
  <2>2. k < n => Len(insert[k].function) < Len(insert[n].function)
    BY <1>1, <1>6, <1>7 DEF IsStack
  <2>3. q \in Path /\ insert[n].function \in Path
    BY <1>2, <1>9
  <2>4. Len(q) \in Nat /\ Len(insert[n].function) \in Nat
    BY <2>3, LenProperties DEF Path
  <2>5. k < n \/ k = n
    BY <1>6
  <2> QED BY <2>1, <2>2, <2>4, <2>5
<1>11. \A q \in X : q \in Path /\ Under(node, q)
  BY <1>2
<1>12. Innermost(X) = insert[n].function
  BY <1>1, <1>9, <1>10, <1>11, InnermostOfAll
<1> QED BY <1>8, <1>12 DEF EnclosingFunction, X

-----------------------------------------------------------------------------
(* Values.                                                                 *)

LEMMA YieldKeepsValues ==
  ASSUME Generating, UNCHANGED vars, GenerateCode, Head(work).step = "finish",
         NEW value, NEW bad, Yield(value, bad), IsTypedValue(node, value), bad => Causes
  PROVE  ValueInv'
<1>1. /\ values' = With(values, node, value) /\ outcome' = outcome
      /\ allocas' = allocas /\ functions' = functions
      /\ faulty' # {} => bad \/ faulty # {}
  BY DEF Yield
<1>2. /\ \A p \in DOMAIN values : IsTypedValue(p, values[p])
      /\ \A e \in DOMAIN allocas : IsTypedAlloca(e, allocas[e])
      /\ faulty # {} => Causes
  BY AtWork
<1>3. /\ DOMAIN values' = DOMAIN values \cup {node} /\ values'[node] = value
      /\ \A p \in DOMAIN values : p # node => values'[p] = values[p]
  <2>1. /\ DOMAIN With(values, node, value) = DOMAIN values \cup {node}
        /\ With(values, node, value)[node] = value
        /\ \A p \in DOMAIN values : p # node => With(values, node, value)[p] = values[p]
    BY DEF With
  <2> QED BY <1>1, <2>1
<1>4. \A p \in DOMAIN values' : IsTypedValue(p, values'[p])
  BY <1>2, <1>3
<1>5. \A e \in DOMAIN allocas' : IsTypedAlloca(e, allocas'[e])
  BY <1>1, <1>2
<1> QED BY <1>1, <1>2, <1>3, <1>4, <1>5, MoveKeepsValues

\* A value of the LLVM type of a complete type.
LEMMA TypedAsItsNode ==
  ASSUME NEW p, Complete(TypeOf(p))
  PROVE  IsTypedValue(p, LLVMType(TypeOf(p)))
BY LLVMTypes DEF IsTypedValue, Represents

LEMMA ConstantHasItsType ==
  ASSUME Generating, UNCHANGED vars, GenerateCode, FinishConstant
  PROVE  ValueInv'
<1> DEFINE value == IF Kind(node) = "nop" THEN "i8" ELSE LLVMType(Base(Kind(node)))
<1>1. /\ Head(work).step = "finish" /\ Kind(node) \in {"bool", "char", "int", "float", "string", "nop"}
      /\ Yield(value, FALSE)
  BY DEF FinishConstant, Finishing, Doing
<1>2. AnalysisInv /\ Accepted /\ node \in NodesOf(tree) /\ tree \in Program /\ \A x : KindIn(tree, x) = Kind(x)
  BY AtWork DEF Generating
<1>3. IsTypedValue(node, value)
  <2>1. CASE Kind(node) = "nop"
    <3>1. node # <<>>
      BY <1>2, <2>1, RootNode
    <3>2. TypeOf(node) = Null
      BY <1>2, <2>1, <3>1, AcceptedTypes
    <3> QED BY <2>1, <3>2 DEF IsTypedValue, NullValue
  <2>2. CASE Kind(node) \in {"bool", "char", "int", "float", "string"}
    <3>1. Complete(TypeOf(node)) /\ TypedNode(node)
      BY <2>2, NodeIsValue DEF Expressions
    <3>2. TypeOf(node) = Base(Kind(node))
      BY <2>2, <3>1 DEF TypedNode
    <3>3. value = LLVMType(TypeOf(node))
      BY <2>2, <3>2
    <3> QED BY <3>1, <3>3, TypedAsItsNode
  <2> QED BY <1>1, <2>1, <2>2
<1> HIDE DEF value
<1> QED BY <1>1, <1>3, YieldKeepsValues

\* What is known of a name that code is generated for.
LEMMA NameAtWork ==
  ASSUME Generating, Kind(node) = "identifier"
  PROVE  /\ node \in References /\ Complete(TypeOf(node))
         /\ TypeOf(node) = EntryAt(entries[node]).type
         /\ \E d \in Declarations :
              /\ entries[d] = entries[node] /\ EntryAt(entries[node]).symbol = SymbolOf(d)
              /\ Kind(Parent(d)) = "function" => IsLambda(TypeOf(node))
<1>1. /\ WalkInv /\ Accepted /\ errors = {} /\ tree \in Program /\ \A x : KindIn(tree, x) = Kind(x)
      /\ node \in NodesOf(tree) /\ IsReached(tree, node)
  BY AtWork
<1>2. EntriesInv /\ NamesInv /\ UsesInv /\ SymbolsInv
  BY DEF Generating, AnalysisInv
<1>3. /\ node \in References
      /\ \E d \in Declarations : IsNearest(d, node) /\ entries[node] = entries[d]
  BY <1>1, <1>2, NamesAreFound
<1>4. PICK d \in Declarations : IsNearest(d, node) /\ entries[node] = entries[d]
  BY <1>3
<1>5. Complete(TypeOf(node))
  BY <1>1, NodeIsValue DEF Expressions
<1>6. entries[node] # NoEntry
  BY <1>4 DEF IsNearest, NoEntry
<1>7. TypeOf(node) \in {EntryAt(entries[node]).type, ErrorType}
  BY <1>2, <1>3, <1>6 DEF EntriesInv, ReferencesHaveTheirEntrysType
<1>8. TypeOf(node) = EntryAt(entries[node]).type
  BY <1>5, <1>7, PartsOfComplete
<1>9. /\ EntryAt(entries[d]).symbol = SymbolOf(d) /\ EntryAt(entries[d]).type = TypeOf(d)
      /\ Kind(Parent(d)) = "function" => IsLambda(TypeOf(d))
  BY <1>1, <1>2 DEF SymbolsInv
<1> QED BY <1>3, <1>4, <1>5, <1>8, <1>9

\* A function is missing where it is used before its definition.
LEMMA MissingFunctions ==
  ASSUME Generating, Head(work).step = "finish", Kind(node) = "identifier",
         EntryAt(entries[node]).symbol = "function", entries[node] \notin functions
  PROVE  EarlyUses
<1> DEFINE t == Head(work)
<1>1. /\ WalkInv /\ Accepted /\ tree \in Program /\ \A x : KindIn(tree, x) = Kind(x)
      /\ node = t.path /\ node \in NodesOf(tree) /\ node \in Path
      /\ KnowsFunctions(tree, entries, t, functions) /\ EntriesInv
  BY AtWork DEF Generating, AnalysisInv
<1>2. node \in References /\ node \notin Declarations
  BY NameAtWork DEF References, Declarations
<1>3. PICK d \in Declarations : entries[d] = entries[node] /\ EntryAt(entries[node]).symbol = SymbolOf(d)
  BY NameAtWork
<1>4. Kind(Parent(d)) = "function"
  BY <1>3 DEF SymbolOf
<1>5. d \in NodesOf(tree) /\ Kind(d) = "identifier" /\ d \in Path /\ d # <<>>
  <2>1. d \in NodesOf(tree) /\ Kind(d) = "identifier"
    BY <1>1 DEF EntriesInv, Declarations
  <2> QED BY <1>1, <2>1, RootNode DEF NodesOf
<1> DEFINE x == Parent(d)
           l == Child(x, 2)
<1>6. x \in NodesOf(tree) /\ KindIn(tree, x) = "function" /\ Child(x, Last(d)) = d
  BY <1>1, <1>4, <1>5, ParentNode
<1>7. Last(d) = 1
  BY <1>3, <1>4 DEF Declarations, IsDeclaration, IsBeingDeclared, IsParameterIdentifier
<1>8. /\ l \in NodesOf(tree) /\ l \in Path /\ x \in Path /\ Parent(l) = x /\ x # <<>>
      /\ Parent(x) = <<>> /\ 2 \in 1..Arity(tree, x) /\ Arity(tree, x) = 2
      /\ \A y \in Path : Under(l, y) => y \in {l, x, <<>>}
  <2>1. Arity(tree, x) = 2
    <3>1. Shaped(NodeAt(tree, x)) /\ NodeAt(tree, x).kind = "function"
      BY <1>1, <1>6, NodesAreWellFormed DEF KindIn
    <3> QED BY <3>1 DEF Shaped, Arity
  <2> QED BY <1>1, <1>6, <2>1, AboveFunction
<1> HIDE DEF x, l, t
<1>9. ~IsInside(t, l) /\ Pending(tree, t, l)
  <2>1. entries[Child(x, 1)] \notin functions
    BY <1>3, <1>6, <1>7
  <2> QED BY <1>1, <1>6, <2>1 DEF KnowsFunctions, l
<1>10. Later(tree, node, l)
  BY <1>1, <1>9 DEF Pending, IsInside, t
<1>11. PICK q \in NodesOf(tree) : \E i, j \in 1..Arity(tree, q) :
         /\ Under(node, Child(q, i)) /\ Under(l, Child(q, j))
         /\ IsPart(tree, q, j) /\ Rank(tree, q, i) < Rank(tree, q, j)
  BY <1>10 DEF Later
<1> PICK i \in 1..Arity(tree, q), j \in 1..Arity(tree, q) :
         /\ Under(node, Child(q, i)) /\ Under(l, Child(q, j))
         /\ IsPart(tree, q, j) /\ Rank(tree, q, i) < Rank(tree, q, j)
  BY <1>11
<1>12. /\ q \in Path /\ i \in Positive /\ j \in Positive
       /\ Child(q, i) \in Path /\ Child(q, j) \in Path /\ Child(q, j) # <<>>
       /\ Parent(Child(q, j)) = q /\ Last(Child(q, j)) = j
  BY <1>1, ChildNode DEF NodesOf
<1>13. Child(q, j) \in {l, x}
  BY <1>8, <1>12
<1>14. CASE Child(q, j) = l
  <2>1. q = x /\ j = 2
    BY <1>8, <1>12, <1>14, ChildPath DEF l, Positive
  <2>2. i # 2
    BY <1>1, <2>1, Ranks
  <2>3. i = 1
    BY <1>8, <2>1, <2>2
  <2>4. Child(q, i) = d
    BY <1>6, <1>7, <2>1, <2>3
  <2>5. node = d
    BY <1>1, <1>5, <2>4, NothingBelowLeaf DEF Kind, LeafKinds
  <2> QED BY <1>2, <2>5
<1>15. CASE Child(q, j) = x
  <2>1. q = <<>>
    BY <1>8, <1>12, <1>15
  <2>2. KindIn(tree, q) = "program"
    BY <1>1, <2>1, RootNode
  <2>3. i < j
    BY <2>2 DEF Rank
  <2>4. Under(d, x)
    BY <1>5, UnderParent, UnderItself, ParentPath DEF x
  <2>5. ASSUME NEW y \in Path, NEW k \in Positive, Under(y, Child(<<>>, k)) PROVE Head(y) = k
    <3>1. <<>> \in Path /\ Len(<<>>) = 0
      BY EmptySeq DEF Path
    <3>2. Len(Child(<<>>, k)) = 1 /\ Child(<<>>, k)[1] = k
      BY DEF Child
    <3>3. y[1] = k
      BY <2>5, <3>2 DEF Under
    <3> QED BY <3>3 DEF Path
  <2>6. Head(node) = i /\ Head(d) = j
    BY <1>1, <1>5, <1>12, <1>15, <2>1, <2>4, <2>5
  <2>7. node \in References \ VariableReferences
    BY <1>2 DEF VariableReferences
  <2> QED BY <1>3, <2>3, <2>6, <2>7 DEF EarlyUses
<1> QED BY <1>13, <1>14, <1>15

LEMMA IdentifierHasItsType ==
  ASSUME Generating, UNCHANGED vars, GenerateCode, FinishIdentifier
  PROVE  ValueInv'
<1> DEFINE e == entries[node]
<1>1. Head(work).step = "finish" /\ Kind(node) = "identifier"
  BY DEF FinishIdentifier, Finishing, Doing
<1>2. /\ node \in References /\ Complete(TypeOf(node)) /\ TypeOf(node) = EntryAt(e).type
      /\ \E d \in Declarations :
           /\ entries[d] = e /\ EntryAt(e).symbol = SymbolOf(d)
           /\ Kind(Parent(d)) = "function" => IsLambda(TypeOf(node))
  BY <1>1, NameAtWork
<1>3. /\ node \in NodesOf(tree) /\ node \in Path /\ \A x \in DOMAIN allocas : IsTypedAlloca(x, allocas[x])
      /\ outcome = "running"
  BY AtWork DEF Generating
<1> HIDE DEF e
<1>4. CASE EntryAt(e).symbol = "function" /\ Yield(IF e \in functions THEN "ptr" ELSE NullValue, FALSE)
  <2> DEFINE value == IF e \in functions THEN "ptr" ELSE NullValue
  <2>1. LLVMType(TypeOf(node)) = "ptr"
    BY <1>2, <1>4, LLVMTypes DEF SymbolOf
  <2>2. e \notin functions => EarlyUses
    BY <1>1, <1>4, MissingFunctions DEF e
  <2>3. IsTypedValue(node, value)
    BY <2>1, <2>2 DEF IsTypedValue, Represents, NullValue
  <2>4. Yield(value, FALSE)
    BY <1>4
  <2> HIDE DEF value
  <2> QED BY <1>1, <2>3, <2>4, YieldKeepsValues
<1>5. CASE Stop("no alloca")
  BY <1>5, StopKeepsValues
<1>6. CASE /\ EntryAt(e).symbol # "function" /\ e \in DOMAIN allocas
           /\ Yield(IF IsTarget(node) THEN "ptr" ELSE allocas[e].type, allocas[e].function # Current)
  <2> DEFINE value == IF IsTarget(node) THEN "ptr" ELSE allocas[e].type
             bad == allocas[e].function # Current
  <2>1. Represents(allocas[e].type, TypeOf(node))
    BY <1>2, <1>3, <1>6 DEF IsTypedAlloca
  <2>2. allocas[e].type # NullValue
    BY <1>2, <2>1, LLVMTypes DEF Represents, NullValue
  <2>3. IsTypedValue(node, value)
    BY <2>1, <2>2 DEF IsTypedValue, NullValue
  <2>4. bad => Captures
    <3>1. PICK d \in Declarations : entries[d] = e /\ allocas[e].function = EnclosingFunction(d)
      BY <1>3, <1>6 DEF IsTypedAlloca
    <3>2. Current = EnclosingFunction(node)
      BY <1>1, <1>3, CurrentIsEnclosing, UnderItself
    <3>3. EntryAt(e).symbol = "variable"
      BY <1>2, <1>6 DEF SymbolOf
    <3>4. node \in VariableReferences
      BY <1>2, <3>3 DEF VariableReferences, e
    <3> QED BY <3>1, <3>2, <3>4 DEF Captures, e
  <2>5. Yield(value, bad)
    BY <1>6
  <2>6. bad => Causes
    BY <2>4 DEF Causes
  <2> HIDE DEF value, bad
  <2> QED BY <1>1, <2>3, <2>5, <2>6, YieldKeepsValues
<1> QED BY <1>4, <1>5, <1>6 DEF FinishIdentifier, e

\* The operands of a node that is finished.
LEMMA Operands ==
  ASSUME Generating, Head(work).step = "finish",
         Kind(node) \in {"operator", "invocation", "array", "return"}, NEW i \in 1..Len(Children(node))
  PROVE  /\ Children(node)[i] = Child(node, i)
         /\ Complete(TypeOf(Child(node, i))) /\ TypeOfChild(i) = TypeOf(Child(node, i))
         /\ ValueOf(i) = NullValue => EarlyUses
         /\ TypeOfChild(i) # VoidType /\ ValueOf(i) # NullValue
              /\ ~(i = 1 /\ Kind(node) = "operator" /\ Token(node) = "=") =>
              Represents(ValueOf(i), TypeOfChild(i))
<1>1. /\ WalkInv /\ AnalysisInv /\ Accepted /\ tree \in Program /\ \A x : KindIn(tree, x) = Kind(x)
      /\ node \in NodesOf(tree)
  BY AtWork DEF Generating
<1>2. Len(Children(node)) = Arity(tree, node) /\ \A k \in 1..Arity(tree, node) : Children(node)[k] = Child(node, k)
  BY <1>1, ChildrenOf
<1>3. i \in 1..Arity(tree, node)
  BY <1>2
<1>4. IsPlaced(KindIn(tree, Child(node, i)), i, KindIn(tree, node), Arity(tree, node))
  BY <1>1, <1>3, ChildNode
<1>5. Kind(Child(node, i)) \in Expressions
  <2>1. ASSUME NEW k, NEW parent \in {"operator", "invocation", "array", "return"}, NEW last,
               IsPlaced(k, i, parent, last)
        PROVE  k \in Expressions
    BY <2>1 DEF IsPlaced
  <2> QED BY <1>1, <1>4, <2>1
<1>6. IsPart(tree, node, i)
  BY <1>1, <1>3 DEF IsPart, TypeKinds
<1>7. /\ Complete(TypeOf(Child(node, i)))
      /\ IsTarget(Child(node, i)) <=> i = 1 /\ Kind(node) = "operator" /\ Token(node) = "="
  BY <1>1, <1>3, <1>5, <1>6, PartsAreValues
<1>8. IsTypedValue(Child(node, i), values[Child(node, i)])
  BY <1>3, <1>5, <1>6, OperandsHaveValues
<1>9. TypeOf(Child(node, i)) # Null
  BY <1>7, PartsOfComplete
<1> QED BY <1>2, <1>3, <1>7, <1>8, <1>9 DEF IsTypedValue, ValueOf, TypeOfChild

LEMMA NullOperands ==
  ASSUME Generating, Head(work).step = "finish",
         Kind(node) \in {"operator", "invocation", "array"}, HasNull(Children(node))
  PROVE  EarlyUses
<1>1. PICK i \in 1..Len(Children(node)) : values[Children(node)[i]] = NullValue
  BY DEF HasNull
<1> QED BY <1>1, Operands DEF ValueOf

\* The value of an operator, by its token.
LEMMA ValueByToken ==
  /\ Token(node) \in Comparisons => OperatorValue = ComparisonValue(TypeOfChild(1))
  /\ Token(node) \in {"!", "&&", "||"} => OperatorValue = "i8"
  /\ Token(node) = "//" => OperatorValue = "i128"
  /\ Token(node) = "sizeof" => OperatorValue = "i64"
  /\ Token(node) = "=" => OperatorValue = ValueOf(2)
  /\ Token(node) = "[]" => OperatorValue = ElementOrAddress(node, Subtype(TypeOfChild(1)))
  /\ Token(node) \in {"+", "-", "*", "/", "%"} => OperatorValue = ValueOf(1)
<1> DEFINE op == Token(node)
           a == ComparisonValue(TypeOfChild(1))
           b == ValueOf(2)
           c == ElementOrAddress(node, Subtype(TypeOfChild(1)))
           d == ValueOf(1)
<1>1. OperatorValue =
        CASE op \in Comparisons -> a
          [] op \in {"!", "&&", "||"} -> "i8"
          [] op = "//" -> "i128"
          [] op = "sizeof" -> "i64"
          [] op = "=" -> b
          [] op = "[]" -> c
          [] OTHER -> d
  BY DEF OperatorValue
<1> HIDE DEF op, a, b, c, d
<1>2. /\ op \in Comparisons => OperatorValue = a
      /\ op \in {"!", "&&", "||"} => OperatorValue = "i8"
      /\ op = "//" => OperatorValue = "i128"
      /\ op = "sizeof" => OperatorValue = "i64"
      /\ op = "=" => OperatorValue = b
      /\ op = "[]" => OperatorValue = c
      /\ op \in {"+", "-", "*", "/", "%"} => OperatorValue = d
  BY <1>1 DEF Comparisons
<1> QED BY <1>2 DEF op, a, b, c, d

LEMMA OperatorHasItsType ==
  ASSUME Generating, UNCHANGED vars, GenerateCode, FinishOperator
  PROVE  ValueInv'
<1>1. Head(work).step = "finish" /\ Kind(node) = "operator"
  BY DEF FinishOperator, Finishing, Doing
<1>2. CASE HasNull(Children(node)) /\ Stop("crashed")
  BY <1>1, <1>2, NullOperands, StopKeepsValues
<1>3. CASE ~HasNull(Children(node)) /\ Yield(OperatorValue, FALSE)
  <2> DEFINE type == TypeOf(node)
             first == TypeOfChild(1)
  <2>1. Complete(type) /\ TypedNode(node) /\ node \in DOMAIN types
    BY <1>1, NodeIsValue DEF Expressions
  <2>2. /\ 1 \in 1..Len(Children(node)) /\ Token(node) \in Operators
        /\ Token(node) = "=" => 2 \in 1..Len(Children(node))
    <3>1. WalkInv /\ tree \in Program /\ node \in NodesOf(tree)
      BY AtWork
    <3>2. WellFormed(NodeAt(tree, node)) /\ NodeAt(tree, node).kind = "operator"
      BY <1>1, <3>1, NodesAreWellFormed DEF Kind
    <3>3. /\ Len(NodeAt(tree, node).children) \in {1, 2} /\ NodeAt(tree, node).token \in Operators
          /\ NodeAt(tree, node).token = "=" => Len(NodeAt(tree, node).children) = 2
      BY <3>2 DEF WellFormed, UnaryOperators, Operators
    <3>4. Len(NodeAt(tree, node).children) \in Nat
      BY <3>1, NodesAreWellFormed
    <3>5. Len(Children(node)) = Len(NodeAt(tree, node).children)
      BY <3>4 DEF Children
    <3>6. Len(Children(node)) \in {1, 2} /\ (Token(node) = "=" => Len(Children(node)) = 2)
      BY <3>3, <3>5 DEF Token
    <3>7. 1 \in 1..Len(Children(node)) /\ (Token(node) = "=" => 2 \in 1..Len(Children(node)))
      BY <3>6
    <3> QED BY <3>3, <3>7 DEF Token
  <2>3. IsTypeOf(Token(node), first, type)
    BY <1>1, <2>1 DEF TypedNode, TypeOfChild
  <2>4. /\ ValueOf(1) # NullValue /\ Complete(first)
        /\ first # VoidType /\ Token(node) # "=" => Represents(ValueOf(1), first)
    BY <1>1, <1>3, <2>2, Operands DEF HasNull, ValueOf
  <2>6. Token(node) = "=" => (ValueOf(2) = NullValue => EarlyUses)
    BY <1>1, <2>2, Operands
  <2> HIDE DEF type, first
  <2>5. IsTypedValue(node, OperatorValue)
    <3>1. CASE Token(node) \in Comparisons
      <4>1. OperatorValue = ComparisonValue(first) /\ type = BooleanType
        BY <2>3, <3>1, ValueByToken DEF IsTypeOf, first
      <4>2. first = RationalType => RationalComparisons
        BY <1>1, <2>1, <3>1 DEF RationalComparisons, OfKind, first, TypeOfChild
      <4> QED BY <4>1, <4>2, LLVMTypes DEF ComparisonValue, IsTypedValue, Represents, NullValue, type
    <3>2. CASE Token(node) \in {"!", "&&", "||", "//", "sizeof"}
      <4>1. OperatorValue = LLVMType(type)
        BY <2>3, <3>2, ValueByToken, LLVMTypes DEF IsTypeOf
      <4> QED BY <2>1, <4>1, TypedAsItsNode DEF type
    <3>3. CASE Token(node) = "="
      <4>1. OperatorValue = ValueOf(2) /\ type = VoidType
        BY <2>3, <3>3, ValueByToken DEF IsTypeOf
      <4> QED BY <2>6, <3>3, <4>1 DEF IsTypedValue, type
    <3>4. CASE Token(node) = "[]"
      <4>1. type = Subtype(first) /\ OperatorValue = ElementOrAddress(node, Subtype(first))
        BY <2>3, <3>4, ValueByToken DEF IsTypeOf, Subtype, first
      <4>2. CASE IsTarget(node)
        BY <4>1, <4>2 DEF ElementOrAddress, IsTypedValue, NullValue
      <4>3. CASE ~IsTarget(node)
        BY <2>1, <4>1, <4>3, TypedAsItsNode DEF ElementOrAddress, type
      <4> QED BY <4>2, <4>3
    <3>5. CASE Token(node) \in {"+", "-", "*", "/", "%"}
      <4>1. OperatorValue = ValueOf(1) /\ type = first /\ Token(node) # "="
        BY <2>3, <3>5, ValueByToken DEF IsTypeOf
      <4> QED BY <2>4, <4>1 DEF IsTypedValue, type
    <3> QED BY <2>2, <3>1, <3>2, <3>3, <3>4, <3>5 DEF Operators, Comparisons
  <2> QED BY <1>1, <1>3, <2>5, YieldKeepsValues
<1> QED BY <1>2, <1>3 DEF FinishOperator

LEMMA InvocationHasItsType ==
  ASSUME Generating, UNCHANGED vars, GenerateCode, FinishLambdaInvocation
  PROVE  ValueInv'
<1> DEFINE arguments == 2..Len(Children(node))
           hasVoid   == \E i \in arguments : TypeOfChild(i) = VoidType
           bad       == hasVoid \/ \E i \in arguments : ValueOf(i) # LLVMType(TypeOfChild(i))
           value     == LLVMType(TypeOf(node))
<1>1. Head(work).step = "finish" /\ Kind(node) = "invocation"
  BY DEF FinishLambdaInvocation, Finishing, Doing
<1>2. node \in DOMAIN types /\ Complete(TypeOf(node))
  BY <1>1, NodeIsValue DEF Expressions
<1>3. hasVoid => VoidArguments
  BY <1>1, <1>2 DEF VoidArguments, OfKind, TypeOfChild
<1>4. CASE (hasVoid \/ HasNull(Children(node))) /\ Stop("crashed")
  BY <1>1, <1>3, <1>4, NullOperands, StopKeepsValues
<1>5. CASE ~HasNull(Children(node)) /\ Yield(value, bad)
  <2>1. bad => Causes
    <3> SUFFICES ASSUME ~hasVoid, NEW i \in arguments, ValueOf(i) # LLVMType(TypeOfChild(i))
                 PROVE  Causes
      BY <1>3 DEF Causes
    <3>1. i \in 1..Len(Children(node)) /\ TypeOfChild(i) # VoidType
      OBVIOUS
    <3>2. ValueOf(i) # NullValue
      BY <1>1, <1>5, <3>1, Operands DEF HasNull, ValueOf
    <3>3. Represents(ValueOf(i), TypeOfChild(i))
      BY <1>1, <3>1, <3>2, Operands
    <3> QED BY <3>3 DEF Represents, Causes
  <2>2. IsTypedValue(node, value)
    BY <1>2, TypedAsItsNode
  <2> HIDE DEF value, bad
  <2> QED BY <1>1, <1>5, <2>1, <2>2, YieldKeepsValues
<1> QED BY <1>4, <1>5 DEF FinishLambdaInvocation

LEMMA ArrayHasItsType ==
  ASSUME Generating, UNCHANGED vars, GenerateCode, FinishAlloc \/ FinishPopulatedArray
  PROVE  ValueInv'
<1>1. Head(work).step = "finish" /\ Kind(node) \in {"alloc", "array"}
  BY DEF FinishAlloc, FinishPopulatedArray, Finishing, Doing
<1>2. node \in DOMAIN types /\ Complete(TypeOf(node)) /\ TypedNode(node)
  BY <1>1, NodeIsValue DEF Expressions
<1>3. IsArray(TypeOf(node))
  BY <1>1, <1>2, KindsOfTypes DEF TypedNode
<1>4. IsTypedValue(node, "ptr")
  BY <1>2, <1>3, TypedAsItsNode, LLVMTypes
<1>5. CASE FinishAlloc
  BY <1>1, <1>4, <1>5, YieldKeepsValues DEF FinishAlloc
<1>6. CASE FinishPopulatedArray
  <2> DEFINE isVoid == Subtype(TypeOf(node)) = VoidType
  <2>1. Kind(node) = "array"
    BY <1>6 DEF FinishPopulatedArray, Finishing
  <2>2. isVoid => VoidElements
    BY <1>2, <2>1 DEF TypedNode, VoidElements, OfKind
  <2>3. CASE (isVoid \/ HasNull(Children(node))) /\ Stop("crashed")
    BY <1>1, <2>1, <2>2, <2>3, NullOperands, StopKeepsValues
  <2>4. CASE Yield("ptr", isVoid)
    BY <1>1, <1>4, <2>2, <2>4, YieldKeepsValues DEF Causes
  <2> QED BY <1>6, <2>3, <2>4 DEF FinishPopulatedArray
<1> QED BY <1>5, <1>6

LEMMA LambdaHasItsType ==
  ASSUME Generating, UNCHANGED vars, GenerateCode, FinishLambda
  PROVE  ValueInv'
<1>1. Head(work).step = "finish" /\ Kind(node) = "lambda"
  BY DEF FinishLambda, Finishing, Doing
<1>2. /\ \A p \in DOMAIN values : IsTypedValue(p, values[p])
      /\ \A e \in DOMAIN allocas : IsTypedAlloca(e, allocas[e])
      /\ faulty # {} => Causes
  BY AtWork
<1>3. CASE Current \in faulty /\ Stop("invalid")
  BY <1>2, <1>3, StopKeepsValues
<1>4. CASE /\ values' = With(values, node, "ptr")
           /\ UNCHANGED <<allocas, functions, faulty, outcome>>
  <2>1. Complete(TypeOf(node)) /\ IsLambda(TypeOf(node))
    BY <1>1, NodeIsValue DEF Expressions
  <2>2. IsTypedValue(node, "ptr")
    BY <2>1, TypedAsItsNode, LLVMTypes
  <2>3. /\ DOMAIN values' = DOMAIN values \cup {node} /\ values'[node] = "ptr"
        /\ \A p \in DOMAIN values : p # node => values'[p] = values[p]
    BY <1>4 DEF With
  <2>4. \A p \in DOMAIN values' : IsTypedValue(p, values'[p])
    BY <1>2, <2>2, <2>3
  <2> QED BY <1>1, <1>2, <1>4, <2>3, <2>4, MoveKeepsValues
<1> QED BY <1>3, <1>4 DEF FinishLambda

\* Where no value is set, and no alloca.
LEMMA NothingIsSet ==
  ASSUME Generating, UNCHANGED vars, GenerateCode, UNCHANGED <<values, allocas, functions, outcome>>,
         Head(work).step = "finish" => Kind(node) \notin Expressions,
         Head(work).step = "generate" => Kind(node) # "lambda",
         faulty' # {} => Causes
  PROVE  ValueInv'
<1>1. /\ \A p \in DOMAIN values' : IsTypedValue(p, values'[p])
      /\ \A e \in DOMAIN allocas' : IsTypedAlloca(e, allocas'[e])
      /\ values' = values /\ functions' = functions
  BY AtWork
<1> QED BY <1>1, MoveKeepsValues

LEMMA StatementKeepsValues ==
  ASSUME Generating, UNCHANGED vars, GenerateCode,
         \/ EnterNode \/ OpenBlock \/ GenerateStep
         \/ FinishConditional \/ FinishReturn \/ FinishOther \/ FinishMain \/ FinishProgram
  PROVE  ValueInv'
<1>1. faulty # {} => Causes
  BY AtWork
<1>2. CASE EnterNode \/ OpenBlock \/ GenerateStep
  <2>1. /\ UNCHANGED <<values, allocas, functions, faulty, outcome>>
        /\ Head(work).step # "finish" /\ (Head(work).step = "generate" => Kind(node) # "lambda")
    BY <1>2 DEF EnterNode, OpenBlock, GenerateStep, Doing
  <2> QED BY <1>1, <2>1, NothingIsSet
<1>3. CASE FinishConditional \/ FinishOther
  <2>1. /\ UNCHANGED <<values, allocas, functions, faulty, outcome>>
        /\ Head(work).step = "finish" /\ Kind(node) \notin Expressions
    BY <1>3 DEF FinishConditional, FinishOther, Finishing, Doing, Expressions
  <2> QED BY <1>1, <2>1, NothingIsSet
<1>4. CASE FinishReturn
  <2>1. /\ UNCHANGED <<values, allocas, functions, outcome>>
        /\ Head(work).step = "finish" /\ Kind(node) = "return"
        /\ faulty' # {} =>
             faulty # {} \/ (Children(node) # <<>> /\ ValueOf(1) # LLVMType(TypeOfChild(1)))
    BY <1>4 DEF FinishReturn, Finishing, Doing
  <2>2. Children(node) # <<>> /\ ValueOf(1) # LLVMType(TypeOfChild(1)) => Causes
    <3> SUFFICES ASSUME Children(node) # <<>>, ValueOf(1) # LLVMType(TypeOfChild(1)) PROVE Causes
      OBVIOUS
    <3>1. /\ WalkInv /\ AnalysisInv /\ Accepted /\ tree \in Program /\ node \in NodesOf(tree)
          /\ \A x : KindIn(tree, x) = Kind(x)
      BY AtWork DEF Generating
    <3>2. Arity(tree, node) = 1 /\ Len(Children(node)) = 1
      <4>1. WellFormed(NodeAt(tree, node)) /\ NodeAt(tree, node).kind = "return"
            /\ Len(NodeAt(tree, node).children) \in Nat
        BY <2>1, <3>1, NodesAreWellFormed DEF Kind
      <4>2. Len(NodeAt(tree, node).children) <= 1
        BY <4>1 DEF WellFormed
      <4>3. Children(node) = [i \in 1..Len(NodeAt(tree, node).children) |-> Append(node, i)]
        BY DEF Children, Child, Arity
      <4>4. Len(NodeAt(tree, node).children) # 0
        <5> SUFFICES ASSUME Len(NodeAt(tree, node).children) = 0 PROVE FALSE
          OBVIOUS
        <5>1. 1..Len(NodeAt(tree, node).children) = {}
          OBVIOUS
        <5>2. Children(node) = <<>>
          BY <4>3, <5>1
        <5> QED BY <5>2
      <4>5. Len(NodeAt(tree, node).children) = 1
        <5>1. \A n \in Nat : n <= 1 /\ n # 0 => n = 1
          OBVIOUS
        <5> QED BY <4>1, <4>2, <4>4, <5>1, Zenon
      <4>6. Len(Children(node)) = 1
        BY <4>3, <4>5
      <4> QED BY <4>5, <4>6 DEF Arity
    <3>3. node # <<>>
      BY <2>1, <3>1, RootNode
    <3>4. TypeOfChild(1) # VoidType
      BY <2>1, <3>1, <3>2, <3>3, AcceptedTypes DEF TypedNode, TypeOfChild
    <3>5. 1 \in 1..Len(Children(node))
      BY <3>2
    <3>6. ValueOf(1) = NullValue \/ Represents(ValueOf(1), TypeOfChild(1))
      BY <2>1, <3>4, <3>5, Operands
    <3>7. ValueOf(1) = NullValue => EarlyUses
      BY <2>1, <3>5, Operands
    <3> QED BY <3>6, <3>7 DEF Represents, Causes
  <2>3. Kind(node) \notin Expressions
    BY <2>1 DEF Expressions
  <2> QED BY <1>1, <2>1, <2>2, <2>3, NothingIsSet
<1>5. CASE FinishMain
  <2>1. CASE Current \in faulty /\ Stop("invalid")
    BY <1>1, <2>1, StopKeepsValues
  <2>2. CASE UNCHANGED <<values, allocas, functions, faulty, outcome>>
    <3>1. Head(work).step = "finish" /\ Kind(node) \notin Expressions
      BY <1>5 DEF FinishMain, Finishing, Doing, Expressions
    <3> QED BY <1>1, <2>2, <3>1, NothingIsSet
  <2> QED BY <1>5, <2>1, <2>2 DEF FinishMain
<1>6. CASE FinishProgram
  <2>1. Stop(IF faulty = {} THEN "generated" ELSE "invalid")
    BY <1>6 DEF FinishProgram
  <2> QED BY <1>1, <2>1, StopKeepsValues
<1> QED BY <1>2, <1>3, <1>4, <1>5, <1>6

-----------------------------------------------------------------------------
(* Variables.                                                              *)

\* The names of the parameters of a lambda are declared in it.
LEMMA ParameterNames ==
  ASSUME AnalysisInv, Accepted, NEW l \in NodesOf(tree), Kind(l) = "lambda",
         NEW p \in {Child(x, 2) : x \in Range(ParametersOf(l))}
  PROVE  /\ p \in Declarations /\ EntryAt(entries[p]).type = TypeOf(p)
         /\ EnclosingFunction(p) = l
<1> DEFINE c == Children(l)
           n == Arity(tree, l)
           tn == NodeAt(tree, l)
<1>1. WalkInv /\ SymbolsInv
  BY DEF AnalysisInv
<1>2. tree \in Program /\ errors = {} /\ \A q : KindIn(tree, q) = Kind(q)
  BY <1>1, AcceptedTree
<1>3. n \in Nat /\ Len(c) = n /\ l \in Path /\ \A k \in 1..n : c[k] = Child(l, k)
  BY <1>1, ChildrenOf
<1>4. PICK x \in Range(ParametersOf(l)) : p = Child(x, 2)
  OBVIOUS
<1>5. \E i \in 1..(n - 2) : x = Child(l, i)
  <2>1. ParametersOf(l) = SubSeq(c, 1, n - 2)
    BY <1>3 DEF ParametersOf
  <2> HIDE DEF c, n
  <2>2. SubSeq(c, 1, n - 2) = [k \in 1..(n - 2) |-> c[(1 + k) - 1]]
    BY <1>3
  <2>3. \A k \in 1..(n - 2) : k \in 1..n /\ (1 + k) - 1 = k
    BY <1>3
  <2>4. PICK k \in 1..(n - 2) : x = c[(1 + k) - 1]
    BY <1>4, <2>1, <2>2, Zenon DEF Range
  <2> QED BY <1>3, <2>3, <2>4
<1>6. PICK i \in 1..(n - 2) : x = Child(l, i)
  BY <1>5
<1>7. i \in 1..n /\ i \in Positive
  BY <1>3 DEF Positive
<1>8. Kind(x) = "parameter"
  <2>1. Shaped(tn) /\ tn.kind = "lambda" /\ n = Len(tn.children)
    BY <1>2, NodesAreWellFormed DEF Kind, Arity
  <2>2. tn.children[i].kind = "parameter"
    BY <2>1 DEF Shaped
  <2>3. NodeAt(tree, Child(l, i)) = tn.children[i]
    BY <1>3, <1>7, NodeAtChild
  <2> QED BY <1>6, <2>2, <2>3 DEF Kind
<1>9. x \in NodesOf(tree) /\ x # <<>> /\ Parent(x) = l /\ x \in Path
  BY <1>2, <1>6, <1>7, ChildNode DEF NodesOf
<1>10. Arity(tree, x) = 2
  <2>1. Shaped(NodeAt(tree, x)) /\ NodeAt(tree, x).kind = "parameter"
    BY <1>2, <1>8, <1>9, NodesAreWellFormed DEF Kind
  <2> QED BY <2>1 DEF Shaped, Arity
<1> HIDE DEF c, n, tn
<1>11. p \in NodesOf(tree) /\ p # <<>> /\ Parent(p) = x /\ Last(p) = 2 /\ p \in Path
       /\ IsPlaced(Kind(p), 2, "parameter", 2)
  <2>1. 2 \in 1..Arity(tree, x)
    BY <1>10
  <2> QED BY <1>2, <1>4, <1>8, <1>9, <1>10, <2>1, ChildNode DEF NodesOf
<1>12. p \in DOMAIN entries
  BY <1>4, <1>8, <1>9, AcceptedTypes DEF TypedNode
<1>13. p \in Declarations
  BY <1>8, <1>11, <1>12 DEF Declarations, IsDeclaration, IsParameterIdentifier
<1>14. EntryAt(entries[p]).type = TypeOf(p)
  BY <1>1, <1>2, <1>13 DEF SymbolsInv
<1>15. Kind(p) \notin {"lambda", "main"}
  <2>1. ASSUME NEW k, IsPlaced(k, 2, "parameter", 2) PROVE k \in TypeKinds \/ k = "identifier"
    BY <2>1, Zenon DEF IsPlaced
  <2> QED BY <1>11, <2>1 DEF TypeKinds
<1> DEFINE X == {q \in PathToRoot(p) : Kind(q) \in {"lambda", "main"}}
<1>16. Under(p, l) /\ \A q \in Path : Under(p, q) /\ Kind(q) \in {"lambda", "main"} => Under(l, q)
  <2>1. \A q \in Path : Under(p, q) <=> q = p \/ Under(x, q)
    BY <1>11, UnderParent
  <2>2. \A q \in Path : Under(x, q) <=> q = x \/ Under(l, q)
    BY <1>9, UnderParent
  <2>3. Under(l, l)
    BY <1>3, UnderItself
  <2> QED BY <1>3, <1>8, <1>15, <2>1, <2>2, <2>3
<1>17. \A q : q \in X <=> q \in Path /\ Under(p, q) /\ Kind(q) \in {"lambda", "main"}
  BY <1>11, OnPathToRoot
<1> HIDE DEF X
<1>18. l \in X /\ \A q \in X : q \in Path /\ Under(p, q) /\ Len(q) <= Len(l)
  BY <1>3, <1>16, <1>17 DEF Under
<1>19. Innermost(X) = l
  BY <1>11, <1>18, InnermostOfAll
<1> QED BY <1>13, <1>14, <1>19 DEF EnclosingFunction, X

\* A lambda or main is entered.
LEMMA FunctionKeepsValues ==
  ASSUME Generating, UNCHANGED vars, GenerateCode, EnterFunction
  PROVE  ValueInv'
<1> DEFINE identifiers == IF Kind(node) = "main" THEN {}
                          ELSE {Child(p, 2) : p \in Range(ParametersOf(node))}
           parameters == {entries[p] : p \in identifiers}
           Parameter(e) == CHOOSE p \in identifiers : entries[p] = e
           new == [e \in DOMAIN allocas \cup parameters |->
                     IF e \in parameters THEN Alloca(node, LLVMType(TypeOf(Parameter(e))))
                     ELSE allocas[e]]
<1>1. /\ WalkInv /\ Accepted /\ node \in NodesOf(tree)
      /\ \A p \in DOMAIN values : IsTypedValue(p, values[p])
      /\ \A e \in DOMAIN allocas : IsTypedAlloca(e, allocas[e])
      /\ faulty # {} => Causes
  BY AtWork
<1>2. /\ Head(work).step = "generate" /\ Kind(node) \in {"lambda", "main"}
      /\ allocas' = new /\ UNCHANGED <<values, faulty, outcome>>
      /\ functions' = functions \cup (IF Kind(node) # "main" /\ Kind(Parent(node)) = "function"
                                      THEN {entries[Child(Parent(node), 1)]} ELSE {})
  BY DEF EnterFunction, Doing
<1>3. ASSUME NEW e \in parameters
      PROVE  IsTypedAlloca(e, Alloca(node, LLVMType(TypeOf(Parameter(e)))))
  <2> DEFINE p == Parameter(e)
  <2>1. p \in identifiers /\ entries[p] = e
    <3>1. \E q \in identifiers : entries[q] = e
      OBVIOUS
    <3> HIDE DEF identifiers
    <3> QED BY <3>1
  <2>2. Kind(node) = "lambda" /\ p \in {Child(x, 2) : x \in Range(ParametersOf(node))}
    BY <1>2, <2>1
  <2> HIDE DEF p, identifiers
  <2>3. AnalysisInv
    BY DEF Generating
  <2>4. p \in Declarations /\ EntryAt(e).type = TypeOf(p) /\ EnclosingFunction(p) = node
    BY <1>1, <2>1, <2>2, <2>3, ParameterNames
  <2>5. /\ Alloca(node, LLVMType(TypeOf(p))).type = LLVMType(TypeOf(p))
        /\ Alloca(node, LLVMType(TypeOf(p))).function = node
    BY DEF Alloca
  <2>6. IsTypedAlloca(e, Alloca(node, LLVMType(TypeOf(p))))
    BY <2>1, <2>4, <2>5 DEF IsTypedAlloca, Represents
  <2> QED BY <2>6 DEF p
<1>4. ASSUME NEW e \in DOMAIN allocas' PROVE IsTypedAlloca(e, allocas'[e])
  <2>1. DOMAIN new = DOMAIN allocas \cup parameters
    OBVIOUS
  <2>2. CASE e \in parameters
    <3>1. allocas'[e] = Alloca(node, LLVMType(TypeOf(Parameter(e))))
      <4> HIDE DEF parameters, Parameter
      <4> QED BY <1>2, <2>2
    <3> HIDE DEF parameters, Parameter, new
    <3> QED BY <1>3, <2>2, <3>1
  <2>3. CASE e \notin parameters
    <3>1. e \in DOMAIN allocas /\ allocas'[e] = allocas[e]
      <4> HIDE DEF parameters, Parameter
      <4> QED BY <1>2, <2>1, <2>3
    <3> QED BY <1>1, <3>1
  <2> QED BY <2>2, <2>3
<1>5. \A p \in DOMAIN values' : IsTypedValue(p, values'[p])
  BY <1>1, <1>2
<1>6. functions \subseteq functions'
      /\ (Kind(node) = "lambda" /\ Kind(Parent(node)) = "function" =>
            entries[Child(Parent(node), 1)] \in functions')
  BY <1>2
<1> HIDE DEF identifiers, parameters, Parameter, new
<1> QED BY <1>1, <1>2, <1>4, <1>5, <1>6, MoveKeepsValues

\* A variable gets its alloca.
LEMMA DeclarationKeepsValues ==
  ASSUME Generating, UNCHANGED vars, GenerateCode, FinishDeclaration
  PROVE  ValueInv'
<1> DEFINE d == Child(node, 1)
           x == Child(node, 2)
<1>1. /\ WalkInv /\ Accepted /\ node \in NodesOf(tree) /\ node \in Path
      /\ errors = {} /\ tree \in Program /\ \A q : KindIn(tree, q) = Kind(q)
      /\ \A p \in DOMAIN values : IsTypedValue(p, values[p])
      /\ \A e \in DOMAIN allocas : IsTypedAlloca(e, allocas[e])
      /\ faulty # {} => Causes
  BY AtWork
<1>2. Head(work).step = "finish" /\ Kind(node) = "declaration"
  BY DEF FinishDeclaration, Finishing, Doing
<1>3. AnalysisInv /\ SymbolsInv
  BY DEF Generating, AnalysisInv
<1>4. node # <<>>
  BY <1>1, <1>2, RootNode
<1>5. Arity(tree, node) = 2
  <2>1. Shaped(NodeAt(tree, node)) /\ NodeAt(tree, node).kind = "declaration"
    BY <1>1, <1>2, NodesAreWellFormed DEF Kind
  <2> QED BY <2>1 DEF Shaped, Arity
<1>6. /\ d \in NodesOf(tree) /\ d # <<>> /\ Parent(d) = node /\ Last(d) = 1
      /\ d \in Path /\ IsPlaced(Kind(d), 1, "declaration", 2)
  <2>1. 1 \in 1..Arity(tree, node)
    BY <1>5
  <2> QED BY <1>1, <1>2, <1>5, <2>1, ChildNode DEF NodesOf
<1>7. IsPart(tree, node, 2) /\ Kind(x) \in Expressions /\ 2 \in 1..Arity(tree, node)
  <2>1. 2 \in 1..Arity(tree, node)
    BY <1>5
  <2>2. IsPlaced(Kind(x), 2, "declaration", 2)
    BY <1>1, <1>2, <1>5, <2>1, ChildNode
  <2>3. 2 # 1
    OBVIOUS
  <2>4. Kind(x) \in Expressions
    BY <2>2, <2>3, Zenon DEF IsPlaced
  <2> QED BY <1>1, <1>2, <2>1, <2>4 DEF IsPart, TypeKinds
<1>8. Complete(TypeOf(x)) /\ ~IsTarget(x)
  <2>1. x \in DOMAIN types /\ Complete(TypeOf(x))
    BY <1>1, <1>3, <1>7, PartsAreValues
  <2>2. ~IsTarget(x)
    BY <1>1, <1>2, <1>3, <1>7, PartsAreValues
  <2> QED BY <2>1, <2>2
<1>9. d \in DOMAIN entries /\ TypeOf(d) = TypeOf(x) /\ TypeOf(d) # VoidType
  BY <1>1, <1>2, <1>3, <1>4, AcceptedTypes DEF TypedNode
<1>10. IsTypedValue(x, ValueOf(2))
  BY <1>1, <1>2, <1>7, OperandsHaveValues DEF ValueOf
<1>11. CASE ValueOf(2) = NullValue /\ Stop("crashed")
  BY <1>10, <1>11, StopKeepsValues DEF IsTypedValue
<1>12. CASE /\ ValueOf(2) # NullValue
            /\ allocas' = With(allocas, entries[Child(node, 1)], Alloca(Current, ValueOf(2)))
            /\ UNCHANGED <<insert, values, functions, faulty, outcome>>
  <2>1. d \in Declarations
    BY <1>2, <1>6, <1>9 DEF Declarations, IsDeclaration, IsBeingDeclared
  <2>2. EntryAt(entries[d]).type = TypeOf(x)
    BY <1>1, <1>3, <1>9, <2>1 DEF SymbolsInv
  <2>3. Represents(ValueOf(2), TypeOf(x))
    BY <1>8, <1>9, <1>10, <1>12, PartsOfComplete DEF IsTypedValue
  <2>4. Current = EnclosingFunction(d)
    <3>1. Kind(d) \notin {"lambda", "main"}
      <4>1. 1 # 2
        OBVIOUS
      <4>2. ASSUME NEW k, IsPlaced(k, 1, "declaration", 2) PROVE k = "identifier"
        BY <4>1, <4>2, Zenon DEF IsPlaced
      <4> QED BY <1>6, <4>2
    <3>2. \A q \in Path : Under(d, q) <=> q = d \/ Under(node, q)
      BY <1>6, UnderParent
    <3>3. Under(node, node)
      BY <1>1, UnderItself
    <3> HIDE DEF d
    <3>4. Under(d, node) /\ \A q \in Path : Under(d, q) /\ Kind(q) \in {"lambda", "main"} => Under(node, q)
      BY <1>1, <3>1, <3>2, <3>3
    <3> QED BY <1>2, <1>6, <3>4, CurrentIsEnclosing
  <2> DEFINE a == Alloca(Current, ValueOf(2))
  <2>5. IsTypedAlloca(entries[d], a)
    BY <2>1, <2>2, <2>3, <2>4 DEF IsTypedAlloca, Alloca
  <2> HIDE DEF a, d, x
  <2>6. ASSUME NEW e \in DOMAIN With(allocas, entries[d], a)
        PROVE  IsTypedAlloca(e, With(allocas, entries[d], a)[e])
    <3>1. CASE e = entries[d]
      <4>1. With(allocas, entries[d], a)[e] = a
        BY <3>1 DEF With
      <4> QED BY <2>5, <3>1, <4>1
    <3>2. CASE e # entries[d]
      <4>1. e \in DOMAIN allocas /\ With(allocas, entries[d], a)[e] = allocas[e]
        BY <2>6, <3>2 DEF With
      <4> QED BY <1>1, <4>1
    <3> QED BY <3>1, <3>2
  <2>7. allocas' = With(allocas, entries[d], a)
    BY <1>12 DEF d, a
  <2>8. \A e \in DOMAIN allocas' : IsTypedAlloca(e, allocas'[e])
    BY <2>6, <2>7
  <2>9. \A p \in DOMAIN values' : IsTypedValue(p, values'[p])
    BY <1>1, <1>12
  <2>10. Kind(node) \notin Expressions
    BY <1>2 DEF Expressions
  <2> QED BY <1>1, <1>2, <1>12, <2>8, <2>9, <2>10, MoveKeepsValues
<1> QED BY <1>11, <1>12 DEF FinishDeclaration

-----------------------------------------------------------------------------
(* Every action.                                                           *)

\* At the begin nothing has a value, and nothing needs one.
LEMMA BeginKeepsValues ==
  ASSUME AnalysisInv, GenerationInv, ValueInv, UNCHANGED vars, Begin
  PROVE  ValueInv'
<1> DEFINE t == Task(<<>>, "generate")
<1>1. /\ outcome = "none" /\ outcome' = "running" /\ work' = Generate(<< <<>> >>)
      /\ UNCHANGED <<insert, values, allocas, functions, faulty>>
  BY DEF Begin
<1>2. values = <<>> /\ allocas = <<>> /\ functions = {} /\ faulty = {}
  BY <1>1 DEF ValueInv
<1>3. tree \in Program
  BY DEF AnalysisInv, WalkInv
<1>4. Head(work') = t
  BY <1>1, <1>3, ReadyAtTheBegin
<1>5. t.path = <<>> /\ t.step = "generate"
  BY TaskFields
<1>6. \A p \in Path : Pending(tree, t, p) /\ ~IsInside(t, p)
  BY <1>5, UnderRoot DEF Pending, IsInside
<1> HIDE DEF t
<1>7. HaveValues(tree, t, DOMAIN values')
  BY <1>6 DEF HaveValues, NodesOf
<1>8. KnowsFunctions(tree, entries, t, functions')
  <2> SUFFICES ASSUME NEW x \in NodesOf(tree), KindIn(tree, x) = "function"
               PROVE  Pending(tree, t, Child(x, 2)) /\ ~IsInside(t, Child(x, 2))
    BY DEF KnowsFunctions
  <2>1. x \in Path /\ 2 \in Positive
    BY DEF NodesOf, Positive
  <2>2. Child(x, 2) \in Path
    BY <2>1, ChildPath
  <2> QED BY <1>6, <2>2
<1>9. DOMAIN values' = {} /\ DOMAIN allocas' = {} /\ faulty' = {}
  BY <1>1, <1>2
<1>10. (\A p \in DOMAIN values : IsTypedValue(p, values[p]))'
  BY <1>9, ValuesStayTyped
<1>11. (\A e \in DOMAIN allocas : IsTypedAlloca(e, allocas[e]))'
  BY <1>9, ValuesStayTyped
<1>12. FailuresHaveTheirCause'
  BY <1>1 DEF FailuresHaveTheirCause
<1> QED BY <1>1, <1>4, <1>7, <1>8, <1>9, <1>10, <1>11, <1>12, SameProgram DEF ValueInv

LEMMA ValueInit == CompileInit => ValueInv
BY DEF CompileInit, ValueInv, FailuresHaveTheirCause

LEMMA ValueStep == AnalysisInv /\ GenerationInv /\ ValueInv /\ [CompileNext]_allVars => ValueInv'
<1> SUFFICES ASSUME AnalysisInv, GenerationInv, ValueInv, [CompileNext]_allVars
             PROVE  ValueInv'
  OBVIOUS
<1>1. CASE UNCHANGED vars /\ UNCHANGED generated
  <2>1. /\ outcome' = outcome /\ work' = work /\ values' = values /\ allocas' = allocas
        /\ functions' = functions /\ faulty' = faulty
    BY <1>1 DEF generated
  <2>2. FailuresHaveTheirCause'
    BY <1>1, <2>1, SameProgram DEF ValueInv, FailuresHaveTheirCause
  <2>3. outcome # "none" => (\A p \in DOMAIN values : IsTypedValue(p, values[p]))'
    BY <1>1, <2>1, ValuesStayTyped DEF ValueInv
  <2>4. outcome # "none" => (\A e \in DOMAIN allocas : IsTypedAlloca(e, allocas[e]))'
    BY <1>1, <2>1, ValuesStayTyped DEF ValueInv
  <2> QED BY <1>1, <2>1, <2>2, <2>3, <2>4, SameProgram DEF ValueInv
<1>2. CASE Next /\ UNCHANGED generated
  <2>1. outcome = "none"
    BY <1>2, AnalysisIsOver DEF GenerationInv, Accepted
  <2>2. /\ outcome' = "none" /\ values' = values /\ allocas' = allocas
        /\ functions' = functions /\ faulty' = faulty
    BY <1>2, <2>1 DEF generated
  <2>3. FailuresHaveTheirCause'
    BY <2>2 DEF FailuresHaveTheirCause
  <2> QED BY <2>1, <2>2, <2>3 DEF ValueInv
<1>3. CASE GenerateCode /\ UNCHANGED vars
  <2>1. CASE Begin
    BY <1>3, <2>1, BeginKeepsValues
  <2>2. CASE ~Begin
    <3>1. Generating
      BY <1>3, <2>2 DEF GenerateCode, EnterNode, EnterFunction, OpenBlock, GenerateStep, FinishConstant,
                        FinishIdentifier, FinishOperator, FinishLambdaInvocation, FinishAlloc,
                        FinishPopulatedArray, FinishDeclaration, FinishConditional, FinishReturn,
                        FinishOther, FinishLambda, FinishMain, FinishProgram, Finishing, Doing, Generating
    <3>2. CASE EnterNode \/ OpenBlock \/ GenerateStep \/ FinishConditional \/ FinishReturn
               \/ FinishOther \/ FinishMain \/ FinishProgram
      BY <1>3, <3>1, <3>2, StatementKeepsValues
    <3>3. CASE EnterFunction
      BY <1>3, <3>1, <3>3, FunctionKeepsValues
    <3>4. CASE FinishConstant
      BY <1>3, <3>1, <3>4, ConstantHasItsType
    <3>5. CASE FinishIdentifier
      BY <1>3, <3>1, <3>5, IdentifierHasItsType
    <3>6. CASE FinishOperator
      BY <1>3, <3>1, <3>6, OperatorHasItsType
    <3>7. CASE FinishLambdaInvocation
      BY <1>3, <3>1, <3>7, InvocationHasItsType
    <3>8. CASE FinishAlloc \/ FinishPopulatedArray
      BY <1>3, <3>1, <3>8, ArrayHasItsType
    <3>9. CASE FinishDeclaration
      BY <1>3, <3>1, <3>9, DeclarationKeepsValues
    <3>10. CASE FinishLambda
      BY <1>3, <3>1, <3>10, LambdaHasItsType
    <3> QED BY <1>3, <2>2, <3>2, <3>3, <3>4, <3>5, <3>6, <3>7, <3>8, <3>9, <3>10 DEF GenerateCode
  <2> QED BY <2>1, <2>2
<1>4. CASE Finished
  BY <1>1, <1>4 DEF Finished, allVars, vars, generated
<1> QED BY <1>1, <1>2, <1>3, <1>4 DEF CompileNext, allVars, vars, generated

(* An expression's value has the LLVM type of the type that the analyzer   *)
(* gave the node, so that what is generated from it - stores, calls, array *)
(* accesses - is what the types promise; only booleans may be narrow, as   *)
(* the comparisons of rationals leave them.                                *)
THEOREM ValuesAlwaysHaveTheirTypes == CompileSpec => []ValuesHaveTheirTypes
<1>1. ValueInv => ValuesHaveTheirTypes
  <2> SUFFICES ASSUME ValueInv PROVE ValuesHaveTheirTypes
    OBVIOUS
  <2>1. \A p \in DOMAIN values : IsTypedValue(p, values[p])
    <3>1. outcome = "none" => DOMAIN values = {}
      BY DEF ValueInv
    <3> QED BY <3>1 DEF ValueInv
  <2> QED BY <2>1 DEF ValuesHaveTheirTypes, IsTypedValue, Represents
<1> QED BY <1>1, AnalysisInit, AnalysisStep, GenerationInit, GenerationStep, ValueInit, ValueStep, PTL
    DEF CompileSpec

(* Code generation for an accepted program does not fail but for one of    *)
(* the causes that no check of the analyzer excludes: a captured variable, *)
(* a comparison of rationals, a function used before its definition, and   *)
(* elements or arguments of the type void.                                 *)
THEOREM FailuresAlwaysHaveTheirCause == CompileSpec => []FailuresHaveTheirCause
<1>1. ValueInv => FailuresHaveTheirCause
  BY DEF ValueInv
<1> QED BY <1>1, AnalysisInit, AnalysisStep, GenerationInit, GenerationStep, ValueInit, ValueStep, PTL
    DEF CompileSpec

=============================================================================
