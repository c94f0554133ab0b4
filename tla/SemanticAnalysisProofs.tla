----------------------- MODULE SemanticAnalysisProofs -----------------------
(***************************************************************************)
(* What names mean in a program that is accepted, and that the types the   *)
(* analyzer follows are missing behind errors only, for all programs.      *)
(***************************************************************************)
EXTENDS SemanticAnalysisInvariants, SequenceTheorems, WellFoundedInduction, TLAPS

-----------------------------------------------------------------------------
(* Paths.                                                                  *)

\* A set of natural numbers has a least element.
LEMMA Least ==
  ASSUME NEW S \in SUBSET Nat, S # {}
  PROVE  \E n \in S : \A m \in S : n <= m
<1>1. PICK n \in S : \A m \in S : <<m, n>> \notin OpToRel(<, Nat)
  BY NatLessThanWellFounded, WFMin
<1>2. \A m \in S : ~(m < n)
  BY <1>1 DEF OpToRel
<1>3. QED
  BY <1>2

\* The path of a child.
LEMMA ChildPath ==
  ASSUME NEW p \in Path, NEW i \in Positive
  PROVE  /\ Child(p, i) \in Path
         /\ Len(Child(p, i)) = Len(p) + 1
         /\ \A k \in 1..Len(p) : Child(p, i)[k] = p[k]
         /\ Child(p, i)[Len(p) + 1] = i
         /\ Last(Child(p, i)) = i
         /\ Child(p, i) # <<>>
         /\ Len(p) \in Nat
<1>1. /\ Append(p, i) \in Seq(Positive) /\ Append(p, i) # <<>> /\ Len(Append(p, i)) = Len(p) + 1
      /\ \A k \in 1..Len(p) : Append(p, i)[k] = p[k]
      /\ Append(p, i)[Len(p) + 1] = i
  BY AppendProperties DEF Path
<1>2. QED
  BY <1>1 DEF Path, Child, Last

\* Paths are equal if their elements are.
LEMMA PathsEqual ==
  ASSUME NEW p \in Path, NEW q \in Path, Len(p) = Len(q), \A i \in 1..Len(p) : p[i] = q[i]
  PROVE  p = q
BY SeqEqual DEF Path

\* The path of the parent.
LEMMA ParentPath ==
  ASSUME NEW p \in Path, p # <<>>
  PROVE  /\ Parent(p) \in Path
         /\ Len(p) \in Nat \ {0}
         /\ Len(Parent(p)) = Len(p) - 1
         /\ \A k \in 1..(Len(p) - 1) : Parent(p)[k] = p[k]
         /\ Last(p) = p[Len(p)]
         /\ Last(p) \in Positive
         /\ Child(Parent(p), Last(p)) = p
<1>1. Len(p) \in Nat \ {0} /\ \A k \in 1..Len(p) : p[k] \in Positive
  BY EmptySeq, ElementOfSeq DEF Path
<1> DEFINE n == Len(p)
           f == SubSeq(p, 1, n - 1)
<1>2. f \in Seq(Positive) /\ Len(f) = (IF 1 <= n - 1 THEN ((n - 1) - 1) + 1 ELSE 0)
      /\ \A k \in 1..(((n - 1) - 1) + 1) : f[k] = p[(1 + k) - 1]
  <2>1. n - 1 \in Int /\ \A k \in 1..(n - 1) : p[k] \in Positive
    BY <1>1
  <2> HIDE DEF n
  <2> QED BY <2>1, SubSeqProperties
<1>3. Len(f) = n - 1 /\ \A k \in 1..(n - 1) : f[k] = p[k]
  <2> HIDE DEF f, n
  <2>1. Len(f) = n - 1
    <3>1. n \in Nat \ {0}
      BY <1>1 DEF n
    <3> QED BY <1>2, <3>1
  <2>2. ASSUME NEW k \in 1..(n - 1) PROVE f[k] = p[k]
    <3>1. n \in Nat /\ ((n - 1) - 1) + 1 = n - 1 /\ (1 + k) - 1 = k
      BY <1>1 DEF n
    <3> QED BY <1>2, <2>2, <3>1
  <2> QED BY <2>1, <2>2
<1>4. Parent(p) = f
  BY DEF Parent, Front
<1> HIDE DEF f
<1>5. Last(p) = p[n] /\ Last(p) \in Positive /\ Parent(p) \in Path
  BY <1>1, <1>2, <1>4 DEF Last, Path
<1>6. Child(Parent(p), Last(p)) = p
  <2> DEFINE c == Child(f, p[n])
  <2>1. c \in Path /\ Len(c) = n /\ (\A k \in 1..(n - 1) : c[k] = f[k]) /\ c[n] = p[n]
    <3>1. f \in Path /\ p[n] \in Positive /\ Len(f) = n - 1 /\ n \in Nat
      BY <1>1, <1>3, <1>4, <1>5
    <3> HIDE DEF n
    <3>2. c \in Path /\ Len(c) = Len(f) + 1 /\ (\A k \in 1..Len(f) : c[k] = f[k])
          /\ c[Len(f) + 1] = p[n]
      BY <3>1, ChildPath
    <3> HIDE DEF c
    <3> QED BY <3>1, <3>2
  <2> HIDE DEF c
  <2>2. \A k \in 1..n : c[k] = p[k]
    BY <1>1, <1>3, <2>1
  <2>3. c = p
    BY <2>1, <2>2, PathsEqual
  <2> QED BY <1>4, <1>5, <2>3 DEF c
<1> QED BY <1>1, <1>3, <1>4, <1>5, <1>6

\* The parent of a child.
LEMMA ParentOfChild ==
  ASSUME NEW p \in Path, NEW i \in Positive
  PROVE  Parent(Child(p, i)) = p
<1> DEFINE c == Child(p, i)
<1>1. c \in Path /\ c # <<>> /\ Len(c) = Len(p) + 1 /\ Len(p) \in Nat
      /\ \A k \in 1..Len(p) : c[k] = p[k]
  BY ChildPath
<1> HIDE DEF c
<1>2. Parent(c) \in Path /\ Len(Parent(c)) = Len(p) /\ \A k \in 1..Len(p) : Parent(c)[k] = p[k]
  <2>1. Parent(c) \in Path /\ Len(Parent(c)) = Len(c) - 1
        /\ \A k \in 1..(Len(c) - 1) : Parent(c)[k] = c[k]
    BY <1>1, ParentPath
  <2>2. Len(c) - 1 = Len(p)
    BY <1>1
  <2> QED BY <1>1, <2>1, <2>2
<1> DEFINE q == Parent(c)
<1>3. q \in Path /\ Len(q) = Len(p) /\ \A k \in 1..Len(q) : q[k] = p[k]
  <2>1. q \in Path /\ Len(q) = Len(p) /\ \A k \in 1..Len(p) : q[k] = p[k]
    BY <1>2
  <2> HIDE DEF q
  <2> QED BY <2>1
<1> HIDE DEF q
<1>4. q = p
  BY <1>3, PathsEqual
<1> QED BY <1>4 DEF c, q

\* The beginning of a path.
LEMMA Beginning ==
  ASSUME NEW p \in Path, NEW n \in 0..Len(p)
  PROVE  /\ SubSeq(p, 1, n) \in Path
         /\ Len(SubSeq(p, 1, n)) = n
         /\ \A k \in 1..n : SubSeq(p, 1, n)[k] = p[k]
<1>1. Len(p) \in Nat /\ \A k \in 1..Len(p) : p[k] \in Positive
  BY ElementOfSeq, LenProperties DEF Path
<1>2. n \in Int /\ \A k \in 1..n : p[k] \in Positive
  BY <1>1
<1>3. SubSeq(p, 1, n) \in Seq(Positive) /\ Len(SubSeq(p, 1, n)) = (IF 1 <= n THEN (n - 1) + 1 ELSE 0)
      /\ \A k \in 1..((n - 1) + 1) : SubSeq(p, 1, n)[k] = p[(1 + k) - 1]
  BY <1>2, SubSeqProperties
<1> QED BY <1>1, <1>3 DEF Path

\* A path to the root are the paths it is under.
LEMMA OnPathToRoot ==
  ASSUME NEW p \in Path
  PROVE  \A q : q \in PathToRoot(p) <=> q \in Path /\ Under(p, q)
<1>1. Len(p) \in Nat
  BY LenProperties DEF Path
<1>2. ASSUME NEW q \in PathToRoot(p) PROVE q \in Path /\ Under(p, q)
  <2>1. PICK n \in 0..Len(p) : q = SubSeq(p, 1, n)
    BY DEF PathToRoot, Prefixes
  <2> QED BY <1>1, <2>1, Beginning DEF Under
<1>3. ASSUME NEW q \in Path, Under(p, q) PROVE q \in PathToRoot(p)
  <2>1. Len(q) \in 0..Len(p)
    <3>1. Len(q) \in Nat
      BY <1>3, LenProperties DEF Path
    <3> QED BY <1>1, <1>3, <3>1 DEF Under
  <2> DEFINE s == SubSeq(p, 1, Len(q))
  <2>2. s \in Path /\ Len(s) = Len(q) /\ \A i \in 1..Len(q) : q[i] = s[i]
    BY <1>3, <2>1, Beginning DEF Under
  <2> HIDE DEF s
  <2>3. q = s
    BY <1>3, <2>2, PathsEqual
  <2> QED BY <2>1, <2>3 DEF s, PathToRoot, Prefixes
<1> QED BY <1>2, <1>3

\* The order of the text, element by element.
LEMMA BeforePrecedes ==
  ASSUME NEW p \in Path, NEW q \in Path
  PROVE  /\ Before(p, q) <=> Precedes(p, q)
         /\ IsPrefix(p, q) <=> Under(q, p)
<1>1. Len(p) \in Nat /\ Len(q) \in Nat
  BY LenProperties DEF Path
<1>2. ASSUME NEW n \in 0..Len(p), n <= Len(q)
      PROVE  SubSeq(p, 1, n) = SubSeq(q, 1, n) <=> \A i \in 1..n : p[i] = q[i]
  <2> DEFINE s == SubSeq(p, 1, n)
             t == SubSeq(q, 1, n)
  <2>1. /\ s \in Path /\ Len(s) = n /\ \A k \in 1..n : s[k] = p[k]
        /\ t \in Path /\ Len(t) = n /\ \A k \in 1..n : t[k] = q[k]
    BY <1>1, <1>2, Beginning
  <2> HIDE DEF s, t
  <2>2. s = t <=> \A i \in 1..n : p[i] = q[i]
    BY <2>1, PathsEqual
  <2> QED BY <2>2 DEF s, t
<1>3. ASSUME NEW k \in 1..Len(p), k <= Len(q)
      PROVE  SubSeq(p, 1, k - 1) = SubSeq(q, 1, k - 1) <=> \A i \in 1..(k - 1) : p[i] = q[i]
  <2>1. k - 1 \in 0..Len(p) /\ k - 1 <= Len(q)
    BY <1>1, <1>3
  <2> QED BY <1>2, <2>1
<1>4. Before(p, q) <=> Precedes(p, q)
  BY <1>3 DEF Before, Precedes
<1>5. IsPrefix(p, q) <=> Under(q, p)
  <2>1. CASE Len(p) <= Len(q)
    BY <1>1, <1>2, <2>1 DEF IsPrefix, Under
  <2>2. CASE ~(Len(p) <= Len(q))
    BY <2>2 DEF IsPrefix, Under
  <2> QED BY <2>1, <2>2
<1> QED BY <1>4, <1>5

-----------------------------------------------------------------------------
(* The order of nodes.                                                     *)

\* Two paths that are under each other are one.
LEMMA UnderAntisymmetric ==
  ASSUME NEW p \in Path, NEW q \in Path, Under(p, q), Under(q, p)
  PROVE  p = q
<1>1. Len(p) \in Nat /\ Len(q) \in Nat
  BY LenProperties DEF Path
<1>2. Len(p) = Len(q)
  BY <1>1 DEF Under
<1>3. \A i \in 1..Len(p) : p[i] = q[i]
  BY <1>2 DEF Under
<1> QED BY <1>2, <1>3, PathsEqual

\* What precedes a node is neither under it nor above it.
LEMMA PrecedesExcludes ==
  ASSUME NEW p \in Path, NEW q \in Path, Precedes(p, q)
  PROVE  ~Under(p, q) /\ ~Under(q, p) /\ ~Precedes(q, p) /\ p # q
<1>1. Len(p) \in Nat /\ Len(q) \in Nat
  BY LenProperties DEF Path
<1>2. PICK k \in 1..Len(p) : k <= Len(q) /\ p[k] < q[k] /\ \A i \in 1..(k - 1) : p[i] = q[i]
  BY DEF Precedes
<1>3. k \in 1..Len(q) /\ p[k] \in Nat /\ q[k] \in Nat
  <2>1. k \in 1..Len(q)
    BY <1>1, <1>2
  <2> QED BY <2>1, ElementOfSeq DEF Path, Positive
<1>4. p[k] # q[k]
  BY <1>2, <1>3
<1>5. ~Precedes(q, p)
  <2> SUFFICES ASSUME Precedes(q, p) PROVE FALSE
    OBVIOUS
  <2>1. PICK j \in 1..Len(q) : j <= Len(p) /\ q[j] < p[j] /\ \A i \in 1..(j - 1) : q[i] = p[i]
    BY DEF Precedes
  <2>2. q[j] # p[j]
    <3>1. j \in 1..Len(p)
      BY <1>1, <2>1
    <3>2. p[j] \in Nat /\ q[j] \in Nat
      BY <3>1, ElementOfSeq DEF Path, Positive
    <3> QED BY <2>1, <3>2
  <2>3. j = k
    <3>1. CASE j < k
      BY <1>1, <1>2, <2>1, <2>2, <3>1
    <3>2. CASE k < j
      BY <1>1, <1>2, <1>4, <2>1, <3>2
    <3> QED BY <1>1, <1>2, <2>1, <3>1, <3>2
  <2> QED BY <1>2, <1>3, <2>1, <2>3
<1> QED BY <1>3, <1>4, <1>5 DEF Under

\* What is at, above, below and before a child.
LEMMA AroundChild ==
  ASSUME NEW p \in Path, NEW i \in Positive, NEW s \in Path
  PROVE  /\ Under(Child(p, i), s) <=> s = Child(p, i) \/ Under(p, s)
         /\ Under(s, Child(p, i)) <=> Under(s, p) /\ s # p /\ s[Len(p) + 1] = i
         /\ Precedes(s, Child(p, i)) <=>
              Precedes(s, p) \/ (Under(s, p) /\ s # p /\ s[Len(p) + 1] < i)
         /\ ~Under(p, Child(p, i))
         /\ Under(s, p) /\ s # p => s[Len(p) + 1] \in Positive
<1> DEFINE c == Child(p, i)
           n == Len(p)
<1>1. /\ c \in Path /\ Len(c) = n + 1 /\ (\A k \in 1..n : c[k] = p[k]) /\ c[n + 1] = i
      /\ n \in Nat /\ Len(s) \in Nat /\ i \in Nat
  BY ChildPath, LenProperties DEF Path, Positive
<1> HIDE DEF c, n
<1>2. ASSUME Under(s, p), s # p PROVE Len(s) >= n + 1
  <2>1. Len(s) >= n /\ \A k \in 1..n : p[k] = s[k]
    BY <1>2 DEF Under, n
  <2>2. Len(s) # n
    BY <1>2, <2>1, PathsEqual DEF n
  <2> QED BY <1>1, <2>1, <2>2
<1>3. Under(c, s) <=> s = c \/ Under(p, s)
  <2>1. CASE Len(s) <= n
    BY <1>1, <2>1 DEF Under, n
  <2>2. CASE Len(s) = n + 1
    <3>1. ~Under(p, s)
      BY <1>1, <2>2 DEF Under, n
    <3>2. Under(c, s) => s = c
      BY <1>1, <2>2, PathsEqual DEF Under
    <3>3. Under(c, c)
      BY <1>1 DEF Under
    <3> QED BY <3>1, <3>2, <3>3
  <2>3. CASE Len(s) > n + 1
    BY <1>1, <2>3 DEF Under, n
  <2> QED BY <1>1, <2>1, <2>2, <2>3
<1>4. Under(s, c) <=> Under(s, p) /\ s # p /\ s[n + 1] = i
  <2>1. ASSUME Under(s, c) PROVE Under(s, p) /\ s # p /\ s[n + 1] = i
    <3>1. n + 1 <= Len(s) /\ \A k \in 1..(n + 1) : c[k] = s[k]
      BY <1>1, <2>1 DEF Under
    <3> QED BY <1>1, <3>1 DEF Under, n
  <2>2. ASSUME Under(s, p), s # p, s[n + 1] = i PROVE Under(s, c)
    <3>1. Len(s) >= n + 1 /\ \A k \in 1..n : p[k] = s[k]
      BY <1>2, <2>2 DEF Under, n
    <3> QED BY <1>1, <2>2, <3>1 DEF Under
  <2> QED BY <2>1, <2>2
<1>5. Precedes(s, c) <=> Precedes(s, p) \/ (Under(s, p) /\ s # p /\ s[n + 1] < i)
  <2>1. ASSUME Precedes(s, c) PROVE Precedes(s, p) \/ (Under(s, p) /\ s # p /\ s[n + 1] < i)
    <3>1. PICK k \in 1..Len(s) : k <= n + 1 /\ s[k] < c[k] /\ \A j \in 1..(k - 1) : s[j] = c[j]
      BY <1>1, <2>1 DEF Precedes
    <3>2. CASE k <= n
      <4>1. s[k] < p[k] /\ k <= Len(p) /\ \A j \in 1..(k - 1) : s[j] = p[j]
        BY <1>1, <3>1, <3>2 DEF n
      <4> QED BY <3>1, <4>1 DEF Precedes
    <3>3. CASE k = n + 1
      <4>1. \A j \in 1..n : p[j] = s[j]
        BY <1>1, <3>1, <3>3
      <4>2. n <= Len(s) /\ Len(s) # n /\ s[n + 1] < i
        BY <1>1, <3>1, <3>3
      <4> QED BY <4>1, <4>2 DEF Under, n
    <3> QED BY <1>1, <3>1, <3>2, <3>3
  <2>2. ASSUME Precedes(s, p) PROVE Precedes(s, c)
    <3>1. PICK k \in 1..Len(s) : k <= n /\ s[k] < p[k] /\ \A j \in 1..(k - 1) : s[j] = p[j]
      BY <2>2 DEF Precedes, n
    <3>2. s[k] < c[k] /\ k <= Len(c) /\ \A j \in 1..(k - 1) : s[j] = c[j]
      BY <1>1, <3>1
    <3> QED BY <3>1, <3>2 DEF Precedes
  <2>3. ASSUME Under(s, p), s # p, s[n + 1] < i PROVE Precedes(s, c)
    <3>1. Len(s) >= n + 1 /\ \A k \in 1..n : p[k] = s[k]
      BY <1>2, <2>3 DEF Under, n
    <3>2. n + 1 \in 1..Len(s) /\ n + 1 <= Len(c) /\ s[n + 1] < c[n + 1]
          /\ \A j \in 1..((n + 1) - 1) : s[j] = c[j]
      BY <1>1, <2>3, <3>1
    <3> QED BY <3>2 DEF Precedes
  <2> QED BY <2>1, <2>2, <2>3
<1>6. ~Under(p, c)
  BY <1>1 DEF Under, n
<1>7. Under(s, p) /\ s # p => s[n + 1] \in Positive
  <2> SUFFICES ASSUME Under(s, p), s # p PROVE s[n + 1] \in Positive
    OBVIOUS
  <2>1. n + 1 \in 1..Len(s)
    BY <1>1, <1>2
  <2> QED BY <2>1, ElementOfSeq DEF Path
<1> QED BY <1>3, <1>4, <1>5, <1>6, <1>7 DEF c, n

-----------------------------------------------------------------------------
(* The node at a path.                                                     *)

\* There is a way to every path.
LEMMA WayExists ==
  ASSUME NEW root, NEW p, NEW n \in Nat
  PROVE  \E at : IsWay(at, root, p, n)
<1> DEFINE Bad == {k \in Nat : ~ \E at : IsWay(at, root, p, k)}
<1>1. SUFFICES ASSUME Bad # {} PROVE FALSE
  OBVIOUS
<1>2. PICK k \in Bad : \A j \in Bad : k <= j
  <2>1. Bad \in SUBSET Nat
    OBVIOUS
  <2> HIDE DEF Bad
  <2> QED BY <1>1, <2>1, Least
<1>3. k \in Nat /\ ~ \E at : IsWay(at, root, p, k)
  OBVIOUS
<1>4. CASE k = 0
  <2> DEFINE at == [m \in 0..0 |-> root]
  <2>1. IsWay(at, root, p, 0)
    BY DEF IsWay
  <2> HIDE DEF at
  <2> QED BY <1>3, <1>4, <2>1
<1>5. CASE k # 0
  <2>1. k - 1 \in Nat /\ ~(k <= k - 1)
    BY <1>3, <1>5
  <2>2. PICK b : IsWay(b, root, p, k - 1)
    <3>1. k - 1 \notin Bad
      BY <1>2, <2>1
    <3> QED BY <2>1, <3>1
  <2> DEFINE at == [m \in 0..k |-> IF m = k THEN b[k - 1].children[p[k]] ELSE b[m]]
  <2>3. ASSUME NEW m \in 0..k
        PROVE  at[m] = IF m = 0 THEN root ELSE at[m - 1].children[p[m]]
    <3>1. CASE m = k
      <4>1. at[m] = b[k - 1].children[p[k]] /\ at[m - 1] = b[k - 1] /\ m # 0
        BY <1>3, <1>5, <3>1
      <4> QED BY <3>1, <4>1
    <3>2. CASE m # k /\ m # 0
      <4>1. m \in 0..(k - 1) /\ at[m] = b[m] /\ at[m - 1] = b[m - 1]
        BY <1>3, <3>2
      <4> HIDE DEF at
      <4>2. b[m] = b[m - 1].children[p[m]]
        BY <2>2, <3>2, <4>1 DEF IsWay
      <4> QED BY <3>2, <4>1, <4>2
    <3>3. CASE m # k /\ m = 0
      <4>1. m \in 0..(k - 1) /\ at[m] = b[m]
        BY <1>3, <3>3
      <4> HIDE DEF at
      <4>2. b[m] = root
        BY <2>2, <3>3, <4>1 DEF IsWay
      <4> QED BY <3>3, <4>1, <4>2
    <3> QED BY <3>1, <3>2, <3>3
  <2>4. at = [m \in 0..k |-> at[m]]
    OBVIOUS
  <2> HIDE DEF at
  <2>5. IsWay(at, root, p, k)
    BY <2>3, <2>4 DEF IsWay
  <2> QED BY <1>3, <2>5
<1> QED BY <1>4, <1>5

\* NodeAt is the end of the way.
LEMMA NodeAtIsOnTheWay ==
  ASSUME NEW root, NEW p \in Path
  PROVE  \E at : /\ NodeAt(root, p) = at[Len(p)]
                 /\ at[0] = root
                 /\ \A n \in 1..Len(p) : at[n] = at[n - 1].children[p[n]]
<1>1. Len(p) \in Nat
  BY LenProperties DEF Path
<1>2. PICK b : IsWay(b, root, p, Len(p))
  BY <1>1, WayExists
<1>3. NodeAt(root, p) = (CHOOSE at : IsWay(at, root, p, Len(p)))[Len(p)]
  BY DEF NodeAt, IsWay
<1> DEFINE at == CHOOSE at : IsWay(at, root, p, Len(p))
<1>4. IsWay(at, root, p, Len(p))
  BY <1>2
<1> HIDE DEF at
<1>5. /\ at[0] = root
      /\ \A n \in 1..Len(p) : at[n] = at[n - 1].children[p[n]]
  <2>1. 0 \in 0..Len(p) /\ \A n \in 1..Len(p) : n \in 0..Len(p) /\ n # 0
    BY <1>1
  <2>2. \A n \in 0..Len(p) : at[n] = IF n = 0 THEN root ELSE at[n - 1].children[p[n]]
    BY <1>4 DEF IsWay
  <2> QED BY <2>1, <2>2
<1>6. NodeAt(root, p) = at[Len(p)]
  BY <1>3 DEF at
<1> QED BY <1>5, <1>6

\* The node at the path of a child is a child of the node.
LEMMA NodeAtChild ==
  ASSUME NEW root, NEW p \in Path, NEW i \in Positive
  PROVE  NodeAt(root, Child(p, i)) = NodeAt(root, p).children[i]
<1> DEFINE c == Child(p, i)
           n == Len(p)
<1>1. c \in Path /\ Len(c) = n + 1 /\ (\A k \in 1..n : c[k] = p[k]) /\ c[n + 1] = i /\ n \in Nat
  BY ChildPath
<1> HIDE DEF c, n
<1>2. PICK at : /\ NodeAt(root, p) = at[n]
                /\ at[0] = root
                /\ \A k \in 1..n : at[k] = at[k - 1].children[p[k]]
  BY NodeAtIsOnTheWay DEF n
<1>3. PICK b : /\ NodeAt(root, c) = b[n + 1]
               /\ b[0] = root
               /\ \A k \in 1..(n + 1) : b[k] = b[k - 1].children[c[k]]
  <2>1. \E b : /\ NodeAt(root, c) = b[Len(c)]
               /\ b[0] = root
               /\ \A k \in 1..Len(c) : b[k] = b[k - 1].children[c[k]]
    BY <1>1, NodeAtIsOnTheWay
  <2> QED BY <1>1, <2>1
<1> DEFINE Bad == {k \in 0..n : at[k] # b[k]}
<1>4. Bad = {}
  <2> SUFFICES ASSUME Bad # {} PROVE FALSE
    OBVIOUS
  <2>1. PICK m \in Bad : \A k \in Bad : m <= k
    <3>1. Bad \in SUBSET Nat
      BY <1>1
    <3> HIDE DEF Bad
    <3> QED BY <3>1, Least
  <2>2. m \in 0..n /\ at[m] # b[m]
    OBVIOUS
  <2>3. m # 0
    BY <1>2, <1>3, <2>2
  <2>4. m - 1 \in 0..n /\ m \in 1..n /\ m \in 1..(n + 1) /\ ~(m <= m - 1)
    BY <1>1, <2>2, <2>3
  <2>5. at[m - 1] = b[m - 1]
    BY <2>1, <2>4
  <2>6. at[m] = at[m - 1].children[p[m]] /\ b[m] = b[m - 1].children[c[m]] /\ c[m] = p[m]
    BY <1>1, <1>2, <1>3, <2>4
  <2> QED BY <2>2, <2>5, <2>6
<1>5. at[n] = b[n]
  <2>1. n \in 0..n
    BY <1>1
  <2> QED BY <1>4, <2>1
<1>6. b[n + 1] = b[n].children[i]
  <2>1. n + 1 \in 1..(n + 1) /\ (n + 1) - 1 = n
    BY <1>1
  <2> QED BY <1>1, <1>3, <2>1
<1> QED BY <1>2, <1>3, <1>5, <1>6 DEF c

\* The node at the root is the root.
LEMMA NodeAtRoot ==
  ASSUME NEW root
  PROVE  NodeAt(root, <<>>) = root /\ <<>> \in Path
<1>1. <<>> \in Path /\ Len(<<>>) = 0
  BY EmptySeq DEF Path
<1>2. PICK at : NodeAt(root, <<>>) = at[0] /\ at[0] = root
  BY <1>1, NodeAtIsOnTheWay
<1> QED BY <1>1, <1>2

\* What is below a node is below one of its children.
LEMMA BelowNode ==
  ASSUME NEW root, NEW p \in Path, NEW s \in NodesOf(root), Under(s, p), s # p
  PROVE  s[Len(p) + 1] \in 1..Len(NodeAt(root, p).children)
<1> DEFINE n == Len(p)
<1>1. s \in Path /\ n \in Nat /\ Len(s) \in Nat
  BY LenProperties DEF NodesOf, Path
<1>2. n <= Len(s) /\ \A k \in 1..n : p[k] = s[k]
  BY DEF Under
<1>3. Len(s) # n
  BY <1>1, <1>2, PathsEqual
<1> HIDE DEF n
<1>4. n + 1 \in 1..Len(s) /\ (n + 1) - 1 = n /\ n \in 0..Len(s)
  BY <1>1, <1>2, <1>3
<1>5. SubSeq(s, 1, n) = p
  <2> DEFINE b == SubSeq(s, 1, n)
  <2>1. b \in Path /\ Len(b) = n /\ \A k \in 1..n : b[k] = s[k]
    BY <1>1, <1>4, Beginning
  <2> HIDE DEF b
  <2>2. Len(p) = n
    BY DEF n
  <2>3. b = p
    BY <1>2, <2>1, <2>2, PathsEqual
  <2> QED BY <2>3 DEF b
<1>6. s[n + 1] \in 1..Len(NodeAt(root, SubSeq(s, 1, (n + 1) - 1)).children)
  BY <1>4 DEF NodesOf
<1> QED BY <1>4, <1>5, <1>6 DEF n

\* The children of a node are nodes, and the parent of a node is one.
LEMMA NodesAndChildren ==
  ASSUME NEW root, NEW p \in Path, NEW i \in Positive
  PROVE  Child(p, i) \in NodesOf(root) <=>
           p \in NodesOf(root) /\ i \in 1..Len(NodeAt(root, p).children)
<1> DEFINE c == Child(p, i)
           n == Len(p)
<1>1. c \in Path /\ Len(c) = n + 1 /\ (\A k \in 1..n : c[k] = p[k]) /\ c[n + 1] = i /\ n \in Nat
  BY ChildPath
<1> HIDE DEF c, n
<1>2. ASSUME NEW k \in 1..(n + 1) PROVE SubSeq(c, 1, k - 1) = SubSeq(p, 1, k - 1)
  <2> DEFINE a == SubSeq(c, 1, k - 1)
             b == SubSeq(p, 1, k - 1)
  <2>1. k - 1 \in 0..n /\ k - 1 \in 0..Len(c) /\ k - 1 \in 0..Len(p)
    BY <1>1 DEF n
  <2>2. /\ a \in Path /\ Len(a) = k - 1 /\ \A j \in 1..(k - 1) : a[j] = c[j]
        /\ b \in Path /\ Len(b) = k - 1 /\ \A j \in 1..(k - 1) : b[j] = p[j]
    BY <1>1, <2>1, Beginning
  <2> HIDE DEF a, b
  <2>3. \A j \in 1..Len(a) : a[j] = b[j]
    BY <1>1, <2>1, <2>2
  <2>4. a = b
    BY <2>2, <2>3, PathsEqual
  <2> QED BY <2>4 DEF a, b
<1>3. SubSeq(p, 1, n) = p
  <2> DEFINE b == SubSeq(p, 1, n)
  <2>1. n \in 0..Len(p) /\ n = Len(p)
    BY <1>1 DEF n
  <2>2. b \in Path /\ Len(b) = n /\ \A k \in 1..n : b[k] = p[k]
    BY <2>1, Beginning
  <2> HIDE DEF b
  <2>3. b = p
    BY <2>1, <2>2, PathsEqual
  <2> QED BY <2>3 DEF b
<1>4. c \in NodesOf(root) <=>
        \A k \in 1..(n + 1) : c[k] \in 1..Len(NodeAt(root, SubSeq(p, 1, k - 1)).children)
  BY <1>1, <1>2 DEF NodesOf
<1>5. p \in NodesOf(root) <=>
        \A k \in 1..n : p[k] \in 1..Len(NodeAt(root, SubSeq(p, 1, k - 1)).children)
  BY DEF NodesOf, n
<1>6. /\ (n + 1) - 1 = n /\ n + 1 \in 1..(n + 1)
      /\ \A k \in 1..(n + 1) : k = n + 1 \/ k \in 1..n
      /\ \A k \in 1..n : k \in 1..(n + 1)
  BY <1>1
<1>7. ASSUME c \in NodesOf(root)
      PROVE  p \in NodesOf(root) /\ i \in 1..Len(NodeAt(root, p).children)
  <2>1. c[n + 1] \in 1..Len(NodeAt(root, SubSeq(p, 1, (n + 1) - 1)).children)
    BY <1>4, <1>6, <1>7
  <2>2. i \in 1..Len(NodeAt(root, p).children)
    BY <1>1, <1>3, <1>6, <2>1
  <2> QED BY <1>1, <1>4, <1>5, <1>6, <1>7, <2>2
<1>8. ASSUME p \in NodesOf(root), i \in 1..Len(NodeAt(root, p).children)
      PROVE  c \in NodesOf(root)
  <2>1. ASSUME NEW k \in 1..(n + 1)
        PROVE  c[k] \in 1..Len(NodeAt(root, SubSeq(p, 1, k - 1)).children)
    <3>1. CASE k = n + 1
      <4>1. k - 1 = n /\ c[k] = i
        BY <1>1, <1>6, <3>1
      <4> QED BY <1>3, <1>8, <4>1
    <3>2. CASE k \in 1..n
      BY <1>1, <1>5, <1>8, <3>2
    <3> QED BY <1>6, <3>1, <3>2
  <2> QED BY <1>4, <2>1
<1> QED BY <1>7, <1>8 DEF c

LEMMA WellFormedIsShaped ==
  ASSUME NEW tn, WellFormed(tn), Len(tn.children) \in Nat, Len(tn.children) = 0 => tn.children = <<>>
  PROVE  Shaped(tn)
<1> DEFINE last == Len(tn.children)
           Are(places, kinds) == \A i \in places : tn.children[i].kind \in kinds
<1>1. ASSUME NEW i \in 1..last
      PROVE  /\ tn.children[i].kind # "program"
             /\ tn.children[i].kind = "function" => tn.kind = "program"
             /\ tn.children[i].kind = "declaration" =>
                  tn.kind \in {"block", "while", "for"} \/ (tn.kind = "if" /\ i > 1)
  <2> DEFINE kind == tn.children[i].kind
  <2>1. last \in Nat /\ i \in Nat
    OBVIOUS
  <2>2. CASE tn.kind = "program"
    <3>1. Are(1..(last - 1), {"function"}) /\ Are({last}, {"main"})
      BY <2>2, Zenon DEF WellFormed
    <3>2. kind \in {"function", "main"}
      BY <2>1, <3>1
    <3> QED BY <2>2, <3>2
  <2>3. CASE tn.kind = "lambda"
    <3>1. Are(1..(last - 2), {"parameter"}) /\ Are({last - 1}, TypeKinds) /\ Are({last}, {"block"})
      BY <2>3, Zenon DEF WellFormed
    <3>2. kind \in {"parameter", "block"} \cup TypeKinds
      BY <2>1, <3>1
    <3> QED BY <2>3, <3>2 DEF TypeKinds
  <2>4. CASE tn.kind \in {"block", "while", "for"}
    <3>1. /\ tn.kind = "block" => Are(1..last, Statements)
          /\ tn.kind = "while" => last = 2 /\ Are({1}, Expressions) /\ Are({2}, Statements)
          /\ tn.kind = "for" =>
               /\ last = 4 /\ Are({1}, Expressions \cup {"declaration", "nop"}) /\ Are({2}, Expressions)
               /\ Are({3}, Expressions \cup {"nop"}) /\ Are({4}, {"block"})
      BY Zenon DEF WellFormed
    <3>2. kind \in Statements \cup Expressions \cup {"nop"}
      <4>1. CASE tn.kind = "block"
        <5>1. Are(1..last, Statements)
          BY <3>1, <4>1
        <5>2. kind \in Statements
          BY <5>1
        <5> HIDE DEF kind
        <5> QED BY <5>2
      <4>2. CASE tn.kind = "while"
        <5>0. last = 2
          BY <3>1, <4>2
        <5>1. i = 1 \/ i = 2
          <6> HIDE DEF last
          <6> QED BY <2>1, <5>0
        <5>2. Are({1}, Expressions) /\ Are({2}, Statements)
          BY <3>1, <4>2
        <5>3. kind \in Expressions \/ kind \in Statements
          BY <5>1, <5>2
        <5> HIDE DEF kind
        <5> QED BY <5>3
      <4>3. CASE tn.kind = "for"
        <5>0. last = 4
          BY <3>1, <4>3
        <5>1. i = 1 \/ i = 2 \/ i = 3 \/ i = 4
          <6> HIDE DEF last
          <6> QED BY <2>1, <5>0
        <5>2. "declaration" \in Statements /\ "block" \in Statements
          BY DEF Statements
        <5> QED BY <3>1, <4>3, <5>1, <5>2
      <4> QED BY <2>4, <4>1, <4>2, <4>3
    <3>3. kind # "program" /\ kind # "function"
      BY <3>2 DEF Statements, Expressions
    <3> QED BY <2>4, <3>3
  <2>5. CASE tn.kind = "if"
    <3>1. Are({1}, Expressions) /\ Are(2..last, Statements)
      BY <2>5, Zenon DEF WellFormed
    <3>2. (i = 1 /\ kind \in Expressions) \/ (i > 1 /\ kind \in Statements)
      BY <2>1, <3>1
    <3> QED BY <2>5, <3>2 DEF Statements, Expressions
  <2>6. CASE tn.kind \in LeafKinds
    <3>1. tn.children = <<>>
      BY <2>6, Zenon DEF WellFormed
    <3> QED BY <2>1, <3>1
  <2>7. CASE tn.kind \in {"main", "function", "parameter", "declaration", "alloc"}
    <3>1. /\ tn.kind = "main" => last = 1 /\ Are({1}, {"block"})
          /\ tn.kind = "function" => last = 2 /\ Are({1}, {"identifier"}) /\ Are({2}, {"lambda"})
          /\ tn.kind = "parameter" => last = 2 /\ Are({1}, TypeKinds) /\ Are({2}, {"identifier"})
          /\ tn.kind = "declaration" => last = 2 /\ Are({1}, {"identifier"}) /\ Are({2}, Expressions)
          /\ tn.kind = "alloc" => last = 2 /\ Are({1}, TypeKinds) /\ Are({2}, Expressions)
      BY Zenon DEF WellFormed
    <3>0. last = 1 \/ last = 2
      BY <2>7, <3>1
    <3>2. i = 1 \/ i = 2
      <4> HIDE DEF last
      <4> QED BY <2>1, <3>0
    <3>3. kind \in Expressions \cup TypeKinds \cup {"block"}
      <4>1. "identifier" \in Expressions /\ "lambda" \in Expressions
        BY DEF Expressions
      <4>2. kind \in {"identifier", "lambda", "block"} \/ kind \in TypeKinds \/ kind \in Expressions
        BY <2>7, <3>1, <3>2
      <4> HIDE DEF kind
      <4> QED BY <4>1, <4>2
    <3> QED BY <3>3 DEF Expressions, TypeKinds
  <2>8. CASE tn.kind \in {"array type", "lambda type"}
    <3>1. Are(1..last, TypeKinds)
      BY <2>8, Zenon DEF WellFormed
    <3> QED BY <3>1 DEF TypeKinds
  <2>9. CASE tn.kind \in {"operator", "invocation", "array", "expression", "print", "dealloc", "return"}
    <3>1. Are(1..last, Expressions)
      BY <2>9, Zenon DEF WellFormed
    <3> QED BY <3>1 DEF Expressions
  <2>10. tn.kind \in Kinds
    BY Zenon DEF WellFormed
  <2> QED BY <2>2, <2>3, <2>4, <2>5, <2>6, <2>7, <2>8, <2>9, <2>10
          DEF Kinds, LeafKinds, TypeKinds, Expressions, Statements
<1>2. tn.kind = "operator" => tn.token \in Operators
  <2>1. tn.kind = "operator" => tn.token \in UnaryOperators \/ tn.token \in Operators \ {"!", "sizeof"}
    BY Zenon DEF WellFormed
  <2> QED BY <2>1 DEF UnaryOperators, Operators
<1> QED BY <1>1, <1>2, Zenon DEF Shaped, WellFormed

\* A node is a subtree, and well-formed.
LEMMA NodesAreWellFormed ==
  ASSUME NEW root \in Program, NEW p \in NodesOf(root)
  PROVE  /\ NodeAt(root, p).children \in Seq(Subtrees(root))
         /\ Len(NodeAt(root, p).children) \in Nat
         /\ Shaped(NodeAt(root, p)) /\ WellFormed(NodeAt(root, p))
<1>1. /\ root \in Subtrees(root)
      /\ \A tn \in Subtrees(root) : tn.children \in Seq(Subtrees(root)) /\ WellFormed(tn)
  BY ProgramAssumption
<1> DEFINE Bad == {n \in Nat : \E q \in NodesOf(root) : Len(q) = n /\ NodeAt(root, q) \notin Subtrees(root)}
<1>2. Bad = {}
  <2> SUFFICES ASSUME Bad # {} PROVE FALSE
    OBVIOUS
  <2>1. PICK n \in Bad : \A m \in Bad : n <= m
    <3>1. Bad \in SUBSET Nat
      OBVIOUS
    <3> HIDE DEF Bad
    <3> QED BY <3>1, Least
  <2>2. PICK q \in NodesOf(root) : Len(q) = n /\ NodeAt(root, q) \notin Subtrees(root)
    OBVIOUS
  <2>3. q \in Path /\ n \in Nat
    BY DEF NodesOf
  <2>4. q # <<>>
    BY <1>1, <2>2, NodeAtRoot
  <2> DEFINE r == Parent(q)
             i == Last(q)
  <2>5. r \in Path /\ i \in Positive /\ Child(r, i) = q /\ Len(r) = n - 1 /\ n - 1 \in Nat
    BY <2>2, <2>3, <2>4, ParentPath
  <2> HIDE DEF r, i
  <2>6. r \in NodesOf(root) /\ i \in 1..Len(NodeAt(root, r).children)
    BY <2>5, NodesAndChildren
  <2>7. NodeAt(root, r) \in Subtrees(root)
    <3>1. n - 1 \notin Bad
      BY <2>1, <2>3, <2>5
    <3> QED BY <2>5, <2>6, <3>1
  <2>8. NodeAt(root, q) = NodeAt(root, r).children[i]
    BY <2>5, NodeAtChild
  <2>9. NodeAt(root, q) \in Subtrees(root)
    <3>1. NodeAt(root, r).children \in Seq(Subtrees(root))
      BY <1>1, <2>7
    <3> QED BY <2>6, <2>8, <3>1, ElementOfSeq
  <2> QED BY <2>2, <2>9
<1>3. p \in Path /\ Len(p) \in Nat
  BY LenProperties DEF NodesOf, Path
<1>4. NodeAt(root, p) \in Subtrees(root)
  BY <1>2, <1>3
<1>5. NodeAt(root, p).children \in Seq(Subtrees(root)) /\ WellFormed(NodeAt(root, p))
  BY <1>1, <1>4
<1>6. Len(NodeAt(root, p).children) \in Nat
      /\ (Len(NodeAt(root, p).children) = 0 => NodeAt(root, p).children = <<>>)
  BY <1>5, LenProperties, EmptySeq
<1> QED BY <1>5, <1>6, WellFormedIsShaped

-----------------------------------------------------------------------------
(* The walk of a visitor.                                                  *)

\* A path is under itself.
LEMMA UnderItself ==
  ASSUME NEW p \in Path
  PROVE  Under(p, p) /\ ~Precedes(p, p)
<1>1. Len(p) \in Nat
  BY LenProperties DEF Path
<1>2. Under(p, p)
  BY <1>1 DEF Under
<1> QED BY <1>2, PrecedesExcludes

\* The walk enters the first child.
LEMMA EnterFirstChild ==
  ASSUME NEW root \in Program, NEW p \in NodesOf(root), NodeAt(root, p).children # <<>>,
         NEW n \in {"enter", "visit"},
         n = "visit" => NodeAt(root, Child(p, 1)).kind \in LeafKinds
  PROVE  Moves(root, p, "enter", Child(p, 1), n)
<1> DEFINE q == Child(p, 1)
<1>1. p \in Path /\ 1 \in Positive
  BY DEF NodesOf, Positive
<1>2. q \in NodesOf(root) /\ q \in Path
  <2>1. 1 \in 1..Len(NodeAt(root, p).children)
    BY NodesAreWellFormed, EmptySeq
  <2> QED BY <1>1, <2>1, NodesAndChildren DEF NodesOf
<1>3. ASSUME NEW s \in Path
      PROVE  /\ Under(q, s) <=> s = q \/ Under(p, s)
             /\ Under(s, q) <=> Under(s, p) /\ s # p /\ s[Len(p) + 1] = 1
             /\ Precedes(s, q) <=> Precedes(s, p)
             /\ ~Under(p, q)
  <2>1. Precedes(s, q) <=> Precedes(s, p) \/ (Under(s, p) /\ s # p /\ s[Len(p) + 1] < 1)
    BY <1>1, AroundChild
  <2>2. Under(s, p) /\ s # p => ~(s[Len(p) + 1] < 1)
    BY <1>1, AroundChild DEF Positive
  <2> QED BY <1>1, <2>1, <2>2, AroundChild
<1> HIDE DEF q
<1>4. Under(p, p)
  BY <1>1, UnderItself
<1>5. q # p
  BY <1>2, <1>3, <1>4
<1> QED BY <1>1, <1>2, <1>3, <1>4, <1>5 DEF Moves, IsLeft, IsAround, IsEntered, Moments, q

\* The walk leaves a node without children.
LEMMA LeaveAtOnce ==
  ASSUME NEW root \in Program, NEW p \in NodesOf(root), NodeAt(root, p).children = <<>>
  PROVE  Moves(root, p, "enter", p, "leave")
<1>1. p \in Path
  BY DEF NodesOf
<1>2. ASSUME NEW s \in NodesOf(root), Under(s, p), s # p PROVE FALSE
  <2>1. s[Len(p) + 1] \in 1..Len(NodeAt(root, p).children)
    BY <1>1, <1>2, BelowNode
  <2>2. Len(NodeAt(root, p).children) = 0
    BY EmptySeq
  <2> QED BY <2>1, <2>2
<1>3. Under(p, p)
  BY <1>1, UnderItself
<1> QED BY <1>1, <1>2, <1>3 DEF Moves, IsLeft, IsAround, IsEntered, Moments

\* A node that is visited has nothing below it.
LEMMA NothingBelowLeaf ==
  ASSUME NEW root \in Program, NEW p \in NodesOf(root), NodeAt(root, p).kind \in LeafKinds,
         NEW s \in NodesOf(root), Under(s, p)
  PROVE  s = p
<1>1. SUFFICES ASSUME s # p PROVE FALSE
  OBVIOUS
<1>2. p \in Path
  BY DEF NodesOf
<1>3. s[Len(p) + 1] \in 1..Len(NodeAt(root, p).children)
  BY <1>1, <1>2, BelowNode
<1>4. Len(NodeAt(root, p).children) = 0
  BY NodesAreWellFormed, EmptySeq DEF Shaped
<1> QED BY <1>3, <1>4

\* The walk goes on to the next child.
LEMMA EnterNextChild ==
  ASSUME NEW root \in Program, NEW r \in Path, NEW i \in Positive, NEW m \in {"visit", "leave"},
         Child(r, i) \in NodesOf(root), i < Len(NodeAt(root, r).children),
         m = "visit" => NodeAt(root, Child(r, i)).kind \in LeafKinds,
         NEW n \in {"enter", "visit"},
         n = "visit" => NodeAt(root, Child(r, i + 1)).kind \in LeafKinds
  PROVE  Moves(root, Child(r, i), m, Child(r, i + 1), n)
<1> DEFINE p == Child(r, i)
           q == Child(r, i + 1)
<1>1. i + 1 \in Positive /\ p \in Path /\ q \in Path /\ i \in Nat
  <2>1. i + 1 \in Positive /\ i \in Nat
    BY DEF Positive
  <2> QED BY <2>1, ChildPath
<1>2. r \in NodesOf(root) /\ q \in NodesOf(root)
  <2>1. r \in NodesOf(root) /\ i \in 1..Len(NodeAt(root, r).children)
    BY NodesAndChildren
  <2>2. Len(NodeAt(root, r).children) \in Nat
    BY <2>1, NodesAreWellFormed
  <2>3. i + 1 \in 1..Len(NodeAt(root, r).children)
    BY <1>1, <2>2
  <2> QED BY <1>1, <2>1, <2>3, NodesAndChildren
<1>3. ASSUME NEW s \in Path
      PROVE  /\ Under(p, s) <=> s = p \/ Under(r, s)
             /\ Under(q, s) <=> s = q \/ Under(r, s)
             /\ Under(s, p) <=> Under(s, r) /\ s # r /\ s[Len(r) + 1] = i
             /\ Precedes(s, p) <=> Precedes(s, r) \/ (Under(s, r) /\ s # r /\ s[Len(r) + 1] < i)
             /\ Precedes(s, q) <=> Precedes(s, p) \/ Under(s, p)
             /\ ~Under(r, p) /\ ~Under(r, q)
  <2>1. /\ Precedes(s, p) <=> Precedes(s, r) \/ (Under(s, r) /\ s # r /\ s[Len(r) + 1] < i)
        /\ Precedes(s, q) <=> Precedes(s, r) \/ (Under(s, r) /\ s # r /\ s[Len(r) + 1] < i + 1)
        /\ Under(s, p) <=> Under(s, r) /\ s # r /\ s[Len(r) + 1] = i
        /\ Under(s, r) /\ s # r => s[Len(r) + 1] \in Positive
    BY <1>1, AroundChild
  <2>2. Under(s, r) /\ s # r =>
          (s[Len(r) + 1] < i + 1 <=> s[Len(r) + 1] < i \/ s[Len(r) + 1] = i)
    BY <1>1, <2>1 DEF Positive
  <2>3. Precedes(s, q) <=> Precedes(s, p) \/ Under(s, p)
    BY <2>1, <2>2
  <2> QED BY <1>1, <2>1, <2>3, AroundChild
<1>4. p \in NodesOf(root) /\ (m = "visit" => NodeAt(root, p).kind \in LeafKinds)
      /\ (n = "visit" => NodeAt(root, q).kind \in LeafKinds)
  OBVIOUS
<1> HIDE DEF p, q
<1>5. m = "visit" => \A s \in NodesOf(root) : Under(s, p) => s = p
  BY <1>4, NothingBelowLeaf
<1>6. Under(p, p) /\ ~Precedes(p, p) /\ Under(q, q) /\ Under(r, r)
  BY <1>1, UnderItself
<1>7. p # q
  BY <1>1, <1>3, <1>6
<1>8. ASSUME NEW s \in Path
      PROVE  /\ IsLeft(s, p, m) => IsLeft(s, q, n)
             /\ IsAround(s, p, m) => IsAround(s, q, n) \/ IsLeft(s, q, n)
             /\ IsAround(s, q, n) => IsAround(s, p, m)
             /\ s \in NodesOf(root) /\ IsLeft(s, q, n) => IsLeft(s, p, m) \/ s = p
  <2>1. IsLeft(s, p, m) => IsLeft(s, q, n)
    BY <1>3 DEF IsLeft
  <2>2. IsAround(s, p, m) => IsAround(s, q, n) \/ IsLeft(s, q, n)
    BY <1>3, <1>6 DEF IsLeft, IsAround
  <2>3. IsAround(s, q, n) => IsAround(s, p, m)
    BY <1>1, <1>3, <1>6 DEF IsAround
  <2>4. s \in NodesOf(root) /\ IsLeft(s, q, n) => IsLeft(s, p, m) \/ s = p
    BY <1>3, <1>5 DEF IsLeft
  <2> QED BY <2>1, <2>2, <2>3, <2>4
<1>9. IsLeft(p, q, n)
  BY <1>1, <1>3, <1>6 DEF IsLeft
<1> QED BY <1>1, <1>2, <1>4, <1>8, <1>9 DEF Moves, IsEntered, Moments, p, q

\* The walk leaves the parent of the last child.
LEMMA LeaveParent ==
  ASSUME NEW root \in Program, NEW r \in Path, NEW i \in Positive, NEW m \in {"visit", "leave"},
         Child(r, i) \in NodesOf(root), ~(i < Len(NodeAt(root, r).children)),
         m = "visit" => NodeAt(root, Child(r, i)).kind \in LeafKinds
  PROVE  Moves(root, Child(r, i), m, r, "leave")
<1> DEFINE p == Child(r, i)
<1>1. p \in Path /\ i \in Nat /\ p \in NodesOf(root)
      /\ (m = "visit" => NodeAt(root, p).kind \in LeafKinds)
  BY ChildPath DEF Positive
<1>2. r \in NodesOf(root) /\ Len(NodeAt(root, r).children) \in Nat
  <2>1. r \in NodesOf(root) /\ i \in 1..Len(NodeAt(root, r).children)
    BY NodesAndChildren
  <2> QED BY <2>1, NodesAreWellFormed
<1>3. ASSUME NEW s \in Path
      PROVE  /\ Under(p, s) <=> s = p \/ Under(r, s)
             /\ Under(s, p) <=> Under(s, r) /\ s # r /\ s[Len(r) + 1] = i
             /\ Precedes(s, p) <=> Precedes(s, r) \/ (Under(s, r) /\ s # r /\ s[Len(r) + 1] < i)
             /\ ~Under(r, p)
  BY AroundChild
<1> HIDE DEF p
<1>4. m = "visit" => \A s \in NodesOf(root) : Under(s, p) => s = p
  BY <1>1, NothingBelowLeaf
<1>5. Under(p, p) /\ ~Precedes(p, p) /\ Under(r, r)
  BY <1>1, UnderItself
<1>6. ASSUME NEW s \in NodesOf(root), Under(s, r), s # r
      PROVE  Precedes(s, p) \/ Under(s, p)
  <2>1. s[Len(r) + 1] \in 1..Len(NodeAt(root, r).children)
    BY <1>6, BelowNode
  <2>2. s[Len(r) + 1] < i \/ s[Len(r) + 1] = i
    BY <1>1, <1>2, <2>1
  <2> QED BY <1>3, <1>6, <2>2 DEF NodesOf
<1>7. p # r
  BY <1>3, <1>5
<1>8. ASSUME NEW s \in Path
      PROVE  /\ IsLeft(s, p, m) => IsLeft(s, r, "leave")
             /\ IsAround(s, p, m) => IsAround(s, r, "leave") \/ IsLeft(s, r, "leave")
             /\ IsAround(s, r, "leave") => IsAround(s, p, m)
             /\ s \in NodesOf(root) /\ IsLeft(s, r, "leave") => IsLeft(s, p, m) \/ s = p
  <2>1. IsLeft(s, p, m) => IsLeft(s, r, "leave")
    BY <1>3 DEF IsLeft
  <2>2. IsAround(s, p, m) => IsAround(s, r, "leave") \/ IsLeft(s, r, "leave")
    BY <1>3, <1>5 DEF IsLeft, IsAround
  <2>3. IsAround(s, r, "leave") => IsAround(s, p, m)
    BY <1>3, <1>5, <1>1 DEF IsAround
  <2>4. s \in NodesOf(root) /\ IsLeft(s, r, "leave") => IsLeft(s, p, m) \/ s = p
    BY <1>3, <1>4, <1>6 DEF IsLeft
  <2> QED BY <2>1, <2>2, <2>3, <2>4
<1>9. IsLeft(p, r, "leave")
  BY <1>1, <1>3, <1>5, <1>7 DEF IsLeft
<1> QED BY <1>1, <1>2, <1>8, <1>9 DEF Moves, IsEntered, Moments, p

\* Where Following goes.
LEMMA Walk ==
  ASSUME NEW root \in Program, NEW p \in NodesOf(root), NEW m \in Moments,
         m = "visit" => NodeAt(root, p).kind \in LeafKinds,
         ~(p = <<>> /\ m = "leave")
  PROVE  \E q, n : Following(root, Cursor(p, m)) = Cursor(q, n) /\ Moves(root, p, m, q, n)
<1> DEFINE f == Following(root, Cursor(p, m))
           r == Parent(p)
           i == Last(p)
           N(x) == IF NodeAt(root, x).kind \in LeafKinds THEN "visit" ELSE "enter"
<1>1. p \in Path
  BY DEF NodesOf
<1>2. /\ m = "enter" /\ NodeAt(root, p).children # <<>> => f = Cursor(Child(p, 1), N(Child(p, 1)))
      /\ m = "enter" /\ NodeAt(root, p).children = <<>> => f = Cursor(p, "leave")
      /\ m # "enter" /\ i < Len(NodeAt(root, r).children) =>
           f = Cursor(Child(r, i + 1), N(Child(r, i + 1)))
      /\ m # "enter" /\ ~(i < Len(NodeAt(root, r).children)) => f = Cursor(r, "leave")
  <2>1. Cursor(p, m).path = p /\ Cursor(p, m).moment = m
    BY DEF Cursor
  <2> QED BY <2>1 DEF Following, Start
<1>3. \A x : N(x) \in {"enter", "visit"} /\ (N(x) = "visit" => NodeAt(root, x).kind \in LeafKinds)
  OBVIOUS
<1>4. m # "enter" => r \in Path /\ i \in Positive /\ Child(r, i) = p
  <2> SUFFICES ASSUME m # "enter" PROVE r \in Path /\ i \in Positive /\ Child(r, i) = p
    OBVIOUS
  <2>1. NodeAt(root, <<>>).kind = "program" /\ "program" \notin LeafKinds
    BY NodeAtRoot, ProgramAssumption DEF LeafKinds
  <2>2. p # <<>>
    BY <2>1 DEF Moments
  <2> QED BY <1>1, <2>2, ParentPath
<1> HIDE DEF f, r, i, N
<1>5. CASE m = "enter" /\ NodeAt(root, p).children # <<>>
  <2>1. Moves(root, p, m, Child(p, 1), N(Child(p, 1)))
    BY <1>3, <1>5, EnterFirstChild
  <2> QED BY <1>2, <1>5, <2>1 DEF f
<1>6. CASE m = "enter" /\ NodeAt(root, p).children = <<>>
  <2>1. Moves(root, p, m, p, "leave")
    BY <1>6, LeaveAtOnce
  <2> QED BY <1>2, <1>6, <2>1 DEF f
<1>7. CASE m # "enter" /\ i < Len(NodeAt(root, r).children)
  <2>1. /\ r \in Path /\ i \in Positive /\ m \in {"visit", "leave"} /\ Child(r, i) \in NodesOf(root)
        /\ m = "visit" => NodeAt(root, Child(r, i)).kind \in LeafKinds
    BY <1>4, <1>7 DEF Moments
  <2>2. Moves(root, Child(r, i), m, Child(r, i + 1), N(Child(r, i + 1)))
    BY <1>3, <1>7, <2>1, EnterNextChild
  <2> QED BY <1>2, <1>4, <1>7, <2>2 DEF f
<1>8. CASE m # "enter" /\ ~(i < Len(NodeAt(root, r).children))
  <2>1. /\ r \in Path /\ i \in Positive /\ m \in {"visit", "leave"} /\ Child(r, i) \in NodesOf(root)
        /\ m = "visit" => NodeAt(root, Child(r, i)).kind \in LeafKinds
    BY <1>4, <1>8 DEF Moments
  <2>2. Moves(root, Child(r, i), m, r, "leave")
    BY <1>8, <2>1, LeaveParent
  <2> QED BY <1>2, <1>4, <1>8, <2>2 DEF f
<1> QED BY <1>5, <1>6, <1>7, <1>8

-----------------------------------------------------------------------------
(* What a step does, as far as names are concerned.                        *)

\* A function with one more value.
LEMMA WithValue ==
  ASSUME NEW f, NEW x, NEW v
  PROVE  /\ DOMAIN With(f, x, v) = DOMAIN f \cup {x}
         /\ With(f, x, v)[x] = v
         /\ \A y \in DOMAIN f : y # x => With(f, x, v)[y] = f[y]
BY DEF With

\* The type that a node is given.
LEMMA TypesWith ==
  ASSUME NEW p, NEW type, types' = With(types, p, type)
  PROVE  TypeOf(p)' = type /\ \A q : q # p => TypeOf(q)' = TypeOf(q)
<1>1. /\ DOMAIN types' = DOMAIN types \cup {p} /\ types'[p] = type
      /\ \A q \in DOMAIN types : q # p => types'[q] = types[q]
  BY DEF With
<1> QED BY <1>1 DEF TypeOf

LEMMA PassSetsTypes ==
  ASSUME Pass
  PROVE  Advance /\ SetsTypes
BY DEF Pass, SetsTypes, TypeOf

LEMMA InferSetsTypes ==
  ASSUME NEW type, Infer(here, type), GetsType
  PROVE  Advance /\ SetsTypes
<1>1. types' = With(types, here, type)
  BY DEF Infer
<1>2. \A q : q # here => TypeOf(q)' = TypeOf(q)
  BY <1>1, TypesWith
<1> QED BY <1>2 DEF Infer, SetsTypes

LEMMA RefuseSetsTypes ==
  ASSUME NEW p, NEW what, Refuse(p, what)
  PROVE  Advance /\ SetsTypes /\ errors' # {}
<1>1. types' = With(types, p, ErrorType)
  BY DEF Refuse
<1>2. TypeOf(p)' = ErrorType /\ \A q : q # p => TypeOf(q)' = TypeOf(q)
  BY <1>1, TypesWith
<1> QED BY <1>2 DEF Refuse, SetsTypes

LEMMA ExamineSetsTypes ==
  ASSUME NEW checks, NEW type, Examine(checks, type), type = Null \/ GetsType
  PROVE  /\ Advance /\ SetsTypes
         /\ Fails(checks) => errors' # {}
<1>1. CASE Fails(checks) /\ Verdict(checks)
  <2>1. \E p, what : Refuse(p, what)
    BY <1>1 DEF Verdict
  <2> QED BY <2>1, RefuseSetsTypes
<1>2. CASE ~Fails(checks) /\ Pass
  BY <1>2, PassSetsTypes
<1>3. CASE ~Fails(checks) /\ Infer(here, type) /\ type # Null
  BY <1>3, InferSetsTypes
<1> QED BY <1>1, <1>2, <1>3 DEF Examine

\* The root is a program, and it is the only one.
LEMMA RootIsProgram ==
  ASSUME WalkInv
  PROVE  /\ Kind(<<>>) = "program" /\ <<>> \in NodesOf(tree) /\ <<>> \in Path
         /\ Start(tree, <<>>) = Cursor(<<>>, "enter")
         /\ \A p \in NodesOf(tree) : p # <<>> => Kind(p) # "program"
<1>1. tree \in Program /\ NodeAt(tree, <<>>) = tree /\ tree.kind = "program" /\ <<>> \in Path
  BY NodeAtRoot, ProgramAssumption DEF WalkInv
<1>2. <<>> \in NodesOf(tree)
  <2>1. Len(<<>>) = 0
    BY EmptySeq
  <2> QED BY <1>1, <2>1 DEF NodesOf
<1>3. Kind(<<>>) = "program" /\ Start(tree, <<>>) = Cursor(<<>>, "enter")
  BY <1>1 DEF Kind, Start, LeafKinds
<1>4. ASSUME NEW p \in NodesOf(tree), p # <<>> PROVE Kind(p) # "program"
  <2> DEFINE r == Parent(p)
             i == Last(p)
  <2>1. p \in Path
    BY DEF NodesOf
  <2>2. r \in Path /\ i \in Positive /\ Child(r, i) = p
    BY <1>4, <2>1, ParentPath
  <2> HIDE DEF r, i
  <2>3. r \in NodesOf(tree) /\ i \in 1..Len(NodeAt(tree, r).children)
    BY <2>2, NodesAndChildren
  <2>4. NodeAt(tree, p) = NodeAt(tree, r).children[i]
    BY <2>2, NodeAtChild
  <2>5. Shaped(NodeAt(tree, r))
    BY <1>1, <2>3, NodesAreWellFormed
  <2> QED BY <2>3, <2>4, <2>5 DEF Shaped, Kind
<1> QED BY <1>1, <1>2, <1>3, <1>4

\* A call of a visitor is followed by the next.
LEMMA AdvanceWalks ==
  ASSUME WalkInv, Advance
  PROVE  tree' = tree /\ WalkInv' /\ (GoesOn \/ TurnsRound \/ Finishes)
<1>1. tree' = tree /\ tree \in Program
  BY DEF Advance, WalkInv
<1>2. CASE cursor # Cursor(<<>>, "leave")
  <2> DEFINE p == here
             m == cursor.moment
  <2>1. /\ p \in NodesOf(tree) /\ m \in Moments /\ cursor = Cursor(p, m)
        /\ m = "visit" => NodeAt(tree, p).kind \in LeafKinds
        /\ ~(p = <<>> /\ m = "leave")
    BY <1>2 DEF WalkInv, Kind
  <2>2. cursor' = Following(tree, cursor) /\ UNCHANGED <<visitor, status>>
    BY <1>2 DEF Advance
  <2> HIDE DEF p, m
  <2>3. PICK q, n : Following(tree, Cursor(p, m)) = Cursor(q, n) /\ Moves(tree, p, m, q, n)
    BY <1>1, <2>1, Walk
  <2>4. cursor' = Cursor(q, n)
    BY <2>1, <2>2, <2>3
  <2>5. here' = q /\ cursor'.moment = n
    BY <2>4 DEF Cursor, here
  <2>6. GoesOn
    BY <2>2, <2>3, <2>4, <2>5 DEF GoesOn, p, m
  <2>7. q \in NodesOf(tree) /\ n \in Moments /\ (n = "visit" => NodeAt(tree, q).kind \in LeafKinds)
    BY <2>3 DEF Moves
  <2>8. status' # "done"
    BY <1>2, <2>2 DEF WalkInv
  <2>9. WalkInv'
    BY <1>1, <2>2, <2>4, <2>5, <2>7, <2>8 DEF WalkInv, Kind
  <2> QED BY <1>1, <2>6, <2>9
<1>3. CASE cursor = Cursor(<<>>, "leave") /\ visitor = "preprocessor"
  <2>1. cursor' = Cursor(<<>>, "enter") /\ visitor' = "visitor" /\ status' = status
    BY <1>3, RootIsProgram DEF Advance
  <2>2. here' = <<>> /\ cursor'.moment = "enter" /\ here = <<>> /\ cursor.moment = "leave"
    BY <1>3, <2>1 DEF Cursor, here
  <2>3. TurnsRound
    BY <1>3, <2>1, <2>2 DEF TurnsRound
  <2>4. <<>> \in NodesOf(tree)
    BY RootIsProgram
  <2>5. status' # "done"
    BY <1>3, <2>1 DEF WalkInv
  <2>6. WalkInv'
    BY <1>1, <2>1, <2>2, <2>4, <2>5 DEF WalkInv, Moments
  <2> QED BY <1>1, <2>3, <2>6
<1>4. CASE cursor = Cursor(<<>>, "leave") /\ visitor # "preprocessor"
  <2>1. status' = "done" /\ cursor' = cursor /\ visitor' = visitor /\ visitor = "visitor"
    BY <1>4 DEF Advance, WalkInv
  <2>2. Finishes
    BY <1>4, <2>1 DEF Finishes
  <2>3. here' = here
    BY <2>1 DEF here
  <2>4. WalkInv'
    BY <1>1, <1>4, <2>1, <2>3 DEF WalkInv, Kind
  <2> QED BY <1>1, <2>2, <2>4
<1> QED BY <1>2, <1>3, <1>4

\* The children of the node at the cursor.
LEMMA ChildrenOfHere ==
  ASSUME WalkInv
  PROVE  /\ Children(here) \in Seq(Path)
         /\ Len(Children(here)) = Len(NodeAt(tree, here).children)
         /\ Len(Children(here)) \in Nat
         /\ \A i \in 1..Len(Children(here)) :
              Children(here)[i] = Child(here, i) /\ Child(here, i) \in NodesOf(tree)
<1> DEFINE n == Len(NodeAt(tree, here).children)
           c == Children(here)
<1>1. tree \in Program /\ here \in NodesOf(tree) /\ here \in Path
  BY DEF WalkInv, NodesOf
<1>2. n \in Nat
  BY <1>1, NodesAreWellFormed
<1>3. c = [i \in 1..n |-> Child(here, i)]
  BY DEF Children
<1>4. \A i \in 1..n : i \in Positive /\ Child(here, i) \in Path /\ Child(here, i) \in NodesOf(tree)
  <2> SUFFICES ASSUME NEW i \in 1..n
               PROVE  i \in Positive /\ Child(here, i) \in Path /\ Child(here, i) \in NodesOf(tree)
    OBVIOUS
  <2>1. i \in Positive /\ i \in 1..Len(NodeAt(tree, here).children)
    BY <1>2 DEF Positive
  <2> QED BY <1>1, <2>1, NodesAndChildren, ChildPath
<1> HIDE DEF n, c
<1>5. c \in [1..n -> Path]
  BY <1>3, <1>4
<1>6. c \in Seq(Path)
  BY <1>2, <1>5, SeqDef
<1>7. Len(c) = n /\ \A i \in 1..n : c[i] = Child(here, i)
  BY <1>2, <1>3, <1>5, <1>6, LenProperties
<1> QED BY <1>2, <1>4, <1>6, <1>7 DEF n, c

\* The analyzer reports a declaration that is a branch.
LEMMA ConditionalRefuses ==
  ASSUME WalkInv, LeaveConditional
  PROVE  Advance /\ SetsTypes /\ RefusesBranch
<1> DEFINE condition == Check(TypeOf(ConditionOf(here)) # BooleanType, here, "condition")
           checks == <<condition>> \o BranchChecks
<1>1. Examine(checks, Null)
  BY DEF LeaveConditional
<1>2. Advance /\ SetsTypes /\ (Fails(checks) => errors' # {})
  BY <1>1, ExamineSetsTypes
<1>3. ASSUME Kind(here) = "if", NEW i \in 2..Len(Children(here)), Kind(Child(here, i)) = "declaration"
      PROVE  Fails(checks)
  <2> DEFINE c == Children(here)
             n == Len(Children(here))
             b == BranchChecks
             Verdicts == {Check(Kind(c[j]) = "declaration", c[j], "declaration as a branch") : j \in 1..n}
                           \cup {condition}
  <2>1. c \in Seq(Path) /\ n \in Nat /\ n = Len(c) /\ i \in 2..n /\ c[i] = Child(here, i)
    <3>1. i \in 1..Len(Children(here))
      BY <1>3, ChildrenOfHere
    <3> QED BY <1>3, <3>1, ChildrenOfHere
  <2> HIDE DEF n
  <2>2. Tail(c) \in Seq(Path) /\ Len(Tail(c)) = n - 1 /\ \A j \in 1..(n - 1) : Tail(c)[j] = c[j + 1]
    <3>1. c # <<>>
      BY <2>1, EmptySeq
    <3>2. /\ Tail(c) \in Seq(Path) /\ Len(Tail(c)) = Len(c) - 1
          /\ \A j \in 1..Len(Tail(c)) : Tail(c)[j] = c[j + 1]
      BY <2>1, <3>1, HeadTailProperties
    <3> QED BY <2>1, <3>2
  <2>3. b = [j \in 1..(n - 1) |-> Check(Kind(c[j + 1]) = "declaration", c[j + 1],
                                        "declaration as a branch")]
    <3>1. b = [j \in 1..Len(Tail(c)) |->
                 Check(Kind(Tail(c)[j]) = "declaration", Tail(c)[j], "declaration as a branch")]
      BY <1>3 DEF BranchChecks
    <3> HIDE DEF b, c
    <3> QED BY <2>2, <3>1
  <2> HIDE DEF b, c
  <2>4. b \in [1..(n - 1) -> Verdicts]
    <3>1. \A j \in 1..(n - 1) : j + 1 \in 1..n
      BY <2>1
    <3> QED BY <2>3, <3>1
  <2>5. b \in Seq(Verdicts) /\ Len(b) = n - 1 /\ <<condition>> \in Seq(Verdicts) /\ Len(<<condition>>) = 1
    <3>1. n - 1 \in Nat
      BY <2>1
    <3>2. condition \in Verdicts
      OBVIOUS
    <3> HIDE DEF Verdicts, condition
    <3>3. b \in Seq(Verdicts) /\ Len(b) = n - 1
      BY <2>4, <3>1, SeqDef, LenProperties
    <3> QED BY <3>2, <3>3
  <2> HIDE DEF Verdicts, condition
  <2>6. Len(checks) = n /\ checks[i] = b[i - 1]
    <3>1. /\ Len(checks) = Len(<<condition>>) + Len(b)
          /\ \A j \in 1..(Len(<<condition>>) + Len(b)) :
               checks[j] = IF j <= Len(<<condition>>) THEN <<condition>>[j] ELSE b[j - Len(<<condition>>)]
      BY <2>5, ConcatProperties DEF b
    <3> HIDE DEF checks
    <3> QED BY <2>1, <2>5, <3>1
  <2>7. i - 1 \in 1..(n - 1) /\ (i - 1) + 1 = i
    BY <2>1
  <2>8. b[i - 1] = Check(Kind(c[i]) = "declaration", c[i], "declaration as a branch")
    BY <2>3, <2>7
  <2> HIDE DEF checks
  <2>9. checks[i].wrong
    <3>1. (Kind(c[i]) = "declaration") = TRUE
      BY <1>3, <2>1
    <3>2. checks[i] = Check(TRUE, c[i], "declaration as a branch")
      BY <2>6, <2>8, <3>1
    <3>3. Check(TRUE, c[i], "declaration as a branch").wrong
      BY DEF Check
    <3> QED BY <3>2, <3>3
  <2>10. i \in 1..Len(checks)
    BY <2>1, <2>6
  <2> QED BY <2>9, <2>10 DEF Fails
<1> HIDE DEF checks
<1>4. RefusesBranch
  BY <1>2, <1>3 DEF RefusesBranch
<1> QED BY <1>2, <1>4

\* A node that is left with a declaration.
LEMMA DeclareDeclares ==
  ASSUME NEW p, NEW mutable, NEW type, NEW symbol, NEW newTypes, NEW newErrors,
         Declare(p, Entry(mutable, type, symbol), newTypes, newErrors),
         errors \subseteq newErrors,
         symbol = (IF Kind(here) = "function" THEN "function" ELSE "variable"),
         \A q : q = p => TypeOf(q)' = type, \A q : q # p => TypeOf(q)' = TypeOf(q),
         Kind(here) # "identifier" => type = TypeOf(Child(here, 2)),
         Kind(here) = "declaration" => type # VoidType
  PROVE  Advance /\ Declares(p, type)
<1>1. /\ table' = [table EXCEPT ![LocalScope(p)] =
                     Insert(@, Token(p), Entry(mutable, type, symbol))]
      /\ entries' = With(entries, p, IF Token(p) \in DOMAIN table[LocalScope(p)] THEN NoEntry
                                     ELSE <<LocalScope(p), Token(p)>>)
      /\ errors' = newErrors \cup (IF Token(p) \in DOMAIN table[LocalScope(p)]
                                   THEN {<<p, "redefinition">>} ELSE {})
      /\ Advance
  BY DEF Declare
<1>2. errors \subseteq errors'
  BY <1>1
<1>3. Token(p) \in DOMAIN table[LocalScope(p)] => errors' # {}
  BY <1>1
<1>4. table' = [table EXCEPT ![LocalScope(p)] =
                  Insert(@, Token(p), Entry(mutable, type, IF Kind(here) = "function" THEN "function"
                                                           ELSE "variable"))]
  BY <1>1
<1> QED BY <1>1, <1>2, <1>3, <1>4 DEF Declares

\* The steps of the preprocessor.
LEMMA PreprocessorEffects ==
  ASSUME WalkInv, Preprocess
  PROVE  Crash \/ (Advance /\ RefusesBranch /\ (SetsTypes \/ Opens \/ DeclaresName))
<1>1. visitor = "preprocessor"
  BY DEF Preprocess, EnterProgram, VisitBaseType, LeaveArrayType, LeaveLambdaType,
         LeaveLambdaParameter, LeaveLambda, LeaveFunctionDefinition, At
<1>2. RefusesBranch
  BY <1>1 DEF RefusesBranch
<1>3. CASE EnterProgram
  BY <1>2, <1>3 DEF EnterProgram, At, OpenScope, Opens
<1>4. CASE VisitBaseType
  <2>1. GetsType /\ \E type : Infer(here, type)
    BY <1>1, <1>4 DEF VisitBaseType, At, GetsType, WrittenKinds, TypeKinds
  <2> QED BY <1>2, <2>1, InferSetsTypes
<1>5. CASE LeaveArrayType
  <2>1. GetsType /\ \E checks, type : Examine(checks, type)
    BY <1>1, <1>5 DEF LeaveArrayType, At, GetsType, WrittenKinds, TypeKinds
  <2> QED BY <1>2, <2>1, ExamineSetsTypes
<1>6. CASE LeaveLambdaType
  <2>1. GetsType /\ \E type : Infer(here, type)
    BY <1>1, <1>6 DEF LeaveLambdaType, At, GetsType, WrittenKinds, TypeKinds
  <2> QED BY <1>2, <2>1, InferSetsTypes
<1>7. CASE LeaveLambdaParameter
  <2>1. CASE \E p, what : Refuse(p, what)
    BY <1>2, <2>1, RefuseSetsTypes
  <2> DEFINE type == TypeOf(Child(here, 1))
             p    == Child(here, 2)
  <2>2. CASE /\ types' = With(With(types, here, type), p, type)
             /\ Advance /\ UNCHANGED <<table, entries, bindings, errors>>
    <3>1. GetsType /\ Kind(here) = "parameter"
      BY <1>1, <1>7 DEF LeaveLambdaParameter, At, GetsType, WrittenKinds
    <3> HIDE DEF type, p
    <3>2. /\ DOMAIN types' = DOMAIN types \cup {here, p}
          /\ \A q \in DOMAIN types : q # here /\ q # p => types'[q] = types[q]
      BY <2>2 DEF With
    <3>3. \A q : q # here /\ q # p => TypeOf(q)' = TypeOf(q)
      BY <3>2 DEF TypeOf
    <3> QED BY <1>1, <1>2, <2>2, <3>1, <3>3 DEF SetsTypes, p
  <2> QED BY <1>7, <2>1, <2>2 DEF LeaveLambdaParameter
<1>8. CASE LeaveLambda
  <2>1. GetsType /\ (Crash \/ \E type : Infer(here, type))
    BY <1>1, <1>8 DEF LeaveLambda, At, GetsType, WrittenKinds
  <2> QED BY <1>2, <2>1, InferSetsTypes
<1>9. CASE LeaveFunctionDefinition
  <2> DEFINE p == Child(here, 1)
             type == TypeOf(Child(here, 2))
  <2>1. /\ cursor.moment = "leave" /\ Kind(here) = "function"
        /\ Declare(p, Entry(FALSE, type, "function"), With(types, p, type), errors)
    BY <1>9 DEF LeaveFunctionDefinition, At
  <2>2. types' = With(types, p, type)
    BY <2>1 DEF Declare
  <2> HIDE DEF p, type
  <2>3. (\A q : q = p => TypeOf(q)' = type) /\ \A q : q # p => TypeOf(q)' = TypeOf(q)
    BY <2>2, TypesWith
  <2>4. Advance /\ Declares(p, type)
    BY <2>1, <2>3, DeclareDeclares DEF type
  <2>5. IsNameIn(Kind(here), 1)
    BY <1>1, <2>1 DEF IsNameIn
  <2>6. DeclaresName
    BY <2>1, <2>4, <2>5 DEF DeclaresName, p
  <2> QED BY <1>2, <2>4, <2>6
<1> QED BY <1>3, <1>4, <1>5, <1>6, <1>7, <1>8, <1>9 DEF Preprocess

\* The visitor at an identifier.
LEMMA IdentifierEffects ==
  ASSUME WalkInv, VisitIdentifier
  PROVE  Advance /\ (SetsTypes \/ DeclaresUnknown \/ Resolves)
<1> DEFINE found == FindSymbolTableEntry(here)
<1>1. visitor = "visitor" /\ cursor.moment = "visit" /\ Kind(here) = "identifier"
  BY DEF VisitIdentifier, At
<1>2. CASE Pass
  BY <1>2, PassSetsTypes
<1>3. CASE /\ ~IsBeingDeclared(here) /\ ~IsParameterIdentifier(here)
           /\ Declare(here, Entry(FALSE, ErrorType, "variable"), With(types, here, ErrorType),
                      errors \cup {<<here, "undefined">>})
  <2>1. types' = With(types, here, ErrorType)
    BY <1>3 DEF Declare
  <2>2. /\ \A p : p = here => TypeOf(p)' = ErrorType
        /\ \A q : q # here => TypeOf(q)' = TypeOf(q)
    BY <2>1, TypesWith
  <2>3. Advance /\ Declares(here, ErrorType)
    BY <1>1, <1>3, <2>2, DeclareDeclares
  <2>4. errors' # {}
    BY <1>3 DEF Declare
  <2>5. IsUse
    BY <1>1, <1>3 DEF IsUse, IsDeclaration
  <2> QED BY <2>2, <2>3, <2>4, <2>5 DEF DeclaresUnknown
<1>4. CASE /\ ~IsBeingDeclared(here) /\ ~IsParameterIdentifier(here)
           /\ found # NoEntry
           /\ types' = With(types, here, EntryAt(found).type)
           /\ entries' = With(entries, here, found)
           /\ Advance
           /\ UNCHANGED <<table, bindings, errors>>
  <2>1. /\ \A p : p = here => TypeOf(p)' = EntryAt(found).type
        /\ \A q : q # here => TypeOf(q)' = TypeOf(q)
    <3> DEFINE type == EntryAt(found).type
    <3>1. types' = With(types, here, type)
      BY <1>4
    <3> HIDE DEF type
    <3>2. /\ \A p : p = here => TypeOf(p)' = type
          /\ \A q : q # here => TypeOf(q)' = TypeOf(q)
      BY <3>1, TypesWith
    <3> QED BY <3>2 DEF type
  <2>2. IsUse
    BY <1>1, <1>4 DEF IsUse, IsDeclaration
  <2> QED BY <1>4, <2>1, <2>2 DEF Resolves
<1> QED BY <1>2, <1>3, <1>4 DEF VisitIdentifier

\* The visitor at an operator.
LEMMA OperatorEffects ==
  ASSUME WalkInv, LeaveOperator
  PROVE  Crash \/ (Advance /\ SetsTypes)
<1>1. GetsType
  BY DEF LeaveOperator, At, GetsType, ValueKinds, Expressions
<1>2. CASE Crash
  BY <1>2
<1>3. CASE \E type : Infer(here, type)
  BY <1>1, <1>3, InferSetsTypes
<1>4. CASE \E checks : Verdict(checks)
  <2>1. \E p, what : Refuse(p, what)
    BY <1>4 DEF Verdict
  <2> QED BY <2>1, RefuseSetsTypes
<1>5. CASE /\ \E type : types' = With(types, here, type)
           /\ \E more : errors' = errors \cup more
           /\ Advance
           /\ UNCHANGED <<table, entries>>
  <2>1. \A q : q # here => TypeOf(q)' = TypeOf(q)
    BY <1>5, TypesWith
  <2> QED BY <1>1, <1>5, <2>1 DEF SetsTypes
<1>6. \/ Crash \/ \E type : Infer(here, type)
      \/ \E checks : Verdict(checks)
      \/ /\ \E type : types' = With(types, here, type)
         /\ \E more : errors' = errors \cup more
         /\ Advance
         /\ UNCHANGED <<table, entries>>
  <2> DEFINE operands == TypesOf(Children(here))
             target   == IF Token(here) = "=" THEN TargetChecks(Child(here, 1)) ELSE <<>>
             found    == AcceptingSignature(Token(here), operands, bindings)
             type     == IF found.type = Null THEN ErrorType ELSE found.type
             more     == IF found.type = Null THEN {<<here, "operand types">>} ELSE {}
  <2>1. \/ Crash \/ Infer(here, ErrorType)
        \/ Verdict(target)
        \/ /\ types' = With(types, here, type)
           /\ errors' = errors \cup more
           /\ Advance
           /\ UNCHANGED <<table, entries>>
    BY DEF LeaveOperator
  <2> HIDE DEF operands, target, found, type, more
  <2> QED BY <2>1
<1> QED BY <1>2, <1>3, <1>4, <1>5, <1>6

\* The steps of the visitor.
LEMMA VisitorEffects ==
  ASSUME WalkInv, Visit
  PROVE  Crash \/ (Advance /\ RefusesBranch
                   /\ (SetsTypes \/ Opens \/ DeclaresName \/ DeclaresUnknown \/ Resolves))
<1>1. CASE EnterScope
  BY <1>1 DEF EnterScope, At, OpenScope, Opens, RefusesBranch
<1>2. CASE VisitIdentifier
  <2>1. RefusesBranch
    BY <1>2 DEF VisitIdentifier, At, RefusesBranch
  <2> QED BY <1>2, <2>1, IdentifierEffects
<1>3. CASE VisitLiteral
  <2>1. RefusesBranch
    BY <1>3 DEF VisitLiteral, At, RefusesBranch
  <2>2. GetsType /\ \E type : Infer(here, type)
    BY <1>3 DEF VisitLiteral, At, GetsType, ValueKinds, Expressions
  <2> QED BY <2>1, <2>2, InferSetsTypes
<1>4. CASE LeaveParameter
  <2> DEFINE p == Child(here, 2)
             type == TypeOf(Child(here, 2))
  <2>1. /\ visitor = "visitor" /\ cursor.moment = "leave" /\ Kind(here) = "parameter"
        /\ Declare(p, Entry(TRUE, type, "variable"), types, errors)
    BY <1>4 DEF LeaveParameter, At
  <2>2. \A q : TypeOf(q)' = TypeOf(q)
    <3>1. types' = types
      BY <2>1 DEF Declare
    <3> QED BY <3>1 DEF TypeOf
  <2>3. Advance /\ Declares(p, type)
    BY <2>1, <2>2, DeclareDeclares
  <2>4. DeclaresName
    BY <2>1, <2>3 DEF DeclaresName, IsNameIn
  <2>5. RefusesBranch
    BY <2>1 DEF RefusesBranch
  <2> QED BY <2>3, <2>4, <2>5
<1>5. CASE LeaveDeclaration
  <2> DEFINE p == Child(here, 1)
             type == TypeOf(Child(here, 2))
  <2>1. visitor = "visitor" /\ cursor.moment = "leave" /\ Kind(here) = "declaration"
    BY <1>5 DEF LeaveDeclaration, At
  <2>2. RefusesBranch
    BY <2>1 DEF RefusesBranch
  <2>3. CASE Refuse(here, "void declaration")
    BY <2>2, <2>3, RefuseSetsTypes
  <2>4. CASE /\ Declare(p, Entry(Token(here) = "var", type, "variable"), With(types, p, type), errors)
             /\ type # VoidType
    <3>1. types' = With(types, p, type)
      BY <2>4 DEF Declare
    <3> HIDE DEF p, type
    <3>2. (\A q : q = p => TypeOf(q)' = type) /\ \A q : q # p => TypeOf(q)' = TypeOf(q)
      BY <3>1, TypesWith
    <3>3. Advance /\ Declares(p, type)
      <4> DEFINE mutable == Token(here) = "var"
      <4>1. Declare(p, Entry(mutable, type, "variable"), With(types, p, type), errors)
        BY <2>4
      <4> HIDE DEF mutable
      <4> QED BY <2>1, <2>4, <3>2, <4>1, DeclareDeclares DEF type
    <3>4. DeclaresName
      BY <2>1, <3>3 DEF DeclaresName, IsNameIn, p
    <3> QED BY <2>2, <3>3, <3>4
  <2>5. CASE Crash
    BY <2>5
  <2> QED BY <1>5, <2>3, <2>4, <2>5 DEF LeaveDeclaration
<1>6. CASE LeaveOperator
  <2>1. RefusesBranch
    BY <1>6 DEF LeaveOperator, At, RefusesBranch
  <2> QED BY <1>6, <2>1, OperatorEffects
<1>7. CASE LeaveConditional
  BY <1>7, ConditionalRefuses
<1>8. CASE LeavePopulatedArray
  <2>1. RefusesBranch /\ GetsType
    BY <1>8 DEF LeavePopulatedArray, At, RefusesBranch, GetsType, ValueKinds, Expressions
  <2>2. Crash \/ \E checks, type : Examine(checks, type)
    BY <1>8 DEF LeavePopulatedArray
  <2> QED BY <2>1, <2>2, ExamineSetsTypes
<1>9. CASE LeaveReturn
  <2>1. RefusesBranch
    BY <1>9 DEF LeaveReturn, At, RefusesBranch
  <2>2. Crash \/ \E checks : Examine(checks, Null)
    BY <1>9 DEF LeaveReturn
  <2> QED BY <2>1, <2>2, ExamineSetsTypes
<1>10. CASE LeaveLambdaInvocation \/ LeaveAlloc
  <2>1. RefusesBranch /\ GetsType
    BY <1>10 DEF LeaveLambdaInvocation, LeaveAlloc, At, RefusesBranch, GetsType, ValueKinds,
                 Expressions
  <2>2. \E checks, type : Examine(checks, type)
    BY <1>10 DEF LeaveLambdaInvocation, LeaveAlloc
  <2> QED BY <2>1, <2>2, ExamineSetsTypes
<1>11. CASE LeaveLambdaBody \/ LeavePrint \/ LeaveDealloc
  <2>1. RefusesBranch
    BY <1>11 DEF LeaveLambdaBody, LeavePrint, LeaveDealloc, At, RefusesBranch
  <2>2. \E checks : Examine(checks, Null)
    BY <1>11 DEF LeaveLambdaBody, LeavePrint, LeaveDealloc
  <2> QED BY <2>1, <2>2, ExamineSetsTypes
<1> QED BY <1>1, <1>2, <1>3, <1>4, <1>5, <1>6, <1>7, <1>8, <1>9, <1>10, <1>11 DEF Visit

\* What a step does.
LEMMA Effects ==
  ASSUME WalkInv, Next
  PROVE  Crash \/ (Advance /\ RefusesBranch
                   /\ (SetsTypes \/ Opens \/ DeclaresName \/ DeclaresUnknown \/ Resolves))
<1>1. CASE Skip
  <2>1. Advance /\ SetsTypes
    BY <1>1, PassSetsTypes DEF Skip
  <2>2. RefusesBranch
    BY <1>1 DEF Skip, RefusesBranch, Handled
  <2> QED BY <2>1, <2>2
<1> QED BY <1>1, PreprocessorEffects, VisitorEffects DEF Next

\* Init establishes the walk's invariant, and every step keeps it.
LEMMA WalkInit == Init => WalkInv
<1> SUFFICES ASSUME Init PROVE WalkInv
  OBVIOUS
<1>1. tree \in Program /\ NodeAt(tree, <<>>) = tree /\ tree.kind = "program" /\ <<>> \in Path
  BY NodeAtRoot, ProgramAssumption DEF Init
<1>2. cursor = Cursor(<<>>, "enter")
  BY <1>1 DEF Init, Start, LeafKinds
<1>3. here = <<>> /\ cursor.moment = "enter"
  BY <1>2 DEF Cursor, here
<1>4. <<>> \in NodesOf(tree)
  <2>1. Len(<<>>) = 0
    BY EmptySeq
  <2> QED BY <1>1, <2>1 DEF NodesOf
<1> QED BY <1>1, <1>2, <1>3, <1>4 DEF Init, WalkInv, Moments

LEMMA WalkStep == WalkInv /\ [Next]_vars => WalkInv'
<1> SUFFICES ASSUME WalkInv, [Next]_vars PROVE WalkInv'
  OBVIOUS
<1>1. CASE Next /\ Advance
  BY <1>1, AdvanceWalks
<1>2. CASE Crash
  BY <1>2 DEF Crash, WalkInv, Kind, here
<1>3. CASE UNCHANGED vars
  BY <1>3 DEF vars, WalkInv, Kind, here
<1> QED BY <1>1, <1>2, <1>3, Effects

-----------------------------------------------------------------------------
(* Scopes.                                                                 *)

\* A path to the root has an innermost path in every set of some of its paths.
LEMMA InnermostIsThere ==
  ASSUME NEW p \in Path, NEW S, S # {}, \A q \in S : q \in Path /\ Under(p, q)
  PROVE  /\ Innermost(S) \in S
         /\ \A q \in S : Len(q) <= Len(Innermost(S))
<1> DEFINE Lengths == {Len(p) - Len(q) : q \in S}
<1>1. \A q \in S : Len(q) \in Nat /\ Len(p) \in Nat /\ Len(q) <= Len(p)
  BY LenProperties DEF Path, Under
<1>2. Lengths \in SUBSET Nat /\ Lengths # {}
  BY <1>1
<1>3. PICK n \in Lengths : \A m \in Lengths : n <= m
  <2> HIDE DEF Lengths
  <2> QED BY <1>2, Least
<1>4. PICK s \in S : n = Len(p) - Len(s)
  OBVIOUS
<1>5. \A q \in S : Len(q) <= Len(s)
  <2> SUFFICES ASSUME NEW q \in S PROVE Len(q) <= Len(s)
    OBVIOUS
  <2>1. n <= Len(p) - Len(q)
    BY <1>3
  <2> QED BY <1>1, <1>4, <2>1
<1> QED BY <1>4, <1>5 DEF Innermost

\* A scope that must be opened is opened.
LEMMA OpensTheScope ==
  ASSUME WalkInv, Next, cursor.moment = "enter",
         \/ visitor = "preprocessor" /\ Kind(here) = "program"
         \/ visitor = "visitor" /\ Kind(here) \in {"block", "for", "lambda"}
  PROVE  Opens
<1>1. Preprocess => Opens
  <2>1. EnterProgram => Opens
    BY DEF EnterProgram, At, OpenScope, Opens
  <2>2. ~(VisitBaseType \/ LeaveArrayType \/ LeaveLambdaType \/ LeaveLambdaParameter \/ LeaveLambda
          \/ LeaveFunctionDefinition)
    BY DEF VisitBaseType, LeaveArrayType, LeaveLambdaType, LeaveLambdaParameter, LeaveLambda,
           LeaveFunctionDefinition, At
  <2> QED BY <2>1, <2>2 DEF Preprocess
<1>2. Visit => Opens
  <2>1. EnterScope => Opens
    BY DEF EnterScope, At, OpenScope, Opens
  <2>2. ~(VisitIdentifier \/ VisitLiteral \/ LeaveParameter \/ LeaveDeclaration \/ LeaveOperator
          \/ LeaveLambdaInvocation \/ LeaveLambdaBody)
    BY DEF VisitIdentifier, VisitLiteral, LeaveParameter, LeaveDeclaration, LeaveOperator,
           LeaveLambdaInvocation, LeaveLambdaBody, At
  <2>3. ~(LeaveAlloc \/ LeavePopulatedArray \/ LeaveConditional \/ LeavePrint \/ LeaveDealloc
          \/ LeaveReturn)
    BY DEF LeaveAlloc, LeavePopulatedArray, LeaveConditional, LeavePrint, LeaveDealloc, LeaveReturn, At
  <2> QED BY <2>1, <2>2, <2>3 DEF Visit
<1>3. ~Skip
  <2>1. Handled["preprocessor"]["enter"] = {"program"} /\ Handled["visitor"]["enter"] = {"block", "for", "lambda"}
    BY DEF Handled
  <2>2. Kind(here) \in Handled[visitor][cursor.moment]
    BY <2>1
  <2> QED BY <2>2 DEF Skip
<1> QED BY <1>1, <1>2, <1>3 DEF Next

\* What happens to the tables.
LEMMA TableDomain ==
  ASSUME SetsTypes \/ Opens \/ DeclaresName \/ DeclaresUnknown \/ Resolves
  PROVE  DOMAIN table' = DOMAIN table \/ (Opens /\ DOMAIN table' = DOMAIN table \cup {here})
<1>1. CASE SetsTypes \/ Resolves
  BY <1>1 DEF SetsTypes, Resolves
<1>2. CASE Opens
  BY <1>2 DEF Opens, With
<1>3. ASSUME NEW p, NEW type, Declares(p, type) PROVE DOMAIN table' = DOMAIN table
  BY <1>3 DEF Declares
<1>4. DeclaresName => DOMAIN table' = DOMAIN table
  BY <1>3 DEF DeclaresName
<1>5. DeclaresUnknown => DOMAIN table' = DOMAIN table
  BY <1>3 DEF DeclaresUnknown
<1> QED BY <1>1, <1>2, <1>4, <1>5

LEMMA ScopesInit == Init => ScopesInv
<1> SUFFICES ASSUME Init PROVE ScopesInv
  OBVIOUS
<1>1. cursor = Cursor(<<>>, "enter")
  BY NodeAtRoot, ProgramAssumption DEF Init, Start, LeafKinds
<1>2. here = <<>> /\ cursor.moment = "enter" /\ visitor = "preprocessor"
  BY <1>1 DEF Cursor, here, Init
<1>3. DOMAIN table = {}
  BY DEF Init
<1> QED BY <1>2, <1>3 DEF ScopesInv

LEMMA ScopesStep == WalkInv /\ ScopesInv /\ [Next]_vars => ScopesInv'
<1> SUFFICES ASSUME WalkInv, ScopesInv, [Next]_vars PROVE ScopesInv'
  OBVIOUS
<1>1. CASE Crash \/ UNCHANGED vars
  BY <1>1 DEF Crash, vars, ScopesInv, Kind, here
<1>2. CASE Next /\ ~Crash
  <2>1. /\ Advance
        /\ SetsTypes \/ Opens \/ DeclaresName \/ DeclaresUnknown \/ Resolves
    BY <1>2, Effects
  <2>2. DOMAIN table' = DOMAIN table \/ (Opens /\ DOMAIN table' = DOMAIN table \cup {here})
    BY <2>1, TableDomain
  <2>3. tree' = tree /\ (GoesOn \/ TurnsRound \/ Finishes)
    BY <2>1, AdvanceWalks
  <2>4. \A s : Kind(s)' = Kind(s)
    BY <2>3 DEF Kind
  <2>5. CASE GoesOn
    <3> DEFINE p == here
               m == cursor.moment
               q == here'
               n == cursor.moment'
    <3>1. visitor' = visitor /\ p \in Path /\ Moves(tree, p, m, q, n)
      BY <2>5 DEF GoesOn, WalkInv, NodesOf
    <3>2. ASSUME NEW s \in DOMAIN table'
          PROVE  /\ s \in NodesOf(tree) /\ Kind(s) \in ScopeKinds
                 /\ IsEntered(s, q, n) \/ (visitor = "visitor" /\ Kind(s) = "program")
                 /\ visitor = "preprocessor" => Kind(s) = "program"
      <4>1. CASE s \in DOMAIN table
        <5>1. /\ s \in NodesOf(tree) /\ Kind(s) \in ScopeKinds
              /\ IsEntered(s, p, m) \/ (visitor = "visitor" /\ Kind(s) = "program")
              /\ visitor = "preprocessor" => Kind(s) = "program"
          BY <4>1 DEF ScopesInv
        <5>2. s \in Path
          BY <5>1 DEF NodesOf
        <5>3. IsEntered(s, p, m) => IsEntered(s, q, n)
          BY <3>1, <5>2 DEF Moves
        <5> QED BY <5>1, <5>3
      <4>2. CASE s = here /\ Opens
        <5>1. IsEntered(p, q, n)
          BY <3>1 DEF Moves
        <5>2. p \in NodesOf(tree) /\ Kind(p) \in ScopeKinds
              /\ (visitor = "preprocessor" => Kind(p) = "program")
          BY <4>2 DEF Opens, WalkInv, ScopeKinds
        <5> HIDE DEF q, n
        <5> QED BY <4>2, <5>1, <5>2
      <4> QED BY <2>2, <4>1, <4>2, <3>2
    <3>3. <<>> \in DOMAIN table'
      <4>1. CASE <<>> \in DOMAIN table
        BY <2>2, <4>1
      <4>2. CASE visitor = "preprocessor" /\ here = <<>> /\ cursor.moment = "enter"
        <5>1. Kind(here) = "program"
          BY <4>2, RootIsProgram
        <5>2. Opens
          BY <1>2, <4>2, <5>1, OpensTheScope
        <5>3. here \in DOMAIN table'
          BY <5>2 DEF Opens, With
        <5> QED BY <4>2, <5>3
      <4> QED BY <4>1, <4>2 DEF ScopesInv
    <3>4. ASSUME visitor = "visitor", NEW s \in Path, IsAround(s, q, n), Kind(s) \in ScopeKinds
          PROVE  s \in DOMAIN table'
      <4>1. IsAround(s, p, m) \/ (s = p /\ m = "enter")
        BY <3>1, <3>4 DEF Moves
      <4>2. CASE IsAround(s, p, m)
        <5>1. s \in DOMAIN table
          BY <3>4, <4>2 DEF ScopesInv
        <5> QED BY <2>2, <5>1
      <4>3. CASE s = p /\ m = "enter"
        <5>1. CASE Kind(here) = "program"
          <6>1. here = <<>>
            BY <5>1, RootIsProgram DEF WalkInv
          <6> QED BY <3>3, <4>3, <6>1
        <5>2. CASE Kind(here) # "program"
          <6>1. Kind(here) \in {"block", "for", "lambda"}
            BY <3>4, <4>3, <5>2 DEF ScopeKinds
          <6>2. Opens
            BY <1>2, <3>4, <4>3, <6>1, OpensTheScope
          <6> QED BY <4>3, <6>2 DEF Opens, With
        <5> QED BY <5>1, <5>2
      <4> QED BY <4>1, <4>2, <4>3
    <3> QED BY <2>3, <2>4, <3>1, <3>2, <3>3, <3>4 DEF ScopesInv
  <2>6. CASE TurnsRound
    <3>1. DOMAIN table' = DOMAIN table
      BY <2>2, <2>6 DEF TurnsRound, Opens
    <3>2. visitor = "preprocessor" /\ visitor' = "visitor" /\ here' = <<>> /\ cursor.moment' = "enter"
          /\ cursor.moment = "leave"
      BY <2>6 DEF TurnsRound
    <3>3. ASSUME NEW s \in Path PROVE ~IsAround(s, <<>>, "enter")
      <4>1. Len(<<>>) = 0 /\ Len(s) \in Nat
        BY EmptySeq, LenProperties DEF Path
      <4>2. Len(s) <= 0 => s = <<>>
        BY <4>1, EmptySeq DEF Path
      <4> QED BY <4>1, <4>2 DEF IsAround, Under
    <3>4. \A s \in DOMAIN table : s \in NodesOf(tree) /\ Kind(s) \in ScopeKinds /\ Kind(s) = "program"
      BY <3>2 DEF ScopesInv
    <3>5. <<>> \in DOMAIN table
      BY <3>2 DEF ScopesInv
    <3> QED BY <2>3, <2>4, <3>1, <3>2, <3>3, <3>4, <3>5 DEF ScopesInv
  <2>7. CASE Finishes
    <3>1. cursor' = cursor /\ visitor' = visitor /\ here' = here /\ cursor.moment = "leave"
      BY <2>7 DEF Finishes, here, Cursor
    <3>2. DOMAIN table' = DOMAIN table
      BY <2>2, <3>1 DEF Opens
    <3> QED BY <2>3, <2>4, <3>1, <3>2 DEF ScopesInv
  <2> QED BY <2>3, <2>5, <2>6, <2>7
<1> QED BY <1>1, <1>2

-----------------------------------------------------------------------------
(* Symbol tables and their entries.                                        *)

\* Whether a node is a declaration is the tree's.
LEMMA SameDeclarations ==
  ASSUME tree' = tree
  PROVE  \A q : /\ Kind(q)' = Kind(q) /\ Token(q)' = Token(q)
                /\ IsDeclaration(q)' <=> IsDeclaration(q)
BY DEF Kind, Token, IsDeclaration, IsBeingDeclared, IsParameterIdentifier

\* The local scope of a node is the innermost of those that are open around it.
LEMMA LocalScopeIsThere ==
  ASSUME WalkInv, ScopesInv, cursor.moment # "enter", NEW q \in Path
  PROVE  /\ LocalScope(q) \in DOMAIN table
         /\ LocalScope(q) \in Path
         /\ Under(q, LocalScope(q))
         /\ \A s \in DOMAIN table : Under(q, s) => Len(s) <= Len(LocalScope(q))
<1> DEFINE S == PathToRoot(q) \cap DOMAIN table
<1>1. \A s : s \in S <=> s \in DOMAIN table /\ s \in Path /\ Under(q, s)
  BY OnPathToRoot
<1>2. \A s \in DOMAIN table : s \in Path
  BY DEF ScopesInv, NodesOf
<1>3. <<>> \in S
  <2>1. <<>> \in Path /\ Len(<<>>) = 0 /\ Len(q) \in Nat
    BY EmptySeq, LenProperties DEF Path
  <2>2. Under(q, <<>>)
    BY <2>1 DEF Under
  <2>3. <<>> \in DOMAIN table
    BY DEF ScopesInv
  <2> QED BY <1>1, <2>1, <2>2, <2>3
<1> HIDE DEF S
<1>4. Innermost(S) \in S /\ \A s \in S : Len(s) <= Len(Innermost(S))
  <2>1. S # {} /\ \A s \in S : s \in Path /\ Under(q, s)
    BY <1>1, <1>3
  <2> QED BY <2>1, InnermostIsThere
<1>5. LocalScope(q) = Innermost(S)
  BY DEF LocalScope, S
<1> QED BY <1>1, <1>2, <1>4, <1>5

\* What is found for a name is an entry of the innermost scope around it that has one.
LEMMA FoundIsThere ==
  ASSUME WalkInv, ScopesInv, NEW q \in Path, FindSymbolTableEntry(q) # NoEntry
  PROVE  \E s \in DOMAIN table :
           /\ FindSymbolTableEntry(q) = <<s, Token(q)>>
           /\ Under(q, s) /\ Token(q) \in DOMAIN table[s]
           /\ \A t \in DOMAIN table :
                Under(q, t) /\ Token(q) \in DOMAIN table[t] => Len(t) <= Len(s)
<1> DEFINE S == Declaring(q, Token(q))
<1>1. \A s : s \in S <=> s \in DOMAIN table /\ s \in Path /\ Under(q, s) /\ Token(q) \in DOMAIN table[s]
  BY OnPathToRoot DEF Declaring
<1>2. \A s \in DOMAIN table : s \in Path
  BY DEF ScopesInv, NodesOf
<1>3. S # {} /\ FindSymbolTableEntry(q) = <<Innermost(S), Token(q)>>
  BY DEF FindSymbolTableEntry
<1> HIDE DEF S
<1>4. Innermost(S) \in S /\ \A s \in S : Len(s) <= Len(Innermost(S))
  <2>1. \A s \in S : s \in Path /\ Under(q, s)
    BY <1>1
  <2> QED BY <1>3, <2>1, InnermostIsThere
<1> QED BY <1>1, <1>2, <1>3, <1>4

\* The name of what is declared is its child, an identifier.
LEMMA NameIsDeclared ==
  ASSUME WalkInv, NEW i, IsNameIn(Kind(here), i)
  PROVE  LET q == Child(here, i)
         IN  /\ q \in NodesOf(tree) /\ q # <<>> /\ q # here
             /\ Kind(q) = "identifier"
             /\ Parent(q) = here
             /\ IsDeclaration(q)
<1> DEFINE q == Child(here, i)
           tn == NodeAt(tree, here)
<1>1. tree \in Program /\ here \in NodesOf(tree) /\ here \in Path
  BY DEF WalkInv, NodesOf
<1>2. i \in {1, 2} /\ i \in Positive
  BY DEF IsNameIn, Positive
<1>3. Shaped(tn) /\ tn.kind = Kind(here)
  BY <1>1, NodesAreWellFormed DEF Kind
<1>4. Len(tn.children) = 2 /\ tn.children[i].kind = "identifier"
  BY <1>3 DEF Shaped, IsNameIn
<1>5. q \in NodesOf(tree) /\ NodeAt(tree, q) = tn.children[i]
  BY <1>1, <1>2, <1>4, NodesAndChildren, NodeAtChild
<1>6. q # <<>> /\ Last(q) = i /\ Parent(q) = here /\ Len(q) = Len(here) + 1 /\ Len(here) \in Nat
  BY <1>1, <1>2, ChildPath, ParentOfChild
<1>7. q # here
  <2> HIDE DEF q
  <2> QED BY <1>6
<1>8. Kind(q) = "identifier"
  BY <1>4, <1>5 DEF Kind
<1>9. IsDeclaration(q)
  <2> HIDE DEF q
  <2> QED BY <1>6 DEF IsDeclaration, IsBeingDeclared, IsParameterIdentifier, IsNameIn
<1> QED BY <1>5, <1>6, <1>7, <1>8, <1>9

\* A declaration adds a name to its scope, if it is not there.
LEMMA DeclaresInScope ==
  ASSUME WalkInv, ScopesInv, cursor.moment # "enter", NEW q \in Path, NEW type, Declares(q, type)
  PROVE  LET scope == LocalScope(q)
             taken == Token(q) \in DOMAIN table[scope]
         IN  /\ DOMAIN table' = DOMAIN table /\ scope \in DOMAIN table
             /\ \A s \in DOMAIN table : s # scope => table'[s] = table[s]
             /\ DOMAIN table'[scope] = DOMAIN table[scope] \cup {Token(q)}
             /\ \A name \in DOMAIN table[scope] : table'[scope][name] = table[scope][name]
             /\ entries' = With(entries, q, IF taken THEN NoEntry ELSE <<scope, Token(q)>>)
             /\ errors \subseteq errors'
             /\ taken => errors' # {}
<1> DEFINE scope == LocalScope(q)
<1>1. scope \in DOMAIN table
  BY LocalScopeIsThere
<1>2. PICK entry : table' = [table EXCEPT ![scope] = Insert(@, Token(q), entry)]
  BY DEF Declares
<1>3. DOMAIN table' = DOMAIN table
  BY <1>2
<1>4. \A s \in DOMAIN table : s # scope => table'[s] = table[s]
  BY <1>2
<1>5. table'[scope] = Insert(table[scope], Token(q), entry)
  BY <1>1, <1>2
<1>6. /\ DOMAIN table'[scope] = DOMAIN table[scope] \cup {Token(q)}
      /\ \A name \in DOMAIN table[scope] : table'[scope][name] = table[scope][name]
  <2> HIDE DEF scope
  <2>1. CASE Token(q) \in DOMAIN table[scope]
    BY <1>5, <2>1 DEF Insert
  <2>2. CASE Token(q) \notin DOMAIN table[scope]
    <3>1. table'[scope] = With(table[scope], Token(q), entry)
      BY <1>5, <2>2 DEF Insert
    <3> QED BY <2>2, <3>1 DEF With
  <2> QED BY <2>1, <2>2
<1> QED BY <1>1, <1>3, <1>4, <1>6 DEF Declares

\* An entry is never changed.
LEMMA EntriesAreKept ==
  ASSUME WalkInv, ScopesInv,
         SetsTypes \/ Opens \/ DeclaresName \/ DeclaresUnknown \/ Resolves,
         NEW s \in DOMAIN table, NEW name \in DOMAIN table[s]
  PROVE  s \in DOMAIN table' /\ name \in DOMAIN table'[s] /\ table'[s][name] = table[s][name]
<1>1. CASE SetsTypes \/ Resolves
  BY <1>1 DEF SetsTypes, Resolves
<1>2. CASE Opens
  <2>1. s # here
    <3>1. here \in Path /\ ~IsEntered(here, here, "enter")
      <4>1. here \in Path
        BY DEF WalkInv, NodesOf
      <4> QED BY <4>1, UnderItself DEF IsEntered, IsLeft, IsAround
    <3>2. IsEntered(s, here, "enter") \/ (visitor = "visitor" /\ Kind(s) = "program")
      BY <1>2 DEF Opens, ScopesInv
    <3>3. visitor = "visitor" => Kind(here) # "program"
      BY <1>2 DEF Opens
    <3> QED BY <3>1, <3>2, <3>3
  <2>2. s \in DOMAIN table' /\ table'[s] = table[s]
    BY <1>2, <2>1 DEF Opens, With
  <2> QED BY <2>2
<1>3. ASSUME NEW q \in Path, NEW type, Declares(q, type), cursor.moment # "enter"
      PROVE  s \in DOMAIN table' /\ name \in DOMAIN table'[s] /\ table'[s][name] = table[s][name]
  <2>1. /\ DOMAIN table' = DOMAIN table
        /\ s # LocalScope(q) => table'[s] = table[s]
        /\ DOMAIN table'[LocalScope(q)] = DOMAIN table[LocalScope(q)] \cup {Token(q)}
        /\ \A n \in DOMAIN table[LocalScope(q)] : table'[LocalScope(q)][n] = table[LocalScope(q)][n]
    BY <1>3, DeclaresInScope
  <2> QED BY <2>1
<1>4. CASE DeclaresName
  <2>1. PICK i, type : IsNameIn(Kind(here), i) /\ Declares(Child(here, i), type)
    BY <1>4 DEF DeclaresName
  <2>2. Child(here, i) \in Path
    BY <2>1, NameIsDeclared DEF NodesOf
  <2>3. cursor.moment # "enter"
    BY <1>4 DEF DeclaresName
  <2> QED BY <1>3, <2>1, <2>2, <2>3
<1>5. CASE DeclaresUnknown
  <2>1. here \in Path
    BY DEF WalkInv, NodesOf
  <2> QED BY <1>3, <1>5, <2>1 DEF DeclaresUnknown, IsUse
<1> QED BY <1>1, <1>2, <1>4, <1>5

\* An identifier is given at most one entry: where it is declared, or where it is used.
LEMMA EntriesAfter ==
  ASSUME WalkInv, ScopesInv,
         SetsTypes \/ Opens \/ DeclaresName \/ DeclaresUnknown \/ Resolves
  PROVE  \/ entries' = entries
         \/ \E q \in NodesOf(tree) : \E e :
              /\ entries' = With(entries, q, e)
              /\ Kind(q) = "identifier"
              /\ IsDeclaration(q) \/ (IsUse /\ q = here)
              /\ e # NoEntry => \E s \in DOMAIN table' : \E name \in DOMAIN table'[s] : e = <<s, name>>
<1>1. CASE SetsTypes \/ Opens
  BY <1>1 DEF SetsTypes, Opens
<1>2. ASSUME NEW q \in NodesOf(tree), NEW type, Declares(q, type), cursor.moment # "enter"
      PROVE  \E e : /\ entries' = With(entries, q, e)
                    /\ e # NoEntry => \E s \in DOMAIN table' : \E name \in DOMAIN table'[s] : e = <<s, name>>
  <2> DEFINE scope == LocalScope(q)
             e == IF Token(q) \in DOMAIN table[scope] THEN NoEntry ELSE <<scope, Token(q)>>
  <2>1. q \in Path
    BY DEF NodesOf
  <2>2. /\ scope \in DOMAIN table' /\ Token(q) \in DOMAIN table'[scope]
        /\ entries' = With(entries, q, e)
    BY <1>2, <2>1, DeclaresInScope
  <2>3. e # NoEntry => e = <<scope, Token(q)>>
    OBVIOUS
  <2> HIDE DEF scope, e
  <2> QED BY <2>2, <2>3
<1>3. CASE DeclaresName
  <2>1. PICK i, type : IsNameIn(Kind(here), i) /\ Declares(Child(here, i), type)
    BY <1>3 DEF DeclaresName
  <2> DEFINE q == Child(here, i)
  <2>2. q \in NodesOf(tree) /\ Kind(q) = "identifier" /\ IsDeclaration(q) /\ Declares(q, type)
    BY <2>1, NameIsDeclared
  <2>3. cursor.moment # "enter"
    BY <1>3 DEF DeclaresName
  <2> HIDE DEF q
  <2> QED BY <1>2, <2>2, <2>3
<1>4. CASE DeclaresUnknown
  <2>1. here \in NodesOf(tree) /\ Kind(here) = "identifier" /\ IsUse /\ cursor.moment # "enter"
        /\ Declares(here, ErrorType)
    BY <1>4 DEF WalkInv, DeclaresUnknown, IsUse
  <2> QED BY <1>2, <2>1
<1>5. CASE Resolves
  <2> DEFINE e == FindSymbolTableEntry(here)
  <2>1. here \in NodesOf(tree) /\ here \in Path /\ Kind(here) = "identifier" /\ IsUse
    BY <1>5 DEF WalkInv, Resolves, IsUse, NodesOf
  <2>2. entries' = With(entries, here, e) /\ table' = table /\ e # NoEntry
    BY <1>5 DEF Resolves
  <2>3. \E s \in DOMAIN table : e = <<s, Token(here)>> /\ Token(here) \in DOMAIN table[s]
    BY <2>1, <2>2, FoundIsThere
  <2> HIDE DEF e
  <2> QED BY <2>1, <2>2, <2>3
<1> QED BY <1>1, <1>3, <1>4, <1>5

LEMMA EntriesInit == Init => EntriesInv
<1> SUFFICES ASSUME Init PROVE EntriesInv
  OBVIOUS
<1>1. DOMAIN entries = {}
  BY DEF Init
<1> QED BY <1>1 DEF EntriesInv, References, ReferencesHaveTheirEntrysType

\* What is found for a name has its type: every step keeps it.
LEMMA ReferencesKeepTheirType ==
  ASSUME WalkInv, ScopesInv, EntriesInv, tree' = tree,
         SetsTypes \/ Opens \/ DeclaresName \/ DeclaresUnknown \/ Resolves,
         NEW p \in DOMAIN entries', ~IsDeclaration(p), entries'[p] # NoEntry
  PROVE  \A q : q = p => TypeOf(q)' \in {table'[entries'[p][1]][entries'[p][2]].type, ErrorType}
<1>1. ASSUME p \in DOMAIN entries, entries'[p] = entries[p],
             \A q : q = p => TypeOf(q)' \in {TypeOf(q), ErrorType}
      PROVE  \A q : q = p => TypeOf(q)' \in {table'[entries'[p][1]][entries'[p][2]].type, ErrorType}
  <2>1. PICK s \in DOMAIN table : \E name \in DOMAIN table[s] : entries[p] = <<s, name>>
    BY <1>1 DEF EntriesInv
  <2>2. PICK name \in DOMAIN table[s] : entries[p] = <<s, name>>
    BY <2>1
  <2>3. s \in DOMAIN table' /\ name \in DOMAIN table'[s] /\ table'[s][name] = table[s][name]
    BY EntriesAreKept
  <2>4. TypeOf(p) \in {table[s][name].type, ErrorType}
    <3>1. p \in References
      BY <1>1 DEF References
    <3> QED BY <1>1, <2>2, <3>1 DEF EntriesInv, ReferencesHaveTheirEntrysType, EntryAt
  <2> QED BY <1>1, <2>2, <2>3, <2>4
<1>2. CASE SetsTypes
  <2>1. entries' = entries /\ p \in References
    BY <1>2 DEF SetsTypes, References
  <2>2. visitor # "preprocessor" /\ Kind(p) = "identifier"
    BY <2>1 DEF EntriesInv, References
  <2>3. \A q : q = p => TypeOf(q)' \in {TypeOf(q), ErrorType}
    BY <1>2, <2>2 DEF SetsTypes, GetsType, ValueKinds
  <2> QED BY <1>1, <2>1, <2>3
<1>3. CASE Opens
  <2>1. entries' = entries /\ types' = types
    BY <1>3 DEF Opens
  <2>2. \A q : q = p => TypeOf(q)' \in {TypeOf(q), ErrorType}
    BY <2>1 DEF TypeOf
  <2> QED BY <1>1, <2>1, <2>2
<1>4. CASE DeclaresName
  <2>1. PICK i, type : IsNameIn(Kind(here), i) /\ Declares(Child(here, i), type)
    BY <1>4 DEF DeclaresName
  <2> DEFINE d == Child(here, i)
  <2>2. IsDeclaration(d)
    BY <2>1, NameIsDeclared
  <2>3. (\E e : entries' = With(entries, d, e)) /\ \A q : q # d => TypeOf(q)' = TypeOf(q)
    BY <2>1 DEF Declares
  <2> HIDE DEF d
  <2>4. p # d
    BY <2>2
  <2>5. p \in DOMAIN entries /\ entries'[p] = entries[p]
    BY <2>3, <2>4 DEF With
  <2> QED BY <1>1, <2>3, <2>4, <2>5
<1>5. CASE DeclaresUnknown
  <2>1. /\ \A q : q = here => TypeOf(q)' = ErrorType
        /\ \A q : q # here => TypeOf(q)' = TypeOf(q)
        /\ \E e : entries' = With(entries, here, e)
    BY <1>5 DEF DeclaresUnknown, Declares
  <2>2. CASE p = here
    BY <2>1, <2>2
  <2>3. CASE p # here
    <3>1. p \in DOMAIN entries /\ entries'[p] = entries[p]
      BY <2>1, <2>3 DEF With
    <3> QED BY <1>1, <2>1, <2>3, <3>1
  <2> QED BY <2>2, <2>3
<1>6. CASE Resolves
  <2> DEFINE e == FindSymbolTableEntry(here)
  <2>1. /\ \A q : q = here => TypeOf(q)' = table[e[1]][e[2]].type
        /\ \A q : q # here => TypeOf(q)' = TypeOf(q)
        /\ entries' = With(entries, here, e)
        /\ table' = table
    BY <1>6 DEF Resolves, EntryAt
  <2> HIDE DEF e
  <2>2. CASE p = here
    <3>1. entries'[p] = e
      BY <2>1, <2>2 DEF With
    <3> QED BY <2>1, <2>2, <3>1
  <2>3. CASE p # here
    <3>1. p \in DOMAIN entries /\ entries'[p] = entries[p]
      BY <2>1, <2>3 DEF With
    <3> QED BY <1>1, <2>1, <2>3, <3>1
  <2> QED BY <2>2, <2>3
<1> QED BY <1>2, <1>3, <1>4, <1>5, <1>6

LEMMA EntriesStep == WalkInv /\ ScopesInv /\ EntriesInv /\ [Next]_vars => EntriesInv'
<1> SUFFICES ASSUME WalkInv, ScopesInv, EntriesInv, [Next]_vars PROVE EntriesInv'
  OBVIOUS
<1>1. CASE Crash \/ UNCHANGED vars
  <2>1. UNCHANGED <<tree, visitor, cursor, types, table, entries>>
    BY <1>1 DEF Crash, vars
  <2>2. References' = References /\ ReferencesHaveTheirEntrysType' /\ here' = here
    BY <2>1 DEF References, ReferencesHaveTheirEntrysType, EntriesInv, EntryAt, TypeOf, IsDeclaration,
                IsBeingDeclared, IsParameterIdentifier, Kind, here
  <2> QED BY <2>1, <2>2 DEF EntriesInv, Kind
<1>2. CASE Next /\ ~Crash
  <2>1. /\ Advance
        /\ SetsTypes \/ Opens \/ DeclaresName \/ DeclaresUnknown \/ Resolves
    BY <1>2, Effects
  <2>2. tree' = tree /\ (GoesOn \/ TurnsRound \/ Finishes)
    BY <2>1, AdvanceWalks
  <2>3. \A q : Kind(q)' = Kind(q) /\ (IsDeclaration(q)' <=> IsDeclaration(q))
    BY <2>2, SameDeclarations
  <2>4. ASSUME NEW s \in DOMAIN table, NEW name \in DOMAIN table[s]
        PROVE  s \in DOMAIN table' /\ name \in DOMAIN table'[s]
    BY <2>1, EntriesAreKept
  <2>5. ASSUME NEW q \in DOMAIN entries'
        PROVE  /\ q \in NodesOf(tree) /\ Kind(q) = "identifier"
               /\ entries'[q] # NoEntry =>
                    \E s \in DOMAIN table' : \E name \in DOMAIN table'[s] : entries'[q] = <<s, name>>
               /\ q \in DOMAIN entries \/ IsDeclaration(q) \/ (IsUse /\ q = here)
    <3>1. q \in DOMAIN entries =>
            /\ q \in NodesOf(tree) /\ Kind(q) = "identifier"
            /\ entries[q] # NoEntry =>
                 \E s \in DOMAIN table' : \E name \in DOMAIN table'[s] : entries[q] = <<s, name>>
      BY <2>4 DEF EntriesInv
    <3>2. CASE entries' = entries
      BY <2>5, <3>1, <3>2
    <3>3. ASSUME NEW p \in NodesOf(tree), NEW e,
                 /\ entries' = With(entries, p, e)
                 /\ Kind(p) = "identifier"
                 /\ IsDeclaration(p) \/ (IsUse /\ p = here)
                 /\ e # NoEntry => \E s \in DOMAIN table' : \E name \in DOMAIN table'[s] : e = <<s, name>>
          PROVE  /\ q \in NodesOf(tree) /\ Kind(q) = "identifier"
                 /\ entries'[q] # NoEntry =>
                      \E s \in DOMAIN table' : \E name \in DOMAIN table'[s] : entries'[q] = <<s, name>>
                 /\ q \in DOMAIN entries \/ IsDeclaration(q) \/ (IsUse /\ q = here)
      <4>1. CASE q = p
        <5>1. entries'[q] = e
          BY <3>3, <4>1 DEF With
        <5> QED BY <3>3, <4>1, <5>1
      <4>2. CASE q # p
        <5>1. q \in DOMAIN entries /\ entries'[q] = entries[q]
          BY <2>5, <3>3, <4>2 DEF With
        <5> QED BY <3>1, <5>1
      <4> QED BY <4>1, <4>2
    <3> QED BY <2>1, <3>2, <3>3, EntriesAfter
  <2>6. ASSUME NEW q \in DOMAIN entries', ~IsDeclaration(q)
        PROVE  visitor' = "visitor" /\ IsLeft(q, here', cursor.moment')
    <3>1. \/ visitor = "visitor" /\ IsLeft(q, here, cursor.moment)
          \/ visitor = "visitor" /\ cursor.moment = "visit" /\ q = here
      <4>1. CASE q \in DOMAIN entries
        BY <2>6, <4>1 DEF EntriesInv, References
      <4>2. CASE q \notin DOMAIN entries
        BY <2>5, <2>6, <4>2 DEF IsUse
      <4> QED BY <4>1, <4>2
    <3>2. CASE GoesOn
      <4>1. q \in Path
        BY <2>5 DEF NodesOf
      <4> QED BY <3>1, <3>2, <4>1 DEF GoesOn, Moves
    <3>3. CASE Finishes
      <4>1. here' = here /\ cursor.moment = "leave" /\ cursor' = cursor /\ visitor' = visitor
        BY <3>3 DEF Finishes, here, Cursor
      <4> QED BY <3>1, <4>1
    <3>4. ~TurnsRound
      BY <3>1 DEF TurnsRound
    <3> QED BY <2>2, <3>2, <3>3, <3>4
  <2>7. ReferencesHaveTheirEntrysType'
    <3>1. ASSUME NEW p \in DOMAIN entries', ~IsDeclaration(p), entries'[p] # NoEntry
          PROVE  \A q : q = p => TypeOf(q)' \in {table'[entries'[p][1]][entries'[p][2]].type, ErrorType}
      BY <2>1, <2>2, <3>1, ReferencesKeepTheirType
    <3> QED BY <2>3, <3>1 DEF ReferencesHaveTheirEntrysType, References, EntryAt
  <2> QED BY <2>2, <2>3, <2>5, <2>6, <2>7 DEF EntriesInv, References
<1> QED BY <1>1, <1>2

\* ReferencesHaveTheirEntrysType, of all programs: what IdentifierNode::FindSymbolTableEntry
\* found is not changed by what SymbolTable::Insert is called with later.
THEOREM ReferencesKeepTheirEntrysType == Spec => []ReferencesHaveTheirEntrysType
<1>1. Init => WalkInv /\ ScopesInv /\ EntriesInv
  BY WalkInit, ScopesInit, EntriesInit
<1>2. WalkInv /\ ScopesInv /\ EntriesInv /\ [Next]_vars => (WalkInv /\ ScopesInv /\ EntriesInv)'
  BY WalkStep, ScopesStep, EntriesStep
<1>3. EntriesInv => ReferencesHaveTheirEntrysType
  BY DEF EntriesInv
<1> QED BY <1>1, <1>2, <1>3, PTL DEF Spec

-----------------------------------------------------------------------------
(* No branch of an if-statement is a declaration.                          *)

\* The node around a node.
LEMMA NodeOfParent ==
  ASSUME NEW root \in Program, NEW q \in NodesOf(root), q # <<>>
  PROVE  /\ Parent(q) \in NodesOf(root)
         /\ Last(q) \in 1..Len(NodeAt(root, Parent(q)).children)
         /\ Child(Parent(q), Last(q)) = q
         /\ NodeAt(root, q) = NodeAt(root, Parent(q)).children[Last(q)]
         /\ Shaped(NodeAt(root, Parent(q)))
<1> DEFINE r == Parent(q)
           i == Last(q)
<1>1. q \in Path
  BY DEF NodesOf
<1>2. r \in Path /\ i \in Positive /\ Child(r, i) = q
  BY <1>1, ParentPath
<1> HIDE DEF r, i
<1>3. r \in NodesOf(root) /\ i \in 1..Len(NodeAt(root, r).children)
  BY <1>2, NodesAndChildren
<1>4. NodeAt(root, q) = NodeAt(root, r).children[i]
  BY <1>2, NodeAtChild
<1>5. Shaped(NodeAt(root, r))
  BY <1>3, NodesAreWellFormed
<1> QED BY <1>2, <1>3, <1>4, <1>5 DEF r, i

\* What was logged stays logged.
LEMMA ErrorsStay ==
  ASSUME SetsTypes \/ Opens \/ DeclaresName \/ DeclaresUnknown \/ Resolves
  PROVE  errors \subseteq errors'
<1>1. ASSUME NEW p, NEW type, Declares(p, type) PROVE errors \subseteq errors'
  BY <1>1 DEF Declares
<1>2. DeclaresName \/ DeclaresUnknown => errors \subseteq errors'
  BY <1>1 DEF DeclaresName, DeclaresUnknown
<1>3. SetsTypes \/ Opens \/ Resolves => errors \subseteq errors'
  BY DEF SetsTypes, Opens, Resolves
<1> QED BY <1>2, <1>3

\* Nothing is left, and nothing open, when the walk begins.
LEMMA NothingAtTheBegin ==
  ASSUME NEW s \in Path
  PROVE  ~IsLeft(s, <<>>, "enter") /\ ~IsAround(s, <<>>, "enter")
<1>1. Len(<<>>) = 0 /\ Len(s) \in Nat
  BY EmptySeq, LenProperties DEF Path
<1>2. Len(s) <= 0 => s = <<>>
  BY <1>1, EmptySeq DEF Path
<1> QED BY <1>1, <1>2 DEF IsLeft, IsAround, Under, Precedes

\* Everything but the root is left when it ends.
LEMMA AllIsLeftAtTheEnd ==
  ASSUME NEW s \in Path, s # <<>>
  PROVE  IsLeft(s, <<>>, "leave")
<1>1. Len(<<>>) = 0 /\ Len(s) \in Nat
  BY EmptySeq, LenProperties DEF Path
<1> QED BY <1>1 DEF IsLeft, Under

LEMMA BranchesInit == Init => BranchesInv
BY DEF Init, BranchesInv

LEMMA BranchesStep == WalkInv /\ BranchesInv /\ [Next]_vars => BranchesInv'
<1> SUFFICES ASSUME WalkInv, BranchesInv, [Next]_vars PROVE BranchesInv'
  OBVIOUS
<1>1. CASE Crash \/ UNCHANGED vars
  <2>1. UNCHANGED <<tree, visitor, cursor, errors>>
    BY <1>1 DEF Crash, vars
  <2> QED BY <2>1 DEF BranchesInv, Kind, Children, here
<1>2. CASE Next /\ ~Crash
  <2>1. /\ Advance /\ RefusesBranch
        /\ SetsTypes \/ Opens \/ DeclaresName \/ DeclaresUnknown \/ Resolves
    BY <1>2, Effects
  <2>2. tree' = tree /\ (GoesOn \/ TurnsRound \/ Finishes)
    BY <2>1, AdvanceWalks
  <2>3. errors \subseteq errors'
    BY <2>1, ErrorsStay
  <2>4. \A q : Kind(q)' = Kind(q) /\ Children(q)' = Children(q)
    BY <2>2 DEF Kind, Children
  <2>5. SUFFICES ASSUME visitor' = "visitor", errors' = {}, NEW q \in NodesOf(tree), Kind(q) = "if",
                        IsLeft(q, here', cursor.moment')
                 PROVE  \A i \in 2..Len(Children(q)) : Kind(Child(q, i)) # "declaration"
    BY <2>2, <2>4 DEF BranchesInv
  <2>6. q \in Path /\ errors = {}
    BY <2>3, <2>5 DEF NodesOf
  <2>7. CASE visitor = "visitor" /\ IsLeft(q, here, cursor.moment)
    BY <2>5, <2>6, <2>7 DEF BranchesInv
  <2>8. CASE GoesOn
    <3>1. visitor = "visitor" /\ (IsLeft(q, here, cursor.moment) \/ (q = here /\ cursor.moment # "enter"))
      BY <2>5, <2>6, <2>8 DEF GoesOn, Moves
    <3>2. CASE q = here /\ cursor.moment # "enter"
      <4>1. cursor.moment = "leave"
        BY <2>5, <3>2 DEF WalkInv, LeafKinds, Moments
      <4> QED BY <2>1, <2>5, <3>1, <3>2, <4>1 DEF RefusesBranch
    <3> QED BY <2>7, <3>1, <3>2
  <2>9. CASE TurnsRound
    BY <2>5, <2>6, <2>9, NothingAtTheBegin DEF TurnsRound
  <2>10. CASE Finishes
    <3>1. here' = here /\ cursor' = cursor /\ visitor = "visitor"
      BY <2>10 DEF Finishes, here
    <3> QED BY <2>5, <2>7, <3>1
  <2> QED BY <2>2, <2>8, <2>9, <2>10
<1> QED BY <1>1, <1>2

\* UninitializedOnlyBehindLoops, of all programs: VisitLeave(IfStatementNode) refuses every
\* declaration that the parser lets be a branch.
LEMMA BranchesAreNoDeclarations ==
  ASSUME WalkInv, EntriesInv, BranchesInv
  PROVE  UninitializedOnlyBehindLoops
<1> SUFFICES ASSUME Accepted, NEW d \in Declarations, Kind(Parent(d)) = "declaration"
             PROVE  Kind(Parent(Parent(d))) \in {"block", "for", "while"}
  BY DEF UninitializedOnlyBehindLoops, RunsBefore
<1> DEFINE r == Parent(d)
           g == Parent(r)
<1>1. tree \in Program /\ d \in NodesOf(tree) /\ Kind(d) = "identifier"
  BY DEF WalkInv, EntriesInv, Declarations
<1>2. d # <<>>
  BY <1>1, RootIsProgram
<1>3. r \in NodesOf(tree)
  BY <1>1, <1>2, NodeOfParent
<1>4. r # <<>> /\ Kind(r) = "declaration"
  BY RootIsProgram
<1> HIDE DEF r
<1>5. /\ g \in NodesOf(tree) /\ Last(r) \in 1..Len(NodeAt(tree, g).children)
      /\ Child(g, Last(r)) = r
      /\ NodeAt(tree, r) = NodeAt(tree, g).children[Last(r)] /\ Shaped(NodeAt(tree, g))
  BY <1>1, <1>3, <1>4, NodeOfParent
<1> HIDE DEF g
<1>6. Kind(g) \in {"block", "while", "for"} \/ (Kind(g) = "if" /\ Last(r) > 1)
  BY <1>4, <1>5 DEF Shaped, Kind
<1>7. ~(Kind(g) = "if" /\ Last(r) > 1)
  <2> SUFFICES ASSUME Kind(g) = "if", Last(r) > 1 PROVE FALSE
    OBVIOUS
  <2>1. status = "done" /\ errors = {}
    BY DEF Accepted
  <2>2. visitor = "visitor" /\ here = <<>> /\ cursor.moment = "leave"
    BY <2>1 DEF WalkInv, here, Cursor
  <2>3. g # <<>> /\ g \in Path
    BY <1>5, RootIsProgram DEF NodesOf
  <2>4. \A i \in 2..Len(Children(g)) : Kind(Child(g, i)) # "declaration"
    BY <1>5, <2>1, <2>2, <2>3, AllIsLeftAtTheEnd DEF BranchesInv
  <2>5. Len(Children(g)) = Len(NodeAt(tree, g).children)
    <3>1. Len(NodeAt(tree, g).children) \in Nat
      BY <1>1, <1>5, NodesAreWellFormed
    <3> DEFINE n == Len(NodeAt(tree, g).children)
               c == Children(g)
    <3>2. c = [i \in 1..n |-> Child(g, i)]
      BY DEF Children
    <3> HIDE DEF n, c
    <3>3. c \in Seq({Child(g, i) : i \in 1..n})
      BY <3>1, <3>2, SeqDef DEF n
    <3> QED BY <3>1, <3>2, <3>3, LenProperties DEF n, c
  <2>6. Last(r) \in 2..Len(Children(g))
    BY <1>1, <1>5, <2>5, NodesAreWellFormed
  <2> QED BY <1>4, <1>5, <2>4, <2>6
<1> QED BY <1>6, <1>7 DEF g, r

THEOREM OnlyLoopsHideDeclarations == Spec => []UninitializedOnlyBehindLoops
<1>1. Init => WalkInv /\ ScopesInv /\ EntriesInv /\ BranchesInv
  BY WalkInit, ScopesInit, EntriesInit, BranchesInit
<1>2. WalkInv /\ ScopesInv /\ EntriesInv /\ BranchesInv /\ [Next]_vars
        => (WalkInv /\ ScopesInv /\ EntriesInv /\ BranchesInv)'
  BY WalkStep, ScopesStep, EntriesStep, BranchesStep
<1>3. WalkInv /\ EntriesInv /\ BranchesInv => UninitializedOnlyBehindLoops
  BY BranchesAreNoDeclarations
<1> QED BY <1>1, <1>2, <1>3, PTL DEF Spec

-----------------------------------------------------------------------------
(* Names mean the nearest declaration.                                     *)

\* Of two paths to a node the shorter is a beginning of the other.
LEMMA PrefixesOfOne ==
  ASSUME NEW p \in Path, NEW a \in Path, NEW b \in Path, Under(p, a), Under(p, b), Len(a) <= Len(b)
  PROVE  IsPrefix(a, b)
<1>1. Len(a) \in Nat /\ Len(b) \in Nat /\ Len(p) \in Nat
  BY LenProperties DEF Path
<1>2. Under(b, a)
  BY <1>1 DEF Under
<1> QED BY <1>2, BeforePrecedes

\* The scope of a declaration is the tree's.
LEMMA SameScopes ==
  ASSUME tree' = tree
  PROVE  \A d : ScopeOf(d)' = ScopeOf(d)
BY DEF ScopeOf, Kind

\* A declaration's scope, by the grammar, is the scope it is declared in.
LEMMA ScopeOfName ==
  ASSUME WalkInv, ScopesInv, cursor.moment = "leave", NEW i, IsNameIn(Kind(here), i)
  PROVE  ScopeOf(Child(here, i)) = LocalScope(Child(here, i))
<1> DEFINE d == Child(here, i)
           byGrammar == {q \in PathToRoot(d) : Kind(q) \in ScopeKinds}
           byTables  == PathToRoot(d) \cap DOMAIN table
<1>1. here \in Path /\ here \in NodesOf(tree) /\ tree \in Program
  BY DEF WalkInv, NodesOf
<1>2. i \in Positive
  BY DEF IsNameIn, Positive
<1>3. d \in Path /\ Kind(d) = "identifier"
  BY NameIsDeclared DEF NodesOf
<1>4. \A q : q \in PathToRoot(d) <=> q \in Path /\ (q = d \/ Under(here, q))
  <2>1. \A q \in Path : Under(d, q) <=> q = d \/ Under(here, q)
    BY <1>1, <1>2, AroundChild
  <2> HIDE DEF d
  <2> QED BY <1>3, <2>1, OnPathToRoot
<1> HIDE DEF d
<1>5. \A q \in byTables : q \in byGrammar
  BY DEF ScopesInv
<1>6. ASSUME NEW q \in byGrammar PROVE q \in byTables
  <2>1. q \in Path /\ Under(here, q) /\ Kind(q) \in ScopeKinds /\ q \in PathToRoot(d)
    BY <1>3, <1>4, <1>6 DEF ScopeKinds
  <2>2. CASE visitor = "visitor"
    <3>1. IsAround(q, here, cursor.moment)
      BY <2>1 DEF IsAround
    <3> QED BY <2>1, <2>2, <3>1 DEF ScopesInv
  <2>3. CASE visitor # "visitor"
    <3>1. Kind(here) = "function"
      BY <2>3 DEF IsNameIn
    <3>2. here # <<>>
      BY <3>1, RootIsProgram
    <3> DEFINE r == Parent(here)
               j == Last(here)
    <3>3. r \in NodesOf(tree) /\ r \in Path /\ j \in Positive /\ Child(r, j) = here /\ Kind(r) = "program"
      <4>1. /\ r \in NodesOf(tree) /\ j \in 1..Len(NodeAt(tree, r).children) /\ Child(r, j) = here
            /\ NodeAt(tree, here) = NodeAt(tree, r).children[j] /\ Shaped(NodeAt(tree, r))
        BY <1>1, <3>2, NodeOfParent
      <4>2. j \in Positive
        BY <1>1, <3>2, ParentPath
      <4> HIDE DEF r, j
      <4>3. Kind(r) = "program"
        BY <3>1, <4>1 DEF Shaped, Kind
      <4> QED BY <4>1, <4>2, <4>3 DEF NodesOf
    <3> HIDE DEF r, j
    <3>4. r = <<>>
      BY <3>3, RootIsProgram
    <3>5. q = here \/ Under(r, q)
      <4>1. Under(Child(r, j), q) <=> q = Child(r, j) \/ Under(r, q)
        BY <2>1, <3>3, AroundChild
      <4> QED BY <2>1, <3>3, <4>1
    <3>6. q # here
      BY <2>1, <3>1 DEF ScopeKinds
    <3>7. q = <<>>
      <4>1. Len(<<>>) = 0 /\ Len(q) \in Nat
        BY <2>1, EmptySeq, LenProperties DEF Path
      <4>2. Len(q) = 0 => q = <<>>
        BY <2>1, EmptySeq DEF Path
      <4> QED BY <3>4, <3>5, <3>6, <4>1, <4>2 DEF Under
    <3> QED BY <2>1, <3>7 DEF ScopesInv
  <2> QED BY <2>2, <2>3
<1>7. byGrammar = byTables
  BY <1>5, <1>6
<1> QED BY <1>7 DEF ScopeOf, LocalScope, ScopeKinds, d

\* What is found for a name is what the nearest declaration declares.
LEMMA FoundIsNearest ==
  ASSUME WalkInv, ScopesInv, EntriesInv, NamesInv, Resolves, errors = {}
  PROVE  \E d \in Declarations :
           /\ InView(d, here)
           /\ FindSymbolTableEntry(here) = <<ScopeOf(d), Token(d)>>
           /\ \A other \in Declarations : InView(other, here) => IsPrefix(ScopeOf(other), ScopeOf(d))
<1>1. here \in Path /\ cursor.moment = "visit"
  BY DEF WalkInv, NodesOf, Resolves, IsUse
<1>2. PICK s \in DOMAIN table :
        /\ FindSymbolTableEntry(here) = <<s, Token(here)>>
        /\ Under(here, s) /\ Token(here) \in DOMAIN table[s]
        /\ \A t \in DOMAIN table :
             Under(here, t) /\ Token(here) \in DOMAIN table[t] => Len(t) <= Len(s)
  <2>1. FindSymbolTableEntry(here) # NoEntry
    BY DEF Resolves
  <2> QED BY <1>1, <2>1, FoundIsThere
<1>3. PICK d \in Declarations : ScopeOf(d) = s /\ Token(d) = Token(here)
  BY <1>2 DEF NamesInv, TablesInv
<1>4. \A t \in DOMAIN table : t \in Path
  BY DEF ScopesInv, NodesOf
<1>5. \A e \in Declarations : e \in Path /\ e # <<>> /\ Parent(e) \in Path
  <2> SUFFICES ASSUME NEW e \in Declarations PROVE e \in Path /\ e # <<>> /\ Parent(e) \in Path
    OBVIOUS
  <2>1. e \in Path /\ e # <<>>
    BY RootIsProgram DEF Declarations, EntriesInv, NodesOf
  <2> QED BY <2>1, ParentPath
<1>6. InView(d, here)
  <2>1. IsPrefix(s, here)
    BY <1>1, <1>2, <1>4, BeforePrecedes
  <2>2. Kind(Parent(d)) = "function" \/ Precedes(Parent(d), here)
    BY <1>1 DEF NamesInv, DeclaredInv, IsLeft
  <2>3. Precedes(Parent(d), here) => Before(Parent(d), here)
    BY <1>1, <1>5, BeforePrecedes
  <2> QED BY <1>3, <2>1, <2>2, <2>3 DEF InView
<1>7. ASSUME NEW other \in Declarations, InView(other, here)
      PROVE  IsPrefix(ScopeOf(other), s)
  <2> DEFINE t == ScopeOf(other)
  <2>1. t \in DOMAIN table /\ Token(here) \in DOMAIN table[t]
    BY <1>7 DEF NamesInv, TablesInv, InView
  <2>2. IsPrefix(t, here)
    BY <1>7 DEF InView
  <2> HIDE DEF t
  <2>3. Under(here, t)
    BY <1>1, <1>4, <2>1, <2>2, BeforePrecedes
  <2>4. Len(t) <= Len(s)
    BY <1>2, <2>1, <2>3
  <2>5. IsPrefix(t, s)
    BY <1>1, <1>2, <1>4, <2>1, <2>3, <2>4, PrefixesOfOne
  <2> QED BY <2>5 DEF t
<1> QED BY <1>2, <1>3, <1>6, <1>7

\* What is in view is the tree's.
LEMMA SameViews ==
  ASSUME tree' = tree
  PROVE  \A d, p : InView(d, p)' <=> InView(d, p)
<1>1. \A d : ScopeOf(d)' = ScopeOf(d) /\ Token(d)' = Token(d) /\ Kind(d)' = Kind(d)
  BY SameScopes, SameDeclarations
<1> QED BY <1>1 DEF InView

\* The names that are declared and used behind an entry.
LEMMA NamesWith ==
  ASSUME tree' = tree, NEW q, NEW e, entries' = With(entries, q, e)
  PROVE  /\ IsDeclaration(q) => Declarations' = Declarations \cup {q} /\ References' = References
         /\ ~IsDeclaration(q) => Declarations' = Declarations /\ References' = References \cup {q}
         /\ entries'[q] = e
         /\ \A p \in DOMAIN entries : p # q => entries'[p] = entries[p]
<1>1. \A p : IsDeclaration(p)' <=> IsDeclaration(p)
  BY SameDeclarations
<1>2. /\ DOMAIN entries' = DOMAIN entries \cup {q}
      /\ entries'[q] = e
      /\ \A p \in DOMAIN entries : p # q => entries'[p] = entries[p]
  BY DEF With
<1> QED BY <1>1, <1>2 DEF Declarations, References

LEMMA NamesUnchanged ==
  ASSUME tree' = tree, entries' = entries
  PROVE  Declarations' = Declarations /\ References' = References
<1>1. \A p : IsDeclaration(p)' <=> IsDeclaration(p)
  BY SameDeclarations
<1> QED BY <1>1 DEF Declarations, References

\* What a step does to the names that are declared and used.
LEMMA NamesAfter ==
  ASSUME WalkInv, tree' = tree,
         SetsTypes \/ Opens \/ DeclaresName \/ DeclaresUnknown \/ Resolves
  PROVE  \/ SetsTypes /\ Declarations' = Declarations /\ References' = References
         \/ Opens /\ Declarations' = Declarations /\ References' = References
         \/ \E i, type :
              /\ cursor.moment = "leave"
              /\ IsNameIn(Kind(here), i) /\ Declares(Child(here, i), type)
              /\ Declarations' = Declarations \cup {Child(here, i)} /\ References' = References
         \/ errors' # {} /\ Declarations' = Declarations
         \/ Resolves /\ Declarations' = Declarations /\ References' = References \cup {here}
<1>1. CASE SetsTypes
  BY <1>1, NamesUnchanged DEF SetsTypes
<1>2. CASE Opens
  BY <1>2, NamesUnchanged DEF Opens
<1>3. CASE DeclaresName
  <2>1. PICK i, type : IsNameIn(Kind(here), i) /\ Declares(Child(here, i), type)
    BY <1>3 DEF DeclaresName
  <2> DEFINE d == Child(here, i)
  <2>2. IsDeclaration(d) /\ \E e : entries' = With(entries, d, e)
    BY <2>1, NameIsDeclared DEF Declares
  <2>3. Declarations' = Declarations \cup {d} /\ References' = References
    <3> HIDE DEF d
    <3> QED BY <2>2, NamesWith
  <2>4. cursor.moment = "leave"
    BY <1>3 DEF DeclaresName
  <2> QED BY <2>1, <2>3, <2>4
<1>4. CASE DeclaresUnknown
  <2>1. errors' # {} /\ ~IsDeclaration(here) /\ \E e : entries' = With(entries, here, e)
    BY <1>4 DEF DeclaresUnknown, Declares, IsUse
  <2> QED BY <2>1, NamesWith
<1>5. CASE Resolves
  <2>1. ~IsDeclaration(here) /\ \E e : entries' = With(entries, here, e)
    BY <1>5 DEF Resolves, IsUse
  <2> QED BY <1>5, <2>1, NamesWith
<1> QED BY <1>1, <1>2, <1>3, <1>4, <1>5

LEMMA DeclaredStep ==
  ASSUME WalkInv, ScopesInv, EntriesInv, DeclaredInv, tree' = tree,
         GoesOn \/ TurnsRound \/ Finishes,
         SetsTypes \/ Opens \/ DeclaresName \/ DeclaresUnknown \/ Resolves
  PROVE  DeclaredInv'
<1>1. \A d : Kind(d)' = Kind(d)
  BY SameDeclarations
<1>2. SUFFICES ASSUME NEW d \in Declarations', Kind(Parent(d)) # "function"
               PROVE  visitor' = "visitor" /\ IsLeft(Parent(d), here', cursor.moment')
  BY <1>1 DEF DeclaredInv
<1>3. d \in Declarations \/ (cursor.moment = "leave" /\ \E i : IsNameIn(Kind(here), i) /\ d = Child(here, i))
  BY <1>2, NamesAfter
<1>4. \/ visitor = "visitor" /\ Parent(d) \in Path /\ IsLeft(Parent(d), here, cursor.moment)
      \/ visitor = "visitor" /\ Parent(d) = here /\ here # <<>> /\ cursor.moment = "leave"
  <2>1. CASE d \in Declarations
    <3>1. d \in Path /\ d # <<>>
      BY <2>1, RootIsProgram DEF Declarations, EntriesInv, NodesOf
    <3>2. Parent(d) \in Path
      BY <3>1, ParentPath
    <3> QED BY <1>2, <2>1, <3>2 DEF DeclaredInv
  <2>2. CASE cursor.moment = "leave" /\ \E i : IsNameIn(Kind(here), i) /\ d = Child(here, i)
    <3>1. PICK i : IsNameIn(Kind(here), i) /\ d = Child(here, i)
      BY <2>2
    <3>2. Parent(d) = here
      BY <3>1, NameIsDeclared
    <3>3. visitor = "visitor" /\ Kind(here) # "program"
      BY <1>2, <3>1, <3>2 DEF IsNameIn
    <3> QED BY <2>2, <3>2, <3>3, RootIsProgram
  <2> QED BY <1>3, <2>1, <2>2
<1>5. CASE GoesOn
  BY <1>4, <1>5 DEF GoesOn, Moves, WalkInv, NodesOf
<1>6. CASE Finishes
  <2>1. here' = here /\ here = <<>> /\ cursor' = cursor /\ visitor' = visitor
    BY <1>6 DEF Finishes, here, Cursor
  <2> QED BY <1>4, <2>1
<1>7. ~TurnsRound
  BY <1>4 DEF TurnsRound
<1> QED BY <1>5, <1>6, <1>7

LEMMA TablesStep ==
  ASSUME WalkInv, ScopesInv, EntriesInv, TablesInv, tree' = tree,
         SetsTypes \/ Opens \/ DeclaresName \/ DeclaresUnknown \/ Resolves
  PROVE  TablesInv'
<1>1. \A d : ScopeOf(d)' = ScopeOf(d) /\ Token(d)' = Token(d)
  BY SameScopes, SameDeclarations
<1>2. errors \subseteq errors'
  BY ErrorsStay
<1>3. SUFFICES ASSUME errors' = {}
               PROVE  /\ \A d \in Declarations' :
                           /\ ScopeOf(d) \in DOMAIN table' /\ Token(d) \in DOMAIN table'[ScopeOf(d)]
                           /\ entries'[d] = <<ScopeOf(d), Token(d)>>
                      /\ \A s \in DOMAIN table' : \A name \in DOMAIN table'[s] :
                           \E d \in Declarations' : ScopeOf(d) = s /\ Token(d) = name
  BY <1>1 DEF TablesInv
<1>4. /\ \A d \in Declarations :
           /\ ScopeOf(d) \in DOMAIN table /\ Token(d) \in DOMAIN table[ScopeOf(d)]
           /\ entries[d] = <<ScopeOf(d), Token(d)>>
      /\ \A s \in DOMAIN table : \A name \in DOMAIN table[s] :
           \E d \in Declarations : ScopeOf(d) = s /\ Token(d) = name
  BY <1>2, <1>3 DEF TablesInv
<1>5. \A d \in Declarations : ScopeOf(d) \in DOMAIN table' /\ Token(d) \in DOMAIN table'[ScopeOf(d)]
  BY <1>4, EntriesAreKept
<1>6. CASE SetsTypes /\ Declarations' = Declarations
  BY <1>4, <1>6 DEF SetsTypes
<1>7. CASE Opens /\ Declarations' = Declarations
  <2>1. entries' = entries /\ DOMAIN table' = DOMAIN table \cup {here}
        /\ \A s \in DOMAIN table' : table'[s] = IF s = here THEN <<>> ELSE table[s]
    BY <1>7 DEF Opens, With
  <2>2. DOMAIN <<>> = {}
    OBVIOUS
  <2>3. ASSUME NEW s \in DOMAIN table', NEW name \in DOMAIN table'[s]
        PROVE  s \in DOMAIN table /\ name \in DOMAIN table[s]
    BY <2>1, <2>2, <2>3
  <2> QED BY <1>4, <1>5, <1>7, <2>1, <2>3
<1>8. CASE Resolves /\ Declarations' = Declarations
  <2>1. table' = table /\ \E e : entries' = With(entries, here, e)
    BY <1>8 DEF Resolves
  <2>2. \A d \in Declarations : d # here /\ d \in DOMAIN entries
    BY <1>8 DEF Resolves, IsUse, Declarations
  <2>3. \A d \in Declarations : entries'[d] = entries[d]
    BY <2>1, <2>2 DEF With
  <2> QED BY <1>4, <1>8, <2>1, <2>3
<1>9. ASSUME NEW i, NEW type, cursor.moment = "leave",
             IsNameIn(Kind(here), i), Declares(Child(here, i), type),
             Declarations' = Declarations \cup {Child(here, i)}
      PROVE  /\ \A d \in Declarations' :
                  /\ ScopeOf(d) \in DOMAIN table' /\ Token(d) \in DOMAIN table'[ScopeOf(d)]
                  /\ entries'[d] = <<ScopeOf(d), Token(d)>>
             /\ \A s \in DOMAIN table' : \A name \in DOMAIN table'[s] :
                  \E d \in Declarations' : ScopeOf(d) = s /\ Token(d) = name
  <2> DEFINE q == Child(here, i)
             scope == LocalScope(q)
  <2>1. q \in Path
    BY <1>9, NameIsDeclared DEF NodesOf
  <2>2. ScopeOf(q) = scope
    BY <1>9, ScopeOfName
  <2>3. /\ DOMAIN table' = DOMAIN table /\ scope \in DOMAIN table
        /\ \A s \in DOMAIN table : s # scope => table'[s] = table[s]
        /\ DOMAIN table'[scope] = DOMAIN table[scope] \cup {Token(q)}
        /\ entries' = With(entries, q, <<scope, Token(q)>>)
    BY <1>3, <1>9, <2>1, DeclaresInScope
  <2>4. Declarations' = Declarations \cup {q}
    BY <1>9
  <2> HIDE DEF q, scope
  <2>5. entries'[q] = <<scope, Token(q)>> /\ \A d \in DOMAIN entries : d # q => entries'[d] = entries[d]
    BY <2>3 DEF With
  <2>6. ASSUME NEW d \in Declarations'
        PROVE  /\ ScopeOf(d) \in DOMAIN table' /\ Token(d) \in DOMAIN table'[ScopeOf(d)]
               /\ entries'[d] = <<ScopeOf(d), Token(d)>>
    <3>1. CASE d = q
      BY <2>2, <2>3, <2>5, <3>1
    <3>2. CASE d # q
      <4>1. d \in Declarations /\ d \in DOMAIN entries
        BY <2>4, <3>2 DEF Declarations
      <4> QED BY <1>4, <1>5, <2>5, <3>2, <4>1
    <3> QED BY <3>1, <3>2
  <2>7. ASSUME NEW s \in DOMAIN table', NEW name \in DOMAIN table'[s]
        PROVE  \E d \in Declarations' : ScopeOf(d) = s /\ Token(d) = name
    <3>1. CASE name \in DOMAIN table[s]
      BY <1>4, <2>3, <2>4, <3>1
    <3>2. CASE name \notin DOMAIN table[s]
      <4>1. s = scope /\ name = Token(q)
        BY <2>3, <3>2
      <4> QED BY <2>2, <2>4, <4>1
    <3> QED BY <3>1, <3>2
  <2> QED BY <2>6, <2>7
<1> QED BY <1>3, <1>6, <1>7, <1>8, <1>9, NamesAfter

\* A name that was used is before everything that is declared behind it.
LEMMA NewDeclarationIsNotInView ==
  ASSUME WalkInv, EntriesInv, NEW p \in References, cursor.moment = "leave",
         NEW i, IsNameIn(Kind(here), i)
  PROVE  ~InView(Child(here, i), p)
<1>1. /\ visitor = "visitor" /\ IsLeft(p, here, "leave")
      /\ p \in Path /\ here \in Path
  BY DEF EntriesInv, References, WalkInv, NodesOf
<1>2. Parent(Child(here, i)) = here
  BY NameIsDeclared
<1>3. Kind(here) # "function"
  BY <1>1 DEF IsNameIn
<1>4. ~Precedes(here, p)
  BY <1>1, PrecedesExcludes DEF IsLeft
<1>5. ~Before(here, p)
  BY <1>1, <1>4, BeforePrecedes
<1> QED BY <1>2, <1>3, <1>5 DEF InView

LEMMA NearestStep ==
  ASSUME WalkInv, ScopesInv, EntriesInv, NamesInv, tree' = tree, errors' = {},
         SetsTypes \/ Opens \/ DeclaresName \/ DeclaresUnknown \/ Resolves
  PROVE  (\A p \in References : \E d \in Declarations : IsNearest(d, p))'
<1>1. /\ \A d : ScopeOf(d)' = ScopeOf(d) /\ Token(d)' = Token(d)
      /\ \A d, p : InView(d, p)' <=> InView(d, p)
  BY SameScopes, SameDeclarations, SameViews
<1>2. errors = {}
  BY ErrorsStay
<1>3. SUFFICES ASSUME NEW p \in References'
               PROVE  \E d \in Declarations' :
                        /\ InView(d, p)
                        /\ entries'[p] = <<ScopeOf(d), Token(d)>>
                        /\ \A other \in Declarations' :
                             InView(other, p) => IsPrefix(ScopeOf(other), ScopeOf(d))
  BY <1>1 DEF IsNearest
<1>4. \A q \in References : \E d \in Declarations :
        /\ InView(d, q)
        /\ entries[q] = <<ScopeOf(d), Token(d)>>
        /\ \A other \in Declarations : InView(other, q) => IsPrefix(ScopeOf(other), ScopeOf(d))
  BY <1>2 DEF NamesInv, IsNearest
<1>5. CASE SetsTypes /\ Declarations' = Declarations /\ References' = References
  BY <1>4, <1>5 DEF SetsTypes
<1>6. CASE Opens /\ Declarations' = Declarations /\ References' = References
  BY <1>4, <1>6 DEF Opens
<1>7. CASE Resolves /\ Declarations' = Declarations /\ References' = References \cup {here}
  <2> DEFINE e == FindSymbolTableEntry(here)
  <2>1. entries' = With(entries, here, e)
    BY <1>7 DEF Resolves
  <2>2. CASE p = here
    <3>1. entries'[p] = e
      BY <2>1, <2>2 DEF With
    <3>2. \E d \in Declarations :
            /\ InView(d, here)
            /\ e = <<ScopeOf(d), Token(d)>>
            /\ \A other \in Declarations : InView(other, here) => IsPrefix(ScopeOf(other), ScopeOf(d))
      BY <1>2, <1>7, FoundIsNearest
    <3> HIDE DEF e
    <3> QED BY <1>7, <2>2, <3>1, <3>2
  <2>3. CASE p # here
    <3>1. p \in References /\ p \in DOMAIN entries
      BY <1>7, <2>3 DEF References
    <3>2. entries'[p] = entries[p]
      BY <2>1, <2>3, <3>1 DEF With
    <3> QED BY <1>4, <1>7, <3>1, <3>2
  <2> QED BY <2>2, <2>3
<1>8. ASSUME NEW i, NEW type, cursor.moment = "leave",
             IsNameIn(Kind(here), i), Declares(Child(here, i), type),
             Declarations' = Declarations \cup {Child(here, i)}, References' = References
      PROVE  \E d \in Declarations' :
               /\ InView(d, p)
               /\ entries'[p] = <<ScopeOf(d), Token(d)>>
               /\ \A other \in Declarations' : InView(other, p) => IsPrefix(ScopeOf(other), ScopeOf(d))
  <2> DEFINE q == Child(here, i)
  <2>1. p \in References /\ p \in DOMAIN entries /\ ~IsDeclaration(p)
    BY <1>8 DEF References
  <2>2. IsDeclaration(q) /\ Declarations' = Declarations \cup {q} /\ ~InView(q, p)
    BY <1>8, <2>1, NameIsDeclared, NewDeclarationIsNotInView
  <2>3. \E e : entries' = With(entries, q, e)
    BY <1>8 DEF Declares
  <2> HIDE DEF q
  <2>4. entries'[p] = entries[p]
    BY <2>1, <2>2, <2>3 DEF With
  <2> QED BY <1>4, <2>1, <2>2, <2>4
<1> QED BY <1>5, <1>6, <1>7, <1>8, NamesAfter

LEMMA NamesInit == Init => NamesInv
<1> SUFFICES ASSUME Init PROVE NamesInv
  OBVIOUS
<1>1. DOMAIN entries = {} /\ DOMAIN table = {}
  BY DEF Init
<1> QED BY <1>1 DEF NamesInv, DeclaredInv, TablesInv, Declarations, References

LEMMA NamesStep == WalkInv /\ ScopesInv /\ EntriesInv /\ NamesInv /\ [Next]_vars => NamesInv'
<1> SUFFICES ASSUME WalkInv, ScopesInv, EntriesInv, NamesInv, [Next]_vars PROVE NamesInv'
  OBVIOUS
<1>1. CASE Crash \/ UNCHANGED vars
  <2>1. UNCHANGED <<tree, visitor, cursor, table, entries, errors>>
    BY <1>1 DEF Crash, vars
  <2>2. here' = here /\ Declarations' = Declarations /\ References' = References
    BY <2>1, NamesUnchanged DEF here
  <2>3. /\ \A d : ScopeOf(d)' = ScopeOf(d) /\ Token(d)' = Token(d) /\ Kind(d)' = Kind(d)
        /\ \A d, p : InView(d, p)' <=> InView(d, p)
    BY <2>1, SameScopes, SameDeclarations, SameViews
  <2>4. DeclaredInv'
    BY <2>1, <2>2, <2>3 DEF NamesInv, DeclaredInv
  <2>5. TablesInv'
    BY <2>1, <2>2, <2>3 DEF NamesInv, TablesInv
  <2>6. \A d, p : IsNearest(d, p)' <=> IsNearest(d, p)
    BY <2>1, <2>2, <2>3 DEF IsNearest
  <2> QED BY <2>1, <2>2, <2>4, <2>5, <2>6 DEF NamesInv
<1>2. CASE Next /\ ~Crash
  <2>1. /\ Advance
        /\ SetsTypes \/ Opens \/ DeclaresName \/ DeclaresUnknown \/ Resolves
    BY <1>2, Effects
  <2>2. tree' = tree /\ (GoesOn \/ TurnsRound \/ Finishes)
    BY <2>1, AdvanceWalks
  <2>3. DeclaredInv'
    BY <2>1, <2>2, DeclaredStep DEF NamesInv
  <2>4. TablesInv'
    BY <2>1, <2>2, TablesStep DEF NamesInv
  <2>5. errors' = {} => (\A p \in References : \E d \in Declarations : IsNearest(d, p))'
    BY <2>1, <2>2, NearestStep
  <2> QED BY <2>3, <2>4, <2>5 DEF NamesInv
<1> QED BY <1>1, <1>2

\* NamesMeanTheNearestDeclaration, of all programs: looking a name up in the symbol tables
\* that are there when it is visited finds what the text says it means.
THEOREM NamesMeanWhatTheTextSays == Spec => []NamesMeanTheNearestDeclaration
<1>1. Init => WalkInv /\ ScopesInv /\ EntriesInv /\ NamesInv
  BY WalkInit, ScopesInit, EntriesInit, NamesInit
<1>2. WalkInv /\ ScopesInv /\ EntriesInv /\ NamesInv /\ [Next]_vars
        => (WalkInv /\ ScopesInv /\ EntriesInv /\ NamesInv)'
  BY WalkStep, ScopesStep, EntriesStep, NamesStep
<1>3. NamesInv => NamesMeanTheNearestDeclaration
  BY DEF NamesInv, NamesMeanTheNearestDeclaration, Accepted, IsNearest
<1> QED BY <1>1, <1>2, <1>3, PTL DEF Spec

-----------------------------------------------------------------------------
(* Types without gaps.                                                     *)

\* The types of values that are no arrays and no lambdas.
LEMMA KindsOfTypes ==
  ASSUME NEW t, NEW u
  PROVE  /\ Base(t) # Null /\ ~IsArray(Base(t)) /\ ~IsLambda(Base(t)) /\ ~IsArbitrary(Base(t))
         /\ ArrayOf(t) # Null /\ IsArray(ArrayOf(t)) /\ ~IsLambda(ArrayOf(t)) /\ ~IsArbitrary(ArrayOf(t))
         /\ ArrayOf(t).array = t
         /\ LambdaOf(u, t) # Null /\ IsLambda(LambdaOf(u, t)) /\ ~IsArray(LambdaOf(u, t))
         /\ LambdaOf(u, t).result = t
         /\ IsArbitrary(Arbitrary(t)) /\ Arbitrary(t).arbitrary = t /\ Arbitrary(t) # Null
         /\ ~IsArray(Null) /\ ~IsLambda(Null)
<1>1. DOMAIN Base(t) = {"base"} /\ DOMAIN ArrayOf(t) = {"array"} /\ DOMAIN Null = {"null"}
      /\ DOMAIN LambdaOf(u, t) = {"parameters", "result"} /\ DOMAIN Arbitrary(t) = {"arbitrary"}
  BY DEF Base, ArrayOf, Null, LambdaOf, Arbitrary
<1>2. ArrayOf(t).array = t /\ LambdaOf(u, t).result = t /\ Arbitrary(t).arbitrary = t
  BY DEF ArrayOf, LambdaOf, Arbitrary
<1>3. Base(t) # Null /\ ArrayOf(t) # Null /\ LambdaOf(u, t) # Null /\ Arbitrary(t) # Null
  <2>1. {"base"} # {"null"} /\ {"array"} # {"null"} /\ {"parameters", "result"} # {"null"}
        /\ {"arbitrary"} # {"null"}
    OBVIOUS
  <2> QED BY <1>1, <2>1
<1> QED BY <1>1, <1>2, <1>3 DEF IsArray, IsLambda, IsArbitrary

LEMMA PartsOfComplete ==
  ASSUME NEW t, Complete(t)
  PROVE  /\ t # Null /\ t # ErrorType
         /\ t \in NamedTypes \/ IsArray(t) \/ IsLambda(t)
         /\ IsArray(t) => Complete(t.array)
         /\ IsLambda(t) => Complete(t.result)
<1>1. /\ t \in NamedTypes \/ IsArray(t) \/ IsLambda(t)
      /\ IsArray(t) => Complete(t.array)
      /\ IsLambda(t) => Complete(t.result)
  BY DEF Complete, IsClosed
<1>2. \A b \in BaseTypes : Base(b) # Null /\ Base(b) # ErrorType
  <2>1. \A b : Base(b) # Null /\ Base(b).base = b
    BY KindsOfTypes DEF Base
  <2> QED BY <2>1 DEF ErrorType, BaseTypes
<1>3. ~IsArray(Null) /\ ~IsLambda(Null) /\ ~IsArray(ErrorType) /\ ~IsLambda(ErrorType)
  BY KindsOfTypes DEF ErrorType
<1> QED BY <1>1, <1>2, <1>3 DEF NamedTypes

LEMMA BaseIsComplete ==
  ASSUME NEW b \in BaseTypes
  PROVE  Complete(Base(b))
<1>1. IsClosed({Base(b)})
  BY KindsOfTypes DEF IsClosed, NamedTypes
<1> QED BY <1>1 DEF Complete

LEMMA ArrayIsComplete ==
  ASSUME NEW t, Complete(t)
  PROVE  Complete(ArrayOf(t))
<1>1. PICK S : t \in S /\ IsClosed(S)
  BY DEF Complete
<1>2. IsClosed(S \cup {ArrayOf(t)})
  BY <1>1, KindsOfTypes DEF IsClosed
<1> QED BY <1>2 DEF Complete

LEMMA LambdaIsComplete ==
  ASSUME NEW ps, NEW t, Complete(t)
  PROVE  Complete(LambdaOf(ps, t))
<1>1. PICK S : t \in S /\ IsClosed(S)
  BY DEF Complete
<1>2. IsClosed(S \cup {LambdaOf(ps, t)})
  BY <1>1, KindsOfTypes DEF IsClosed
<1> QED BY <1>2 DEF Complete

\* The types of nodes that have one.
LEMMA NamedTypesAreComplete ==
  \A t \in Plain : Complete(t) /\ \E name : t = Base(name)
BY BaseIsComplete DEF Plain, VoidType, IntegerType, BooleanType, CharacterType, FloatType,
                      RationalType, BaseTypes

-----------------------------------------------------------------------------
(* Signatures.                                                             *)

LEMMA BindingsOKBind ==
  ASSUME NEW b, BindingsOK(b), NEW v \in {"T", "E"}, NEW t, t = Null \/ Complete(t)
  PROVE  BindingsOK([b EXCEPT ![v] = t]) /\ [b EXCEPT ![v] = t][v] = t
BY DEF BindingsOK

\* A comparison keeps the bindings, and binds the elements of an array.
LEMMA EquivalenceBinds ==
  ASSUME NEW input \in InputTypes, NEW type, Complete(type), NEW b, BindingsOK(b)
  PROVE  /\ BindingsOK(EquivalentTo(input, type, b).bindings)
         /\ input = ArrayOf(E) /\ EquivalentTo(input, type, b).accepts =>
              IsArray(type) /\ EquivalentTo(input, type, b).bindings["E"] = type.array
         /\ input \in Plain => /\ EquivalentTo(input, type, b).bindings = b
                               /\ EquivalentTo(input, type, b).accepts => input = type
<1> DEFINE Outcome(yes, c) == [accepts |-> yes, bindings |-> c]
           Variable(v, t) == IF b[v] = Null THEN Outcome(TRUE, [b EXCEPT ![v] = t])
                             ELSE Outcome(b[v] = t, b)
           r == EquivalentTo(input, type, b)
<1>1. r = IF IsArbitrary(input) THEN Variable(input.arbitrary, type)
          ELSE IF IsArray(input) /\ IsArbitrary(Subtype(input)) /\ IsArray(type)
          THEN Variable(input.array.arbitrary, type.array)
          ELSE Outcome(input = type, b)
  BY DEF EquivalentTo
<1>2. ASSUME NEW v \in {"T", "E"}, NEW t, Complete(t)
      PROVE  /\ BindingsOK(Variable(v, t).bindings)
             /\ Variable(v, t).accepts => Variable(v, t).bindings[v] = t
  <2>1. CASE b[v] = Null
    <3>1. Variable(v, t).bindings = [b EXCEPT ![v] = t]
      BY <2>1
    <3> QED BY <1>2, <3>1, BindingsOKBind
  <2>2. CASE b[v] # Null
    <3>1. Variable(v, t).bindings = b /\ Variable(v, t).accepts = (b[v] = t)
      BY <2>2
    <3> QED BY <2>2, <3>1
  <2> QED BY <2>1, <2>2
<1>3. \A yes : Outcome(yes, b).bindings = b /\ Outcome(yes, b).accepts = yes
  OBVIOUS
<1> HIDE DEF Outcome, Variable, r
<1>4. CASE input \in Plain
  <2>1. PICK name : input = Base(name)
    BY <1>4 DEF Plain, VoidType, BooleanType, CharacterType, IntegerType, FloatType, RationalType
  <2>2. ~IsArbitrary(input) /\ ~IsArray(input) /\ input # ArrayOf(E)
    <3>1. ~IsArbitrary(Base(name)) /\ ~IsArray(Base(name)) /\ IsArray(ArrayOf(E))
      BY KindsOfTypes
    <3> QED BY <2>1, <3>1
  <2>3. r = Outcome(input = type, b)
    BY <1>1, <2>2
  <2>4. r.bindings = b /\ r.accepts = (input = type)
    BY <1>3, <2>3
  <2> QED BY <2>2, <2>4 DEF r
<1>5. CASE input = T
  <2>1. IsArbitrary(input) /\ input.arbitrary = "T" /\ ~IsArray(input)
    <3>1. DOMAIN Arbitrary("T") = {"arbitrary"}
      BY DEF Arbitrary
    <3> QED BY <1>5, <3>1, KindsOfTypes DEF T, IsArray
  <2>2. r = Variable("T", type)
    BY <1>1, <2>1
  <2>3. BindingsOK(r.bindings)
    BY <1>2, <2>2
  <2>4. input # ArrayOf(E) /\ input \notin Plain
    <3>1. IsArray(ArrayOf(E)) /\ \A name : ~IsArbitrary(Base(name))
      BY KindsOfTypes
    <3> QED BY <2>1, <3>1 DEF Plain, VoidType, BooleanType, CharacterType, IntegerType, FloatType,
                              RationalType
  <2> QED BY <2>3, <2>4 DEF r
<1>6. CASE input = ArrayOf(E)
  <2>1. ~IsArbitrary(input) /\ IsArray(input) /\ input.array = E /\ Subtype(input) = E
        /\ IsArbitrary(E) /\ E.arbitrary = "E"
    BY <1>6, KindsOfTypes DEF Subtype, E
  <2>2. input \notin Plain
    <3>1. \A name : ~IsArray(Base(name))
      BY KindsOfTypes
    <3> QED BY <2>1, <3>1 DEF Plain, VoidType, BooleanType, CharacterType, IntegerType, FloatType,
                              RationalType
  <2>3. CASE IsArray(type)
    <3>1. r = Variable("E", type.array)
      BY <1>1, <2>1, <2>3
    <3>2. Complete(type.array)
      BY <2>3, PartsOfComplete
    <3> QED BY <1>2, <2>2, <2>3, <3>1, <3>2 DEF r
  <2>4. CASE ~IsArray(type)
    <3>1. r = Outcome(input = type, b)
      BY <1>1, <2>1, <2>4
    <3>2. input # type
      BY <2>1, <2>4
    <3>3. r.bindings = b /\ r.accepts = (input = type)
      BY <1>3, <3>1
    <3> QED BY <2>2, <3>2, <3>3 DEF r
  <2> QED BY <2>3, <2>4
<1> QED BY <1>4, <1>5, <1>6 DEF InputTypes

LEMMA TryExists ==
  ASSUME NEW signature, NEW ts, NEW reset, NEW n \in Nat
  PROVE  \E try : IsTry(try, signature, ts, reset, n)
<1> DEFINE Bad == {k \in Nat : ~ \E try : IsTry(try, signature, ts, reset, k)}
<1>1. SUFFICES ASSUME Bad # {} PROVE FALSE
  OBVIOUS
<1>2. PICK k \in Bad : \A j \in Bad : k <= j
  <2>1. Bad \in SUBSET Nat
    OBVIOUS
  <2> HIDE DEF Bad
  <2> QED BY <1>1, <2>1, Least
<1>3. k \in Nat /\ ~ \E try : IsTry(try, signature, ts, reset, k)
  OBVIOUS
<1> DEFINE First == [accepts |-> TRUE, bindings |-> reset]
           Next_(r, m) == IF r.accepts THEN EquivalentTo(signature.inputs[m], ts[m], r.bindings) ELSE r
<1>4. \A try, j : IsTry(try, signature, ts, reset, j) <=>
        try = [m \in 0..j |-> IF m = 0 THEN First ELSE Next_(try[m - 1], m)]
  BY DEF IsTry
<1> HIDE DEF First, Next_
<1>5. CASE k = 0
  <2> DEFINE try == [m \in 0..0 |-> First]
  <2>1. try = [m \in 0..0 |-> IF m = 0 THEN First ELSE Next_(try[m - 1], m)]
    OBVIOUS
  <2> HIDE DEF try
  <2> QED BY <1>3, <1>4, <1>5, <2>1
<1>6. CASE k # 0
  <2>1. k - 1 \in Nat /\ ~(k <= k - 1)
    BY <1>3, <1>6
  <2>2. PICK b : IsTry(b, signature, ts, reset, k - 1)
    <3>1. k - 1 \notin Bad
      BY <1>2, <2>1
    <3> QED BY <2>1, <3>1
  <2>3. b = [m \in 0..(k - 1) |-> IF m = 0 THEN First ELSE Next_(b[m - 1], m)]
    BY <1>4, <2>2
  <2> DEFINE try == [m \in 0..k |-> IF m = k THEN Next_(b[k - 1], k) ELSE b[m]]
  <2>4. ASSUME NEW m \in 0..k
        PROVE  try[m] = IF m = 0 THEN First ELSE Next_(try[m - 1], m)
    <3>1. CASE m = k
      <4>1. try[m] = Next_(b[k - 1], k) /\ try[m - 1] = b[k - 1] /\ m # 0
        BY <1>3, <1>6, <3>1
      <4> QED BY <3>1, <4>1
    <3>2. CASE m # k /\ m # 0
      <4>1. m \in 0..(k - 1) /\ try[m] = b[m] /\ try[m - 1] = b[m - 1]
        BY <1>3, <3>2
      <4> HIDE DEF try
      <4>2. b[m] = Next_(b[m - 1], m)
        BY <2>3, <3>2, <4>1
      <4> QED BY <3>2, <4>1, <4>2
    <3>3. CASE m # k /\ m = 0
      <4>1. m \in 0..(k - 1) /\ try[m] = b[m]
        BY <1>3, <3>3
      <4> HIDE DEF try
      <4>2. b[m] = First
        BY <2>3, <3>3, <4>1
      <4> QED BY <3>3, <4>1, <4>2
    <3> QED BY <3>1, <3>2, <3>3
  <2>5. try = [m \in 0..k |-> try[m]]
    OBVIOUS
  <2> HIDE DEF try
  <2>6. try = [m \in 0..k |-> IF m = 0 THEN First ELSE Next_(try[m - 1], m)]
    BY <2>4, <2>5
  <2> QED BY <1>3, <1>4, <2>6
<1> QED BY <1>5, <1>6

LEMMA ResetKeepsBindings ==
  ASSUME NEW signature, NEW b, BindingsOK(b)
  PROVE  BindingsOK(ResetArbitraryTypes(signature, b))
BY DEF BindingsOK, ResetArbitraryTypes

\* A signature that accepts types has bound the arbitrary type of its value.
LEMMA AcceptsBinds ==
  ASSUME NEW signature \in KnownSignatures, NEW ts, NEW b, BindingsOK(b),
         \A i \in 1..Len(ts) : Complete(ts[i])
  PROVE  /\ BindingsOK(Accepts(signature, ts, b).bindings)
         /\ Accepts(signature, ts, b).accepts =>
              LET type == OutputType(signature, Accepts(signature, ts, b).bindings)
              IN  /\ Complete(type)
                  /\ signature.output = E => IsArray(ts[1]) /\ type = ts[1].array
                  /\ signature.output # E => type = signature.output
                  /\ signature.inputs[1] \in Plain => signature.inputs[1] = ts[1]
<1> DEFINE reset == ResetArbitraryTypes(signature, b)
           n == Len(signature.inputs)
           r == Accepts(signature, ts, b)
<1>1. BindingsOK(reset)
  BY ResetKeepsBindings
<1>2. /\ signature.inputs \in Seq(InputTypes) /\ signature.output \in Plain \cup {E}
      /\ signature.output = E => signature.inputs = <<ArrayOf(E), IntegerType>>
      /\ Len(signature.inputs) \in {1, 2}
  BY DEF KnownSignatures
<1>3. n \in Nat /\ \A i \in 1..n : signature.inputs[i] \in InputTypes
  BY <1>2, LenProperties, ElementOfSeq
<1>4. r = IF Len(ts) # n THEN [accepts |-> FALSE, bindings |-> reset]
          ELSE (CHOOSE try : IsTry(try, signature, ts, reset, n))[n]
  BY DEF Accepts, IsTry
<1> HIDE DEF reset, n, r
<1>5. CASE Len(ts) # n
  <2>1. r.bindings = reset /\ r.accepts = FALSE
    BY <1>4, <1>5
  <2> QED BY <1>1, <2>1 DEF r
<1>6. CASE Len(ts) = n
  <2> DEFINE try == CHOOSE try : IsTry(try, signature, ts, reset, n)
  <2>1. IsTry(try, signature, ts, reset, n)
    BY <1>3, TryExists
  <2>2. r = try[n]
    BY <1>4, <1>6
  <2> HIDE DEF try
  <2>3. /\ try[0].accepts = TRUE /\ try[0].bindings = reset
        /\ \A m \in 1..n :
             /\ try[m - 1].accepts =>
                  try[m] = EquivalentTo(signature.inputs[m], ts[m], try[m - 1].bindings)
             /\ ~try[m - 1].accepts => try[m] = try[m - 1]
    <3>1. 0 \in 0..n /\ \A m \in 1..n : m \in 0..n /\ m # 0
      BY <1>3
    <3>2. \A m \in 0..n :
            try[m] = IF m = 0 THEN [accepts |-> TRUE, bindings |-> reset]
                     ELSE IF try[m - 1].accepts
                     THEN EquivalentTo(signature.inputs[m], ts[m], try[m - 1].bindings)
                     ELSE try[m - 1]
      BY <2>1 DEF IsTry
    <3>3. try[0] = [accepts |-> TRUE, bindings |-> reset]
      BY <3>1, <3>2
    <3>4. \A m \in 1..n :
            /\ try[m - 1].accepts =>
                 try[m] = EquivalentTo(signature.inputs[m], ts[m], try[m - 1].bindings)
            /\ ~try[m - 1].accepts => try[m] = try[m - 1]
      BY <3>1, <3>2
    <3> QED BY <3>3, <3>4
  <2> DEFINE Bad == {m \in 0..n : ~BindingsOK(try[m].bindings)}
  <2>4. Bad = {}
    <3> SUFFICES ASSUME Bad # {} PROVE FALSE
      OBVIOUS
    <3>1. PICK m \in Bad : \A j \in Bad : m <= j
      <4>1. Bad \in SUBSET Nat
        BY <1>3
      <4> HIDE DEF Bad
      <4> QED BY <4>1, Least
    <3>2. m \in 0..n /\ ~BindingsOK(try[m].bindings)
      OBVIOUS
    <3>3. m # 0
      BY <1>1, <2>3, <3>2
    <3>4. m - 1 \in 0..n /\ m \in 1..n /\ ~(m <= m - 1)
      BY <1>3, <3>2, <3>3
    <3>5. BindingsOK(try[m - 1].bindings)
      BY <3>1, <3>4
    <3>6. CASE try[m - 1].accepts
      <4>1. Complete(ts[m]) /\ signature.inputs[m] \in InputTypes
        BY <1>3, <1>6, <3>4
      <4>2. BindingsOK(EquivalentTo(signature.inputs[m], ts[m], try[m - 1].bindings).bindings)
        BY <3>5, <4>1, EquivalenceBinds
      <4>3. try[m] = EquivalentTo(signature.inputs[m], ts[m], try[m - 1].bindings)
        BY <2>3, <3>4, <3>6
      <4> QED BY <3>2, <4>2, <4>3
    <3>7. CASE ~try[m - 1].accepts
      <4>1. try[m] = try[m - 1]
        BY <2>3, <3>4, <3>7
      <4> QED BY <3>2, <3>5, <4>1
    <3> QED BY <3>6, <3>7
  <2>5. \A m \in 0..n : BindingsOK(try[m].bindings)
    BY <2>4
  <2>6. n \in 0..n
    BY <1>3
  <2>7. BindingsOK(r.bindings)
    BY <2>2, <2>5, <2>6
  <2>8. ASSUME r.accepts
        PROVE  /\ Complete(ts[1])
               /\ try[1].accepts
               /\ try[1] = EquivalentTo(signature.inputs[1], ts[1], try[0].bindings)
               /\ signature.inputs[1] \in Plain => signature.inputs[1] = ts[1]
    <3>1. n \in {1, 2}
      BY <1>2 DEF n
    <3>2. ~try[1].accepts => ~try[n].accepts
      BY <2>3, <3>1
    <3>3. try[1].accepts
      BY <2>2, <2>8, <3>2
    <3>4. try[1] = EquivalentTo(signature.inputs[1], ts[1], try[0].bindings)
      BY <2>3, <3>1
    <3>5. Complete(ts[1]) /\ signature.inputs[1] \in InputTypes /\ BindingsOK(try[0].bindings)
      BY <1>3, <1>6, <2>5, <3>1
    <3>6. signature.inputs[1] \in Plain => signature.inputs[1] = ts[1]
      BY <3>3, <3>4, <3>5, EquivalenceBinds
    <3> QED BY <3>3, <3>4, <3>5, <3>6
  <2>9. ASSUME r.accepts, signature.output = E
        PROVE  OutputType(signature, r.bindings) = ts[1].array /\ IsArray(ts[1])
    <3>1. signature.inputs = <<ArrayOf(E), IntegerType>>
      BY <1>2, <2>9
    <3>2. n = 2 /\ signature.inputs[1] = ArrayOf(E) /\ signature.inputs[2] = IntegerType
      BY <3>1 DEF n
    <3>3. try[2] = EquivalentTo(IntegerType, ts[2], try[1].bindings)
      BY <2>3, <2>8, <2>9, <3>2
    <3>4. Complete(ts[2]) /\ BindingsOK(try[0].bindings) /\ BindingsOK(try[1].bindings)
      BY <1>6, <2>5, <3>2
    <3>5. IsArray(ts[1]) /\ try[1].bindings["E"] = ts[1].array
      <4>1. ArrayOf(E) \in InputTypes
        BY DEF InputTypes
      <4>2. ASSUME NEW type, Complete(type), NEW c, BindingsOK(c), EquivalentTo(ArrayOf(E), type, c).accepts
            PROVE  IsArray(type) /\ EquivalentTo(ArrayOf(E), type, c).bindings["E"] = type.array
        BY ONLY <4>1, <4>2, EquivalenceBinds
      <4>3. try[1] = EquivalentTo(ArrayOf(E), ts[1], try[0].bindings) /\ try[1].accepts /\ Complete(ts[1])
        BY <2>8, <2>9, <3>2
      <4> QED BY <3>4, <4>2, <4>3
    <3>6. try[2].bindings = try[1].bindings
      <4>1. IntegerType \in Plain /\ IntegerType \in InputTypes
        BY DEF Plain, InputTypes
      <4>2. ASSUME NEW type, Complete(type), NEW c, BindingsOK(c)
            PROVE  EquivalentTo(IntegerType, type, c).bindings = c
        BY ONLY <4>1, <4>2, EquivalenceBinds
      <4>3. EquivalentTo(IntegerType, ts[2], try[1].bindings).bindings = try[1].bindings
        BY <3>4, <4>2
      <4> QED BY <3>3, <4>3
    <3>7. OutputType(signature, r.bindings) = r.bindings["E"]
      BY <2>9, KindsOfTypes DEF OutputType, E
    <3> QED BY <2>2, <3>2, <3>5, <3>6, <3>7
  <2>10. ASSUME signature.output # E
         PROVE  OutputType(signature, r.bindings) = signature.output /\ Complete(signature.output)
    <3>1. PICK name : signature.output = Base(name) /\ Complete(signature.output)
      BY <1>2, <2>10, NamedTypesAreComplete
    <3> QED BY <3>1, KindsOfTypes DEF OutputType
  <2>11. r.accepts => Complete(OutputType(signature, r.bindings))
    BY <2>8, <2>9, <2>10, PartsOfComplete
  <2> QED BY <2>7, <2>8, <2>9, <2>10, <2>11 DEF r
<1> QED BY <1>5, <1>6

\* The signatures that are made of types, for every type one.
LEMMA UnarySignatures ==
  ASSUME NEW S \in SUBSET Plain, NEW ts \in Seq(S)
  PROVE  /\ Unary(ts) \in Seq({s \in KnownSignatures : s.output \in S /\ s.inputs[1] = s.output})
         /\ Binary(ts) \in Seq({s \in KnownSignatures : s.output \in S /\ s.inputs[1] = s.output})
         /\ Comparison(ts) \in Seq({s \in KnownSignatures : s.output = BooleanType})
<1> DEFINE Same == {s \in KnownSignatures : s.output \in S /\ s.inputs[1] = s.output}
           Test == {s \in KnownSignatures : s.output = BooleanType}
<1>1. Len(ts) \in Nat /\ \A i \in 1..Len(ts) : ts[i] \in S
  BY LenProperties, ElementOfSeq
<1>2. E \notin Plain
  <2>1. IsArbitrary(E) /\ \A name : ~IsArbitrary(Base(name))
    BY KindsOfTypes DEF E
  <2> QED BY <2>1 DEF Plain, VoidType, BooleanType, CharacterType, IntegerType, FloatType, RationalType
<1>3. ASSUME NEW t \in Plain, NEW u \in Plain
      PROVE  /\ Signature(<<t>>, u) \in KnownSignatures /\ Signature(<<t, t>>, u) \in KnownSignatures
             /\ Signature(<<t>>, u).output = u /\ Signature(<<t, t>>, u).output = u
             /\ Signature(<<t>>, u).inputs[1] = t /\ Signature(<<t, t>>, u).inputs[1] = t
  <2>1. <<t>> \in Seq(InputTypes) /\ <<t, t>> \in Seq(InputTypes) /\ u # E
    BY <1>2 DEF InputTypes
  <2> QED BY <2>1 DEF Signature, KnownSignatures
<1>4. BooleanType \in Plain
  BY DEF Plain
<1>5. \A i \in 1..Len(ts) : /\ Signature(<<ts[i]>>, ts[i]) \in Same
                            /\ Signature(<<ts[i], ts[i]>>, ts[i]) \in Same
                            /\ Signature(<<ts[i], ts[i]>>, BooleanType) \in Test
  BY <1>1, <1>3, <1>4
<1> HIDE DEF Same, Test
<1>6. /\ Unary(ts) \in [1..Len(ts) -> Same] /\ Binary(ts) \in [1..Len(ts) -> Same]
      /\ Comparison(ts) \in [1..Len(ts) -> Test]
  BY <1>5 DEF Unary, Binary, Comparison
<1> QED BY <1>1, <1>6, SeqDef DEF Same, Test

LEMMA SignaturesOfOperators ==
  ASSUME NEW op \in Operators
  PROVE  signature_map[op] \in Seq(SignaturesOf(op))
<1> DEFINE numbers == <<IntegerType, FloatType, RationalType>>
           ordered == <<CharacterType>> \o numbers
           equal   == <<BooleanType>> \o ordered
           Same(S) == {s \in KnownSignatures : s.output \in S /\ s.inputs[1] = s.output}
           Test    == {s \in KnownSignatures : s.output = BooleanType}
<1>1. /\ VoidType \in Plain /\ BooleanType \in Plain /\ CharacterType \in Plain
      /\ IntegerType \in Plain /\ FloatType \in Plain /\ RationalType \in Plain
  BY DEF Plain
<1>2. /\ numbers \in Seq(Plain) /\ ordered \in Seq(Plain) /\ equal \in Seq(Plain)
      /\ <<IntegerType>> \in Seq(Plain) /\ <<BooleanType>> \in Seq({BooleanType})
  <2>1. numbers \in Seq(Plain) /\ <<CharacterType>> \in Seq(Plain) /\ <<BooleanType>> \in Seq(Plain)
        /\ <<IntegerType>> \in Seq(Plain) /\ <<BooleanType>> \in Seq({BooleanType})
    BY <1>1
  <2> HIDE DEF numbers
  <2>2. ordered \in Seq(Plain)
    BY <2>1, ConcatProperties
  <2> HIDE DEF ordered
  <2>3. equal \in Seq(Plain)
    BY <2>1, <2>2, ConcatProperties
  <2> QED BY <2>1, <2>2, <2>3
<1>3. signature_map[op] =
        CASE op = "="                     -> <<Signature(<<T, T>>, VoidType)>>
          [] op \in {"+", "-"}            -> Unary(numbers) \o Binary(numbers)
          [] op \in {"*", "/"}            -> Binary(numbers)
          [] op = "%"                     -> Binary(<<IntegerType>>)
          [] op = "//"                    -> <<Signature(<<IntegerType, IntegerType>>, RationalType)>>
          [] op \in {"==", "!="}          -> Comparison(equal)
          [] op \in {">", "<", ">=", "<="} -> Comparison(ordered)
          [] op = "!"                     -> Unary(<<BooleanType>>)
          [] op \in {"&&", "||"}          -> Binary(<<BooleanType>>)
          [] op = "[]"                    -> <<Signature(<<ArrayOf(E), IntegerType>>, E)>>
          [] op = "sizeof"                -> <<Signature(<<ArrayOf(E)>>, IntegerType)>>
  BY DEF signature_map
<1> HIDE DEF numbers, ordered, equal
<1>4. /\ Unary(numbers) \in Seq(Same(Plain)) /\ Binary(numbers) \in Seq(Same(Plain))
      /\ Binary(<<IntegerType>>) \in Seq(Same(Plain))
      /\ Comparison(equal) \in Seq(Test) /\ Comparison(ordered) \in Seq(Test)
  BY <1>2, UnarySignatures
<1>5. Unary(<<BooleanType>>) \in Seq(Same({BooleanType})) /\ Binary(<<BooleanType>>) \in Seq(Same({BooleanType}))
  BY <1>1, <1>2, UnarySignatures
<1>6. Unary(numbers) \o Binary(numbers) \in Seq(Same(Plain))
  BY <1>4, ConcatProperties
<1>7. E \notin Plain
  <2>1. IsArbitrary(E) /\ \A name : ~IsArbitrary(Base(name))
    BY KindsOfTypes DEF E
  <2> QED BY <2>1 DEF Plain, VoidType, BooleanType, CharacterType, IntegerType, FloatType, RationalType
<1>8. ASSUME NEW S, S \subseteq SignaturesOf(op), NEW s \in Seq(S)
      PROVE  s \in Seq(SignaturesOf(op))
  BY <1>8
<1>9. ASSUME NEW inputs \in Seq(InputTypes), NEW output \in Plain \cup {E}, Len(inputs) \in {1, 2},
             output = E => inputs = <<ArrayOf(E), IntegerType>>
      PROVE  /\ Signature(inputs, output) \in KnownSignatures
             /\ Signature(inputs, output).output = output
  BY <1>9 DEF Signature, KnownSignatures
<1>10. /\ <<T, T>> \in Seq(InputTypes) /\ <<IntegerType, IntegerType>> \in Seq(InputTypes)
       /\ <<ArrayOf(E), IntegerType>> \in Seq(InputTypes) /\ <<ArrayOf(E)>> \in Seq(InputTypes)
       /\ Len(<<T, T>>) = 2 /\ Len(<<IntegerType, IntegerType>>) = 2
       /\ Len(<<ArrayOf(E), IntegerType>>) = 2 /\ Len(<<ArrayOf(E)>>) = 1
  <2>1. T \in InputTypes /\ ArrayOf(E) \in InputTypes /\ IntegerType \in InputTypes
    BY <1>1 DEF InputTypes
  <2> QED BY <2>1
<1>11. CASE op \in {"+", "-", "*", "/", "%"}
  <2>1. Same(Plain) \subseteq SignaturesOf(op)
    BY <1>7, <1>11 DEF SignaturesOf, IsTypeOf, Comparisons
  <2>2. signature_map[op] \in Seq(Same(Plain))
    <3>1. op \in {"+", "-"} => signature_map[op] = Unary(numbers) \o Binary(numbers)
      BY <1>3
    <3>2. op \in {"*", "/"} => signature_map[op] = Binary(numbers)
      BY <1>3
    <3>3. op = "%" => signature_map[op] = Binary(<<IntegerType>>)
      BY <1>3
    <3> QED BY <1>4, <1>6, <1>11, <3>1, <3>2, <3>3
  <2> QED BY <1>8, <2>1, <2>2
<1>12. CASE op \in Comparisons
  <2>1. Test \subseteq SignaturesOf(op)
    BY <1>1, <1>7, <1>12 DEF SignaturesOf, IsTypeOf, Comparisons
  <2>2. signature_map[op] \in Seq(Test)
    <3>1. op \in {"==", "!="} => signature_map[op] = Comparison(equal)
      BY <1>3
    <3>2. op \in {">", "<", ">=", "<="} => signature_map[op] = Comparison(ordered)
      BY <1>3
    <3> QED BY <1>4, <1>12, <3>1, <3>2 DEF Comparisons
  <2> QED BY <1>8, <2>1, <2>2
<1>13. CASE op \in {"!", "&&", "||"}
  <2>1. Same({BooleanType}) \subseteq SignaturesOf(op)
    BY <1>1, <1>7, <1>13 DEF SignaturesOf, IsTypeOf, Comparisons
  <2>2. signature_map[op] \in Seq(Same({BooleanType}))
    <3>1. op = "!" => signature_map[op] = Unary(<<BooleanType>>)
      BY <1>3
    <3>2. op \in {"&&", "||"} => signature_map[op] = Binary(<<BooleanType>>)
      BY <1>3
    <3> QED BY <1>5, <1>13, <3>1, <3>2
  <2> QED BY <1>8, <2>1, <2>2
<1>14. CASE op \in {"=", "//", "[]", "sizeof"}
  <2>1. PICK s :
          /\ s \in KnownSignatures /\ signature_map[op] = <<s>>
          /\ op = "=" => s.output = VoidType
          /\ op = "//" => s.output = RationalType
          /\ op = "sizeof" => s.output = IntegerType
          /\ op = "[]" => s.output = E
    <3>1. op = "=" => signature_map[op] = <<Signature(<<T, T>>, VoidType)>>
      BY <1>3
    <3>2. op = "//" => signature_map[op] = <<Signature(<<IntegerType, IntegerType>>, RationalType)>>
      BY <1>3
    <3>3. op = "[]" => signature_map[op] = <<Signature(<<ArrayOf(E), IntegerType>>, E)>>
      BY <1>3
    <3>4. op = "sizeof" => signature_map[op] = <<Signature(<<ArrayOf(E)>>, IntegerType)>>
      BY <1>3
    <3>5. CASE op = "="
      BY <1>1, <1>7, <1>9, <1>10, <3>1, <3>5
    <3>6. CASE op = "//"
      BY <1>1, <1>7, <1>9, <1>10, <3>2, <3>6
    <3>7. CASE op = "[]"
      BY <1>9, <1>10, <3>3, <3>7
    <3>8. CASE op = "sizeof"
      BY <1>1, <1>7, <1>9, <1>10, <3>4, <3>8
    <3> QED BY <1>14, <3>5, <3>6, <3>7, <3>8
  <2>2. s \in SignaturesOf(op)
    <3>1. VoidType # E /\ RationalType # E /\ IntegerType # E
      BY <1>1, <1>7
    <3>2. op = "[]" <=> s.output = E
      BY <1>14, <2>1, <3>1
    <3>3. op # "[]" => IsTypeOf(op, s.inputs[1], s.output)
      BY <1>14, <2>1, <3>1 DEF IsTypeOf, Comparisons
    <3> QED BY <1>14, <2>1, <3>2, <3>3 DEF SignaturesOf
  <2>3. <<s>> \in Seq(SignaturesOf(op))
    BY <2>2
  <2> QED BY <2>1, <2>3
<1>15. op \in {"+", "-", "*", "/", "%"} \cup Comparisons \cup {"!", "&&", "||"} \cup {"=", "//", "[]", "sizeof"}
  BY DEF Operators, Comparisons
<1> QED BY <1>11, <1>12, <1>13, <1>14, <1>15

LEMMA SearchExists ==
  ASSUME NEW signatures, NEW ts, NEW b, NEW n \in Nat
  PROVE  \E search : IsSearch(search, signatures, ts, b, n)
<1> DEFINE Bad == {k \in Nat : ~ \E search : IsSearch(search, signatures, ts, b, k)}
<1>1. SUFFICES ASSUME Bad # {} PROVE FALSE
  OBVIOUS
<1>2. PICK k \in Bad : \A j \in Bad : k <= j
  <2>1. Bad \in SUBSET Nat
    OBVIOUS
  <2> HIDE DEF Bad
  <2> QED BY <1>1, <2>1, Least
<1>3. k \in Nat /\ ~ \E search : IsSearch(search, signatures, ts, b, k)
  OBVIOUS
<1> DEFINE First == [type |-> Null, bindings |-> b]
           Next_(r, m) ==
             LET try == Accepts(signatures[m], ts, r.bindings)
             IN  IF r.type # Null THEN r
                 ELSE [type     |-> IF try.accepts THEN OutputType(signatures[m], try.bindings)
                                    ELSE Null,
                       bindings |-> try.bindings]
<1>4. \A search, j : IsSearch(search, signatures, ts, b, j) <=>
        search = [m \in 0..j |-> IF m = 0 THEN First ELSE Next_(search[m - 1], m)]
  BY DEF IsSearch
<1> HIDE DEF First, Next_
<1>5. CASE k = 0
  <2> DEFINE search == [m \in 0..0 |-> First]
  <2>1. search = [m \in 0..0 |-> IF m = 0 THEN First ELSE Next_(search[m - 1], m)]
    OBVIOUS
  <2> HIDE DEF search
  <2> QED BY <1>3, <1>4, <1>5, <2>1
<1>6. CASE k # 0
  <2>1. k - 1 \in Nat /\ ~(k <= k - 1)
    BY <1>3, <1>6
  <2>2. PICK c : IsSearch(c, signatures, ts, b, k - 1)
    <3>1. k - 1 \notin Bad
      BY <1>2, <2>1
    <3> QED BY <2>1, <3>1
  <2>3. c = [m \in 0..(k - 1) |-> IF m = 0 THEN First ELSE Next_(c[m - 1], m)]
    BY <1>4, <2>2
  <2> DEFINE search == [m \in 0..k |-> IF m = k THEN Next_(c[k - 1], k) ELSE c[m]]
  <2>4. ASSUME NEW m \in 0..k
        PROVE  search[m] = IF m = 0 THEN First ELSE Next_(search[m - 1], m)
    <3>1. CASE m = k
      <4>1. search[m] = Next_(c[k - 1], k) /\ search[m - 1] = c[k - 1] /\ m # 0
        BY <1>3, <1>6, <3>1
      <4> QED BY <3>1, <4>1
    <3>2. CASE m # k /\ m # 0
      <4>1. m \in 0..(k - 1) /\ search[m] = c[m] /\ search[m - 1] = c[m - 1]
        BY <1>3, <3>2
      <4> HIDE DEF search
      <4>2. c[m] = Next_(c[m - 1], m)
        BY <2>3, <3>2, <4>1
      <4> QED BY <3>2, <4>1, <4>2
    <3>3. CASE m # k /\ m = 0
      <4>1. m \in 0..(k - 1) /\ search[m] = c[m]
        BY <1>3, <3>3
      <4> HIDE DEF search
      <4>2. c[m] = First
        BY <2>3, <3>3, <4>1
      <4> QED BY <3>3, <4>1, <4>2
    <3> QED BY <3>1, <3>2, <3>3
  <2>5. search = [m \in 0..k |-> search[m]]
    OBVIOUS
  <2> HIDE DEF search
  <2>6. search = [m \in 0..k |-> IF m = 0 THEN First ELSE Next_(search[m - 1], m)]
    BY <2>4, <2>5
  <2> QED BY <1>3, <1>4, <2>6
<1> QED BY <1>5, <1>6

\* The type of an operation on values without gaps has none.
LEMMA OperationsAreComplete ==
  ASSUME NEW op \in Operators, NEW ts, NEW b, BindingsOK(b),
         \A i \in 1..Len(ts) : Complete(ts[i])
  PROVE  /\ BindingsOK(AcceptingSignature(op, ts, b).bindings)
         /\ AcceptingSignature(op, ts, b).type # Null =>
              /\ Complete(AcceptingSignature(op, ts, b).type)
              /\ IsTypeOf(op, ts[1], AcceptingSignature(op, ts, b).type)
<1> DEFINE signatures == signature_map[op]
           n == Len(signatures)
           r == AcceptingSignature(op, ts, b)
<1>1. n \in Nat /\ \A i \in 1..n : signatures[i] \in SignaturesOf(op)
  BY SignaturesOfOperators, LenProperties, ElementOfSeq
<1>2. r = (CHOOSE search : IsSearch(search, signatures, ts, b, n))[n]
  BY DEF AcceptingSignature, IsSearch
<1> HIDE DEF signatures, n, r
<1> DEFINE search == CHOOSE search : IsSearch(search, signatures, ts, b, n)
<1>3. IsSearch(search, signatures, ts, b, n)
  BY <1>1, SearchExists
<1>4. r = search[n]
  BY <1>2
<1> HIDE DEF search
<1> DEFINE Good(m) == /\ BindingsOK(search[m].bindings)
                      /\ search[m].type # Null => Complete(search[m].type) /\ IsTypeOf(op, ts[1], search[m].type)
           Bad == {m \in 0..n : ~Good(m)}
<1>5. Bad = {}
  <2> SUFFICES ASSUME Bad # {} PROVE FALSE
    OBVIOUS
  <2>1. PICK m \in Bad : \A j \in Bad : m <= j
    <3>1. Bad \in SUBSET Nat
      BY <1>1
    <3> HIDE DEF Bad
    <3> QED BY <3>1, Least
  <2>2. m \in 0..n /\ ~Good(m)
    OBVIOUS
  <2>3. search[m] = IF m = 0 THEN [type |-> Null, bindings |-> b]
                    ELSE LET q   == search[m - 1]
                             try == Accepts(signatures[m], ts, q.bindings)
                         IN  IF q.type # Null THEN q
                             ELSE [type     |-> IF try.accepts THEN OutputType(signatures[m], try.bindings)
                                                ELSE Null,
                                   bindings |-> try.bindings]
    BY <1>3, <2>2 DEF IsSearch
  <2>4. CASE m = 0
    <3>1. search[m].bindings = b /\ search[m].type = Null
      BY <2>3, <2>4
    <3> QED BY <2>2, <3>1
  <2>5. CASE m # 0
    <3>1. m - 1 \in 0..n /\ m \in 1..n /\ ~(m <= m - 1)
      BY <1>1, <2>2, <2>5
    <3>2. Good(m - 1)
      BY <2>1, <3>1
    <3> DEFINE q   == search[m - 1]
               try == Accepts(signatures[m], ts, q.bindings)
    <3>3. /\ BindingsOK(try.bindings)
          /\ try.accepts => /\ Complete(OutputType(signatures[m], try.bindings))
                            /\ IsTypeOf(op, ts[1], OutputType(signatures[m], try.bindings))
      <4>1. signatures[m] \in SignaturesOf(op) /\ BindingsOK(q.bindings)
        BY <1>1, <3>1, <3>2
      <4> DEFINE s == signatures[m]
                 type == OutputType(s, try.bindings)
      <4>2. /\ s \in KnownSignatures
            /\ op = "[]" <=> s.output = E
            /\ op # "[]" => IsTypeOf(op, s.inputs[1], s.output)
            /\ op \in {"+", "-", "*", "/", "%"} => s.inputs[1] \in Plain
        BY <4>1 DEF SignaturesOf
      <4>3. /\ BindingsOK(try.bindings)
            /\ try.accepts =>
                 /\ Complete(type)
                 /\ s.output = E => IsArray(ts[1]) /\ type = ts[1].array
                 /\ s.output # E => type = s.output
                 /\ s.inputs[1] \in Plain => s.inputs[1] = ts[1]
        BY <4>1, <4>2, AcceptsBinds
      <4> HIDE DEF s, type, try
      <4> QED BY <4>2, <4>3 DEF IsTypeOf, Comparisons, type, s
    <3>4. search[m] = IF q.type # Null THEN q
                      ELSE [type     |-> IF try.accepts THEN OutputType(signatures[m], try.bindings)
                                         ELSE Null,
                            bindings |-> try.bindings]
      BY <2>3, <2>5
    <3>5. CASE q.type # Null
      BY <2>2, <3>2, <3>4, <3>5
    <3>6. CASE q.type = Null
      <4> HIDE DEF q, try
      <4>1. /\ search[m].type = IF try.accepts THEN OutputType(signatures[m], try.bindings) ELSE Null
            /\ search[m].bindings = try.bindings
        BY <3>4, <3>6
      <4>2. Good(m)
        BY <3>3, <4>1
      <4> QED BY <2>2, <4>2
    <3> QED BY <3>5, <3>6
  <2> QED BY <2>4, <2>5
<1>6. n \in 0..n
  BY <1>1
<1>7. Good(n)
  BY <1>5, <1>6
<1> QED BY <1>4, <1>7 DEF r

-----------------------------------------------------------------------------
(* Types are missing behind errors only.                                   *)

LEMMA LeafInit == Init => LeafInv
<1> SUFFICES ASSUME Init PROVE LeafInv
  OBVIOUS
<1>1. WalkInv
  BY WalkInit
<1>2. Kind(<<>>) = "program" /\ cursor = Cursor(<<>>, "enter")
  BY <1>1, RootIsProgram DEF Init
<1> QED BY <1>2 DEF LeafInv, Cursor, here, LeafKinds

LEMMA LeafStep == WalkInv /\ LeafInv /\ [Next]_vars => LeafInv'
<1> SUFFICES ASSUME WalkInv, LeafInv, [Next]_vars PROVE LeafInv'
  OBVIOUS
<1>1. CASE Crash \/ UNCHANGED vars
  BY <1>1 DEF Crash, vars, LeafInv, Kind, here
<1>2. CASE Next /\ ~Crash
  <2>1. Advance
    BY <1>2, Effects
  <2>2. tree' = tree /\ \A q : Kind(q)' = Kind(q)
    BY <2>1 DEF Advance, Kind
  <2>3. \A q : /\ Start(tree, q).path = q
               /\ Start(tree, q).moment # "visit" => Kind(q) \notin LeafKinds
    BY DEF Start, Cursor, Kind
  <2>4. CASE cursor # Cursor(<<>>, "leave")
    <3>1. cursor' = Following(tree, cursor)
      BY <2>1, <2>4 DEF Advance
    <3> DEFINE p == here
    <3>2. /\ p \in NodesOf(tree) /\ cursor = Cursor(p, cursor.moment) /\ tree \in Program
          /\ cursor.moment \in Moments /\ (cursor.moment = "visit" => Kind(p) \in LeafKinds)
      BY DEF WalkInv
    <3>3. CASE \E q : cursor' = Start(tree, q)
      BY <2>2, <2>3, <3>3 DEF LeafInv, here
    <3>4. CASE cursor.moment = "enter" /\ cursor' = Cursor(p, "leave")
      BY <2>2, <3>4 DEF LeafInv, here, Cursor
    <3>5. CASE cursor.moment # "enter" /\ cursor' = Cursor(Parent(p), "leave")
      <4>1. p # <<>>
        <5>1. CASE cursor.moment = "visit"
          <6>1. Kind(p) # "program"
            BY <3>2, <5>1 DEF LeafKinds
          <6> QED BY <6>1, RootIsProgram
        <5>2. CASE cursor.moment = "leave"
          BY <2>4, <3>2, <5>2
        <5> QED BY <3>2, <3>5, <5>1, <5>2 DEF Moments
      <4> DEFINE r == Parent(p)
      <4>2. Last(p) \in 1..Len(NodeAt(tree, r).children) /\ Shaped(NodeAt(tree, r))
        BY <3>2, <4>1, NodeOfParent
      <4>3. NodeAt(tree, r).children # <<>>
        <5>1. Len(<<>>) = 0
          BY EmptySeq
        <5> QED BY <4>2, <5>1
      <4>4. Kind(r) \notin LeafKinds
        BY <4>2, <4>3 DEF Shaped, Kind
      <4> QED BY <2>2, <3>5, <4>4 DEF LeafInv, here, Cursor
    <3> QED BY <3>1, <3>3, <3>4, <3>5 DEF Following, here
  <2>5. CASE cursor = Cursor(<<>>, "leave")
    <3>1. cursor' = cursor \/ cursor' = Start(tree, <<>>)
      BY <2>1, <2>5 DEF Advance
    <3> QED BY <2>2, <2>3, <3>1 DEF LeafInv, here
  <2> QED BY <2>4, <2>5
<1> QED BY <1>1, <1>2

-----------------------------------------------------------------------------
(* How the handlers set types.                                             *)

LEMMA InferFills ==
  ASSUME TypesInv, errors = {}, NEW type, Infer(here, type), Complete(type),
         visitor = "visitor" \/ Kind(here) # "parameter"
  PROVE  Advance /\ Fills
<1>1. /\ types' = With(types, here, type) /\ Advance
      /\ UNCHANGED <<table, entries, bindings, errors>>
  BY DEF Infer
<1>2. /\ DOMAIN types' = DOMAIN types \cup {here} /\ types'[here] = type
      /\ \A q \in DOMAIN types : q # here => types'[q] = types[q]
  BY <1>1 DEF With
<1>3. /\ \A p \in DOMAIN types : Complete(types[p])
      /\ \A s \in DOMAIN table : \A name \in DOMAIN table[s] : Complete(table[s][name].type)
      /\ BindingsOK(bindings)
  BY DEF TypesInv
<1>4. \A p \in DOMAIN types' : Complete(types'[p])
  BY <1>2, <1>3
<1> QED BY <1>1, <1>2, <1>3, <1>4 DEF Fills

LEMMA PassFills ==
  ASSUME TypesInv, errors = {}, Pass,
         cursor.moment # "enter" => 
           /\ visitor = "preprocessor" => Kind(here) \notin WrittenKinds
           /\ visitor = "visitor" /\ IsValue(here) => here \in DOMAIN types
  PROVE  Advance /\ Fills
<1>1. Advance /\ UNCHANGED <<types, table, entries, bindings, errors>>
  BY DEF Pass
<1>2. /\ \A p \in DOMAIN types : Complete(types[p])
      /\ \A s \in DOMAIN table : \A name \in DOMAIN table[s] : Complete(table[s][name].type)
      /\ BindingsOK(bindings)
  BY DEF TypesInv
<1> QED BY <1>1, <1>2 DEF Fills, WrittenKinds

LEMMA ExamineFills ==
  ASSUME TypesInv, errors = {}, NEW checks, NEW type, Examine(checks, type), errors' = {},
         Kind(here) # "parameter", type = Null \/ GetsType,
         ~Fails(checks) => \/ Complete(type)
                           \/ /\ type = Null
                              /\ visitor = "visitor" /\ (IsValue(here) => here \in DOMAIN types)
  PROVE  Advance /\ Fills /\ ~Fails(checks)
<1>1. ~Fails(checks)
  BY ExamineSetsTypes
<1>2. CASE Pass /\ type = Null
  <2>1. ~Complete(type)
    BY <1>2, PartsOfComplete
  <2> QED BY <1>1, <1>2, <2>1, PassFills
<1>3. CASE Infer(here, type) /\ type # Null
  BY <1>1, <1>3, InferFills
<1> QED BY <1>1, <1>2, <1>3 DEF Examine

\* A node is declared, and its parent is left.
LEMMA DeclareFills ==
  ASSUME TypesInv, errors = {}, NEW p, NEW mutable, NEW type, NEW symbol, NEW newTypes, NEW newErrors,
         Declare(p, Entry(mutable, type, symbol), newTypes, newErrors), Complete(type),
         DOMAIN types \subseteq DOMAIN newTypes, \A q \in DOMAIN newTypes : Complete(newTypes[q]),
         visitor = "preprocessor" => Kind(here) \notin WrittenKinds,
         visitor = "visitor" /\ IsValue(here) => here \in DOMAIN newTypes
  PROVE  Advance /\ Fills
<1> DEFINE entry == Entry(mutable, type, symbol)
           scope == LocalScope(p)
<1>1. /\ table' = [table EXCEPT ![scope] = Insert(@, Token(p), entry)]
      /\ types' = newTypes /\ Advance /\ bindings' = bindings
  BY DEF Declare
<1>2. entry.type = type
  BY DEF Entry
<1> HIDE DEF entry, scope
<1>3. \A s \in DOMAIN table' : \A name \in DOMAIN table'[s] : Complete(table'[s][name].type)
  <2> SUFFICES ASSUME NEW s \in DOMAIN table', NEW name \in DOMAIN table'[s]
               PROVE  Complete(table'[s][name].type)
    OBVIOUS
  <2>1. s \in DOMAIN table /\ \A n \in DOMAIN table[s] : Complete(table[s][n].type)
    BY <1>1 DEF TypesInv
  <2>2. CASE table'[s] = table[s]
    BY <2>1, <2>2
  <2>3. CASE table'[s] = With(table[s], Token(p), entry)
    <3>1. DOMAIN table'[s] = DOMAIN table[s] \cup {Token(p)}
          /\ table'[s][name] = IF name = Token(p) THEN entry ELSE table[s][name]
      BY <2>3 DEF With
    <3> QED BY <1>2, <2>1, <3>1
  <2> QED BY <1>1, <2>1, <2>2, <2>3 DEF Insert
<1>4. BindingsOK(bindings')
  BY <1>1 DEF TypesInv
<1> QED BY <1>1, <1>3, <1>4 DEF Fills, WrittenKinds

LEMMA OpenScopeFills ==
  ASSUME TypesInv, errors = {}, OpenScope, cursor.moment = "enter"
  PROVE  Advance /\ Fills
<1>1. table' = With(table, here, <<>>) /\ Advance /\ UNCHANGED <<types, bindings>>
  BY DEF OpenScope
<1>2. /\ \A p \in DOMAIN types : Complete(types[p])
      /\ \A s \in DOMAIN table : \A name \in DOMAIN table[s] : Complete(table[s][name].type)
      /\ BindingsOK(bindings)
  BY DEF TypesInv
<1>3. DOMAIN <<>> = {}
  OBVIOUS
<1>4. \A s \in DOMAIN table' : s \in DOMAIN table \/ s = here
  BY <1>1 DEF With
<1>5. \A s \in DOMAIN table' : table'[s] = IF s = here THEN <<>> ELSE table[s]
  BY <1>1 DEF With
<1>6. \A s \in DOMAIN table' : \A name \in DOMAIN table'[s] : Complete(table'[s][name].type)
  BY <1>2, <1>3, <1>4, <1>5
<1> QED BY <1>1, <1>2, <1>6 DEF Fills

\* The children of a node that is left.
LEMMA ChildOfHere ==
  ASSUME WalkInv, LeafInv, cursor.moment = "leave", NEW i \in 1..Len(NodeAt(tree, here).children)
  PROVE  /\ Child(here, i) \in NodesOf(tree)
         /\ IsLeft(Child(here, i), here, "leave")
         /\ Kind(Child(here, i)) = NodeAt(tree, here).children[i].kind
         /\ Parent(Child(here, i)) = here /\ Last(Child(here, i)) = i
<1>1. tree \in Program /\ here \in NodesOf(tree) /\ here \in Path
  BY DEF WalkInv, NodesOf
<1>2. Len(NodeAt(tree, here).children) \in Nat
  BY <1>1, NodesAreWellFormed
<1>3. i \in Positive
  BY <1>2 DEF Positive
<1>4. Child(here, i) \in NodesOf(tree)
  BY <1>1, <1>3, NodesAndChildren
<1>5. Kind(Child(here, i)) = NodeAt(tree, here).children[i].kind
  BY <1>1, <1>3, NodeAtChild DEF Kind
<1>6. Parent(Child(here, i)) = here /\ Last(Child(here, i)) = i
  BY <1>1, <1>3, ParentOfChild, ChildPath
<1>7. Under(Child(here, i), here) /\ Child(here, i) # here
  <2>1. /\ Len(Child(here, i)) = Len(here) + 1 /\ Len(here) \in Nat
        /\ \A k \in 1..Len(here) : Child(here, i)[k] = here[k]
    BY <1>1, <1>3, ChildPath
  <2>2. Len(here) # Len(here) + 1
    BY <2>1
  <2> QED BY <2>1, <2>2 DEF Under
<1> QED BY <1>4, <1>5, <1>6, <1>7 DEF IsLeft

\* Type nodes, parameters and lambdas have types as soon as the preprocessor left them.
LEMMA WrittenChild ==
  ASSUME WalkInv, LeafInv, TypesInv, errors = {}, cursor.moment = "leave",
         NEW i \in 1..Len(NodeAt(tree, here).children),
         NodeAt(tree, here).children[i].kind \in WrittenKinds
  PROVE  Complete(TypeOf(Child(here, i)))
<1>1. Child(here, i) \in DOMAIN types
  BY ChildOfHere DEF TypesInv
<1> QED BY <1>1 DEF TypesInv, TypeOf

\* Operands have types.
LEMMA ValueChild ==
  ASSUME WalkInv, LeafInv, TypesInv, errors = {}, cursor.moment = "leave", visitor = "visitor",
         NEW i \in 1..Len(NodeAt(tree, here).children),
         NodeAt(tree, here).children[i].kind \in Expressions,
         Kind(here) \notin {"parameter", "function"}, Kind(here) = "declaration" => i # 1
  PROVE  Complete(TypeOf(Child(here, i)))
<1>1. IsValue(Child(here, i))
  BY ChildOfHere DEF IsValue, IsBeingDeclared, IsParameterIdentifier
<1>2. Child(here, i) \in DOMAIN types
  BY <1>1, ChildOfHere DEF TypesInv
<1> QED BY <1>2 DEF TypesInv, TypeOf

\* The types of the children.
LEMMA TypesOfChildren ==
  ASSUME WalkInv
  PROVE  /\ Len(TypesOf(Children(here))) = Len(NodeAt(tree, here).children)
         /\ Len(NodeAt(tree, here).children) \in Nat
         /\ \A i \in 1..Len(NodeAt(tree, here).children) :
              TypesOf(Children(here))[i] = TypeOf(Child(here, i))
<1> DEFINE n  == Len(NodeAt(tree, here).children)
           c  == Children(here)
           ts == TypesOf(Children(here))
<1>1. n \in Nat /\ Len(c) = n /\ \A i \in 1..n : c[i] = Child(here, i)
  BY ChildrenOfHere
<1>2. ts = [i \in 1..Len(c) |-> TypeOf(c[i])]
  BY DEF TypesOf
<1> HIDE DEF n, c, ts
<1>3. ts \in Seq({TypeOf(c[i]) : i \in 1..n})
  BY <1>1, <1>2, SeqDef
<1>4. Len(ts) = n
  BY <1>1, <1>2, <1>3, LenProperties
<1> QED BY <1>1, <1>2, <1>4 DEF n, c, ts

\* The rules of the grammar for the node at the cursor.
LEMMA HereIsWellFormed ==
  ASSUME WalkInv
  PROVE  Shaped(NodeAt(tree, here)) /\ Kind(here) = NodeAt(tree, here).kind
BY NodesAreWellFormed DEF WalkInv, Kind

\* The parameters and the return type of the lambda at the cursor.
LEMMA PartsOfLambda ==
  ASSUME WalkInv, Len(NodeAt(tree, here).children) >= 2
  PROVE  LET last == Len(NodeAt(tree, here).children)
         IN  /\ ReturnTypeOf(here) = Child(here, last - 1)
             /\ Len(TypesOf(ParametersOf(here))) = last - 2
             /\ \A i \in 1..(last - 2) : TypesOf(ParametersOf(here))[i] = TypeOf(Child(here, i))
<1> DEFINE n  == Len(NodeAt(tree, here).children)
           c  == Children(here)
           ps == SubSeq(c, 1, n - 2)
           ts == TypesOf(ps)
<1>1. c \in Seq(Path) /\ n \in Nat /\ n >= 2 /\ Len(c) = n /\ \A i \in 1..n : c[i] = Child(here, i)
  BY ChildrenOfHere
<1>2. ParametersOf(here) = ps /\ ReturnTypeOf(here) = c[n - 1]
  BY <1>1 DEF ParametersOf, ReturnTypeOf
<1> HIDE DEF n, c
<1>3. Len(ps) = n - 2 /\ \A i \in 1..(n - 2) : ps[i] = c[i]
  <2>1. Len(ps) = n - 2
    BY <1>1, SubSeqProperties
  <2>2. \A i \in 1..(n - 2) : ps[i] = c[i]
    BY <1>1, SubSeqProperties
  <2> QED BY <2>1, <2>2
<1> HIDE DEF ps
<1>4. ts = [i \in 1..(n - 2) |-> TypeOf(ps[i])]
  BY <1>3 DEF TypesOf
<1> HIDE DEF ts
<1>5. ts \in Seq({TypeOf(ps[i]) : i \in 1..(n - 2)})
  <2>1. n - 2 \in Nat
    BY <1>1
  <2>2. ts \in [1..(n - 2) -> {TypeOf(ps[i]) : i \in 1..(n - 2)}]
    BY <1>4
  <2> QED BY <2>1, <2>2, SeqDef
<1>6. Len(ts) = n - 2
  BY <1>1, <1>4, <1>5, LenProperties
<1>7. \A i \in 1..(n - 2) : ts[i] = TypeOf(Child(here, i))
  BY <1>1, <1>3, <1>4
<1>8. n - 1 \in 1..n
  BY <1>1
<1> QED BY <1>1, <1>2, <1>6, <1>7, <1>8 DEF n, c, ps, ts

\* The parts of a type that is written down.
LEMMA PartsOfTypes ==
  ASSUME NEW tn, Shaped(tn), Len(tn.children) \in Nat,
         tn.kind \in {"array type", "lambda type"}
  PROVE  /\ 1 \in 1..Len(tn.children) /\ Len(tn.children) \in 1..Len(tn.children)
         /\ \A i \in 1..Len(tn.children) : tn.children[i].kind \in TypeKinds
<1> DEFINE last == Len(tn.children)
           Have(places, kinds) == \A i \in places : tn.children[i].kind \in kinds
<1>1. tn.kind \in {"array type", "lambda type"} => last >= 1 /\ Have(1..last, TypeKinds)
  BY Zenon DEF Shaped
<1>2. \A i \in 1..last : tn.children[i].kind \in TypeKinds
  BY <1>1
<1>3. 1 \in 1..last /\ last \in 1..last
  <2>1. last >= 1 /\ last \in Nat
    BY <1>1
  <2>2. ASSUME NEW n \in Nat, n >= 1 PROVE 1 \in 1..n /\ n \in 1..n
    BY ONLY <2>2
  <2> HIDE DEF last
  <2> QED BY <2>1, <2>2, Zenon
<1> QED BY <1>2, <1>3, Zenon DEF last

\* The preprocessor gives every written type, parameter and lambda a complete type.
LEMMA PreprocessorFills ==
  ASSUME NoErrorsYet, Preprocess
  PROVE  Advance /\ Fills
<1> USE DEF NoErrorsYet
<1>1. visitor = "preprocessor"
  BY DEF Preprocess, EnterProgram, VisitBaseType, LeaveArrayType, LeaveLambdaType,
         LeaveLambdaParameter, LeaveLambda, LeaveFunctionDefinition, At
<1>2. Shaped(NodeAt(tree, here)) /\ Kind(here) = NodeAt(tree, here).kind
  BY HereIsWellFormed
<1>3. Len(NodeAt(tree, here).children) \in Nat
  BY TypesOfChildren
<1> DEFINE last == Len(NodeAt(tree, here).children)
<1>4. CASE EnterProgram
  BY <1>4, OpenScopeFills DEF EnterProgram, At
<1>5. CASE VisitBaseType
  <2>1. Kind(here) # "parameter" /\ Infer(here, Base(Token(here)))
    BY <1>5 DEF VisitBaseType, At
  <2>2. Token(here) \in BaseTypes
    <3>1. NodeAt(tree, here).kind = "base type"
      BY <1>2, <1>5 DEF VisitBaseType, At
    <3> QED BY <1>2, <3>1, Zenon DEF Shaped, Token
  <2>3. Complete(Base(Token(here)))
    BY <2>2, BaseIsComplete
  <2> QED BY <2>1, <2>3, InferFills
<1>6. CASE LeaveArrayType
  <2> DEFINE subtype == TypeOf(Child(here, 1))
             checks  == <<Check(subtype = VoidType, here, "void elements")>>
             type    == IF subtype = ErrorType THEN ErrorType ELSE ArrayOf(subtype)
  <2>1. cursor.moment = "leave" /\ Kind(here) = "array type" /\ Examine(checks, type)
    BY <1>6 DEF LeaveArrayType, At
  <2>2. 1 \in 1..last /\ NodeAt(tree, here).children[1].kind \in TypeKinds
    BY <1>2, <1>3, <2>1, PartsOfTypes
  <2>3. Complete(subtype)
    BY <2>1, <2>2, WrittenChild DEF WrittenKinds
  <2> HIDE DEF subtype, checks
  <2>4. Complete(type)
    BY <2>3, ArrayIsComplete, PartsOfComplete
  <2>5. GetsType
    BY <1>1, <2>1 DEF GetsType, WrittenKinds, TypeKinds
  <2> HIDE DEF type
  <2> QED BY <2>1, <2>4, <2>5, ExamineFills
<1>7. CASE LeaveLambdaType
  <2> DEFINE parts == TypesOf(Children(here))
             type  == IF \E i \in 1..Len(parts) : parts[i] = ErrorType THEN ErrorType
                      ELSE LambdaOf(Front(parts), Last(parts))
  <2>1. cursor.moment = "leave" /\ Kind(here) = "lambda type" /\ Infer(here, type)
    BY <1>7 DEF LeaveLambdaType, At
  <2>2. last \in 1..last /\ \A i \in 1..last : NodeAt(tree, here).children[i].kind \in TypeKinds
    BY <1>2, <1>3, <2>1, PartsOfTypes
  <2>3. \A i \in 1..last : Complete(TypeOf(Child(here, i)))
    BY <2>1, <2>2, WrittenChild DEF WrittenKinds
  <2>4. Len(parts) = last /\ \A i \in 1..last : parts[i] = TypeOf(Child(here, i))
    BY TypesOfChildren
  <2>5. Complete(Last(parts))
    BY <2>2, <2>3, <2>4 DEF Last
  <2>6. ~ \E i \in 1..Len(parts) : parts[i] = ErrorType
    BY <2>3, <2>4, PartsOfComplete
  <2> HIDE DEF parts
  <2>7. Complete(type)
    BY <2>5, <2>6, LambdaIsComplete
  <2> HIDE DEF type
  <2> QED BY <2>1, <2>7, InferFills
<1>8. CASE LeaveLambdaParameter
  <2> DEFINE type == TypeOf(Child(here, 1))
  <2>1. cursor.moment = "leave" /\ Kind(here) = "parameter"
    BY <1>8 DEF LeaveLambdaParameter, At
  <2>2. ~Refuse(Child(here, 1), "void parameter")
    BY DEF Refuse
  <2>3. /\ types' = With(With(types, here, type), Child(here, 2), type)
        /\ Advance /\ UNCHANGED <<table, bindings>>
    BY <1>8, <2>2 DEF LeaveLambdaParameter
  <2>4. 1 \in 1..last /\ NodeAt(tree, here).children[1].kind \in TypeKinds
    BY <1>2, <1>3, <2>1 DEF Shaped
  <2>5. Complete(type)
    BY <2>1, <2>4, WrittenChild DEF WrittenKinds
  <2> HIDE DEF type
  <2>6. /\ DOMAIN types' = DOMAIN types \cup {here, Child(here, 2)}
        /\ \A p \in DOMAIN types' : types'[p] = type \/ (p \in DOMAIN types /\ types'[p] = types[p])
    BY <2>3 DEF With
  <2>7. /\ \A p \in DOMAIN types : Complete(types[p])
        /\ \A s \in DOMAIN table : \A name \in DOMAIN table[s] : Complete(table[s][name].type)
        /\ BindingsOK(bindings)
    BY DEF TypesInv
  <2>8. \A p \in DOMAIN types' : Complete(types'[p])
    BY <2>5, <2>6, <2>7
  <2> QED BY <1>1, <2>1, <2>3, <2>6, <2>7, <2>8 DEF Fills
<1>9. CASE LeaveLambda
  <2> DEFINE parameters == TypesOf(ParametersOf(here))
             type       == LambdaOf(parameters, TypeOf(ReturnTypeOf(here)))
  <2>1. cursor.moment = "leave" /\ Kind(here) = "lambda"
    BY <1>9 DEF LeaveLambda, At
  <2>2. /\ last >= 2 /\ last - 1 \in 1..last
        /\ \A i \in 1..(last - 2) : NodeAt(tree, here).children[i].kind = "parameter"
        /\ NodeAt(tree, here).children[last - 1].kind \in TypeKinds
    BY <1>2, <1>3, <2>1 DEF Shaped
  <2>3. Complete(TypeOf(Child(here, last - 1)))
    BY <2>1, <2>2, WrittenChild DEF WrittenKinds
  <2>4. \A i \in 1..(last - 2) : TypeOf(Child(here, i)) # Null
    <3> SUFFICES ASSUME NEW i \in 1..(last - 2) PROVE TypeOf(Child(here, i)) # Null
      OBVIOUS
    <3>1. i \in 1..last /\ NodeAt(tree, here).children[i].kind = "parameter"
      BY <1>3, <2>2
    <3>2. Complete(TypeOf(Child(here, i)))
      BY <2>1, <3>1, WrittenChild DEF WrittenKinds
    <3> QED BY <3>2, PartsOfComplete
  <2>5. /\ ReturnTypeOf(here) = Child(here, last - 1)
        /\ Len(parameters) = last - 2
        /\ \A i \in 1..(last - 2) : parameters[i] = TypeOf(Child(here, i))
    BY <2>2, PartsOfLambda
  <2>6. ~(\E i \in 1..Len(parameters) : parameters[i] = Null)
    BY <2>4, <2>5
  <2>7. Infer(here, type)
    BY <1>9, <2>6 DEF LeaveLambda
  <2> HIDE DEF parameters
  <2>8. Complete(type)
    BY <2>3, <2>5, LambdaIsComplete
  <2> HIDE DEF type
  <2> QED BY <2>1, <2>7, <2>8, InferFills
<1>10. CASE LeaveFunctionDefinition
  <2> DEFINE p == Child(here, 1)
             type == TypeOf(Child(here, 2))
             newTypes == With(types, p, type)
  <2>1. /\ cursor.moment = "leave" /\ Kind(here) = "function"
        /\ Declare(p, Entry(FALSE, type, "function"), newTypes, errors)
    BY <1>10 DEF LeaveFunctionDefinition, At
  <2>2. 2 \in 1..last /\ NodeAt(tree, here).children[2].kind = "lambda"
    BY <1>2, <1>3, <2>1 DEF Shaped
  <2>3. Complete(type)
    BY <2>1, <2>2, WrittenChild DEF WrittenKinds
  <2> HIDE DEF type, p
  <2>4. /\ DOMAIN newTypes = DOMAIN types \cup {p}
        /\ \A q \in DOMAIN newTypes : newTypes[q] = type \/ (q \in DOMAIN types /\ newTypes[q] = types[q])
    BY DEF With
  <2>5. \A q \in DOMAIN types : Complete(types[q])
    BY DEF TypesInv
  <2> HIDE DEF newTypes
  <2>6. DOMAIN types \subseteq DOMAIN newTypes /\ \A q \in DOMAIN newTypes : Complete(newTypes[q])
    BY <2>3, <2>4, <2>5
  <2>7. Kind(here) \notin WrittenKinds
    BY <2>1 DEF WrittenKinds, TypeKinds
  <2> QED BY <1>1, <2>1, <2>3, <2>6, <2>7, DeclareFills
<1> QED BY <1>4, <1>5, <1>6, <1>7, <1>8, <1>9, <1>10 DEF Preprocess

\* An identifier that is found takes a complete type from its symbol table entry.
LEMMA IdentifierFills ==
  ASSUME NoErrorsYet, VisitIdentifier
  PROVE  Advance /\ Fills
<1> USE DEF NoErrorsYet
<1> DEFINE found == FindSymbolTableEntry(here)
<1>1. visitor = "visitor" /\ cursor.moment = "visit" /\ Kind(here) = "identifier" /\ here \in Path
  BY DEF VisitIdentifier, At, WalkInv, NodesOf
<1>2. CASE (IsBeingDeclared(here) \/ IsParameterIdentifier(here)) /\ Pass
  BY <1>1, <1>2, PassFills DEF IsValue
<1>3. CASE Declare(here, Entry(FALSE, ErrorType, "variable"), With(types, here, ErrorType),
                   errors \cup {<<here, "undefined">>})
  <2>1. errors' # {}
    BY <1>3 DEF Declare
  <2> QED BY <2>1
<1>4. CASE /\ found # NoEntry
           /\ types' = With(types, here, EntryAt(found).type)
           /\ Advance
           /\ UNCHANGED <<table, bindings, errors>>
  <2> DEFINE type == EntryAt(found).type
  <2>1. PICK s \in DOMAIN table : found = <<s, Token(here)>> /\ Token(here) \in DOMAIN table[s]
    BY <1>1, <1>4, FoundIsThere
  <2>2. found[1] = s /\ found[2] = Token(here)
    BY <2>1
  <2>3. type = table[s][Token(here)].type
    BY <2>2 DEF EntryAt
  <2>4. Complete(type)
    BY <2>1, <2>3 DEF TypesInv
  <2>5. types' = With(types, here, type) /\ Advance /\ UNCHANGED <<table, bindings>>
    BY <1>4
  <2> HIDE DEF type, found
  <2>6. /\ DOMAIN types' = DOMAIN types \cup {here}
        /\ \A q \in DOMAIN types' : types'[q] = type \/ (q \in DOMAIN types /\ types'[q] = types[q])
    BY <2>5 DEF With
  <2>7. /\ \A p \in DOMAIN types : Complete(types[p])
        /\ \A t \in DOMAIN table : \A name \in DOMAIN table[t] : Complete(table[t][name].type)
        /\ BindingsOK(bindings)
    BY DEF TypesInv
  <2>8. \A p \in DOMAIN types' : Complete(types'[p])
    BY <2>4, <2>6, <2>7
  <2> QED BY <1>1, <2>5, <2>6, <2>7, <2>8 DEF Fills
<1> QED BY <1>2, <1>3, <1>4 DEF VisitIdentifier

\* An operator has operands with types, and a complete type if there is a signature.
LEMMA OperatorFills ==
  ASSUME NoErrorsYet, LeaveOperator
  PROVE  /\ Advance /\ Fills
         /\ \A p : p = here => IsTypeOf(Token(p), TypesOf(Children(p))[1], TypeOf(p)')
<1> USE DEF NoErrorsYet
<1> DEFINE operands == TypesOf(Children(here))
           target   == IF Token(here) = "=" THEN TargetChecks(Child(here, 1)) ELSE <<>>
           found    == AcceptingSignature(Token(here), operands, bindings)
           type     == IF found.type = Null THEN ErrorType ELSE found.type
           last     == Len(NodeAt(tree, here).children)
<1>1. visitor = "visitor" /\ cursor.moment = "leave" /\ Kind(here) = "operator"
  BY DEF LeaveOperator, At
<1>2. /\ Shaped(NodeAt(tree, here)) /\ Kind(here) = NodeAt(tree, here).kind
      /\ Token(here) = NodeAt(tree, here).token
  BY HereIsWellFormed DEF Token
<1>3. /\ Token(here) \in Operators
      /\ \A i \in 1..last : NodeAt(tree, here).children[i].kind \in Expressions
  <2> DEFINE tn == NodeAt(tree, here)
             Have(places, kinds) == \A i \in places : tn.children[i].kind \in kinds
  <2>1. tn.kind = "operator" /\ Shaped(tn)
    BY <1>1, <1>2
  <2> HIDE DEF tn
  <2>2. tn.kind \in {"operator", "array", "return"} => Have(1..Len(tn.children), Expressions)
    BY <2>1, Zenon DEF Shaped
  <2>3. tn.token \in Operators
    BY <2>1, Zenon DEF Shaped
  <2> QED BY <1>2, <2>1, <2>2, <2>3 DEF tn
<1>4. \A i \in 1..last : Complete(TypeOf(Child(here, i)))
  BY <1>1, <1>3, ValueChild
<1>5. Len(operands) = last /\ \A i \in 1..last : operands[i] = TypeOf(Child(here, i))
  BY TypesOfChildren
<1>6. \A i \in 1..Len(operands) : Complete(operands[i])
  BY <1>4, <1>5
<1> HIDE DEF operands, last
<1>7. Unknown(operands) = {}
  BY <1>6, PartsOfComplete DEF Unknown
<1>8. ~Verdict(target)
  <2>1. \A p, what : ~Refuse(p, what)
    BY DEF Refuse
  <2> QED BY <2>1 DEF Verdict
<1>9. /\ bindings' = found.bindings
      /\ types' = With(types, here, type)
      /\ errors' = errors \cup (IF found.type = Null THEN {<<here, "operand types">>} ELSE {})
      /\ Advance
      /\ UNCHANGED <<table, entries>>
  BY <1>7, <1>8 DEF LeaveOperator, operands
<1>10. found.type # Null /\ type = found.type
  BY <1>9
<1>11. BindingsOK(found.bindings) /\ Complete(found.type) /\ IsTypeOf(Token(here), operands[1], found.type)
  <2>1. BindingsOK(bindings)
    BY DEF TypesInv
  <2> QED BY <1>3, <1>6, <1>10, <2>1, OperationsAreComplete
<1>12. Fills
  <2>1. Complete(type)
    BY <1>10, <1>11
  <2> HIDE DEF found, type
  <2>2. /\ DOMAIN types' = DOMAIN types \cup {here}
        /\ \A q \in DOMAIN types' : types'[q] = type \/ (q \in DOMAIN types /\ types'[q] = types[q])
    BY <1>9 DEF With
  <2>3. /\ \A p \in DOMAIN types : Complete(types[p])
        /\ \A t \in DOMAIN table : \A name \in DOMAIN table[t] : Complete(table[t][name].type)
    BY DEF TypesInv
  <2>4. \A p \in DOMAIN types' : Complete(types'[p])
    BY <2>1, <2>2, <2>3
  <2> QED BY <1>1, <1>9, <1>11, <2>2, <2>3, <2>4 DEF Fills
<1> HIDE DEF found, type, target
<1>13. \A p : p = here => TypeOf(p)' = type
  BY <1>9, TypesWith
<1>14. IsTypeOf(Token(here), operands[1], type)
  BY <1>10, <1>11
<1>15. \A p : p = here => IsTypeOf(Token(p), TypesOf(Children(p))[1], TypeOf(p)')
  <2> TAKE p
  <2> HAVE p = here
  <2> QED BY <1>13, <1>14 DEF operands
<1> QED BY <1>9, <1>12, <1>15

\* Names are declared with complete types.
LEMMA VariablesFill ==
  ASSUME NoErrorsYet, LeaveParameter \/ LeaveDeclaration
  PROVE  Advance /\ Fills
<1> USE DEF NoErrorsYet
<1>1. visitor = "visitor" /\ cursor.moment = "leave" /\ Kind(here) \in {"parameter", "declaration"}
      /\ ~IsValue(here)
  BY DEF LeaveParameter, LeaveDeclaration, At, IsValue, Expressions
<1>2. Shaped(NodeAt(tree, here)) /\ Kind(here) = NodeAt(tree, here).kind
      /\ Len(NodeAt(tree, here).children) \in Nat
  BY HereIsWellFormed, TypesOfChildren
<1>3. \A q \in DOMAIN types : Complete(types[q])
  BY DEF TypesInv
<1>4. CASE LeaveParameter
  <2> DEFINE p == Child(here, 2)
             type == TypeOf(Child(here, 2))
  <2>1. Kind(here) = "parameter" /\ Declare(p, Entry(TRUE, type, "variable"), types, errors)
    BY <1>4 DEF LeaveParameter, At
  <2>2. here \in NodesOf(tree)
    BY DEF WalkInv
  <2>3. p \in DOMAIN types
    BY <1>1, <2>1, <2>2 DEF TypesInv
  <2>4. Complete(type)
    BY <1>3, <2>3 DEF TypeOf
  <2> HIDE DEF p, type
  <2> QED BY <1>1, <1>3, <2>1, <2>4, DeclareFills
<1>5. CASE LeaveDeclaration
  <2> DEFINE p == Child(here, 1)
             type == TypeOf(Child(here, 2))
             mutable == Token(here) = "var"
             newTypes == With(types, p, type)
  <2>1. Kind(here) = "declaration"
    BY <1>5 DEF LeaveDeclaration, At
  <2>2. 2 \in 1..Len(NodeAt(tree, here).children) /\ NodeAt(tree, here).children[2].kind \in Expressions
    BY <1>2, <2>1 DEF Shaped
  <2>3. Complete(type)
    BY <1>1, <2>1, <2>2, ValueChild
  <2>4. type # Null
    BY <2>3, PartsOfComplete
  <2>5. ~Refuse(here, "void declaration")
    BY DEF Refuse
  <2>6. Declare(p, Entry(mutable, type, "variable"), newTypes, errors)
    BY <1>5, <2>4, <2>5 DEF LeaveDeclaration
  <2> HIDE DEF p, type, mutable
  <2>7. /\ DOMAIN newTypes = DOMAIN types \cup {p}
        /\ \A q \in DOMAIN newTypes : newTypes[q] = type \/ (q \in DOMAIN types /\ newTypes[q] = types[q])
    BY DEF With
  <2> HIDE DEF newTypes
  <2>8. DOMAIN types \subseteq DOMAIN newTypes /\ \A q \in DOMAIN newTypes : Complete(newTypes[q])
    BY <1>3, <2>3, <2>7
  <2> QED BY <1>1, <2>3, <2>6, <2>8, DeclareFills
<1> QED BY <1>4, <1>5

\* Nodes that use values, and give themselves a complete type or none.
LEMMA UsersFill ==
  ASSUME NoErrorsYet,
         LeaveLambdaInvocation \/ LeaveLambdaBody \/ LeaveAlloc \/ LeaveConditional \/ LeavePrint
           \/ LeaveDealloc
  PROVE  Advance /\ Fills
<1> USE DEF NoErrorsYet
<1>1. visitor = "visitor" /\ cursor.moment = "leave" /\ Kind(here) \notin {"identifier", "parameter"}
  BY DEF LeaveLambdaInvocation, LeaveLambdaBody, LeaveAlloc, LeaveConditional, LeavePrint,
         LeaveDealloc, At
<1>2. \A p : TypeOf(p) # Null => Complete(TypeOf(p))
  BY DEF TypesInv, TypeOf
<1>3. ~IsArray(Null) /\ ~IsLambda(Null)
  BY KindsOfTypes
<1>4. ASSUME NEW checks, Examine(checks, Null), IsValue(here) => here \in DOMAIN types
      PROVE  Advance /\ Fills
  BY <1>1, <1>4, ExamineFills
<1>5. ASSUME NEW checks, NEW type, Examine(checks, type), ~Fails(checks) => Complete(type),
             Kind(here) \in {"invocation", "alloc"}
      PROVE  Advance /\ Fills
  <2>1. GetsType
    BY <1>1, <1>5 DEF GetsType, ValueKinds, Expressions
  <2> QED BY <1>1, <1>5, <2>1, ExamineFills
<1>6. CASE LeaveLambdaInvocation
  <2> DEFINE callee == TypeOf(Child(here, 1))
             arguments == TypesOf(Tail(Children(here)))
             checks == <<Check(~IsLambda(callee), here, "not a lambda"),
                         Check(IsLambda(callee) /\ callee.parameters # arguments, here, "arguments")>>
             type == IF IsLambda(callee) THEN callee.result ELSE Null
  <2>1. Examine(checks, type) /\ Kind(here) = "invocation"
    BY <1>6 DEF LeaveLambdaInvocation, At
  <2>2. ~Fails(checks) => IsLambda(callee)
    <3> SUFFICES ASSUME ~IsLambda(callee) PROVE Fails(checks)
      OBVIOUS
    <3>1. 1 \in 1..Len(checks)
      OBVIOUS
    <3>2. checks[1].wrong
      BY DEF Check
    <3> HIDE DEF checks, callee
    <3> QED BY <3>1, <3>2, Zenon DEF Fails
  <2>3. IsLambda(callee) => Complete(callee.result)
    BY <1>2, <1>3, PartsOfComplete
  <2> HIDE DEF checks, callee
  <2>4. ~Fails(checks) => Complete(type)
    BY <2>2, <2>3
  <2> HIDE DEF type
  <2> QED BY <1>5, <2>1, <2>4
<1>7. CASE LeaveLambdaBody
  <2>1. Kind(here) = "lambda" /\ \E checks : Examine(checks, Null)
    BY <1>7 DEF LeaveLambdaBody, At
  <2>2. here \in DOMAIN types
    BY <1>1, <2>1 DEF TypesInv, WalkInv, WrittenKinds
  <2> QED BY <1>4, <2>1, <2>2
<1>8. CASE LeaveAlloc
  <2> DEFINE type == TypeOf(Child(here, 1))
             checks == <<Check(~IsArray(type), here, "not an array"),
                         Check(Subtype(type) = VoidType, here, "void elements"),
                         Check(TypeOf(Child(here, 2)) # IntegerType, here, "size")>>
  <2>1. Examine(checks, type) /\ Kind(here) = "alloc"
    BY <1>8 DEF LeaveAlloc, At
  <2>2. ~Fails(checks) => IsArray(type)
    <3> SUFFICES ASSUME ~IsArray(type) PROVE Fails(checks)
      OBVIOUS
    <3>1. 1 \in 1..Len(checks)
      OBVIOUS
    <3>2. checks[1].wrong
      BY DEF Check
    <3> HIDE DEF checks, type
    <3> QED BY <3>1, <3>2, Zenon DEF Fails
  <2>3. IsArray(type) => Complete(type)
    BY <1>2, <1>3
  <2> HIDE DEF checks, type
  <2> QED BY <1>5, <2>1, <2>2, <2>3
<1>9. CASE LeaveConditional \/ LeavePrint \/ LeaveDealloc
  <2>1. Kind(here) \in {"if", "while", "for", "print", "dealloc"} /\ \E checks : Examine(checks, Null)
    BY <1>9 DEF LeaveConditional, LeavePrint, LeaveDealloc, At
  <2>2. ~IsValue(here)
    BY <2>1 DEF IsValue, Expressions
  <2> QED BY <1>4, <2>1, <2>2
<1> QED BY <1>6, <1>7, <1>8, <1>9

\* What is returned and what arrays are populated with has types.
LEMMA OperandsAreThere ==
  ASSUME NoErrorsYet, visitor = "visitor", cursor.moment = "leave", Kind(here) \in {"array", "return"}
  PROVE  /\ \A i \in 1..Len(TypesOf(Children(here))) : Complete(TypesOf(Children(here))[i])
         /\ Kind(here) = "array" => Complete(TypesOf(Children(here))[1])
<1> USE DEF NoErrorsYet
<1> DEFINE tn == NodeAt(tree, here)
           n    == Len(NodeAt(tree, here).children)
           Have(places, kinds) == \A i \in places : tn.children[i].kind \in kinds
<1>1. Shaped(tn) /\ Kind(here) = tn.kind
  BY HereIsWellFormed
<1> HIDE DEF tn
<1>2. tn.kind \in {"operator", "array", "return"} => Have(1..Len(tn.children), Expressions)
  BY <1>1, Zenon DEF Shaped
<1>3. tn.kind = "array" => Len(tn.children) >= 1
  BY <1>1, Zenon DEF Shaped
<1>4. \A i \in 1..n : NodeAt(tree, here).children[i].kind \in Expressions
  BY <1>1, <1>2 DEF tn
<1>5. \A i \in 1..n : Complete(TypeOf(Child(here, i)))
  BY <1>4, ValueChild
<1>6. Len(TypesOf(Children(here))) = n /\ n \in Nat
      /\ \A i \in 1..n : TypesOf(Children(here))[i] = TypeOf(Child(here, i))
  BY TypesOfChildren
<1>7. Kind(here) = "array" => n >= 1
  BY <1>1, <1>3 DEF tn
<1> HIDE DEF n
<1>8. \A i \in 1..n : Complete(TypesOf(Children(here))[i])
  BY <1>5, <1>6
<1>9. n \in Nat /\ n >= 1 => 1 \in 1..n
  OBVIOUS
<1> QED BY <1>6, <1>7, <1>8, <1>9

LEMMA ValuesFill ==
  ASSUME NoErrorsYet, LeavePopulatedArray \/ LeaveReturn
  PROVE  Advance /\ Fills
<1> USE DEF NoErrorsYet
<1> DEFINE elements == TypesOf(Children(here))
<1>1. visitor = "visitor" /\ cursor.moment = "leave" /\ Kind(here) \in {"array", "return"}
  BY DEF LeavePopulatedArray, LeaveReturn, At
<1>2. /\ \A i \in 1..Len(elements) : Complete(elements[i])
      /\ Kind(here) = "array" => Complete(elements[1])
  BY <1>1, OperandsAreThere
<1> HIDE DEF elements
<1>3. CASE LeavePopulatedArray
  <2> DEFINE type == ArrayOf(elements[1])
  <2>1. Complete(elements[1]) /\ elements[1] # Null
    BY <1>2, <1>3, PartsOfComplete DEF LeavePopulatedArray, At
  <2>2. \E checks : Examine(checks, type)
    BY <1>3, <2>1 DEF LeavePopulatedArray, elements
  <2>3. Complete(type)
    BY <2>1, ArrayIsComplete
  <2>4. GetsType
    BY <1>1, <1>3 DEF LeavePopulatedArray, At, GetsType, ValueKinds, Expressions
  <2> HIDE DEF type
  <2> QED BY <1>1, <2>2, <2>3, <2>4, ExamineFills
<1>4. CASE LeaveReturn
  <2>1. Kind(here) = "return" /\ ~IsValue(here)
    BY <1>4 DEF LeaveReturn, At, IsValue, Expressions
  <2>2. elements # <<Null>>
    <3> SUFFICES ASSUME elements = <<Null>> PROVE FALSE
      OBVIOUS
    <3>1. Len(elements) = 1 /\ elements[1] = Null
      OBVIOUS
    <3>2. Complete(Null)
      BY <1>2, <3>1
    <3> QED BY <3>2, PartsOfComplete
  <2>3. \E checks : Examine(checks, Null)
    BY <1>4, <2>2 DEF LeaveReturn, elements
  <2> QED BY <1>1, <2>1, <2>3, ExamineFills
<1> QED BY <1>3, <1>4

\* The visitor gives every expression a complete type.
LEMMA VisitorFills ==
  ASSUME NoErrorsYet, Visit
  PROVE  Advance /\ Fills
<1> USE DEF NoErrorsYet
<1>1. CASE EnterScope
  BY <1>1, OpenScopeFills DEF EnterScope, At
<1>2. CASE VisitLiteral
  <2>1. visitor = "visitor" /\ Infer(here, Base(Kind(here)))
    BY <1>2 DEF VisitLiteral, At
  <2>2. Complete(Base(Kind(here)))
    BY <1>2, BaseIsComplete DEF VisitLiteral, At, BaseTypes
  <2> QED BY <2>1, <2>2, InferFills
<1> QED BY <1>1, <1>2, IdentifierFills, OperatorFills, VariablesFill, UsersFill, ValuesFill DEF Visit

\* The calls that do nothing are for nodes without a type, or have one.
LEMMA SkipFills ==
  ASSUME NoErrorsYet, Skip
  PROVE  Advance /\ Fills
<1> USE DEF NoErrorsYet
<1>1. /\ Kind(here) \notin Handled[visitor][cursor.moment] /\ Pass
      /\ visitor \in {"preprocessor", "visitor"} /\ cursor.moment \in Moments
      /\ cursor.moment = "visit" => Kind(here) \in LeafKinds
      /\ cursor.moment # "visit" => Kind(here) \notin LeafKinds
  BY DEF Skip, WalkInv, LeafInv
<1>2. CASE cursor.moment = "enter"
  BY <1>1, <1>2, PassFills
<1>3. CASE visitor = "preprocessor" /\ cursor.moment # "enter"
  <2>1. Kind(here) \notin WrittenKinds
    <3>1. /\ Handled.preprocessor.visit = {"base type"}
          /\ Handled.preprocessor.leave = {"array type", "lambda type", "parameter", "lambda", "function"}
      BY DEF Handled
    <3>2. CASE cursor.moment = "visit"
      <4>1. Kind(here) # "base type" /\ Kind(here) \in LeafKinds
        BY <1>1, <1>3, <3>1, <3>2
      <4> QED BY <4>1 DEF WrittenKinds, TypeKinds, LeafKinds
    <3>3. CASE cursor.moment = "leave"
      <4>1. /\ Kind(here) \notin {"array type", "lambda type", "parameter", "lambda", "function"}
            /\ Kind(here) \notin LeafKinds
        BY <1>1, <1>3, <3>1, <3>3
      <4> QED BY <4>1 DEF WrittenKinds, TypeKinds, LeafKinds
    <3> QED BY <1>1, <1>3, <3>2, <3>3 DEF Moments
  <2> QED BY <1>1, <1>3, <2>1, PassFills
<1>4. CASE visitor = "visitor" /\ cursor.moment # "enter"
  <2>1. Kind(here) \notin Expressions
    <3>1. /\ Handled.visitor.visit = {"identifier", "bool", "char", "int", "float", "string"}
          /\ {"operator", "invocation", "lambda", "alloc", "array"} \subseteq Handled.visitor.leave
      BY DEF Handled
    <3>2. CASE cursor.moment = "visit"
      <4>1. /\ Kind(here) \notin {"identifier", "bool", "char", "int", "float", "string"}
            /\ Kind(here) \in LeafKinds
        BY <1>1, <1>4, <3>1, <3>2
      <4> QED BY <4>1 DEF Expressions, LeafKinds
    <3>3. CASE cursor.moment = "leave"
      <4>1. /\ Kind(here) \notin {"operator", "invocation", "lambda", "alloc", "array"}
            /\ Kind(here) \notin LeafKinds
        BY <1>1, <1>4, <3>1, <3>3
      <4> QED BY <4>1 DEF Expressions, LeafKinds
    <3> QED BY <1>1, <1>4, <3>2, <3>3 DEF Moments
  <2>2. ~IsValue(here)
    BY <2>1 DEF IsValue
  <2> QED BY <1>1, <1>4, <2>2, PassFills
<1> QED BY <1>1, <1>2, <1>3, <1>4

\* A step that logs nothing is a call that fills in types.
LEMMA StepFills ==
  ASSUME WalkInv, LeafInv, ScopesInv, TypesInv, Next, errors' = {}
  PROVE  errors = {} /\ Advance /\ Fills
<1>1. errors = {}
  BY Effects, ErrorsStay DEF Crash
<1>2. NoErrorsYet
  BY <1>1 DEF NoErrorsYet
<1> QED BY <1>1, <1>2, PreprocessorFills, VisitorFills, SkipFills DEF Next

LEMMA TypesInit == Init => TypesInv
<1> SUFFICES ASSUME Init PROVE TypesInv
  OBVIOUS
<1>1. /\ types = <<>> /\ table = <<>> /\ bindings = Unbound
      /\ visitor = "preprocessor" /\ here = <<>> /\ cursor.moment = "enter"
  BY RootIsProgram, WalkInit DEF Init, Start, Cursor, here, LeafKinds, Kind
<1>2. DOMAIN types = {} /\ DOMAIN table = {}
  BY <1>1
<1>3. BindingsOK(bindings)
  BY <1>1 DEF BindingsOK, Unbound
<1>4. \A p \in NodesOf(tree) : ~IsLeft(p, here, cursor.moment)
  BY <1>1, NothingAtTheBegin DEF NodesOf
<1> QED BY <1>1, <1>2, <1>3, <1>4 DEF TypesInv

LEMMA TypesStep == WalkInv /\ LeafInv /\ ScopesInv /\ TypesInv /\ [Next]_vars => TypesInv'
<1> SUFFICES ASSUME WalkInv, LeafInv, ScopesInv, TypesInv, [Next]_vars PROVE TypesInv'
  OBVIOUS
<1>1. CASE UNCHANGED vars
  BY <1>1 DEF vars, TypesInv, Kind, here, IsValue, IsBeingDeclared, IsParameterIdentifier
<1>2. CASE Next
  <2> SUFFICES ASSUME errors' = {} PROVE TypesInv'
    BY DEF TypesInv
  <2>1. errors = {} /\ Advance /\ Fills
    BY <1>2, StepFills
  <2>2. tree' = tree /\ (GoesOn \/ TurnsRound \/ Finishes)
    BY <2>1, AdvanceWalks
  <2>3. \A q : Kind(q)' = Kind(q) /\ IsValue(q)' = IsValue(q)
    BY <2>2 DEF Kind, IsValue, IsBeingDeclared, IsParameterIdentifier
  <2>4. DOMAIN types \subseteq DOMAIN types' /\ cursor.moment \in Moments
    BY <2>1 DEF Fills, WalkInv
  <2> DEFINE Written(p, set) == /\ Kind(p) \in WrittenKinds => p \in set
                                /\ Kind(p) = "parameter" => Child(p, 2) \in set
  <2>5. /\ \A p \in NodesOf(tree) : visitor = "visitor" \/ IsLeft(p, here, cursor.moment) =>
             Written(p, DOMAIN types)
        /\ \A p \in NodesOf(tree) : visitor = "visitor" /\ IsLeft(p, here, cursor.moment) =>
             (IsValue(p) => p \in DOMAIN types)
    BY <2>1 DEF TypesInv
  <2>6. ASSUME NEW p \in NodesOf(tree), visitor' = "visitor" \/ IsLeft(p, here', cursor'.moment)
        PROVE  Written(p, DOMAIN types')
    <3>1. p \in Path
      BY DEF NodesOf
    <3>2. CASE visitor = "visitor" \/ IsLeft(p, here, cursor.moment)
      BY <2>4, <2>5, <3>2
    <3>3. CASE GoesOn
      <4>1. visitor' = visitor /\ (visitor = "visitor" \/ IsLeft(p, here, cursor.moment)
                                     \/ (p = here /\ cursor.moment # "enter"))
        BY <2>6, <3>1, <3>3 DEF GoesOn, Moves
      <4>2. CASE visitor = "preprocessor" /\ p = here /\ cursor.moment # "enter"
        BY <2>1, <4>2 DEF Fills
      <4> QED BY <3>2, <4>1, <4>2 DEF WalkInv
    <3>4. CASE TurnsRound
      <4>1. here = <<>> /\ cursor.moment = "leave"
        BY <3>4 DEF TurnsRound
      <4>2. CASE p # <<>>
        BY <3>1, <3>2, <4>1, <4>2, AllIsLeftAtTheEnd
      <4>3. CASE p = <<>>
        <5>1. Kind(p) = "program"
          BY <4>3, RootIsProgram
        <5> QED BY <5>1 DEF WrittenKinds, TypeKinds
      <4> QED BY <4>2, <4>3
    <3>5. CASE Finishes
      BY <3>2, <3>5 DEF Finishes
    <3> QED BY <2>2, <3>3, <3>4, <3>5
  <2>7. ASSUME NEW p \in NodesOf(tree), visitor' = "visitor", IsLeft(p, here', cursor'.moment),
               IsValue(p)
        PROVE  p \in DOMAIN types'
    <3>1. p \in Path
      BY DEF NodesOf
    <3>2. CASE visitor = "visitor" /\ IsLeft(p, here, cursor.moment)
      BY <2>4, <2>5, <2>7, <3>2
    <3>3. CASE GoesOn
      <4>1. visitor = "visitor" /\ (IsLeft(p, here, cursor.moment)
                                     \/ (p = here /\ cursor.moment # "enter"))
        BY <2>7, <3>1, <3>3 DEF GoesOn, Moves
      <4>2. CASE p = here /\ cursor.moment # "enter"
        BY <2>1, <2>7, <4>1, <4>2 DEF Fills
      <4> QED BY <3>2, <4>1, <4>2
    <3>4. CASE TurnsRound
      BY <2>7, <3>1, <3>4, NothingAtTheBegin DEF TurnsRound
    <3>5. CASE Finishes
      <4>1. here' = here /\ cursor' = cursor /\ visitor = "visitor"
        BY <3>5 DEF Finishes, here
      <4> QED BY <2>7, <3>2, <4>1
    <3> QED BY <2>2, <3>3, <3>4, <3>5
  <2>8. /\ \A p \in DOMAIN types' : Complete(types'[p])
        /\ \A s \in DOMAIN table' : \A name \in DOMAIN table'[s] : Complete(table'[s][name].type)
        /\ BindingsOK(bindings')
    BY <2>1 DEF Fills
  <2>9. \A p \in NodesOf(tree') : visitor' = "visitor" \/ IsLeft(p, here', cursor'.moment) =>
          /\ Kind(p)' \in WrittenKinds => p \in DOMAIN types'
          /\ Kind(p)' = "parameter" => Child(p, 2) \in DOMAIN types'
    BY <2>2, <2>3, <2>6
  <2>10. \A p \in NodesOf(tree') : visitor' = "visitor" /\ IsLeft(p, here', cursor'.moment) =>
           (IsValue(p)' => p \in DOMAIN types')
    BY <2>2, <2>3, <2>7
  <2> QED BY <2>8, <2>9, <2>10 DEF TypesInv
<1> QED BY <1>1, <1>2

\* Where the analyzer could follow the type of a node that has none, an error was logged.
LEMMA CrashesStep ==
  ASSUME WalkInv, LeafInv, ScopesInv, TypesInv, CrashesOnlyBehindErrors, [Next]_vars
  PROVE  CrashesOnlyBehindErrors'
<1>1. CASE UNCHANGED vars
  BY <1>1 DEF vars, CrashesOnlyBehindErrors
<1>2. CASE Next
  <2> SUFFICES ASSUME errors' = {} PROVE status' # "crashed"
    BY DEF CrashesOnlyBehindErrors
  <2>1. errors = {} /\ Advance
    BY <1>2, StepFills
  <2>2. status # "crashed"
    BY <2>1 DEF CrashesOnlyBehindErrors
  <2>3. status' = status \/ status' = "done"
    BY <2>1 DEF Advance
  <2> QED BY <2>2, <2>3
<1> QED BY <1>1, <1>2

\* CrashesOnlyBehindErrors, of all programs: in a program without errors every node whose
\* type the analyzer follows has one.
THEOREM CrashesComeBehindErrors == Spec => []CrashesOnlyBehindErrors
<1>1. Init => WalkInv /\ LeafInv /\ ScopesInv /\ TypesInv /\ CrashesOnlyBehindErrors
  <2>1. Init => CrashesOnlyBehindErrors
    BY DEF Init, CrashesOnlyBehindErrors
  <2> QED BY <2>1, WalkInit, LeafInit, ScopesInit, TypesInit
<1>2. /\ WalkInv /\ LeafInv /\ ScopesInv /\ TypesInv /\ CrashesOnlyBehindErrors /\ [Next]_vars
      => (WalkInv /\ LeafInv /\ ScopesInv /\ TypesInv /\ CrashesOnlyBehindErrors)'
  BY WalkStep, LeafStep, ScopesStep, TypesStep, CrashesStep
<1> QED BY <1>1, <1>2, PTL DEF Spec
-----------------------------------------------------------------------------
(* Types mean what code generation takes them for.                         *)

\* Of the types of nodes, a step without errors changes those at the cursor.
LEMMA TypesAreKept ==
  ASSUME NoErrorsYet, Next
  PROVE  /\ Advance /\ Fills /\ tree' = tree
         /\ DOMAIN entries \subseteq DOMAIN entries'
         /\ \A q : TypeOf(q)' = TypeOf(q) \/ GetsTyped(q)
<1> USE DEF NoErrorsYet
<1>1. errors = {} /\ Advance /\ Fills
  BY StepFills
<1>2. tree' = tree
  BY <1>1, AdvanceWalks
<1>3. CASE Crash
  BY <1>1, <1>2, <1>3 DEF Crash, TypeOf
<1>4. SUFFICES ASSUME SetsTypes \/ Opens \/ DeclaresName \/ DeclaresUnknown \/ Resolves
               PROVE  /\ DOMAIN entries \subseteq DOMAIN entries'
                      /\ \A q : TypeOf(q)' = TypeOf(q) \/ GetsTyped(q)
  BY <1>1, <1>2, <1>3, Effects
<1>5. DOMAIN entries \subseteq DOMAIN entries'
  <2>1. CASE entries' = entries
    BY <2>1
  <2>2. ASSUME NEW q, NEW e, entries' = With(entries, q, e) PROVE DOMAIN entries \subseteq DOMAIN entries'
    BY <2>2 DEF With
  <2> QED BY <1>4, <2>1, <2>2, EntriesAfter
<1>6. \A q : TypeOf(q)' = TypeOf(q) \/ GetsTyped(q)
  <2> TAKE q
  <2>1. TypeOf(q)' # ErrorType
    <3>1. CASE q \in DOMAIN types'
      <4>1. Complete(types'[q]) /\ TypeOf(q)' = types'[q]
        BY <1>1, <3>1 DEF Fills, TypeOf
      <4> QED BY <4>1, PartsOfComplete
    <3>2. CASE q \notin DOMAIN types'
      <4>1. TypeOf(q)' = Null
        BY <3>2 DEF TypeOf
      <4> QED BY <4>1, KindsOfTypes DEF ErrorType
    <3> QED BY <3>1, <3>2
  <2>2. CASE SetsTypes
    <3>1. \/ TypeOf(q)' = TypeOf(q)
          \/ q = here /\ GetsType
          \/ visitor = "preprocessor" /\ Kind(here) = "parameter" /\ q = Child(here, 2)
      BY <2>1, <2>2 DEF SetsTypes
    <3>2. CASE Kind(here) = "parameter" /\ q = Child(here, 2)
      <4>1. Shaped(NodeAt(tree, here)) /\ Kind(here) = NodeAt(tree, here).kind
        BY HereIsWellFormed
      <4>2. here \in Path /\ here \in NodesOf(tree) /\ 2 \in Positive
        BY DEF WalkInv, NodesOf, Positive
      <4>3. 2 \in 1..Len(NodeAt(tree, here).children) /\ NodeAt(tree, here).children[2].kind = "identifier"
        <5> DEFINE tn == NodeAt(tree, here)
        <5>1. tn.kind = "parameter" /\ Shaped(tn)
          BY <3>2, <4>1
        <5> HIDE DEF tn
        <5>2. Len(tn.children) = 2 /\ \A i \in {2} : tn.children[i].kind \in {"identifier"}
          BY <5>1, Zenon DEF Shaped
        <5> QED BY <5>2 DEF tn
      <4>4. Kind(Child(here, 2)) = "identifier"
        BY <4>2, <4>3, NodeAtChild DEF Kind
      <4> QED BY <3>2, <4>2, <4>4 DEF GetsTyped
    <3> QED BY <3>1, <3>2 DEF GetsTyped
  <2>3. CASE Opens
    BY <2>3 DEF Opens, TypeOf
  <2>4. CASE DeclaresName
    <3>1. PICK i, type : IsNameIn(Kind(here), i) /\ Declares(Child(here, i), type)
      BY <2>4 DEF DeclaresName
    <3>2. q # Child(here, i) => TypeOf(q)' = TypeOf(q)
      BY <3>1 DEF Declares
    <3>3. i \in Positive /\ Kind(here) \in {"function", "parameter", "declaration"}
      BY <3>1 DEF IsNameIn, Positive
    <3>4. Kind(Child(here, i)) = "identifier"
      BY <3>1, NameIsDeclared
    <3> QED BY <3>2, <3>3, <3>4 DEF GetsTyped
  <2>5. CASE DeclaresUnknown
    BY <2>5 DEF DeclaresUnknown
  <2>6. CASE Resolves
    BY <2>6 DEF Resolves, IsUse, GetsTyped
  <2> QED BY <1>4, <2>2, <2>3, <2>4, <2>5, <2>6
<1> QED BY <1>1, <1>2, <1>5, <1>6

\* The children of a node keep their types when it is left, if they are no names in it.
LEMMA ChildrenKeepTheirTypes ==
  ASSUME NoErrorsYet, Next, NEW p, p = here, NEW i \in Positive,
         Kind(p) \notin {"function", "parameter", "declaration"} \/ Kind(Child(p, i)) # "identifier"
  PROVE  TypeOf(Child(p, i))' = TypeOf(Child(p, i))
<1>1. p \in Path
  BY DEF NoErrorsYet, WalkInv, NodesOf
<1>2. Child(p, i) # p
  <2>1. Len(Child(p, i)) = Len(p) + 1 /\ Len(p) \in Nat
    BY <1>1, ChildPath
  <2> QED BY <2>1
<1>3. PICK q : q = Child(p, i)
  OBVIOUS
<1>4. q # here /\ ~GetsTyped(q)
  BY <1>2, <1>3 DEF GetsTyped
<1>5. TypeOf(q)' = TypeOf(q)
  BY <1>4, TypesAreKept
<1> QED BY <1>3, <1>5

\* What is said when a literal is visited, and an operator or an alloc is left.
LEMMA LiteralsAreTyped ==
  ASSUME NoErrorsYet, Next, VisitLiteral, NEW p, p = here
  PROVE  TypedNode(p)'
<1>1. tree' = tree
  BY TypesAreKept
<1>2. /\ Kind(p) \in {"bool", "char", "int", "float", "string"}
      /\ types' = With(types, p, Base(Kind(p)))
  BY DEF VisitLiteral, At, Infer
<1>3. TypeOf(p)' = Base(Kind(p))
  BY <1>2, TypesWith
<1>4. Kind(p)' = Kind(p)
  BY <1>1 DEF Kind
<1> QED BY <1>2, <1>3, <1>4 DEF TypedNode

\* The first operand of an operator, and the elements of an array, are there.
LEMMA FirstIsThere ==
  ASSUME WalkInv, Kind(here) \in {"operator", "array", "invocation", "alloc", "declaration"}
  PROVE  /\ 1 \in 1..Len(NodeAt(tree, here).children)
         /\ TypesOf(Children(here))[1] = TypeOf(Child(here, 1))
<1>1. WellFormed(NodeAt(tree, here)) /\ Kind(here) = NodeAt(tree, here).kind
  BY NodesAreWellFormed DEF WalkInv, Kind
<1>2. Len(NodeAt(tree, here).children) >= 1
  <2> DEFINE tn == NodeAt(tree, here)
  <2>1. tn.kind \in {"operator", "array", "invocation", "alloc", "declaration"} /\ WellFormed(tn)
    BY <1>1
  <2> HIDE DEF tn
  <2>2. tn.kind \in {"operator", "invocation", "array", "print"} => Len(tn.children) >= 1
    BY <2>1, Zenon DEF WellFormed
  <2>3. /\ tn.kind = "declaration" => Len(tn.children) = 2
        /\ tn.kind = "alloc" => Len(tn.children) = 2
    BY <2>1, Zenon DEF WellFormed
  <2> QED BY <2>1, <2>2, <2>3 DEF tn
<1>3. Len(NodeAt(tree, here).children) \in Nat
  BY TypesOfChildren
<1>4. 1 \in 1..Len(NodeAt(tree, here).children)
  BY <1>2, <1>3
<1> QED BY <1>4, TypesOfChildren

LEMMA OperatorsAreTyped ==
  ASSUME NoErrorsYet, Next, LeaveOperator, NEW p, p = here
  PROVE  TypedNode(p)'
<1>1. tree' = tree
  BY TypesAreKept
<1>2. Kind(p) = "operator"
  BY DEF LeaveOperator, At
<1>3. TypesOf(Children(p))[1] = TypeOf(Child(p, 1))
  BY <1>2, FirstIsThere DEF NoErrorsYet
<1>4. TypeOf(Child(p, 1))' = TypeOf(Child(p, 1))
  <2>1. 1 \in Positive
    BY DEF Positive
  <2> QED BY <1>2, <2>1, ChildrenKeepTheirTypes
<1>5. IsTypeOf(Token(p), TypeOf(Child(p, 1)), TypeOf(p)')
  BY <1>3, OperatorFills
<1>6. Kind(p)' = Kind(p) /\ Token(p)' = Token(p)
  BY <1>1 DEF Kind, Token
<1>7. IsTypeOf(Token(p), TypeOf(Child(p, 1)), TypeOf(p))'
  BY <1>4, <1>5, <1>6 DEF IsTypeOf
<1> QED BY <1>2, <1>6, <1>7 DEF TypedNode

LEMMA ArraysAreTyped ==
  ASSUME NoErrorsYet, Next, LeaveAlloc \/ LeavePopulatedArray, NEW p, p = here
  PROVE  TypedNode(p)'
<1>1. tree' = tree
  BY TypesAreKept
<1>2. Kind(p)' = Kind(p)
  BY <1>1 DEF Kind
<1>3. visitor = "visitor" /\ cursor.moment = "leave" /\ Kind(p) \in {"alloc", "array"}
  BY DEF LeaveAlloc, LeavePopulatedArray, At
<1>4. GetsType /\ Advance
  BY <1>3, TypesAreKept DEF GetsType, ValueKinds, Expressions
<1>5. ASSUME NEW checks, NEW type, Examine(checks, type), type # Null
      PROVE  ~Fails(checks) /\ TypeOf(p)' = type
  <2>1. ~Fails(checks)
    BY <1>4, <1>5, ExamineSetsTypes DEF NoErrorsYet
  <2>2. types' = With(types, p, type)
    BY <1>5, <2>1 DEF Examine, Infer
  <2> QED BY <2>1, <2>2, TypesWith
<1>6. CASE LeaveAlloc
  <2> DEFINE type == TypeOf(Child(here, 1))
             checks == <<Check(~IsArray(type), here, "not an array"),
                         Check(Subtype(type) = VoidType, here, "void elements"),
                         Check(TypeOf(Child(here, 2)) # IntegerType, here, "size")>>
  <2>1. Examine(checks, type) /\ Kind(p) = "alloc"
    BY <1>6 DEF LeaveAlloc, At
  <2>2. ~Fails(checks) => IsArray(type)
    <3> SUFFICES ASSUME ~IsArray(type) PROVE Fails(checks)
      OBVIOUS
    <3>1. 1 \in 1..Len(checks)
      OBVIOUS
    <3>2. checks[1].wrong
      BY DEF Check
    <3> HIDE DEF checks, type
    <3> QED BY <3>1, <3>2, Zenon DEF Fails
  <2> HIDE DEF checks, type
  <2>3. ~Fails(checks)
    BY <1>4, <2>1, ExamineSetsTypes DEF NoErrorsYet
  <2>4. type # Null
    BY <2>2, <2>3, KindsOfTypes
  <2>5. IsArray(TypeOf(p)')
    BY <1>5, <2>1, <2>2, <2>3, <2>4
  <2>6. IsArray(TypeOf(p))'
    BY <2>5 DEF IsArray
  <2> QED BY <1>2, <2>1, <2>6 DEF TypedNode
<1>7. CASE LeavePopulatedArray
  <2> DEFINE element == TypesOf(Children(here))[1]
             type == ArrayOf(element)
  <2>1. Kind(p) = "array" /\ element # Null
    BY <1>3, <1>7, OperandsAreThere, PartsOfComplete DEF LeavePopulatedArray, At
  <2>2. \E checks : Examine(checks, type)
    BY <1>7, <2>1 DEF LeavePopulatedArray
  <2>3. type # Null /\ IsArray(type) /\ type.array = element
    BY KindsOfTypes
  <2>4. ArrayOf(Subtype(type)) = type
    BY <2>3 DEF Subtype
  <2> HIDE DEF type
  <2>5. TypeOf(p)' = type
    BY <1>5, <2>2, <2>3
  <2>6. TypeOf(p)' = ArrayOf(Subtype(TypeOf(p)'))
    BY <2>4, <2>5
  <2>7. (TypeOf(p) = ArrayOf(Subtype(TypeOf(p))))'
    BY <2>6 DEF Subtype, ArrayOf, IsArray
  <2> QED BY <1>2, <2>1, <2>7 DEF TypedNode
<1> QED BY <1>6, <1>7

LEMMA DeclarationsAreTyped ==
  ASSUME NoErrorsYet, Next, LeaveParameter \/ LeaveDeclaration, NEW p, p = here
  PROVE  TypedNode(p)'
<1>1. tree' = tree
  BY TypesAreKept
<1>2. Kind(p)' = Kind(p)
  BY <1>1 DEF Kind
<1>3. p \in Path /\ 1 \in Positive /\ 2 \in Positive
  BY DEF NoErrorsYet, WalkInv, NodesOf, Positive
<1>4. CASE LeaveParameter
  <2>1. Kind(p) = "parameter" /\ \E e : entries' = With(entries, Child(p, 2), e)
    BY <1>4 DEF LeaveParameter, At, Declare
  <2>2. Child(p, 2) \in DOMAIN entries'
    BY <2>1 DEF With
  <2> QED BY <1>2, <2>1, <2>2 DEF TypedNode
<1>5. CASE LeaveDeclaration
  <2> DEFINE tn   == NodeAt(tree, here)
             type == TypeOf(Child(p, 2))
  <2>1. Kind(p) = "declaration" /\ visitor = "visitor" /\ cursor.moment = "leave"
    BY <1>5 DEF LeaveDeclaration, At
  <2>2. Shaped(tn) /\ tn.kind = "declaration"
    BY <2>1, HereIsWellFormed DEF NoErrorsYet
  <2>3. 2 \in 1..Len(tn.children) /\ tn.children[2].kind \in Expressions
    <3> HIDE DEF tn
    <3>1. Len(tn.children) = 2 /\ \A i \in {2} : tn.children[i].kind \in Expressions
      BY <2>2, Zenon DEF Shaped
    <3> QED BY <3>1
  <2>4. Complete(type)
    BY <2>1, <2>3, ValueChild DEF NoErrorsYet
  <2>5. type # Null
    BY <2>4, PartsOfComplete
  <2>6. ~Refuse(here, "void declaration")
    BY DEF Refuse, NoErrorsYet
  <2>7. /\ type # VoidType
        /\ types' = With(types, Child(p, 1), type)
        /\ \E e : entries' = With(entries, Child(p, 1), e)
    BY <1>5, <2>5, <2>6 DEF LeaveDeclaration, Declare
  <2>8. Child(p, 1) \in DOMAIN entries'
    BY <2>7 DEF With
  <2>9. Child(p, 1) # Child(p, 2)
    <3>1. Last(Child(p, 1)) = 1 /\ Last(Child(p, 2)) = 2
      BY <1>3, ChildPath
    <3> QED BY <3>1
  <2>10. PICK q, r : q = Child(p, 1) /\ r = Child(p, 2)
    OBVIOUS
  <2>11. TypeOf(q)' = type /\ TypeOf(r)' = type
    BY <2>7, <2>9, <2>10, TypesWith
  <2> HIDE DEF type
  <2>12. TypeOf(Child(p, 1))' = type /\ TypeOf(Child(p, 2))' = type
    BY <2>10, <2>11
  <2> QED BY <1>2, <2>1, <2>7, <2>8, <2>12 DEF TypedNode
<1> QED BY <1>4, <1>5

LEMMA ReturnsAreTyped ==
  ASSUME NoErrorsYet, Next, LeaveReturn, NEW p, p = here
  PROVE  TypedNode(p)'
<1> DEFINE function == EnclosingFunction(here)
           values0  == TypesOf(Children(here))
           result   == IF Kind(function) = "main" THEN VoidType ELSE TypeOf(ReturnTypeOf(function))
           checks   == <<Check(result = VoidType /\ values0 # <<>>, here, "value from void"),
                         Check(result # VoidType /\ values0 # <<result>>, here, "return type")>>
<1>1. tree' = tree
  BY TypesAreKept
<1>2. Kind(p)' = Kind(p) /\ Arity(tree, p)' = Arity(tree, p)
  BY <1>1 DEF Kind, Arity
<1>3. Kind(p) = "return" /\ visitor = "visitor" /\ cursor.moment = "leave"
  BY DEF LeaveReturn, At
<1>4. SUFFICES ASSUME Arity(tree, p) = 1 PROVE TypeOf(Child(p, 1))' # VoidType
  BY <1>2, <1>3 DEF TypedNode
<1>5. Len(values0) = 1 /\ values0[1] = TypeOf(Child(p, 1)) /\ Complete(values0[1])
  <2>1. Len(NodeAt(tree, here).children) = 1
    BY <1>4 DEF Arity
  <2>2. Len(values0) = 1 /\ values0[1] = TypeOf(Child(p, 1))
    BY <2>1, TypesOfChildren DEF NoErrorsYet
  <2> QED BY <1>3, <2>2, OperandsAreThere
<1>6. values0 # <<Null>>
  BY <1>5, PartsOfComplete
<1>7. Examine(checks, Null)
  BY <1>6 DEF LeaveReturn
<1>8. ~Fails(checks)
  BY <1>7, ExamineSetsTypes DEF NoErrorsYet
<1>9. ~(result = VoidType /\ values0 # <<>>) /\ ~(result # VoidType /\ values0 # <<result>>)
  <2> HIDE DEF result, values0
  <2>1. 1 \in 1..Len(checks) /\ 2 \in 1..Len(checks)
    OBVIOUS
  <2>2. /\ checks[1].wrong <=> (result = VoidType /\ values0 # <<>>)
        /\ checks[2].wrong <=> (result # VoidType /\ values0 # <<result>>)
    BY DEF Check
  <2> HIDE DEF checks
  <2>3. ~checks[1].wrong /\ ~checks[2].wrong
    BY <1>8, <2>1, Zenon DEF Fails
  <2> QED BY <2>2, <2>3
<1> HIDE DEF values0, result
<1>10. TypeOf(Child(p, 1)) # VoidType
  BY <1>5, <1>9
<1>11. TypeOf(Child(p, 1))' = TypeOf(Child(p, 1))
  BY <1>3, ChildrenKeepTheirTypes DEF Positive
<1> QED BY <1>10, <1>11

\* What the visitor leaves is typed.
LEMMA HereIsTyped ==
  ASSUME NoErrorsYet, Next, visitor = "visitor", cursor.moment # "enter", NEW p, p = here
  PROVE  TypedNode(p)'
<1> DEFINE kinds == {"bool", "char", "int", "float", "string", "operator", "alloc", "array",
                     "declaration", "parameter", "return"}
<1>1. CASE Kind(p) \notin kinds
  <2>1. Kind(p)' = Kind(p)
    BY TypesAreKept DEF Kind
  <2> QED BY <1>1, <2>1 DEF TypedNode
<1>2. CASE Kind(p) \in kinds
  <2>1. ~Preprocess
    BY DEF Preprocess, EnterProgram, VisitBaseType, LeaveArrayType, LeaveLambdaType,
           LeaveLambdaParameter, LeaveLambda, LeaveFunctionDefinition, At
  <2>2. ~(EnterScope \/ VisitIdentifier \/ LeaveLambdaInvocation \/ LeaveLambdaBody \/ LeaveConditional
          \/ LeavePrint \/ LeaveDealloc)
    BY <1>2 DEF EnterScope, VisitIdentifier, LeaveLambdaInvocation, LeaveLambdaBody, LeaveConditional,
                LeavePrint, LeaveDealloc, At
  <2>3. ~Skip
    <3>1. /\ Handled.visitor.visit = {"identifier", "bool", "char", "int", "float", "string"}
          /\ {"parameter", "declaration", "operator", "alloc", "array", "return"} \subseteq Handled.visitor.leave
      BY DEF Handled
    <3>2. cursor.moment \in {"visit", "leave"} /\ (cursor.moment = "visit" <=> Kind(p) \in LeafKinds)
      BY DEF NoErrorsYet, WalkInv, LeafInv, Moments
    <3>3. CASE cursor.moment = "visit"
      <4>1. Kind(p) \in {"bool", "char", "int", "float", "string"}
        BY <1>2, <3>2, <3>3 DEF LeafKinds
      <4> QED BY <3>1, <3>3, <4>1 DEF Skip
    <3>4. CASE cursor.moment = "leave"
      <4>1. Kind(p) \in {"parameter", "declaration", "operator", "alloc", "array", "return"}
        BY <1>2, <3>2, <3>4 DEF LeafKinds
      <4> QED BY <3>1, <3>4, <4>1 DEF Skip
    <3> QED BY <3>2, <3>3, <3>4
  <2>4. VisitLiteral \/ LeaveParameter \/ LeaveDeclaration \/ LeaveOperator \/ LeaveAlloc
          \/ LeavePopulatedArray \/ LeaveReturn
    BY <2>1, <2>2, <2>3 DEF Next, Visit
  <2> QED BY <2>4, LiteralsAreTyped, OperatorsAreTyped, ArraysAreTyped, DeclarationsAreTyped,
             ReturnsAreTyped
<1> QED BY <1>1, <1>2

\* A lambda has the type of a lambda when the preprocessor leaves it.
LEMMA LambdasAreTyped ==
  ASSUME NoErrorsYet, Next, visitor = "preprocessor", cursor.moment # "enter", Kind(here) = "lambda",
         NEW p, p = here
  PROVE  IsLambda(TypeOf(p)')
<1>1. cursor.moment = "leave"
  BY DEF NoErrorsYet, WalkInv, Moments, LeafKinds
<1>2. ~(EnterProgram \/ VisitBaseType \/ LeaveArrayType \/ LeaveLambdaType \/ LeaveLambdaParameter
        \/ LeaveFunctionDefinition)
  BY DEF EnterProgram, VisitBaseType, LeaveArrayType, LeaveLambdaType, LeaveLambdaParameter,
         LeaveFunctionDefinition, At
<1>3. ~Visit
  <2>1. ~(EnterScope \/ VisitIdentifier \/ VisitLiteral \/ LeaveParameter \/ LeaveDeclaration
          \/ LeaveOperator \/ LeaveLambdaInvocation \/ LeaveLambdaBody)
    BY DEF EnterScope, VisitIdentifier, VisitLiteral, LeaveParameter, LeaveDeclaration, LeaveOperator,
           LeaveLambdaInvocation, LeaveLambdaBody, At
  <2>2. ~(LeaveAlloc \/ LeavePopulatedArray \/ LeaveConditional \/ LeavePrint \/ LeaveDealloc
          \/ LeaveReturn)
    BY DEF LeaveAlloc, LeavePopulatedArray, LeaveConditional, LeavePrint, LeaveDealloc, LeaveReturn, At
  <2> QED BY <2>1, <2>2 DEF Visit
<1>4. ~Skip
  <2>1. Handled.preprocessor.leave = {"array type", "lambda type", "parameter", "lambda", "function"}
    BY DEF Handled
  <2> QED BY <1>1, <2>1 DEF Skip
<1>5. LeaveLambda
  BY <1>2, <1>3, <1>4 DEF Next, Preprocess
<1>6. ~Crash
  <2>1. status = "running"
    BY <1>5 DEF LeaveLambda, At
  <2>2. status' = status \/ status' = "done"
    BY TypesAreKept DEF Advance
  <2> QED BY <2>1, <2>2 DEF Crash
<1>7. PICK ps, t : types' = With(types, p, LambdaOf(ps, t))
  BY <1>5, <1>6 DEF LeaveLambda, Infer
<1>8. TypeOf(p)' = LambdaOf(ps, t)
  BY <1>7, TypesWith
<1> QED BY <1>8, KindsOfTypes

LEMMA TypedInit == Init => TypedInv
<1> SUFFICES ASSUME Init PROVE TypedInv
  OBVIOUS
<1>1. visitor = "preprocessor" /\ types = <<>> /\ WalkInv /\ here = <<>>
      /\ cursor = Start(tree, <<>>)
  BY WalkInit DEF Init, here, Start, Cursor
<1>2. cursor.moment = "enter"
  BY <1>1, RootIsProgram DEF Cursor
<1>3. \A p : TypeOf(p) = Null
  BY <1>1 DEF TypeOf
<1>4. \A p \in NodesOf(tree) : ~IsLeft(p, here, cursor.moment)
  BY <1>1, <1>2, NothingAtTheBegin DEF NodesOf
<1> QED BY <1>1, <1>3, <1>4 DEF TypedInv

\* What a node means does not change behind it.
LEMMA TypedNodesStay ==
  ASSUME NoErrorsYet, Next, NEW p \in NodesOf(tree), IsLeft(p, here, cursor.moment)
  PROVE  /\ Kind(p) = "lambda" /\ IsLambda(TypeOf(p)) => IsLambda(TypeOf(p)')
         /\ TypedNode(p) => TypedNode(p)'
<1>1. /\ tree' = tree /\ DOMAIN entries \subseteq DOMAIN entries'
      /\ \A q : TypeOf(q)' = TypeOf(q) \/ GetsTyped(q)
  BY TypesAreKept
<1>2. p \in Path /\ here \in Path
  BY DEF NoErrorsYet, WalkInv, NodesOf
<1>3. /\ ~Under(here, p)
  <2>1. CASE Precedes(p, here)
    BY <1>2, <2>1, PrecedesExcludes
  <2>2. CASE Under(p, here) /\ p # here
    BY <1>2, <2>2, UnderAntisymmetric
  <2> QED BY <2>1, <2>2 DEF IsLeft
<1>4. p # here
  BY <1>2, <1>3, UnderItself
<1>5. \A i \in Positive : Child(p, i) # here
  <2> SUFFICES ASSUME NEW i \in Positive, Child(p, i) = here PROVE FALSE
    OBVIOUS
  <2>1. Under(Child(p, i), p)
    BY <1>2, ChildPath DEF Under
  <2> QED BY <1>3, <2>1
<1>6. \A i, j \in Positive : Child(p, i) # Child(here, j)
  <2> SUFFICES ASSUME NEW i \in Positive, NEW j \in Positive, Child(p, i) = Child(here, j) PROVE FALSE
    OBVIOUS
  <2>1. Parent(Child(p, i)) = p /\ Parent(Child(here, j)) = here
    BY <1>2, ParentOfChild
  <2> QED BY <1>4, <2>1
<1>7. Kind(p) # "identifier" => TypeOf(p)' = TypeOf(p)
  BY <1>1, <1>4 DEF GetsTyped
<1>8. \A i \in Positive : TypeOf(Child(p, i))' = TypeOf(Child(p, i))
  <2> SUFFICES ASSUME NEW i \in Positive PROVE TypeOf(Child(p, i))' = TypeOf(Child(p, i))
    OBVIOUS
  <2>1. ~GetsTyped(Child(p, i))
    BY <1>5, <1>6 DEF GetsTyped
  <2> QED BY <1>1, <2>1
<1>9. /\ Kind(p)' = Kind(p) /\ Token(p)' = Token(p) /\ Arity(tree, p)' = Arity(tree, p)
  BY <1>1 DEF Kind, Token, Arity
<1>10. 1 \in Positive /\ 2 \in Positive
  BY DEF Positive
<1>11. TypedNode(p) /\ Kind(p) # "identifier" => TypedNode(p)'
  <2> SUFFICES ASSUME TypedNode(p), Kind(p) # "identifier" PROVE TypedNode(p)'
    OBVIOUS
  <2>1. /\ TypeOf(p)' = TypeOf(p) /\ TypeOf(Child(p, 1))' = TypeOf(Child(p, 1))
        /\ TypeOf(Child(p, 2))' = TypeOf(Child(p, 2))
    BY <1>7, <1>8, <1>10
  <2> QED BY <1>1, <1>9, <2>1 DEF TypedNode, IsTypeOf, IsArray, ArrayOf, Subtype
<1>12. Kind(p) = "identifier" => TypedNode(p)'
  BY <1>9 DEF TypedNode
<1> QED BY <1>7, <1>11, <1>12

LEMMA TypedStep ==
  WalkInv /\ LeafInv /\ ScopesInv /\ TypesInv /\ TypedInv /\ [Next]_vars => TypedInv'
<1> SUFFICES ASSUME WalkInv, LeafInv, ScopesInv, TypesInv, TypedInv, [Next]_vars PROVE TypedInv'
  OBVIOUS
<1>1. CASE UNCHANGED vars
  BY <1>1 DEF vars, TypedInv, TypedNode, here, Kind, TypeOf, Token
<1>2. CASE Next
  <2> SUFFICES ASSUME errors' = {}
               PROVE  /\ \A p \in NodesOf(tree') : Kind(p)' = "nop" => TypeOf(p)' = Null
                      /\ \A p \in NodesOf(tree') :
                           Kind(p)' = "lambda" /\ (visitor' = "visitor" \/ IsLeft(p, here', cursor'.moment))
                             => IsLambda(TypeOf(p)')
                      /\ visitor' = "visitor" =>
                           \A p \in NodesOf(tree') : IsLeft(p, here', cursor'.moment) => TypedNode(p)'
    BY DEF TypedInv, IsLambda
  <2>1. NoErrorsYet
    BY <1>2, StepFills DEF NoErrorsYet
  <2>2. /\ Advance /\ tree' = tree
        /\ \A q : TypeOf(q)' = TypeOf(q) \/ GetsTyped(q)
    BY <1>2, <2>1, TypesAreKept
  <2>3. GoesOn \/ TurnsRound \/ Finishes
    BY <2>2, AdvanceWalks
  <2>4. NodesOf(tree') = NodesOf(tree) /\ \A p : Kind(p)' = Kind(p)
    BY <2>2 DEF NodesOf, Kind
  <2>5. /\ \A p \in NodesOf(tree) : Kind(p) = "nop" => TypeOf(p) = Null
        /\ \A p \in NodesOf(tree) :
             Kind(p) = "lambda" /\ (visitor = "visitor" \/ IsLeft(p, here, cursor.moment)) =>
               IsLambda(TypeOf(p))
        /\ visitor = "visitor" =>
             \A p \in NodesOf(tree) : IsLeft(p, here, cursor.moment) => TypedNode(p)
    BY <2>1, Zenon DEF TypedInv, NoErrorsYet
  <2>6. ASSUME NEW p \in NodesOf(tree), Kind(p) = "nop" PROVE TypeOf(p)' = Null
    <3>1. ~GetsTyped(p)
      BY <2>6 DEF GetsTyped, GetsType, WrittenKinds, TypeKinds, ValueKinds, Expressions
    <3> QED BY <2>2, <2>5, <2>6, <3>1
  <2>7. ASSUME NEW p \in NodesOf(tree), IsLeft(p, here', cursor'.moment), ~TurnsRound
        PROVE  IsLeft(p, here, cursor.moment) \/ (p = here /\ cursor.moment # "enter")
    <3>1. p \in Path
      BY DEF NodesOf
    <3>2. CASE GoesOn
      BY <2>7, <3>1, <3>2 DEF GoesOn, Moves
    <3>3. CASE Finishes
      <4>1. here' = here /\ cursor' = cursor
        BY <3>3 DEF Finishes, here
      <4> QED BY <2>7, <4>1
    <3> QED BY <2>3, <2>7, <3>2, <3>3
  <2>8. ASSUME NEW p \in NodesOf(tree), Kind(p) = "lambda",
               visitor' = "visitor" \/ IsLeft(p, here', cursor'.moment)
        PROVE  IsLambda(TypeOf(p)')
    <3>1. CASE visitor = "visitor"
      <4>1. ~GetsTyped(p)
        BY <2>8, <3>1 DEF GetsTyped, GetsType, ValueKinds
      <4> QED BY <2>2, <2>5, <2>8, <3>1, <4>1
    <3>2. CASE IsLeft(p, here, cursor.moment)
      BY <1>2, <2>1, <2>5, <2>8, <3>2, TypedNodesStay
    <3>3. CASE visitor = "preprocessor" /\ TurnsRound
      <4>1. p \in Path /\ p # <<>>
        BY <2>8, RootIsProgram DEF NodesOf
      <4>2. IsLeft(p, here, cursor.moment)
        BY <3>3, <4>1, AllIsLeftAtTheEnd DEF TurnsRound
      <4> QED BY <3>2, <4>2
    <3>4. CASE visitor = "preprocessor" /\ ~TurnsRound
      <4>1. visitor' = visitor
        BY <2>3, <3>4 DEF GoesOn, Finishes
      <4>2. IsLeft(p, here, cursor.moment) \/ (p = here /\ cursor.moment # "enter")
        BY <2>7, <2>8, <3>4, <4>1
      <4> QED BY <1>2, <2>1, <2>8, <3>2, <3>4, <4>2, LambdasAreTyped
    <3> QED BY <3>1, <3>3, <3>4 DEF WalkInv
  <2>9. ASSUME visitor' = "visitor", NEW p \in NodesOf(tree), IsLeft(p, here', cursor'.moment)
        PROVE  TypedNode(p)'
    <3>1. CASE TurnsRound
      BY <2>9, <3>1, NothingAtTheBegin DEF TurnsRound, NodesOf
    <3>2. CASE ~TurnsRound
      <4>1. visitor = "visitor"
        BY <2>3, <2>9, <3>2 DEF GoesOn, Finishes
      <4>2. IsLeft(p, here, cursor.moment) \/ (p = here /\ cursor.moment # "enter")
        BY <2>7, <2>9, <3>2
      <4> QED BY <1>2, <2>1, <2>5, <4>1, <4>2, HereIsTyped, TypedNodesStay
    <3> QED BY <3>1, <3>2
  <2> QED BY <2>4, <2>6, <2>8, <2>9
<1> QED BY <1>1, <1>2

-----------------------------------------------------------------------------
(* What code generation finds of names.                                    *)

\* A name that is used is looked up where it is visited.
LEMMA UsesAreLookedUp ==
  ASSUME Next, visitor = "visitor", cursor.moment = "visit", IsUsed(here)
  PROVE  here \in DOMAIN entries'
<1>1. VisitIdentifier
  <2>1. ~Preprocess
    BY DEF Preprocess, EnterProgram, VisitBaseType, LeaveArrayType, LeaveLambdaType,
           LeaveLambdaParameter, LeaveLambda, LeaveFunctionDefinition, At
  <2>2. ~(EnterScope \/ VisitLiteral \/ LeaveParameter \/ LeaveDeclaration \/ LeaveOperator
          \/ LeaveLambdaInvocation \/ LeaveLambdaBody)
    BY DEF EnterScope, VisitLiteral, LeaveParameter, LeaveDeclaration, LeaveOperator,
           LeaveLambdaInvocation, LeaveLambdaBody, At, IsUsed
  <2>3. ~(LeaveAlloc \/ LeavePopulatedArray \/ LeaveConditional \/ LeavePrint \/ LeaveDealloc
          \/ LeaveReturn)
    BY DEF LeaveAlloc, LeavePopulatedArray, LeaveConditional, LeavePrint, LeaveDealloc, LeaveReturn, At
  <2>4. ~Skip
    BY DEF Skip, Handled, IsUsed
  <2> QED BY <2>1, <2>2, <2>3, <2>4 DEF Next, Visit
<1>2. CASE Declare(here, Entry(FALSE, ErrorType, "variable"), With(types, here, ErrorType),
                   errors \cup {<<here, "undefined">>})
  BY <1>2 DEF Declare, With
<1>3. CASE entries' = With(entries, here, FindSymbolTableEntry(here))
  BY <1>3 DEF With
<1> QED BY <1>1, <1>2, <1>3 DEF VisitIdentifier, IsUsed

LEMMA UsesInit == Init => UsesInv
BY DEF Init, UsesInv

LEMMA UsesStep == WalkInv /\ ScopesInv /\ LeafInv /\ UsesInv /\ [Next]_vars => UsesInv'
<1> SUFFICES ASSUME WalkInv, ScopesInv, LeafInv, UsesInv, [Next]_vars PROVE UsesInv'
  OBVIOUS
<1>1. CASE Crash \/ UNCHANGED vars
  <2>1. UNCHANGED <<tree, visitor, cursor, entries>>
    BY <1>1 DEF Crash, vars
  <2> QED BY <2>1 DEF UsesInv, IsUsed, IsBeingDeclared, IsParameterIdentifier, Kind, here
<1>2. CASE Next /\ ~Crash
  <2>1. /\ Advance
        /\ SetsTypes \/ Opens \/ DeclaresName \/ DeclaresUnknown \/ Resolves
    BY <1>2, Effects
  <2>2. tree' = tree /\ (GoesOn \/ TurnsRound \/ Finishes)
    BY <2>1, AdvanceWalks
  <2>3. \A p : IsUsed(p)' <=> IsUsed(p)
    BY <2>2 DEF IsUsed, IsBeingDeclared, IsParameterIdentifier, Kind
  <2>4. DOMAIN entries \subseteq DOMAIN entries'
    <3>1. CASE entries' = entries
      BY <3>1
    <3>2. ASSUME NEW q, NEW e, entries' = With(entries, q, e) PROVE DOMAIN entries \subseteq DOMAIN entries'
      BY <3>2 DEF With
    <3> QED BY <2>1, <3>1, <3>2, EntriesAfter
  <2>5. SUFFICES ASSUME visitor' = "visitor", NEW p \in NodesOf(tree), IsUsed(p),
                        IsLeft(p, here', cursor.moment')
                 PROVE  p \in DOMAIN entries'
    BY <2>2, <2>3 DEF UsesInv
  <2>6. p \in Path
    BY DEF NodesOf
  <2>7. CASE visitor = "visitor" /\ IsLeft(p, here, cursor.moment)
    BY <2>4, <2>5, <2>7 DEF UsesInv
  <2>8. CASE GoesOn
    <3>1. visitor = "visitor" /\ (IsLeft(p, here, cursor.moment) \/ (p = here /\ cursor.moment # "enter"))
      BY <2>5, <2>6, <2>8 DEF GoesOn, Moves
    <3>2. CASE p = here /\ cursor.moment # "enter"
      <4>1. Kind(here) \in LeafKinds
        BY <2>5, <3>2 DEF IsUsed, LeafKinds
      <4>2. cursor.moment = "visit"
        BY <4>1 DEF LeafInv
      <4> QED BY <1>2, <2>5, <3>1, <3>2, <4>2, UsesAreLookedUp
    <3> QED BY <2>7, <3>1, <3>2
  <2>9. CASE TurnsRound
    BY <2>5, <2>6, <2>9, NothingAtTheBegin DEF TurnsRound
  <2>10. CASE Finishes
    <3>1. here' = here /\ cursor' = cursor /\ visitor = "visitor"
      BY <2>10 DEF Finishes, here
    <3> QED BY <2>5, <2>7, <3>1
  <2> QED BY <2>2, <2>8, <2>9, <2>10
<1> QED BY <1>1, <1>2

\* What is declared has a symbol of its kind and of its type.
LEMMA SymbolsAreDeclared ==
  ASSUME NoErrorsYet, TypedInv, cursor.moment = "leave", NEW i, IsNameIn(Kind(here), i), NEW type,
         NEW q, q = Child(here, i), Declares(q, type)
  PROVE  /\ EntryAt(entries[q])'.symbol = SymbolOf(q)
         /\ EntryAt(entries[q])'.type = type /\ TypeOf(q)' = type
         /\ Kind(Parent(q)) = "function" => IsLambda(type)
<1> USE DEF NoErrorsYet
<1> DEFINE scope == LocalScope(q)
           symbol == IF Kind(here) = "function" THEN "function" ELSE "variable"
<1>1. q \in Path /\ Parent(q) = here
  BY NameIsDeclared DEF NodesOf
<1>2. Token(q) \notin DOMAIN table[scope] /\ scope \in DOMAIN table
      /\ entries' = With(entries, q, <<scope, Token(q)>>)
  BY <1>1, LocalScopeIsThere DEF Declares
<1>3. PICK mutable : table' = [table EXCEPT ![scope] = Insert(@, Token(q), Entry(mutable, type, symbol))]
  BY DEF Declares
<1>4. symbol = SymbolOf(q)
  BY <1>1 DEF SymbolOf
<1> HIDE DEF scope, symbol
<1>5. table'[scope] = With(table[scope], Token(q), Entry(mutable, type, symbol))
  BY <1>2, <1>3 DEF Insert
<1>6. table'[scope][Token(q)] = Entry(mutable, type, symbol)
  BY <1>5 DEF With
<1>7. entries'[q] = <<scope, Token(q)>>
  BY <1>2 DEF With
<1>8. EntryAt(entries[q])' = Entry(mutable, type, symbol)
  BY <1>6, <1>7 DEF EntryAt
<1>9. ASSUME Kind(here) = "function" PROVE IsLambda(type)
  <2> DEFINE tn == NodeAt(tree, here)
  <2>1. Shaped(tn) /\ tn.kind = "function"
    BY <1>9, HereIsWellFormed
  <2>2. 2 \in 1..Len(tn.children) /\ tn.children[2].kind = "lambda"
    <3> HIDE DEF tn
    <3>1. Len(tn.children) = 2 /\ \A j \in {2} : tn.children[j].kind \in {"lambda"}
      BY <2>1, Zenon DEF Shaped
    <3> QED BY <3>1
  <2>3. IsLambda(TypeOf(Child(here, 2)))
    BY <2>2, ChildOfHere DEF TypedInv
  <2>4. type = TypeOf(Child(here, 2))
    BY <1>9 DEF Declares
  <2> QED BY <2>3, <2>4
<1>10. TypeOf(q)' = type
  BY DEF Declares
<1> QED BY <1>1, <1>4, <1>8, <1>9, <1>10 DEF Entry

LEMMA SymbolsInit == Init => SymbolsInv
BY DEF Init, SymbolsInv, Declarations

LEMMA SymbolsStep ==
  /\ WalkInv /\ LeafInv /\ ScopesInv /\ EntriesInv /\ TypesInv /\ TypedInv /\ NamesInv /\ SymbolsInv
  /\ [Next]_vars
  => SymbolsInv'
<1> SUFFICES ASSUME WalkInv, LeafInv, ScopesInv, EntriesInv, TypesInv, TypedInv, NamesInv, SymbolsInv,
                    [Next]_vars
             PROVE  SymbolsInv'
  OBVIOUS
<1>1. CASE UNCHANGED vars
  <2>1. UNCHANGED <<tree, table, entries, errors, types>>
    BY <1>1 DEF vars
  <2>2. Declarations' = Declarations
    BY <2>1, NamesUnchanged
  <2> QED BY <2>1, <2>2 DEF SymbolsInv, SymbolOf, EntryAt, Kind, TypeOf
<1>2. CASE Next
  <2> SUFFICES ASSUME errors' = {}, NEW d \in Declarations'
               PROVE  /\ EntryAt(entries[d])'.symbol = SymbolOf(d)
                      /\ EntryAt(entries[d])'.type = TypeOf(d)'
                      /\ Kind(Parent(d)) = "function" => IsLambda(TypeOf(d)')
    <3>1. errors' = {} => \A d : Kind(Parent(d))' = Kind(Parent(d)) /\ SymbolOf(d)' = SymbolOf(d)
      BY <1>2, StepFills, AdvanceWalks DEF Kind, SymbolOf
    <3> QED BY <3>1 DEF SymbolsInv, IsLambda
  <2>1. errors = {} /\ Advance /\ Fills
    BY <1>2, StepFills
  <2>2. NoErrorsYet /\ tree' = tree
    BY <2>1, AdvanceWalks DEF NoErrorsYet
  <2>3. ASSUME d \in Declarations, entries'[d] = entries[d], TypeOf(d)' = TypeOf(d),
               table' = table \/ SetsTypes \/ Opens \/ DeclaresName \/ DeclaresUnknown \/ Resolves
        PROVE  /\ EntryAt(entries[d])'.symbol = SymbolOf(d)
               /\ EntryAt(entries[d])'.type = TypeOf(d)'
               /\ Kind(Parent(d)) = "function" => IsLambda(TypeOf(d)')
    <3>1. /\ entries[d] = <<ScopeOf(d), Token(d)>>
          /\ ScopeOf(d) \in DOMAIN table /\ Token(d) \in DOMAIN table[ScopeOf(d)]
      BY <2>1, <2>3 DEF NamesInv, TablesInv
    <3>2. table'[ScopeOf(d)][Token(d)] = table[ScopeOf(d)][Token(d)]
      BY <2>3, <3>1, EntriesAreKept
    <3>3. EntryAt(entries[d])' = EntryAt(entries[d])
      BY <2>3, <3>1, <3>2 DEF EntryAt
    <3>4. /\ EntryAt(entries[d]).symbol = SymbolOf(d)
          /\ EntryAt(entries[d]).type = TypeOf(d)
          /\ Kind(Parent(d)) = "function" => IsLambda(TypeOf(d))
      BY <2>1, <2>3 DEF SymbolsInv
    <3> QED BY <2>3, <3>3, <3>4
  <2>4. CASE Crash
    <3>1. UNCHANGED <<tree, table, entries, errors, types>>
      BY <2>4 DEF Crash
    <3>2. d \in Declarations
      BY <3>1, NamesUnchanged
    <3> QED BY <2>3, <3>1, <3>2 DEF TypeOf
  <2>5. ASSUME d \in Declarations
        PROVE  /\ d \in DOMAIN entries /\ Kind(d) = "identifier"
               /\ d # here \/ ~GetsType
               /\ ~(visitor = "preprocessor" /\ Kind(here) = "parameter" /\ d = Child(here, 2))
    <3>1. d \in DOMAIN entries /\ Kind(d) = "identifier"
      BY <2>5 DEF Declarations, EntriesInv
    <3>2. Kind(d) = "identifier" /\ d = here => ~GetsType
      BY DEF GetsType, WrittenKinds, TypeKinds, ValueKinds
    <3>3. Kind(Parent(d)) = "function" \/ visitor = "visitor"
      BY <2>5 DEF NamesInv, DeclaredInv
    <3>4. Parent(Child(here, 2)) = here
      BY ParentOfChild DEF WalkInv, NodesOf, Positive
    <3> QED BY <3>1, <3>2, <3>3, <3>4
  <2>6. CASE (SetsTypes \/ Opens) /\ Declarations' = Declarations
    <3>1. d \in Declarations /\ entries'[d] = entries[d]
      BY <2>6 DEF SetsTypes, Opens
    <3>2. TypeOf(d)' = TypeOf(d)
      <4>1. TypeOf(d)' # ErrorType
        <5>1. CASE d \in DOMAIN types'
          <6>1. Complete(types'[d]) /\ TypeOf(d)' = types'[d]
            BY <2>1, <5>1 DEF Fills, TypeOf
          <6> QED BY <6>1, PartsOfComplete
        <5>2. CASE d \notin DOMAIN types'
          <6>1. TypeOf(d)' = Null
            BY <5>2 DEF TypeOf
          <6> QED BY <6>1, KindsOfTypes DEF ErrorType
        <5> QED BY <5>1, <5>2
      <4>2. CASE SetsTypes
        BY <2>5, <3>1, <4>1, <4>2 DEF SetsTypes
      <4>3. CASE Opens
        BY <4>3 DEF Opens, TypeOf
      <4> QED BY <2>6, <4>2, <4>3
    <3> QED BY <2>3, <2>6, <3>1, <3>2
  <2>7. CASE Resolves /\ Declarations' = Declarations
    <3>1. ~IsDeclaration(here) /\ \E e : entries' = With(entries, here, e)
      BY <2>7 DEF Resolves, IsUse
    <3>2. d \in DOMAIN entries /\ d # here
      BY <2>7, <3>1 DEF Declarations
    <3>3. entries'[d] = entries[d] /\ TypeOf(d)' = TypeOf(d)
      BY <2>7, <3>1, <3>2 DEF With, Resolves
    <3> QED BY <2>3, <2>7, <3>3
  <2>8. ASSUME NEW i, NEW type, cursor.moment = "leave",
               IsNameIn(Kind(here), i), Declares(Child(here, i), type),
               Declarations' = Declarations \cup {Child(here, i)}
        PROVE  /\ EntryAt(entries[d])'.symbol = SymbolOf(d)
               /\ EntryAt(entries[d])'.type = TypeOf(d)'
               /\ Kind(Parent(d)) = "function" => IsLambda(TypeOf(d)')
    <3> DEFINE q == Child(here, i)
    <3>1. CASE d = q
      BY <2>2, <2>8, <3>1, SymbolsAreDeclared
    <3>2. CASE d # q
      <4>1. d \in Declarations /\ d \in DOMAIN entries
        BY <2>8, <3>2 DEF Declarations
      <4>2. (\E e : entries' = With(entries, q, e)) /\ TypeOf(d)' = TypeOf(d)
        BY <2>8, <3>2 DEF Declares
      <4> HIDE DEF q
      <4>3. entries'[d] = entries[d]
        BY <3>2, <4>1, <4>2 DEF With
      <4>4. DeclaresName
        BY <2>8 DEF DeclaresName
      <4> QED BY <2>3, <4>1, <4>2, <4>3, <4>4
    <3> QED BY <3>1, <3>2
  <2> QED BY <1>2, <2>2, <2>4, <2>6, <2>7, <2>8, Effects, NamesAfter
<1> QED BY <1>1, <1>2

=============================================================================
