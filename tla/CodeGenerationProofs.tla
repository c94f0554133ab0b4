------------------------ MODULE CodeGenerationProofs ------------------------
(***************************************************************************)
(* Theorems about CodeGeneration, for every set of programs: the inductive *)
(* invariant, what the actions have in common (how the data they build is  *)
(* typed, and which changes to the blocks and the stack of tasks preserve  *)
(* the invariant), and the actions one by one; on top of it the invariant  *)
(* of verification: every function that is generated passes LLVM's checks  *)
(* of blocks, branches and PHI nodes.                                      *)
(***************************************************************************)
EXTENDS CodeGenerationInvariants, SequenceTheorems, TLAPS

-----------------------------------------------------------------------------
(* Sequences.                                                              *)

\* A sequence is a sequence over the set of its elements.
LEMMA SeqOfItsRange ==
  ASSUME NEW S, NEW s \in Seq(S)
  PROVE  s \in Seq(Range(s))
<1>1. \A i \in 1..Len(s) : s[i] \in Range(s)  BY SMT DEF Range
<1> QED BY <1>1, SMT

\* Tuples of elements of a set are sequences over it.
LEMMA Tuples ==
  ASSUME NEW S
  PROVE  /\ \A a \in S : <<a>> \in Seq(S)
         /\ \A a, b \in S : <<a, b>> \in Seq(S)
         /\ \A a, b, c \in S : <<a, b, c>> \in Seq(S)
         /\ \A a, b, c, d, e \in S : <<a, b, c, d, e>> \in Seq(S)
OBVIOUS

\* The elements of a sequence over a set are in the set.
LEMMA ElementOf ==
  ASSUME NEW S, NEW s \in Seq(S), NEW i \in 1..Len(s)
  PROVE  s[i] \in S
OBVIOUS

\* Concatenating two one-element sequences, and one with the empty sequence.
LEMMA JoinTuples ==
  ASSUME NEW a, NEW b
  PROVE  <<a>> \o <<b>> = <<a, b>> /\ <<a>> \o <<>> = <<a>>
<1>1. <<a>> \in Seq({a, b})  OBVIOUS
<1>2. <<a>> \o <<b>> = Append(<<a>>, b)  BY <1>1, AppendIsConcat
<1>3. Append(<<a>>, b) = <<a, b>>
  <2> DEFINE s == Append(<<a>>, b)
             t == <<a, b>>
  <2>1. Len(<<a>>) = 1 /\ <<a>>[1] = a  OBVIOUS
  <2>2. s \in Seq({a, b}) /\ Len(s) = 2 /\ s[1] = a /\ s[2] = b
    BY <1>1, <2>1, AppendProperties
  <2>3. t \in Seq({a, b}) /\ Len(t) = 2 /\ t[1] = a /\ t[2] = b  OBVIOUS
  <2> HIDE DEF s, t
  <2>4. \A i \in 1..Len(s) : i = 1 \/ i = 2  BY ONLY <2>2, SMT
  <2>5. s = t  BY ONLY <2>2, <2>3, <2>4, SeqEqual
  <2> QED BY <2>5 DEF s, t
<1>4. <<a>> \o <<>> = <<a>>  BY <1>1, ConcatEmptySeq
<1> QED BY <1>2, <1>3, <1>4

\* All of a sequence but its last element.
LEMMA FrontProperties ==
  ASSUME NEW S, NEW w \in Seq(S), w # <<>>
  PROVE  /\ Len(w) \in Nat \ {0} /\ Front(w) \in Seq(S) /\ Len(Front(w)) = Len(w) - 1
         /\ \A k \in 1..(Len(w) - 1) : Front(w)[k] = w[k]
<1>1. Len(w) \in Nat \ {0}  BY EmptySeq
<1>2. \A i \in 1..(Len(w) - 1) : w[i] \in S  BY SMT
<1>3. Len(w) - 1 \in Int  BY <1>1, SMT
<1>4. /\ Front(w) \in Seq(S)
      /\ 1 <= Len(w) - 1 => Len(Front(w)) = (Len(w) - 1) - 1 + 1
      /\ ~(1 <= Len(w) - 1) => Len(Front(w)) = 0
      /\ \A i \in 1..((Len(w) - 1) - 1 + 1) : Front(w)[i] = w[1 + i - 1]
  BY ONLY <1>2, <1>3, SubSeqProperties, SMT DEF Front
<1>5. Len(Front(w)) = Len(w) - 1  BY ONLY <1>1, <1>4, SMT
<1>6. \A k \in 1..(Len(w) - 1) : Front(w)[k] = w[k]  BY ONLY <1>1, <1>4, SMT
<1> QED BY <1>1, <1>4, <1>5, <1>6

\* Replacing the top of the stack of tasks by todo: how Then changes work.
LEMMA Replace ==
  ASSUME NEW S, NEW w \in Seq(S), w # <<>>, NEW T, NEW todo \in Seq(T),
         NEW r, r = Front(w) \o todo
  PROVE  Replaced(w, r, todo)
<1> DEFINE U == S \cup T
           f == Front(w)
<1>1. /\ Len(w) \in Nat \ {0} /\ f \in Seq(S) /\ Len(f) = Len(w) - 1
      /\ \A k \in 1..(Len(w) - 1) : f[k] = w[k]
  BY FrontProperties
<1>2. Len(todo) \in Nat  OBVIOUS
<1> HIDE DEF f
<1>3. f \in Seq(U) /\ todo \in Seq(U)  BY <1>1, SMT
<1>4. r = f \o todo  BY DEF f
<1> HIDE DEF U
<1>5. /\ r \in Seq(U) /\ Len(r) = Len(f) + Len(todo)
      /\ \A k \in 1..(Len(f) + Len(todo)) :
           /\ k <= Len(f) => r[k] = f[k]
           /\ ~(k <= Len(f)) => r[k] = todo[k - Len(f)]
  BY ONLY <1>3, <1>4, ConcatProperties
<1>6. r \in Seq(Range(r))  BY <1>5, SeqOfItsRange
<1>7. \A k \in 1..(Len(w) - 1) : r[k] = w[k]  BY ONLY <1>1, <1>2, <1>5, SMT
<1>8. \A i \in 1..Len(todo) : r[Len(w) - 1 + i] = todo[i]
  BY ONLY <1>1, <1>2, <1>5, SMT
<1>9. ASSUME NEW k \in 1..Len(r)
      PROVE  /\ k < Len(w) => k \in 1..(Len(w) - 1) /\ r[k] = w[k]
             /\ ~(k < Len(w)) => \E i \in 1..Len(todo) : k = Len(w) - 1 + i /\ r[k] = todo[i]
  <2>1. Len(r) = Len(w) - 1 + Len(todo)  BY ONLY <1>1, <1>2, <1>5, SMT
  <2>2. k < Len(w) => k \in 1..(Len(w) - 1)
    BY ONLY <1>1, <1>2, <2>1, k \in 1..Len(r), SMT
  <2>3. ~(k < Len(w)) => k - Len(w) + 1 \in 1..Len(todo) /\ k = Len(w) - 1 + (k - Len(w) + 1)
    BY ONLY <1>1, <1>2, <2>1, k \in 1..Len(r), SMT
  <2>4. ~(k < Len(w)) => r[k] = todo[k - Len(w) + 1]  BY ONLY <1>8, <2>3
  <2> QED BY ONLY <2>2, <2>3, <2>4, <1>7
<1> QED BY <1>1, <1>2, <1>5, <1>6, <1>7, <1>8, <1>9 DEF Replaced

-----------------------------------------------------------------------------
(* Blocks.                                                                 *)

\* The sets of instructions and blocks grow with the program.
LEMMA BlockSetsGrow ==
  ASSUME NEW n \in Nat, NEW n2 \in Nat, n <= n2, NEW m \in Nat, NEW m2 \in Nat, m <= m2
  PROVE  /\ InstructionSet(n) \subseteq InstructionSet(n2)
         /\ BlockSet(n, m) \subseteq BlockSet(n2, m2)
         /\ FunctionSet(n) \subseteq FunctionSet(n2)
         /\ Seq(BlockSet(n, m)) \subseteq Seq(BlockSet(n2, m2))
         /\ Seq(FunctionSet(n)) \subseteq Seq(FunctionSet(n2))
<1>1. 1..n \subseteq 1..n2 /\ 0..m \subseteq 0..m2  OBVIOUS
<1>2. Seq(1..n) \subseteq Seq(1..n2)  BY <1>1, SMT
<1>3. InstructionSet(n) \subseteq InstructionSet(n2)
  BY <1>2, SMT DEF InstructionSet
<1>4. Seq(InstructionSet(n)) \subseteq Seq(InstructionSet(n2))  BY <1>3, SMT
<1>5. BlockSet(n, m) \subseteq BlockSet(n2, m2)  BY <1>1, <1>4, SMT DEF BlockSet
<1>6. FunctionSet(n) \subseteq FunctionSet(n2)  BY <1>1, SMT DEF FunctionSet
<1> QED BY <1>3, <1>5, <1>6, SMT

\* A function on 1..n is a sequence.
LEMMA FunctionIsSeq ==
  ASSUME NEW S, NEW n \in Nat, NEW g \in [1..n -> S]
  PROVE  g \in Seq(S) /\ Len(g) = n
  BY SMT

\* Replacing an element of a sequence changes that element only.
LEMMA Update ==
  ASSUME NEW S, NEW s \in Seq(S), NEW i, NEW x, i \in 1..Len(s) => x \in S
  PROVE  /\ Updated(s, i, x) \in Seq(S) /\ Len(Updated(s, i, x)) = Len(s)
         /\ \A c \in 1..Len(s) : /\ c = i => Updated(s, i, x)[c] = x
                                 /\ c # i => Updated(s, i, x)[c] = s[c]
<1> DEFINE f == [c \in 1..Len(s) |-> IF c = i THEN x ELSE s[c]]
           r == Updated(s, i, x)
<1>1. r = f  BY ONLY s \in Seq(S), SMT DEF f, r, Updated
<1>2. f \in [1..Len(s) -> S]  BY SMT
<1>3. r \in [1..Len(s) -> S]  BY <1>1, <1>2
<1>4. Len(s) \in Nat  OBVIOUS
<1> HIDE DEF r
<1>5. r \in Seq(S) /\ Len(r) = Len(s)  BY ONLY <1>3, <1>4, FunctionIsSeq
<1>6. \A c \in 1..Len(s) : (c = i => r[c] = x) /\ (c # i => r[c] = s[c])
  BY <1>1, SMT
<1> QED BY <1>5, <1>6 DEF r

\* The parts of a block.
LEMMA BlockParts ==
  ASSUME NEW n \in Nat, NEW m \in Nat, NEW bs \in Seq(BlockSet(n, m)), NEW b \in 1..Len(bs)
  PROVE  bs[b].code \in Seq(InstructionSet(n)) /\ bs[b].fn \in 0..m
<1>1. bs[b] \in BlockSet(n, m)  OBVIOUS
<1> QED BY <1>1, SMT DEF BlockSet

\* A block has the type, the parent and the code it is built from.
LEMMA BlockType ==
  ASSUME NEW n \in Nat, NEW m \in Nat, NEW fn \in 0..m, NEW code \in Seq(InstructionSet(n))
  PROVE  /\ Block(fn, code) \in BlockSet(n, m) /\ Block(fn, code).fn = fn
         /\ Block(fn, code).code = code
  BY SMT DEF Block, BlockSet

\* The instructions of the visitor.
LEMMA InstructionTypes ==
  ASSUME NEW n \in Nat
  PROVE  /\ \A preds \in Seq(1..n) : Phi(preds) \in InstructionSet(n)
         /\ \A tag \in Tags : Act(tag) \in InstructionSet(n)
         /\ \A b \in 1..n : Br(b) \in InstructionSet(n)
         /\ \A tag \in Tags : \A yes, no \in 1..n : CondBr(tag, yes, no) \in InstructionSet(n)
         /\ Ret \in InstructionSet(n)
         /\ \A tag \in Tags : RuntimeError(tag) \in Seq(InstructionSet(n))
         /\ \A tag \in Tags : Instruction("alloca", tag, <<>>) \in InstructionSet(n)
<1>1. ASSUME NEW op \in InstructionOps, NEW tag \in Tags, NEW to \in Seq(1..n)
      PROVE  Instruction(op, tag, to) \in InstructionSet(n)
  BY SMT DEF Instruction, InstructionSet
<1>2. /\ {"do", "br", "condbr", "phi", "ret", "fail", "unreachable", "alloca"} \subseteq InstructionOps
      /\ {"br", "phi", "ret", "exit"} \subseteq Tags
  BY DEF InstructionOps, Tags, VisitorTags
<1>3. <<>> \in Seq(1..n)  BY EmptySeq
<1>4. ASSUME NEW preds \in Seq(1..n) PROVE Phi(preds) \in InstructionSet(n)
  BY <1>1, <1>2 DEF Phi
<1>5. ASSUME NEW tag \in Tags PROVE Act(tag) \in InstructionSet(n)
  BY <1>1, <1>2, <1>3 DEF Act
<1>6. ASSUME NEW b \in 1..n PROVE Br(b) \in InstructionSet(n)
  <2>1. <<b>> \in Seq(1..n)  OBVIOUS
  <2> QED BY <1>1, <1>2, <2>1 DEF Br
<1>7. ASSUME NEW tag \in Tags, NEW yes \in 1..n, NEW no \in 1..n
      PROVE  CondBr(tag, yes, no) \in InstructionSet(n)
  <2>1. <<yes, no>> \in Seq(1..n)  OBVIOUS
  <2> QED BY <1>1, <1>2, <2>1 DEF CondBr
<1>8. Ret \in InstructionSet(n)  BY <1>1, <1>2, <1>3 DEF Ret
<1>9. ASSUME NEW tag \in Tags PROVE RuntimeError(tag) \in Seq(InstructionSet(n))
  <2>1. /\ Instruction("fail", tag, <<>>) \in InstructionSet(n)
        /\ Instruction("unreachable", "exit", <<>>) \in InstructionSet(n)
    BY <1>1, <1>2, <1>3
  <2> QED BY ONLY <2>1 DEF RuntimeError
<1>10. ASSUME NEW tag \in Tags PROVE Instruction("alloca", tag, <<>>) \in InstructionSet(n)
  BY <1>1, <1>2, <1>3
<1> QED BY ONLY <1>4, <1>5, <1>6, <1>7, <1>8, <1>9, <1>10

\* The tags of the visitor, of the effects and of the declarations are tags.
LEMMA TagTypes ==
  /\ VisitorTags \subseteq Tags
  /\ \A e \in Effect : e.tag \in Tags
  /\ \A s \in Statement : s.kind = "declaration" => s.var \in Tags
BY DEF Tags

\* New blocks, empty or with code, have the type of a block.
LEMMA BlockTypes ==
  ASSUME NEW n \in Nat, NEW m \in Nat, NEW fn \in 0..m
  PROVE  /\ \A code \in Seq(InstructionSet(n)) :
              Block(fn, code) \in BlockSet(n, m) /\ Block(fn, code).fn = fn
         /\ EmptyBlock(fn) \in BlockSet(n, m) /\ EmptyBlock(fn).fn = fn
         /\ EmptyBlock(fn).code = <<>>
<1>1. <<>> \in Seq(InstructionSet(n))  BY EmptySeq
<1>2. \A code \in Seq(InstructionSet(n)) :
        Block(fn, code) \in BlockSet(n, m) /\ Block(fn, code).fn = fn
  BY BlockType
<1>3. EmptyBlock(fn) = Block(fn, <<>>)  BY DEF EmptyBlock
<1>4. Block(fn, <<>>).code = <<>>  BY DEF Block
<1> QED BY ONLY <1>1, <1>2, <1>3, <1>4

\* Replacing a block.
LEMMA UpdateBlock ==
  ASSUME NEW n \in Nat, NEW m \in Nat, NEW bs \in Seq(BlockSet(n, m)), NEW b,
         NEW fn, NEW code,
         b \in 1..Len(bs) => fn \in 0..m,
         b \in 1..Len(bs) => code \in Seq(InstructionSet(n)),
         NEW r, r = Updated(bs, b, Block(fn, code))
  PROVE  /\ r \in Seq(BlockSet(n, m)) /\ Len(r) = Len(bs)
         /\ \A c \in 1..Len(bs) : /\ c = b => r[c].fn = fn /\ r[c].code = code
                                  /\ c # b => r[c] = bs[c]
<1>1. b \in 1..Len(bs) => Block(fn, code) \in BlockSet(n, m)  BY BlockType
<1>2. /\ r \in Seq(BlockSet(n, m)) /\ Len(r) = Len(bs)
      /\ \A c \in 1..Len(bs) : /\ c = b => r[c] = Block(fn, code)
                               /\ c # b => r[c] = bs[c]
  BY ONLY <1>1, bs \in Seq(BlockSet(n, m)), r = Updated(bs, b, Block(fn, code)), Update
<1>3. Block(fn, code).fn = fn /\ Block(fn, code).code = code  BY DEF Block
<1> QED BY ONLY <1>2, <1>3, SMT

\* Appending instructions to a block.
LEMMA PutType ==
  ASSUME NEW n \in Nat, NEW m \in Nat, NEW bs \in Seq(BlockSet(n, m)), NEW b,
         NEW code \in Seq(InstructionSet(n)),
         NEW r, r = Put(bs, b, code)
  PROVE  /\ r \in Seq(BlockSet(n, m)) /\ Len(r) = Len(bs)
         /\ \A c \in 1..Len(bs) : /\ r[c].fn = bs[c].fn
                                  /\ c # b => r[c] = bs[c]
<1>1. b \in 1..Len(bs) => bs[b].code \in Seq(InstructionSet(n)) /\ bs[b].fn \in 0..m
  BY BlockParts
<1> DEFINE fn   == bs[b].fn
           more == bs[b].code \o code
<1>2. b \in 1..Len(bs) => more \in Seq(InstructionSet(n))  BY <1>1
<1>3. b \in 1..Len(bs) => fn \in 0..m  BY <1>1
<1>4. r = Updated(bs, b, Block(fn, more))  BY DEF Put, Updated
<1> HIDE DEF fn, more
<1>5. /\ r \in Seq(BlockSet(n, m)) /\ Len(r) = Len(bs)
      /\ \A c \in 1..Len(bs) : /\ c = b => r[c].fn = fn /\ r[c].code = more
                               /\ c # b => r[c] = bs[c]
  BY <1>2, <1>3, <1>4, UpdateBlock
<1> QED BY <1>5 DEF fn, more

\* Inserting an instruction at the beginning of a block.
LEMMA PutInEntryType ==
  ASSUME NEW n \in Nat, NEW m \in Nat, NEW bs \in Seq(BlockSet(n, m)), NEW b,
         NEW i \in InstructionSet(n),
         NEW r, r = PutInEntry(bs, b, i)
  PROVE  /\ r \in Seq(BlockSet(n, m)) /\ Len(r) = Len(bs)
         /\ \A c \in 1..Len(bs) : /\ r[c].fn = bs[c].fn
                                  /\ c # b => r[c] = bs[c]
<1>1. b \in 1..Len(bs) => bs[b].code \in Seq(InstructionSet(n)) /\ bs[b].fn \in 0..m
  BY BlockParts
<1> DEFINE fn   == bs[b].fn
           more == <<i>> \o bs[b].code
<1>2. b \in 1..Len(bs) => more \in Seq(InstructionSet(n))  BY <1>1
<1>3. b \in 1..Len(bs) => fn \in 0..m  BY <1>1
<1>4. r = Updated(bs, b, Block(fn, more))  BY DEF PutInEntry, Updated
<1> HIDE DEF fn, more
<1>5. /\ r \in Seq(BlockSet(n, m)) /\ Len(r) = Len(bs)
      /\ \A c \in 1..Len(bs) : /\ c = b => r[c].fn = fn /\ r[c].code = more
                               /\ c # b => r[c] = bs[c]
  BY <1>2, <1>3, <1>4, UpdateBlock
<1> QED BY <1>5 DEF fn, more

\* Attaching a block to a function.
LEMMA AttachType ==
  ASSUME NEW n \in Nat, NEW m \in Nat, NEW bs \in Seq(BlockSet(n, m)), NEW b,
         NEW fn \in 0..m,
         NEW r, r = Attach(bs, b, fn)
  PROVE  /\ r \in Seq(BlockSet(n, m)) /\ Len(r) = Len(bs)
         /\ \A c \in 1..Len(bs) : /\ c = b => r[c].fn = fn
                                  /\ c # b => r[c] = bs[c]
<1>1. b \in 1..Len(bs) => bs[b].code \in Seq(InstructionSet(n))  BY BlockParts
<1> DEFINE code == bs[b].code
<1>2. r = Updated(bs, b, Block(fn, code))  BY DEF Attach, Updated
<1>3. b \in 1..Len(bs) => fn \in 0..m  OBVIOUS
<1> HIDE DEF code
<1>4. /\ r \in Seq(BlockSet(n, m)) /\ Len(r) = Len(bs)
      /\ \A c \in 1..Len(bs) : /\ c = b => r[c].fn = fn /\ r[c].code = code
                               /\ c # b => r[c] = bs[c]
  BY <1>1, <1>2, <1>3, UpdateBlock DEF code
<1> QED BY <1>4 DEF code

\* Records with the same fields are equal.
LEMMA SameRecord ==
  ASSUME NEW A, NEW B, NEW x \in [fn : A, code : B], NEW y \in [fn : A, code : B],
         x.fn = y.fn, x.code = y.code
  PROVE  x = y
<1>1. x = [fn |-> x.fn, code |-> x.code]  OBVIOUS
<1>2. y = [fn |-> y.fn, code |-> y.code]  OBVIOUS
<1> QED BY <1>1, <1>2

\* Two blocks with the same parent and the same code are the same.
LEMMA SameBlock ==
  ASSUME NEW n, NEW m, NEW x \in BlockSet(n, m), NEW y \in BlockSet(n, m),
         x.fn = y.fn, x.code = y.code
  PROVE  x = y
  BY SameRecord DEF BlockSet

\* Adding a predecessor to the PHI node of a block, if it has one.
LEMMA AddIncomingType ==
  ASSUME NEW n \in Nat, NEW m \in Nat, NEW bs \in Seq(BlockSet(n, m)), NEW b,
         NEW pred \in 1..n,
         NEW r, r = AddIncoming(bs, b, pred)
  PROVE  /\ r \in Seq(BlockSet(n, m)) /\ Len(r) = Len(bs)
         /\ \A c \in 1..Len(bs) : /\ r[c].fn = bs[c].fn
                                  /\ c # b => r[c] = bs[c]
                                  /\ bs[c].code = <<>> => r[c] = bs[c]
<1> DEFINE phi  == Phi(Append(bs[b].code[1].to, pred))
           code == Updated(bs[b].code, 1, phi)
<1>1. b \in 1..Len(bs) => bs[b].code \in Seq(InstructionSet(n)) /\ bs[b].fn \in 0..m
  BY BlockParts
<1>2. b \in 1..Len(bs) => (1 \in 1..Len(bs[b].code) => phi \in InstructionSet(n))
  <2> SUFFICES ASSUME b \in 1..Len(bs), 1 \in 1..Len(bs[b].code)
               PROVE  phi \in InstructionSet(n)
    OBVIOUS
  <2>1. bs[b].code[1] \in InstructionSet(n)  BY <1>1
  <2>2. bs[b].code[1].to \in Seq(1..n)  BY <2>1, SMT DEF InstructionSet
  <2>3. Append(bs[b].code[1].to, pred) \in Seq(1..n)  BY <2>2
  <2> QED BY <2>3, InstructionTypes
<1> HIDE DEF phi
<1>3. b \in 1..Len(bs) => code \in Seq(InstructionSet(n)) /\ Len(code) = Len(bs[b].code)
  BY <1>1, <1>2, Update
<1>4. b \in 1..Len(bs) => code \in Seq(InstructionSet(n))  BY <1>3
<1>5. b \in 1..Len(bs) => bs[b].fn \in 0..m  BY <1>1
<1>6. r = Updated(bs, b, Block(bs[b].fn, code))  BY DEF AddIncoming, Updated, phi
<1>7. b \in 1..Len(bs) /\ bs[b].code = <<>> => code = <<>>
  <2>1. Len(<<>>) = 0  BY EmptySeq
  <2> QED BY <1>3, <2>1, EmptySeq
<1> DEFINE fn == bs[b].fn
<1>8. b \in 1..Len(bs) => fn \in 0..m  BY <1>5
<1>9. r = Updated(bs, b, Block(fn, code))  BY <1>6
<1> HIDE DEF code, fn
<1>10. /\ r \in Seq(BlockSet(n, m)) /\ Len(r) = Len(bs)
       /\ \A c \in 1..Len(bs) : /\ c = b => r[c].fn = fn /\ r[c].code = code
                                /\ c # b => r[c] = bs[c]
  BY ONLY n \in Nat, m \in Nat, bs \in Seq(BlockSet(n, m)), <1>4, <1>8, <1>9,
          UpdateBlock
<1>11. ASSUME NEW c \in 1..Len(bs), bs[c].code = <<>>
       PROVE  r[c] = bs[c]
  <2>1. CASE c = b
    <3>1. bs[c] \in BlockSet(n, m) /\ r[c] \in BlockSet(n, m)
      <4> DEFINE S == BlockSet(n, m)
      <4>1. bs \in Seq(S) /\ r \in Seq(S) /\ Len(r) = Len(bs)  BY <1>10
      <4> HIDE DEF S
      <4>2. bs[c] \in S /\ r[c] \in S  BY ONLY <4>1, c \in 1..Len(bs)
      <4> QED BY ONLY <4>2 DEF S
    <3>2. r[c].fn = bs[c].fn  BY ONLY <1>10, <2>1, c \in 1..Len(bs) DEF fn
    <3>3. r[c].code = bs[c].code
      BY ONLY <1>7, <1>10, <1>11, <2>1, c \in 1..Len(bs)
    <3> QED BY ONLY <3>1, <3>2, <3>3, SameBlock
  <2>2. CASE c # b  BY ONLY <1>10, <2>2, c \in 1..Len(bs)
  <2> QED BY <2>1, <2>2
<1> QED BY <1>10, <1>11 DEF fn

-----------------------------------------------------------------------------
(* What a step of a method does.                                           *)

\* A task stays well-typed when blocks and functions are added.
LEMMA TasksGrow ==
  ASSUME NEW n \in Nat, NEW n2 \in Nat, n <= n2, NEW m \in Nat, NEW m2 \in Nat, m <= m2,
         NEW t, TaskOK(t, n, m)
  PROVE  TaskOK(t, n2, m2)
<1>1. 1..n \subseteq 1..n2 /\ 0..m \subseteq 0..m2 /\ 0..n \subseteq 0..n2
  OBVIOUS
<1>2. Seq(1..n) \subseteq Seq(1..n2)  BY <1>1, SMT
<1>3. TaskArgOK(t, n)  BY DEF TaskOK
<1>4. TaskArgOK(t, n2)  BY ONLY <1>1, <1>3 DEF TaskArgOK
<1> QED BY <1>1, <1>2, <1>4 DEF TaskOK

\* Replacing the current task by tasks of the same function keeps the call stack.
LEMMA OrdinaryCallStack ==
  ASSUME CallStackOK, NEW todo, NEW owe, TodoOK(todo, owe, work[Len(work)].fn, Len(blocks'), Len(functions)),
         Replaced(work, work', todo), Len(work) >= 2, KeepsParents(blocks, blocks'),
         Len(blocks) \in Nat, Len(blocks') \in Nat,
         work[Len(work)].op # "function_end"
  PROVE  CallStackOK'
<1> DEFINE L == Len(work)
<1>1. L \in Nat /\ L >= 2 /\ Len(todo) \in Nat /\ Len(work') = L - 1 + Len(todo)
  BY DEF Replaced
<1>2. \A k \in 1..Len(work') :
       /\ k < L => k \in 1..(L - 1) /\ work'[k] = work[k]
       /\ ~(k < L) => \E i \in 1..Len(todo) : k = L - 1 + i /\ work'[k] = todo[i]
  BY DEF Replaced
<1>3. \A i \in 1..Len(todo) : /\ todo[i].op \notin {"program", "function_end"}
                              /\ todo[i].fn = work[L].fn
  BY DEF TodoOK
<1>4. work[L].fn # 0 /\ work[L - 1].fn = work[L].fn
  BY ONLY CallStackOK, work[Len(work)].op # "function_end", <1>1, SMT DEF CallStackOK
<1>5. /\ \A k \in 1..L : work[k].op = "program" <=> k = 1
      /\ \A k \in 2..L : /\ work[k].fn # 0
                         /\ work[k].op # "function_end" => work[k - 1].fn = work[k].fn
      /\ \A k \in 3..L : work[k].op = "function_end" =>
           /\ work[k].arg.kind # "main" /\ work[k].arg.saved \in 1..Len(blocks)
           /\ blocks[work[k].arg.saved].fn = work[k - 1].fn
  BY DEF CallStackOK
<1>6. /\ Len(blocks) <= Len(blocks')
      /\ \A b \in 1..Len(blocks) : blocks[b].fn # 0 => blocks'[b].fn = blocks[b].fn
  BY DEF KeepsParents, NoParent
<1> HIDE DEF L
<1>7. ASSUME NEW k \in 1..Len(work') PROVE work'[k].op = "program" <=> k = 1
  <2>1. CASE k < L  BY ONLY <1>1, <1>2, <1>5, <2>1, k \in 1..Len(work'), SMT
  <2>2. CASE ~(k < L)  BY ONLY k \in 1..Len(work'), <1>1, <1>2, <1>3, <2>2, SMT
  <2> QED BY <2>1, <2>2
<1>8. ASSUME NEW k \in 2..Len(work')
      PROVE  /\ work'[k].fn # 0
             /\ work'[k].op # "function_end" => work'[k - 1].fn = work'[k].fn
  <2>1. k \in 1..Len(work') /\ k - 1 \in 1..Len(work') /\ k - 1 >= 1
    BY ONLY k \in 2..Len(work'), <1>1, SMT
  <2>2. CASE k < L
    <3>1. k \in 2..L /\ work'[k] = work[k] /\ work'[k - 1] = work[k - 1]
      BY ONLY <1>1, <1>2, <2>1, <2>2, k \in 2..Len(work'), SMT
    <3> QED BY ONLY <3>1, <1>5
  <2>3. CASE k = L
    <3>1. work'[k - 1] = work[L - 1] /\ \E i \in 1..Len(todo) : work'[k] = todo[i]
      BY ONLY <1>1, <1>2, <2>1, <2>3, SMT
    <3> QED BY ONLY <3>1, <1>3, <1>4
  <2>4. CASE k > L
    <3>1. /\ \E i \in 1..Len(todo) : work'[k] = todo[i]
          /\ \E i \in 1..Len(todo) : work'[k - 1] = todo[i]
      BY ONLY <1>1, <1>2, <2>1, <2>4, SMT
    <3> QED BY ONLY <3>1, <1>3, <1>4
  <2> QED BY ONLY <1>1, <2>1, <2>2, <2>3, <2>4, SMT
<1>9. ASSUME NEW k \in 3..Len(work'), work'[k].op = "function_end"
      PROVE  /\ work'[k].arg.kind # "main" /\ work'[k].arg.saved \in 1..Len(blocks')
             /\ blocks'[work'[k].arg.saved].fn = work'[k - 1].fn
  <2>1. k \in 1..Len(work') /\ k - 1 \in 1..Len(work') /\ k - 1 >= 2
    BY ONLY k \in 3..Len(work'), <1>1, SMT
  <2>2. k < L  BY ONLY <2>1, <1>2, <1>3, work'[k].op = "function_end", SMT
  <2>3. k \in 3..L /\ k - 1 \in 2..L /\ work'[k] = work[k] /\ work'[k - 1] = work[k - 1]
    BY ONLY <1>1, <1>2, <2>1, <2>2, k \in 3..Len(work'), SMT
  <2>4. /\ work[k].arg.kind # "main" /\ work[k].arg.saved \in 1..Len(blocks)
        /\ blocks[work[k].arg.saved].fn = work[k - 1].fn /\ work[k - 1].fn # 0
    BY ONLY <2>3, <1>5, work'[k].op = "function_end"
  <2>5. work[k].arg.saved \in 1..Len(blocks')
    BY ONLY <2>4, <1>6, Len(blocks) \in Nat, Len(blocks') \in Nat, SMT
  <2> QED BY ONLY <2>3, <2>4, <2>5, <1>6
<1> QED BY ONLY <1>7, <1>8, <1>9 DEF CallStackOK

\* Replacing the current task by tasks that owe what it owed, or new blocks,
\* keeps every owed block owed once.
LEMMA OrdinaryOwed ==
  ASSUME OwedOK, NEW todo, NEW owe,
         TodoOK(todo, owe, work[Len(work)].fn, Len(blocks'), Len(functions)),
         Replaced(work, work', todo), Len(work) >= 2,
         PaysWhatIsOwed(blocks, blocks', Owed(Len(work)), owe),
         Len(blocks) \in Nat,
         \A k \in 1..Len(work) : \A i \in 1..Len(work[k].owe) : work[k].owe[i] \in 1..Len(blocks)
  PROVE  OwedOK'
<1> DEFINE L == Len(work)
<1>1. L \in Nat /\ L >= 2 /\ Len(todo) \in Nat  BY DEF Replaced
<1>2. \A k \in 1..Len(work') :
       /\ k < L => k \in 1..(L - 1) /\ work'[k] = work[k]
       /\ ~(k < L) => \E i \in 1..Len(todo) : k = L - 1 + i /\ work'[k] = todo[i]
  BY DEF Replaced
<1>3. \A i \in 1..Len(todo) : /\ i = 1 => todo[i].owe = owe
                              /\ i # 1 => Len(todo[i].owe) = 0
  BY DEF TodoOK
<1>4. /\ \A k \in 1..L : \A i \in 1..Len(work[k].owe) : blocks[work[k].owe[i]].fn = 0
      /\ \A k, l \in 1..L : \A i \in 1..Len(work[k].owe), j \in 1..Len(work[l].owe) :
           work[k].owe[i] = work[l].owe[j] => k = l /\ i = j
  BY DEF OwedOK, NoParent
<1>5. \A b : b \in Owed(L) <=> \E i \in 1..Len(work[L].owe) : work[L].owe[i] = b
  BY DEF Owed
<1>6. /\ \A b \in 1..Len(blocks) : blocks[b].fn = 0 => blocks'[b] = blocks[b] \/ b \in Owed(L)
      /\ \A j \in 1..Len(owe) : /\ blocks'[owe[j]].fn = 0
                                /\ owe[j] > Len(blocks) \/ owe[j] \in Owed(L)
      /\ \A i, j \in 1..Len(owe) : owe[i] = owe[j] => i = j
  BY DEF PaysWhatIsOwed, NoParent
<1>7. \A k \in 1..L : \A i \in 1..Len(work[k].owe) : work[k].owe[i] \in 1..Len(blocks)
  OBVIOUS
<1> HIDE DEF L
<1>8. \A k \in 1..(L - 1) : k \in 1..L /\ k # L  BY ONLY <1>1, SMT
<1>9. L \in 1..L  BY ONLY <1>1, SMT
\* What the tasks below the top owe is not owed by the top.
<1>10. ASSUME NEW k \in 1..(L - 1), NEW i \in 1..Len(work[k].owe)
       PROVE  /\ work[k].owe[i] \notin Owed(L) /\ work[k].owe[i] \in 1..Len(blocks)
              /\ blocks'[work[k].owe[i]].fn = 0
              /\ \A j \in 1..Len(owe) : owe[j] # work[k].owe[i]
  <2>1. k \in 1..L /\ k # L  BY <1>8
  <2>2. work[k].owe[i] \notin Owed(L)
    <3>1. ASSUME NEW j \in 1..Len(work[L].owe), work[L].owe[j] = work[k].owe[i]
          PROVE  FALSE
      BY ONLY <1>4, <1>9, <2>1, <3>1, i \in 1..Len(work[k].owe)
    <3> QED BY ONLY <1>5, <3>1
  <2>3. work[k].owe[i] \in 1..Len(blocks) /\ blocks[work[k].owe[i]].fn = 0
    BY ONLY <1>4, <1>7, <2>1, i \in 1..Len(work[k].owe)
  <2>4. blocks'[work[k].owe[i]].fn = 0  BY ONLY <1>6, <2>2, <2>3
  <2>5. ~(work[k].owe[i] > Len(blocks))  BY ONLY <2>3, Len(blocks) \in Nat, SMT
  <2> QED BY ONLY <1>6, <2>2, <2>3, <2>4, <2>5
\* A task owes what it owed before, or it is the first new one.
<1>11. ASSUME NEW k \in 1..Len(work'), NEW i \in 1..Len(work'[k].owe)
       PROVE  \/ k \in 1..(L - 1) /\ work'[k] = work[k]
              \/ k = L /\ work'[k].owe = owe
  <2>1. CASE k < L  BY ONLY <1>2, <2>1, k \in 1..Len(work')
  <2>2. CASE ~(k < L)
    <3>1. PICK x \in 1..Len(todo) : k = L - 1 + x /\ work'[k] = todo[x]
      BY ONLY <1>2, <2>2, k \in 1..Len(work')
    <3>2. x = 1
      <4>1. Len(todo[x].owe) # 0  BY ONLY <3>1, i \in 1..Len(work'[k].owe), SMT
      <4> QED BY ONLY <1>3, <3>1, <4>1, x \in 1..Len(todo)
    <3>3. k = L  BY ONLY <1>1, <3>1, <3>2, SMT
    <3>4. todo[x].owe = owe  BY ONLY <1>3, <3>2, x \in 1..Len(todo)
    <3> QED BY ONLY <3>1, <3>3, <3>4
  <2> QED BY <2>1, <2>2
<1>12. ASSUME NEW k \in 1..Len(work'), NEW i \in 1..Len(work'[k].owe)
       PROVE  blocks'[work'[k].owe[i]].fn = 0
  <2>1. CASE k \in 1..(L - 1) /\ work'[k] = work[k]
    BY ONLY <1>10, <2>1, i \in 1..Len(work'[k].owe)
  <2>2. CASE work'[k].owe = owe  BY ONLY <1>6, <2>2, i \in 1..Len(work'[k].owe)
  <2> QED BY <1>11, <2>1, <2>2
<1>13. ASSUME NEW k \in 1..Len(work'), NEW l \in 1..Len(work'),
              NEW i \in 1..Len(work'[k].owe), NEW j \in 1..Len(work'[l].owe),
              work'[k].owe[i] = work'[l].owe[j]
       PROVE  k = l /\ i = j
  <2>1. CASE /\ k \in 1..(L - 1) /\ work'[k] = work[k]
             /\ l \in 1..(L - 1) /\ work'[l] = work[l]
    BY ONLY <1>4, <1>8, <2>1, i \in 1..Len(work'[k].owe), j \in 1..Len(work'[l].owe),
            work'[k].owe[i] = work'[l].owe[j]
  <2>2. CASE /\ k \in 1..(L - 1) /\ work'[k] = work[k]
             /\ work'[l].owe = owe
    BY ONLY <1>10, <2>2, i \in 1..Len(work'[k].owe), j \in 1..Len(work'[l].owe),
            work'[k].owe[i] = work'[l].owe[j]
  <2>3. CASE /\ l \in 1..(L - 1) /\ work'[l] = work[l]
             /\ work'[k].owe = owe
    BY ONLY <1>10, <2>3, i \in 1..Len(work'[k].owe), j \in 1..Len(work'[l].owe),
            work'[k].owe[i] = work'[l].owe[j]
  <2>4. CASE k = L /\ work'[k].owe = owe /\ l = L /\ work'[l].owe = owe
    BY ONLY <1>6, <2>4, i \in 1..Len(work'[k].owe), j \in 1..Len(work'[l].owe),
            work'[k].owe[i] = work'[l].owe[j]
  <2> QED BY <1>11, <2>1, <2>2, <2>3, <2>4
<1> QED BY ONLY <1>12, <1>13 DEF OwedOK, NoParent

\* Under the same change, blocks without parent stay empty and owed.
LEMMA OrdinaryDetached ==
  ASSUME DetachedOK, NEW todo, NEW owe,
         TodoOK(todo, owe, work[Len(work)].fn, Len(blocks'), Len(functions)),
         Replaced(work, work', todo), Len(work) >= 2,
         KeepsParents(blocks, blocks'),
         PaysWhatIsOwed(blocks, blocks', Owed(Len(work)), owe),
         Len(blocks) \in Nat, Len(blocks') \in Nat
  PROVE  DetachedOK'
<1> DEFINE L == Len(work)
<1>1. /\ L \in Nat /\ L >= 2 /\ Len(todo) \in Nat /\ Len(work') = L - 1 + Len(todo)
      /\ \A k \in 1..(L - 1) : work'[k] = work[k]
      /\ \A i \in 1..Len(todo) : work'[L - 1 + i] = todo[i]
  BY DEF Replaced
<1>2. /\ Len(todo) = 0 => Len(owe) = 0
      /\ \A i \in 1..Len(todo) : i = 1 => todo[i].owe = owe
  BY DEF TodoOK
<1>3. \A b \in 1..Len(blocks) : blocks[b].fn = 0 =>
         /\ blocks[b].code = <<>>
         /\ \E k \in 1..L : \E i \in 1..Len(work[k].owe) : work[k].owe[i] = b
  BY DEF DetachedOK, NoParent
<1>4. \A b : b \in Owed(L) <=> \E i \in 1..Len(work[L].owe) : work[L].owe[i] = b
  BY DEF Owed
<1>5. /\ \A b \in 1..Len(blocks) : blocks[b].fn = 0 => blocks'[b] = blocks[b] \/ b \in Owed(L)
      /\ \A b \in 1..Len(blocks') :
           blocks'[b].fn = 0 /\ (b > Len(blocks) \/ b \in Owed(L)) =>
             /\ blocks'[b].code = <<>>
             /\ \E j \in 1..Len(owe) : owe[j] = b
  BY DEF PaysWhatIsOwed, NoParent
<1>6. \A b \in 1..Len(blocks) : blocks[b].fn # 0 => blocks'[b].fn = blocks[b].fn
  BY DEF KeepsParents, NoParent
<1> HIDE DEF L
<1>7. ASSUME NEW b \in 1..Len(blocks'), blocks'[b].fn = 0
      PROVE  /\ blocks'[b].code = <<>>
             /\ \E k \in 1..Len(work') : \E i \in 1..Len(work'[k].owe) : work'[k].owe[i] = b
  <2>1. CASE b > Len(blocks) \/ b \in Owed(L)
    <3>1. blocks'[b].code = <<>> /\ \E j \in 1..Len(owe) : owe[j] = b
      BY ONLY <1>5, <2>1, b \in 1..Len(blocks'), blocks'[b].fn = 0
    <3>2. Len(owe) # 0  BY ONLY <3>1, SMT
    <3>3. 1 \in 1..Len(todo) /\ L \in 1..Len(work') /\ L - 1 + 1 = L
      BY ONLY <3>2, <1>1, <1>2, SMT
    <3>4. work'[L].owe = owe  BY ONLY <1>1, <1>2, <3>3
    <3> QED BY ONLY <3>1, <3>3, <3>4
  <2>2. CASE ~(b > Len(blocks)) /\ b \notin Owed(L)
    <3>1. b \in 1..Len(blocks)
      BY ONLY <2>2, b \in 1..Len(blocks'), Len(blocks) \in Nat, Len(blocks') \in Nat, SMT
    <3>2. blocks[b].fn = 0  BY ONLY <1>6, <3>1, blocks'[b].fn = 0
    <3>3. blocks'[b] = blocks[b]  BY ONLY <1>5, <2>2, <3>1, <3>2
    <3>4. blocks'[b].code = <<>>  BY ONLY <1>3, <3>1, <3>2, <3>3
    <3>5. PICK k \in 1..L : \E i \in 1..Len(work[k].owe) : work[k].owe[i] = b
      BY ONLY <1>3, <3>1, <3>2
    <3>6. k # L  BY ONLY <1>4, <2>2, <3>5
    <3>7. k \in 1..(L - 1) /\ k \in 1..Len(work')
      BY ONLY k \in 1..L, <1>1, <3>6, SMT
    <3>8. work'[k] = work[k]  BY ONLY <1>1, <3>7
    <3> QED BY ONLY <3>4, <3>5, <3>7, <3>8
  <2> QED BY <2>1, <2>2
<1> QED BY ONLY <1>7 DEF DetachedOK, NoParent

\* Under the same change, the state stays well-typed.
LEMMA OrdinaryTypes ==
  ASSUME TypeOK, status' = status, functions' = functions, NEW todo, NEW owe,
         TodoOK(todo, owe, work[Len(work)].fn, Len(blocks'), Len(functions)),
         Replaced(work, work', todo), Len(work) >= 2,
         blocks' \in Seq(BlockSet(Len(blocks'), Len(functions))),
         Len(blocks) <= Len(blocks'),
         insert' \in 1..Len(blocks')
  PROVE  TypeOK'
<1> DEFINE L  == Len(work)
           n  == Len(blocks)
           n2 == Len(blocks')
           m  == Len(functions)
<1>1. n \in Nat /\ n2 \in Nat /\ m \in Nat /\ n <= n2  BY DEF TypeOK
<1>2. \A k \in 1..L : TaskOK(work[k], n, m)  BY DEF TypeOK
<1>3. functions \in Seq(FunctionSet(n)) /\ status \in {"generating", "done", "invalid"}
  BY DEF TypeOK
<1>4. /\ \A k \in 1..Len(work') :
           /\ k < L => k \in 1..(L - 1) /\ work'[k] = work[k]
           /\ ~(k < L) => \E i \in 1..Len(todo) : k = L - 1 + i /\ work'[k] = todo[i]
      /\ L \in Nat /\ work' \in Seq(Range(work'))
  BY DEF Replaced
<1>5. \A i \in 1..Len(todo) : TaskOK(todo[i], n2, m)  BY DEF TodoOK
<1>6. blocks' \in Seq(BlockSet(n2, m)) /\ insert' \in 1..n2  OBVIOUS
<1> HIDE DEF L, n, n2, m
<1>7. \A k \in 1..L : TaskOK(work[k], n2, m)
  BY ONLY <1>1, <1>2, TasksGrow, m <= m
<1>8. ASSUME NEW k \in 1..Len(work') PROVE TaskOK(work'[k], n2, m)
  <2>1. CASE k < L
    <3>1. k \in 1..L  BY ONLY <1>4, <2>1, k \in 1..Len(work'), SMT
    <3> QED BY ONLY <1>4, <1>7, <2>1, <3>1, k \in 1..Len(work')
  <2>2. CASE ~(k < L)  BY ONLY <1>4, <1>5, <2>2, k \in 1..Len(work')
  <2> QED BY <2>1, <2>2
<1>9. functions \in Seq(FunctionSet(n2))
  BY ONLY <1>1, <1>3, m <= m, BlockSetsGrow
<1>10. insert' \in 0..n2  BY ONLY <1>1, <1>6, SMT
<1> QED BY ONLY <1>3, <1>4, <1>6, <1>8, <1>9, <1>10, status' = status, functions' = functions
           DEF TypeOK, n2, m

\* After the change, the insert block is part of the current task's function.
LEMMA OrdinaryInsert ==
  ASSUME CallStackOK, NEW todo, NEW owe,
         TodoOK(todo, owe, work[Len(work)].fn, Len(blocks'), Len(functions)),
         Replaced(work, work', todo), Len(work) >= 2,
         work[Len(work)].op # "function_end",
         insert' \in 1..Len(blocks'),
         blocks'[insert'].fn = work[Len(work)].fn
  PROVE  InsertOK'
<1> DEFINE L == Len(work)
<1>1. /\ L \in Nat /\ L >= 2 /\ Len(todo) \in Nat /\ Len(work') = L - 1 + Len(todo)
      /\ \A k \in 1..(L - 1) : work'[k] = work[k]
      /\ \A i \in 1..Len(todo) : work'[L - 1 + i] = todo[i]
  BY DEF Replaced
<1>2. \A i \in 1..Len(todo) : todo[i].fn = work[L].fn  BY DEF TodoOK
<1>3. work[L - 1].fn = work[L].fn
  BY ONLY CallStackOK, work[Len(work)].op # "function_end", <1>1, SMT DEF CallStackOK
<1> HIDE DEF L
<1>4. work'[Len(work')].fn = work[L].fn
  <2>1. CASE Len(todo) = 0
    <3>1. Len(work') = L - 1 /\ L - 1 \in 1..(L - 1)  BY ONLY <1>1, <2>1, SMT
    <3> QED BY ONLY <1>1, <1>3, <3>1
  <2>2. CASE Len(todo) # 0
    <3>1. Len(todo) \in 1..Len(todo)  BY ONLY <1>1, <2>2, SMT
    <3> QED BY ONLY <1>1, <1>2, <3>1
  <2> QED BY <2>1, <2>2
<1> QED BY <1>4 DEF InsertOK, L

\* Blocks never leave the function they are part of, entry blocks included.
LEMMA OrdinaryEntries ==
  ASSUME TypeOK, EntriesOK, functions' = functions, KeepsParents(blocks, blocks')
  PROVE  EntriesOK'
<1>1. \A f \in 1..Len(functions) : f # 0 /\ functions[f] \in FunctionSet(Len(blocks))
  BY DEF TypeOK
<1>2. \A f \in 1..Len(functions) : functions[f].entry \in 1..Len(blocks)
  BY <1>1 DEF FunctionSet
<1> QED BY ONLY <1>1, <1>2, EntriesOK, functions' = functions, KeepsParents(blocks, blocks')
           DEF EntriesOK, KeepsParents, NoParent

\* A method goes on: its task gives way to tasks for the same function.
LEMMA OrdinaryStep ==
  ASSUME IInv, work # <<>>, Top.op \notin {"program", "function_end"},
         status' = status, functions' = functions,
         NEW todo, NEW owe, work' = Front(work) \o todo,
         TodoOK(todo, owe, Top.fn, Len(blocks'), Len(functions)),
         blocks' \in Seq(BlockSet(Len(blocks'), Len(functions))),
         KeepsParents(blocks, blocks'),
         PaysWhatIsOwed(blocks, blocks', Owed(Len(work)), owe),
         insert' \in 1..Len(blocks'),
         blocks'[insert'].fn = Top.fn
  PROVE  IInv'
<1>1. Top = work[Len(work)]  BY DEF Top, Last
<1>2. TypeOK /\ CallStackOK /\ InsertOK /\ OwedOK /\ DetachedOK /\ EntriesOK
  BY DEF IInv
<1>3. work \in Seq(Range(work))  BY <1>2 DEF TypeOK
<1>4. todo \in Seq(Range(todo))  BY DEF TodoOK
<1>5. Replaced(work, work', todo)
  <2> DEFINE S == Range(work)
             R == Range(todo)
  <2>1. work \in Seq(S) /\ todo \in Seq(R)  BY <1>3, <1>4
  <2> HIDE DEF S, R
  <2> QED BY ONLY <2>1, work # <<>>, work' = Front(work) \o todo, Replace
<1>6. Len(work) >= 2
  <2>1. work[Len(work)].op # "program"  BY <1>1
  <2>2. \A k \in 1..Len(work) : work[k].op = "program" <=> k = 1
    BY <1>2 DEF CallStackOK
  <2>3. Len(work) \in Nat \ {0}  BY <1>5 DEF Replaced
  <2> QED BY ONLY <2>1, <2>2, <2>3, SMT
<1>7. Len(blocks) \in Nat /\ Len(blocks') \in Nat  BY <1>2 DEF TypeOK
<1>8. \A k \in 1..Len(work) : \A i \in 1..Len(work[k].owe) : work[k].owe[i] \in 1..Len(blocks)
  <2>1. \A k \in 1..Len(work) : work[k].owe \in Seq(1..Len(blocks))
    BY <1>2 DEF TypeOK, TaskOK
  <2> QED BY ONLY <2>1, <1>7, SMT
<1>9. /\ work[Len(work)].op # "function_end"
      /\ TodoOK(todo, owe, work[Len(work)].fn, Len(blocks'), Len(functions))
      /\ blocks'[insert'].fn = work[Len(work)].fn
  BY <1>1
<1>10. Len(blocks) <= Len(blocks')  BY DEF KeepsParents
<1>11. TypeOK'  BY <1>2, <1>5, <1>6, <1>9, <1>10, OrdinaryTypes
<1>12. CallStackOK'  BY <1>2, <1>5, <1>6, <1>7, <1>9, OrdinaryCallStack
<1>13. InsertOK'  BY <1>2, <1>5, <1>6, <1>9, OrdinaryInsert
<1>14. OwedOK'  BY <1>2, <1>5, <1>6, <1>7, <1>8, <1>9, OrdinaryOwed
<1>15. DetachedOK'  BY <1>2, <1>5, <1>6, <1>7, <1>9, OrdinaryDetached
<1>16. EntriesOK'  BY <1>2, OrdinaryEntries
<1> QED BY ONLY <1>11, <1>12, <1>13, <1>14, <1>15, <1>16 DEF IInv

-----------------------------------------------------------------------------
(* Tasks that owe nothing.                                                 *)

\* A quiet task, one that neither owes blocks nor begins or ends a function,
\* may be replaced by quiet tasks of its function.
LEMMA QuietTodos ==
  ASSUME NEW fn, NEW n, NEW m
  PROVE  /\ QuietTodo(<<>>, fn, n, m)
         /\ \A a : QuietTask(a, fn, n, m) => QuietTodo(<<a>>, fn, n, m)
         /\ \A a, b : QuietTask(a, fn, n, m) /\ QuietTask(b, fn, n, m) =>
              QuietTodo(<<a, b>>, fn, n, m)
         /\ \A a, b, c : QuietTask(a, fn, n, m) /\ QuietTask(b, fn, n, m)
                             /\ QuietTask(c, fn, n, m) =>
              QuietTodo(<<a, b, c>>, fn, n, m)
<1>1. QuietTodo(<<>>, fn, n, m)
  <2>1. <<>> \in Seq(Range(<<>>)) /\ Len(<<>>) = 0  BY EmptySeq
  <2> QED BY <2>1, SMT DEF QuietTodo
<1>2. ASSUME NEW a, QuietTask(a, fn, n, m)
      PROVE  QuietTodo(<<a>>, fn, n, m)
  <2>1. <<a>> \in Seq({a})  OBVIOUS
  <2>2. <<a>> \in Seq(Range(<<a>>))  BY ONLY <2>1, SeqOfItsRange
  <2> QED BY <1>2, <2>2 DEF QuietTodo
<1>3. ASSUME NEW a, NEW b, QuietTask(a, fn, n, m), QuietTask(b, fn, n, m)
      PROVE  QuietTodo(<<a, b>>, fn, n, m)
  <2>1. <<a, b>> \in Seq({a, b})  OBVIOUS
  <2>2. <<a, b>> \in Seq(Range(<<a, b>>))  BY ONLY <2>1, SeqOfItsRange
  <2> QED BY <1>3, <2>2 DEF QuietTodo
<1>4. ASSUME NEW a, NEW b, NEW c,
             QuietTask(a, fn, n, m), QuietTask(b, fn, n, m), QuietTask(c, fn, n, m)
      PROVE  QuietTodo(<<a, b, c>>, fn, n, m)
  <2>1. <<a, b, c>> \in Seq({a, b, c})  OBVIOUS
  <2>2. <<a, b, c>> \in Seq(Range(<<a, b, c>>))  BY ONLY <2>1, SeqOfItsRange
  <2> QED BY <1>4, <2>2 DEF QuietTodo
<1> QED BY <1>1, <1>2, <1>3, <1>4

\* The tasks that replace a quiet task are well-typed.
LEMMA QuietTasks ==
  ASSUME NEW n \in Nat, NEW m \in Nat, NEW fn \in 0..m
  PROVE  /\ \A node \in Statement : QuietTask(Gen(fn, node), fn, n, m)
         /\ \A expr \in Code : QuietTask(Eval(fn, expr), fn, n, m)
         /\ \A node \in Statement : \A op \in {"expression", "dealloc", "return"} :
              QuietTask(Task(op, fn, node, <<>>), fn, n, m)
         /\ \A node \in Statement : node.kind = "declaration" =>
              QuietTask(Task("declaration", fn, node, <<>>), fn, n, m)
         /\ \A node \in Statement : node.kind = "if" =>
              QuietTask(Task("if_cond", fn, node, <<>>), fn, n, m)
         /\ \A node \in Statement : node.kind = "for" =>
              QuietTask(Task("for_init", fn, node, <<>>), fn, n, m)
         /\ \A node \in Statement : \A op \in {"block", "print"} : \A next \in Nat \ {0} :
              node.kind = op => QuietTask(Loop(op, fn, node, next), fn, n, m)
         /\ \A depth \in Nat :
              QuietTask(Task("print_value", fn, [depth |-> depth], <<>>), fn, n, m)
<1>1. <<>> \in Seq(1..n) /\ Len(<<>>) = 0  BY EmptySeq
<1> USE DEF QuietTask, TaskOK, KindsOfTask, Owing, TaskArgOK, Task
<1>2. \A node \in Statement : QuietTask(Gen(fn, node), fn, n, m)
  BY <1>1, SMT DEF Gen
<1>3. \A expr \in Code : QuietTask(Eval(fn, expr), fn, n, m)
  BY <1>1, SMT DEF Eval
<1>4. \A node \in Statement : \A op \in {"expression", "dealloc", "return"} :
        QuietTask(Task(op, fn, node, <<>>), fn, n, m)
  BY <1>1, SMT
<1>5. \A node \in Statement : node.kind = "declaration" =>
        QuietTask(Task("declaration", fn, node, <<>>), fn, n, m)
  BY <1>1, SMT
<1>6. \A node \in Statement : node.kind = "if" =>
        QuietTask(Task("if_cond", fn, node, <<>>), fn, n, m)
  BY <1>1, SMT
<1>7. \A node \in Statement : node.kind = "for" =>
        QuietTask(Task("for_init", fn, node, <<>>), fn, n, m)
  BY <1>1, SMT
<1>8. \A node \in Statement : \A op \in {"block", "print"} : \A next \in Nat \ {0} :
        node.kind = op => QuietTask(Loop(op, fn, node, next), fn, n, m)
  BY <1>1, SMT DEF Loop
<1>9. \A depth \in Nat :
        QuietTask(Task("print_value", fn, [depth |-> depth], <<>>), fn, n, m)
  BY <1>1, SMT
<1> QED BY <1>2, <1>3, <1>4, <1>5, <1>6, <1>7, <1>8, <1>9

-----------------------------------------------------------------------------
(* Steps that owe nothing.                                                 *)

\* What the method on top of the stack may rely on.
LEMMA Context ==
  ASSUME IInv, status = "generating", work # <<>>, Top.op # "program"
  PROVE  /\ Len(blocks) \in Nat /\ Len(functions) \in Nat
         /\ blocks \in Seq(BlockSet(Len(blocks), Len(functions)))
         /\ Len(work) \in Nat /\ Len(work) >= 2 /\ Top = work[Len(work)]
         /\ TaskOK(Top, Len(blocks), Len(functions)) /\ TaskArgOK(Top, Len(blocks))
         /\ Top.fn \in 0..Len(functions) /\ Top.fn # 0
         /\ insert \in 1..Len(blocks) /\ blocks[insert].fn = Top.fn
<1>1. Top = work[Len(work)]  BY DEF Top, Last
<1>2. TypeOK /\ CallStackOK /\ InsertOK  BY DEF IInv
<1>3. /\ work \in Seq(Range(work))
      /\ blocks \in Seq(BlockSet(Len(blocks), Len(functions)))
      /\ Len(blocks) \in Nat /\ Len(functions) \in Nat
      /\ \A k \in 1..Len(work) : TaskOK(work[k], Len(blocks), Len(functions))
  BY <1>2 DEF TypeOK
<1>4. Len(work) \in Nat \ {0}  BY ONLY <1>3, work # <<>>, EmptySeq
<1>5. /\ \A k \in 1..Len(work) : work[k].op = "program" <=> k = 1
      /\ \A k \in 2..Len(work) : work[k].fn # 0
  BY <1>2 DEF CallStackOK
<1>6. work[Len(work)].op # "program"  BY <1>1
<1>7. Len(work) >= 2 /\ Len(work) \in 1..Len(work) /\ Len(work) \in 2..Len(work)
  BY ONLY <1>4, <1>5, <1>6, SMT
<1>8. TaskOK(Top, Len(blocks), Len(functions)) /\ Top.fn # 0
  BY ONLY <1>1, <1>3, <1>5, <1>7
<1>9. insert \in 1..Len(blocks) /\ blocks[insert].fn = Top.fn
  BY ONLY <1>1, <1>2, <1>4, <1>7, status = "generating", SMT DEF InsertOK
<1>10. TaskArgOK(Top, Len(blocks)) /\ Top.fn \in 0..Len(functions)
  BY ONLY <1>8 DEF TaskOK
<1> QED BY ONLY <1>1, <1>3, <1>4, <1>7, <1>8, <1>9, <1>10

\* A method goes on, and owes nothing before and after.
LEMMA QuietStep ==
  ASSUME IInv, work # <<>>, Top.op \notin {"program", "function_end"},
         status = "generating", status' = status, functions' = functions,
         Len(Top.owe) = 0,
         NEW todo, work' = Front(work) \o todo,
         QuietTodo(todo, Top.fn, Len(blocks'), Len(functions)),
         blocks' \in Seq(BlockSet(Len(blocks'), Len(functions))),
         Len(blocks) <= Len(blocks'),
         \A b \in 1..Len(blocks) : /\ blocks'[b].fn = blocks[b].fn
                                   /\ blocks[b].fn = 0 => blocks'[b] = blocks[b],
         \A b \in 1..Len(blocks') : b > Len(blocks) => blocks'[b].fn # 0,
         insert' \in 1..Len(blocks'),
         blocks'[insert'].fn = Top.fn
  PROVE  IInv'
<1>1. \A b : b \notin Owed(Len(work))
  <2>1. Len(work[Len(work)].owe) = 0  BY DEF Top, Last
  <2> QED BY ONLY <2>1, SMT DEF Owed
<1>2. KeepsParents(blocks, blocks')  BY DEF KeepsParents
<1>3. <<>> \in Seq(1..Len(blocks')) /\ Len(<<>>) = 0  BY EmptySeq
<1>4. PaysWhatIsOwed(blocks, blocks', Owed(Len(work)), <<>>)
  <2>1. \A b \in 1..Len(blocks) : blocks[b].fn = 0 => blocks'[b] = blocks[b]
    OBVIOUS
  <2>2. \A b \in 1..Len(blocks') : b > Len(blocks) => blocks'[b].fn # 0  OBVIOUS
  <2>3. \A j \in 1..Len(<<>>) : FALSE  BY ONLY <1>3, SMT
  <2> QED BY ONLY <1>1, <2>1, <2>2, <2>3 DEF PaysWhatIsOwed, NoParent
<1>5. TodoOK(todo, <<>>, Top.fn, Len(blocks'), Len(functions))
  <2>1. /\ todo \in Seq(Range(todo))
        /\ \A i \in 1..Len(todo) : QuietTask(todo[i], Top.fn, Len(blocks'), Len(functions))
    BY DEF QuietTodo
  <2>2. \A i \in 1..Len(todo) : todo[i].owe = <<>> /\ Len(todo[i].owe) = 0
    <3>1. \A i \in 1..Len(todo) : Len(todo[i].owe) = 0 /\ todo[i].owe \in Seq(1..Len(blocks'))
      BY ONLY <2>1 DEF QuietTask, TaskOK
    <3> QED BY ONLY <3>1, EmptySeq
  <2> QED BY ONLY <1>3, <2>1, <2>2 DEF TodoOK, QuietTask
<1> QED BY <1>2, <1>4, <1>5, OrdinaryStep

\* A method goes on and leaves the blocks alone.
LEMMA StillStep ==
  ASSUME IInv, work # <<>>, Top.op \notin {"program", "function_end"},
         status = "generating", status' = status, functions' = functions,
         Len(Top.owe) = 0,
         NEW todo, work' = Front(work) \o todo,
         QuietTodo(todo, Top.fn, Len(blocks), Len(functions)),
         blocks' = blocks, insert' = insert
  PROVE  IInv'
<1>1. /\ Len(blocks) \in Nat /\ blocks \in Seq(BlockSet(Len(blocks), Len(functions)))
      /\ insert \in 1..Len(blocks) /\ blocks[insert].fn = Top.fn
  BY Context
<1>2. \A b \in 1..Len(blocks) : ~(b > Len(blocks))  BY ONLY <1>1, SMT
<1>3. Len(blocks) <= Len(blocks')  BY <1>1
<1> QED BY <1>1, <1>2, <1>3, QuietStep

\* A method goes on and appends code to the insert block, and new blocks.
LEMMA PutStep ==
  ASSUME IInv, work # <<>>, Top.op \notin {"program", "function_end"},
         status = "generating", status' = status, functions' = functions,
         Len(Top.owe) = 0,
         NEW todo, work' = Front(work) \o todo,
         QuietTodo(todo, Top.fn, Len(blocks), Len(functions)),
         NEW code \in Seq(InstructionSet(Len(blocks))),
         blocks' = Put(blocks, insert, code),
         insert' = insert
  PROVE  IInv'
<1>1. /\ Len(blocks) \in Nat /\ Len(functions) \in Nat
      /\ blocks \in Seq(BlockSet(Len(blocks), Len(functions)))
      /\ insert \in 1..Len(blocks) /\ blocks[insert].fn = Top.fn /\ Top.fn # 0
  BY Context
<1>2. /\ blocks' \in Seq(BlockSet(Len(blocks), Len(functions)))
      /\ Len(blocks') = Len(blocks)
      /\ \A c \in 1..Len(blocks) : /\ blocks'[c].fn = blocks[c].fn
                                   /\ c # insert => blocks'[c] = blocks[c]
  <2> DEFINE n == Len(blocks)
             m == Len(functions)
  <2>1. n \in Nat /\ m \in Nat /\ blocks \in Seq(BlockSet(n, m))  BY <1>1
  <2>2. code \in Seq(InstructionSet(n))  OBVIOUS
  <2> HIDE DEF n, m
  <2>3. /\ blocks' \in Seq(BlockSet(n, m)) /\ Len(blocks') = Len(blocks)
        /\ \A c \in 1..Len(blocks) : /\ blocks'[c].fn = blocks[c].fn
                                     /\ c # insert => blocks'[c] = blocks[c]
    BY ONLY <2>1, <2>2, blocks' = Put(blocks, insert, code), PutType
  <2> QED BY ONLY <2>3 DEF n, m
<1>3. \A b \in 1..Len(blocks) : /\ blocks'[b].fn = blocks[b].fn
                                /\ blocks[b].fn = 0 => blocks'[b] = blocks[b]
  BY ONLY <1>1, <1>2
<1>4. \A b \in 1..Len(blocks') : b > Len(blocks) => blocks'[b].fn # 0
  BY ONLY <1>1, <1>2, SMT
<1>5. Len(blocks) <= Len(blocks') /\ insert' \in 1..Len(blocks') /\ blocks'[insert'].fn = Top.fn
  BY <1>1, <1>2
<1>6. /\ QuietTodo(todo, Top.fn, Len(blocks'), Len(functions))
      /\ blocks' \in Seq(BlockSet(Len(blocks'), Len(functions)))
  BY <1>2
<1> QED BY <1>3, <1>4, <1>5, <1>6, QuietStep

\* The tasks that owe nothing.
LEMMA QuietContext ==
  ASSUME IInv, status = "generating", work # <<>>,
         Top.op \in {"gen", "block", "expression", "declaration", "dealloc", "return", "if_cond",
                    "for_init", "eval", "print", "print_value"}
  PROVE  /\ Top.op \notin {"program", "function_end"} /\ Len(Top.owe) = 0
         /\ Len(blocks) \in Nat /\ Len(functions) \in Nat
         /\ blocks \in Seq(BlockSet(Len(blocks), Len(functions)))
         /\ TaskArgOK(Top, Len(blocks)) /\ Top.fn \in 0..Len(functions) /\ Top.fn # 0
         /\ insert \in 1..Len(blocks) /\ blocks[insert].fn = Top.fn
<1>1. Top.op \notin {"program", "function_end"}  OBVIOUS
<1>2. /\ TaskOK(Top, Len(blocks), Len(functions))
      /\ Len(blocks) \in Nat /\ Len(functions) \in Nat
      /\ blocks \in Seq(BlockSet(Len(blocks), Len(functions)))
      /\ TaskArgOK(Top, Len(blocks)) /\ Top.fn \in 0..Len(functions) /\ Top.fn # 0
      /\ insert \in 1..Len(blocks) /\ blocks[insert].fn = Top.fn
  BY <1>1, Context
<1>3. Len(Top.owe) = 0
  BY ONLY <1>2, SMT,
          Top.op \in {"gen", "block", "expression", "declaration", "dealloc", "return", "if_cond",
                     "for_init", "eval", "print", "print_value"}
     DEF TaskOK, Owing
<1> QED BY ONLY <1>1, <1>2, <1>3

\* The first effect of an expression, and the task for the others.
LEMMA RestIsQuiet ==
  ASSUME Len(blocks) \in Nat, Len(functions) \in Nat, Top.fn \in 0..Len(functions),
         TaskArgOK(Top, Len(blocks)), Top.op = "eval", Top.arg # <<>>
  PROVE  /\ Head(Top.arg) \in Effect /\ Head(Top.arg).tag \in Tags
         /\ QuietTodo(RestOfExpression, Top.fn, Len(blocks), Len(functions))
         /\ QuietTask(Eval(Top.fn, Tail(Top.arg)), Top.fn, Len(blocks), Len(functions))
<1>1. Top.arg \in Seq(Effect)  BY DEF TaskArgOK, Code
<1>2. Head(Top.arg) \in Effect /\ Tail(Top.arg) \in Seq(Effect)
  BY ONLY <1>1, Top.arg # <<>>
<1>3. Head(Top.arg).tag \in Tags  BY ONLY <1>2, TagTypes
<1>4. QuietTask(Eval(Top.fn, Tail(Top.arg)), Top.fn, Len(blocks), Len(functions))
  BY <1>2, QuietTasks DEF Code
<1>5. QuietTodo(RestOfExpression, Top.fn, Len(blocks), Len(functions))
  BY ONLY <1>4, QuietTodos DEF RestOfExpression
<1> QED BY <1>2, <1>3, <1>4, <1>5

\* The tasks that generate an expression or a statement are quiet.
LEMMA QuietTodoOK ==
  ASSUME NEW n \in Nat, NEW m, NEW fn, NEW todo, QuietTodo(todo, fn, n, m)
  PROVE  TodoOK(todo, <<>>, fn, n, m)
<1>1. <<>> \in Seq(1..n) /\ Len(<<>>) = 0  BY EmptySeq
<1>2. /\ todo \in Seq(Range(todo))
      /\ \A i \in 1..Len(todo) : QuietTask(todo[i], fn, n, m)
  BY DEF QuietTodo
<1>3. \A i \in 1..Len(todo) : Len(todo[i].owe) = 0 /\ todo[i].owe \in Seq(1..n)
  BY ONLY <1>2 DEF QuietTask, TaskOK
<1>4. \A i \in 1..Len(todo) : todo[i].owe = <<>> /\ Len(todo[i].owe) = 0
  BY ONLY <1>3, EmptySeq
<1> QED BY ONLY <1>1, <1>2, <1>4 DEF TodoOK, QuietTask

-----------------------------------------------------------------------------
(* Steps that create blocks, and steps that attach them.                   *)

\* Adding instructions to the insert block and new blocks after it.
LEMMA Grow ==
  ASSUME NEW n \in Nat, NEW m \in Nat, NEW bs \in Seq(BlockSet(n, m)), Len(bs) = n,
         NEW b, NEW n2 \in Nat, NEW new \in Seq(BlockSet(n2, m)), n2 = n + Len(new),
         NEW code \in Seq(InstructionSet(n2)),
         NEW r, r = Put(bs, b, code) \o new
  PROVE  Grown(bs, b, new, n, n2, m, r)
<1> DEFINE S  == BlockSet(n2, m)
           ps == Put(bs, b, code)
<1>1. Len(new) \in Nat /\ n <= n2
  <2>1. Len(new) \in Nat  OBVIOUS
  <2> QED BY ONLY <2>1, n2 = n + Len(new), n \in Nat, SMT
<1>2. bs \in Seq(S)  BY <1>1, m <= m, BlockSetsGrow
<1>3. /\ ps \in Seq(S) /\ Len(ps) = n
      /\ \A c \in 1..n : /\ ps[c].fn = bs[c].fn
                         /\ c # b => ps[c] = bs[c]
  <2> HIDE DEF ps
  <2>1. ps = Put(bs, b, code)  BY DEF ps
  <2> QED BY ONLY <1>2, <2>1, n2 \in Nat, m \in Nat, code \in Seq(InstructionSet(n2)), Len(bs) = n,
                  PutType
<1>4. r = ps \o new /\ new \in Seq(S)  OBVIOUS
<1> HIDE DEF S, ps
<1>5. /\ r \in Seq(S) /\ Len(r) = n + Len(new)
      /\ \A c \in 1..(n + Len(new)) : /\ c <= n => r[c] = ps[c]
                                      /\ ~(c <= n) => r[c] = new[c - n]
  BY ONLY <1>3, <1>4, ConcatProperties
<1>6. \A c \in 1..n : r[c] = ps[c]  BY ONLY <1>1, <1>5, n \in Nat, SMT
<1>7. \A i \in 1..Len(new) : r[n + i] = new[i]
  BY ONLY <1>1, <1>5, n \in Nat, SMT
<1>8. ASSUME NEW c \in 1..n2, c > n
      PROVE  \E i \in 1..Len(new) : c = n + i /\ r[c] = new[i]
  <2>1. c - n \in 1..Len(new) /\ c = n + (c - n)
    BY ONLY <1>1, <1>8, n \in Nat, n2 \in Nat, n2 = n + Len(new), SMT
  <2>2. r[c] = new[c - n]  BY ONLY <1>7, <2>1
  <2> QED BY ONLY <2>1, <2>2
<1> QED BY ONLY <1>3, <1>5, <1>6, <1>7, <1>8, n2 = n + Len(new) DEF S, Grown

\* Of the new blocks two have no parent, and they are owed.
LEMMA TwoOwed ==
  ASSUME NEW n \in Nat, NEW new, NEW owe, Len(new) \in Nat, Len(owe) = 2,
         NEW a \in 1..Len(new), NEW b \in 1..Len(new), a # b,
         owe[1] = n + a, owe[2] = n + b,
         new[a].fn = 0, new[a].code = <<>>, new[b].fn = 0, new[b].code = <<>>,
         \A i \in 1..Len(new) : i # a /\ i # b => new[i].fn # 0
  PROVE  NewBlocksOK(new, owe, n)
<1>1. /\ \A j \in 1..Len(owe) : j = 1 \/ j = 2
      /\ 1 \in 1..Len(owe) /\ 2 \in 1..Len(owe) /\ owe[1] # owe[2]
  BY SMT
<1>2. \A i \in 1..Len(new) : new[i].fn = 0 =>
        new[i].code = <<>> /\ \E j \in 1..Len(owe) : owe[j] = n + i
  BY <1>1
<1>3. \A j \in 1..Len(owe) : \E i \in 1..Len(new) : owe[j] = n + i /\ new[i].fn = 0
  BY <1>1
<1> QED BY ONLY <1>1, <1>2, <1>3 DEF NewBlocksOK, NoParent

\* A method that owes nothing goes on in a new block.
LEMMA GrowStep ==
  ASSUME IInv, work # <<>>, Top.op \notin {"program", "function_end"},
         status = "generating", status' = status, functions' = functions,
         Len(Top.owe) = 0,
         NEW todo, NEW owe, work' = Front(work) \o todo,
         NEW n2 \in Nat, NEW new \in Seq(BlockSet(n2, Len(functions))),
         n2 = Len(blocks) + Len(new),
         TodoOK(todo, owe, Top.fn, n2, Len(functions)),
         NEW code \in Seq(InstructionSet(n2)),
         blocks' = Put(blocks, insert, code) \o new,
         NEW x \in 1..Len(new), insert' = Len(blocks) + x, new[x].fn = Top.fn,
         NewBlocksOK(new, owe, Len(blocks))
  PROVE  IInv'
<1> DEFINE n == Len(blocks)
           m == Len(functions)
<1>1. /\ n \in Nat /\ m \in Nat /\ blocks \in Seq(BlockSet(n, m))
      /\ insert \in 1..n /\ blocks[insert].fn = Top.fn /\ Top.fn # 0
  BY Context
<1>2. Len(new) \in Nat /\ n <= n2
  <2>1. Len(new) \in Nat  OBVIOUS
  <2> QED BY ONLY <1>1, <2>1, n2 = Len(blocks) + Len(new), SMT
<1>3. Len(blocks) = n /\ new \in Seq(BlockSet(n2, m)) /\ n2 = n + Len(new)
  OBVIOUS
<1> HIDE DEF n, m
<1>4. /\ blocks' \in Seq(BlockSet(n2, m)) /\ Len(blocks') = n2
      /\ \A c \in 1..n : /\ blocks'[c].fn = blocks[c].fn
                         /\ c # insert => blocks'[c] = blocks[c]
      /\ \A i \in 1..Len(new) : blocks'[n + i] = new[i]
      /\ \A c \in 1..n2 : c > n => \E i \in 1..Len(new) : c = n + i /\ blocks'[c] = new[i]
  <2>1. Grown(blocks, insert, new, n, n2, m, blocks')
    BY ONLY <1>1, <1>3, n2 \in Nat, code \in Seq(InstructionSet(n2)),
            blocks' = Put(blocks, insert, code) \o new, Grow
  <2> QED BY ONLY <2>1 DEF Grown
<1>5. KeepsParents(blocks, blocks')  BY ONLY <1>2, <1>3, <1>4 DEF KeepsParents
<1>6. \A b : b \notin Owed(Len(work))
  <2>1. Len(work[Len(work)].owe) = 0  BY DEF Top, Last
  <2> QED BY ONLY <2>1, SMT DEF Owed
<1>7. PaysWhatIsOwed(blocks, blocks', Owed(Len(work)), owe)
  <2>1. /\ \A i \in 1..Len(new) : new[i].fn = 0 =>
             /\ new[i].code = <<>>
             /\ \E j \in 1..Len(owe) : owe[j] = n + i
        /\ \A j \in 1..Len(owe) : \E i \in 1..Len(new) : owe[j] = n + i /\ new[i].fn = 0
        /\ \A i, j \in 1..Len(owe) : owe[i] = owe[j] => i = j
    BY DEF NewBlocksOK, NoParent, n
  <2>2. \A b \in 1..n : blocks[b].fn = 0 => blocks'[b] = blocks[b]
    BY ONLY <1>1, <1>4
  <2>3. ASSUME NEW j \in 1..Len(owe)
        PROVE  blocks'[owe[j]].fn = 0 /\ owe[j] > n
    <3>1. PICK i \in 1..Len(new) : owe[j] = n + i /\ new[i].fn = 0
      BY ONLY <2>1, j \in 1..Len(owe)
    <3>2. n + i > n  BY ONLY <1>1, <1>2, i \in 1..Len(new), SMT
    <3> QED BY ONLY <1>4, <3>1, <3>2
  <2>4. ASSUME NEW b \in 1..n2, blocks'[b].fn = 0, b > n
        PROVE  /\ blocks'[b].code = <<>>
               /\ \E j \in 1..Len(owe) : owe[j] = b
    <3>1. PICK i \in 1..Len(new) : b = n + i /\ blocks'[b] = new[i]
      BY ONLY <1>4, <2>4
    <3> QED BY ONLY <2>1, <2>4, <3>1
  <2> QED BY ONLY <1>3, <1>4, <1>6, <2>1, <2>2, <2>3, <2>4 DEF PaysWhatIsOwed, NoParent
<1>8. insert' \in 1..n2 /\ blocks'[insert'].fn = Top.fn
  <2>1. n + x \in 1..n2 /\ insert' = n + x
    BY ONLY <1>1, <1>2, <1>3, x \in 1..Len(new), insert' = Len(blocks) + x, SMT
  <2> QED BY ONLY <1>4, <2>1, x \in 1..Len(new), new[x].fn = Top.fn
<1>9. /\ blocks' \in Seq(BlockSet(Len(blocks'), Len(functions)))
      /\ TodoOK(todo, owe, Top.fn, Len(blocks'), Len(functions))
      /\ insert' \in 1..Len(blocks')
  BY <1>4, <1>8 DEF m
<1> QED BY <1>5, <1>7, <1>8, <1>9, OrdinaryStep

\* The first block that a method owes is attached, and code goes there.
LEMMA AttachStep ==
  ASSUME IInv, work # <<>>, Top.op \notin {"program", "function_end"},
         status = "generating", status' = status, functions' = functions,
         NEW todo, NEW owe, work' = Front(work) \o todo,
         TodoOK(todo, owe, Top.fn, Len(blocks), Len(functions)),
         Len(Top.owe) = Len(owe) + 1,
         \A j \in 1..Len(owe) : owe[j] = Top.owe[j + 1],
         NEW b, b = Top.owe[1],
         blocks' \in Seq(BlockSet(Len(blocks), Len(functions))),
         Len(blocks') = Len(blocks),
         \A c \in 1..Len(blocks) : c # b =>
           /\ blocks'[c].fn = blocks[c].fn
           /\ blocks[c].fn = 0 => blocks'[c] = blocks[c],
         blocks'[b].fn = Top.fn,
         insert' = b
  PROVE  IInv'
<1> DEFINE L == Len(work)
           n == Len(blocks)
<1>1. /\ n \in Nat /\ L \in Nat /\ L >= 2 /\ Top = work[L] /\ Top.fn # 0
      /\ TaskOK(Top, n, Len(functions))
  BY Context
<1>2. Top.owe \in Seq(1..n) /\ owe \in Seq(1..n)  BY <1>1 DEF TaskOK, TodoOK
<1>3. Len(owe) \in Nat  BY <1>2
<1>4. 1 \in 1..Len(Top.owe) /\ \A j \in 1..Len(owe) : j + 1 \in 1..Len(Top.owe) /\ j + 1 # 1
  BY ONLY <1>3, Len(Top.owe) = Len(owe) + 1, SMT
<1>5. b \in 1..n  BY ONLY <1>2, <1>4, b = Top.owe[1]
<1>6. /\ \A i \in 1..Len(Top.owe) : blocks[Top.owe[i]].fn = 0 /\ Top.owe[i] \in 1..n
      /\ \A i, j \in 1..Len(Top.owe) : Top.owe[i] = Top.owe[j] => i = j
  <2>1. L \in 1..L  BY ONLY <1>1, SMT
  <2>2. OwedOK  BY DEF IInv
  <2>3. /\ \A i \in 1..Len(work[L].owe) : blocks[work[L].owe[i]].fn = 0
        /\ \A i, j \in 1..Len(work[L].owe) : work[L].owe[i] = work[L].owe[j] => i = j
    BY ONLY <2>1, <2>2 DEF OwedOK, NoParent, L
  <2> QED BY ONLY <1>1, <1>2, <2>3
<1>7. \A c \in 1..n : blocks[c].fn = 0 => blocks[c].code = <<>>
  BY DEF IInv, DetachedOK, NoParent
<1>8. \A c : c \in Owed(L) <=> \E i \in 1..Len(Top.owe) : Top.owe[i] = c
  BY ONLY <1>1 DEF Owed
<1>9. \A c \in 1..n : c # b => /\ blocks'[c].fn = blocks[c].fn
                               /\ blocks[c].fn = 0 => blocks'[c] = blocks[c]
  OBVIOUS
<1>10. Len(blocks') = n  OBVIOUS
<1> HIDE DEF L, n
<1>11. KeepsParents(blocks, blocks')
  <2>1. blocks[b].fn = 0  BY ONLY <1>4, <1>6, b = Top.owe[1]
  <2>2. \A c \in 1..n : blocks[c].fn # 0 => blocks'[c].fn = blocks[c].fn
    BY ONLY <1>9, <2>1
  <2> QED BY ONLY <1>1, <1>10, <2>2, n <= n DEF KeepsParents, NoParent, n
<1>12. PaysWhatIsOwed(blocks, blocks', Owed(L), owe)
  <2>1. \A c \in 1..n : blocks[c].fn = 0 => blocks'[c] = blocks[c] \/ c \in Owed(L)
    BY ONLY <1>4, <1>8, <1>9, b = Top.owe[1]
  <2>2. ASSUME NEW j \in 1..Len(owe)
        PROVE  blocks'[owe[j]].fn = 0 /\ owe[j] \in Owed(L)
    <3>1. /\ owe[j] = Top.owe[j + 1] /\ j + 1 \in 1..Len(Top.owe) /\ j + 1 # 1
      BY <1>4
    <3>2. owe[j] # b /\ owe[j] \in 1..n /\ blocks[owe[j]].fn = 0
      BY ONLY <1>4, <1>6, <3>1, b = Top.owe[1]
    <3> QED BY ONLY <1>8, <1>9, <3>1, <3>2
  <2>3. ASSUME NEW i \in 1..Len(owe), NEW j \in 1..Len(owe), owe[i] = owe[j]
        PROVE  i = j
    <3>1. i + 1 = j + 1
      <4>1. Top.owe[i + 1] = Top.owe[j + 1]  BY <2>3
      <4> QED BY ONLY <1>4, <1>6, <4>1, i \in 1..Len(owe), j \in 1..Len(owe)
    <3> QED BY ONLY <1>3, <3>1, i \in 1..Len(owe), j \in 1..Len(owe), SMT
  <2>4. ASSUME NEW c \in 1..n, blocks'[c].fn = 0, c > n \/ c \in Owed(L)
        PROVE  /\ blocks'[c].code = <<>>
               /\ \E j \in 1..Len(owe) : owe[j] = c
    <3>1. c \in Owed(L)  BY ONLY <1>1, <2>4, c \in 1..n, SMT
    <3>2. PICK i \in 1..Len(Top.owe) : Top.owe[i] = c  BY ONLY <1>8, <3>1
    <3>3. c # b  BY ONLY <1>1, <2>4, blocks'[b].fn = Top.fn
    <3>4. blocks'[c].code = <<>>
      BY ONLY <1>6, <1>7, <1>9, <3>2, <3>3, c \in 1..n
    <3>5. i # 1  BY ONLY <3>2, <3>3, b = Top.owe[1]
    <3>6. i - 1 \in 1..Len(owe) /\ (i - 1) + 1 = i
      BY ONLY <1>3, <3>5, i \in 1..Len(Top.owe), Len(Top.owe) = Len(owe) + 1, SMT
    <3>7. owe[i - 1] = c  BY <3>2, <3>6
    <3> QED BY ONLY <3>4, <3>6, <3>7
  <2> QED BY ONLY <1>10, <2>1, <2>2, <2>3, <2>4 DEF PaysWhatIsOwed, NoParent, n
<1>13. /\ insert' \in 1..Len(blocks') /\ blocks'[insert'].fn = Top.fn
       /\ TodoOK(todo, owe, Top.fn, Len(blocks'), Len(functions))
       /\ blocks' \in Seq(BlockSet(Len(blocks'), Len(functions)))
  BY <1>5, <1>10 DEF n
<1>14. PaysWhatIsOwed(blocks, blocks', Owed(Len(work)), owe)  BY ONLY <1>12 DEF L
<1> QED BY <1>11, <1>13, <1>14, OrdinaryStep

\* What remains of an expression is a quiet task.
LEMMA RestTodoOK ==
  ASSUME Len(functions) \in Nat, Top.fn \in 0..Len(functions),
         TaskArgOK(Top, Len(blocks)), Top.op = "eval", Top.arg # <<>>, NEW n \in Nat
  PROVE  TodoOK(RestOfExpression, <<>>, Top.fn, n, Len(functions))
<1>1. Top.arg \in Seq(Effect)  BY DEF TaskArgOK, Code
<1>2. Tail(Top.arg) \in Code  BY ONLY <1>1, Top.arg # <<>> DEF Code
<1>3. QuietTask(Eval(Top.fn, Tail(Top.arg)), Top.fn, n, Len(functions))
  BY <1>2, QuietTasks
<1>4. QuietTodo(RestOfExpression, Top.fn, n, Len(functions))
  BY ONLY <1>3, QuietTodos DEF RestOfExpression
<1> QED BY <1>4, QuietTodoOK

-----------------------------------------------------------------------------
(* Tasks that owe blocks.                                                  *)

\* A task that owes blocks, alone or below one that owes nothing.
LEMMA OwingTodos ==
  ASSUME NEW n, NEW m, NEW fn, NEW t, TaskOK(t, n, m),
         t.op \notin {"program", "function_end"}, t.fn = fn
  PROVE  /\ TodoOK(<<t>>, t.owe, fn, n, m)
         /\ \A q : QuietTask(q, fn, n, m) => TodoOK(<<t, q>>, t.owe, fn, n, m)
<1>1. t.owe \in Seq(1..n)  BY DEF TaskOK
<1>2. TodoOK(<<t>>, t.owe, fn, n, m)
  <2>1. <<t>> \in Seq({t})  OBVIOUS
  <2>2. <<t>> \in Seq(Range(<<t>>))  BY ONLY <2>1, SeqOfItsRange
  <2> QED BY <1>1, <2>2 DEF TodoOK
<1>3. ASSUME NEW q, QuietTask(q, fn, n, m)
      PROVE  TodoOK(<<t, q>>, t.owe, fn, n, m)
  <2>1. <<t, q>> \in Seq({t, q})  OBVIOUS
  <2>2. <<t, q>> \in Seq(Range(<<t, q>>))  BY ONLY <2>1, SeqOfItsRange
  <2>3. /\ TaskOK(q, n, m) /\ q.op \notin {"program", "function_end"} /\ q.fn = fn
        /\ Len(q.owe) = 0
    BY <1>3 DEF QuietTask
  <2> QED BY <1>1, <2>2, <2>3 DEF TodoOK
<1> QED BY <1>2, <1>3

\* The same for a task given by its parts.
LEMMA OwingTodo ==
  ASSUME NEW n, NEW m, NEW fn, NEW arg, NEW owe, NEW op, op \notin {"program", "function_end"},
         TaskOK(Task(op, fn, arg, owe), n, m)
  PROVE  /\ TodoOK(<<Task(op, fn, arg, owe)>>, owe, fn, n, m)
         /\ \A q : QuietTask(q, fn, n, m) => TodoOK(<<Task(op, fn, arg, owe), q>>, owe, fn, n, m)
<1> DEFINE t == Task(op, fn, arg, owe)
<1>1. t.op \notin {"program", "function_end"} /\ t.fn = fn /\ t.owe = owe
  BY DEF Task
<1> HIDE DEF t
<1>2. /\ TodoOK(<<t>>, t.owe, fn, n, m)
      /\ \A q : QuietTask(q, fn, n, m) => TodoOK(<<t, q>>, t.owe, fn, n, m)
  <2>1. TaskOK(t, n, m)  BY DEF t
  <2> QED BY ONLY <1>1, <2>1, OwingTodos
<1> QED BY ONLY <1>1, <1>2 DEF t

\* A task that owes blocks may be replaced by tasks that owe the rest of them.
LEMMA OwingTasks ==
  ASSUME NEW n \in Nat, NEW m \in Nat, NEW fn \in 0..m, NEW a \in 1..n, NEW b \in 1..n
  PROVE  /\ \A node \in Statement : node.kind = "if" /\ node.else = <<>> =>
              TaskOK(Task("then_end", fn, node, <<a>>), n, m)
         /\ \A node \in Statement : node.kind = "if" /\ node.else # <<>> =>
              TaskOK(Task("then_end", fn, node, <<a, b>>), n, m)
         /\ \A node \in Statement : node.kind = "if" =>
              TaskOK(Task("else_end", fn, node, <<a>>), n, m)
         /\ \A arg : arg.node \in Statement /\ arg.node.kind \in {"while", "for"}
                    /\ arg.cond \in 1..n =>
              /\ TaskOK(Task("loop_cond", fn, arg, <<a, b>>), n, m)
              /\ TaskOK(Task("body_end", fn, arg, <<a>>), n, m)
         /\ \A arg : arg.depth \in Nat \ {0} /\ arg.cond \in 1..n =>
              /\ TaskOK(Task("print_main", fn, arg, <<a, b>>), n, m)
              /\ TaskOK(Task("print_last", fn, arg, <<a>>), n, m)
<1>1. /\ <<a>> \in Seq(1..n) /\ Len(<<a>>) = 1
      /\ <<a, b>> \in Seq(1..n) /\ Len(<<a, b>>) = 2
  OBVIOUS
<1> USE DEF TaskOK, KindsOfTask, Owing, TaskArgOK, Task
<1>2. \A node \in Statement : node.kind = "if" /\ node.else = <<>> =>
        TaskOK(Task("then_end", fn, node, <<a>>), n, m)
  BY <1>1, SMT DEF HasElseBlock
<1>3. \A node \in Statement : node.kind = "if" /\ node.else # <<>> =>
        TaskOK(Task("then_end", fn, node, <<a, b>>), n, m)
  BY <1>1, SMT DEF HasElseBlock
<1>4. \A node \in Statement : node.kind = "if" =>
        TaskOK(Task("else_end", fn, node, <<a>>), n, m)
  BY <1>1, SMT
<1>5. \A arg : arg.node \in Statement /\ arg.node.kind \in {"while", "for"} /\ arg.cond \in 1..n =>
        /\ TaskOK(Task("loop_cond", fn, arg, <<a, b>>), n, m)
        /\ TaskOK(Task("body_end", fn, arg, <<a>>), n, m)
  BY <1>1, SMT
<1>6. \A arg : arg.depth \in Nat \ {0} /\ arg.cond \in 1..n =>
        /\ TaskOK(Task("print_main", fn, arg, <<a, b>>), n, m)
        /\ TaskOK(Task("print_last", fn, arg, <<a>>), n, m)
  BY <1>1, SMT
<1> QED BY <1>2, <1>3, <1>4, <1>5, <1>6

-----------------------------------------------------------------------------
(* Blocks that are attached.                                               *)

\* Appending instructions to the insert block touches no detached block.
LEMMA PutExtends ==
  ASSUME Len(blocks) \in Nat, Len(functions) \in Nat,
         blocks \in Seq(BlockSet(Len(blocks), Len(functions))), blocks[insert].fn # 0,
         NEW code \in Seq(InstructionSet(Len(blocks)))
  PROVE  Extended(Put(blocks, insert, code))
<1> DEFINE n == Len(blocks)
           m == Len(functions)
           r == Put(blocks, insert, code)
<1>1. r = Put(blocks, insert, code)  OBVIOUS
<1> HIDE DEF n, m, r
<1>2. /\ n \in Nat /\ m \in Nat /\ blocks \in Seq(BlockSet(n, m))
      /\ code \in Seq(InstructionSet(n))
  BY DEF n, m
<1>3. /\ r \in Seq(BlockSet(n, m)) /\ Len(r) = Len(blocks)
      /\ \A c \in 1..Len(blocks) : /\ r[c].fn = blocks[c].fn
                                   /\ c # insert => r[c] = blocks[c]
  BY ONLY <1>1, <1>2, PutType
<1>4. \A c \in 1..Len(blocks) : blocks[c].fn = 0 => r[c] = blocks[c]
  BY ONLY <1>3, blocks[insert].fn # 0
<1> QED BY ONLY <1>3, <1>4 DEF Extended, n, m, r

\* Adding an entry to a PHI node touches no detached block.
LEMMA AddIncomingExtends ==
  ASSUME Len(blocks) \in Nat, Len(functions) \in Nat,
         \A c \in 1..Len(blocks) : blocks[c].fn = 0 => blocks[c].code = <<>>,
         NEW bs, Extended(bs), NEW b, NEW pred \in 1..Len(blocks)
  PROVE  Extended(AddIncoming(bs, b, pred))
<1> DEFINE n == Len(blocks)
           m == Len(functions)
           r == AddIncoming(bs, b, pred)
<1>1. r = AddIncoming(bs, b, pred)  OBVIOUS
<1> HIDE DEF n, m, r
<1>2. /\ n \in Nat /\ m \in Nat /\ bs \in Seq(BlockSet(n, m)) /\ pred \in 1..n
      /\ Len(bs) = n
  BY DEF n, m, Extended
<1>3. \A c \in 1..n : /\ bs[c].fn = blocks[c].fn
                      /\ blocks[c].fn = 0 => bs[c] = blocks[c]
                      /\ blocks[c].fn = 0 => blocks[c].code = <<>>
  BY DEF n, Extended
<1>4. /\ r \in Seq(BlockSet(n, m)) /\ Len(r) = Len(bs)
      /\ \A c \in 1..Len(bs) : /\ r[c].fn = bs[c].fn
                               /\ c # b => r[c] = bs[c]
                               /\ bs[c].code = <<>> => r[c] = bs[c]
  BY ONLY <1>1, <1>2, AddIncomingType
<1>5. \A c \in 1..n : /\ r[c].fn = blocks[c].fn
                      /\ blocks[c].fn = 0 => r[c] = blocks[c]
  BY ONLY <1>2, <1>3, <1>4
<1>6. Len(r) = n  BY ONLY <1>2, <1>4
<1> QED BY ONLY <1>4, <1>5, <1>6 DEF Extended, n, m, r

\* Falling through to another block touches no detached block.
LEMMA FallThroughExtends ==
  ASSUME Len(blocks) \in Nat, Len(functions) \in Nat,
         blocks \in Seq(BlockSet(Len(blocks), Len(functions))), blocks[insert].fn # 0,
         NEW b \in 1..Len(blocks)
  PROVE  Extended(FallThrough(b))
<1>1. Extended(blocks)  BY DEF Extended
<1>2. Extended(Put(blocks, insert, <<Br(b)>>))
  <2>1. Br(b) \in InstructionSet(Len(blocks))  BY InstructionTypes
  <2> DEFINE code == <<Br(b)>>
  <2>2. code \in Seq(InstructionSet(Len(blocks)))  BY ONLY <2>1, Tuples
  <2> HIDE DEF code
  <2>3. Extended(Put(blocks, insert, code))  BY <2>2, PutExtends
  <2> QED BY ONLY <2>3 DEF code
<1> QED BY ONLY <1>1, <1>2 DEF FallThrough

\* Attaching an owed block gives it its parent and changes no other block.
LEMMA AttachAttaches ==
  ASSUME Len(blocks) \in Nat, Len(functions) \in Nat,
         NEW bs, Extended(bs), NEW b \in 1..Len(blocks), NEW fn \in 0..Len(functions)
  PROVE  Attached(Attach(bs, b, fn), b, fn)
<1> DEFINE n == Len(blocks)
           m == Len(functions)
           r == Attach(bs, b, fn)
<1>1. r = Attach(bs, b, fn)  OBVIOUS
<1> HIDE DEF n, m, r
<1>2. /\ n \in Nat /\ m \in Nat /\ bs \in Seq(BlockSet(n, m)) /\ fn \in 0..m
      /\ Len(bs) = n /\ b \in 1..n
  BY DEF n, m, Extended
<1>3. \A c \in 1..n : /\ bs[c].fn = blocks[c].fn
                      /\ blocks[c].fn = 0 => bs[c] = blocks[c]
  BY DEF n, Extended
<1>4. /\ r \in Seq(BlockSet(n, m)) /\ Len(r) = Len(bs)
      /\ \A c \in 1..Len(bs) : /\ c = b => r[c].fn = fn
                               /\ c # b => r[c] = bs[c]
  BY ONLY <1>1, <1>2, AttachType
<1>5. \A c \in 1..n : c # b => /\ r[c].fn = blocks[c].fn
                               /\ blocks[c].fn = 0 => r[c] = blocks[c]
  BY ONLY <1>2, <1>3, <1>4
<1>6. r[b].fn = fn /\ Len(r) = n  BY ONLY <1>2, <1>4
<1> QED BY ONLY <1>4, <1>5, <1>6 DEF Attached, n, m, r

\* AttachStep, for blocks that are Attached.
LEMMA AttachedStep ==
  ASSUME IInv, work # <<>>, Top.op \notin {"program", "function_end"},
         status = "generating", status' = status, functions' = functions,
         NEW todo, NEW owe, work' = Front(work) \o todo,
         TodoOK(todo, owe, Top.fn, Len(blocks), Len(functions)),
         Len(Top.owe) = Len(owe) + 1,
         \A j \in 1..Len(owe) : owe[j] = Top.owe[j + 1],
         Attached(blocks', Top.owe[1], Top.fn),
         insert' = Top.owe[1]
  PROVE  IInv'
<1>1. /\ blocks' \in Seq(BlockSet(Len(blocks), Len(functions)))
      /\ Len(blocks') = Len(blocks)
      /\ \A c \in 1..Len(blocks) : c # Top.owe[1] =>
           /\ blocks'[c].fn = blocks[c].fn
           /\ blocks[c].fn = 0 => blocks'[c] = blocks[c]
      /\ blocks'[Top.owe[1]].fn = Top.fn
  BY DEF Attached
<1> QED BY <1>1, AttachStep

\* The tasks that owe blocks.
LEMMA OwingContext ==
  ASSUME IInv, status = "generating", work # <<>>,
         Top.op \in {"then_end", "else_end", "loop_cond", "body_end", "loop_end", "print_main",
                    "print_last"}
  PROVE  /\ Top.op \notin {"program", "function_end"} /\ Len(Top.owe) = Owing(Top)
         /\ \A i \in 1..Len(Top.owe) : Top.owe[i] \in 1..Len(blocks)
         /\ Len(Top.owe) > 0 => Head(Top.owe) = Top.owe[1]
         /\ Len(Top.owe) > 0 => Last(Top.owe) = Top.owe[Len(Top.owe)]
         /\ Top.owe \in Seq(1..Len(blocks))
         /\ Len(blocks) \in Nat /\ Len(functions) \in Nat
         /\ blocks \in Seq(BlockSet(Len(blocks), Len(functions)))
         /\ TaskArgOK(Top, Len(blocks)) /\ Top.fn \in 0..Len(functions) /\ Top.fn # 0
         /\ insert \in 1..Len(blocks) /\ blocks[insert].fn = Top.fn /\ blocks[insert].fn # 0
<1>1. Top.op \notin {"program", "function_end"}  OBVIOUS
<1>2. /\ TaskOK(Top, Len(blocks), Len(functions))
      /\ Len(blocks) \in Nat /\ Len(functions) \in Nat
      /\ blocks \in Seq(BlockSet(Len(blocks), Len(functions)))
      /\ TaskArgOK(Top, Len(blocks)) /\ Top.fn \in 0..Len(functions) /\ Top.fn # 0
      /\ insert \in 1..Len(blocks) /\ blocks[insert].fn = Top.fn /\ blocks[insert].fn # 0
  BY <1>1, Context
<1>3. Len(Top.owe) = Owing(Top) /\ Top.owe \in Seq(1..Len(blocks))
  BY ONLY <1>2 DEF TaskOK
<1>4. \A i \in 1..Len(Top.owe) : Top.owe[i] \in 1..Len(blocks)  BY ONLY <1>3
<1>5. Len(Top.owe) > 0 => Head(Top.owe) = Top.owe[1]  BY ONLY <1>3
<1>6. Last(Top.owe) = Top.owe[Len(Top.owe)]  BY DEF Last
<1> QED BY ONLY <1>1, <1>2, <1>3, <1>4, <1>5, <1>6

-----------------------------------------------------------------------------
(* Methods that go on without touching the blocks.                         *)

\* The invariant survives when dead code is skipped.
LEMMA SkipDeadStatementStep ==
  ASSUME IInv, SkipDeadStatement
  PROVE  IInv'
<1>1. /\ status = "generating" /\ work # <<>> /\ Top.op = "gen"
      /\ work' = Front(work) \o <<>> /\ UNCHANGED <<blocks, functions, insert, status>>
  BY DEF SkipDeadStatement, Doing, Then
<1>2. Top.op \notin {"program", "function_end"} /\ Len(Top.owe) = 0
  BY <1>1, QuietContext
<1> QED BY <1>1, <1>2, QuietTodos, StillStep

\* The invariant survives when the visitor enters a statement without substatements.
LEMMA GenerateLeafStep ==
  ASSUME IInv, GenerateLeaf
  PROVE  IInv'
<1> DEFINE todo == <<Task(Top.arg.kind, Top.fn, Top.arg, <<>>), Eval(Top.fn, Top.arg.expr)>>
<1>1. /\ status = "generating" /\ work # <<>> /\ Top.op = "gen"
      /\ Top.arg.kind \in {"expression", "declaration", "dealloc", "return"}
      /\ work' = Front(work) \o todo /\ UNCHANGED <<blocks, functions, insert, status>>
  BY DEF GenerateLeaf, Visit, Doing, Then
<1>2. /\ Top.op \notin {"program", "function_end"} /\ Len(Top.owe) = 0
      /\ Len(blocks) \in Nat /\ Len(functions) \in Nat /\ Top.fn \in 0..Len(functions)
      /\ TaskArgOK(Top, Len(blocks))
  BY <1>1, QuietContext
<1>3. Top.arg \in Statement  BY ONLY <1>1, <1>2 DEF TaskArgOK
<1>4. Top.arg.expr \in Code  BY ONLY <1>1, <1>3, StatementAssumption
<1>5. QuietTodo(todo, Top.fn, Len(blocks), Len(functions))
  <2>1. QuietTask(Eval(Top.fn, Top.arg.expr), Top.fn, Len(blocks), Len(functions))
    BY ONLY <1>2, <1>4, QuietTasks
  <2>2. QuietTask(Task(Top.arg.kind, Top.fn, Top.arg, <<>>), Top.fn, Len(blocks), Len(functions))
    BY ONLY <1>1, <1>2, <1>3, QuietTasks
  <2> QED BY ONLY <2>1, <2>2, QuietTodos
<1> QED BY ONLY IInv, <1>1, <1>2, <1>5, StillStep

\* The invariant survives when the visitor enters an if-statement.
LEMMA GenerateIfStep ==
  ASSUME IInv, GenerateIf
  PROVE  IInv'
<1> DEFINE todo == <<Task("if_cond", Top.fn, Top.arg, <<>>), Eval(Top.fn, Top.arg.expr)>>
<1>1. /\ status = "generating" /\ work # <<>> /\ Top.op = "gen" /\ Top.arg.kind = "if"
      /\ work' = Front(work) \o todo /\ UNCHANGED <<blocks, functions, insert, status>>
  BY DEF GenerateIf, Visit, Doing, Then
<1>2. /\ Top.op \notin {"program", "function_end"} /\ Len(Top.owe) = 0
      /\ Len(blocks) \in Nat /\ Len(functions) \in Nat /\ Top.fn \in 0..Len(functions)
      /\ TaskArgOK(Top, Len(blocks))
  BY <1>1, QuietContext
<1>3. Top.arg \in Statement  BY ONLY <1>1, <1>2 DEF TaskArgOK
<1>4. Top.arg.expr \in Code  BY ONLY <1>1, <1>3, StatementAssumption
<1>5. QuietTodo(todo, Top.fn, Len(blocks), Len(functions))
  <2>1. QuietTask(Eval(Top.fn, Top.arg.expr), Top.fn, Len(blocks), Len(functions))
    BY ONLY <1>2, <1>4, QuietTasks
  <2>2. QuietTask(Task("if_cond", Top.fn, Top.arg, <<>>), Top.fn, Len(blocks), Len(functions))
    BY ONLY <1>1, <1>2, <1>3, QuietTasks
  <2> QED BY ONLY <2>1, <2>2, QuietTodos
<1> QED BY ONLY IInv, <1>1, <1>2, <1>5, StillStep

\* The invariant survives when an expression statement ends.
LEMMA EndExpressionStep ==
  ASSUME IInv, EndExpression
  PROVE  IInv'
<1>1. /\ status = "generating" /\ work # <<>> /\ Top.op = "expression"
      /\ work' = Front(work) \o <<>> /\ UNCHANGED <<blocks, functions, insert, status>>
  BY DEF EndExpression, Doing, Then
<1>2. Top.op \notin {"program", "function_end"} /\ Len(Top.owe) = 0
  BY <1>1, QuietContext
<1> QED BY <1>1, <1>2, QuietTodos, StillStep

\* The invariant survives when an expression ends.
LEMMA EndExpressionCodeStep ==
  ASSUME IInv, EndExpressionCode
  PROVE  IInv'
<1>1. /\ status = "generating" /\ work # <<>> /\ Top.op = "eval"
      /\ work' = Front(work) \o <<>> /\ UNCHANGED <<blocks, functions, insert, status>>
  BY DEF EndExpressionCode, Doing, Then
<1>2. Top.op \notin {"program", "function_end"} /\ Len(Top.owe) = 0
  BY <1>1, QuietContext
<1> QED BY <1>1, <1>2, QuietTodos, StillStep

\* The invariant survives when the visitor enters a code block.
LEMMA GenerateCodeBlockStep ==
  ASSUME IInv, GenerateCodeBlock
  PROVE  IInv'
<1> DEFINE todo == <<Loop("block", Top.fn, Top.arg, 1)>>
<1>1. /\ status = "generating" /\ work # <<>> /\ Top.op = "gen"
      /\ Top.arg.kind = "block" /\ work' = Front(work) \o todo
      /\ UNCHANGED <<blocks, functions, insert, status>>
  BY DEF GenerateCodeBlock, Doing, Then
<1>2. /\ Top.op \notin {"program", "function_end"} /\ Len(Top.owe) = 0
      /\ Len(blocks) \in Nat /\ Len(functions) \in Nat /\ Top.fn \in 0..Len(functions)
      /\ TaskArgOK(Top, Len(blocks))
  BY <1>1, QuietContext
<1>3. QuietTodo(todo, Top.fn, Len(blocks), Len(functions))
  <2>1. Top.arg \in Statement  BY ONLY <1>1, <1>2 DEF TaskArgOK
  <2>2. QuietTask(Loop("block", Top.fn, Top.arg, 1), Top.fn, Len(blocks), Len(functions))
    BY ONLY <1>1, <1>2, <2>1, QuietTasks
  <2> QED BY ONLY <2>2, QuietTodos
<1> QED BY ONLY IInv, <1>1, <1>2, <1>3, StillStep

\* The invariant survives when the visitor enters a print statement.
LEMMA GeneratePrintStep ==
  ASSUME IInv, GeneratePrint
  PROVE  IInv'
<1> DEFINE todo == <<Loop("print", Top.fn, Top.arg, 1)>>
<1>1. /\ status = "generating" /\ work # <<>> /\ Top.op = "gen"
      /\ Top.arg.kind = "print" /\ work' = Front(work) \o todo
      /\ UNCHANGED <<blocks, functions, insert, status>>
  BY DEF GeneratePrint, Visit, Doing, Then
<1>2. /\ Top.op \notin {"program", "function_end"} /\ Len(Top.owe) = 0
      /\ Len(blocks) \in Nat /\ Len(functions) \in Nat /\ Top.fn \in 0..Len(functions)
      /\ TaskArgOK(Top, Len(blocks))
  BY <1>1, QuietContext
<1>3. QuietTodo(todo, Top.fn, Len(blocks), Len(functions))
  <2>1. Top.arg \in Statement  BY ONLY <1>1, <1>2 DEF TaskArgOK
  <2>2. QuietTask(Loop("print", Top.fn, Top.arg, 1), Top.fn, Len(blocks), Len(functions))
    BY ONLY <1>1, <1>2, <2>1, QuietTasks
  <2> QED BY ONLY <2>2, QuietTodos
<1> QED BY ONLY IInv, <1>1, <1>2, <1>3, StillStep

\* The invariant survives when the visitor enters a for-statement.
LEMMA GenerateForStep ==
  ASSUME IInv, GenerateFor
  PROVE  IInv'
<1> DEFINE todo == <<Task("for_init", Top.fn, Top.arg, <<>>), Gen(Top.fn, Top.arg.init)>>
<1>1. /\ status = "generating" /\ work # <<>> /\ Top.op = "gen" /\ Top.arg.kind = "for"
      /\ work' = Front(work) \o todo /\ UNCHANGED <<blocks, functions, insert, status>>
  BY DEF GenerateFor, Visit, Doing, Then
<1>2. /\ Top.op \notin {"program", "function_end"} /\ Len(Top.owe) = 0
      /\ Len(blocks) \in Nat /\ Len(functions) \in Nat /\ Top.fn \in 0..Len(functions)
      /\ TaskArgOK(Top, Len(blocks))
  BY <1>1, QuietContext
<1>3. QuietTodo(todo, Top.fn, Len(blocks), Len(functions))
  <2>1. Top.arg \in Statement  BY ONLY <1>1, <1>2 DEF TaskArgOK
  <2>2. Top.arg.init \in Statement  BY ONLY <1>1, <2>1, StatementAssumption
  <2>3. QuietTask(Task("for_init", Top.fn, Top.arg, <<>>), Top.fn, Len(blocks), Len(functions))
    BY ONLY <1>1, <1>2, <2>1, QuietTasks
  <2>4. QuietTask(Gen(Top.fn, Top.arg.init), Top.fn, Len(blocks), Len(functions))
    BY ONLY <1>2, <2>2, QuietTasks
  <2> QED BY ONLY <2>3, <2>4, QuietTodos
<1> QED BY ONLY IInv, <1>1, <1>2, <1>3, StillStep

\* The invariant survives when a code block goes on to its next statement.
LEMMA GenerateBlockChildStep ==
  ASSUME IInv, GenerateBlockChild
  PROVE  IInv'
<1> DEFINE node == Top.arg.node
           next == Top.arg.next
           todo == IF next <= Len(node.body)
                   THEN <<Loop("block", Top.fn, node, next + 1), Gen(Top.fn, node.body[next])>>
                   ELSE <<>>
<1>1. /\ status = "generating" /\ work # <<>> /\ Top.op = "block"
      /\ work' = Front(work) \o todo /\ UNCHANGED <<blocks, functions, insert, status>>
  BY DEF GenerateBlockChild, Doing, Then
<1>2. /\ Top.op \notin {"program", "function_end"} /\ Len(Top.owe) = 0
      /\ Len(blocks) \in Nat /\ Len(functions) \in Nat /\ Top.fn \in 0..Len(functions)
      /\ TaskArgOK(Top, Len(blocks))
  BY <1>1, QuietContext
<1>3. node \in Statement /\ node.kind = "block" /\ next \in Nat \ {0}
  BY ONLY <1>1, <1>2 DEF TaskArgOK
<1>4. node.body \in Seq(Statement)  BY ONLY <1>3, StatementAssumption
<1>5. QuietTodo(todo, Top.fn, Len(blocks), Len(functions))
  <2>1. CASE next <= Len(node.body)
    <3>1. node.body[next] \in Statement /\ next + 1 \in Nat \ {0}
      <4>1. next \in 1..Len(node.body)  BY ONLY <1>3, <1>4, <2>1, SMT
      <4> QED BY ONLY <1>3, <1>4, <4>1
    <3>2. QuietTask(Loop("block", Top.fn, node, next + 1), Top.fn, Len(blocks), Len(functions))
      BY ONLY <1>2, <1>3, <3>1, QuietTasks
    <3>3. QuietTask(Gen(Top.fn, node.body[next]), Top.fn, Len(blocks), Len(functions))
      BY ONLY <1>2, <3>1, QuietTasks
    <3> QED BY ONLY <2>1, <3>2, <3>3, QuietTodos
  <2>2. CASE ~(next <= Len(node.body))  BY ONLY <2>2, QuietTodos
  <2> QED BY <2>1, <2>2
<1> HIDE DEF todo
<1> QED BY ONLY IInv, <1>1, <1>2, <1>5, StillStep

-----------------------------------------------------------------------------
(* Methods that go on and append to the insert block.                      *)

\* The invariant survives when the return instruction is generated.
LEMMA EndReturnStep ==
  ASSUME IInv, EndReturn
  PROVE  IInv'
<1> DEFINE code == <<Ret>>
<1>1. /\ status = "generating" /\ work # <<>> /\ Top.op = "return"
      /\ work' = Front(work) \o <<>> /\ blocks' = Put(blocks, insert, code)
      /\ UNCHANGED <<functions, insert, status>>
  BY DEF EndReturn, Doing, Then
<1>2. /\ Top.op \notin {"program", "function_end"} /\ Len(Top.owe) = 0
      /\ Len(blocks) \in Nat
  BY <1>1, QuietContext
<1>3. code \in Seq(InstructionSet(Len(blocks)))
  <2>1. Ret \in InstructionSet(Len(blocks))  BY <1>2, InstructionTypes
  <2> QED BY ONLY <2>1
<1> HIDE DEF code
<1>4. QuietTodo(<<>>, Top.fn, Len(blocks), Len(functions))  BY QuietTodos
<1> QED BY ONLY IInv, <1>1, <1>2, <1>3, <1>4, PutStep

\* The invariant survives when the calls of free are generated.
LEMMA EndDeallocStep ==
  ASSUME IInv, EndDealloc
  PROVE  IInv'
<1> DEFINE code == <<Act("free data"), Act("free array")>>
<1>1. /\ status = "generating" /\ work # <<>> /\ Top.op = "dealloc"
      /\ work' = Front(work) \o <<>> /\ blocks' = Put(blocks, insert, code)
      /\ UNCHANGED <<functions, insert, status>>
  BY DEF EndDealloc, Doing, Then
<1>2. /\ Top.op \notin {"program", "function_end"} /\ Len(Top.owe) = 0
      /\ Len(blocks) \in Nat
  BY <1>1, QuietContext
<1>3. code \in Seq(InstructionSet(Len(blocks)))
  <2>1. /\ Act("free data") \in InstructionSet(Len(blocks))
        /\ Act("free array") \in InstructionSet(Len(blocks))
    BY <1>2, InstructionTypes, TagTypes DEF VisitorTags
  <2> QED BY ONLY <2>1, Tuples
<1> HIDE DEF code
<1>4. QuietTodo(<<>>, Top.fn, Len(blocks), Len(functions))  BY QuietTodos
<1> QED BY ONLY IInv, <1>1, <1>2, <1>3, <1>4, PutStep

\* The invariant survives when a value is printed.
LEMMA PrintBaseTypeValueStep ==
  ASSUME IInv, PrintBaseTypeValue
  PROVE  IInv'
<1> DEFINE code == <<Act("value")>>
<1>1. /\ status = "generating" /\ work # <<>> /\ Top.op = "print_value"
      /\ work' = Front(work) \o <<>> /\ blocks' = Put(blocks, insert, code)
      /\ UNCHANGED <<functions, insert, status>>
  BY DEF PrintBaseTypeValue, Doing, Then
<1>2. /\ Top.op \notin {"program", "function_end"} /\ Len(Top.owe) = 0
      /\ Len(blocks) \in Nat
  BY <1>1, QuietContext
<1>3. code \in Seq(InstructionSet(Len(blocks)))
  <2>1. Act("value") \in InstructionSet(Len(blocks))
    BY <1>2, InstructionTypes, TagTypes DEF VisitorTags
  <2> QED BY ONLY <2>1
<1> HIDE DEF code
<1>4. QuietTodo(<<>>, Top.fn, Len(blocks), Len(functions))  BY QuietTodos
<1> QED BY ONLY IInv, <1>1, <1>2, <1>3, <1>4, PutStep

\* The invariant survives when straight-line code is generated.
LEMMA GenerateActStep ==
  ASSUME IInv, GenerateAct
  PROVE  IInv'
<1> DEFINE code == <<Act(Head(Top.arg).tag)>>
<1>1. /\ status = "generating" /\ work # <<>> /\ Top.op = "eval" /\ Top.arg # <<>>
      /\ work' = Front(work) \o RestOfExpression /\ blocks' = Put(blocks, insert, code)
      /\ UNCHANGED <<functions, insert, status>>
  BY DEF GenerateAct, Expecting, Doing, Then
<1>2. /\ Top.op \notin {"program", "function_end"} /\ Len(Top.owe) = 0
      /\ Len(blocks) \in Nat /\ Len(functions) \in Nat /\ Top.fn \in 0..Len(functions)
      /\ TaskArgOK(Top, Len(blocks))
  BY <1>1, QuietContext
<1>3. /\ Head(Top.arg).tag \in Tags
      /\ QuietTodo(RestOfExpression, Top.fn, Len(blocks), Len(functions))
  BY ONLY <1>1, <1>2, RestIsQuiet
<1>4. code \in Seq(InstructionSet(Len(blocks)))
  <2>1. Act(Head(Top.arg).tag) \in InstructionSet(Len(blocks))
    BY <1>2, <1>3, InstructionTypes
  <2> QED BY ONLY <2>1
<1> HIDE DEF code
<1> QED BY ONLY IInv, <1>1, <1>2, <1>3, <1>4, PutStep

\* The invariant survives when print goes on to its next operand.
LEMMA PrintOperandStep ==
  ASSUME IInv, PrintOperand
  PROVE  IInv'
<1> DEFINE node == Top.arg.node
           next == Top.arg.next
           todo == <<Loop("print", Top.fn, node, next + 1), PrintValue(node.args[next].depth),
                     Eval(Top.fn, node.args[next].expr)>>
           code == IF node.ln THEN <<Act("newline")>> ELSE <<>>
<1>1. /\ status = "generating" /\ work # <<>> /\ Top.op = "print"
      /\ \/ next <= Len(node.args) /\ work' = Front(work) \o todo /\ blocks' = blocks
         \/ work' = Front(work) \o <<>> /\ blocks' = Put(blocks, insert, code)
      /\ UNCHANGED <<functions, insert, status>>
  BY DEF PrintOperand, Doing, Then
<1>2. /\ Top.op \notin {"program", "function_end"} /\ Len(Top.owe) = 0
      /\ Len(blocks) \in Nat /\ Len(functions) \in Nat /\ Top.fn \in 0..Len(functions)
      /\ TaskArgOK(Top, Len(blocks))
  BY <1>1, QuietContext, Zenon
<1>3. node \in Statement /\ node.kind = "print" /\ next \in Nat \ {0}
  BY ONLY <1>1, <1>2, Zenon DEF TaskArgOK
<1>4. node.args \in Seq([expr : Code, depth : Nat])
  BY ONLY <1>3, StatementAssumption
<1>5. next <= Len(node.args) => QuietTodo(todo, Top.fn, Len(blocks), Len(functions))
  <2> SUFFICES ASSUME next <= Len(node.args)
               PROVE  QuietTodo(todo, Top.fn, Len(blocks), Len(functions))
    OBVIOUS
  <2>1. next \in 1..Len(node.args) /\ next + 1 \in Nat \ {0}
    BY ONLY <1>3, <1>4, next <= Len(node.args), SMT
  <2>2. node.args[next] \in [expr : Code, depth : Nat]
    <3> DEFINE S == [expr : Code, depth : Nat]
    <3>1. node.args \in Seq(S)  BY <1>4
    <3> HIDE DEF S
    <3>2. node.args[next] \in S  BY ONLY <2>1, <3>1
    <3> QED BY <3>2 DEF S
  <2>3. node.args[next].expr \in Code /\ node.args[next].depth \in Nat
    BY ONLY <2>2
  <2>4. QuietTask(Loop("print", Top.fn, node, next + 1), Top.fn, Len(blocks), Len(functions))
    BY ONLY <1>2, <1>3, <2>1, QuietTasks
  <2>5. QuietTask(PrintValue(node.args[next].depth), Top.fn, Len(blocks), Len(functions))
    BY ONLY <1>2, <2>3, QuietTasks DEF PrintValue
  <2>6. QuietTask(Eval(Top.fn, node.args[next].expr), Top.fn, Len(blocks), Len(functions))
    BY ONLY <1>2, <2>3, QuietTasks
  <2> QED BY ONLY <2>4, <2>5, <2>6, QuietTodos
<1>6. code \in Seq(InstructionSet(Len(blocks)))
  <2>1. Act("newline") \in InstructionSet(Len(blocks))
    BY <1>2, InstructionTypes, TagTypes DEF VisitorTags
  <2> QED BY ONLY <2>1
<1>7. QuietTodo(<<>>, Top.fn, Len(blocks), Len(functions))  BY QuietTodos
<1> HIDE DEF code, todo, node, next
<1>8. CASE next <= Len(node.args) /\ work' = Front(work) \o todo /\ blocks' = blocks
  BY ONLY IInv, <1>1, <1>2, <1>5, <1>8, StillStep
<1>9. CASE work' = Front(work) \o <<>> /\ blocks' = Put(blocks, insert, code)
  BY ONLY IInv, <1>1, <1>2, <1>6, <1>7, <1>9, PutStep
<1> QED BY <1>1, <1>8, <1>9

\* The alloca goes to the entry block of the insert block's function.
LEMMA EndDeclarationStep ==
  ASSUME IInv, EndDeclaration
  PROVE  IInv'
<1> DEFINE n     == Len(blocks)
           m     == Len(functions)
           entry == functions[blocks[insert].fn].entry
           alloca == Instruction("alloca", Top.arg.var, <<>>)
           code  == <<Act(Top.arg.var)>>
           bs    == PutInEntry(blocks, entry, alloca)
<1>1. /\ status = "generating" /\ work # <<>> /\ Top.op = "declaration"
      /\ work' = Front(work) \o <<>> /\ blocks' = Put(bs, insert, code)
      /\ UNCHANGED <<functions, insert, status>>
  BY DEF EndDeclaration, Doing, Then
<1>2. /\ Top.op \notin {"program", "function_end"} /\ Len(Top.owe) = 0
      /\ n \in Nat /\ m \in Nat /\ Top.fn \in 0..m /\ Top.fn # 0 /\ TaskArgOK(Top, n)
      /\ blocks \in Seq(BlockSet(n, m)) /\ insert \in 1..n /\ blocks[insert].fn = Top.fn
  BY <1>1, QuietContext
<1>3. Top.arg.var \in Tags  BY ONLY <1>1, <1>2, TagTypes DEF TaskArgOK
<1>4. alloca \in InstructionSet(n) /\ Act(Top.arg.var) \in InstructionSet(n)
  BY ONLY <1>2, <1>3, InstructionTypes
<1>5. alloca \in InstructionSet(n)  BY ONLY <1>4
<1>6. code \in Seq(InstructionSet(n))  BY ONLY <1>4
<1>7. blocks[entry].fn # 0
  <2>1. blocks[insert].fn \in 1..m  BY ONLY <1>2, SMT
  <2> QED BY ONLY <2>1, <1>2, IInv DEF IInv, EntriesOK
<1> HIDE DEF n, m, entry, alloca, code
<1>8. bs = PutInEntry(blocks, entry, alloca) /\ blocks \in Seq(BlockSet(n, m)) /\ n \in Nat /\ m \in Nat
  BY <1>2
<1>9. blocks' = Put(bs, insert, code)  BY <1>1
<1> HIDE DEF bs
<1>10. /\ bs \in Seq(BlockSet(n, m)) /\ Len(bs) = Len(blocks)
       /\ \A c \in 1..Len(blocks) : /\ bs[c].fn = blocks[c].fn
                                    /\ c # entry => bs[c] = blocks[c]
  BY ONLY <1>8, <1>5, PutInEntryType
<1>11. /\ blocks' \in Seq(BlockSet(n, m)) /\ Len(blocks') = Len(bs)
       /\ \A c \in 1..Len(bs) : /\ blocks'[c].fn = bs[c].fn
                                /\ c # insert => blocks'[c] = bs[c]
  BY ONLY <1>6, <1>10, <1>8, <1>9, PutType
<1>12. \A c \in 1..Len(blocks) : /\ blocks'[c].fn = blocks[c].fn
                                 /\ blocks[c].fn = 0 => blocks'[c] = blocks[c]
  BY ONLY <1>2, <1>7, <1>10, <1>11
<1>13. Len(blocks') = Len(blocks) /\ Len(blocks) = n /\ Len(functions) = m
  BY ONLY <1>10, <1>11 DEF n, m
<1>14. /\ \A c \in 1..Len(blocks') : c > Len(blocks) => blocks'[c].fn # 0
       /\ Len(blocks) <= Len(blocks')
  BY ONLY <1>2, <1>13, SMT
<1>15. insert' \in 1..Len(blocks') /\ blocks'[insert'].fn = Top.fn
  <2>1. insert' = insert /\ insert \in 1..Len(blocks)  BY ONLY <1>1, <1>2, <1>13
  <2>2. blocks'[insert].fn = blocks[insert].fn  BY ONLY <1>12, <2>1
  <2>3. blocks[insert].fn = Top.fn  BY ONLY <1>2
  <2> QED BY ONLY <1>13, <2>1, <2>2, <2>3
<1>16. QuietTodo(<<>>, Top.fn, Len(blocks'), Len(functions))  BY QuietTodos
<1>17. blocks' \in Seq(BlockSet(Len(blocks'), Len(functions)))
  BY ONLY <1>11, <1>13
<1> QED BY IInv, <1>1, <1>2, <1>12, <1>14, <1>15, <1>16, <1>17, QuietStep

-----------------------------------------------------------------------------
(* Methods that create blocks.                                             *)

\* The invariant survives when a runtime check with its two blocks is generated.
LEMMA GenerateCheckStep ==
  ASSUME IInv, GenerateCheck
  PROVE  IInv'
<1> DEFINE n    == Len(blocks)
           m    == Len(functions)
           tag  == Head(Top.arg).tag
           code == <<CondBr(tag, New(1), New(2))>>
           new  == <<Block(Top.fn, RuntimeError(tag)), EmptyBlock(Top.fn)>>
<1>1. /\ status = "generating" /\ work # <<>> /\ Top.op = "eval" /\ Top.arg # <<>>
      /\ work' = Front(work) \o RestOfExpression
      /\ blocks' = Put(blocks, insert, code) \o new /\ insert' = New(2)
      /\ functions' = functions /\ status' = status
  BY DEF GenerateCheck, Expecting, Doing, Then
<1>2. /\ Top.op \notin {"program", "function_end"} /\ Len(Top.owe) = 0
      /\ n \in Nat /\ m \in Nat /\ Top.fn \in 0..m /\ Top.fn # 0 /\ TaskArgOK(Top, n)
      /\ insert \in 1..n
  BY <1>1, QuietContext
<1>3. n + 2 \in Nat /\ New(1) \in 1..(n + 2) /\ New(2) \in 1..(n + 2) /\ New(2) = n + 2
  BY ONLY <1>2, SMT DEF New
<1>4. tag \in Tags  BY ONLY <1>1, <1>2, RestIsQuiet
<1>5. TodoOK(RestOfExpression, <<>>, Top.fn, n + 2, m)
  BY ONLY <1>1, <1>2, <1>3, RestTodoOK
<1>6. code \in Seq(InstructionSet(n + 2))
  <2>1. CondBr(tag, New(1), New(2)) \in InstructionSet(n + 2)
    BY ONLY <1>3, <1>4, InstructionTypes
  <2> QED BY ONLY <2>1, Tuples
<1>7. /\ new \in Seq(BlockSet(n + 2, m)) /\ Len(new) = 2
      /\ new[1].fn = Top.fn /\ new[2].fn = Top.fn
  <2>1. RuntimeError(tag) \in Seq(InstructionSet(n + 2))
    BY ONLY <1>3, <1>4, InstructionTypes
  <2>2. /\ Block(Top.fn, RuntimeError(tag)) \in BlockSet(n + 2, m)
        /\ Block(Top.fn, RuntimeError(tag)).fn = Top.fn
        /\ EmptyBlock(Top.fn) \in BlockSet(n + 2, m) /\ EmptyBlock(Top.fn).fn = Top.fn
    BY ONLY <1>2, <1>3, <2>1, BlockTypes
  <2>3. new \in Seq(BlockSet(n + 2, m))  BY ONLY <2>2, Tuples
  <2> QED BY ONLY <2>2, <2>3
<1> HIDE DEF n, m, code, new
<1>8. NewBlocksOK(new, <<>>, n)
  <2>1. \A i \in 1..Len(new) : new[i].fn # 0  BY ONLY <1>2, <1>7, SMT
  <2>2. \A j \in 1..Len(<<>>) : FALSE  BY EmptySeq, SMT
  <2> QED BY ONLY <2>1, <2>2 DEF NewBlocksOK, NoParent
<1>9. /\ n + 2 = Len(blocks) + Len(new) /\ 2 \in 1..Len(new) /\ insert' = Len(blocks) + 2
      /\ new[2].fn = Top.fn /\ new \in Seq(BlockSet(n + 2, Len(functions)))
      /\ TodoOK(RestOfExpression, <<>>, Top.fn, n + 2, Len(functions))
      /\ NewBlocksOK(new, <<>>, Len(blocks))
  BY <1>1, <1>3, <1>5, <1>7, <1>8 DEF n, m
<1> QED BY ONLY IInv, <1>1, <1>2, <1>3, <1>6, <1>9, GrowStep

\* The invariant survives when the gcd loop with its three blocks is generated.
LEMMA GenerateGCDStep ==
  ASSUME IInv, GenerateGCD
  PROVE  IInv'
<1> DEFINE n     == Len(blocks)
           m     == Len(functions)
           code  == <<Act("gcd arguments"), Br(New(1))>>
           preds == <<insert, New(2)>>
           cond  == <<Phi(preds), Phi(preds), CondBr("gcd", New(2), New(3))>>
           new   == <<Block(Top.fn, cond), Block(Top.fn, <<Br(New(1))>>), EmptyBlock(Top.fn)>>
<1>1. /\ status = "generating" /\ work # <<>> /\ Top.op = "eval" /\ Top.arg # <<>>
      /\ work' = Front(work) \o RestOfExpression
      /\ blocks' = Put(blocks, insert, code) \o new /\ insert' = New(3)
      /\ functions' = functions /\ status' = status
  BY DEF GenerateGCD, Expecting, Doing, Then
<1>2. /\ Top.op \notin {"program", "function_end"} /\ Len(Top.owe) = 0
      /\ n \in Nat /\ m \in Nat /\ Top.fn \in 0..m /\ Top.fn # 0 /\ TaskArgOK(Top, n)
      /\ insert \in 1..n
  BY <1>1, QuietContext
<1>3. /\ n + 3 \in Nat /\ New(3) = n + 3
      /\ New(1) \in 1..(n + 3) /\ New(2) \in 1..(n + 3) /\ New(3) \in 1..(n + 3)
      /\ insert \in 1..(n + 3)
  BY ONLY <1>2, SMT DEF New
<1>4. {"gcd", "gcd arguments"} \subseteq Tags  BY TagTypes DEF VisitorTags
<1>5. TodoOK(RestOfExpression, <<>>, Top.fn, n + 3, m)
  BY ONLY <1>1, <1>2, <1>3, RestTodoOK
<1>6. code \in Seq(InstructionSet(n + 3)) /\ <<Br(New(1))>> \in Seq(InstructionSet(n + 3))
  <2>1. Act("gcd arguments") \in InstructionSet(n + 3) /\ Br(New(1)) \in InstructionSet(n + 3)
    BY ONLY <1>3, <1>4, InstructionTypes
  <2> QED BY ONLY <2>1, Tuples
<1>7. cond \in Seq(InstructionSet(n + 3))
  <2>1. preds \in Seq(1..(n + 3))  BY ONLY <1>3, Tuples
  <2>2. Phi(preds) \in InstructionSet(n + 3)
    BY ONLY <1>3, <2>1, InstructionTypes
  <2>3. CondBr("gcd", New(2), New(3)) \in InstructionSet(n + 3)
    BY ONLY <1>3, <1>4, InstructionTypes
  <2> QED BY ONLY <2>2, <2>3, Tuples
<1> HIDE DEF cond, preds
<1>8. /\ new \in Seq(BlockSet(n + 3, m)) /\ Len(new) = 3
      /\ new[1].fn = Top.fn /\ new[2].fn = Top.fn /\ new[3].fn = Top.fn
  <2> DEFINE back == <<Br(New(1))>>
  <2>1. back \in Seq(InstructionSet(n + 3))  BY <1>6
  <2> HIDE DEF back
  <2>2. /\ Block(Top.fn, cond) \in BlockSet(n + 3, m) /\ Block(Top.fn, cond).fn = Top.fn
        /\ Block(Top.fn, back) \in BlockSet(n + 3, m) /\ Block(Top.fn, back).fn = Top.fn
        /\ EmptyBlock(Top.fn) \in BlockSet(n + 3, m) /\ EmptyBlock(Top.fn).fn = Top.fn
    BY ONLY <1>2, <1>3, <1>7, <2>1, BlockTypes
  <2>3. new = <<Block(Top.fn, cond), Block(Top.fn, back), EmptyBlock(Top.fn)>>
    BY DEF back
  <2> HIDE DEF new
  <2>4. new \in Seq(BlockSet(n + 3, m))  BY ONLY <2>2, <2>3, Tuples
  <2> QED BY ONLY <2>2, <2>3, <2>4
<1> HIDE DEF n, m, code, new
<1>9. NewBlocksOK(new, <<>>, n)
  <2>1. \A i \in 1..Len(new) : new[i].fn # 0  BY ONLY <1>2, <1>8, SMT
  <2>2. \A j \in 1..Len(<<>>) : FALSE  BY EmptySeq, SMT
  <2> QED BY ONLY <2>1, <2>2 DEF NewBlocksOK, NoParent
<1>10. /\ n + 3 = Len(blocks) + Len(new) /\ 3 \in 1..Len(new) /\ insert' = Len(blocks) + 3
       /\ new[3].fn = Top.fn /\ new \in Seq(BlockSet(n + 3, Len(functions)))
       /\ TodoOK(RestOfExpression, <<>>, Top.fn, n + 3, Len(functions))
       /\ NewBlocksOK(new, <<>>, Len(blocks))
  BY <1>1, <1>3, <1>5, <1>8, <1>9 DEF n, m
<1> QED BY ONLY IInv, <1>1, <1>2, <1>3, <1>6, <1>10, GrowStep

\* The invariant survives when an if-statement creates its blocks and branches to them.
LEMMA IfConditionStep ==
  ASSUME IInv, IfCondition
  PROVE  IInv'
<1> DEFINE n     == Len(blocks)
           m     == Len(functions)
           node  == Top.arg
           E     == EmptyBlock(Top.fn)
           D     == EmptyBlock(NoParent)
           owe   == IF HasElseBlock(node) THEN <<New(3), New(2)>> ELSE <<New(2)>>
           new   == IF HasElseBlock(node) THEN <<E, D, D>> ELSE <<E, D>>
           code  == <<CondBr("if", New(1), Head(owe))>>
           todo  == <<Task("then_end", Top.fn, node, owe), Gen(Top.fn, node.then)>>
<1>1. /\ status = "generating" /\ work # <<>> /\ Top.op = "if_cond"
      /\ work' = Front(work) \o todo /\ blocks' = Put(blocks, insert, code) \o new
      /\ insert' = New(1) /\ functions' = functions /\ status' = status
  BY DEF IfCondition, Doing, Then
<1>2. /\ Top.op \notin {"program", "function_end"} /\ Len(Top.owe) = 0
      /\ n \in Nat /\ m \in Nat /\ Top.fn \in 0..m /\ Top.fn # 0 /\ TaskArgOK(Top, n)
      /\ insert \in 1..n
  BY <1>1, QuietContext
<1>3. node \in Statement /\ node.kind = "if"  BY ONLY <1>1, <1>2 DEF TaskArgOK
<1>4. node.then \in Statement  BY ONLY <1>3, StatementAssumption
<1>5. /\ E \in BlockSet(n + 3, m) /\ E.fn = Top.fn /\ D.fn = 0 /\ D.code = <<>>
      /\ D \in BlockSet(n + 3, m)
      /\ E \in BlockSet(n + 2, m) /\ D \in BlockSet(n + 2, m)
  <2>1. n + 3 \in Nat /\ n + 2 \in Nat /\ 0 \in 0..m  BY ONLY <1>2, SMT
  <2> QED BY ONLY <1>2, <2>1, BlockTypes DEF NoParent
<1>6. "if" \in Tags  BY TagTypes DEF VisitorTags
<1>7. CASE HasElseBlock(node)
  <2>1. /\ n + 3 \in Nat /\ New(1) = n + 1 /\ New(2) = n + 2 /\ New(3) = n + 3
        /\ New(1) \in 1..(n + 3) /\ New(2) \in 1..(n + 3) /\ New(3) \in 1..(n + 3)
        /\ n + 2 # n + 3
    BY ONLY <1>2, SMT DEF New
  <2>2. new = <<E, D, D>> /\ owe = <<New(3), New(2)>>  BY <1>7
  <2>3. Head(owe) = New(3) /\ owe[1] = New(3) /\ owe[2] = New(2) /\ Len(owe) = 2
    BY ONLY <2>2
  <2>4. code \in Seq(InstructionSet(n + 3))
    <3>1. CondBr("if", New(1), New(3)) \in InstructionSet(n + 3)
      BY ONLY <1>6, <2>1, InstructionTypes
    <3> QED BY ONLY <2>3, <3>1, Tuples
  <2>5. TodoOK(todo, owe, Top.fn, n + 3, m)
    <3>1. TaskOK(Task("then_end", Top.fn, node, <<New(3), New(2)>>), n + 3, m)
      BY ONLY <1>2, <1>3, <1>7, <2>1, OwingTasks DEF HasElseBlock
    <3>2. QuietTask(Gen(Top.fn, node.then), Top.fn, n + 3, m)
      BY ONLY <1>2, <1>4, <2>1, QuietTasks
    <3> HIDE DEF owe
    <3>3. TaskOK(Task("then_end", Top.fn, node, owe), n + 3, m)
      BY ONLY <2>2, <3>1
    <3> QED BY ONLY <3>2, <3>3, OwingTodo
  <2> HIDE DEF code, todo, new, owe, E, D
  <2>6. /\ new \in Seq(BlockSet(n + 3, m)) /\ Len(new) = 3
        /\ new[1] = E /\ new[2] = D /\ new[3] = D
    BY ONLY <1>5, <2>2, Tuples
  <2>7. NewBlocksOK(new, owe, n)
    <3>1. /\ 2 \in 1..Len(new) /\ 3 \in 1..Len(new) /\ 2 # 3
          /\ \A i \in 1..Len(new) : i # 3 /\ i # 2 => i = 1
      BY ONLY <2>6, SMT
    <3>2. owe[1] = n + 3 /\ owe[2] = n + 2 /\ E.fn # 0  BY ONLY <1>2, <1>5, <2>1, <2>3
    <3> QED BY ONLY <1>2, <1>5, <2>3, <2>6, <3>1, <3>2, TwoOwed
  <2> HIDE DEF n, m
  <2>8. /\ n + 3 = Len(blocks) + Len(new) /\ 1 \in 1..Len(new) /\ insert' = Len(blocks) + 1
        /\ new[1].fn = Top.fn /\ new \in Seq(BlockSet(n + 3, Len(functions)))
        /\ TodoOK(todo, owe, Top.fn, n + 3, Len(functions))
        /\ NewBlocksOK(new, owe, Len(blocks))
    BY <1>1, <1>5, <2>1, <2>5, <2>6, <2>7 DEF n, m
  <2> QED BY ONLY IInv, <1>1, <1>2, <2>1, <2>4, <2>8, GrowStep
<1>8. CASE ~HasElseBlock(node)
  <2>1. /\ n + 2 \in Nat /\ New(1) = n + 1 /\ New(2) = n + 2
        /\ New(1) \in 1..(n + 2) /\ New(2) \in 1..(n + 2)
    BY ONLY <1>2, SMT DEF New
  <2>2. new = <<E, D>> /\ owe = <<New(2)>>  BY <1>8
  <2>3. Head(owe) = New(2) /\ owe[1] = New(2) /\ Len(owe) = 1  BY ONLY <2>2
  <2>4. code \in Seq(InstructionSet(n + 2))
    <3>1. CondBr("if", New(1), New(2)) \in InstructionSet(n + 2)
      BY ONLY <1>6, <2>1, InstructionTypes
    <3> QED BY ONLY <2>3, <3>1, Tuples
  <2>5. TodoOK(todo, owe, Top.fn, n + 2, m)
    <3>1. TaskOK(Task("then_end", Top.fn, node, <<New(2)>>), n + 2, m)
      BY ONLY <1>2, <1>3, <1>8, <2>1, OwingTasks DEF HasElseBlock
    <3>2. QuietTask(Gen(Top.fn, node.then), Top.fn, n + 2, m)
      BY ONLY <1>2, <1>4, <2>1, QuietTasks
    <3> HIDE DEF owe
    <3>3. TaskOK(Task("then_end", Top.fn, node, owe), n + 2, m)
      BY ONLY <2>2, <3>1
    <3> QED BY ONLY <3>2, <3>3, OwingTodo
  <2> HIDE DEF code, todo, new, owe, E, D
  <2>6. /\ new \in Seq(BlockSet(n + 2, m)) /\ Len(new) = 2 /\ new[1] = E /\ new[2] = D
    BY ONLY <1>5, <2>2, Tuples
  <2>7. NewBlocksOK(new, owe, n)
    <3>1. \A i \in 1..Len(new) : i = 1 \/ i = 2  BY ONLY <2>6, SMT
    <3>2. \A j \in 1..Len(owe) : j = 1  BY ONLY <2>3, SMT
    <3>3. 1 \in 1..Len(owe) /\ 2 \in 1..Len(new)  BY ONLY <2>3, <2>6, SMT
    <3>4. \A i \in 1..Len(new) : new[i].fn = 0 =>
            new[i].code = <<>> /\ \E j \in 1..Len(owe) : owe[j] = n + i
      BY ONLY <1>2, <1>5, <2>1, <2>3, <2>6, <3>1, <3>3
    <3>5. \A j \in 1..Len(owe) : \E i \in 1..Len(new) : owe[j] = n + i /\ new[i].fn = 0
      BY ONLY <1>5, <2>1, <2>3, <2>6, <3>2, <3>3
    <3>6. \A i, j \in 1..Len(owe) : owe[i] = owe[j] => i = j  BY ONLY <3>2
    <3> QED BY ONLY <3>4, <3>5, <3>6 DEF NewBlocksOK, NoParent
  <2> HIDE DEF n, m
  <2>8. /\ n + 2 = Len(blocks) + Len(new) /\ 1 \in 1..Len(new) /\ insert' = Len(blocks) + 1
        /\ new[1].fn = Top.fn /\ new \in Seq(BlockSet(n + 2, Len(functions)))
        /\ TodoOK(todo, owe, Top.fn, n + 2, Len(functions))
        /\ NewBlocksOK(new, owe, Len(blocks))
    BY <1>1, <1>5, <2>1, <2>5, <2>6, <2>7 DEF n, m
  <2> QED BY ONLY IInv, <1>1, <1>2, <2>1, <2>4, <2>8, GrowStep
<1> QED BY <1>7, <1>8

\* The invariant survives when a loop creates its three blocks.
LEMMA EnterLoopStep ==
  ASSUME IInv, status = "generating", work # <<>>, Top.op \in {"gen", "for_init"},
         Top.arg.kind \in {"while", "for"}, EnterLoop(Top.arg)
  PROVE  IInv'
<1> DEFINE n    == Len(blocks)
           m    == Len(functions)
           node == Top.arg
           E    == EmptyBlock(Top.fn)
           D    == EmptyBlock(NoParent)
           owe  == <<New(2), New(3)>>
           new  == <<E, D, D>>
           code == <<Br(New(1))>>
           arg  == [node |-> node, cond |-> New(1)]
           todo == <<Task("loop_cond", Top.fn, arg, owe), Eval(Top.fn, node.expr)>>
<1>1. /\ status = "generating" /\ work # <<>> /\ Top.op \in {"gen", "for_init"}
      /\ work' = Front(work) \o todo /\ blocks' = Put(blocks, insert, code) \o new
      /\ insert' = New(1) /\ functions' = functions /\ status' = status
  BY DEF EnterLoop, Then
<1>2. /\ Top.op \notin {"program", "function_end"} /\ Len(Top.owe) = 0
      /\ n \in Nat /\ m \in Nat /\ Top.fn \in 0..m /\ Top.fn # 0 /\ TaskArgOK(Top, n)
      /\ insert \in 1..n
  BY <1>1, QuietContext
<1>3. node \in Statement /\ node.kind \in {"while", "for"}
  BY ONLY <1>1, <1>2, Top.arg.kind \in {"while", "for"} DEF TaskArgOK
<1>4. node.expr \in Code  BY ONLY <1>3, StatementAssumption
<1>5. /\ n + 3 \in Nat /\ New(1) = n + 1 /\ New(2) = n + 2 /\ New(3) = n + 3
      /\ New(1) \in 1..(n + 3) /\ New(2) \in 1..(n + 3) /\ New(3) \in 1..(n + 3)
      /\ n + 2 # n + 3
  BY ONLY <1>2, SMT DEF New
<1>6. /\ E \in BlockSet(n + 3, m) /\ E.fn = Top.fn
      /\ D \in BlockSet(n + 3, m) /\ D.fn = 0 /\ D.code = <<>>
  <2>1. n + 3 \in Nat /\ 0 \in 0..m  BY ONLY <1>2, SMT
  <2> QED BY ONLY <1>2, <2>1, BlockTypes DEF NoParent
<1>7. code \in Seq(InstructionSet(n + 3))
  <2>1. Br(New(1)) \in InstructionSet(n + 3)  BY ONLY <1>5, InstructionTypes
  <2> QED BY ONLY <2>1, Tuples
<1>8. TodoOK(todo, owe, Top.fn, n + 3, m)
  <2>1. arg.node = node /\ arg.cond \in 1..(n + 3)  BY ONLY <1>5
  <2> HIDE DEF arg
  <2>2. TaskOK(Task("loop_cond", Top.fn, arg, <<New(2), New(3)>>), n + 3, m)
    BY ONLY <1>2, <1>3, <1>5, <2>1, OwingTasks
  <2>3. QuietTask(Eval(Top.fn, node.expr), Top.fn, n + 3, m)
    BY ONLY <1>2, <1>4, <1>5, QuietTasks
  <2>4. TaskOK(Task("loop_cond", Top.fn, arg, owe), n + 3, m)  BY ONLY <2>2
  <2> HIDE DEF owe
  <2> QED BY ONLY <2>3, <2>4, OwingTodo
<1>9. owe[1] = New(2) /\ owe[2] = New(3) /\ Len(owe) = 2  OBVIOUS
<1> HIDE DEF code, todo, owe, E, D
<1>10. /\ new \in Seq(BlockSet(n + 3, m)) /\ Len(new) = 3
       /\ new[1] = E /\ new[2] = D /\ new[3] = D
  BY ONLY <1>6, Tuples
<1> HIDE DEF new
<1>11. NewBlocksOK(new, owe, n)
  <2>1. /\ 2 \in 1..Len(new) /\ 3 \in 1..Len(new) /\ 2 # 3
        /\ \A i \in 1..Len(new) : i # 2 /\ i # 3 => i = 1
    BY ONLY <1>10, SMT
  <2>2. /\ n \in Nat /\ Len(new) \in Nat /\ owe[1] = n + 2 /\ owe[2] = n + 3 /\ Len(owe) = 2
        /\ new[2].fn = 0 /\ new[2].code = <<>> /\ new[3].fn = 0 /\ new[3].code = <<>>
        /\ \A i \in 1..Len(new) : i # 2 /\ i # 3 => new[i].fn # 0
    BY ONLY <1>2, <1>5, <1>6, <1>9, <1>10, <2>1
  <2> HIDE DEF n
  <2> QED BY ONLY <2>1, <2>2, TwoOwed
<1> HIDE DEF n, m
<1>12. /\ n + 3 = Len(blocks) + Len(new) /\ 1 \in 1..Len(new) /\ insert' = Len(blocks) + 1
       /\ new[1].fn = Top.fn /\ new \in Seq(BlockSet(n + 3, Len(functions)))
       /\ TodoOK(todo, owe, Top.fn, n + 3, Len(functions))
       /\ NewBlocksOK(new, owe, Len(blocks))
  BY <1>1, <1>5, <1>6, <1>8, <1>10, <1>11 DEF n, m
<1> QED BY ONLY IInv, <1>1, <1>2, <1>5, <1>7, <1>12, GrowStep

\* The invariant survives when the printing of an array creates its five blocks.
LEMMA PrintArrayStep ==
  ASSUME IInv, PrintArray
  PROVE  IInv'
<1> DEFINE n    == Len(blocks)
           m    == Len(functions)
           E    == EmptyBlock(Top.fn)
           D    == EmptyBlock(NoParent)
           owe  == <<New(4), New(5)>>
           from == <<Br(New(2))>>
           cond == <<Phi(<<New(1)>>), CondBr("more", New(3), New(4))>>
           new  == <<Block(Top.fn, from), Block(Top.fn, cond), E, D, D>>
           code == <<Act("open"), CondBr("empty", New(5), New(1))>>
           arg  == [depth |-> Top.arg.depth, cond |-> New(2)]
           todo == <<Task("print_main", Top.fn, arg, owe), PrintValue(Top.arg.depth - 1)>>
<1>1. /\ status = "generating" /\ work # <<>> /\ Top.op = "print_value"
      /\ Top.arg.depth > 0 /\ work' = Front(work) \o todo
      /\ blocks' = Put(blocks, insert, code) \o new /\ insert' = New(3)
      /\ functions' = functions /\ status' = status
  BY DEF PrintArray, Doing, Then
<1>2. /\ Top.op \notin {"program", "function_end"} /\ Len(Top.owe) = 0
      /\ n \in Nat /\ m \in Nat /\ Top.fn \in 0..m /\ Top.fn # 0 /\ TaskArgOK(Top, n)
      /\ insert \in 1..n
  BY <1>1, QuietContext
<1>3. Top.arg.depth \in Nat \ {0} /\ Top.arg.depth - 1 \in Nat
  <2>1. Top.arg.depth \in Nat  BY ONLY <1>1, <1>2 DEF TaskArgOK
  <2>2. Top.arg.depth > 0  BY ONLY <1>1
  <2> QED BY ONLY <2>1, <2>2, SMT
<1>4. {"open", "empty", "more"} \subseteq Tags  BY TagTypes DEF VisitorTags
<1>5. /\ n + 5 \in Nat /\ New(3) = n + 3 /\ New(4) = n + 4 /\ New(5) = n + 5
      /\ New(1) \in 1..(n + 5) /\ New(2) \in 1..(n + 5) /\ New(3) \in 1..(n + 5)
      /\ New(4) \in 1..(n + 5) /\ New(5) \in 1..(n + 5) /\ n + 4 # n + 5
  BY ONLY <1>2, SMT DEF New
<1>6. from \in Seq(InstructionSet(n + 5))
  <2>1. Br(New(2)) \in InstructionSet(n + 5)  BY ONLY <1>5, InstructionTypes
  <2> QED BY ONLY <2>1, Tuples
<1>7. cond \in Seq(InstructionSet(n + 5))
  <2>1. <<New(1)>> \in Seq(1..(n + 5))  BY ONLY <1>5, Tuples
  <2>2. Phi(<<New(1)>>) \in InstructionSet(n + 5)
    BY ONLY <1>5, <2>1, InstructionTypes
  <2>3. CondBr("more", New(3), New(4)) \in InstructionSet(n + 5)
    BY ONLY <1>4, <1>5, InstructionTypes
  <2> QED BY ONLY <2>2, <2>3, Tuples
<1>8. code \in Seq(InstructionSet(n + 5))
  <2>1. Act("open") \in InstructionSet(n + 5) /\ CondBr("empty", New(5), New(1)) \in InstructionSet(n + 5)
    BY ONLY <1>4, <1>5, InstructionTypes
  <2> QED BY ONLY <2>1, Tuples
<1>9. TodoOK(todo, owe, Top.fn, n + 5, m)
  <2>1. arg.depth \in Nat \ {0} /\ arg.cond \in 1..(n + 5)  BY ONLY <1>3, <1>5
  <2> HIDE DEF arg
  <2>2. TaskOK(Task("print_main", Top.fn, arg, <<New(4), New(5)>>), n + 5, m)
    BY ONLY <1>2, <1>5, <2>1, OwingTasks
  <2>3. QuietTask(PrintValue(Top.arg.depth - 1), Top.fn, n + 5, m)
    BY ONLY <1>2, <1>3, <1>5, QuietTasks DEF PrintValue
  <2>4. TaskOK(Task("print_main", Top.fn, arg, owe), n + 5, m)  BY ONLY <2>2
  <2> HIDE DEF owe
  <2> QED BY ONLY <2>3, <2>4, OwingTodo
<1>10. owe[1] = New(4) /\ owe[2] = New(5) /\ Len(owe) = 2  OBVIOUS
<1> HIDE DEF code, todo, owe, from, cond
<1>11. /\ Block(Top.fn, from) \in BlockSet(n + 5, m) /\ Block(Top.fn, from).fn = Top.fn
       /\ Block(Top.fn, cond) \in BlockSet(n + 5, m) /\ Block(Top.fn, cond).fn = Top.fn
       /\ E \in BlockSet(n + 5, m) /\ E.fn = Top.fn
       /\ D \in BlockSet(n + 5, m) /\ D.fn = 0 /\ D.code = <<>>
  <2>1. n + 5 \in Nat /\ 0 \in 0..m  BY ONLY <1>2, SMT
  <2> QED BY ONLY <1>2, <1>6, <1>7, <2>1, BlockTypes DEF NoParent
<1> HIDE DEF E, D
<1>12. /\ new \in Seq(BlockSet(n + 5, m)) /\ Len(new) = 5
       /\ new[1].fn = Top.fn /\ new[2].fn = Top.fn /\ new[3].fn = Top.fn
       /\ new[4] = D /\ new[5] = D
  <2>1. new \in Seq(BlockSet(n + 5, m))  BY ONLY <1>11, Tuples
  <2> QED BY ONLY <1>11, <2>1
<1> HIDE DEF new
<1>13. NewBlocksOK(new, owe, n)
  <2>1. /\ 4 \in 1..Len(new) /\ 5 \in 1..Len(new) /\ 4 # 5
        /\ \A i \in 1..Len(new) : i # 4 /\ i # 5 => i = 1 \/ i = 2 \/ i = 3
    BY ONLY <1>12, SMT
  <2>2. /\ n \in Nat /\ Len(new) \in Nat /\ owe[1] = n + 4 /\ owe[2] = n + 5 /\ Len(owe) = 2
        /\ new[4].fn = 0 /\ new[4].code = <<>> /\ new[5].fn = 0 /\ new[5].code = <<>>
        /\ \A i \in 1..Len(new) : i # 4 /\ i # 5 => new[i].fn # 0
    BY ONLY <1>2, <1>5, <1>10, <1>11, <1>12, <2>1
  <2> HIDE DEF n
  <2> QED BY ONLY <2>1, <2>2, TwoOwed
<1> HIDE DEF n, m
<1>14. /\ n + 5 = Len(blocks) + Len(new) /\ 3 \in 1..Len(new) /\ insert' = Len(blocks) + 3
       /\ new[3].fn = Top.fn /\ new \in Seq(BlockSet(n + 5, Len(functions)))
       /\ TodoOK(todo, owe, Top.fn, n + 5, Len(functions))
       /\ NewBlocksOK(new, owe, Len(blocks))
  BY <1>1, <1>5, <1>9, <1>12, <1>13 DEF n, m
<1> QED BY ONLY IInv, <1>1, <1>2, <1>5, <1>8, <1>14, GrowStep

-----------------------------------------------------------------------------
(* Methods that attach blocks.                                             *)

\* The invariant survives when the else-part ends and merge is attached.
LEMMA EndElseStep ==
  ASSUME IInv, EndElse
  PROVE  IInv'
<1> DEFINE merge == Head(Top.owe)
<1>1. /\ status = "generating" /\ work # <<>> /\ Top.op = "else_end"
      /\ work' = Front(work) \o <<>>
      /\ blocks' = Attach(FallThrough(merge), merge, Top.fn) /\ insert' = merge
      /\ UNCHANGED <<functions, status>>
  BY DEF EndElse, Doing, Then
<1>2. /\ Top.op \notin {"program", "function_end"} /\ Len(Top.owe) = 1
      /\ merge = Top.owe[1] /\ merge \in 1..Len(blocks)
      /\ Len(blocks) \in Nat /\ Len(functions) \in Nat
      /\ blocks \in Seq(BlockSet(Len(blocks), Len(functions)))
      /\ Top.fn \in 0..Len(functions)
      /\ insert \in 1..Len(blocks) /\ blocks[insert].fn # 0
  BY <1>1, OwingContext DEF Owing
<1> HIDE DEF merge
<1>3. Extended(FallThrough(merge))  BY ONLY <1>2, FallThroughExtends
<1>4. Attached(blocks', merge, Top.fn)  BY ONLY <1>1, <1>2, <1>3, AttachAttaches
<1>5. Attached(blocks', Top.owe[1], Top.fn) /\ insert' = Top.owe[1]
  BY ONLY <1>1, <1>2, <1>4
<1>6. TodoOK(<<>>, <<>>, Top.fn, Len(blocks), Len(functions)) /\ Len(<<>>) = 0
  BY ONLY <1>2, QuietTodos, QuietTodoOK, EmptySeq
<1>7. Len(Top.owe) = Len(<<>>) + 1 /\ \A j \in 1..Len(<<>>) : <<>>[j] = Top.owe[j + 1]
  BY ONLY <1>2, <1>6, SMT
<1> QED BY ONLY IInv, <1>1, <1>2, <1>5, <1>6, <1>7, AttachedStep

\* The invariant survives when the then-part ends and the next owed block is attached.
LEMMA EndThenStep ==
  ASSUME IInv, EndThen
  PROVE  IInv'
<1> DEFINE merge == Last(Top.owe)
           next  == Head(Top.owe)
<1>1. /\ status = "generating" /\ work # <<>> /\ Top.op = "then_end"
      /\ blocks' = Attach(FallThrough(merge), next, Top.fn) /\ insert' = next
      /\ UNCHANGED <<functions, status>>
      /\ HasElseBlock(Top.arg) =>
           work' = Front(work) \o <<Task("else_end", Top.fn, Top.arg, <<merge>>),
                                   Gen(Top.fn, Top.arg.else[1])>>
      /\ ~HasElseBlock(Top.arg) => work' = Front(work) \o <<>>
  BY DEF EndThen, Doing, Then
<1>2. /\ Top.op \notin {"program", "function_end"}
      /\ Len(Top.owe) = IF HasElseBlock(Top.arg) THEN 2 ELSE 1
      /\ \A i \in 1..Len(Top.owe) : Top.owe[i] \in 1..Len(blocks)
      /\ Len(Top.owe) > 0 => next = Top.owe[1] /\ merge = Top.owe[Len(Top.owe)]
      /\ Len(blocks) \in Nat /\ Len(functions) \in Nat
      /\ blocks \in Seq(BlockSet(Len(blocks), Len(functions)))
      /\ TaskArgOK(Top, Len(blocks)) /\ Top.fn \in 0..Len(functions)
      /\ insert \in 1..Len(blocks) /\ blocks[insert].fn # 0
  BY <1>1, OwingContext DEF Owing
<1> HIDE DEF merge, next
<1>3. /\ next = Top.owe[1] /\ merge = Top.owe[Len(Top.owe)]
      /\ next \in 1..Len(blocks) /\ merge \in 1..Len(blocks)
  BY ONLY <1>2, SMT
<1>4. Extended(FallThrough(merge))  BY ONLY <1>2, <1>3, FallThroughExtends
<1>5. Attached(blocks', next, Top.fn)
  BY ONLY <1>1, <1>2, <1>3, <1>4, AttachAttaches
<1>6. Attached(blocks', Top.owe[1], Top.fn) /\ insert' = Top.owe[1]
  BY ONLY <1>1, <1>3, <1>5
<1>7. CASE HasElseBlock(Top.arg)
  <2> DEFINE todo == <<Task("else_end", Top.fn, Top.arg, <<merge>>), Gen(Top.fn, Top.arg.else[1])>>
             owe  == <<merge>>
  <2>1. Top.arg \in Statement /\ Top.arg.kind = "if"
    BY ONLY <1>1, <1>2 DEF TaskArgOK
  <2>2. Top.arg.else[1] \in Statement
    <3>1. Top.arg.else \in Seq(Statement)  BY ONLY <2>1, StatementAssumption
    <3> QED BY ONLY <1>7, <3>1 DEF HasElseBlock
  <2>3. TaskOK(Task("else_end", Top.fn, Top.arg, <<merge>>), Len(blocks), Len(functions))
    BY ONLY <1>2, <1>3, <2>1, OwingTasks
  <2>4. QuietTask(Gen(Top.fn, Top.arg.else[1]), Top.fn, Len(blocks), Len(functions))
    BY ONLY <1>2, <2>2, QuietTasks
  <2>5. Len(Top.owe) = Len(owe) + 1 /\ \A j \in 1..Len(owe) : owe[j] = Top.owe[j + 1]
    <3>1. Len(owe) = 1 /\ owe[1] = merge  OBVIOUS
    <3> HIDE DEF owe
    <3> QED BY ONLY <1>2, <1>3, <1>7, <3>1, SMT
  <2> HIDE DEF owe
  <2>6. /\ TaskOK(Task("else_end", Top.fn, Top.arg, owe), Len(blocks), Len(functions))
        /\ todo = <<Task("else_end", Top.fn, Top.arg, owe), Gen(Top.fn, Top.arg.else[1])>>
    BY ONLY <2>3 DEF owe
  <2>7. work' = Front(work) \o todo  BY <1>1, <1>7
  <2> HIDE DEF todo
  <2>8. TodoOK(todo, owe, Top.fn, Len(blocks), Len(functions))
    BY ONLY <2>4, <2>6, OwingTodo
  <2> QED BY ONLY IInv, <1>1, <1>2, <1>6, <2>5, <2>7, <2>8, AttachedStep
<1>8. CASE ~HasElseBlock(Top.arg)
  <2>1. TodoOK(<<>>, <<>>, Top.fn, Len(blocks), Len(functions)) /\ Len(<<>>) = 0
    BY ONLY <1>2, QuietTodos, QuietTodoOK, EmptySeq
  <2>2. Len(Top.owe) = Len(<<>>) + 1 /\ \A j \in 1..Len(<<>>) : <<>>[j] = Top.owe[j + 1]
    BY ONLY <1>2, <1>8, <2>1, SMT
  <2>3. work' = Front(work) \o <<>>  BY <1>1, <1>8
  <2> QED BY ONLY IInv, <1>1, <1>2, <1>6, <2>1, <2>2, <2>3, AttachedStep
<1> QED BY <1>7, <1>8

\* The invariant survives when a loop branches on its condition and its body is attached.
LEMMA LoopConditionStep ==
  ASSUME IInv, LoopCondition
  PROVE  IInv'
<1> DEFINE loop  == Top.owe[1]
           after == Top.owe[2]
           node  == Top.arg.node
           code  == <<CondBr(node.kind, loop, after)>>
           owe   == <<after>>
           todo  == <<Task("body_end", Top.fn, Top.arg, <<after>>), Gen(Top.fn, node.body)>>
<1>1. /\ status = "generating" /\ work # <<>> /\ Top.op = "loop_cond"
      /\ blocks' = Attach(Put(blocks, insert, code), loop, Top.fn) /\ insert' = loop
      /\ UNCHANGED <<functions, status>> /\ work' = Front(work) \o todo
  BY DEF LoopCondition, Doing, Then
<1>2. /\ Top.op \notin {"program", "function_end"} /\ Len(Top.owe) = 2
      /\ \A i \in 1..Len(Top.owe) : Top.owe[i] \in 1..Len(blocks)
      /\ Len(blocks) \in Nat /\ Len(functions) \in Nat
      /\ blocks \in Seq(BlockSet(Len(blocks), Len(functions)))
      /\ TaskArgOK(Top, Len(blocks)) /\ Top.fn \in 0..Len(functions)
      /\ insert \in 1..Len(blocks) /\ blocks[insert].fn # 0
  BY <1>1, OwingContext DEF Owing
<1>3. loop \in 1..Len(blocks) /\ after \in 1..Len(blocks)  BY ONLY <1>2, SMT
<1>4. /\ node \in Statement /\ node.kind \in {"while", "for"}
      /\ Top.arg.cond \in 1..Len(blocks)
  BY ONLY <1>1, <1>2 DEF TaskArgOK
<1>5. node.body \in Statement  BY ONLY <1>4, StatementAssumption
<1>6. code \in Seq(InstructionSet(Len(blocks)))
  <2>1. node.kind \in Tags
    <3>1. "while" \in Tags /\ "for" \in Tags  BY TagTypes DEF VisitorTags
    <3> QED BY ONLY <1>4, <3>1
  <2>2. CondBr(node.kind, loop, after) \in InstructionSet(Len(blocks))
    BY ONLY <1>2, <1>3, <2>1, InstructionTypes
  <2> QED BY ONLY <2>2, Tuples
<1>7. TaskOK(Task("body_end", Top.fn, Top.arg, <<after>>), Len(blocks), Len(functions))
  BY ONLY <1>2, <1>3, <1>4, OwingTasks
<1>8. QuietTask(Gen(Top.fn, node.body), Top.fn, Len(blocks), Len(functions))
  BY ONLY <1>2, <1>5, QuietTasks
<1>9. Len(owe) = 1 /\ owe[1] = after  OBVIOUS
<1> HIDE DEF owe, code
<1>10. Len(Top.owe) = Len(owe) + 1 /\ \A j \in 1..Len(owe) : owe[j] = Top.owe[j + 1]
  BY ONLY <1>2, <1>9, SMT
<1>11. Extended(Put(blocks, insert, code))  BY ONLY <1>2, <1>6, PutExtends
<1>12. Attached(blocks', loop, Top.fn)
  BY ONLY <1>1, <1>2, <1>3, <1>11, AttachAttaches
<1>13. Attached(blocks', Top.owe[1], Top.fn) /\ insert' = Top.owe[1]
  BY ONLY <1>1, <1>12
<1>14. /\ TaskOK(Task("body_end", Top.fn, Top.arg, owe), Len(blocks), Len(functions))
       /\ todo = <<Task("body_end", Top.fn, Top.arg, owe), Gen(Top.fn, node.body)>>
  BY ONLY <1>7 DEF owe
<1> HIDE DEF todo
<1>15. TodoOK(todo, owe, Top.fn, Len(blocks), Len(functions))
  BY ONLY <1>8, <1>14, OwingTodo
<1> QED BY ONLY IInv, <1>1, <1>2, <1>10, <1>13, <1>15, AttachedStep

\* The invariant survives when a loop goes back and its last block is attached.
LEMMA EndLoopStep ==
  ASSUME IInv, EndLoop
  PROVE  IInv'
<1> DEFINE next == Head(Top.owe)
<1>1. /\ status = "generating" /\ work # <<>> /\ Top.op = "loop_end"
      /\ work' = Front(work) \o <<>>
      /\ blocks' = Attach(FallThrough(Top.arg.cond), next, Top.fn) /\ insert' = next
      /\ UNCHANGED <<functions, status>>
  BY DEF EndLoop, Doing, Then
<1>2. /\ Top.op \notin {"program", "function_end"} /\ Len(Top.owe) = 1
      /\ next = Top.owe[1] /\ next \in 1..Len(blocks)
      /\ Len(blocks) \in Nat /\ Len(functions) \in Nat
      /\ blocks \in Seq(BlockSet(Len(blocks), Len(functions)))
      /\ TaskArgOK(Top, Len(blocks)) /\ Top.fn \in 0..Len(functions)
      /\ insert \in 1..Len(blocks) /\ blocks[insert].fn # 0
  BY <1>1, OwingContext DEF Owing
<1>3. Top.arg.cond \in 1..Len(blocks)  BY ONLY <1>1, <1>2 DEF TaskArgOK
<1> HIDE DEF next
<1>4. Extended(FallThrough(Top.arg.cond))  BY ONLY <1>2, <1>3, FallThroughExtends
<1>5. Attached(blocks', next, Top.fn)  BY ONLY <1>1, <1>2, <1>4, AttachAttaches
<1>6. Attached(blocks', Top.owe[1], Top.fn) /\ insert' = Top.owe[1]
  BY ONLY <1>1, <1>2, <1>5
<1>7. TodoOK(<<>>, <<>>, Top.fn, Len(blocks), Len(functions)) /\ Len(<<>>) = 0
  BY ONLY <1>2, QuietTodos, QuietTodoOK, EmptySeq
<1>8. Len(Top.owe) = Len(<<>>) + 1 /\ \A j \in 1..Len(<<>>) : <<>>[j] = Top.owe[j + 1]
  BY ONLY <1>2, <1>7, SMT
<1> QED BY ONLY IInv, <1>1, <1>2, <1>6, <1>7, <1>8, AttachedStep

\* The invariant survives when the loop over the elements goes back and the next block is attached.
LEMMA EndPrintMainStep ==
  ASSUME IInv, EndPrintMain
  PROVE  IInv'
<1> DEFINE cond  == Top.arg.cond
           last  == Top.owe[1]
           end   == Top.owe[2]
           code  == <<Act("comma"), Act("space"), Br(cond)>>
           loop  == Put(blocks, insert, code)
           owe   == <<end>>
           todo  == <<Task("print_last", Top.fn, Top.arg, <<end>>), PrintValue(Top.arg.depth - 1)>>
<1>1. /\ status = "generating" /\ work # <<>> /\ Top.op = "print_main"
      /\ blocks' = Attach(AddIncoming(loop, cond, insert), last, Top.fn)
      /\ insert' = last /\ UNCHANGED <<functions, status>>
      /\ work' = Front(work) \o todo
  BY DEF EndPrintMain, Doing, Then
<1>2. /\ Top.op \notin {"program", "function_end"} /\ Len(Top.owe) = 2
      /\ \A i \in 1..Len(Top.owe) : Top.owe[i] \in 1..Len(blocks)
      /\ Len(blocks) \in Nat /\ Len(functions) \in Nat
      /\ blocks \in Seq(BlockSet(Len(blocks), Len(functions)))
      /\ TaskArgOK(Top, Len(blocks)) /\ Top.fn \in 0..Len(functions)
      /\ insert \in 1..Len(blocks) /\ blocks[insert].fn # 0
  BY <1>1, OwingContext DEF Owing
<1>3. last \in 1..Len(blocks) /\ end \in 1..Len(blocks)  BY ONLY <1>2, SMT
<1>4. Top.arg.depth \in Nat \ {0} /\ cond \in 1..Len(blocks)
  BY ONLY <1>1, <1>2 DEF TaskArgOK
<1>5. Top.arg.depth - 1 \in Nat  BY ONLY <1>4, SMT
<1>6. code \in Seq(InstructionSet(Len(blocks)))
  <2>1. "comma" \in Tags /\ "space" \in Tags  BY TagTypes DEF VisitorTags
  <2>2. /\ Act("comma") \in InstructionSet(Len(blocks)) /\ Act("space") \in InstructionSet(Len(blocks))
        /\ Br(cond) \in InstructionSet(Len(blocks))
    BY ONLY <1>2, <1>4, <2>1, InstructionTypes
  <2> QED BY ONLY <2>2, Tuples
<1>7. TaskOK(Task("print_last", Top.fn, Top.arg, <<end>>), Len(blocks), Len(functions))
  BY ONLY <1>2, <1>3, <1>4, OwingTasks
<1>8. QuietTask(PrintValue(Top.arg.depth - 1), Top.fn, Len(blocks), Len(functions))
  BY ONLY <1>2, <1>5, QuietTasks DEF PrintValue
<1>9. Len(owe) = 1 /\ owe[1] = end  OBVIOUS
<1> HIDE DEF owe, code, loop
<1>10. Len(Top.owe) = Len(owe) + 1 /\ \A j \in 1..Len(owe) : owe[j] = Top.owe[j + 1]
  BY ONLY <1>2, <1>9, SMT
<1>11. Extended(loop)  BY ONLY <1>2, <1>6, PutExtends DEF loop
<1>12. \A c \in 1..Len(blocks) : blocks[c].fn = 0 => blocks[c].code = <<>>
  BY DEF IInv, DetachedOK, NoParent
<1>13. Extended(AddIncoming(loop, cond, insert))
  BY ONLY <1>2, <1>11, <1>12, AddIncomingExtends
<1>14. Attached(blocks', last, Top.fn)
  BY ONLY <1>1, <1>2, <1>3, <1>13, AttachAttaches
<1>15. Attached(blocks', Top.owe[1], Top.fn) /\ insert' = Top.owe[1]
  BY ONLY <1>1, <1>14
<1>16. /\ TaskOK(Task("print_last", Top.fn, Top.arg, owe), Len(blocks), Len(functions))
       /\ todo = <<Task("print_last", Top.fn, Top.arg, owe), PrintValue(Top.arg.depth - 1)>>
  BY ONLY <1>7 DEF owe
<1> HIDE DEF todo
<1>17. TodoOK(todo, owe, Top.fn, Len(blocks), Len(functions))
  BY ONLY <1>8, <1>16, OwingTodo
<1> QED BY ONLY IInv, <1>1, <1>2, <1>10, <1>15, <1>17, AttachedStep

\* The invariant survives when the last element is printed and the last block attached.
LEMMA EndPrintLastStep ==
  ASSUME IInv, EndPrintLast
  PROVE  IInv'
<1> DEFINE end  == Head(Top.owe)
           code == <<Br(end)>>
           bs   == Attach(Put(blocks, insert, code), end, Top.fn)
           more == <<Act("close")>>
           n    == Len(blocks)
           m    == Len(functions)
<1>1. /\ status = "generating" /\ work # <<>> /\ Top.op = "print_last"
      /\ work' = Front(work) \o <<>> /\ blocks' = Put(bs, end, more) /\ insert' = end
      /\ UNCHANGED <<functions, status>>
  BY DEF EndPrintLast, Doing, Then
<1>2. /\ Top.op \notin {"program", "function_end"} /\ Len(Top.owe) = 1
      /\ end = Top.owe[1] /\ end \in 1..n /\ n \in Nat /\ m \in Nat
      /\ blocks \in Seq(BlockSet(n, m)) /\ Top.fn \in 0..m
      /\ insert \in 1..n /\ blocks[insert].fn # 0
  BY <1>1, OwingContext DEF Owing
<1> HIDE DEF end
<1>3. code \in Seq(InstructionSet(n))
  <2>1. Br(end) \in InstructionSet(n)  BY ONLY <1>2, InstructionTypes
  <2> QED BY ONLY <2>1, Tuples
<1>4. more \in Seq(InstructionSet(n))
  <2>1. "close" \in Tags  BY TagTypes DEF VisitorTags
  <2>2. Act("close") \in InstructionSet(n)  BY ONLY <1>2, <2>1, InstructionTypes
  <2> QED BY ONLY <2>2, Tuples
<1> HIDE DEF code, more
<1>5. Extended(Put(blocks, insert, code))
  BY ONLY <1>2, <1>3, PutExtends DEF n, m
<1>6. Attached(bs, end, Top.fn)  BY ONLY <1>2, <1>5, AttachAttaches DEF n, m
<1> HIDE DEF bs
<1>7. /\ bs \in Seq(BlockSet(n, m)) /\ Len(bs) = n
      /\ \A c \in 1..n : c # end => /\ bs[c].fn = blocks[c].fn
                                    /\ blocks[c].fn = 0 => bs[c] = blocks[c]
      /\ bs[end].fn = Top.fn
  BY ONLY <1>6 DEF Attached, n, m
<1>8. /\ blocks' \in Seq(BlockSet(n, m)) /\ Len(blocks') = Len(bs)
      /\ \A c \in 1..Len(bs) : /\ blocks'[c].fn = bs[c].fn
                               /\ c # end => blocks'[c] = bs[c]
  <2> DEFINE r == blocks'
  <2>1. r = Put(bs, end, more)  BY <1>1
  <2> HIDE DEF r, n, m
  <2>2. n \in Nat /\ m \in Nat /\ bs \in Seq(BlockSet(n, m))  BY <1>2, <1>7
  <2>3. /\ r \in Seq(BlockSet(n, m)) /\ Len(r) = Len(bs)
        /\ \A c \in 1..Len(bs) : /\ r[c].fn = bs[c].fn
                                 /\ c # end => r[c] = bs[c]
    BY ONLY <1>4, <2>1, <2>2, PutType
  <2> QED BY ONLY <2>3 DEF r
<1>9. /\ Len(blocks') = n
      /\ \A c \in 1..n : c # end => /\ blocks'[c].fn = blocks[c].fn
                                    /\ blocks[c].fn = 0 => blocks'[c] = blocks[c]
      /\ blocks'[end].fn = Top.fn
  BY ONLY <1>2, <1>7, <1>8
<1>10. Attached(blocks', end, Top.fn)  BY ONLY <1>8, <1>9 DEF Attached, n, m
<1>11. Attached(blocks', Top.owe[1], Top.fn) /\ insert' = Top.owe[1]
  BY ONLY <1>1, <1>2, <1>10
<1>12. TodoOK(<<>>, <<>>, Top.fn, Len(blocks), Len(functions)) /\ Len(<<>>) = 0
  BY ONLY <1>2, QuietTodos, QuietTodoOK, EmptySeq
<1>13. Len(Top.owe) = Len(<<>>) + 1 /\ \A j \in 1..Len(<<>>) : <<>>[j] = Top.owe[j + 1]
  BY ONLY <1>2, <1>12, SMT
<1> QED BY ONLY IInv, <1>1, <1>2, <1>11, <1>12, <1>13, AttachedStep

\* The invariant survives when the body of a loop ends.
LEMMA EndBodyStep ==
  ASSUME IInv, EndBody
  PROVE  IInv'
<1> DEFINE n    == Len(blocks)
           m    == Len(functions)
           owe  == Top.owe
           more == Top.arg.node.kind = "for" /\ ~IsPreviousInstructionBlockTerminator
           step == Eval(Top.fn, Top.arg.node.step)
           todo == IF more THEN <<LoopEnd, step>> ELSE <<LoopEnd>>
<1>1. /\ status = "generating" /\ work # <<>> /\ Top.op = "body_end"
      /\ UNCHANGED <<blocks, functions, insert, status>>
      /\ work' = Front(work) \o (<<LoopEnd>> \o IF more THEN <<step>> ELSE <<>>)
  BY DEF EndBody, Doing, Then
<1>2. work' = Front(work) \o todo
  <2> DEFINE end == LoopEnd
  <2>1. <<end>> \o <<step>> = <<end, step>> /\ <<end>> \o <<>> = <<end>>
    <3> HIDE DEF end, step
    <3> QED BY ONLY JoinTuples
  <2> QED BY ONLY <1>1, <2>1
<1>3. /\ Top.op \notin {"program", "function_end"} /\ Len(owe) = 1 /\ owe \in Seq(1..n)
      /\ n \in Nat /\ m \in Nat /\ blocks \in Seq(BlockSet(n, m)) /\ TaskArgOK(Top, n)
      /\ Top.fn \in 0..m /\ insert \in 1..n /\ blocks[insert].fn = Top.fn
  BY <1>1, OwingContext DEF Owing
<1>4. /\ Top.arg.node \in Statement /\ Top.arg.node.kind \in {"while", "for"}
      /\ Top.arg.cond \in 1..n
  BY ONLY <1>1, <1>3 DEF TaskArgOK
<1>5. /\ TaskOK(LoopEnd, n, m) /\ LoopEnd.op \notin {"program", "function_end"}
      /\ LoopEnd.fn = Top.fn /\ LoopEnd.owe = owe
  BY ONLY <1>3, <1>4, SMT DEF LoopEnd, Task, TaskOK, TaskArgOK, KindsOfTask, Owing
<1>6. TodoOK(todo, owe, Top.fn, n, m)
  <2>1. CASE more
    <3>1. Top.arg.node.step \in Code  BY ONLY <1>4, <2>1, StatementAssumption
    <3>2. QuietTask(step, Top.fn, n, m)  BY ONLY <1>3, <3>1, QuietTasks
    <3> HIDE DEF step, owe, n, m
    <3>3. TodoOK(<<LoopEnd, step>>, owe, Top.fn, n, m)
      BY ONLY <1>5, <3>2, OwingTodos
    <3> QED BY ONLY <2>1, <3>3
  <2>2. CASE ~more
    <3> HIDE DEF step, owe, n, m
    <3>1. TodoOK(<<LoopEnd>>, owe, Top.fn, n, m)  BY ONLY <1>5, OwingTodos
    <3> QED BY ONLY <2>2, <3>1
  <2> QED BY <2>1, <2>2
<1> HIDE DEF todo, more
<1>7. PaysWhatIsOwed(blocks, blocks, Owed(Len(work)), owe)
  <2> DEFINE L == Len(work)
  <2>1. L \in Nat /\ L >= 2 /\ Top = work[L]  BY <1>1, <1>3, Context
  <2>2. L \in 1..L  BY ONLY <2>1, SMT
  <2>3. /\ \A i \in 1..Len(owe) : blocks[owe[i]].fn = 0
        /\ \A i, j \in 1..Len(owe) : owe[i] = owe[j] => i = j
    <3>1. OwedOK  BY DEF IInv
    <3> QED BY ONLY <2>1, <2>2, <3>1 DEF OwedOK, NoParent, L
  <2>4. \A b : b \in Owed(L) <=> \E i \in 1..Len(owe) : owe[i] = b
    BY ONLY <2>1 DEF Owed
  <2>5. \A b \in 1..n : blocks[b].fn = 0 => blocks[b].code = <<>>
    BY DEF IInv, DetachedOK, NoParent
  <2> HIDE DEF owe, L, n
  <2>6. \A b \in 1..n : ~(b > n)  BY ONLY <1>3, SMT
  <2>7. PaysWhatIsOwed(blocks, blocks, Owed(L), owe)
    BY ONLY <2>3, <2>4, <2>5, <2>6 DEF PaysWhatIsOwed, NoParent, n
  <2> QED BY <2>7 DEF L
<1>8. KeepsParents(blocks, blocks)  BY <1>3 DEF KeepsParents
<1>9. blocks' = blocks /\ functions' = functions /\ status' = status /\ insert' = insert
  BY <1>1
<1>10. PaysWhatIsOwed(blocks, blocks', Owed(Len(work)), owe) /\ KeepsParents(blocks, blocks')
  BY ONLY <1>7, <1>8, <1>9
<1>11. /\ TodoOK(todo, owe, Top.fn, Len(blocks'), Len(functions))
       /\ blocks' \in Seq(BlockSet(Len(blocks'), Len(functions)))
       /\ insert' \in 1..Len(blocks') /\ blocks'[insert'].fn = Top.fn
  BY ONLY <1>3, <1>6, <1>9 DEF n, m
<1> QED BY ONLY IInv, <1>1, <1>2, <1>3, <1>9, <1>10, <1>11, OrdinaryStep

\* The invariant survives when the visitor enters a while-statement.
LEMMA GenerateWhileStep ==
  ASSUME IInv, GenerateWhile
  PROVE  IInv'
<1>1. /\ status = "generating" /\ work # <<>> /\ Top.op = "gen"
      /\ Top.arg.kind = "while" /\ EnterLoop(Top.arg)
  BY DEF GenerateWhile, Visit, Doing
<1> QED BY <1>1, EnterLoopStep

\* The invariant survives when a for-statement is initialized and enters its loop.
LEMMA ForInitializedStep ==
  ASSUME IInv, ForInitialized
  PROVE  IInv'
<1>1. /\ status = "generating" /\ work # <<>> /\ Top.op = "for_init"
      /\ EnterLoop(Top.arg)
  BY DEF ForInitialized, Doing
<1>2. TaskArgOK(Top, Len(blocks))  BY <1>1, Context
<1>3. Top.arg.kind = "for"  BY ONLY <1>1, <1>2 DEF TaskArgOK
<1> QED BY <1>1, <1>3, EnterLoopStep

-----------------------------------------------------------------------------
(* Functions: the stack grows by a function, or loses one.                 *)

\* A function's code is complete, or the program's.
LEMMA PopStep ==
  ASSUME IInv, work # <<>>, Len(Top.owe) = 0, work' = Front(work) \o <<>>,
         Extended(blocks'), functions' = functions, insert' \in 0..Len(blocks),
         status' \in {"generating", "done", "invalid"}, InsertOK'
  PROVE  IInv'
<1> DEFINE n == Len(blocks)
           m == Len(functions)
           L == Len(work)
<1>1. /\ TypeOK /\ CallStackOK /\ OwedOK /\ DetachedOK /\ EntriesOK
      /\ Len(work[L].owe) = 0
  BY DEF IInv, Top, Last
<1>2. /\ n \in Nat /\ m \in Nat /\ functions \in Seq(FunctionSet(n))
      /\ work \in Seq(Range(work))
      /\ \A k \in 1..L : TaskOK(work[k], n, m)
  BY <1>1 DEF TypeOK
<1>3. /\ L \in Nat \ {0} /\ Len(work') = L - 1 /\ work' \in Seq(Range(work'))
      /\ \A k \in 1..(L - 1) : work'[k] = work[k]
  <2> DEFINE S == Range(work)
  <2>1. work \in Seq(S)  BY <1>2
  <2>2. <<>> \in Seq({}) /\ Len(<<>>) = 0  BY EmptySeq
  <2> HIDE DEF S
  <2>3. Replaced(work, work', <<>>)
    BY ONLY <2>1, <2>2, work # <<>>, work' = Front(work) \o <<>>, Replace
  <2>4. /\ L \in Nat \ {0} /\ Len(work') = L - 1 + 0 /\ work' \in Seq(Range(work'))
        /\ \A k \in 1..(L - 1) : work'[k] = work[k]
    BY ONLY <2>2, <2>3 DEF Replaced
  <2> QED BY ONLY <2>4, SMT
<1>4. \A k \in 1..Len(work') : k \in 1..(L - 1) /\ k \in 1..L /\ k # L /\ work'[k] = work[k]
  BY ONLY <1>3, SMT
<1>5. /\ blocks' \in Seq(BlockSet(n, m)) /\ Len(blocks') = n
      /\ \A c \in 1..n : blocks'[c].fn = blocks[c].fn
      /\ \A c \in 1..n : blocks[c].fn = 0 => blocks'[c] = blocks[c]
  BY DEF Extended
<1> HIDE DEF n, m, L
<1>6. TypeOK'
  <2>1. \A k \in 1..Len(work') : TaskOK(work'[k], n, m)  BY ONLY <1>2, <1>4
  <2> QED BY <1>2, <1>3, <1>5, <2>1 DEF TypeOK, n, m
<1>7. CallStackOK'
  <2>1. \A k \in 1..Len(work') : work'[k].op = "program" <=> k = 1
    BY ONLY <1>1, <1>4 DEF CallStackOK, L
  <2>2. ASSUME NEW k \in 2..Len(work')
        PROVE  /\ work'[k].fn # 0
               /\ work'[k].op # "function_end" => work'[k - 1].fn = work'[k].fn
    <3>1. k \in 2..L /\ k \in 1..Len(work') /\ k - 1 \in 1..Len(work')
      BY ONLY <1>3, k \in 2..Len(work'), SMT
    <3>2. work[k].fn # 0 /\ (work[k].op # "function_end" => work[k - 1].fn = work[k].fn)
      BY ONLY <1>1, <3>1 DEF CallStackOK, L
    <3> QED BY ONLY <1>4, <3>1, <3>2
  <2>3. ASSUME NEW k \in 3..Len(work'), work'[k].op = "function_end"
        PROVE  /\ work'[k].arg.kind # "main" /\ work'[k].arg.saved \in 1..Len(blocks')
               /\ blocks'[work'[k].arg.saved].fn = work'[k - 1].fn
    <3>1. k \in 3..L /\ k \in 1..Len(work') /\ k - 1 \in 1..Len(work')
      BY ONLY <1>3, k \in 3..Len(work'), SMT
    <3>2. work'[k] = work[k] /\ work'[k - 1] = work[k - 1]  BY ONLY <1>4, <3>1
    <3>3. /\ work[k].arg.kind # "main" /\ work[k].arg.saved \in 1..n
          /\ blocks[work[k].arg.saved].fn = work[k - 1].fn
      BY ONLY <1>1, <2>3, <3>1, <3>2 DEF CallStackOK, L, n
    <3> QED BY ONLY <1>5, <3>2, <3>3
  <2> QED BY ONLY <2>1, <2>2, <2>3 DEF CallStackOK
<1>8. OwedOK'
  <2>1. ASSUME NEW k \in 1..Len(work'), NEW i \in 1..Len(work'[k].owe)
        PROVE  blocks'[work'[k].owe[i]].fn = 0
    <3>1. k \in 1..L /\ work'[k] = work[k] /\ i \in 1..Len(work[k].owe)  BY <1>4
    <3>2. work[k].owe[i] \in 1..n
      <4>1. work[k].owe \in Seq(1..n)  BY ONLY <1>2, <3>1 DEF TaskOK
      <4> QED BY ONLY <3>1, <4>1, ElementOf
    <3>3. blocks[work[k].owe[i]].fn = 0
      BY ONLY <1>1, <3>1 DEF OwedOK, NoParent, L
    <3> QED BY ONLY <1>5, <3>1, <3>2, <3>3
  <2>2. ASSUME NEW k \in 1..Len(work'), NEW l \in 1..Len(work'),
               NEW i \in 1..Len(work'[k].owe), NEW j \in 1..Len(work'[l].owe),
               work'[k].owe[i] = work'[l].owe[j]
        PROVE  k = l /\ i = j
    <3>1. k \in 1..L /\ l \in 1..L /\ work'[k] = work[k] /\ work'[l] = work[l]
      BY ONLY <1>4, k \in 1..Len(work'), l \in 1..Len(work')
    <3> QED BY ONLY <1>1, <2>2, <3>1, i \in 1..Len(work'[k].owe), j \in 1..Len(work'[l].owe)
               DEF OwedOK, L
  <2> QED BY ONLY <2>1, <2>2 DEF OwedOK, NoParent
<1>9. DetachedOK'
  <2> SUFFICES ASSUME NEW b \in 1..Len(blocks'), blocks'[b].fn = 0
               PROVE  /\ blocks'[b].code = <<>>
                      /\ \E k \in 1..Len(work') : \E i \in 1..Len(work'[k].owe) :
                           work'[k].owe[i] = b
    BY DEF DetachedOK, NoParent
  <2>1. b \in 1..n /\ blocks[b].fn = 0 /\ blocks'[b] = blocks[b]  BY <1>5
  <2>2. /\ blocks[b].code = <<>>
        /\ \E k \in 1..L : \E i \in 1..Len(work[k].owe) : work[k].owe[i] = b
    BY ONLY <1>1, <2>1 DEF DetachedOK, NoParent, n, L
  <2>3. PICK k \in 1..L : \E i \in 1..Len(work[k].owe) : work[k].owe[i] = b
    BY ONLY <2>2
  <2>4. k # L  BY ONLY <1>1, <2>3, SMT
  <2>5. k \in 1..Len(work') /\ work'[k] = work[k]
    <3>1. k \in 1..Len(work')  BY ONLY <1>3, <2>4, k \in 1..L, SMT
    <3> QED BY ONLY <1>4, <3>1
  <2> QED BY ONLY <2>1, <2>2, <2>3, <2>5
<1>10. EntriesOK'
  <2>1. \A f \in 1..Len(functions) : functions[f] \in FunctionSet(n)
    BY ONLY <1>2
  <2>2. \A f \in 1..Len(functions) : functions[f].entry \in 1..n
    BY ONLY <2>1 DEF FunctionSet
  <2> QED BY ONLY <1>1, <1>5, <2>2, functions' = functions DEF EntriesOK
<1> QED BY <1>6, <1>7, <1>8, <1>9, <1>10 DEF IInv

\* The verification of a function fails: the stack stays as it is.
LEMMA InvalidStep ==
  ASSUME IInv, work' = work, Extended(blocks'), functions' = functions, insert' = insert,
         status' = "invalid"
  PROVE  IInv'
<1> DEFINE n == Len(blocks)
           m == Len(functions)
<1>1. TypeOK /\ CallStackOK /\ OwedOK /\ DetachedOK /\ EntriesOK  BY DEF IInv
<1>2. /\ n \in Nat /\ m \in Nat /\ functions \in Seq(FunctionSet(n))
      /\ work \in Seq(Range(work))
      /\ \A k \in 1..Len(work) : TaskOK(work[k], n, m)
      /\ insert \in 0..n
  BY <1>1 DEF TypeOK
<1>3. /\ blocks' \in Seq(BlockSet(n, m)) /\ Len(blocks') = n
      /\ \A c \in 1..n : blocks'[c].fn = blocks[c].fn
      /\ \A c \in 1..n : blocks[c].fn = 0 => blocks'[c] = blocks[c]
  BY DEF Extended
<1> HIDE DEF n, m
<1>4. TypeOK'  BY <1>2, <1>3 DEF TypeOK, n, m
<1>5. CallStackOK'  BY ONLY <1>1, <1>3, work' = work DEF CallStackOK, n
<1>6. InsertOK'  BY DEF InsertOK
<1>7. OwedOK'
  <2>1. ASSUME NEW k \in 1..Len(work), NEW i \in 1..Len(work[k].owe)
        PROVE  blocks'[work[k].owe[i]].fn = 0
    <3>1. work[k].owe[i] \in 1..n
      <4>1. work[k].owe \in Seq(1..n)
        BY ONLY <1>2, k \in 1..Len(work) DEF TaskOK
      <4> QED BY ONLY <4>1, i \in 1..Len(work[k].owe), ElementOf
    <3>2. blocks[work[k].owe[i]].fn = 0
      BY ONLY <1>1, k \in 1..Len(work), i \in 1..Len(work[k].owe) DEF OwedOK, NoParent
    <3> QED BY ONLY <1>3, <3>1, <3>2
  <2> QED BY ONLY <1>1, <2>1, work' = work DEF OwedOK, NoParent
<1>8. DetachedOK'  BY ONLY <1>1, <1>3, work' = work DEF DetachedOK, NoParent, n
<1>9. EntriesOK'
  <2>1. \A f \in 1..Len(functions) : functions[f] \in FunctionSet(n)
    BY ONLY <1>2
  <2>2. \A f \in 1..Len(functions) : functions[f].entry \in 1..n
    BY ONLY <2>1 DEF FunctionSet
  <2> QED BY ONLY <1>1, <1>3, <2>2, functions' = functions DEF EntriesOK
<1> QED BY <1>4, <1>5, <1>6, <1>7, <1>8, <1>9 DEF IInv

\* The invariant survives when a function ends and gives the insert block back.
LEMMA EndFunctionStep ==
  ASSUME IInv, EndFunction
  PROVE  IInv'
<1> DEFINE n    == Len(blocks)
           L    == Len(work)
           kind == Top.arg.kind
           done == IF IsPreviousInstructionBlockTerminator THEN blocks
                   ELSE Put(blocks, insert, Epilogue(kind))
<1>1. /\ status = "generating" /\ work # <<>> /\ Top.op = "function_end"
      /\ blocks' = done /\ functions' = functions
      /\ \/ /\ insert' = IF kind = "main" THEN insert ELSE Top.arg.saved
            /\ work' = Front(work) \o <<>> /\ status' = status
         \/ /\ status' = "invalid"
            /\ insert' = insert /\ work' = work
  BY DEF EndFunction, Doing, Then
<1>2. /\ n \in Nat /\ Len(functions) \in Nat
      /\ blocks \in Seq(BlockSet(n, Len(functions)))
      /\ L \in Nat /\ L >= 2 /\ Top = work[L]
      /\ TaskOK(Top, n, Len(functions)) /\ TaskArgOK(Top, n)
      /\ insert \in 1..n /\ blocks[insert].fn # 0
  BY <1>1, Context
<1>3. Len(Top.owe) = 0  BY ONLY <1>1, <1>2 DEF TaskOK, Owing
<1>4. Extended(blocks')
  <2>1. Extended(blocks)  BY ONLY <1>2 DEF Extended
  <2>2. Epilogue(kind) \in Seq(InstructionSet(n))
    <3>1. MissingReturn \in Tags  BY TagTypes DEF VisitorTags
    <3>2. Ret \in InstructionSet(n)  BY ONLY <1>2, InstructionTypes
    <3>3. <<Ret>> \in Seq(InstructionSet(n))  BY ONLY <3>2, Tuples
    <3>4. RuntimeError(MissingReturn) \in Seq(InstructionSet(n))
      BY ONLY <1>2, <3>1, InstructionTypes
    <3> QED BY ONLY <3>3, <3>4 DEF Epilogue
  <2> DEFINE code == Epilogue(kind)
  <2> HIDE DEF code
  <2>3. code \in Seq(InstructionSet(n))  BY <2>2 DEF code
  <2>4. Extended(Put(blocks, insert, code))  BY ONLY <1>2, <2>3, PutExtends
  <2> QED BY ONLY <1>1, <2>1, <2>4 DEF code
<1> HIDE DEF done
<1>5. CASE /\ insert' = IF kind = "main" THEN insert ELSE Top.arg.saved
           /\ work' = Front(work) \o <<>> /\ status' = status
  <2>1. insert \in 0..n /\ insert' \in 0..n
    <3>1. Top.arg.saved \in 0..n  BY ONLY <1>1, <1>2 DEF TaskArgOK
    <3>2. insert \in 0..n  BY ONLY <1>2, SMT
    <3> QED BY ONLY <1>5, <3>1, <3>2
  <2>2. InsertOK'
    <3>1. Len(work') = L - 1 /\ \A k \in 1..(L - 1) : work'[k] = work[k]
      <4> DEFINE S == Range(work)
                 w == work'
      <4>1. work \in Seq(S)  BY DEF IInv, TypeOK
      <4>2. <<>> \in Seq({}) /\ Len(<<>>) = 0  BY EmptySeq
      <4>3. w = Front(work) \o <<>>  BY <1>5
      <4> HIDE DEF S, w
      <4>4. Replaced(work, w, <<>>)  BY ONLY <1>1, <4>1, <4>2, <4>3, Replace
      <4>5. /\ L \in Nat \ {0} /\ Len(w) = L - 1 + 0
            /\ \A k \in 1..(L - 1) : w[k] = work[k]
        BY ONLY <4>2, <4>4 DEF Replaced
      <4>6. Len(w) = L - 1  BY ONLY <4>5, SMT
      <4> QED BY ONLY <4>5, <4>6 DEF w
    <3> SUFFICES ASSUME Len(work') > 1
                 PROVE  insert' \in 1..Len(blocks') /\ blocks'[insert'].fn = work'[Len(work')].fn
      BY DEF InsertOK
    <3>2. L \in 3..L /\ L - 1 \in 1..(L - 1)
      BY ONLY <1>2, <3>1, Len(work') > 1, SMT
    <3>3. /\ work[L].arg.kind # "main" /\ work[L].arg.saved \in 1..n
          /\ blocks[work[L].arg.saved].fn = work[L - 1].fn
      <4>1. CallStackOK  BY DEF IInv
      <4> QED BY ONLY <1>1, <1>2, <3>2, <4>1 DEF CallStackOK
    <3>4. insert' = work[L].arg.saved  BY ONLY <1>2, <1>5, <3>3
    <3>5. Len(blocks') = n /\ \A c \in 1..n : blocks'[c].fn = blocks[c].fn
      BY ONLY <1>4 DEF Extended
    <3> QED BY ONLY <3>1, <3>2, <3>3, <3>4, <3>5
  <2>3. status' \in {"generating", "done", "invalid"}  BY <1>1, <1>5
  <2> QED BY ONLY IInv, <1>1, <1>3, <1>4, <1>5, <2>1, <2>2, <2>3, PopStep
<1>6. CASE status' = "invalid" /\ insert' = insert /\ work' = work
  BY ONLY IInv, <1>1, <1>4, <1>6, InvalidStep
<1> QED BY ONLY <1>1, <1>5, <1>6

\* The invariant survives when the module is verified.
LEMMA EndProgramStep ==
  ASSUME IInv, EndProgram
  PROVE  IInv'
<1>1. /\ work # <<>> /\ Top.op = "program" /\ work' = Front(work) \o <<>>
      /\ status' \in {"done", "invalid"} /\ UNCHANGED <<blocks, functions, insert>>
  BY DEF EndProgram, Doing, Then
<1>2. /\ Len(blocks) \in Nat /\ Len(work) \in Nat \ {0}
      /\ blocks \in Seq(BlockSet(Len(blocks), Len(functions)))
      /\ insert \in 0..Len(blocks) /\ TaskOK(Top, Len(blocks), Len(functions))
  <2>1. TypeOK  BY DEF IInv
  <2>2. Len(work) \in Nat \ {0}  BY <1>1, <2>1, EmptySeq DEF TypeOK
  <2>3. Len(work) \in 1..Len(work)  BY ONLY <2>2, SMT
  <2> QED BY <2>1, <2>2, <2>3 DEF TypeOK, Top, Last
<1>3. Len(Top.owe) = 0  BY ONLY <1>1, <1>2 DEF TaskOK, Owing
<1>4. Extended(blocks')  BY ONLY <1>1, <1>2 DEF Extended
<1>5. InsertOK'  BY <1>1 DEF InsertOK
<1> QED BY <1>1, <1>2, <1>3, <1>4, <1>5, PopStep

\* The prologue of a function: its task r goes on below the new function.
LEMMA EnterFunctionStep ==
  ASSUME IInv, status = "generating", work # <<>>, Top.op # "function_end", Len(Top.owe) = 0,
         NEW kind \in {"main", "void", "nonvoid"}, NEW body \in Statement,
         Top.op = "program" \/ kind # "main",
         NEW r, TaskOK(r, Len(blocks), Len(functions)),
         r.op # "function_end", r.op = "program" <=> Top.op = "program",
         Top.op # "program" => r.fn = Top.fn, Len(r.owe) = 0,
         EnterFunction(kind, body),
         work' = Front(work) \o (<<r>> \o FunctionTasks(kind, body))
  PROVE  IInv'
<1> DEFINE n == Len(blocks)
           m == Len(functions)
           L == Len(work)
           E == EmptyBlock(m + 1)
           F == [kind |-> kind, body |-> body, entry |-> n + 1]
           e == Task("function_end", m + 1, [kind |-> kind, saved |-> insert], <<>>)
           g == Gen(m + 1, body)
           W == work'
           bs == blocks'
           fs == functions'
<1>1. /\ bs = Append(blocks, E) /\ fs = Append(functions, F) /\ insert' = n + 1
      /\ status' = "generating" /\ FunctionTasks(kind, body) = <<e, g>>
  BY DEF EnterFunction, FunctionTasks, New
<1>2. TypeOK /\ CallStackOK /\ OwedOK /\ DetachedOK /\ EntriesOK  BY DEF IInv
<1>3. /\ blocks \in Seq(BlockSet(n, m)) /\ functions \in Seq(FunctionSet(n))
      /\ n \in Nat /\ m \in Nat /\ insert \in 0..n /\ work \in Seq(Range(work))
      /\ \A k \in 1..L : TaskOK(work[k], n, m)
      /\ Top = work[L] /\ TaskOK(r, n, m)
  BY <1>2 DEF TypeOK, Top, Last
<1>4. /\ n + 1 \in Nat /\ m + 1 \in Nat /\ n <= n + 1 /\ m <= m + 1
      /\ n + 1 \in 1..(n + 1) /\ m + 1 \in 0..(m + 1) /\ m + 1 # 0
      /\ insert \in 0..(n + 1)
  BY ONLY <1>3, SMT
<1>5. E \in BlockSet(n + 1, m + 1) /\ E.fn = m + 1  BY ONLY <1>4, BlockTypes
<1>6. F \in FunctionSet(n + 1) /\ F.entry = n + 1
  BY ONLY <1>4, kind \in {"main", "void", "nonvoid"}, body \in Statement DEF FunctionSet
<1>7. /\ TaskOK(e, n + 1, m + 1) /\ e.op = "function_end" /\ e.fn = m + 1 /\ Len(e.owe) = 0
      /\ e.arg.kind = kind /\ e.arg.saved = insert
  <2>1. <<>> \in Seq(1..(n + 1)) /\ Len(<<>>) = 0  BY EmptySeq
  <2> QED BY ONLY <1>4, <2>1, kind \in {"main", "void", "nonvoid"}, SMT
             DEF Task, TaskOK, TaskArgOK, KindsOfTask, Owing
<1>8. TaskOK(g, n + 1, m + 1) /\ g.op = "gen" /\ g.fn = m + 1 /\ Len(g.owe) = 0
  <2>1. QuietTask(g, m + 1, n + 1, m + 1)
    BY ONLY <1>4, body \in Statement, QuietTasks
  <2> QED BY ONLY <2>1 DEF QuietTask, Gen, Task
<1>9. TaskOK(r, n + 1, m + 1)  BY ONLY <1>3, <1>4, TasksGrow
<1> HIDE DEF E, F, e, g
<1>10. /\ bs \in Seq(BlockSet(n + 1, m + 1)) /\ Len(bs) = n + 1
       /\ \A c \in 1..n : bs[c] = blocks[c]
       /\ bs[n + 1].fn = m + 1
  <2> DEFINE S == BlockSet(n + 1, m + 1)
  <2>1. blocks \in Seq(S)  BY ONLY <1>3, <1>4, BlockSetsGrow
  <2>2. E \in S  BY <1>5
  <2> HIDE DEF S, bs
  <2>3. bs \in Seq(S) /\ Len(bs) = n + 1 /\ (\A c \in 1..n : bs[c] = blocks[c]) /\ bs[n + 1] = E
    BY ONLY <1>1, <2>1, <2>2, AppendProperties
  <2> QED BY ONLY <1>5, <2>3 DEF S
<1>11. /\ fs \in Seq(FunctionSet(n + 1)) /\ Len(fs) = m + 1
       /\ \A f \in 1..m : fs[f] = functions[f]
       /\ fs[m + 1].entry = n + 1
  <2> DEFINE S == FunctionSet(n + 1)
  <2>1. functions \in Seq(S)  BY ONLY <1>3, <1>4, BlockSetsGrow
  <2>2. F \in S  BY <1>6
  <2> HIDE DEF S, fs
  <2>3. fs \in Seq(S) /\ Len(fs) = m + 1 /\ (\A f \in 1..m : fs[f] = functions[f]) /\ fs[m + 1] = F
    BY ONLY <1>1, <2>1, <2>2, AppendProperties
  <2> QED BY ONLY <1>6, <2>3 DEF S
<1>12. /\ L \in Nat \ {0} /\ Len(W) = L + 2 /\ W \in Seq(Range(W))
       /\ \A k \in 1..(L - 1) : W[k] = work[k]
       /\ W[L] = r /\ W[L + 1] = e /\ W[L + 2] = g
  <2> DEFINE S    == Range(work)
             todo == <<r>> \o <<e, g>>
  <2>1. work \in Seq(S)  BY <1>3
  <2>2. /\ todo \in Seq({r, e, g}) /\ Len(todo) = 3
        /\ todo[1] = r /\ todo[2] = e /\ todo[3] = g
    OBVIOUS
  <2>3. W = Front(work) \o todo  BY <1>1
  <2> HIDE DEF S, W, todo
  <2>4. Replaced(work, W, todo)  BY ONLY <2>1, <2>2, <2>3, work # <<>>, Replace
  <2>5. /\ L \in Nat \ {0} /\ Len(W) = L - 1 + 3 /\ W \in Seq(Range(W))
        /\ \A k \in 1..(L - 1) : W[k] = work[k]
        /\ \A i \in 1..3 : W[L - 1 + i] = todo[i]
    BY ONLY <2>2, <2>4 DEF Replaced
  <2>6. /\ 1 \in 1..3 /\ 2 \in 1..3 /\ 3 \in 1..3 /\ Len(W) = L + 2
        /\ L - 1 + 1 = L /\ L - 1 + 2 = L + 1 /\ L - 1 + 3 = L + 2
    BY ONLY <2>5, SMT
  <2> QED BY ONLY <2>2, <2>5, <2>6
<1>13. \A k \in 1..Len(W) : \/ k \in 1..(L - 1) /\ k \in 1..L /\ k # L /\ W[k] = work[k]
                            \/ k = L /\ W[k] = r
                            \/ k = L + 1 /\ W[k] = e
                            \/ k = L + 2 /\ W[k] = g
  BY ONLY <1>12, SMT
<1>14. /\ \A k \in 1..L : work[k].op = "program" <=> k = 1
       /\ \A k \in 2..L : /\ work[k].fn # 0
                          /\ work[k].op # "function_end" => work[k - 1].fn = work[k].fn
       /\ \A k \in 3..L : work[k].op = "function_end" =>
            /\ work[k].arg.kind # "main" /\ work[k].arg.saved \in 1..n
            /\ blocks[work[k].arg.saved].fn = work[k - 1].fn
  BY ONLY <1>2 DEF CallStackOK
<1>15. L \in 1..L /\ (L = 1 <=> Top.op = "program")
  <2>1. L \in 1..L  BY ONLY <1>12, SMT
  <2>2. work[L].op = "program" <=> L = 1  BY ONLY <1>14, <2>1
  <2>3. Top = work[L]  BY ONLY <1>3
  <2> QED BY ONLY <2>1, <2>2, <2>3
<1>16. L # 1 => insert \in 1..n /\ blocks[insert].fn = Top.fn
  BY ONLY <1>15, IInv, status = "generating", work # <<>>, Context
<1> HIDE DEF W, bs, fs, n, m, L
<1>17. TypeOK'
  <2>1. ASSUME NEW k \in 1..Len(W) PROVE TaskOK(W[k], n + 1, m + 1)
    <3>1. CASE k \in 1..L /\ W[k] = work[k]  BY ONLY <1>3, <1>4, <3>1, TasksGrow
    <3>2. CASE W[k] = r \/ W[k] = e \/ W[k] = g  BY ONLY <1>7, <1>8, <1>9, <3>2
    <3> QED BY ONLY <1>13, <3>1, <3>2, k \in 1..Len(W)
  <2>2. insert' \in 0..(n + 1)  BY ONLY <1>1, <1>4, SMT
  <2>3. W = work' /\ bs = blocks' /\ fs = functions'  BY DEF W, bs, fs
  <2> QED BY ONLY <1>1, <1>10, <1>11, <1>12, <2>1, <2>2, <2>3 DEF TypeOK
<1>18. CallStackOK'
  <2>1. ASSUME NEW k \in 1..Len(W) PROVE W[k].op = "program" <=> k = 1
    <3>1. CASE k \in 1..L /\ W[k] = work[k]  BY ONLY <1>14, <3>1
    <3>2. CASE k = L /\ W[k] = r
      BY ONLY <1>15, <3>2, r.op = "program" <=> Top.op = "program"
    <3>3. CASE k = L + 1 /\ W[k] = e  BY ONLY <1>7, <1>12, <3>3, SMT
    <3>4. CASE k = L + 2 /\ W[k] = g  BY ONLY <1>8, <1>12, <3>4, SMT
    <3> QED BY ONLY <1>13, <3>1, <3>2, <3>3, <3>4, k \in 1..Len(W)
  <2>2. ASSUME NEW k \in 2..Len(W)
        PROVE  /\ W[k].fn # 0
               /\ W[k].op # "function_end" => W[k - 1].fn = W[k].fn
    <3>1. k \in 1..Len(W) /\ k - 1 \in 1..Len(W)
      BY ONLY <1>12, k \in 2..Len(W), SMT
    <3>2. CASE k \in 1..(L - 1) /\ W[k] = work[k]
      <4>1. k \in 2..L /\ k - 1 \in 1..(L - 1)
        BY ONLY <1>12, <3>2, k \in 2..Len(W), SMT
      <4> QED BY ONLY <1>12, <1>14, <3>2, <4>1
    <3>3. CASE k = L /\ W[k] = r
      <4>1. L \in 2..L /\ L - 1 \in 1..(L - 1) /\ L # 1
        BY ONLY <1>12, <3>3, k \in 2..Len(W), SMT
      <4>2. r.fn = work[L].fn /\ work[L].op # "function_end"
        BY <1>3, <1>15, <4>1
      <4> QED BY ONLY <1>12, <1>14, <3>3, <4>1, <4>2
    <3>4. CASE k = L + 1 /\ W[k] = e  BY ONLY <1>4, <1>7, <3>4
    <3>5. CASE k = L + 2 /\ W[k] = g
      <4>1. k - 1 = L + 1  BY ONLY <1>12, <3>5, SMT
      <4> QED BY ONLY <1>4, <1>7, <1>8, <1>12, <3>5, <4>1
    <3> QED BY ONLY <1>13, <3>1, <3>2, <3>3, <3>4, <3>5
  <2>3. ASSUME NEW k \in 3..Len(W), W[k].op = "function_end"
        PROVE  /\ W[k].arg.kind # "main" /\ W[k].arg.saved \in 1..(n + 1)
               /\ bs[W[k].arg.saved].fn = W[k - 1].fn
    <3>1. k \in 1..Len(W)  BY ONLY <1>12, k \in 3..Len(W), SMT
    <3>2. CASE k \in 1..(L - 1) /\ W[k] = work[k]
      <4>1. k \in 3..L /\ k - 1 \in 1..(L - 1)
        BY ONLY <1>12, <3>2, k \in 3..Len(W), SMT
      <4>2. /\ work[k].arg.kind # "main" /\ work[k].arg.saved \in 1..n
            /\ blocks[work[k].arg.saved].fn = work[k - 1].fn
        BY ONLY <1>14, <2>3, <3>2, <4>1
      <4>3. work[k].arg.saved \in 1..(n + 1)  BY ONLY <1>3, <4>2, SMT
      <4> QED BY ONLY <1>10, <1>12, <3>2, <4>1, <4>2, <4>3
    <3>3. CASE k = L /\ W[k] = r  BY ONLY <2>3, <3>3, r.op # "function_end"
    <3>4. CASE k = L + 1 /\ W[k] = e
      <4>1. L # 1 /\ k - 1 = L  BY ONLY <1>12, <3>4, k \in 3..Len(W), SMT
      <4>2. kind # "main"
        BY ONLY <1>15, <4>1, Top.op = "program" \/ kind # "main"
      <4>3. insert \in 1..n /\ insert \in 1..(n + 1) /\ blocks[insert].fn = Top.fn
        BY ONLY <1>3, <1>16, <4>1, SMT
      <4> QED
        BY ONLY <1>7, <1>10, <1>12, <3>4, <4>1, <1>15, <4>2, <4>3, Top.op # "program" => r.fn = Top.fn
    <3>5. CASE k = L + 2 /\ W[k] = g  BY ONLY <1>8, <2>3, <3>5
    <3> QED BY ONLY <1>13, <3>1, <3>2, <3>3, <3>4, <3>5
  <2>4. W = work' /\ bs = blocks'  BY DEF W, bs
  <2> QED BY ONLY <1>10, <2>1, <2>2, <2>3, <2>4 DEF CallStackOK
<1>19. InsertOK'
  <2>1. W = work' /\ bs = blocks'  BY DEF W, bs
  <2> QED BY ONLY <1>1, <1>4, <1>8, <1>10, <1>12, <2>1 DEF InsertOK
<1>20. \A k \in 1..Len(W) : Len(W[k].owe) = 0 \/ (k \in 1..L /\ k # L /\ W[k] = work[k])
  BY ONLY <1>7, <1>8, <1>13, Len(r.owe) = 0
<1>21. OwedOK'
  <2>1. ASSUME NEW k \in 1..Len(W), NEW i \in 1..Len(W[k].owe)
        PROVE  bs[W[k].owe[i]].fn = 0
    <3>1. Len(W[k].owe) # 0  BY ONLY i \in 1..Len(W[k].owe), SMT
    <3>2. k \in 1..L /\ W[k] = work[k]  BY ONLY <1>20, <3>1, k \in 1..Len(W)
    <3>3. work[k].owe[i] \in 1..n
      <4>1. work[k].owe \in Seq(1..n)  BY ONLY <1>3, <3>2 DEF TaskOK
      <4> QED BY ONLY <3>2, <4>1, i \in 1..Len(W[k].owe), ElementOf
    <3>4. blocks[work[k].owe[i]].fn = 0
      BY ONLY <1>2, <3>2, i \in 1..Len(W[k].owe) DEF OwedOK, NoParent, L
    <3> QED BY ONLY <1>10, <3>2, <3>3, <3>4
  <2>2. ASSUME NEW k \in 1..Len(W), NEW l \in 1..Len(W),
               NEW i \in 1..Len(W[k].owe), NEW j \in 1..Len(W[l].owe),
               W[k].owe[i] = W[l].owe[j]
        PROVE  k = l /\ i = j
    <3>1. Len(W[k].owe) # 0 /\ Len(W[l].owe) # 0
      BY ONLY i \in 1..Len(W[k].owe), j \in 1..Len(W[l].owe), SMT
    <3>2. k \in 1..L /\ W[k] = work[k] /\ l \in 1..L /\ W[l] = work[l]
      BY ONLY <1>20, <3>1, k \in 1..Len(W), l \in 1..Len(W)
    <3> QED BY ONLY <1>2, <2>2, <3>2, i \in 1..Len(W[k].owe), j \in 1..Len(W[l].owe) DEF OwedOK, L
  <2>3. W = work' /\ bs = blocks'  BY DEF W, bs
  <2> QED BY ONLY <2>1, <2>2, <2>3 DEF OwedOK, NoParent
<1>22. DetachedOK'
  <2>1. ASSUME NEW b \in 1..Len(bs), bs[b].fn = 0
        PROVE  /\ bs[b].code = <<>>
               /\ \E k \in 1..Len(W) : \E i \in 1..Len(W[k].owe) : W[k].owe[i] = b
    <3>1. b # n + 1  BY ONLY <1>4, <1>10, <2>1
    <3>2. b \in 1..n  BY ONLY <1>3, <1>10, <3>1, b \in 1..Len(bs), SMT
    <3>3. /\ blocks[b].code = <<>>
          /\ \E k \in 1..L : \E i \in 1..Len(work[k].owe) : work[k].owe[i] = b
      BY ONLY <1>2, <1>10, <2>1, <3>2 DEF DetachedOK, NoParent, n, L
    <3>4. PICK k \in 1..L : \E i \in 1..Len(work[k].owe) : work[k].owe[i] = b
      BY ONLY <3>3
    <3>5. k # L
      <4>1. Len(work[L].owe) = 0  BY <1>3
      <4> QED BY ONLY <3>4, <4>1, SMT
    <3>6. k \in 1..(L - 1) /\ k \in 1..Len(W)
      BY ONLY <1>12, <3>5, k \in 1..L, SMT
    <3> QED BY ONLY <1>10, <1>12, <3>2, <3>3, <3>4, <3>6
  <2>2. W = work' /\ bs = blocks'  BY DEF W, bs
  <2> QED BY ONLY <2>1, <2>2 DEF DetachedOK, NoParent
<1>23. EntriesOK'
  <2>1. ASSUME NEW f \in 1..Len(fs) PROVE bs[fs[f].entry].fn = f
    <3>1. CASE f \in 1..m
      <4>1. functions[f] \in FunctionSet(n)  BY ONLY <1>3, <3>1 DEF m
      <4>2. functions[f].entry \in 1..n  BY ONLY <4>1 DEF FunctionSet
      <4>3. blocks[functions[f].entry].fn = f
        BY ONLY <1>2, <3>1 DEF EntriesOK, m
      <4> QED BY ONLY <1>10, <1>11, <3>1, <4>2, <4>3
    <3>2. CASE f = m + 1  BY ONLY <1>10, <1>11, <3>2
    <3> QED BY ONLY <1>3, <1>11, <3>1, <3>2, f \in 1..Len(fs), SMT
  <2>2. fs = functions' /\ bs = blocks'  BY DEF fs, bs
  <2> QED BY ONLY <2>1, <2>2 DEF EntriesOK
<1> QED BY ONLY <1>17, <1>18, <1>19, <1>21, <1>22, <1>23 DEF IInv

\* The invariant survives when the visitor enters a function of the program.
LEMMA GenerateProgramStep ==
  ASSUME IInv, GenerateProgram
  PROVE  IInv'
<1> DEFINE def  == Top.arg.defs[Top.arg.next]
           r    == ProgramLoop(Top.arg.defs, Top.arg.next + 1)
           kind == def.kind
           body == def.body
<1>1. /\ status = "generating" /\ work # <<>> /\ Top.op = "program"
      /\ Top.arg.next <= Len(Top.arg.defs) /\ EnterFunction(kind, body)
      /\ work' = Front(work) \o (<<r>> \o FunctionTasks(kind, body))
  BY Zenon DEF GenerateProgram, Doing, Then
<1>2. /\ Len(blocks) \in Nat /\ Len(functions) \in Nat
      /\ TaskOK(Top, Len(blocks), Len(functions))
      /\ Top = work[Len(work)] /\ Len(work) \in Nat \ {0}
  <2>1. TypeOK  BY DEF IInv
  <2>2. Len(work) \in Nat \ {0}  BY <1>1, <2>1, EmptySeq, Zenon DEF TypeOK
  <2>3. Len(work) \in 1..Len(work)  BY ONLY <2>2, SMT
  <2> QED BY <2>1, <2>2, <2>3 DEF TypeOK, Top, Last
<1>3. Len(Top.owe) = 0 /\ TaskArgOK(Top, Len(blocks))
  BY ONLY <1>1, <1>2, Zenon DEF TaskOK, Owing
<1>4. Top.arg.defs \in Program /\ Top.arg.next \in Nat \ {0}
  BY ONLY <1>1, <1>3, Zenon DEF TaskArgOK
<1>5. Top.arg.defs \in Seq([kind : {"main", "void", "nonvoid"}, body : Statement])
  BY ONLY <1>4, ProgramAssumption
<1>6. kind \in {"main", "void", "nonvoid"} /\ body \in Statement
  <2> DEFINE S == [kind : {"main", "void", "nonvoid"}, body : Statement]
  <2>1. Top.arg.defs \in Seq(S)  BY <1>5
  <2> HIDE DEF S
  <2> DEFINE i    == Top.arg.next
             defs == Top.arg.defs
  <2>2. i \in Nat \ {0} /\ i <= Len(defs) /\ defs \in Seq(S)
    BY ONLY <1>1, <1>4, <2>1, Zenon
  <2> HIDE DEF i, defs
  <2>3. Len(defs) \in Nat  BY ONLY <2>2
  <2>4. i \in 1..Len(defs)  BY ONLY <2>2, <2>3, SMT
  <2>5. def \in S  BY ONLY <2>2, <2>4, ElementOf DEF i, defs
  <2> HIDE DEF def
  <2> QED BY ONLY <2>5 DEF S
<1> HIDE DEF def
<1>7. TaskOK(r, Len(blocks), Len(functions)) /\ r.op = "program" /\ Len(r.owe) = 0
  <2>1. <<>> \in Seq(1..Len(blocks)) /\ Len(<<>>) = 0  BY EmptySeq
  <2>2. Top.arg.next + 1 \in Nat \ {0} /\ 0 \in 0..Len(functions)
    BY ONLY <1>2, <1>4, SMT
  <2> QED BY ONLY <1>4, <2>1, <2>2, SMT
             DEF ProgramLoop, Task, TaskOK, TaskArgOK, KindsOfTask, Owing
<1> HIDE DEF r
<1> QED BY ONLY IInv, <1>1, <1>3, <1>6, <1>7, EnterFunctionStep

\* The invariant survives when the visitor enters a lambda in an expression.
LEMMA GenerateLambdaStep ==
  ASSUME IInv, GenerateLambda
  PROVE  IInv'
<1> DEFINE lambda == Head(Top.arg)
           kind   == IF lambda.void THEN "void" ELSE "nonvoid"
           body   == lambda.body
           r      == Eval(Top.fn, Tail(Top.arg))
<1>1. /\ status = "generating" /\ work # <<>> /\ Top.op = "eval"
      /\ Top.arg # <<>> /\ lambda.op = "lambda" /\ EnterFunction(kind, body)
      /\ work' = Front(work) \o (<<r>> \o FunctionTasks(kind, body))
  BY DEF GenerateLambda, Expecting, Doing, Then, RestOfExpression
<1>2. Len(Top.owe) = 0  BY <1>1, QuietContext
<1>3. /\ Len(blocks) \in Nat /\ Len(functions) \in Nat /\ Top.fn \in 0..Len(functions)
      /\ TaskArgOK(Top, Len(blocks))
  BY <1>1, Context
<1>4. /\ lambda \in Effect /\ QuietTask(r, Top.fn, Len(blocks), Len(functions))
  BY <1>1, <1>3, RestIsQuiet
<1>5. body \in Statement  BY ONLY <1>1, <1>4, EffectAssumption
<1>6. kind \in {"main", "void", "nonvoid"} /\ kind # "main"  OBVIOUS
<1>7. /\ TaskOK(r, Len(blocks), Len(functions))
      /\ r.op # "function_end" /\ r.op # "program" /\ r.fn = Top.fn /\ Len(r.owe) = 0
  BY ONLY <1>4 DEF QuietTask
<1> HIDE DEF kind, r, lambda
<1>8. /\ Top.op # "function_end" /\ Top.op # "program"
      /\ r.op = "program" <=> Top.op = "program"
  BY ONLY <1>1, <1>7
<1> QED BY ONLY IInv, <1>1, <1>2, <1>5, <1>6, <1>7, <1>8, EnterFunctionStep

-----------------------------------------------------------------------------
(* The invariant is inductive.                                             *)

\* The invariant holds before anything is generated.
LEMMA InitIInv == Init => IInv
<1> SUFFICES ASSUME Init PROVE IInv
  OBVIOUS
<1>1. /\ blocks = <<>> /\ functions = <<>> /\ insert = 0 /\ status = "generating"
  BY DEF Init, NoBlock
<1>2. PICK defs \in Program : work = <<ProgramLoop(defs, 1)>>  BY DEF Init
<1> DEFINE t == ProgramLoop(defs, 1)
<1>3. Len(<<>>) = 0  BY EmptySeq
<1>4. t.op = "program" /\ Len(t.owe) = 0 /\ TaskOK(t, 0, 0)
  <2>1. <<>> \in Seq(1..0)  BY EmptySeq
  <2> QED BY ONLY <1>3, <2>1, defs \in Program, SMT
             DEF ProgramLoop, Task, TaskOK, TaskArgOK, KindsOfTask, Owing
<1> HIDE DEF t
<1>5. Len(work) = 1 /\ work[1] = t /\ work \in Seq(Range(work))
  <2>1. work = <<t>>  BY <1>2 DEF t
  <2>2. work \in Seq({t}) /\ Len(work) = 1 /\ work[1] = t  BY ONLY <2>1
  <2> QED BY ONLY <2>2, SeqOfItsRange
<1>6. \A k \in 1..Len(work) : k = 1 /\ work[k] = t  BY ONLY <1>5, SMT
<1>7. TypeOK
  <2>1. <<>> \in Seq(BlockSet(0, 0)) /\ <<>> \in Seq(FunctionSet(0))  BY EmptySeq
  <2>2. 0 \in 0..0  OBVIOUS
  <2> QED BY ONLY <1>1, <1>3, <1>4, <1>5, <1>6, <2>1, <2>2 DEF TypeOK
<1>8. CallStackOK
  <2>1. \A k \in 2..Len(work) : FALSE  BY ONLY <1>5, SMT
  <2>2. \A k \in 3..Len(work) : FALSE  BY ONLY <1>5, SMT
  <2> QED BY ONLY <1>4, <1>6, <2>1, <2>2 DEF CallStackOK
<1>9. InsertOK  BY ONLY <1>5, SMT DEF InsertOK
<1>10. OwedOK
  <2>1. \A k \in 1..Len(work) : \A i \in 1..Len(work[k].owe) : FALSE
    BY ONLY <1>4, <1>6, SMT
  <2> QED BY ONLY <2>1 DEF OwedOK
<1>11. DetachedOK /\ EntriesOK
  <2>1. \A b \in 1..0 : FALSE  BY SMT
  <2> QED BY ONLY <1>1, <1>3, <2>1 DEF DetachedOK, EntriesOK
<1> QED BY <1>7, <1>8, <1>9, <1>10, <1>11 DEF IInv

\* The invariant survives a step that changes nothing.
LEMMA StutterIInv ==
  ASSUME IInv, UNCHANGED vars
  PROVE  IInv'
<1>1. blocks' = blocks /\ functions' = functions /\ insert' = insert /\ work' = work
      /\ status' = status
  BY DEF vars
<1>2. TypeOK' /\ CallStackOK' /\ InsertOK'
  BY <1>1 DEF IInv, TypeOK, CallStackOK, InsertOK
<1>3. OwedOK /\ DetachedOK /\ EntriesOK  BY DEF IInv
<1>4. OwedOK'  BY ONLY <1>1, <1>3 DEF OwedOK
<1>5. DetachedOK'  BY ONLY <1>1, <1>3 DEF DetachedOK
<1>6. EntriesOK'  BY ONLY <1>1, <1>3 DEF EntriesOK
<1> QED BY <1>2, <1>4, <1>5, <1>6 DEF IInv

\* The invariant survives every step: it is inductive.
LEMMA NextIInv == IInv /\ [Next]_vars => IInv'
<1> SUFFICES ASSUME IInv, [Next]_vars PROVE IInv'
  OBVIOUS
<1>1. CASE GenerateProgram \/ EndProgram \/ EndFunction
  BY <1>1, GenerateProgramStep, EndProgramStep, EndFunctionStep
<1>2. CASE SkipDeadStatement \/ GenerateLeaf \/ EndExpression \/ EndDeclaration
  BY <1>2, SkipDeadStatementStep, GenerateLeafStep, EndExpressionStep, EndDeclarationStep
<1>3. CASE EndDealloc \/ EndReturn \/ GenerateCodeBlock \/ GenerateBlockChild
  BY <1>3, EndDeallocStep, EndReturnStep, GenerateCodeBlockStep, GenerateBlockChildStep
<1>4. CASE GenerateIf \/ IfCondition \/ EndThen \/ EndElse
  BY <1>4, GenerateIfStep, IfConditionStep, EndThenStep, EndElseStep
<1>5. CASE GenerateWhile \/ GenerateFor \/ ForInitialized \/ LoopCondition
  BY <1>5, GenerateWhileStep, GenerateForStep, ForInitializedStep, LoopConditionStep
<1>6. CASE EndBody \/ EndLoop \/ EndExpressionCode \/ GenerateAct
  BY <1>6, EndBodyStep, EndLoopStep, EndExpressionCodeStep, GenerateActStep
<1>7. CASE GenerateCheck \/ GenerateGCD \/ GenerateLambda \/ GeneratePrint
  BY <1>7, GenerateCheckStep, GenerateGCDStep, GenerateLambdaStep, GeneratePrintStep
<1>8. CASE PrintOperand \/ PrintBaseTypeValue \/ PrintArray \/ EndPrintMain \/ EndPrintLast
  BY <1>8, PrintOperandStep, PrintBaseTypeValueStep, PrintArrayStep, EndPrintMainStep,
     EndPrintLastStep
<1>9. CASE Finished \/ UNCHANGED vars  BY <1>9, StutterIInv DEF Finished
<1> QED BY <1>1, <1>2, <1>3, <1>4, <1>5, <1>6, <1>7, <1>8, <1>9 DEF Next, Generate

\* The inductive invariant holds throughout the generation of any program.
THEOREM Invariance == Spec => []IInv
BY InitIInv, NextIInv, PTL DEF Spec

-----------------------------------------------------------------------------
(* The properties that follow from it.                                     *)

\* Blocks, branches, tasks and functions are well-formed, and name only blocks
\* and functions that exist, for all programs.
THEOREM TypeCorrect == Spec => []TypeOK
<1>1. IInv => TypeOK  BY DEF IInv
<1> QED BY <1>1, Invariance, PTL

\* Every method adds code to the function it was called for, whatever lambdas
\* its operands contain, for all programs.
THEOREM InsertsCorrectly == Spec => []InsertsIntoItsFunction
<1>1. IInv => InsertsIntoItsFunction
  <2> SUFFICES ASSUME IInv, status = "generating", work # <<>>, Top.op # "program"
               PROVE  blocks[insert].fn = Top.fn
    BY DEF InsertsIntoItsFunction
  <2> QED BY Context
<1> QED BY <1>1, Invariance, PTL

\* No block is lost and none is attached twice, for all programs.
THEOREM NoBlockIsLost == Spec => []DetachedBlocksAreOwed
<1>1. IInv => DetachedBlocksAreOwed
  <2> SUFFICES ASSUME IInv PROVE DetachedBlocksAreOwed
    OBVIOUS
  <2>1. OwedOK /\ DetachedOK /\ TypeOK  BY DEF IInv
  <2>2. \A k \in 1..Len(work) : \A b :
          b \in Owed(k) <=> \E i \in 1..Len(work[k].owe) : work[k].owe[i] = b
    BY DEF Owed
  <2>3. \A k \in 1..Len(work) : \A i \in 1..Len(work[k].owe) : work[k].owe[i] \in 1..Len(blocks)
    <3>1. \A k \in 1..Len(work) : work[k].owe \in Seq(1..Len(blocks))
      BY ONLY <2>1 DEF TypeOK, TaskOK
    <3> QED BY ONLY <3>1, ElementOf
  <2>4. {b \in 1..Len(blocks) : blocks[b].fn = NoParent} = UNION {Owed(k) : k \in 1..Len(work)}
    <3>1. \A b \in 1..Len(blocks) : blocks[b].fn = NoParent =>
            \E k \in 1..Len(work) : b \in Owed(k)
      BY ONLY <2>1, <2>2 DEF DetachedOK
    <3>2. \A k \in 1..Len(work) : \A b \in Owed(k) :
            b \in 1..Len(blocks) /\ blocks[b].fn = NoParent
      BY ONLY <2>1, <2>2, <2>3 DEF OwedOK
    <3> QED BY ONLY <3>1, <3>2
  <2>5. \A k, l \in 1..Len(work) : k # l => Owed(k) \cap Owed(l) = {}
    <3>1. ASSUME NEW k \in 1..Len(work), NEW l \in 1..Len(work), k # l,
                 NEW b, b \in Owed(k), b \in Owed(l)
          PROVE  FALSE
      <4>1. PICK i \in 1..Len(work[k].owe) : work[k].owe[i] = b  BY <2>2, <3>1
      <4>2. PICK j \in 1..Len(work[l].owe) : work[l].owe[j] = b  BY <2>2, <3>1
      <4> QED BY ONLY <2>1, <3>1, <4>1, <4>2 DEF OwedOK
    <3> QED BY ONLY <3>1
  <2>6. \A b \in 1..Len(blocks) : blocks[b].fn = NoParent => blocks[b].code = <<>>
    BY ONLY <2>1 DEF DetachedOK
  <2> QED BY ONLY <2>4, <2>5, <2>6 DEF DetachedBlocksAreOwed
<1> QED BY <1>1, Invariance, PTL

-----------------------------------------------------------------------------
(* Verification: the code of a block.                                      *)

\* The elements of a concatenation.
LEMMA Joined ==
  ASSUME NEW S, NEW s \in Seq(S), NEW t \in Seq(S), NEW z, z = s \o t
  PROVE  /\ z \in Seq(S) /\ Len(z) = Len(s) + Len(t)
         /\ \A i \in 1..(Len(s) + Len(t)) : /\ i <= Len(s) => z[i] = s[i]
                                            /\ ~(i <= Len(s)) => z[i] = t[i - Len(s)]
  BY ConcatProperties

\* Blocks with the same code have the same control flow.
LEMMA SameCode ==
  ASSUME NEW x, NEW y, NEW S, y.code \in Seq(S), x.code = y.code
  PROVE  Keeps(x, y) /\ (Plain(x) <=> Plain(y)) /\ (PrintLoopHead(x) <=> PrintLoopHead(y))
<1>1. SameEnd(x, y)  BY x.code = y.code DEF SameEnd, HasTerminator, Targets
<1>2. EndsOnce(x) => EndsOnce(y)  BY x.code = y.code DEF EndsOnce
<1>3. SamePhis(x, y)  BY x.code = y.code DEF SamePhis
<1> QED BY <1>1, <1>2, <1>3, x.code = y.code DEF Keeps, Plain, PrintLoopHead, HasTerminator

\* PHI nodes do not come from nowhere.
LEMMA PlainStays ==
  ASSUME NEW x, NEW y, SamePhis(x, y), Plain(x)
  PROVE  Plain(y)
<1> SUFFICES ASSUME NEW i \in 1..Len(y.code), y.code[i].op = "phi"
             PROVE  FALSE
  BY DEF Plain
<1>1. i \in 1..Len(x.code) /\ \A j \in 1..i : y.code[j] = x.code[j]
  BY DEF SamePhis
<1>2. i \in 1..i  BY <1>1, SMT
<1> QED BY <1>1, <1>2 DEF Plain

\* A block is open when it has no terminator at all.
LEMMA OpenBlock ==
  ASSUME NEW S, NEW x, x.code \in Seq(S), EndsOnce(x)
  PROVE  /\ ~HasTerminator(x) => \A i \in 1..Len(x.code) : x.code[i].op \notin TerminatorOps
         /\ (\A i \in 1..Len(x.code) : x.code[i].op \notin TerminatorOps) => ~HasTerminator(x)
         /\ ~HasTerminator(x) => Targets(x) = {}
<1>1. Len(x.code) \in Nat /\ (x.code # <<>> => Len(x.code) \in 1..Len(x.code))
  BY EmptySeq, SMT
<1>2. ASSUME ~HasTerminator(x), NEW i \in 1..Len(x.code)
      PROVE  x.code[i].op \notin TerminatorOps
  <2>1. CASE i = Len(x.code)
    <3>1. x.code # <<>>  BY EmptySeq, SMT
    <3> QED BY <1>2, <2>1, <3>1 DEF HasTerminator, Last
  <2>2. CASE i # Len(x.code)
    <3>1. i \in 1..(Len(x.code) - 1)  BY <1>1, <2>2, SMT
    <3> QED BY <3>1 DEF EndsOnce
  <2> QED BY <2>1, <2>2
<1>3. (\A i \in 1..Len(x.code) : x.code[i].op \notin TerminatorOps) => ~HasTerminator(x)
  BY <1>1 DEF HasTerminator, Last
<1>4. ~HasTerminator(x) => Targets(x) = {}  BY DEF Targets
<1> QED BY <1>2, <1>3, <1>4

\* The control flow of an open block to which code is appended.
LEMMA AppendCode ==
  ASSUME NEW S, NEW x, NEW y, x.code \in Seq(S), NEW code \in Seq(S), y.code = x.code \o code,
         EndsOnce(x), ~HasTerminator(x)
  PROVE  /\ Straight(code) => Keeps(x, y) /\ EndsOnce(y) /\ ~HasTerminator(y)
         /\ Branching(code) =>
              /\ SamePhis(x, y) /\ EndsOnce(y) /\ HasTerminator(y)
              /\ Targets(y) = {code[Len(code)].to[i] : i \in 1..Len(code[Len(code)].to)}
<1> DEFINE p == Len(x.code)
           q == Len(code)
<1>1. p \in Nat /\ q \in Nat  OBVIOUS
<1>2. /\ y.code \in Seq(S) /\ Len(y.code) = p + q
      /\ \A i \in 1..(p + q) : /\ i <= p => y.code[i] = x.code[i]
                               /\ ~(i <= p) => y.code[i] = code[i - p]
  BY y.code = x.code \o code, Joined
<1>3. /\ \A i \in 1..p : x.code[i].op \notin TerminatorOps
      /\ Targets(x) = {}
  BY OpenBlock
<1> HIDE DEF p, q
<1>4. \A i \in 1..Len(y.code) : \/ i \in 1..p /\ y.code[i] = x.code[i]
                                \/ i - p \in 1..q /\ i = p + (i - p) /\ y.code[i] = code[i - p]
  BY ONLY <1>1, <1>2, SMT
<1>5. (\A i \in 1..q : code[i].op # "phi") => SamePhis(x, y)
  <2> SUFFICES ASSUME \A i \in 1..q : code[i].op # "phi",
                      NEW i \in 1..Len(y.code), y.code[i].op = "phi"
               PROVE  i \in 1..p /\ \A j \in 1..i : y.code[j] = x.code[j]
    BY DEF SamePhis, p
  <2>1. i \in 1..p  BY <1>4
  <2>2. \A j \in 1..i : j \in 1..(p + q) /\ j <= p  BY ONLY <1>1, <2>1, SMT
  <2> QED BY ONLY <1>2, <2>1, <2>2
<1>6. ASSUME Straight(code)
      PROVE  Keeps(x, y) /\ EndsOnce(y) /\ ~HasTerminator(y)
  <2>1. \A i \in 1..Len(y.code) : y.code[i].op \notin TerminatorOps
    BY <1>3, <1>4, <1>6 DEF Straight, q
  <2>2. EndsOnce(y)
    <3>1. \A i \in 1..(Len(y.code) - 1) : i \in 1..Len(y.code)
      BY ONLY <1>1, <1>2, SMT
    <3> QED BY <2>1, <3>1 DEF EndsOnce
  <2>3. ~HasTerminator(y) /\ Targets(y) = {}  BY <1>2, <2>1, <2>2, OpenBlock
  <2>4. SamePhis(x, y)  BY <1>5, <1>6 DEF Straight, q
  <2> QED BY <1>3, <2>2, <2>3, <2>4 DEF Keeps, SameEnd
<1>7. ASSUME Branching(code)
      PROVE  /\ SamePhis(x, y) /\ EndsOnce(y) /\ HasTerminator(y)
             /\ Targets(y) = {code[q].to[i] : i \in 1..Len(code[q].to)}
  <2>1. q > 0  BY <1>7, EmptySeq DEF Branching, q
  <2>2. y.code # <<>> /\ y.code[p + q] = code[q]
    <3>1. p + q \in 1..(p + q) /\ ~(p + q <= p) /\ (p + q) - p = q /\ p + q > 0
      BY ONLY <1>1, <2>1, SMT
    <3>2. y.code[p + q] = code[q]  BY ONLY <1>2, <3>1
    <3> QED BY <1>2, <3>1, <3>2, EmptySeq
  <2>3. Last(y.code) = code[q]  BY <1>2, <2>2 DEF Last
  <2>4. HasTerminator(y)  BY <1>7, <2>2, <2>3 DEF HasTerminator, Branching, q
  <2>5. Targets(y) = {code[q].to[i] : i \in 1..Len(code[q].to)}
    BY <2>3, <2>4 DEF Targets
  <2>6. EndsOnce(y)
    <3>1. ASSUME NEW i \in 1..(Len(y.code) - 1)
          PROVE  y.code[i].op \notin TerminatorOps
      <4>1. i \in 1..Len(y.code) /\ (i - p \in 1..q => i - p \in 1..(q - 1))
        BY ONLY <1>1, <1>2, i \in 1..(Len(y.code) - 1), SMT
      <4> QED BY <1>3, <1>4, <1>7, <4>1 DEF Branching, q
    <3> QED BY <3>1 DEF EndsOnce
  <2>7. SamePhis(x, y)  BY <1>5, <1>7 DEF Branching, q
  <2> QED BY <2>4, <2>5, <2>6, <2>7
<1> QED BY <1>6, <1>7 DEF q

\* An alloca in front of the code of an entry block changes no control flow.
LEMMA PrependCode ==
  ASSUME NEW S, NEW x, NEW y, x.code \in Seq(S), NEW a \in S, y.code = <<a>> \o x.code,
         a.op = "alloca", Plain(x)
  PROVE  Keeps(x, y) /\ Plain(y)
<1> DEFINE p == Len(x.code)
<1>1. p \in Nat  OBVIOUS
<1>2. <<a>> \in Seq(S) /\ Len(<<a>>) = 1 /\ <<a>>[1] = a  OBVIOUS
<1>3. /\ y.code \in Seq(S) /\ Len(y.code) = 1 + p
      /\ \A i \in 1..(1 + p) : /\ i <= 1 => y.code[i] = <<a>>[i]
                               /\ ~(i <= 1) => y.code[i] = x.code[i - 1]
  <2>1. \A s : s = <<a>> =>
          /\ y.code \in Seq(S) /\ Len(y.code) = Len(s) + Len(x.code)
          /\ \A i \in 1..(Len(s) + Len(x.code)) : /\ i <= Len(s) => y.code[i] = s[i]
                                                  /\ ~(i <= Len(s)) => y.code[i] = x.code[i - Len(s)]
    <3> TAKE s
    <3> HAVE s = <<a>>
    <3>1. s \in Seq(S) /\ y.code = s \o x.code  BY y.code = <<a>> \o x.code
    <3> QED BY <3>1, Joined
  <2> QED BY <1>2, <2>1
<1> HIDE DEF p
<1>4. \A i \in 1..Len(y.code) : \/ i = 1 /\ y.code[i] = a
                                \/ i > 1 /\ i - 1 \in 1..p /\ y.code[i] = x.code[i - 1]
  BY ONLY <1>1, <1>2, <1>3, SMT
<1>5. a.op \notin TerminatorOps  BY DEF TerminatorOps
<1>6. y.code # <<>> /\ Last(y.code) = y.code[1 + p] /\ 1 + p \in 1..Len(y.code)
  <2>1. 1 + p \in 1..Len(y.code) /\ Len(y.code) # 0  BY ONLY <1>1, <1>3, SMT
  <2> QED BY <1>3, <2>1, EmptySeq DEF Last
<1>7. Plain(y)  BY <1>4 DEF Plain, p
<1>8. SamePhis(x, y)  BY <1>7 DEF SamePhis, Plain
<1>9. EndsOnce(x) => EndsOnce(y)
  <2> SUFFICES ASSUME EndsOnce(x), NEW i \in 1..(Len(y.code) - 1)
               PROVE  y.code[i].op \notin TerminatorOps
    BY DEF EndsOnce
  <2>1. i \in 1..Len(y.code) /\ (i > 1 => i - 1 \in 1..(p - 1))
    BY ONLY <1>1, <1>3, i \in 1..(Len(y.code) - 1), SMT
  <2> QED BY <1>4, <1>5, <2>1 DEF EndsOnce, p
<1>10. SameEnd(x, y)
  <2>1. CASE x.code = <<>>
    <3>1. p = 0  BY <2>1, EmptySeq DEF p
    <3>2. 1 \in 1..Len(y.code) /\ ~(1 > 1) /\ 1 + p = 1  BY ONLY <1>3, <3>1, SMT
    <3>3. Last(y.code) = a  BY ONLY <1>4, <1>6, <3>2
    <3> QED BY <1>5, <2>1, <3>3 DEF SameEnd, HasTerminator, Targets
  <2>2. CASE x.code # <<>>
    <3>1. p # 0  BY <2>2, EmptySeq DEF p
    <3>2. 1 + p # 1 /\ (1 + p) - 1 = p  BY ONLY <1>1, <3>1, SMT
    <3>3. Last(y.code) = x.code[p]  BY ONLY <1>4, <1>6, <3>2
    <3>4. Last(y.code) = Last(x.code)  BY <3>3 DEF Last, p
    <3> QED BY <1>6, <2>2, <3>4 DEF SameEnd, HasTerminator, Targets
  <2> QED BY <2>1, <2>2
<1> QED BY <1>7, <1>8, <1>9, <1>10 DEF Keeps

-----------------------------------------------------------------------------
(* PHI nodes.                                                              *)

\* Blocks may be added, and open blocks continued, as long as no PHI node
\* misses the new edges.  Those of block x, if there is one, are extended.
LEMMA FlowStep ==
  ASSUME NEW bs, NEW bs2, Len(bs) \in Nat, Len(bs2) \in Nat, Len(bs) <= Len(bs2), FlowOK(bs),
         NEW x,
         \A c \in 1..Len(bs) : KeepsFlow(bs, bs2, c, x),
         \A c \in 1..Len(bs2) : c > Len(bs) =>
           EndsOnce(bs2[c]) /\ PhisMatch(bs2, c) /\ LeadsToPlain(bs, bs2, c, x)
  PROVE  FlowOK(bs2)
<1>1. ASSUME NEW b \in 1..Len(bs), b # x PROVE EndsOnce(bs2[b]) /\ PhisMatch(bs2, b)
  <2>1. b \in 1..Len(bs2)  BY SMT
  <2>2. EndsOnce(bs[b]) /\ PhisMatch(bs, b)  BY DEF FlowOK
  <2>3. EndsOnce(bs2[b]) /\ SamePhis(bs[b], bs2[b])  BY <1>1, <2>2 DEF Keeps, KeepsFlow
  <2>4. ASSUME NEW i \in 1..Len(bs2[b].code), bs2[b].code[i].op = "phi"
        PROVE  /\ \A j \in 1..i : bs2[b].code[j].op = "phi"
               /\ IsInjective(bs2[b].code[i].to)
               /\ Range(bs2[b].code[i].to) = Predecessors(bs2, b)
    <3>1. /\ i \in 1..Len(bs[b].code)
          /\ \A j \in 1..i : bs2[b].code[j] = bs[b].code[j]
      BY <2>3, <2>4 DEF SamePhis
    <3>2. i \in 1..i  BY <3>1, SMT
    <3>3. bs2[b].code[i] = bs[b].code[i]  BY <3>1, <3>2
    <3>4. ~Plain(bs[b])  BY <2>4, <3>1, <3>3 DEF Plain
    <3>5. /\ \A j \in 1..i : bs[b].code[j].op = "phi"
          /\ IsInjective(bs[b].code[i].to)
          /\ Range(bs[b].code[i].to) = Predecessors(bs, b)
      BY <2>2, <2>4, <3>1, <3>3 DEF PhisMatch
    <3>6. Predecessors(bs2, b) = Predecessors(bs, b)
      <4>1. ASSUME NEW c \in 1..Len(bs2)
            PROVE  b \in Targets(bs2[c]) <=> c \in 1..Len(bs) /\ b \in Targets(bs[c])
        <5>1. CASE c > Len(bs)
          <6>1. LeadsToPlain(bs, bs2, c, x) /\ ~(c \in 1..Len(bs))  BY <5>1, SMT
          <6> QED BY <1>1, <3>4, <6>1 DEF LeadsToPlain
        <5>2. CASE c \in 1..Len(bs)
          <6>1. CASE SameEnd(bs[c], bs2[c])  BY <5>2, <6>1 DEF SameEnd
          <6>2. CASE Targets(bs[c]) = {} /\ LeadsToPlain(bs, bs2, c, x)
            BY <1>1, <3>4, <6>2 DEF LeadsToPlain
          <6> QED BY <5>2, <6>1, <6>2 DEF Keeps, KeepsFlow
        <5> QED BY <5>1, <5>2, SMT
      <4>2. \A c \in 1..Len(bs) : c \in 1..Len(bs2)  BY SMT
      <4> QED BY <4>1, <4>2 DEF Predecessors
    <3> QED BY <3>1, <3>3, <3>5, <3>6
  <2> QED BY <2>3, <2>4 DEF PhisMatch
<1>2. ASSUME NEW b \in 1..Len(bs2) PROVE EndsOnce(bs2[b]) /\ PhisMatch(bs2, b)
  <2>1. b \in 1..Len(bs) \/ b > Len(bs)  BY SMT
  <2> QED BY <1>1, <2>1 DEF KeepsFlow
<1> QED BY <1>2 DEF FlowOK

-----------------------------------------------------------------------------
(* What an ordinary step does to the control flow: a method goes on with   *)
(* todo.  It continues the insert block if that is open, adds blocks, and  *)
(* attaches at most the block it moves to.                                 *)

\* Where things are, before and after an ordinary step.
LEMMA OrdinaryContext ==
  ASSUME NEW todo, Ordinary(todo)
  PROVE  /\ Len(blocks) \in Nat /\ Len(blocks') \in Nat /\ Len(functions) \in Nat
         /\ Len(work) \in Nat /\ Len(work) >= 3 /\ Top = work[Len(work)]
         /\ Len(todo) \in Nat /\ Len(work') = Len(work) - 1 + Len(todo)
         /\ \A k \in 1..(Len(work) - 1) : k \in 1..Len(work) /\ k \in 1..Len(work') /\ work'[k] = work[k]
         /\ \A i \in 1..Len(todo) :
              Len(work) - 1 + i \in 1..Len(work') /\ work'[Len(work) - 1 + i] = todo[i]
         /\ \A k \in 1..Len(work') :
              \/ k \in 1..(Len(work) - 1) /\ work'[k] = work[k]
              \/ \E i \in 1..Len(todo) : k = Len(work) - 1 + i /\ work'[k] = todo[i]
         /\ insert \in 1..Len(blocks) /\ blocks[insert].fn = Top.fn /\ Top.fn \in 0..Len(functions)
         /\ Top.fn # 0
         /\ \A k \in 1..Len(work) : work[k].fn \in 0..Len(functions)
         /\ \A f \in 1..Len(functions) : functions[f].entry \in 1..Len(blocks)
<1>1. /\ Len(blocks) \in Nat /\ Len(functions) \in Nat
      /\ Len(work) \in Nat /\ Len(work) >= 2 /\ Top = work[Len(work)]
      /\ insert \in 1..Len(blocks) /\ blocks[insert].fn = Top.fn /\ Top.fn \in 0..Len(functions)
      /\ Top.fn # 0
  BY Context DEF Ordinary
<1>2. Len(work) # 2
  <2>1. /\ work[1].op = "program" => work[1].fn = 0
        /\ work[1].op = "program"
        /\ Len(work) = 2 /\ work[2].op # "function_end" => work[2 - 1].fn = work[2].fn
    <3>1. 1 \in 1..Len(work) /\ (Len(work) = 2 => 2 \in 2..Len(work))
      BY ONLY <1>1, SMT
    <3>2. CallStackOK /\ FnsOK  BY DEF Ordinary, IInv, Flowing
    <3> QED BY ONLY <3>1, <3>2 DEF CallStackOK, FnsOK
  <2>2. Len(work) = 2 => work[2].op # "function_end" /\ work[2].fn # 0
    BY <1>1 DEF Ordinary
  <2> QED BY ONLY <2>1, <2>2, SMT
<1>3. Len(blocks') \in Nat  BY DEF Ordinary, IInv, TypeOK
<1>4. /\ \A k \in 1..Len(work) : work[k].fn \in 0..Len(functions)
      /\ \A f \in 1..Len(functions) : functions[f].entry \in 1..Len(blocks)
  <2>1. TypeOK  BY DEF Ordinary, IInv
  <2>2. \A f \in 1..Len(functions) : functions[f] \in FunctionSet(Len(blocks))
    BY <2>1 DEF TypeOK
  <2>3. \A k \in 1..Len(work) : TaskOK(work[k], Len(blocks), Len(functions))
    BY <2>1 DEF TypeOK
  <2> QED BY ONLY <2>2, <2>3 DEF FunctionSet, TaskOK
<1>5. Replaced(work, work', todo)  BY DEF Ordinary
<1>6. /\ Len(todo) \in Nat /\ Len(work') = Len(work) - 1 + Len(todo)
      /\ \A k \in 1..(Len(work) - 1) : work'[k] = work[k]
      /\ \A i \in 1..Len(todo) : work'[Len(work) - 1 + i] = todo[i]
      /\ \A k \in 1..Len(work') :
           \/ k \in 1..(Len(work) - 1) /\ work'[k] = work[k]
           \/ \E i \in 1..Len(todo) : k = Len(work) - 1 + i /\ work'[k] = todo[i]
  <2> DEFINE w == work'
  <2>1. Replaced(work, w, todo)  BY <1>5
  <2> HIDE DEF w
  <2>2. /\ Len(todo) \in Nat /\ Len(w) = Len(work) - 1 + Len(todo)
        /\ \A k \in 1..(Len(work) - 1) : w[k] = work[k]
        /\ \A i \in 1..Len(todo) : w[Len(work) - 1 + i] = todo[i]
    BY ONLY <2>1 DEF Replaced
  <2>3. ASSUME NEW k \in 1..Len(w)
        PROVE  \/ k \in 1..(Len(work) - 1) /\ w[k] = work[k]
               \/ \E i \in 1..Len(todo) : k = Len(work) - 1 + i /\ w[k] = todo[i]
    BY ONLY <2>1, k \in 1..Len(w) DEF Replaced
  <2> QED BY <2>2, <2>3 DEF w
<1>7. /\ \A k \in 1..(Len(work) - 1) : k \in 1..Len(work) /\ k \in 1..Len(work')
      /\ \A i \in 1..Len(todo) : Len(work) - 1 + i \in 1..Len(work')
  BY ONLY <1>1, <1>6, SMT
<1>8. Len(work) >= 3
  <2> DEFINE L == Len(work)
  <2>1. L \in Nat /\ L >= 2 /\ L # 2  BY ONLY <1>1, <1>2
  <2> HIDE DEF L
  <2>2. L >= 3  BY ONLY <2>1
  <2> QED BY ONLY <2>2 DEF L
<1> QED BY ONLY <1>1, <1>3, <1>4, <1>6, <1>7, <1>8

\* A block stays with its function.
LEMMA BelongsStays ==
  ASSUME NEW todo, Ordinary(todo), OrdinaryEnds, NEW t \in 1..Len(blocks), NEW f, f # 0,
         Belongs(blocks, work, t, f)
  PROVE  Belongs(blocks', work', t, f)
<1> DEFINE L == Len(work)
<1>1. /\ L \in Nat /\ Top = work[L] /\ L \in 1..L
      /\ \A k \in 1..(L - 1) : k \in 1..L /\ k \in 1..Len(work') /\ work'[k] = work[k]
      /\ \A k \in 1..Len(work') :
           \/ k \in 1..(L - 1) /\ work'[k] = work[k]
           \/ \E i \in 1..Len(todo) : k = L - 1 + i /\ work'[k] = todo[i]
      /\ \A i \in 1..Len(todo) : todo[i].fn = Top.fn
      /\ t \in 1..Len(blocks')
  <2>1. /\ L \in Nat /\ L >= 3 /\ Len(blocks) \in Nat /\ Len(blocks') \in Nat
        /\ Len(blocks) <= Len(blocks')
    BY OrdinaryContext DEF OrdinaryEnds
  <2>2. L \in 1..L /\ t \in 1..Len(blocks')
    BY ONLY <2>1, t \in 1..Len(blocks), SMT
  <2> QED BY <2>2, OrdinaryContext DEF Ordinary
<1>2. /\ OwedOK /\ OwedOK' /\ DetachedOK'  BY DEF Ordinary, IInv
<1>3. t \in Owed(L) => blocks[t].fn = 0
  BY ONLY <1>1, <1>2 DEF OwedOK, Owed, NoParent
<1>4. /\ blocks'[t].fn = blocks[t].fn \/ (t \in Owed(L) /\ blocks'[t].fn = Top.fn)
  BY DEF OrdinaryEnds
<1>5. CASE blocks[t].fn = f  BY <1>3, <1>4, <1>5, f # 0 DEF Belongs
<1>6. CASE blocks[t].fn = 0 /\ OwedTo(work, t, f)
  <2>1. PICK k \in 1..L : work[k].fn = f /\ \E i \in 1..Len(work[k].owe) : work[k].owe[i] = t
    BY <1>6 DEF OwedTo
  <2>2. PICK i \in 1..Len(work[k].owe) : work[k].owe[i] = t  BY <2>1
  <2>3. CASE blocks'[t].fn # 0
    <3>1. t \in Owed(L) /\ blocks'[t].fn = Top.fn  BY <1>4, <1>6, <2>3
    <3>2. PICK j \in 1..Len(work[L].owe) : work[L].owe[j] = t  BY <3>1 DEF Owed
    <3>3. k = L
      <4>1. L \in 1..L /\ OwedOK  BY ONLY <1>1, <1>2
      <4>2. work[k].owe[i] = work[L].owe[j] => k = L /\ i = j
        BY ONLY <4>1, k \in 1..L, j \in 1..Len(work[L].owe), i \in 1..Len(work[k].owe)
           DEF OwedOK, L
      <4> QED BY ONLY <2>2, <3>2, <4>2
    <3> QED BY <1>1, <2>1, <3>1, <3>3 DEF Belongs
  <2>4. CASE blocks'[t].fn = 0
    <3>1. PICK k2 \in 1..Len(work') : \E i2 \in 1..Len(work'[k2].owe) : work'[k2].owe[i2] = t
      BY ONLY <1>1, <1>2, <2>4 DEF DetachedOK, NoParent
    <3>2. PICK i2 \in 1..Len(work'[k2].owe) : work'[k2].owe[i2] = t  BY <3>1
    <3>3. work'[k2].fn = f
      <4>1. CASE k2 \in 1..(L - 1) /\ work'[k2] = work[k2]
        <5>1. k2 \in 1..L /\ i2 \in 1..Len(work[k2].owe) /\ work[k2].owe[i2] = t
          BY ONLY <1>1, <3>2, <4>1
        <5>2. k2 = k  BY ONLY <1>2, <2>2, <5>1 DEF OwedOK
        <5> QED BY ONLY <2>1, <4>1, <5>2
      <4>2. ASSUME NEW j \in 1..Len(todo), k2 = L - 1 + j, work'[k2] = todo[j]
            PROVE  work'[k2].fn = f
        <5>1. work'[k2].fn = Top.fn  BY ONLY <1>1, <4>2
        <5>2. CASE k \in 1..(L - 1)
          <6>1. k \in 1..Len(work') /\ i \in 1..Len(work'[k].owe) /\ work'[k].owe[i] = t
            BY ONLY <1>1, <2>2, <5>2
          <6>2. k2 = k  BY ONLY <1>2, <3>2, <6>1 DEF OwedOK
          <6> QED BY ONLY <1>1, <2>1, <5>2, <6>2
        <5>3. CASE k = L  BY ONLY <1>1, <2>1, <5>1, <5>3
        <5>4. k \in 1..(L - 1) \/ k = L  BY ONLY <1>1, k \in 1..L, SMT
        <5> QED BY ONLY <5>2, <5>3, <5>4
      <4> QED BY ONLY <1>1, <4>1, <4>2
    <3>4. OwedTo(work', t, f)  BY ONLY <3>2, <3>3 DEF OwedTo
    <3> QED BY ONLY <2>4, <3>4 DEF Belongs, NoParent
  <2> QED BY <2>3, <2>4
<1> QED BY <1>5, <1>6 DEF Belongs, NoParent

\* A branch may lead to the blocks that are near.
LEMMA NearBelongs ==
  ASSUME NEW todo, Ordinary(todo), OrdinaryEnds, NEW t \in 1..Len(blocks'), Near(t)
  PROVE  Belongs(blocks', work', t, Top.fn)
<1> DEFINE L == Len(work)
<1>1. /\ L \in Nat /\ Top = work[L] /\ Top.fn # 0 /\ Len(blocks) \in Nat /\ Len(blocks') \in Nat
      /\ \A k \in 1..(L - 1) : k \in 1..L /\ work'[k] = work[k]
      /\ \A k \in 1..Len(work') :
           \/ k \in 1..(L - 1) /\ work'[k] = work[k]
           \/ \E i \in 1..Len(todo) : k = L - 1 + i /\ work'[k] = todo[i]
      /\ \A i \in 1..Len(todo) : todo[i].fn = Top.fn
  BY OrdinaryContext DEF Ordinary
<1>2. OwedOK /\ DetachedOK' /\ TypeOK /\ L \in 1..L
  <2>1. L >= 3  BY OrdinaryContext
  <2>2. L \in 1..L  BY ONLY <1>1, <2>1, SMT
  <2> QED BY <2>2 DEF Ordinary, IInv
<1>3. CASE t > Len(blocks)
  <2>1. blocks'[t].fn = 0 \/ blocks'[t].fn = Top.fn
    BY <1>3 DEF OrdinaryEnds, NoParent
  <2>2. ASSUME blocks'[t].fn = 0 PROVE OwedTo(work', t, Top.fn)
    <3>1. PICK k \in 1..Len(work') : \E i \in 1..Len(work'[k].owe) : work'[k].owe[i] = t
      BY ONLY <1>2, <2>2, t \in 1..Len(blocks') DEF DetachedOK, NoParent
    <3>2. PICK i \in 1..Len(work'[k].owe) : work'[k].owe[i] = t  BY <3>1
    <3>3. ~(k \in 1..(L - 1) /\ work'[k] = work[k])
      <4> SUFFICES ASSUME k \in 1..(L - 1), work'[k] = work[k] PROVE FALSE
        OBVIOUS
      <4>1. k \in 1..L /\ i \in 1..Len(work[k].owe) /\ work[k].owe[i] = t
        BY ONLY <1>1, <3>2, k \in 1..(L - 1), work'[k] = work[k]
      <4>2. work[k].owe \in Seq(1..Len(blocks))
        BY ONLY <1>2, <4>1 DEF TypeOK, TaskOK
      <4>3. t \in 1..Len(blocks)  BY ONLY <4>1, <4>2, ElementOf
      <4> QED BY ONLY <1>1, <1>3, <4>3, SMT
    <3>4. work'[k].fn = Top.fn  BY ONLY <1>1, <3>3
    <3> QED BY ONLY <3>2, <3>4 DEF OwedTo
  <2> QED BY <2>1, <2>2 DEF Belongs, NoParent
<1>4. CASE t \in 1..Len(blocks) /\ blocks[t].fn = Top.fn
  <2>1. Belongs(blocks, work, t, Top.fn)  BY <1>4 DEF Belongs
  <2> QED BY <1>1, <1>4, <2>1, BelongsStays
<1>5. CASE t \in 1..Len(blocks) /\ t \in Owed(L)
  <2>1. PICK i \in 1..Len(work[L].owe) : work[L].owe[i] = t  BY <1>5 DEF Owed
  <2>2. OwedTo(work, t, Top.fn)  BY ONLY <1>1, <1>2, <2>1 DEF OwedTo
  <2>3. blocks[t].fn = 0  BY ONLY <1>2, <2>1 DEF OwedOK, NoParent
  <2>4. Belongs(blocks, work, t, Top.fn)
    BY ONLY <2>2, <2>3 DEF Belongs, NoParent
  <2> QED BY <1>1, <1>5, <2>4, BelongsStays
<1>6. t \in 1..Len(blocks) \/ t > Len(blocks)
  BY ONLY <1>1, t \in 1..Len(blocks'), SMT
<1> QED BY <1>3, <1>4, <1>5, <1>6 DEF Near

\* Blocks without parent have no code, and so no edges.
LEMMA NoEdges ==
  ASSUME NEW block, block.code = <<>>
  PROVE  Targets(block) = {} /\ ~HasTerminator(block)
  BY DEF Targets, HasTerminator

\* Branches stay in their function.
LEMMA OrdinaryEdges ==
  ASSUME NEW todo, Ordinary(todo), OrdinaryEnds
  PROVE  EdgesOK'
<1>1. /\ Len(blocks) \in Nat /\ Len(blocks') \in Nat /\ Len(blocks) <= Len(blocks')
      /\ insert \in 1..Len(blocks) /\ blocks[insert].fn = Top.fn
  BY OrdinaryContext DEF OrdinaryEnds
<1>2. OwedOK /\ DetachedOK /\ DetachedOK' /\ EdgesOK /\ functions' = functions
  BY DEF Ordinary, IInv, Flowing
<1>3. Len(work) \in 1..Len(work)
  <2>1. Len(work) \in Nat /\ Len(work) >= 3  BY OrdinaryContext
  <2> QED BY ONLY <2>1, SMT
<1> SUFFICES ASSUME NEW b \in 1..Len(blocks'), NEW t \in Targets(blocks'[b])
             PROVE  t \in 1..Len(blocks') /\ Belongs(blocks', work', t, blocks'[b].fn) /\ ~IsEntry(t)
  BY <1>2 DEF EdgesOK, IsEntry
<1>4. CASE b \in 1..Len(blocks) /\ ~Continued(b)
  <2>1. t \in Targets(blocks[b])  BY <1>4 DEF OrdinaryEnds, SameEnd
  <2>2. blocks[b].fn # 0  BY <1>2, <1>4, <2>1, NoEdges DEF DetachedOK, NoParent
  <2>3. blocks'[b].fn = blocks[b].fn
    <3>1. b \in Owed(Len(work)) => blocks[b].fn = 0
      BY ONLY <1>2, <1>3 DEF OwedOK, Owed, NoParent
    <3> QED BY <1>4, <2>2, <3>1 DEF OrdinaryEnds
  <2>4. t \in 1..Len(blocks) /\ Belongs(blocks, work, t, blocks[b].fn) /\ ~IsEntry(t)
    BY <1>2, <1>4, <2>1 DEF EdgesOK
  <2>5. Belongs(blocks', work', t, blocks[b].fn)  BY <2>2, <2>4, BelongsStays
  <2>6. t \in 1..Len(blocks')  BY ONLY <1>1, <2>4, SMT
  <2> QED BY <2>3, <2>4, <2>5, <2>6
<1>5. CASE Continued(b)
  <2>1. t \in 1..Len(blocks') /\ Near(t) /\ ~IsEntry(t)  BY <1>5 DEF OrdinaryEnds
  <2>2. Belongs(blocks', work', t, Top.fn)  BY <2>1, NearBelongs
  <2>3. blocks'[b].fn = Top.fn
    <3>1. CASE b > Len(blocks)
      <4>1. blocks'[b].fn = 0 => blocks'[b].code = <<>>
        BY <1>2 DEF DetachedOK, NoParent
      <4> QED BY <3>1, <4>1, NoEdges DEF OrdinaryEnds, NoParent
    <3>2. CASE b = insert  BY <1>1, <3>2 DEF OrdinaryEnds
    <3> QED BY <1>5, <3>1, <3>2 DEF Continued
  <2> QED BY <2>1, <2>2, <2>3
<1>6. b \in 1..Len(blocks) \/ b > Len(blocks)
  BY ONLY <1>1, b \in 1..Len(blocks'), SMT
<1> QED BY <1>4, <1>5, <1>6 DEF Continued

\* No block is left open and forgotten.
LEMMA OrdinaryOpen ==
  ASSUME NEW todo, Ordinary(todo), OrdinaryEnds
  PROVE  OpenOK'
<1>1. /\ Len(blocks) \in Nat /\ Len(blocks') \in Nat
      /\ Len(work) \in Nat /\ Top = work[Len(work)]
      /\ \A k \in 1..(Len(work) - 1) : k \in 1..Len(work') /\ work'[k] = work[k]
  BY OrdinaryContext
<1>2. OpenOK /\ Top.op # "function_end"  BY DEF Ordinary, Flowing
<1> SUFFICES ASSUME NEW b \in 1..Len(blocks'), blocks'[b].fn # 0
             PROVE  HasTerminator(blocks'[b]) \/ b = insert' \/ IsSaved(b)'
  BY DEF OpenOK, NoParent
<1>3. CASE b > Len(blocks)  BY <1>3 DEF OrdinaryEnds, NoParent
<1>4. CASE b \in 1..Len(blocks) /\ blocks'[b].fn = blocks[b].fn
  <2>1. HasTerminator(blocks[b]) \/ b = insert \/ IsSaved(b)
    BY <1>2, <1>4 DEF OpenOK, NoParent
  <2>2. CASE HasTerminator(blocks[b])
    <3>1. ~Continued(b)  BY ONLY <1>1, <1>4, <2>2, SMT DEF Continued, IsOpen
    <3> QED BY <1>4, <2>2, <3>1 DEF OrdinaryEnds, SameEnd
  <2>3. CASE b = insert  BY <2>3 DEF OrdinaryEnds
  <2>4. CASE IsSaved(b)
    <3>1. PICK k \in 1..Len(work) : work[k].op = "function_end" /\ work[k].arg.saved = b
      BY <2>4 DEF IsSaved
    <3>2. k # Len(work)  BY <1>1, <1>2, <3>1
    <3>3. k \in 1..(Len(work) - 1)  BY ONLY <1>1, <3>2, k \in 1..Len(work), SMT
    <3>4. k \in 1..Len(work') /\ work'[k] = work[k]  BY ONLY <1>1, <3>3
    <3> QED BY ONLY <3>1, <3>4 DEF IsSaved
  <2> QED BY <2>1, <2>2, <2>3, <2>4
<1>5. CASE b \in 1..Len(blocks) /\ blocks'[b].fn # blocks[b].fn
  BY <1>5 DEF OrdinaryEnds
<1>6. b \in 1..Len(blocks) \/ b > Len(blocks)
  BY ONLY <1>1, b \in 1..Len(blocks'), SMT
<1> QED BY <1>3, <1>4, <1>5, <1>6

\* What was finished before a function of the program stays finished.
LEMMA OrdinaryFinished ==
  ASSUME NEW todo, Ordinary(todo), OrdinaryEnds
  PROVE  FinishedOK'
<1>1. /\ Len(blocks) \in Nat /\ Len(work) \in Nat /\ Len(work) >= 3 /\ Len(todo) \in Nat
      /\ Len(work') = Len(work) - 1 + Len(todo)
      /\ \A k \in 1..(Len(work) - 1) : work'[k] = work[k]
  BY OrdinaryContext
<1>2. 2 \in 1..(Len(work) - 1) /\ 2 \in 1..Len(work) /\ Len(work) > 1 /\ ~(Len(work') = 1)
  BY ONLY <1>1, SMT
<1>3. work'[2] = work[2]  BY ONLY <1>1, <1>2
<1> DEFINE s == work[2].arg.saved
<1>4. ASSUME work[2].op = "function_end"
      PROVE  s = NoBlock \/ HasTerminator(blocks'[s])
  <2>1. s = 0 \/ HasTerminator(blocks[s])
    BY <1>2, <1>4 DEF Ordinary, Flowing, FinishedOK, Closed, NoBlock
  <2>2. s \in 0..Len(blocks)
    <3>1. TaskOK(work[2], Len(blocks), Len(functions))
      BY <1>2 DEF Ordinary, IInv, TypeOK
    <3> QED BY ONLY <1>4, <3>1 DEF TaskOK, TaskArgOK
  <2>3. CASE s # 0
    <3>1. s \in 1..Len(blocks)  BY ONLY <1>1, <2>2, <2>3, SMT
    <3>2. ~(s > Len(blocks))  BY ONLY <1>1, <3>1, SMT
    <3>3. ~Continued(s)  BY ONLY <2>1, <2>3, <3>2 DEF Continued, IsOpen
    <3> QED BY <2>1, <2>3, <3>1, <3>3 DEF OrdinaryEnds, SameEnd
  <2> QED BY <2>3 DEF NoBlock
<1> QED BY ONLY <1>2, <1>3, <1>4 DEF FinishedOK, Closed

\* Tasks are for the functions in the order of their creation.
LEMMA OrdinaryFns ==
  ASSUME NEW todo, Ordinary(todo)
  PROVE  FnsOK'
<1> DEFINE L == Len(work)
           w == work'
<1>1. /\ L \in Nat /\ L >= 3 /\ Top = work[L] /\ Len(functions) \in Nat
      /\ \A k \in 1..(L - 1) : w[k] = work[k]
      /\ \A k \in 1..Len(w) :
           \/ k \in 1..(L - 1) /\ w[k] = work[k]
           \/ \E i \in 1..Len(todo) : k = L - 1 + i /\ w[k] = todo[i]
      /\ Top.fn \in 0..Len(functions)
      /\ \A k \in 1..L : work[k].fn \in 0..Len(functions)
      /\ \A i \in 1..Len(todo) : todo[i].fn = Top.fn /\ todo[i].op \notin {"program", "function_end"}
  BY OrdinaryContext DEF Ordinary
<1>2. /\ \A k \in 1..L : work[k].op = "program" => work[k].fn = 0
      /\ \A j, k \in 1..L : j < k =>
           /\ work[j].fn <= work[k].fn
           /\ work[k].op = "function_end" => work[j].fn < work[k].fn
  BY DEF Ordinary, Flowing, FnsOK
<1> HIDE DEF w, L
<1>3. ASSUME NEW k \in 1..Len(w)
      PROVE  /\ w[k].op = "program" => w[k].fn = 0
             /\ \/ k \in 1..(L - 1) /\ k \in 1..L /\ k < L /\ w[k] = work[k]
                \/ k >= L /\ w[k].fn = Top.fn /\ w[k].op \notin {"program", "function_end"}
  <2>1. CASE k \in 1..(L - 1) /\ w[k] = work[k]
    <3>1. k \in 1..L /\ k < L  BY ONLY <1>1, <2>1, SMT
    <3> QED BY ONLY <1>2, <2>1, <3>1
  <2>2. ASSUME NEW i \in 1..Len(todo), k = L - 1 + i, w[k] = todo[i]
        PROVE  k >= L /\ w[k].fn = Top.fn /\ w[k].op \notin {"program", "function_end"}
    <3>1. k >= L
      <4>1. i \in Nat /\ i >= 1 /\ L \in Nat  BY ONLY <1>1, i \in 1..Len(todo)
      <4> QED BY ONLY <2>2, <4>1, SMT
    <3> QED BY ONLY <1>1, <2>2, <3>1
  <2> QED BY ONLY <1>1, <2>1, <2>2, k \in 1..Len(w)
<1>4. ASSUME NEW j \in 1..Len(w), NEW k \in 1..Len(w), j < k
      PROVE  /\ w[j].fn <= w[k].fn
             /\ w[k].op = "function_end" => w[j].fn < w[k].fn
  <2>1. CASE k \in 1..(L - 1) /\ k \in 1..L /\ k < L /\ w[k] = work[k]
    <3>1. j \in 1..(L - 1) /\ j \in 1..L
      BY ONLY <1>1, <1>4, <2>1, j \in 1..Len(w), SMT
    <3>2. w[j] = work[j]  BY ONLY <1>1, <3>1
    <3> QED BY ONLY <1>2, <1>4, <2>1, <3>1, <3>2
  <2>2. CASE k >= L /\ w[k].fn = Top.fn /\ w[k].op \notin {"program", "function_end"}
    <3>1. CASE j \in 1..(L - 1) /\ j \in 1..L /\ j < L /\ w[j] = work[j]
      <4>1. L \in 1..L  BY ONLY <1>1, SMT
      <4>2. work[j].fn <= work[L].fn  BY ONLY <1>2, <3>1, <4>1
      <4> QED BY ONLY <1>1, <2>2, <3>1, <4>2
    <3>2. CASE w[j].fn = Top.fn  BY ONLY <1>1, <2>2, <3>2, SMT
    <3> QED BY ONLY <1>3, <3>1, <3>2
  <2> QED BY ONLY <1>3, <2>1, <2>2
<1>5. /\ \A k \in 1..Len(w) : w[k].op = "program" => w[k].fn = 0
      /\ \A j, k \in 1..Len(w) : j < k =>
           /\ w[j].fn <= w[k].fn
           /\ w[k].op = "function_end" => w[j].fn < w[k].fn
  BY <1>3, <1>4
<1> QED BY <1>5 DEF FnsOK, w

\* Methods that need an open block find one.
LEMMA OrdinaryNeed ==
  ASSUME NEW todo, Ordinary(todo), OrdinaryEnds, OrdinaryNeeds(todo)
  PROVE  NeedOK'
<1> DEFINE L == Len(work)
           q == Len(todo)
           w == work'
<1>1. /\ L \in Nat /\ L >= 3 /\ Top = work[L] /\ q \in Nat /\ Len(w) = L - 1 + q
      /\ Len(blocks) \in Nat
      /\ \A k \in 1..(L - 1) : w[k] = work[k]
      /\ \A i \in 1..q : w[L - 1 + i] = todo[i]
  BY OrdinaryContext
<1>2. /\ \A k \in 1..(L - 1) :
           /\ work[k].op # "gen"
           /\ work[k].op \in NeedOps => LeavesOpen(work[k + 1]) \/ ComesBack(blocks, work[k + 1])
      /\ work[L].op \in NeedOps => IsOpen
      /\ work[L].op = "gen" /\ work[L - 1].op \in NeedOps => IsOpen
  <2>1. L > 0 /\ L > 1  BY ONLY <1>1, SMT
  <2> QED BY <2>1 DEF Ordinary, Flowing, NeedOK
<1>3. /\ \A k \in 1..L : work[k].op = "program" <=> k = 1
      /\ \A k \in 3..L : work[k].op = "function_end" =>
           /\ work[k].arg.saved \in 1..Len(blocks)
           /\ blocks[work[k].arg.saved].fn = work[k - 1].fn
      /\ \A j, k \in 1..L : j < k => /\ work[j].fn <= work[k].fn
                                     /\ work[k].op = "function_end" => work[j].fn < work[k].fn
      /\ \A k \in 1..L : work[k].fn \in 0..Len(functions)
      /\ insert \in 1..Len(blocks) /\ blocks[insert].fn = work[L].fn
      /\ work[L].op \notin {"program", "function_end"} /\ Len(functions) \in Nat
  <2>1. CallStackOK /\ FnsOK  BY DEF Ordinary, IInv, Flowing
  <2>2. Top.op \notin {"program", "function_end"}  BY DEF Ordinary
  <2> QED BY <1>1, <2>1, <2>2, OrdinaryContext DEF CallStackOK, FnsOK
<1> DEFINE open2 == ~HasTerminator(blocks'[insert'])
<1>4. /\ \A i \in 1..(q - 1) : /\ todo[i].op # "gen"
                               /\ todo[i].op \in NeedOps => LeavesOpen(todo[i + 1])
      /\ q = 0 => (LeavesOpen(work[L]) /\ IsOpen => open2)
      /\ q > 0 => /\ todo[1].op # "gen"
                  /\ LeavesOpen(work[L]) => LeavesOpen(todo[1])
                  /\ todo[q].op \in NeedOps => open2
      /\ q > 1 => (todo[q].op = "gen" /\ todo[q - 1].op \in NeedOps => open2)
  BY <1>1 DEF OrdinaryNeeds
<1> HIDE DEF L, q, w, open2
\* A saved block belongs to a function that was begun before: it stays open.
<1>5. ASSUME NEW k \in 2..L, work[k].op # "program", work[k - 1].op # "program", ComesBack(blocks, work[k])
      PROVE  ComesBack(blocks', work[k])
  <2> DEFINE s == work[k].arg.saved
  <2>1. k \in 1..L /\ k - 1 \in 1..L /\ k - 1 < k  BY ONLY <1>1, k \in 2..L, SMT
  <2>2. k \in 3..L
    <3>1. k - 1 # 1  BY ONLY <1>3, <1>5, <2>1
    <3> QED BY ONLY <1>1, <3>1, k \in 2..L, SMT
  <2>3. work[k].op = "function_end" /\ s # 0 /\ ~HasTerminator(blocks[s])
    BY ONLY <1>5 DEF ComesBack, NoBlock
  <2>4. s \in 1..Len(blocks) /\ blocks[s].fn = work[k - 1].fn
    BY ONLY <1>3, <2>2, <2>3
  <2>5. s # insert
    <3>1. work[k - 1].fn < work[k].fn  BY ONLY <1>3, <2>1, <2>3
    <3>2. k < L
      <4>1. k # L  BY ONLY <1>3, <2>3
      <4> QED BY ONLY <1>1, <4>1, k \in 2..L, SMT
    <3>3. L \in 1..L  BY ONLY <1>1, SMT
    <3>4. work[k].fn <= work[L].fn  BY ONLY <1>3, <2>1, <3>2, <3>3
    <3>5. work[k - 1].fn \in Nat /\ work[k].fn \in Nat /\ work[L].fn \in Nat
      <4>1. \A j \in 1..L : work[j].fn \in Nat  BY ONLY <1>3, SMT
      <4> QED BY ONLY <2>1, <3>3, <4>1
    <3>6. work[k - 1].fn # work[L].fn  BY ONLY <3>1, <3>4, <3>5, SMT
    <3> QED BY ONLY <1>3, <2>4, <3>6
  <2>6. ~Continued(s)
    <3>1. ~(s > Len(blocks))  BY ONLY <1>1, <2>4, SMT
    <3> QED BY ONLY <2>5, <3>1 DEF Continued
  <2>7. ~HasTerminator(blocks'[s])  BY <2>3, <2>4, <2>6 DEF OrdinaryEnds, SameEnd
  <2> QED BY <2>3, <2>7 DEF ComesBack, NoBlock
<1>6. ASSUME NEW k \in 1..(Len(w) - 1)
      PROVE  w[k].op # "gen" /\ (w[k].op \in NeedOps => LeavesOpen(w[k + 1]) \/ ComesBack(blocks', w[k + 1]))
  <2>1. CASE k + 1 \in 1..(L - 1)
    <3>1. k \in 1..(L - 1) /\ k + 1 \in 2..L
      BY ONLY <1>1, <2>1, k \in 1..(Len(w) - 1), SMT
    <3>2. w[k] = work[k] /\ w[k + 1] = work[k + 1]  BY ONLY <1>1, <2>1, <3>1
    <3>3. work[k].op # "gen" /\ (work[k].op \in NeedOps => LeavesOpen(work[k + 1]) \/ ComesBack(blocks, work[k + 1]))
      BY ONLY <1>2, <3>1
    <3>4. ASSUME work[k].op \in NeedOps, ComesBack(blocks, work[k + 1]) PROVE ComesBack(blocks', work[k + 1])
      <4>1. (k + 1) - 1 = k  BY ONLY <1>1, <3>1, SMT
      <4>2. work[k].op # "program" /\ work[k + 1].op # "program"
        BY ONLY <3>4 DEF NeedOps, ComesBack
      <4> QED BY ONLY <1>5, <3>1, <3>4, <4>1, <4>2
    <3> QED BY ONLY <3>2, <3>3, <3>4
  <2>2. CASE k = L - 1 /\ q > 0
    <3>1. k \in 1..(L - 1) /\ 1 \in 1..q /\ k + 1 = L - 1 + 1 /\ k + 1 = L
      BY ONLY <1>1, <2>2, SMT
    <3>2. w[k] = work[k] /\ w[k + 1] = todo[1]  BY ONLY <1>1, <3>1
    <3>3. /\ work[k].op # "gen"
          /\ work[k].op \in NeedOps => LeavesOpen(work[L]) \/ ComesBack(blocks, work[L])
      BY ONLY <1>2, <3>1
    <3>4. ~ComesBack(blocks, work[L])  BY ONLY <1>3 DEF ComesBack
    <3> QED BY ONLY <1>4, <2>2, <3>2, <3>3, <3>4
  <2>3. CASE k >= L
    <3> DEFINE d == k - (L - 1)
    <3>1. d \in 1..(q - 1) /\ d \in 1..q /\ d + 1 \in 1..q /\ k = L - 1 + d /\ k + 1 = L - 1 + (d + 1)
      BY ONLY <1>1, <2>3, k \in 1..(Len(w) - 1), SMT
    <3> HIDE DEF d
    <3>2. w[k] = todo[d] /\ w[k + 1] = todo[d + 1]  BY ONLY <1>1, <3>1
    <3>3. todo[d].op # "gen" /\ (todo[d].op \in NeedOps => LeavesOpen(todo[d + 1]))
      <4>1. \A i \in 1..(q - 1) : /\ todo[i].op # "gen"
                                  /\ todo[i].op \in NeedOps => LeavesOpen(todo[i + 1])
        BY ONLY <1>4
      <4>2. d \in 1..(q - 1) /\ q \in Nat  BY ONLY <1>1, <3>1
      <4>3. todo[d].op # "gen"  BY ONLY <4>1, <4>2
      <4>4. todo[d].op \in NeedOps => LeavesOpen(todo[d + 1])  BY ONLY <4>1, <4>2
      <4> QED BY ONLY <4>3, <4>4
    <3> QED BY ONLY <3>2, <3>3 DEF LeavesOpen
  <2>4. k + 1 \in 1..(L - 1) \/ (k = L - 1 /\ q > 0) \/ k >= L
    BY ONLY <1>1, k \in 1..(Len(w) - 1), SMT
  <2> QED BY ONLY <2>1, <2>2, <2>3, <2>4
<1>7. CASE q = 0
  <2>1. /\ Len(w) = L - 1 /\ L - 1 \in 1..(L - 1) /\ (L - 1) + 1 = L /\ Len(w) > 1 /\ Len(w) > 0
    BY ONLY <1>1, <1>7, SMT
  <2>2. w[Len(w)] = work[L - 1]  BY ONLY <1>1, <2>1
  <2>3. /\ work[L - 1].op # "gen"
        /\ work[L - 1].op \in NeedOps => LeavesOpen(work[L]) \/ ComesBack(blocks, work[L])
    BY ONLY <1>2, <2>1
  <2>4. ~ComesBack(blocks, work[L])  BY ONLY <1>3 DEF ComesBack
  <2>5. ASSUME work[L - 1].op \in NeedOps PROVE open2
    <3>1. LeavesOpen(work[L])  BY ONLY <2>3, <2>4, <2>5
    <3>2. IsOpen
      <4>1. KeepOps \subseteq NeedOps  BY DEF KeepOps, NeedOps
      <4> QED BY ONLY <1>2, <2>5, <3>1, <4>1 DEF LeavesOpen
    <3> QED BY ONLY <1>4, <1>7, <3>1, <3>2
  <2>6. /\ w[Len(w)].op \in NeedOps => open2
        /\ w[Len(w)].op # "gen"
    BY ONLY <2>2, <2>3, <2>5
  <2> QED BY ONLY <1>6, <2>1, <2>6 DEF NeedOK, w, open2, IsOpen
<1>8. CASE q = 1
  <2>1. Len(w) = L - 1 + 1 /\ 1 \in 1..q /\ Len(w) = L - 1 + q /\ q > 0
    BY ONLY <1>1, <1>8, SMT
  <2>2. w[Len(w)] = todo[1]  BY ONLY <1>1, <2>1
  <2>3. /\ w[Len(w)].op \in NeedOps => open2
        /\ w[Len(w)].op # "gen"
    BY ONLY <1>4, <1>8, <2>1, <2>2
  <2> QED BY ONLY <1>6, <2>3 DEF NeedOK, w, open2, IsOpen
<1>9. CASE q > 1
  <2>1. /\ Len(w) = L - 1 + q /\ q \in 1..q /\ q - 1 \in 1..q /\ Len(w) - 1 = L - 1 + (q - 1) /\ q > 0
    BY ONLY <1>1, <1>9, SMT
  <2>2. w[Len(w)] = todo[q] /\ w[Len(w) - 1] = todo[q - 1]  BY ONLY <1>1, <2>1
  <2>3. /\ w[Len(w)].op \in NeedOps => open2
        /\ w[Len(w)].op = "gen" /\ w[Len(w) - 1].op \in NeedOps => open2
    BY ONLY <1>4, <1>9, <2>1, <2>2
  <2> QED BY ONLY <1>6, <2>3 DEF NeedOK, w, open2, IsOpen
<1>10. q = 0 \/ q = 1 \/ q > 1  BY ONLY <1>1, SMT
<1> QED BY ONLY <1>7, <1>8, <1>9, <1>10

\* Loops find the block they go back to as they left it.
LEMMA OrdinaryLoops ==
  ASSUME NEW todo, Ordinary(todo), OrdinaryEnds, OrdinaryHeads(todo)
  PROVE  LoopsOK' /\ EntriesPlain'
<1>1. /\ \A k \in 1..Len(work') :
           \/ k \in 1..(Len(work) - 1) /\ work'[k] = work[k]
           \/ \E i \in 1..Len(todo) : k = Len(work) - 1 + i /\ work'[k] = todo[i]
      /\ \A k \in 1..(Len(work) - 1) : k \in 1..Len(work)
      /\ \A k \in 1..Len(work) : work[k].fn \in 0..Len(functions)
      /\ \A f \in 1..Len(functions) : functions[f].entry \in 1..Len(blocks)
      /\ Len(work) \in 1..Len(work)
  <2>1. Len(work) \in Nat /\ Len(work) >= 3  BY OrdinaryContext
  <2>2. Len(work) \in 1..Len(work)  BY ONLY <2>1, SMT
  <2> QED BY <2>2, OrdinaryContext
<1>2. functions' = functions /\ LoopsOK /\ EntriesPlain /\ TypeOK /\ OwedOK /\ CallStackOK
  BY DEF Ordinary, Flowing, IInv
<1>3. EntriesPlain'  BY <1>1, <1>2 DEF EntriesPlain, OrdinaryHeads
<1>4. ASSUME NEW k \in 1..Len(work) PROVE LoopTaskOK(blocks', work[k])
  <2> DEFINE t == work[k]
             c == work[k].arg.cond
  <2>1. CASE t.op \in {"loop_cond", "body_end", "loop_end", "print_main"}
    <3>1. c \in 1..Len(blocks)
      <4>1. TaskOK(t, Len(blocks), Len(functions))
        BY ONLY <1>2, k \in 1..Len(work) DEF TypeOK
      <4> QED BY ONLY <2>1, <4>1 DEF TaskOK, TaskArgOK
    <3>2. LoopTaskOK(blocks, t)  BY ONLY <1>2, k \in 1..Len(work) DEF LoopsOK
    <3>3. t.fn # 0
      <4>1. k \in 2..Len(work)
        <5>1. Len(work) \in Nat  BY ONLY <1>2 DEF TypeOK
        <5>2. t.op # "program"  BY ONLY <2>1
        <5>3. k # 1  BY ONLY <1>2, <5>2, k \in 1..Len(work) DEF CallStackOK
        <5> QED BY ONLY <5>1, <5>3, k \in 1..Len(work), SMT
      <4> QED BY ONLY <1>2, <4>1 DEF CallStackOK
    <3>4. blocks[c].fn = t.fn /\ ~IsEntry(c)  BY ONLY <2>1, <3>2 DEF LoopTaskOK
    <3>5. blocks'[c].fn = t.fn
      <4>1. \A b \in Owed(Len(work)) : blocks[b].fn = 0
        BY ONLY <1>1, <1>2 DEF OwedOK, Owed, NoParent
      <4> QED BY <3>1, <3>3, <3>4, <4>1 DEF OrdinaryEnds
    <3>6. t.op \in {"loop_cond", "body_end", "loop_end"} => Plain(blocks'[c])
      BY <3>1, <3>2 DEF LoopTaskOK, OrdinaryHeads
    <3>7. t.op = "print_main" => PrintLoopHead(blocks'[c])
      BY <3>1, <3>2, <3>4 DEF LoopTaskOK, OrdinaryHeads
    <3> QED BY ONLY <3>4, <3>5, <3>6, <3>7 DEF LoopTaskOK
  <2>2. CASE t.op \notin {"loop_cond", "body_end", "loop_end", "print_main"}
    BY ONLY <2>2 DEF LoopTaskOK
  <2> QED BY ONLY <2>1, <2>2
<1>5. ASSUME NEW k \in 1..Len(work') PROVE LoopTaskOK(blocks', work'[k])
  <2>1. CASE k \in 1..(Len(work) - 1) /\ work'[k] = work[k]  BY <1>1, <1>4, <2>1
  <2>2. ASSUME NEW i \in 1..Len(todo), work'[k] = todo[i] PROVE LoopTaskOK(blocks', work'[k])
    BY <2>2 DEF OrdinaryHeads
  <2> QED BY <1>1, <2>1, <2>2
<1>6. LoopsOK'  BY <1>2, <1>5 DEF LoopsOK, LoopTaskOK, IsEntry
<1> QED BY <1>3, <1>6

\* An ordinary step keeps the invariant.
LEMMA OrdinaryFlow ==
  ASSUME NEW todo, Ordinary(todo), status' = status, OrdinaryEnds, OrdinaryNeeds(todo),
         OrdinaryHeads(todo), FlowOK(blocks')
  PROVE  VInv'
<1>1. EdgesOK' /\ OpenOK' /\ FinishedOK' /\ FnsOK' /\ NeedOK' /\ LoopsOK' /\ EntriesPlain'
  BY OrdinaryEdges, OrdinaryOpen, OrdinaryFinished, OrdinaryFns, OrdinaryNeed, OrdinaryLoops
<1>2. status' # "invalid"  BY DEF Ordinary
<1> QED BY <1>1, <1>2 DEF VInv, Flowing, GeneratedIRIsValid

-----------------------------------------------------------------------------
(* Short sequences of tasks.                                               *)

\* Steps that replace the current task by up to three tasks are ordinary.
LEMMA OrdinaryTodos ==
  ASSUME IInv, IInv', VInv, status = "generating", functions' = functions,
         work # <<>>, Top.op \notin {"program", "function_end"}
  PROVE  /\ work' = Front(work) \o <<>> => Ordinary(<<>>)
         /\ \A a : Local(a) /\ work' = Front(work) \o <<a>> => Ordinary(<<a>>)
         /\ \A a, b : Local(a) /\ Local(b) /\ work' = Front(work) \o <<a, b>> => Ordinary(<<a, b>>)
         /\ \A a, b, c : Local(a) /\ Local(b) /\ Local(c) /\ work' = Front(work) \o <<a, b, c>> =>
              Ordinary(<<a, b, c>>)
<1>1. ASSUME NEW T, NEW todo \in Seq(T), \A i \in 1..Len(todo) : Local(todo[i]),
             work' = Front(work) \o todo
      PROVE  Ordinary(todo)
  <2> DEFINE S == Range(work)
             w == work'
  <2>1. work \in Seq(S)  BY DEF IInv, TypeOK
  <2>2. w = Front(work) \o todo  BY <1>1
  <2> HIDE DEF S, w
  <2>3. Replaced(work, w, todo)
    BY ONLY <2>1, <2>2, work # <<>>, todo \in Seq(T), Replace
  <2> QED BY <1>1, <2>3 DEF Ordinary, VInv, Local, w
<1>2. <<>> \in Seq({}) /\ Len(<<>>) = 0  BY EmptySeq
<1>3. ASSUME work' = Front(work) \o <<>> PROVE Ordinary(<<>>)
  <2> DEFINE todo == <<>>
  <2>1. todo \in Seq({}) /\ \A i \in 1..Len(todo) : Local(todo[i])  BY <1>2, SMT
  <2>2. work' = Front(work) \o todo  BY <1>3
  <2> HIDE DEF todo
  <2>3. Ordinary(todo)  BY ONLY <1>1, <2>1, <2>2
  <2> QED BY <2>3 DEF todo
<1>4. ASSUME NEW a, Local(a), work' = Front(work) \o <<a>> PROVE Ordinary(<<a>>)
  <2> DEFINE todo == <<a>>
  <2>1. todo \in Seq({a}) /\ \A i \in 1..Len(todo) : todo[i] \in {a}  OBVIOUS
  <2>2. work' = Front(work) \o todo  BY <1>4
  <2> HIDE DEF todo
  <2>3. \A i \in 1..Len(todo) : Local(todo[i])  BY ONLY <1>4, <2>1 DEF Local
  <2>4. Ordinary(todo)  BY ONLY <1>1, <2>1, <2>2, <2>3
  <2> QED BY <2>4 DEF todo
<1>5. ASSUME NEW a, NEW b, Local(a), Local(b), work' = Front(work) \o <<a, b>>
      PROVE  Ordinary(<<a, b>>)
  <2> DEFINE todo == <<a, b>>
  <2>1. todo \in Seq({a, b}) /\ \A i \in 1..Len(todo) : todo[i] \in {a, b}
    OBVIOUS
  <2>2. work' = Front(work) \o todo  BY <1>5
  <2> HIDE DEF todo
  <2>3. \A i \in 1..Len(todo) : Local(todo[i])  BY ONLY <1>5, <2>1 DEF Local
  <2>4. Ordinary(todo)  BY ONLY <1>1, <2>1, <2>2, <2>3
  <2> QED BY <2>4 DEF todo
<1>6. ASSUME NEW a, NEW b, NEW c, Local(a), Local(b), Local(c), work' = Front(work) \o <<a, b, c>>
      PROVE  Ordinary(<<a, b, c>>)
  <2> DEFINE todo == <<a, b, c>>
  <2>1. todo \in Seq({a, b, c}) /\ \A i \in 1..Len(todo) : todo[i] \in {a, b, c}
    OBVIOUS
  <2>2. work' = Front(work) \o todo  BY <1>6
  <2> HIDE DEF todo
  <2>3. \A i \in 1..Len(todo) : Local(todo[i])  BY ONLY <1>6, <2>1 DEF Local
  <2>4. Ordinary(todo)  BY ONLY <1>1, <2>1, <2>2, <2>3
  <2> QED BY <2>4 DEF todo
<1> QED BY <1>3, <1>4, <1>5, <1>6

\* What becomes of the need for an open block when the current method goes on
\* with up to three tasks.
LEMMA NeedsTodos ==
  /\ (LeavesOpen(Top) /\ IsOpen => ~HasTerminator(blocks'[insert'])) => OrdinaryNeeds(<<>>)
  /\ \A a : /\ a.op # "gen"
            /\ LeavesOpen(Top) => LeavesOpen(a)
            /\ a.op \in NeedOps => ~HasTerminator(blocks'[insert'])
            => OrdinaryNeeds(<<a>>)
  /\ \A a, b : /\ a.op # "gen"
               /\ LeavesOpen(Top) => LeavesOpen(a)
               /\ a.op \in NeedOps => LeavesOpen(b)
               /\ b.op \in NeedOps => ~HasTerminator(blocks'[insert'])
               /\ b.op = "gen" /\ a.op \in NeedOps => ~HasTerminator(blocks'[insert'])
               => OrdinaryNeeds(<<a, b>>)
  /\ \A a, b, c : /\ a.op # "gen" /\ b.op # "gen" /\ c.op # "gen"
                  /\ LeavesOpen(Top) => LeavesOpen(a)
                  /\ LeavesOpen(b) /\ LeavesOpen(c) /\ ~HasTerminator(blocks'[insert'])
                  => OrdinaryNeeds(<<a, b, c>>)
<1> DEFINE open2 == ~HasTerminator(blocks'[insert'])
<1> HIDE DEF open2
<1>1. ASSUME LeavesOpen(Top) /\ IsOpen => open2
      PROVE  OrdinaryNeeds(<<>>)
  <2> DEFINE todo == <<>>
  <2>1. Len(todo) = 0  OBVIOUS
  <2> HIDE DEF todo
  <2>2. \A i \in 1..(Len(todo) - 1) : FALSE  BY ONLY <2>1, SMT
  <2>3. OrdinaryNeeds(todo)
    BY ONLY <1>1, <2>1, <2>2, SMT DEF OrdinaryNeeds, open2
  <2> QED BY <2>3 DEF todo
<1>2. ASSUME NEW a, a.op # "gen", LeavesOpen(Top) => LeavesOpen(a), a.op \in NeedOps => open2
      PROVE  OrdinaryNeeds(<<a>>)
  <2> DEFINE todo == <<a>>
  <2>1. Len(todo) = 1 /\ todo[1] = a  OBVIOUS
  <2> HIDE DEF todo
  <2>2. \A i \in 1..(Len(todo) - 1) : FALSE  BY ONLY <2>1, SMT
  <2>3. OrdinaryNeeds(todo)
    BY ONLY <1>2, <2>1, <2>2, SMT DEF OrdinaryNeeds, open2
  <2> QED BY <2>3 DEF todo
<1>3. ASSUME NEW a, NEW b, a.op # "gen", LeavesOpen(Top) => LeavesOpen(a),
             a.op \in NeedOps => LeavesOpen(b), b.op \in NeedOps => open2,
             b.op = "gen" /\ a.op \in NeedOps => open2
      PROVE  OrdinaryNeeds(<<a, b>>)
  <2> DEFINE todo == <<a, b>>
  <2>1. Len(todo) = 2 /\ todo[1] = a /\ todo[2] = b  OBVIOUS
  <2> HIDE DEF todo
  <2>2. /\ \A i \in 1..(Len(todo) - 1) : i = 1
        /\ Len(todo) - 1 = 1 /\ 1 + 1 = 2
    BY ONLY <2>1, SMT
  <2>3. \A i \in 1..(Len(todo) - 1) : /\ todo[i].op # "gen"
                                      /\ todo[i].op \in NeedOps => LeavesOpen(todo[i + 1])
    <3> TAKE i \in 1..(Len(todo) - 1)
    <3>1. todo[i] = a /\ todo[i + 1] = b
      BY ONLY <2>1, <2>2, i \in 1..(Len(todo) - 1)
    <3> QED BY ONLY <1>3, <3>1
  <2>4. OrdinaryNeeds(todo)
    BY ONLY <1>3, <2>1, <2>2, <2>3, SMT DEF OrdinaryNeeds, open2
  <2> QED BY <2>4 DEF todo
<1>4. ASSUME NEW a, NEW b, NEW c, a.op # "gen", b.op # "gen", c.op # "gen",
             LeavesOpen(Top) => LeavesOpen(a), LeavesOpen(b), LeavesOpen(c), open2
      PROVE  OrdinaryNeeds(<<a, b, c>>)
  <2> DEFINE todo == <<a, b, c>>
  <2>1. Len(todo) = 3 /\ todo[1] = a /\ todo[2] = b /\ todo[3] = c  OBVIOUS
  <2> HIDE DEF todo
  <2>2. /\ \A i \in 1..(Len(todo) - 1) : i = 1 \/ i = 2
        /\ Len(todo) - 1 = 2 /\ 1 + 1 = 2 /\ 2 + 1 = 3
    BY ONLY <2>1, SMT
  <2>3. \A i \in 1..(Len(todo) - 1) : /\ todo[i].op # "gen"
                                      /\ todo[i].op \in NeedOps => LeavesOpen(todo[i + 1])
    <3> TAKE i \in 1..(Len(todo) - 1)
    <3>1. \/ todo[i] = a /\ todo[i + 1] = b
          \/ todo[i] = b /\ todo[i + 1] = c
      BY ONLY <2>1, <2>2, i \in 1..(Len(todo) - 1)
    <3> QED BY ONLY <1>4, <3>1
  <2>4. OrdinaryNeeds(todo)
    BY ONLY <1>4, <2>1, <2>2, <2>3, SMT DEF OrdinaryNeeds, open2
  <2> QED BY <2>4 DEF todo
<1> QED BY <1>1, <1>2, <1>3, <1>4 DEF open2

\* A method that needs an open block finds one.
LEMMA FindsOpen ==
  ASSUME Flowing, work # <<>>, Top.op \in NeedOps, Len(work) \in Nat
  PROVE  IsOpen
<1>1. Len(work) > 0  BY EmptySeq, SMT
<1> QED BY <1>1 DEF Flowing, NeedOK, Top, Last

-----------------------------------------------------------------------------
(* How the methods other than those of functions and programs go on.       *)

\* The current method goes on with up to three tasks.
LEMMA GoesOn ==
  ASSUME Going
  PROVE  /\ /\ work' = Front(work) \o <<>>
            /\ LeavesOpen(Top) /\ IsOpen => OpenAfter
            => Goes(<<>>)
         /\ \A a : /\ work' = Front(work) \o <<a>>
                   /\ Local(a) /\ a.op # "gen" /\ LoopTaskOK(blocks', a)
                   /\ LeavesOpen(Top) => LeavesOpen(a)
                   /\ a.op \in NeedOps => OpenAfter
                   => Goes(<<a>>)
         /\ \A a, b : /\ work' = Front(work) \o <<a, b>>
                      /\ Local(a) /\ a.op # "gen" /\ LoopTaskOK(blocks', a)
                      /\ Local(b) /\ LoopTaskOK(blocks', b)
                      /\ LeavesOpen(Top) => LeavesOpen(a)
                      /\ a.op \in NeedOps => LeavesOpen(b)
                      /\ b.op \in NeedOps => OpenAfter
                      /\ b.op = "gen" /\ a.op \in NeedOps => OpenAfter
                      => Goes(<<a, b>>)
         /\ \A a, b, c : /\ work' = Front(work) \o <<a, b, c>>
                         /\ Local(a) /\ a.op # "gen" /\ LoopTaskOK(blocks', a)
                         /\ Local(b) /\ b.op # "gen" /\ LoopTaskOK(blocks', b)
                         /\ Local(c) /\ c.op # "gen" /\ LoopTaskOK(blocks', c)
                         /\ LeavesOpen(Top) => LeavesOpen(a)
                         /\ LeavesOpen(b) /\ LeavesOpen(c) /\ OpenAfter
                         => Goes(<<a, b, c>>)
<1>1. /\ work' = Front(work) \o <<>> => Ordinary(<<>>)
      /\ \A a : Local(a) /\ work' = Front(work) \o <<a>> => Ordinary(<<a>>)
      /\ \A a, b : Local(a) /\ Local(b) /\ work' = Front(work) \o <<a, b>> => Ordinary(<<a, b>>)
      /\ \A a, b, c : Local(a) /\ Local(b) /\ Local(c) /\ work' = Front(work) \o <<a, b, c>> =>
           Ordinary(<<a, b, c>>)
  BY OrdinaryTodos DEF Going
<1>2. status' = status  BY DEF Going
<1>3. \A i \in 1..Len(<<>>) : FALSE  BY EmptySeq, SMT
<1>4. ASSUME NEW a, LoopTaskOK(blocks', a)
      PROVE  \A i \in 1..Len(<<a>>) : LoopTaskOK(blocks', <<a>>[i])
  <2>1. \A i \in 1..Len(<<a>>) : <<a>>[i] = a  OBVIOUS
  <2> QED BY <1>4, <2>1
<1>5. ASSUME NEW a, NEW b, LoopTaskOK(blocks', a), LoopTaskOK(blocks', b)
      PROVE  \A i \in 1..Len(<<a, b>>) : LoopTaskOK(blocks', <<a, b>>[i])
  <2>1. \A i \in 1..Len(<<a, b>>) : <<a, b>>[i] = a \/ <<a, b>>[i] = b  OBVIOUS
  <2> QED BY <1>5, <2>1
<1>6. ASSUME NEW a, NEW b, NEW c, LoopTaskOK(blocks', a), LoopTaskOK(blocks', b), LoopTaskOK(blocks', c)
      PROVE  \A i \in 1..Len(<<a, b, c>>) : LoopTaskOK(blocks', <<a, b, c>>[i])
  <2>1. \A i \in 1..Len(<<a, b, c>>) : <<a, b, c>>[i] = a \/ <<a, b, c>>[i] = b \/ <<a, b, c>>[i] = c
    OBVIOUS
  <2> QED BY <1>6, <2>1
<1>7. /\ work' = Front(work) \o <<>>
      /\ LeavesOpen(Top) /\ IsOpen => OpenAfter
      => Goes(<<>>)
  BY ONLY <1>1, <1>2, <1>3, NeedsTodos DEF Goes, OpenAfter
<1>8. ASSUME NEW a, work' = Front(work) \o <<a>>, Local(a), a.op # "gen", LoopTaskOK(blocks', a),
             LeavesOpen(Top) => LeavesOpen(a), a.op \in NeedOps => OpenAfter
      PROVE  Goes(<<a>>)
  BY ONLY <1>1, <1>2, <1>4, <1>8, NeedsTodos DEF Goes, OpenAfter
<1>9. ASSUME NEW a, NEW b, work' = Front(work) \o <<a, b>>,
             Local(a), a.op # "gen", LoopTaskOK(blocks', a), Local(b), LoopTaskOK(blocks', b),
             LeavesOpen(Top) => LeavesOpen(a), a.op \in NeedOps => LeavesOpen(b),
             b.op \in NeedOps => OpenAfter, b.op = "gen" /\ a.op \in NeedOps => OpenAfter
      PROVE  Goes(<<a, b>>)
  BY ONLY <1>1, <1>2, <1>5, <1>9, NeedsTodos DEF Goes, OpenAfter
<1>10. ASSUME NEW a, NEW b, NEW c, work' = Front(work) \o <<a, b, c>>,
              Local(a), a.op # "gen", LoopTaskOK(blocks', a), Local(b), b.op # "gen",
              LoopTaskOK(blocks', b), Local(c), c.op # "gen", LoopTaskOK(blocks', c),
              LeavesOpen(Top) => LeavesOpen(a), LeavesOpen(b), LeavesOpen(c), OpenAfter
       PROVE  Goes(<<a, b, c>>)
  BY ONLY <1>1, <1>2, <1>6, <1>10, NeedsTodos DEF Goes, OpenAfter
<1> QED BY <1>7, <1>8, <1>9, <1>10

\* A method that changes no block goes on.
LEMMA StillFlow ==
  ASSUME NEW todo, Goes(todo), blocks' = blocks, insert' = insert
  PROVE  VInv'
<1>1. /\ Len(blocks) \in Nat /\ insert \in 1..Len(blocks) /\ Ordinary(todo)
  BY OrdinaryContext DEF Goes
<1>2. FlowOK(blocks) /\ TypeOK  BY <1>1 DEF Ordinary, Flowing, IInv
<1>3. \A c \in 1..Len(blocks) : Continued(c) => Targets(blocks[c]) = {}
  <2>1. IsOpen => Targets(blocks[insert]) = {}  BY DEF IsOpen, Targets
  <2> QED BY ONLY <1>1, <2>1, SMT DEF Continued
<1>4. \A c \in 1..Len(blocks) : ~(c > Len(blocks))  BY ONLY <1>1, SMT
<1>5. OrdinaryEnds
  <2>1. Len(blocks) <= Len(blocks)  BY <1>1, SMT
  <2> QED BY ONLY blocks' = blocks, insert' = insert, <1>3, <1>4, <2>1 DEF OrdinaryEnds, SameEnd
<1>6. OrdinaryHeads(todo)
  BY ONLY Goes(todo), blocks' = blocks DEF OrdinaryHeads, Goes
<1> QED BY ONLY Goes(todo), <1>1, <1>2, <1>5, <1>6, blocks' = blocks, OrdinaryFlow DEF Goes

\* Put adds code to a block.
LEMMA PutCode ==
  ASSUME NEW n \in Nat, NEW m \in Nat, NEW bs \in Seq(BlockSet(n, m)), NEW b, b \in 1..Len(bs),
         NEW code \in Seq(InstructionSet(n)),
         NEW r, r = Put(bs, b, code)
  PROVE  Extends(bs[b], r[b], code)
<1>1. b \in 1..Len(bs) => bs[b].code \in Seq(InstructionSet(n)) /\ bs[b].fn \in 0..m
  BY BlockParts
<1> DEFINE fn   == bs[b].fn
           more == bs[b].code \o code
<1>2. b \in 1..Len(bs) => more \in Seq(InstructionSet(n))  BY <1>1
<1>3. b \in 1..Len(bs) => fn \in 0..m  BY <1>1
<1>4. r = Updated(bs, b, Block(fn, more))  BY DEF Put, Updated
<1> HIDE DEF fn, more
<1>5. /\ r \in Seq(BlockSet(n, m)) /\ Len(r) = Len(bs)
      /\ \A c \in 1..Len(bs) : /\ c = b => r[c].fn = fn /\ r[c].code = more
                               /\ c # b => r[c] = bs[c]
  BY ONLY <1>2, <1>3, <1>4, n \in Nat, m \in Nat, bs \in Seq(BlockSet(n, m)), UpdateBlock
<1> QED BY <1>5 DEF more, Extends

\* A method adds code to the open insert block, and new blocks after it.
LEMMA GrowFlow ==
  ASSUME NEW todo, Goes(todo), IsOpen,
         NEW S, NEW code \in Seq(S), blocks[insert].code \in Seq(S),
         Len(blocks) <= Len(blocks'),
         \A c \in 1..Len(blocks) : /\ blocks'[c].fn = blocks[c].fn
                                   /\ c # insert => blocks'[c] = blocks[c],
         Extends(blocks[insert], blocks'[insert], code),
         \/ Straight(code) /\ insert' = insert
         \/ /\ Branching(code)
            /\ \A i \in 1..Len(code[Len(code)].to) :
                 code[Len(code)].to[i] > Len(blocks) /\ code[Len(code)].to[i] \in 1..Len(blocks'),
         \A c \in 1..Len(blocks') : c > Len(blocks) =>
           /\ blocks'[c].fn \in {NoParent, Top.fn}
           /\ HasTerminator(blocks'[c]) \/ blocks'[c].fn = NoParent \/ c = insert'
           /\ EndsOnce(blocks'[c]) /\ PhisMatch(blocks', c)
           /\ \A t \in Targets(blocks'[c]) : t > Len(blocks) /\ t \in 1..Len(blocks')
  PROVE  VInv'
<1>1. /\ Len(blocks) \in Nat /\ Len(blocks') \in Nat /\ insert \in 1..Len(blocks) /\ Ordinary(todo)
      /\ \A f \in 1..Len(functions) : functions[f].entry \in 1..Len(blocks)
  BY OrdinaryContext DEF Goes
<1>2. FlowOK(blocks)  BY <1>1 DEF Ordinary, Flowing
<1>3. EndsOnce(blocks[insert]) /\ ~HasTerminator(blocks[insert]) /\ Targets(blocks[insert]) = {}
  BY <1>1, <1>2 DEF FlowOK, IsOpen, Targets
<1>4. /\ Straight(code) => /\ Keeps(blocks[insert], blocks'[insert])
                           /\ EndsOnce(blocks'[insert]) /\ ~HasTerminator(blocks'[insert])
      /\ Branching(code) =>
           /\ SamePhis(blocks[insert], blocks'[insert])
           /\ EndsOnce(blocks'[insert]) /\ HasTerminator(blocks'[insert])
           /\ Targets(blocks'[insert]) = {code[Len(code)].to[i] : i \in 1..Len(code[Len(code)].to)}
  BY <1>3, AppendCode DEF Extends
<1>5. /\ SamePhis(blocks[insert], blocks'[insert]) /\ EndsOnce(blocks'[insert])
      /\ \A t \in Targets(blocks'[insert]) : t > Len(blocks) /\ t \in 1..Len(blocks')
      /\ insert' = insert \/ HasTerminator(blocks'[insert])
  <2>1. CASE Straight(code) /\ insert' = insert
    BY <1>3, <1>4, <2>1 DEF Keeps, SameEnd
  <2>2. CASE ~(Straight(code) /\ insert' = insert)  BY <1>4, <2>2
  <2> QED BY <2>1, <2>2
<1>6. \A t : t > Len(blocks) => ~IsEntry(t)  BY ONLY <1>1, SMT DEF IsEntry
<1>7. \A c \in 1..Len(blocks) : ~(c > Len(blocks)) /\ (c # insert => Keeps(blocks[c], blocks'[c]))
  <2> TAKE c \in 1..Len(blocks)
  <2>1. ~(c > Len(blocks))  BY ONLY <1>1, c \in 1..Len(blocks), SMT
  <2>2. Keeps(blocks[c], blocks[c])
    <3>1. \A i \in 1..Len(blocks[c].code) : i \in 1..Len(blocks[c].code)  OBVIOUS
    <3> QED BY <3>1 DEF Keeps, SameEnd, SamePhis
  <2> QED BY <2>1, <2>2
<1>8. OrdinaryEnds
  <2>1. \A c \in 1..Len(blocks) : ~Continued(c) => SameEnd(blocks[c], blocks'[c])
    BY <1>7 DEF Continued, Keeps
  <2>2. ASSUME NEW c \in 1..Len(blocks'), Continued(c), NEW t \in Targets(blocks'[c])
        PROVE  t \in 1..Len(blocks') /\ Near(t) /\ ~IsEntry(t)
    BY <1>5, <1>6, <2>2 DEF Continued, Near
  <2> QED BY <1>5, <2>1, <2>2 DEF OrdinaryEnds
<1>9. OrdinaryHeads(todo)
  <2>1. ASSUME NEW c \in 1..Len(blocks), Plain(blocks[c]) PROVE Plain(blocks'[c])
    BY <1>5, <2>1, PlainStays
  <2>2. ASSUME NEW c \in 1..Len(blocks), PrintLoopHead(blocks[c]) PROVE PrintLoopHead(blocks'[c])
    <3>1. c # insert  BY <1>3, <2>2 DEF PrintLoopHead
    <3> QED BY <2>2, <3>1
  <2> QED BY <2>1, <2>2 DEF Goes, OrdinaryHeads
<1>10. FlowOK(blocks')
  <2> DEFINE bs2 == blocks'
             x   == 0
  <2>1. \A c : LeadsToPlain(blocks, bs2, c, x) <=>
                 \A t \in Targets(bs2[c]) : t \in 1..Len(blocks) => t = x \/ Plain(blocks[t])
    BY DEF LeadsToPlain
  <2>2. \A t : t > Len(blocks) => ~(t \in 1..Len(blocks))  BY ONLY <1>1, SMT
  <2>3. ASSUME NEW c \in 1..Len(blocks) PROVE KeepsFlow(blocks, bs2, c, x)
    <3>1. c # x  BY SMT
    <3>2. CASE c = insert  BY <1>3, <1>5, <2>1, <2>2, <3>1, <3>2 DEF KeepsFlow
    <3> QED BY <1>7, <3>1, <3>2 DEF KeepsFlow
  <2>4. ASSUME NEW c \in 1..Len(bs2), c > Len(blocks)
        PROVE  EndsOnce(bs2[c]) /\ PhisMatch(bs2, c) /\ LeadsToPlain(blocks, bs2, c, x)
    BY <2>1, <2>2, <2>4
  <2>5. Len(bs2) \in Nat /\ Len(blocks) <= Len(bs2)  BY <1>1
  <2> HIDE DEF bs2, x
  <2>6. FlowOK(bs2)  BY ONLY <1>1, <1>2, <2>3, <2>4, <2>5, FlowStep
  <2> QED BY <2>6 DEF bs2
<1> QED BY ONLY Goes(todo), <1>1, <1>8, <1>9, <1>10, OrdinaryFlow DEF Goes

\* Where a method is that goes on.
LEMMA GoingContext ==
  ASSUME Going
  PROVE  /\ Len(blocks) \in Nat /\ Len(functions) \in Nat /\ Len(work) \in Nat
         /\ blocks \in Seq(BlockSet(Len(blocks), Len(functions)))
         /\ TaskOK(Top, Len(blocks), Len(functions)) /\ TaskArgOK(Top, Len(blocks))
         /\ Top.fn \in 0..Len(functions) /\ Top.fn # 0
         /\ insert \in 1..Len(blocks) /\ blocks[insert].fn = Top.fn
         /\ blocks[insert].code \in Seq(InstructionSet(Len(blocks)))
         /\ EndsOnce(blocks[insert]) /\ Flowing
         /\ Top.op \in NeedOps => IsOpen
<1>1. /\ Len(blocks) \in Nat /\ Len(functions) \in Nat /\ Len(work) \in Nat
      /\ blocks \in Seq(BlockSet(Len(blocks), Len(functions)))
      /\ TaskOK(Top, Len(blocks), Len(functions)) /\ TaskArgOK(Top, Len(blocks))
      /\ Top.fn \in 0..Len(functions) /\ Top.fn # 0
      /\ insert \in 1..Len(blocks) /\ blocks[insert].fn = Top.fn
  BY Context DEF Going
<1>2. blocks[insert].code \in Seq(InstructionSet(Len(blocks)))
  BY ONLY <1>1, BlockParts
<1>3. Flowing /\ work # <<>>  BY DEF Going, VInv
<1>4. EndsOnce(blocks[insert])  BY <1>1, <1>3 DEF Flowing, FlowOK
<1>5. Top.op \in NeedOps => IsOpen  BY <1>1, <1>3, FindsOpen
<1> QED BY ONLY <1>1, <1>2, <1>3, <1>4, <1>5

\* A method adds code to the open insert block.
LEMMA PutFlow ==
  ASSUME Going, IsOpen, NEW code \in Seq(InstructionSet(Len(blocks))),
         blocks' = Put(blocks, insert, code), insert' = insert,
         Straight(code) \/ (Branching(code) /\ Len(code[Len(code)].to) = 0)
  PROVE  /\ Straight(code) => OpenAfter
         /\ \A todo : Goes(todo) => VInv'
<1> DEFINE n == Len(blocks)
           S == InstructionSet(n)
           bs2 == blocks'
<1>1. /\ n \in Nat /\ Len(functions) \in Nat /\ blocks \in Seq(BlockSet(n, Len(functions)))
      /\ insert \in 1..n /\ blocks[insert].code \in Seq(S) /\ EndsOnce(blocks[insert])
  BY GoingContext
<1>2. bs2 = Put(blocks, insert, code) /\ code \in Seq(S)  OBVIOUS
<1> HIDE DEF bs2
<1>3. /\ Len(bs2) = n
      /\ \A c \in 1..n : /\ bs2[c].fn = blocks[c].fn
                         /\ c # insert => bs2[c] = blocks[c]
  BY ONLY <1>1, <1>2, PutType DEF S, n
<1>4. Extends(blocks[insert], bs2[insert], code)
  BY ONLY <1>1, <1>2, <1>3, PutCode DEF S, n
<1>5. Straight(code) => ~HasTerminator(bs2[insert])
  BY ONLY <1>1, <1>4, IsOpen, code \in Seq(InstructionSet(Len(blocks))), AppendCode DEF IsOpen, S, n, Extends
<1>6. ASSUME NEW todo, Goes(todo) PROVE VInv'
  <2>1. Len(blocks) <= Len(bs2) /\ \A c \in 1..Len(bs2) : ~(c > Len(blocks))
    BY ONLY <1>1, <1>3, SMT DEF n
  <2>2. \/ Straight(code) /\ insert' = insert
        \/ /\ Branching(code)
           /\ \A i \in 1..Len(code[Len(code)].to) :
                code[Len(code)].to[i] > Len(blocks) /\ code[Len(code)].to[i] \in 1..Len(bs2)
    <3>1. Len(code[Len(code)].to) = 0 => \A i \in 1..Len(code[Len(code)].to) : FALSE
      BY SMT
    <3> QED BY <3>1
  <2> HIDE DEF S
  <2>3. /\ Len(blocks) <= Len(blocks')
        /\ \A c \in 1..Len(blocks) : /\ blocks'[c].fn = blocks[c].fn
                                     /\ c # insert => blocks'[c] = blocks[c]
        /\ Extends(blocks[insert], blocks'[insert], code)
        /\ \A c \in 1..Len(blocks') : ~(c > Len(blocks))
        /\ \/ Straight(code) /\ insert' = insert
           \/ /\ Branching(code)
              /\ \A i \in 1..Len(code[Len(code)].to) :
                   code[Len(code)].to[i] > Len(blocks) /\ code[Len(code)].to[i] \in 1..Len(blocks')
    BY ONLY <1>3, <1>4, <2>1, <2>2 DEF bs2, n
  <2> QED BY ONLY <1>1, <1>2, <1>6, <2>3, IsOpen, GrowFlow
<1> QED BY <1>5, <1>6 DEF bs2, OpenAfter

\* The blocks of a method that adds new blocks, and code to the insert block.
LEMMA NewBlocks ==
  ASSUME Going, NEW n2 \in Nat, NEW new \in Seq(BlockSet(n2, Len(functions))),
         n2 = Len(blocks) + Len(new), NEW code \in Seq(InstructionSet(n2)),
         blocks' = Put(blocks, insert, code) \o new
  PROVE  /\ Len(new) \in Nat /\ Len(blocks) <= n2 /\ Len(blocks') = n2
         /\ \A c \in 1..Len(blocks) : /\ blocks'[c].fn = blocks[c].fn
                                      /\ c # insert => blocks'[c] = blocks[c]
         /\ \A i \in 1..Len(new) : Len(blocks) + i \in 1..n2 /\ blocks'[Len(blocks) + i] = new[i]
         /\ \A c \in 1..n2 : c > Len(blocks) =>
              \E i \in 1..Len(new) : c = Len(blocks) + i /\ blocks'[c] = new[i]
         /\ Extends(blocks[insert], blocks'[insert], code)
         /\ InstructionSet(Len(blocks)) \subseteq InstructionSet(n2)
<1> DEFINE n == Len(blocks)
           m == Len(functions)
           bs2 == blocks'
<1>1. /\ n \in Nat /\ m \in Nat /\ blocks \in Seq(BlockSet(n, m))
      /\ insert \in 1..n /\ blocks[insert].code \in Seq(InstructionSet(n))
  BY GoingContext
<1>2. Len(new) \in Nat /\ n <= n2
  <2>1. Len(new) \in Nat  OBVIOUS
  <2> QED BY ONLY <1>1, <2>1, n2 = Len(blocks) + Len(new), SMT DEF n
<1>3. bs2 = Put(blocks, insert, code) \o new  OBVIOUS
<1> HIDE DEF bs2
<1>4. Grown(blocks, insert, new, n, n2, m, bs2)
  <2>1. Len(blocks) = n /\ n2 = n + Len(new) /\ new \in Seq(BlockSet(n2, m))
    OBVIOUS
  <2> HIDE DEF n, m
  <2> QED BY ONLY <1>1, <1>3, <2>1, n2 \in Nat, code \in Seq(InstructionSet(n2)), Grow
<1>5. /\ Len(bs2) = n2
      /\ \A c \in 1..n : /\ bs2[c].fn = blocks[c].fn
                         /\ c # insert => bs2[c] = blocks[c]
      /\ \A i \in 1..Len(new) : bs2[n + i] = new[i]
      /\ \A c \in 1..n2 : c > n => \E i \in 1..Len(new) : c = n + i /\ bs2[c] = new[i]
  BY ONLY <1>4 DEF Grown
<1>6. Extends(blocks[insert], bs2[insert], code)
  <2> DEFINE ps == Put(blocks, insert, code)
             S  == BlockSet(n2, m)
  <2>1. blocks \in Seq(S) /\ blocks \in Seq(BlockSet(n2, m))
    BY <1>1, <1>2, BlockSetsGrow
  <2>2. Len(blocks) = n /\ ps = Put(blocks, insert, code) /\ insert \in 1..Len(blocks)
    BY <1>1
  <2> HIDE DEF ps, n, m
  <2>3. Extends(blocks[insert], ps[insert], code)
    BY ONLY <1>1, <2>1, <2>2, n2 \in Nat, code \in Seq(InstructionSet(n2)), PutCode
  <2>4. ps \in Seq(BlockSet(n2, m)) /\ Len(ps) = n
    BY ONLY <1>1, <2>1, <2>2, n2 \in Nat, code \in Seq(InstructionSet(n2)), PutType
  <2>5. bs2 = ps \o new /\ new \in Seq(S) /\ ps \in Seq(S)
    BY <1>3, <2>4 DEF ps, m
  <2> HIDE DEF S
  <2>6. bs2[insert] = ps[insert]
    <3>1. /\ \A i \in 1..(Len(ps) + Len(new)) : i <= Len(ps) => bs2[i] = ps[i]
      BY ONLY <2>5, Joined
    <3>2. insert \in 1..(Len(ps) + Len(new)) /\ insert <= Len(ps)
      BY ONLY <1>1, <1>2, <2>4, SMT
    <3> QED BY ONLY <3>1, <3>2
  <2> QED BY <2>3, <2>6
<1>7. \A i \in 1..Len(new) : n + i \in 1..n2
  BY ONLY <1>1, <1>2, n2 = Len(blocks) + Len(new), SMT DEF n
<1>8. InstructionSet(n) \subseteq InstructionSet(n2)
  BY <1>1, <1>2, BlockSetsGrow
<1> QED BY <1>2, <1>5, <1>6, <1>7, <1>8 DEF bs2

\* A method adds new blocks, and code that ends the insert block.
LEMMA NewFlow ==
  ASSUME Going, IsOpen, NEW n2 \in Nat, NEW new \in Seq(BlockSet(n2, Len(functions))),
         n2 = Len(blocks) + Len(new), NEW code \in Seq(InstructionSet(n2)),
         blocks' = Put(blocks, insert, code) \o new,
         NEW x, insert' = Len(blocks) + x, Branching(code),
         \A i \in 1..Len(code[Len(code)].to) :
           code[Len(code)].to[i] > Len(blocks) /\ code[Len(code)].to[i] \in 1..n2,
         NewFlowOK(new, x, Len(blocks))
  PROVE  \A todo : Goes(todo) => VInv'
<1> SUFFICES ASSUME NEW todo, Goes(todo) PROVE VInv'
  OBVIOUS
<1> DEFINE S == InstructionSet(n2)
<1>1. /\ Len(blocks) <= Len(blocks') /\ Len(blocks') = n2
      /\ \A c \in 1..Len(blocks) : /\ blocks'[c].fn = blocks[c].fn
                                   /\ c # insert => blocks'[c] = blocks[c]
      /\ \A c \in 1..n2 : c > Len(blocks) =>
           \E i \in 1..Len(new) : c = Len(blocks) + i /\ blocks'[c] = new[i]
      /\ Extends(blocks[insert], blocks'[insert], code)
      /\ InstructionSet(Len(blocks)) \subseteq InstructionSet(n2)
  BY NewBlocks
<1>2. blocks[insert].code \in Seq(S) /\ code \in Seq(S)  BY <1>1, GoingContext
<1>3. ASSUME NEW c \in 1..Len(blocks'), c > Len(blocks)
      PROVE  /\ blocks'[c].fn \in {NoParent, Top.fn}
             /\ HasTerminator(blocks'[c]) \/ blocks'[c].fn = NoParent \/ c = insert'
             /\ EndsOnce(blocks'[c]) /\ PhisMatch(blocks', c)
             /\ \A t \in Targets(blocks'[c]) : t > Len(blocks) /\ t \in 1..Len(blocks')
  <2>1. PICK i \in 1..Len(new) : c = Len(blocks) + i /\ blocks'[c] = new[i]
    BY <1>1, <1>3
  <2>2. /\ new[i].fn \in {NoParent, Top.fn}
        /\ HasTerminator(new[i]) \/ new[i].fn = NoParent \/ i = x
        /\ EndsOnce(new[i])
        /\ Plain(new[i]) \/ PhisMatch(blocks', Len(blocks) + i)
        /\ \A t \in Targets(new[i]) : t > Len(blocks) /\ t \in 1..(Len(blocks) + Len(new))
    BY DEF NewFlowOK
  <2>3. PhisMatch(blocks', c)
    <3>1. Plain(blocks'[c]) => PhisMatch(blocks', c)  BY DEF Plain, PhisMatch
    <3> QED BY <2>1, <2>2, <3>1
  <2> QED BY <1>1, <2>1, <2>2, <2>3
<1>4. \A i \in 1..Len(code[Len(code)].to) :
        code[Len(code)].to[i] > Len(blocks) /\ code[Len(code)].to[i] \in 1..Len(blocks')
  BY <1>1
<1> HIDE DEF S
<1> QED BY ONLY Goes(todo), <1>1, <1>2, <1>3, <1>4, IsOpen, Branching(code), GrowFlow

\* Blocks that are owed are empty.
LEMMA OwedBlocks ==
  ASSUME Going, NEW b \in Owed(Len(work))
  PROVE  /\ b \in 1..Len(blocks) /\ blocks[b].fn = NoParent /\ blocks[b].code = <<>>
         /\ b # insert /\ ~IsEntry(b) /\ Plain(blocks[b])
<1>1. /\ insert \in 1..Len(blocks) /\ blocks[insert].fn # 0 /\ Top = work[Len(work)]
      /\ Len(work) \in 1..Len(work)
  <2>1. Len(work) \in Nat /\ Len(work) >= 2 /\ Top = work[Len(work)]
    BY Context DEF Going
  <2>2. Len(work) \in 1..Len(work)  BY ONLY <2>1, SMT
  <2> QED BY <2>1, <2>2, GoingContext
<1>2. OwedOK /\ DetachedOK /\ EntriesOK /\ TypeOK  BY DEF Going, IInv
<1>3. PICK i \in 1..Len(work[Len(work)].owe) : work[Len(work)].owe[i] = b
  BY DEF Owed
<1>4. b \in 1..Len(blocks)
  <2>1. work[Len(work)].owe \in Seq(1..Len(blocks))
    BY ONLY <1>1, <1>2 DEF TypeOK, TaskOK
  <2> QED BY ONLY <1>3, <2>1, ElementOf
<1>5. blocks[b].fn = 0  BY ONLY <1>1, <1>2, <1>3 DEF OwedOK, NoParent
<1>6. blocks[b].code = <<>>  BY ONLY <1>2, <1>4, <1>5 DEF DetachedOK, NoParent
<1>7. ~IsEntry(b)
  <2>1. Len(functions) \in Nat  BY ONLY <1>2 DEF TypeOK
  <2>2. \A f \in 1..Len(functions) : f # 0  BY ONLY <2>1, SMT
  <2> QED BY ONLY <1>2, <1>5, <2>2 DEF IsEntry, EntriesOK
<1>8. Plain(blocks[b])  BY <1>6, EmptySeq, SMT DEF Plain
<1> QED BY <1>1, <1>4, <1>5, <1>6, <1>7, <1>8 DEF NoParent

\* A method moves to a block it owes, and lets the path it comes from fall
\* through.
LEMMA AttachFlow ==
  ASSUME NEW todo, Goes(todo), Going, NEW b \in Owed(Len(work)), insert' = b,
         Len(blocks') = Len(blocks),
         \A c \in 1..Len(blocks) : /\ c # b => blocks'[c].fn = blocks[c].fn
                                   /\ c # insert /\ c # b => blocks'[c] = blocks[c],
         NEW S, blocks[insert].code \in Seq(S),
         blocks'[b].fn = Top.fn, blocks'[b].code \in Seq(S), Straight(blocks'[b].code),
         \/ ~IsOpen /\ blocks'[insert] = blocks[insert]
         \/ /\ IsOpen
            /\ \E code \in Seq(S) :
                 /\ Branching(code) /\ Extends(blocks[insert], blocks'[insert], code)
                 /\ \A i \in 1..Len(code[Len(code)].to) : MayLeadTo(code[Len(code)].to[i])
  PROVE  VInv'
<1>1. /\ Len(blocks) \in Nat /\ insert \in 1..Len(blocks) /\ Ordinary(todo)
      /\ EndsOnce(blocks[insert]) /\ Flowing
  BY GoingContext DEF Goes
<1>2. /\ b \in 1..Len(blocks) /\ blocks[b].fn = NoParent /\ blocks[b].code = <<>>
      /\ b # insert /\ ~IsEntry(b) /\ Plain(blocks[b])
      /\ ~HasTerminator(blocks[b]) /\ Targets(blocks[b]) = {}
  BY OwedBlocks, NoEdges
<1>3. ASSUME NEW t, MayLeadTo(t)
      PROVE  t \in 1..Len(blocks) /\ Near(t) /\ ~IsEntry(t) /\ Plain(blocks[t])
  BY <1>3, OwedBlocks DEF MayLeadTo, Near
<1>4. /\ SameEnd(blocks[b], blocks'[b]) /\ EndsOnce(blocks'[b]) /\ SamePhis(blocks[b], blocks'[b])
      /\ Targets(blocks'[b]) = {}
  <2>1. blocks'[b].code = <<>> \o blocks'[b].code
    <3> DEFINE s == blocks'[b].code
    <3>1. s \in Seq(S)  OBVIOUS
    <3> HIDE DEF s
    <3>2. <<>> \o s = s  BY ONLY <3>1, ConcatEmptySeq
    <3> QED BY <3>2 DEF s
  <2>2. blocks[b].code \in Seq(S) /\ EndsOnce(blocks[b])
    <3>1. Len(<<>>) = 0 /\ <<>> \in Seq(S)  BY EmptySeq
    <3>2. \A i \in 1..(Len(blocks[b].code) - 1) : FALSE  BY <1>2, <3>1, SMT
    <3> QED BY <1>2, <3>1, <3>2 DEF EndsOnce
  <2> DEFINE s == blocks'[b].code
  <2>3. blocks'[b].code = blocks[b].code \o s /\ s \in Seq(S) /\ Straight(s)
    BY <1>2, <2>1
  <2> HIDE DEF s
  <2>4. Keeps(blocks[b], blocks'[b]) /\ EndsOnce(blocks'[b])
    BY ONLY <1>2, <2>2, <2>3, AppendCode
  <2> QED BY <1>2, <2>4 DEF Keeps, SameEnd
<1>5. /\ SamePhis(blocks[insert], blocks'[insert]) /\ EndsOnce(blocks'[insert])
      /\ HasTerminator(blocks'[insert])
      /\ ~IsOpen => Keeps(blocks[insert], blocks'[insert])
      /\ IsOpen => /\ Targets(blocks[insert]) = {}
                   /\ \A t \in Targets(blocks'[insert]) : MayLeadTo(t)
  <2>1. Keeps(blocks[insert], blocks[insert])  BY <1>1, SameCode
  <2>2. CASE ~IsOpen /\ blocks'[insert] = blocks[insert]
    BY <1>1, <2>1, <2>2 DEF IsOpen, Keeps
  <2>3. ASSUME IsOpen, NEW code \in Seq(S), Branching(code),
               Extends(blocks[insert], blocks'[insert], code),
               \A i \in 1..Len(code[Len(code)].to) : MayLeadTo(code[Len(code)].to[i])
        PROVE  /\ SamePhis(blocks[insert], blocks'[insert]) /\ EndsOnce(blocks'[insert])
               /\ HasTerminator(blocks'[insert]) /\ Targets(blocks[insert]) = {}
               /\ \A t \in Targets(blocks'[insert]) : MayLeadTo(t)
    <3>1. /\ SamePhis(blocks[insert], blocks'[insert])
          /\ EndsOnce(blocks'[insert]) /\ HasTerminator(blocks'[insert])
          /\ Targets(blocks'[insert]) = {code[Len(code)].to[i] : i \in 1..Len(code[Len(code)].to)}
      BY <1>1, <2>3, AppendCode, Zenon DEF Extends, IsOpen
    <3>2. Targets(blocks[insert]) = {}  BY <2>3 DEF IsOpen, Targets
    <3> QED BY <2>3, <3>1, <3>2
  <2> QED BY <2>2, <2>3
<1>6. \A c \in 1..Len(blocks) : ~(c > Len(blocks)) /\ Keeps(blocks[c], blocks[c])
  <2> TAKE c \in 1..Len(blocks)
  <2>1. ~(c > Len(blocks))  BY ONLY <1>1, c \in 1..Len(blocks), SMT
  <2>2. \A i \in 1..Len(blocks[c].code) : i \in 1..Len(blocks[c].code)  OBVIOUS
  <2> QED BY <2>1, <2>2 DEF Keeps, SameEnd, SamePhis
<1>7. OrdinaryEnds
  <2>1. \A c \in 1..Len(blocks) : ~Continued(c) => SameEnd(blocks[c], blocks'[c])
    BY <1>4, <1>5, <1>6 DEF Continued, Keeps
  <2>2. ASSUME NEW c \in 1..Len(blocks), Continued(c), NEW t \in Targets(blocks'[c])
        PROVE  t \in 1..Len(blocks) /\ Near(t) /\ ~IsEntry(t)
    BY <1>3, <1>5, <1>6, <2>2 DEF Continued
  <2>3. \A c \in 1..Len(blocks) :
          \/ blocks'[c].fn = blocks[c].fn
          \/ c \in Owed(Len(work)) /\ blocks'[c].fn = Top.fn /\ c = insert'
    OBVIOUS
  <2>4. Len(blocks) <= Len(blocks')  BY <1>1, SMT
  <2> QED BY <1>5, <1>6, <2>1, <2>2, <2>3, <2>4 DEF OrdinaryEnds
<1>8. OrdinaryHeads(todo)
  <2>1. \A c \in 1..Len(blocks) : SamePhis(blocks[c], blocks'[c])
    BY <1>4, <1>5, <1>6 DEF Keeps
  <2>2. ASSUME NEW c \in 1..Len(blocks), Plain(blocks[c]) PROVE Plain(blocks'[c])
    BY <2>1, <2>2, PlainStays
  <2>3. ASSUME NEW c \in 1..Len(blocks), PrintLoopHead(blocks[c]) PROVE PrintLoopHead(blocks'[c])
    <3>1. c # b  BY <1>2, <2>3 DEF PrintLoopHead
    <3>2. c = insert => blocks'[c] = blocks[c]  BY <2>3 DEF PrintLoopHead, IsOpen
    <3> QED BY <2>3, <3>1, <3>2
  <2> QED BY <2>2, <2>3 DEF Goes, OrdinaryHeads
<1>9. FlowOK(blocks')
  <2> DEFINE bs2 == blocks'
             x   == 0
  <2>1. ASSUME NEW c \in 1..Len(blocks) PROVE KeepsFlow(blocks, bs2, c, x)
    <3>1. c # x  BY SMT
    <3>2. CASE c = b  BY <1>2, <1>4, <3>1, <3>2 DEF LeadsToPlain, KeepsFlow
    <3>3. CASE c = insert /\ IsOpen  BY <1>3, <1>5, <3>1, <3>3 DEF LeadsToPlain, KeepsFlow
    <3>4. CASE c = insert /\ ~IsOpen  BY <1>5, <3>1, <3>4 DEF KeepsFlow
    <3>5. CASE c # insert /\ c # b  BY <1>6, <3>1, <3>5 DEF KeepsFlow
    <3> QED BY <3>2, <3>3, <3>4, <3>5 DEF KeepsFlow
  <2>2. \A c \in 1..Len(bs2) : ~(c > Len(blocks))  BY <1>6
  <2>3. Len(bs2) \in Nat /\ Len(blocks) <= Len(bs2)  BY <1>1, SMT
  <2>4. FlowOK(blocks)  BY <1>1 DEF Flowing
  <2> HIDE DEF bs2, x
  <2>5. FlowOK(bs2)  BY ONLY <1>1, <2>1, <2>2, <2>3, <2>4, FlowStep
  <2> QED BY <2>5 DEF bs2
<1> QED BY ONLY Goes(todo), <1>1, <1>7, <1>8, <1>9, OrdinaryFlow DEF Goes

-----------------------------------------------------------------------------
(* Methods that change no block.                                           *)

\* The tasks of methods that are not loops know no blocks to go back to.
LEMMA NoLoop ==
  ASSUME NEW t, t.op \notin LoopOps
  PROVE  \A bs : LoopTaskOK(bs, t)
  BY DEF LoopTaskOK, LoopOps

\* The parts of a task.
LEMMA TaskParts ==
  ASSUME NEW op, NEW fn, NEW arg, NEW owe, NEW t, t = Task(op, fn, arg, owe)
  PROVE  t.op = op /\ t.fn = fn /\ t.arg = arg /\ t.owe = owe
  BY DEF Task

\* Without a change, the insert block is as open as it was.
LEMMA StillOpen ==
  ASSUME blocks' = blocks, insert' = insert
  PROVE  OpenAfter <=> IsOpen
  BY DEF OpenAfter, IsOpen

\* Dead code is skipped.
LEMMA SkipDeadStatementFlow ==
  ASSUME IInv, IInv', VInv, SkipDeadStatement
  PROVE  VInv'
<1>1. Going /\ work' = Front(work) \o <<>> /\ blocks' = blocks /\ insert' = insert
  BY DEF SkipDeadStatement, Doing, Then, Going
<1>2. ~IsOpen
  BY DEF SkipDeadStatement, IsPreviousInstructionBlockTerminator, IsOpen
<1>3. Goes(<<>>)  BY ONLY <1>1, <1>2, GoesOn
<1> QED BY ONLY <1>1, <1>3, StillFlow

\* The code of a statement's expression precedes its own.
LEMMA GenerateLeafFlow ==
  ASSUME IInv, IInv', VInv, GenerateLeaf
  PROVE  VInv'
<1> DEFINE a == Task(Top.arg.kind, Top.fn, Top.arg, <<>>)
           b == Eval(Top.fn, Top.arg.expr)
<1>1. Going /\ work' = Front(work) \o <<a, b>> /\ blocks' = blocks /\ insert' = insert
  BY DEF GenerateLeaf, Visit, Doing, Then, Going
<1>2. /\ Top.op = "gen" /\ Top.arg.kind \in {"expression", "declaration", "dealloc", "return"}
      /\ IsOpen
  BY DEF GenerateLeaf, Visit, Doing, IsPreviousInstructionBlockTerminator, IsOpen
<1>3. /\ a.op = Top.arg.kind /\ a.fn = Top.fn /\ b.op = "eval" /\ b.fn = Top.fn
  BY TaskParts DEF Eval
<1> HIDE DEF a, b
<1>4. /\ Local(a) /\ a.op # "gen" /\ Local(b) /\ a.op \notin LoopOps /\ b.op \notin LoopOps
      /\ LeavesOpen(Top) => LeavesOpen(a)
      /\ LeavesOpen(b)
  BY ONLY <1>2, <1>3 DEF Local, LoopOps, LeavesOpen, KeepOps
<1>5. Goes(<<a, b>>)  BY ONLY <1>1, <1>2, <1>4, NoLoop, StillOpen, GoesOn
<1> QED BY ONLY <1>1, <1>5, StillFlow

\* An expression statement has no code of its own.
LEMMA EndExpressionFlow ==
  ASSUME IInv, IInv', VInv, EndExpression
  PROVE  VInv'
<1>1. Going /\ work' = Front(work) \o <<>> /\ blocks' = blocks /\ insert' = insert
  BY DEF EndExpression, Doing, Then, Going
<1>2. Goes(<<>>)  BY ONLY <1>1, StillOpen, GoesOn
<1> QED BY ONLY <1>1, <1>2, StillFlow

\* The code of an expression ends.
LEMMA EndExpressionCodeFlow ==
  ASSUME IInv, IInv', VInv, EndExpressionCode
  PROVE  VInv'
<1>1. Going /\ work' = Front(work) \o <<>> /\ blocks' = blocks /\ insert' = insert
  BY DEF EndExpressionCode, Doing, Then, Going
<1>2. Goes(<<>>)  BY ONLY <1>1, StillOpen, GoesOn
<1> QED BY ONLY <1>1, <1>2, StillFlow

\* A code block begins.
LEMMA GenerateCodeBlockFlow ==
  ASSUME IInv, IInv', VInv, GenerateCodeBlock
  PROVE  VInv'
<1> DEFINE a == Loop("block", Top.fn, Top.arg, 1)
<1>1. Going /\ work' = Front(work) \o <<a>> /\ blocks' = blocks /\ insert' = insert
  BY DEF GenerateCodeBlock, Doing, Then, Going
<1>2. Top.op = "gen" /\ Top.arg.kind = "block"  BY DEF GenerateCodeBlock, Doing
<1>3. a.op = "block" /\ a.fn = Top.fn  BY TaskParts DEF Loop
<1> HIDE DEF a
<1>4. Local(a) /\ a.op # "gen" /\ a.op \notin LoopOps /\ ~LeavesOpen(Top) /\ a.op \notin NeedOps
  BY ONLY <1>2, <1>3 DEF Local, LoopOps, LeavesOpen, KeepOps, NeedOps
<1>5. Goes(<<a>>)  BY ONLY <1>1, <1>4, NoLoop, GoesOn
<1> QED BY ONLY <1>1, <1>5, StillFlow

\* A code block goes on with its next statement, or ends.
LEMMA GenerateBlockChildFlow ==
  ASSUME IInv, IInv', VInv, GenerateBlockChild
  PROVE  VInv'
<1> DEFINE a == Loop("block", Top.fn, Top.arg.node, Top.arg.next + 1)
           b == Gen(Top.fn, Top.arg.node.body[Top.arg.next])
<1>1. /\ Going /\ blocks' = blocks /\ insert' = insert
      /\ work' = Front(work) \o <<a, b>> \/ work' = Front(work) \o <<>>
  BY DEF GenerateBlockChild, Doing, Then, Going
<1>2. Top.op = "block"  BY DEF GenerateBlockChild, Doing
<1>3. a.op = "block" /\ a.fn = Top.fn /\ b.op = "gen" /\ b.fn = Top.fn
  BY TaskParts DEF Loop, Gen
<1> HIDE DEF a, b
<1>4. /\ Local(a) /\ a.op # "gen" /\ Local(b) /\ a.op \notin LoopOps /\ b.op \notin LoopOps
      /\ ~LeavesOpen(Top) /\ a.op \notin NeedOps /\ b.op \notin NeedOps
  BY ONLY <1>2, <1>3 DEF Local, LoopOps, LeavesOpen, KeepOps, NeedOps
<1>5. CASE work' = Front(work) \o <<a, b>>
  <2>1. Goes(<<a, b>>)  BY ONLY <1>1, <1>4, <1>5, NoLoop, GoesOn
  <2> QED BY ONLY <1>1, <2>1, StillFlow
<1>6. CASE work' = Front(work) \o <<>>
  <2>1. Goes(<<>>)  BY ONLY <1>1, <1>4, <1>6, GoesOn
  <2> QED BY ONLY <1>1, <2>1, StillFlow
<1> QED BY ONLY <1>1, <1>5, <1>6

\* The condition of an if-statement comes first.
LEMMA GenerateIfFlow ==
  ASSUME IInv, IInv', VInv, GenerateIf
  PROVE  VInv'
<1> DEFINE a == Task("if_cond", Top.fn, Top.arg, <<>>)
           b == Eval(Top.fn, Top.arg.expr)
<1>1. Going /\ work' = Front(work) \o <<a, b>> /\ blocks' = blocks /\ insert' = insert
  BY DEF GenerateIf, Visit, Doing, Then, Going
<1>2. Top.op = "gen" /\ Top.arg.kind = "if" /\ IsOpen
  BY DEF GenerateIf, Visit, Doing, IsPreviousInstructionBlockTerminator, IsOpen
<1>3. a.op = "if_cond" /\ a.fn = Top.fn /\ b.op = "eval" /\ b.fn = Top.fn
  BY TaskParts DEF Eval
<1> HIDE DEF a, b
<1>4. /\ Local(a) /\ a.op # "gen" /\ Local(b) /\ a.op \notin LoopOps /\ b.op \notin LoopOps
      /\ ~LeavesOpen(Top) /\ LeavesOpen(b)
  BY ONLY <1>2, <1>3 DEF Local, LoopOps, LeavesOpen, KeepOps
<1>5. Goes(<<a, b>>)  BY ONLY <1>1, <1>2, <1>4, NoLoop, StillOpen, GoesOn
<1> QED BY ONLY <1>1, <1>5, StillFlow

\* The first statement of a for loop is a declaration or an expression: it does
\* not end the path.
LEMMA GenerateForFlow ==
  ASSUME IInv, IInv', VInv, GenerateFor
  PROVE  VInv'
<1> DEFINE a == Task("for_init", Top.fn, Top.arg, <<>>)
           b == Gen(Top.fn, Top.arg.init)
<1>1. Going /\ work' = Front(work) \o <<a, b>> /\ blocks' = blocks /\ insert' = insert
  BY DEF GenerateFor, Visit, Doing, Then, Going
<1>2. Top.op = "gen" /\ Top.arg.kind = "for" /\ IsOpen
  BY DEF GenerateFor, Visit, Doing, IsPreviousInstructionBlockTerminator, IsOpen
<1>3. a.op = "for_init" /\ a.fn = Top.fn /\ b.op = "gen" /\ b.fn = Top.fn /\ b.arg = Top.arg.init
  BY TaskParts DEF Gen
<1>4. Top.arg.init.kind \in {"declaration", "expression"}
  <2>1. Top.arg \in Statement  BY <1>1, <1>2, GoingContext DEF TaskArgOK
  <2> QED BY <1>2, <2>1, StatementAssumption
<1> HIDE DEF a, b
<1>5. /\ Local(a) /\ a.op # "gen" /\ Local(b) /\ a.op \notin LoopOps /\ b.op \notin LoopOps
      /\ ~LeavesOpen(Top) /\ LeavesOpen(b)
  BY ONLY <1>2, <1>3, <1>4 DEF Local, LoopOps, LeavesOpen, KeepOps
<1>6. Goes(<<a, b>>)  BY ONLY <1>1, <1>2, <1>5, NoLoop, StillOpen, GoesOn
<1> QED BY ONLY <1>1, <1>6, StillFlow

\* The body of a loop ends; the step of a for loop needs an open block and is
\* only generated for one.
LEMMA EndBodyFlow ==
  ASSUME IInv, IInv', VInv, EndBody
  PROVE  VInv'
<1> DEFINE a == LoopEnd
           b == Eval(Top.fn, Top.arg.node.step)
<1>1. /\ Going /\ blocks' = blocks /\ insert' = insert /\ Top.op = "body_end"
      /\ \/ IsOpen /\ work' = Front(work) \o (<<a>> \o <<b>>)
         \/ work' = Front(work) \o (<<a>> \o <<>>)
  BY DEF EndBody, Doing, Then, Going, IsPreviousInstructionBlockTerminator, IsOpen
<1>2. a.op = "loop_end" /\ a.fn = Top.fn /\ a.arg = Top.arg /\ b.op = "eval" /\ b.fn = Top.fn
  BY TaskParts DEF Eval, LoopEnd
<1> HIDE DEF a, b
<1>3. (IsOpen /\ work' = Front(work) \o <<a, b>>) \/ work' = Front(work) \o <<a>>
  BY <1>1, JoinTuples
<1>4. LoopTaskOK(blocks, Top)
  <2>1. Len(work) \in Nat /\ Len(work) >= 2 /\ Top = work[Len(work)]
    BY <1>1, Context DEF Going
  <2>2. Len(work) \in 1..Len(work)  BY ONLY <2>1, SMT
  <2> QED BY <1>1, <2>1, <2>2, GoingContext DEF Flowing, LoopsOK
<1>5. LoopTaskOK(blocks', a)  BY <1>1, <1>2, <1>4 DEF LoopTaskOK
<1>6. /\ Local(a) /\ a.op # "gen" /\ Local(b) /\ b.op \notin LoopOps /\ a.op \notin NeedOps
      /\ ~LeavesOpen(Top) /\ b.op # "gen"
  BY ONLY <1>1, <1>2 DEF Local, LoopOps, LeavesOpen, KeepOps, NeedOps
<1>7. CASE IsOpen /\ work' = Front(work) \o <<a, b>>
  <2>1. Goes(<<a, b>>)  BY ONLY <1>1, <1>5, <1>6, <1>7, NoLoop, StillOpen, GoesOn
  <2> QED BY ONLY <1>1, <2>1, StillFlow
<1>8. CASE work' = Front(work) \o <<a>>
  <2>1. Goes(<<a>>)  BY ONLY <1>1, <1>5, <1>6, <1>8, GoesOn
  <2> QED BY ONLY <1>1, <2>1, StillFlow
<1> QED BY ONLY <1>3, <1>7, <1>8

\* A print statement begins.
LEMMA GeneratePrintFlow ==
  ASSUME IInv, IInv', VInv, GeneratePrint
  PROVE  VInv'
<1> DEFINE a == Loop("print", Top.fn, Top.arg, 1)
<1>1. Going /\ work' = Front(work) \o <<a>> /\ blocks' = blocks /\ insert' = insert
  BY DEF GeneratePrint, Visit, Doing, Then, Going
<1>2. Top.op = "gen" /\ Top.arg.kind = "print" /\ IsOpen
  BY DEF GeneratePrint, Visit, Doing, IsPreviousInstructionBlockTerminator, IsOpen
<1>3. a.op = "print" /\ a.fn = Top.fn  BY TaskParts DEF Loop
<1> HIDE DEF a
<1>4. Local(a) /\ a.op # "gen" /\ a.op \notin LoopOps /\ ~LeavesOpen(Top)
  BY ONLY <1>2, <1>3 DEF Local, LoopOps, LeavesOpen, KeepOps
<1>5. Goes(<<a>>)  BY ONLY <1>1, <1>2, <1>4, NoLoop, StillOpen, GoesOn
<1> QED BY ONLY <1>1, <1>5, StillFlow

-----------------------------------------------------------------------------
(* Methods that add code to the insert block.                              *)

\* The instructions of the visitor, as control flow sees them.
LEMMA InstructionFlow ==
  /\ Straight(<<>>)
  /\ \A x : Straight(<<Act(x)>>)
  /\ \A x, y : Straight(<<Act(x), Act(y)>>)
  /\ Branching(<<Ret>>) /\ Len(<<Ret>>[Len(<<Ret>>)].to) = 0
<1>1. \A x : Act(x).op \notin TerminatorOps /\ Act(x).op # "phi"
  BY DEF Act, Instruction, TerminatorOps
<1>2. Ret.op \in TerminatorOps /\ Ret.op # "phi" /\ Len(Ret.to) = 0
  BY EmptySeq DEF Ret, Instruction, TerminatorOps
<1>3. Straight(<<>>)  BY EmptySeq, SMT DEF Straight
<1>4. ASSUME NEW x PROVE Straight(<<Act(x)>>)
  <2>1. \A i \in 1..Len(<<Act(x)>>) : <<Act(x)>>[i] = Act(x)  OBVIOUS
  <2> QED BY <1>1, <2>1 DEF Straight
<1>5. ASSUME NEW x, NEW y PROVE Straight(<<Act(x), Act(y)>>)
  <2>1. \A i \in 1..Len(<<Act(x), Act(y)>>) :
          <<Act(x), Act(y)>>[i] = Act(x) \/ <<Act(x), Act(y)>>[i] = Act(y)
    OBVIOUS
  <2> QED BY <1>1, <2>1 DEF Straight
<1>6. Branching(<<Ret>>) /\ Len(<<Ret>>[Len(<<Ret>>)].to) = 0
  <2> DEFINE s == <<Ret>>
  <2>1. Len(s) = 1 /\ s[1] = Ret /\ s # <<>>  OBVIOUS
  <2> HIDE DEF s
  <2>2. (\A i \in 1..Len(s) : i = 1) /\ \A i \in 1..(Len(s) - 1) : FALSE
    BY ONLY <2>1, SMT
  <2>3. Branching(s) /\ Len(s[Len(s)].to) = 0
    BY ONLY <1>2, <2>1, <2>2 DEF Branching
  <2> QED BY <2>3 DEF s
<1> QED BY <1>3, <1>4, <1>5, <1>6

\* The data and the array are freed.
LEMMA EndDeallocFlow ==
  ASSUME IInv, IInv', VInv, EndDealloc
  PROVE  VInv'
<1> DEFINE code == <<Act("free data"), Act("free array")>>
<1>1. /\ Going /\ work' = Front(work) \o <<>> /\ blocks' = Put(blocks, insert, code)
      /\ insert' = insert /\ Top.op = "dealloc"
  BY DEF EndDealloc, Doing, Then, Going
<1>2. code \in Seq(InstructionSet(Len(blocks)))
  <2>1. {"free data", "free array"} \subseteq Tags /\ Len(blocks) \in Nat
    BY <1>1, TagTypes, GoingContext DEF VisitorTags
  <2>2. Act("free data") \in InstructionSet(Len(blocks)) /\ Act("free array") \in InstructionSet(Len(blocks))
    BY <2>1, InstructionTypes
  <2> QED BY <2>2, Tuples
<1>3. Straight(code)  BY InstructionFlow
<1> HIDE DEF code
<1>4. IsOpen /\ ~LeavesOpen(Top)
  BY <1>1, GoingContext DEF NeedOps, LeavesOpen, KeepOps
<1>5. Goes(<<>>)  BY ONLY <1>1, <1>4, GoesOn
<1> QED BY ONLY <1>1, <1>2, <1>3, <1>4, <1>5, PutFlow

\* A return ends the path.
LEMMA EndReturnFlow ==
  ASSUME IInv, IInv', VInv, EndReturn
  PROVE  VInv'
<1> DEFINE code == <<Ret>>
<1>1. /\ Going /\ work' = Front(work) \o <<>> /\ blocks' = Put(blocks, insert, code)
      /\ insert' = insert /\ Top.op = "return"
  BY DEF EndReturn, Doing, Then, Going
<1>2. code \in Seq(InstructionSet(Len(blocks)))
  <2>1. Len(blocks) \in Nat  BY <1>1, GoingContext
  <2>2. Ret \in InstructionSet(Len(blocks))  BY <2>1, InstructionTypes
  <2> QED BY <2>2, Tuples
<1>3. Branching(code) /\ Len(code[Len(code)].to) = 0  BY InstructionFlow
<1> HIDE DEF code
<1>4. IsOpen /\ ~LeavesOpen(Top)
  BY <1>1, GoingContext DEF NeedOps, LeavesOpen, KeepOps
<1>5. Goes(<<>>)  BY ONLY <1>1, <1>4, GoesOn
<1> QED BY ONLY <1>1, <1>2, <1>3, <1>4, <1>5, PutFlow

\* The rest of an expression is as good as the expression.
LEMMA RestGoesOn ==
  ASSUME Going, Top.op = "eval", work' = Front(work) \o RestOfExpression, OpenAfter
  PROVE  Goes(RestOfExpression)
<1> DEFINE a == Eval(Top.fn, Tail(Top.arg))
<1>1. work' = Front(work) \o <<a>> /\ RestOfExpression = <<a>>
  BY DEF RestOfExpression
<1>2. a.op = "eval" /\ a.fn = Top.fn  BY TaskParts DEF Eval
<1> HIDE DEF a
<1>3. Local(a) /\ a.op # "gen" /\ a.op \notin LoopOps /\ LeavesOpen(a)
  BY ONLY <1>2 DEF Local, LoopOps, LeavesOpen, KeepOps
<1>4. Goes(<<a>>)  BY ONLY Going, OpenAfter, <1>1, <1>3, NoLoop, GoesOn
<1> QED BY <1>1, <1>4

\* Straight code of an expression.
LEMMA GenerateActFlow ==
  ASSUME IInv, IInv', VInv, GenerateAct
  PROVE  VInv'
<1> DEFINE tag  == Head(Top.arg).tag
           code == <<Act(tag)>>
<1>1. /\ Going /\ work' = Front(work) \o RestOfExpression /\ blocks' = Put(blocks, insert, code)
      /\ insert' = insert /\ Top.op = "eval" /\ Top.arg # <<>>
  BY DEF GenerateAct, Expecting, Doing, Then, Going
<1>2. code \in Seq(InstructionSet(Len(blocks)))
  <2>1. Top.arg \in Code /\ Len(blocks) \in Nat
    BY <1>1, GoingContext DEF TaskArgOK
  <2>2. Head(Top.arg) \in Effect  BY <1>1, <2>1 DEF Code
  <2>3. tag \in Tags  BY <2>2, TagTypes
  <2> HIDE DEF tag
  <2>4. Act(tag) \in InstructionSet(Len(blocks))  BY <2>1, <2>3, InstructionTypes
  <2> QED BY <2>4, Tuples
<1>3. Straight(code)  BY InstructionFlow
<1> HIDE DEF code
<1>4. IsOpen  BY <1>1, GoingContext DEF NeedOps
<1>5. OpenAfter  BY ONLY <1>1, <1>2, <1>3, <1>4, PutFlow
<1>6. Goes(RestOfExpression)  BY ONLY <1>1, <1>5, RestGoesOn
<1> QED BY ONLY <1>1, <1>2, <1>3, <1>4, <1>6, PutFlow

\* A value that is no array is printed.
LEMMA PrintBaseTypeValueFlow ==
  ASSUME IInv, IInv', VInv, PrintBaseTypeValue
  PROVE  VInv'
<1> DEFINE code == <<Act("value")>>
<1>1. /\ Going /\ work' = Front(work) \o <<>> /\ blocks' = Put(blocks, insert, code)
      /\ insert' = insert /\ Top.op = "print_value"
  BY DEF PrintBaseTypeValue, Doing, Then, Going
<1>2. code \in Seq(InstructionSet(Len(blocks)))
  <2>1. "value" \in Tags /\ Len(blocks) \in Nat
    BY <1>1, TagTypes, GoingContext DEF VisitorTags
  <2>2. Act("value") \in InstructionSet(Len(blocks))  BY <2>1, InstructionTypes
  <2> QED BY <2>2, Tuples
<1>3. Straight(code)  BY InstructionFlow
<1> HIDE DEF code
<1>4. IsOpen  BY <1>1, GoingContext DEF NeedOps
<1>5. OpenAfter  BY ONLY <1>1, <1>2, <1>3, <1>4, PutFlow
<1>6. Goes(<<>>)  BY ONLY <1>1, <1>5, GoesOn
<1> QED BY ONLY <1>1, <1>2, <1>3, <1>4, <1>6, PutFlow

\* The next operand of a print statement, or the end of the line.
LEMMA PrintOperandFlow ==
  ASSUME IInv, IInv', VInv, PrintOperand
  PROVE  VInv'
<1> DEFINE node == Top.arg.node
           next == Top.arg.next
           a    == Loop("print", Top.fn, node, next + 1)
           b    == PrintValue(node.args[next].depth)
           c    == Eval(Top.fn, node.args[next].expr)
           code == IF node.ln THEN <<Act("newline")>> ELSE <<>>
<1>1. /\ Going /\ insert' = insert /\ Top.op = "print"
      /\ \/ work' = Front(work) \o <<a, b, c>> /\ blocks' = blocks
         \/ work' = Front(work) \o <<>> /\ blocks' = Put(blocks, insert, code)
  BY DEF PrintOperand, Doing, Then, Going
<1>2. /\ a.op = "print" /\ a.fn = Top.fn /\ b.op = "print_value" /\ b.fn = Top.fn
      /\ c.op = "eval" /\ c.fn = Top.fn
  BY TaskParts DEF Loop, PrintValue, Eval
<1>3. code \in Seq(InstructionSet(Len(blocks))) /\ Straight(code)
  <2>1. "newline" \in Tags /\ Len(blocks) \in Nat
    BY <1>1, TagTypes, GoingContext, Zenon DEF VisitorTags
  <2>2. Act("newline") \in InstructionSet(Len(blocks))  BY <2>1, InstructionTypes
  <2>3. /\ <<Act("newline")>> \in Seq(InstructionSet(Len(blocks)))
        /\ <<>> \in Seq(InstructionSet(Len(blocks)))
    BY <2>2, Tuples, EmptySeq
  <2> QED BY <2>3, InstructionFlow
<1>4. IsOpen  BY <1>1, GoingContext, Zenon DEF NeedOps
<1> HIDE DEF a, b, c, code
<1>5. /\ Local(a) /\ Local(b) /\ Local(c) /\ a.op # "gen" /\ b.op # "gen" /\ c.op # "gen"
      /\ a.op \notin LoopOps /\ b.op \notin LoopOps /\ c.op \notin LoopOps
      /\ ~LeavesOpen(Top) /\ LeavesOpen(b) /\ LeavesOpen(c)
  BY ONLY <1>1, <1>2 DEF Local, LoopOps, LeavesOpen, KeepOps
<1>6. CASE work' = Front(work) \o <<a, b, c>> /\ blocks' = blocks
  <2>1. OpenAfter  BY ONLY <1>1, <1>4, <1>6, StillOpen
  <2>2. Goes(<<a, b, c>>)  BY ONLY <1>1, <1>5, <1>6, <2>1, NoLoop, GoesOn
  <2> QED BY ONLY <1>1, <1>6, <2>2, StillFlow
<1>7. CASE work' = Front(work) \o <<>> /\ blocks' = Put(blocks, insert, code)
  <2>1. Goes(<<>>)  BY ONLY <1>1, <1>5, <1>7, GoesOn
  <2> QED BY ONLY <1>1, <1>3, <1>4, <1>7, <2>1, PutFlow
<1> QED BY ONLY <1>1, <1>6, <1>7

\* The control flow of a block is kept by two changes that keep it.
LEMMA KeepsTwice ==
  ASSUME NEW x, NEW y, NEW z, Keeps(x, y), Keeps(y, z)
  PROVE  Keeps(x, z)
<1>1. SamePhis(x, z)
  <2> SUFFICES ASSUME NEW i \in 1..Len(z.code), z.code[i].op = "phi"
               PROVE  i \in 1..Len(x.code) /\ \A j \in 1..i : z.code[j] = x.code[j]
    BY DEF SamePhis
  <2>1. i \in 1..Len(y.code) /\ \A j \in 1..i : z.code[j] = y.code[j]
    BY DEF Keeps, SamePhis
  <2>2. i \in 1..i  BY <2>1, SMT
  <2>3. y.code[i].op = "phi"  BY <2>1, <2>2
  <2>4. i \in 1..Len(x.code) /\ \A j \in 1..i : y.code[j] = x.code[j]
    BY <2>1, <2>3 DEF Keeps, SamePhis
  <2> QED BY <2>1, <2>4
<1> QED BY <1>1 DEF Keeps, SameEnd

\* PutInEntry adds an instruction in front of a block.
LEMMA PutInEntryCode ==
  ASSUME NEW n \in Nat, NEW m \in Nat, NEW bs \in Seq(BlockSet(n, m)), NEW b, b \in 1..Len(bs),
         NEW i \in InstructionSet(n),
         NEW r, r = PutInEntry(bs, b, i)
  PROVE  Precedes(bs[b], r[b], i)
<1>1. b \in 1..Len(bs) => bs[b].code \in Seq(InstructionSet(n)) /\ bs[b].fn \in 0..m
  BY BlockParts
<1> DEFINE fn   == bs[b].fn
           more == <<i>> \o bs[b].code
<1>2. b \in 1..Len(bs) => more \in Seq(InstructionSet(n))  BY <1>1
<1>3. b \in 1..Len(bs) => fn \in 0..m  BY <1>1
<1>4. r = Updated(bs, b, Block(fn, more))  BY DEF PutInEntry, Updated
<1> HIDE DEF fn, more
<1>5. /\ r \in Seq(BlockSet(n, m)) /\ Len(r) = Len(bs)
      /\ \A c \in 1..Len(bs) : /\ c = b => r[c].fn = fn /\ r[c].code = more
                               /\ c # b => r[c] = bs[c]
  BY ONLY <1>2, <1>3, <1>4, n \in Nat, m \in Nat, bs \in Seq(BlockSet(n, m)), UpdateBlock
<1> QED BY <1>5 DEF more, Precedes

\* A method that keeps the control flow of every block goes on.
LEMMA KeepFlow ==
  ASSUME NEW todo, Goes(todo), IsOpen, insert' = insert, Len(blocks') = Len(blocks),
         \A c \in 1..Len(blocks) :
           /\ Keeps(blocks[c], blocks'[c]) /\ blocks'[c].fn = blocks[c].fn
           /\ c # insert /\ ~IsEntry(c) => blocks'[c] = blocks[c]
  PROVE  VInv'
<1>1. /\ Len(blocks) \in Nat /\ insert \in 1..Len(blocks) /\ Ordinary(todo)
  BY OrdinaryContext DEF Goes
<1>2. FlowOK(blocks)  BY <1>1 DEF Ordinary, Flowing
<1>3. \A c \in 1..Len(blocks) : ~(c > Len(blocks))  BY ONLY <1>1, SMT
<1>4. Targets(blocks'[insert]) = {}
  <2>1. Targets(blocks[insert]) = {}  BY DEF IsOpen, Targets
  <2> QED BY <1>1, <2>1 DEF Keeps, SameEnd
<1>5. OrdinaryEnds
  <2>1. Len(blocks) <= Len(blocks')  BY <1>1, SMT
  <2>2. \A c \in 1..Len(blocks) : Continued(c) => Targets(blocks'[c]) = {}
    BY <1>3, <1>4 DEF Continued
  <2> QED BY <1>3, <2>1, <2>2 DEF OrdinaryEnds, Keeps
<1>6. OrdinaryHeads(todo)
  <2>1. ASSUME NEW c \in 1..Len(blocks), Plain(blocks[c]) PROVE Plain(blocks'[c])
    BY <2>1, PlainStays DEF Keeps
  <2>2. ASSUME NEW c \in 1..Len(blocks), PrintLoopHead(blocks[c]), ~IsEntry(c)
        PROVE  PrintLoopHead(blocks'[c])
    <3>1. c # insert  BY <2>2 DEF PrintLoopHead, IsOpen
    <3> QED BY <2>2, <3>1
  <2> QED BY <2>1, <2>2 DEF Goes, OrdinaryHeads
<1>7. FlowOK(blocks')
  <2> DEFINE bs2 == blocks'
             x   == 0
  <2>1. ASSUME NEW c \in 1..Len(blocks) PROVE KeepsFlow(blocks, bs2, c, x)
    <3>1. c # x  BY SMT
    <3> QED BY <3>1 DEF KeepsFlow
  <2>2. /\ Len(bs2) \in Nat /\ Len(blocks) <= Len(bs2)
        /\ \A c \in 1..Len(bs2) : ~(c > Len(blocks))
    BY <1>1, <1>3, SMT
  <2> HIDE DEF bs2, x
  <2>3. FlowOK(bs2)  BY ONLY <1>1, <1>2, <2>1, <2>2, FlowStep
  <2> QED BY <2>3 DEF bs2
<1> QED BY ONLY Goes(todo), <1>1, <1>5, <1>6, <1>7, OrdinaryFlow DEF Goes

\* The alloca of a variable goes to the entry block, its initial value where
\* the declaration is.
LEMMA EndDeclarationFlow ==
  ASSUME IInv, IInv', VInv, EndDeclaration
  PROVE  VInv'
<1> DEFINE n     == Len(blocks)
           m     == Len(functions)
           entry == functions[blocks[insert].fn].entry
           i     == Instruction("alloca", Top.arg.var, <<>>)
           code  == <<Act(Top.arg.var)>>
           bs1   == PutInEntry(blocks, entry, i)
           bs2   == blocks'
<1>1. /\ Going /\ work' = Front(work) \o <<>> /\ bs2 = Put(bs1, insert, code)
      /\ insert' = insert /\ Top.op = "declaration"
  BY DEF EndDeclaration, Doing, Then, Going
<1>2. /\ n \in Nat /\ m \in Nat /\ blocks \in Seq(BlockSet(n, m))
      /\ insert \in 1..n /\ blocks[insert].fn \in 1..m /\ Flowing /\ EndsOnce(blocks[insert])
      /\ IsOpen
  <2>1. blocks[insert].fn \in 0..Len(functions) /\ blocks[insert].fn # 0 /\ m \in Nat
    BY <1>1, GoingContext
  <2>2. blocks[insert].fn \in 1..m  BY ONLY <2>1, SMT DEF m
  <2> QED BY <1>1, <2>2, GoingContext DEF NeedOps
<1>3. entry \in 1..n /\ IsEntry(entry) /\ Plain(blocks[entry])
  <2>1. functions \in Seq(FunctionSet(n))  BY <1>1 DEF Going, IInv, TypeOK
  <2>2. functions[blocks[insert].fn] \in FunctionSet(n)  BY <1>2, <2>1
  <2> QED BY <1>2, <2>2 DEF FunctionSet, IsEntry, Flowing, EntriesPlain
<1>4. i \in InstructionSet(n) /\ i.op = "alloca" /\ code \in Seq(InstructionSet(n)) /\ Straight(code)
  <2>1. Top.arg \in Statement /\ Top.arg.kind = "declaration"
    BY <1>1, GoingContext DEF TaskArgOK
  <2>2. Top.arg.var \in Tags  BY <2>1, TagTypes
  <2>3. i \in InstructionSet(n) /\ Act(Top.arg.var) \in InstructionSet(n)
    BY <1>2, <2>2, InstructionTypes
  <2>4. i.op = "alloca"  BY DEF Instruction
  <2> QED BY <2>3, <2>4, Tuples, InstructionFlow
<1> HIDE DEF entry, i, code
<1>5. bs1 = PutInEntry(blocks, entry, i)  OBVIOUS
<1> HIDE DEF bs1, bs2
<1>6. /\ bs1 \in Seq(BlockSet(n, m)) /\ Len(bs1) = n
      /\ \A c \in 1..n : /\ bs1[c].fn = blocks[c].fn
                         /\ c # entry => bs1[c] = blocks[c]
  BY ONLY <1>2, <1>4, <1>5, PutInEntryType DEF n
<1>7. Precedes(blocks[entry], bs1[entry], i)
  <2>1. Len(blocks) = n  OBVIOUS
  <2> HIDE DEF n, m
  <2> QED BY ONLY <1>2, <1>3, <1>4, <1>5, <2>1, PutInEntryCode
<1>8. /\ bs2 \in Seq(BlockSet(n, m)) /\ Len(bs2) = n
      /\ \A c \in 1..n : /\ bs2[c].fn = bs1[c].fn
                         /\ c # insert => bs2[c] = bs1[c]
  <2>1. /\ bs2 = Put(bs1, insert, code) /\ code \in Seq(InstructionSet(n))
        /\ n \in Nat /\ m \in Nat /\ bs1 \in Seq(BlockSet(n, m))
    BY <1>1, <1>2, <1>4, <1>6
  <2> HIDE DEF n, m
  <2>2. /\ bs2 \in Seq(BlockSet(n, m)) /\ Len(bs2) = Len(bs1)
        /\ \A c \in 1..Len(bs1) : /\ bs2[c].fn = bs1[c].fn
                                  /\ c # insert => bs2[c] = bs1[c]
    BY ONLY <2>1, PutType
  <2> QED BY <1>6, <2>2
<1>9. Extends(bs1[insert], bs2[insert], code)
  <2>1. insert \in 1..Len(bs1)  BY <1>2, <1>6
  <2> HIDE DEF n, m
  <2> QED BY ONLY <1>1, <1>2, <1>4, <1>6, <2>1, PutCode
<1>10. \A c \in 1..n : Keeps(blocks[c], bs1[c])
  <2>1. ASSUME NEW c \in 1..n, c # entry PROVE Keeps(blocks[c], bs1[c])
    <3> DEFINE S == InstructionSet(n)
    <3>1. blocks[c].code \in Seq(S)  BY <1>2, BlockParts
    <3>2. bs1[c] = blocks[c]  BY <1>6, <2>1
    <3> HIDE DEF S
    <3>3. Keeps(blocks[c], blocks[c])  BY ONLY <3>1, SameCode
    <3> QED BY ONLY <3>2, <3>3
  <2>2. Keeps(blocks[entry], bs1[entry])
    <3> DEFINE S == InstructionSet(n)
    <3>1. blocks[entry].code \in Seq(S) /\ i \in S
      BY <1>2, <1>3, <1>4, BlockParts
    <3> HIDE DEF S
    <3> QED BY ONLY <1>3, <1>4, <1>7, <3>1, PrependCode DEF Precedes
  <2> QED BY <2>1, <2>2
<1>11. \A c \in 1..n : Keeps(bs1[c], bs2[c])
  <2>1. ASSUME NEW c \in 1..n PROVE Keeps(bs1[c], bs2[c])
    <3> DEFINE S == InstructionSet(n)
    <3>1. bs1[c].code \in Seq(S)  BY <1>2, <1>6, BlockParts
    <3>2. code \in Seq(S)  BY <1>4
    <3> HIDE DEF S
    <3>3. CASE c # insert
      <4>1. bs2[c] = bs1[c]  BY <1>8, <3>3
      <4>2. Keeps(bs1[c], bs1[c])  BY ONLY <3>1, SameCode
      <4> QED BY ONLY <4>1, <4>2
    <3>4. CASE c = insert
      <4>1. EndsOnce(bs1[c]) /\ ~HasTerminator(bs1[c])
        BY <1>2, <1>10, <3>4 DEF Keeps, SameEnd, IsOpen
      <4>2. Extends(bs1[c], bs2[c], code)  BY <1>9, <3>4
      <4> QED BY ONLY <1>4, <3>1, <3>2, <4>1, <4>2, AppendCode DEF Extends
    <3> QED BY <3>3, <3>4
  <2> QED BY <2>1
<1>12. \A c \in 1..n : /\ Keeps(blocks[c], bs2[c]) /\ bs2[c].fn = blocks[c].fn
                       /\ c # insert /\ ~IsEntry(c) => bs2[c] = blocks[c]
  <2>1. \A c \in 1..n : c # insert /\ ~IsEntry(c) => bs2[c] = blocks[c]
    BY <1>3, <1>6, <1>8
  <2> QED BY <1>6, <1>8, <1>10, <1>11, <2>1, KeepsTwice
<1>13. OpenAfter  BY <1>1, <1>2, <1>12 DEF OpenAfter, IsOpen, Keeps, SameEnd, bs2
<1>14. Goes(<<>>)  BY ONLY <1>1, <1>13, GoesOn
<1>15. /\ Len(blocks') = Len(blocks)
       /\ \A c \in 1..Len(blocks) :
            /\ Keeps(blocks[c], blocks'[c]) /\ blocks'[c].fn = blocks[c].fn
            /\ c # insert /\ ~IsEntry(c) => blocks'[c] = blocks[c]
  BY <1>8, <1>12 DEF bs2
<1> QED BY ONLY <1>1, <1>2, <1>14, <1>15, KeepFlow

-----------------------------------------------------------------------------
(* Methods that create blocks.                                             *)

\* Code that ends a path, and where it leads.
LEMMA EndingFlow ==
  ASSUME NEW e, e.op \in TerminatorOps
  PROVE  /\ Branching(<<e>>) /\ <<e>>[Len(<<e>>)] = e
         /\ \A x : /\ Branching(<<Act(x), e>>)
                   /\ <<Act(x), e>>[Len(<<Act(x), e>>)] = e
         /\ \A x, y : /\ Branching(<<Act(x), Act(y), e>>)
                      /\ <<Act(x), Act(y), e>>[Len(<<Act(x), Act(y), e>>)] = e
         /\ \A tag : /\ Branching(RuntimeError(tag))
                     /\ RuntimeError(tag)[Len(RuntimeError(tag))].to = <<>>
<1>1. e.op # "phi"  BY DEF TerminatorOps
<1>2. \A x : Act(x).op \notin TerminatorOps /\ Act(x).op # "phi"
  BY DEF Act, Instruction, TerminatorOps
<1>3. Branching(<<e>>) /\ <<e>>[Len(<<e>>)] = e
  <2> DEFINE s == <<e>>
  <2>1. Len(s) = 1 /\ s[1] = e /\ s # <<>>  OBVIOUS
  <2> HIDE DEF s
  <2>2. (\A i \in 1..Len(s) : i = 1) /\ \A i \in 1..(Len(s) - 1) : FALSE
    BY ONLY <2>1, SMT
  <2>3. Branching(s) /\ s[Len(s)] = e
    BY ONLY <1>1, <2>1, <2>2, e.op \in TerminatorOps DEF Branching
  <2> QED BY <2>3 DEF s
<1>4. ASSUME NEW a, NEW f, a.op \notin TerminatorOps, a.op # "phi", f.op \in TerminatorOps, f.op # "phi"
      PROVE  Branching(<<a, f>>) /\ <<a, f>>[Len(<<a, f>>)] = f
  <2> DEFINE s == <<a, f>>
  <2>1. Len(s) = 2 /\ s[1] = a /\ s[2] = f /\ s # <<>>  OBVIOUS
  <2> HIDE DEF s
  <2>2. (\A i \in 1..Len(s) : i = 1 \/ i = 2) /\ \A i \in 1..(Len(s) - 1) : i = 1
    BY ONLY <2>1, SMT
  <2>3. Branching(s) /\ s[Len(s)] = f  BY ONLY <1>4, <2>1, <2>2 DEF Branching
  <2> QED BY <2>3 DEF s
<1>5. ASSUME NEW a, NEW b, a.op \notin TerminatorOps, a.op # "phi", b.op \notin TerminatorOps, b.op # "phi"
      PROVE  Branching(<<a, b, e>>) /\ <<a, b, e>>[Len(<<a, b, e>>)] = e
  <2> DEFINE s == <<a, b, e>>
  <2>1. Len(s) = 3 /\ s[1] = a /\ s[2] = b /\ s[3] = e /\ s # <<>>  OBVIOUS
  <2> HIDE DEF s
  <2>2. /\ \A i \in 1..Len(s) : i = 1 \/ i = 2 \/ i = 3
        /\ \A i \in 1..(Len(s) - 1) : i = 1 \/ i = 2
    BY ONLY <2>1, SMT
  <2>3. Branching(s) /\ s[Len(s)] = e
    BY ONLY <1>1, <1>5, <2>1, <2>2, e.op \in TerminatorOps DEF Branching
  <2> QED BY <2>3 DEF s
<1>6. ASSUME NEW tag
      PROVE  Branching(RuntimeError(tag)) /\ RuntimeError(tag)[Len(RuntimeError(tag))].to = <<>>
  <2> DEFINE a == Instruction("fail", tag, <<>>)
             f == Instruction("unreachable", "exit", <<>>)
  <2>1. /\ a.op \notin TerminatorOps /\ a.op # "phi"
        /\ f.op \in TerminatorOps /\ f.op # "phi" /\ f.to = <<>>
    BY DEF Instruction, TerminatorOps
  <2>2. RuntimeError(tag) = <<a, f>>  BY DEF RuntimeError
  <2> HIDE DEF a, f
  <2>3. Branching(<<a, f>>) /\ <<a, f>>[Len(<<a, f>>)] = f  BY ONLY <1>4, <2>1
  <2> QED BY ONLY <2>1, <2>2, <2>3
<1> QED BY <1>1, <1>2, <1>3, <1>4, <1>5, <1>6

\* Branches are terminators.
LEMMA BranchParts ==
  /\ \A b : Br(b).op \in TerminatorOps /\ Br(b).to = <<b>>
  /\ \A tag, yes, no : CondBr(tag, yes, no).op \in TerminatorOps /\ CondBr(tag, yes, no).to = <<yes, no>>
  BY DEF Br, CondBr, Instruction, TerminatorOps

\* The targets of branches.
LEMMA BranchTargets ==
  /\ \A b : \A i \in 1..Len(<<b>>) : <<b>>[i] = b
  /\ \A b, c : \A i \in 1..Len(<<b, c>>) : <<b, c>>[i] = b \/ <<b, c>>[i] = c
  /\ \A b : {<<b>>[i] : i \in 1..Len(<<b>>)} = {b}
  /\ \A b, c : {<<b, c>>[i] : i \in 1..Len(<<b, c>>)} = {b, c}
<1>1. ASSUME NEW b PROVE {<<b>>[i] : i \in 1..Len(<<b>>)} = {b}
  <2>1. Len(<<b>>) = 1 /\ <<b>>[1] = b  OBVIOUS
  <2>2. 1 \in 1..Len(<<b>>) /\ \A i \in 1..Len(<<b>>) : i = 1  BY <2>1, SMT
  <2> QED BY <2>1, <2>2
<1>2. ASSUME NEW b, NEW c PROVE {<<b, c>>[i] : i \in 1..Len(<<b, c>>)} = {b, c}
  <2>1. Len(<<b, c>>) = 2 /\ <<b, c>>[1] = b /\ <<b, c>>[2] = c  OBVIOUS
  <2>2. 1 \in 1..Len(<<b, c>>) /\ 2 \in 1..Len(<<b, c>>) /\ \A i \in 1..Len(<<b, c>>) : i = 1 \/ i = 2
    BY <2>1, SMT
  <2> QED BY <2>1, <2>2
<1>3. /\ \A b : \A i \in 1..Len(<<b>>) : <<b>>[i] = b
      /\ \A b, c : \A i \in 1..Len(<<b, c>>) : <<b, c>>[i] = b \/ <<b, c>>[i] = c
  OBVIOUS
<1> QED BY <1>1, <1>2, <1>3

\* A block with code that ends the path.
LEMMA BranchingBlock ==
  ASSUME NEW S, NEW code \in Seq(S), Branching(code), NEW block, block.code = code
  PROVE  /\ HasTerminator(block) /\ EndsOnce(block) /\ Plain(block)
         /\ Targets(block) = {code[Len(code)].to[i] : i \in 1..Len(code[Len(code)].to)}
<1>1. HasTerminator(block)  BY DEF HasTerminator, Branching, Last
<1>2. EndsOnce(block) /\ Plain(block)  BY DEF EndsOnce, Plain, Branching
<1>3. Targets(block) = {code[Len(code)].to[i] : i \in 1..Len(code[Len(code)].to)}
  BY <1>1 DEF Targets, Last
<1> QED BY <1>1, <1>2, <1>3

\* An empty block.
LEMMA EmptyBlockFlow ==
  ASSUME NEW fn
  PROVE  /\ EmptyBlock(fn).fn = fn
         /\ ~HasTerminator(EmptyBlock(fn)) /\ EndsOnce(EmptyBlock(fn)) /\ Plain(EmptyBlock(fn))
         /\ Targets(EmptyBlock(fn)) = {}
<1>1. EmptyBlock(fn).fn = fn /\ EmptyBlock(fn).code = <<>>
  BY DEF EmptyBlock, Block
<1>2. Len(<<>>) = 0  BY EmptySeq
<1>3. EndsOnce(EmptyBlock(fn)) /\ Plain(EmptyBlock(fn))
  BY <1>1, <1>2, SMT DEF EndsOnce, Plain
<1> QED BY <1>1, <1>3, NoEdges

\* A block of the current function with code that ends the path.
LEMMA EndedBlock ==
  ASSUME NEW S, NEW code \in Seq(S), Branching(code)
  PROVE  /\ Block(Top.fn, code).fn = Top.fn
         /\ HasTerminator(Block(Top.fn, code)) /\ EndsOnce(Block(Top.fn, code))
         /\ Plain(Block(Top.fn, code))
         /\ Targets(Block(Top.fn, code)) = {code[Len(code)].to[i] : i \in 1..Len(code[Len(code)].to)}
<1>1. Block(Top.fn, code).fn = Top.fn /\ Block(Top.fn, code).code = code
  BY DEF Block
<1> QED BY ONLY <1>1, code \in Seq(S), Branching(code), BranchingBlock

\* A runtime check leaves an open block for the code that follows it.
LEMMA GenerateCheckFlow ==
  ASSUME IInv, IInv', VInv, GenerateCheck
  PROVE  VInv'
<1> DEFINE n    == Len(blocks)
           m    == Len(functions)
           tag  == Head(Top.arg).tag
           e    == CondBr(tag, New(1), New(2))
           code == <<e>>
           X    == Block(Top.fn, RuntimeError(tag))
           Y    == EmptyBlock(Top.fn)
           new  == <<X, Y>>
<1>1. /\ Going /\ work' = Front(work) \o RestOfExpression
      /\ blocks' = Put(blocks, insert, code) \o new /\ insert' = New(2)
      /\ Top.op = "eval" /\ Top.arg # <<>>
  BY DEF GenerateCheck, Expecting, Doing, Then, Going
<1>2. /\ n \in Nat /\ m \in Nat /\ Top.fn \in 0..m /\ IsOpen /\ Top.arg \in Code
  BY <1>1, GoingContext DEF NeedOps, TaskArgOK
<1>3. /\ n + 2 \in Nat /\ New(1) = n + 1 /\ New(2) = n + 2
      /\ New(1) \in 1..(n + 2) /\ New(2) \in 1..(n + 2) /\ New(1) > n /\ New(2) > n
  BY ONLY <1>2, SMT DEF New
<1>4. tag \in Tags
  <2>1. Head(Top.arg) \in Effect  BY <1>1, <1>2 DEF Code
  <2> QED BY <2>1, TagTypes
<1>5. /\ code \in Seq(InstructionSet(n + 2)) /\ Branching(code)
      /\ code[Len(code)].to = <<New(1), New(2)>>
  <2>1. e \in InstructionSet(n + 2)  BY ONLY <1>3, <1>4, InstructionTypes
  <2>2. e.op \in TerminatorOps /\ e.to = <<New(1), New(2)>>  BY BranchParts
  <2> HIDE DEF e
  <2> QED BY ONLY <2>1, <2>2, Tuples, EndingFlow
<1>6. /\ X \in BlockSet(n + 2, m) /\ Y \in BlockSet(n + 2, m)
      /\ X.fn = Top.fn /\ HasTerminator(X) /\ EndsOnce(X) /\ Plain(X) /\ Targets(X) = {}
      /\ Y.fn = Top.fn /\ ~HasTerminator(Y) /\ EndsOnce(Y) /\ Plain(Y) /\ Targets(Y) = {}
  <2> DEFINE S  == InstructionSet(n + 2)
             re == RuntimeError(tag)
  <2>1. re \in Seq(S)  BY ONLY <1>3, <1>4, InstructionTypes
  <2>2. X \in BlockSet(n + 2, m) /\ Y \in BlockSet(n + 2, m)
    BY ONLY <1>2, <1>3, <2>1, BlockTypes
  <2>3. Branching(re) /\ re[Len(re)].to = <<>>
    <3>1. Ret.op \in TerminatorOps  BY DEF Ret, Instruction, TerminatorOps
    <3> QED BY <3>1, EndingFlow
  <2>4. {re[Len(re)].to[i] : i \in 1..Len(re[Len(re)].to)} = {}
    <3>1. \A i \in 1..Len(re[Len(re)].to) : FALSE  BY <2>3, EmptySeq, SMT
    <3> QED BY ONLY <3>1
  <2> HIDE DEF S, re
  <2>5. X = Block(Top.fn, re)  BY DEF re
  <2> HIDE DEF X
  <2> QED BY ONLY <2>1, <2>2, <2>3, <2>4, <2>5, EndedBlock, EmptyBlockFlow
<1> HIDE DEF X, Y, code
<1>7. new \in Seq(BlockSet(n + 2, m)) /\ Len(new) = 2 /\ new[1] = X /\ new[2] = Y
  BY ONLY <1>6, Tuples
<1> HIDE DEF new
<1>8. NewFlowOK(new, 2, n)
  <2>1. \A i \in 1..Len(new) : i = 1 \/ i = 2  BY ONLY <1>7, SMT
  <2> QED BY ONLY <1>6, <1>7, <2>1 DEF NewFlowOK
<1>9. \A i \in 1..Len(code[Len(code)].to) :
        code[Len(code)].to[i] > n /\ code[Len(code)].to[i] \in 1..(n + 2)
  BY ONLY <1>3, <1>5, BranchTargets
<1>10. OpenAfter
  <2>1. n + 2 = Len(blocks) + Len(new) /\ new \in Seq(BlockSet(n + 2, Len(functions)))
        /\ 2 \in 1..Len(new) /\ insert' = Len(blocks) + 2
    BY <1>1, <1>3, <1>7
  <2> HIDE DEF n, m
  <2>2. blocks'[Len(blocks) + 2] = new[2]
    BY ONLY <1>1, <1>3, <1>5, <2>1, NewBlocks
  <2> QED BY ONLY <1>6, <1>7, <2>1, <2>2 DEF OpenAfter
<1>11. Goes(RestOfExpression)  BY ONLY <1>1, <1>10, RestGoesOn
<1>12. /\ n + 2 = Len(blocks) + Len(new) /\ insert' = Len(blocks) + 2
       /\ new \in Seq(BlockSet(n + 2, Len(functions))) /\ NewFlowOK(new, 2, Len(blocks))
       /\ \A i \in 1..Len(code[Len(code)].to) :
            code[Len(code)].to[i] > Len(blocks) /\ code[Len(code)].to[i] \in 1..(n + 2)
  BY <1>1, <1>3, <1>7, <1>8, <1>9
<1> HIDE DEF n, m
<1> QED BY ONLY <1>1, <1>2, <1>3, <1>5, <1>11, <1>12, NewFlow

\* An if-statement creates its blocks.
LEMMA IfConditionFlow ==
  ASSUME IInv, IInv', VInv, IfCondition
  PROVE  VInv'
<1> DEFINE n     == Len(blocks)
           m     == Len(functions)
           node  == Top.arg
           E     == EmptyBlock(Top.fn)
           D     == EmptyBlock(NoParent)
           owe   == IF HasElseBlock(node) THEN <<New(3), New(2)>> ELSE <<New(2)>>
           new   == IF HasElseBlock(node) THEN <<E, D, D>> ELSE <<E, D>>
           e     == CondBr("if", New(1), Head(owe))
           code  == <<e>>
           a     == Task("then_end", Top.fn, node, owe)
           b     == Gen(Top.fn, node.then)
<1>1. /\ Going /\ work' = Front(work) \o <<a, b>>
      /\ blocks' = Put(blocks, insert, code) \o new /\ insert' = New(1)
      /\ Top.op = "if_cond"
  BY DEF IfCondition, Doing, Then, Going
<1>2. n \in Nat /\ m \in Nat /\ Top.fn \in 0..m /\ IsOpen
  BY <1>1, GoingContext DEF NeedOps
<1>3. a.op = "then_end" /\ a.fn = Top.fn /\ b.op = "gen" /\ b.fn = Top.fn
  BY TaskParts DEF Gen
<1> HIDE DEF a, b
<1>4. Goes(<<a, b>>)
  <2>1. /\ Local(a) /\ a.op # "gen" /\ Local(b) /\ a.op \notin LoopOps /\ b.op \notin LoopOps
        /\ ~LeavesOpen(Top) /\ a.op \notin NeedOps /\ b.op \notin NeedOps
    BY ONLY <1>1, <1>3 DEF Local, LoopOps, LeavesOpen, KeepOps, NeedOps
  <2> QED BY ONLY <1>1, <2>1, NoLoop, GoesOn
<1> DEFINE k == IF HasElseBlock(node) THEN 3 ELSE 2
<1>5. /\ k \in {2, 3} /\ n + k \in Nat /\ New(1) = n + 1 /\ Head(owe) = n + k
      /\ New(1) \in 1..(n + k) /\ Head(owe) \in 1..(n + k) /\ New(1) > n /\ Head(owe) > n
  <2>1. Head(<<New(3), New(2)>>) = New(3) /\ Head(<<New(2)>>) = New(2)  OBVIOUS
  <2>2. Head(owe) = New(k) /\ k \in {2, 3}  BY <2>1
  <2> HIDE DEF k, owe, n
  <2>3. New(k) = n + k /\ New(1) = n + 1  BY DEF New, n
  <2> QED BY ONLY <1>2, <2>2, <2>3, SMT
<1> HIDE DEF owe
<1>6. /\ code \in Seq(InstructionSet(n + k)) /\ Branching(code)
      /\ code[Len(code)].to = <<New(1), Head(owe)>>
  <2>1. "if" \in Tags  BY TagTypes DEF VisitorTags
  <2> HIDE DEF n, k
  <2>2. e \in InstructionSet(n + k)  BY ONLY <1>5, <2>1, InstructionTypes
  <2>3. e.op \in TerminatorOps /\ e.to = <<New(1), Head(owe)>>  BY BranchParts
  <2> HIDE DEF e
  <2> QED BY ONLY <2>2, <2>3, Tuples, EndingFlow
<1> HIDE DEF code
<1>7. /\ E \in BlockSet(n + k, m) /\ E.fn = Top.fn
      /\ EndsOnce(E) /\ Plain(E) /\ Targets(E) = {}
      /\ D \in BlockSet(n + k, m) /\ D.fn = NoParent
      /\ EndsOnce(D) /\ Plain(D) /\ Targets(D) = {}
  <2>1. 0 \in 0..m  BY ONLY <1>2, SMT
  <2> HIDE DEF n, k, m
  <2>2. E \in BlockSet(n + k, m) /\ D \in BlockSet(n + k, m)
    BY ONLY <1>2, <1>5, <2>1, BlockTypes DEF NoParent
  <2> QED BY ONLY <2>2, EmptyBlockFlow
<1> HIDE DEF E, D
<1>8. /\ new \in Seq(BlockSet(n + k, m)) /\ Len(new) = k
      /\ \A i \in 1..Len(new) : (i = 1 /\ new[i] = E) \/ new[i] = D
  <2>1. /\ <<E, D, D>> \in Seq(BlockSet(n + k, m)) /\ Len(<<E, D, D>>) = 3
        /\ <<E, D>> \in Seq(BlockSet(n + k, m)) /\ Len(<<E, D>>) = 2
    <3> HIDE DEF n, k, m
    <3> QED BY ONLY <1>7, Tuples
  <2>2. /\ \A i \in 1..Len(<<E, D, D>>) : (i = 1 /\ <<E, D, D>>[i] = E) \/ <<E, D, D>>[i] = D
        /\ \A i \in 1..Len(<<E, D>>) : (i = 1 /\ <<E, D>>[i] = E) \/ <<E, D>>[i] = D
    OBVIOUS
  <2>3. \/ new = <<E, D, D>> /\ k = 3
        \/ new = <<E, D>> /\ k = 2
    OBVIOUS
  <2> HIDE DEF new, k
  <2> QED BY ONLY <2>1, <2>2, <2>3
<1> HIDE DEF new, k
<1>9. NewFlowOK(new, 1, n)  BY ONLY <1>7, <1>8 DEF NewFlowOK
<1>10. \A i \in 1..Len(code[Len(code)].to) :
         code[Len(code)].to[i] > n /\ code[Len(code)].to[i] \in 1..(n + k)
  BY ONLY <1>5, <1>6, BranchTargets
<1>11. /\ n + k = Len(blocks) + Len(new) /\ insert' = Len(blocks) + 1
       /\ new \in Seq(BlockSet(n + k, Len(functions))) /\ NewFlowOK(new, 1, Len(blocks))
       /\ \A i \in 1..Len(code[Len(code)].to) :
            code[Len(code)].to[i] > Len(blocks) /\ code[Len(code)].to[i] \in 1..(n + k)
  BY <1>1, <1>5, <1>8, <1>9, <1>10
<1> HIDE DEF n, m
<1> QED BY ONLY <1>1, <1>2, <1>4, <1>5, <1>6, <1>11, NewFlow

\* A block that is new is not the entry of a function.
LEMMA NewIsNoEntry ==
  ASSUME Going, NEW t, t > Len(blocks)
  PROVE  ~IsEntry(t)
<1>1. /\ Len(blocks) \in Nat
      /\ \A f \in 1..Len(functions) : functions[f].entry \in 1..Len(blocks)
  <2>1. TypeOK  BY DEF Going, IInv
  <2>2. \A f \in 1..Len(functions) : functions[f] \in FunctionSet(Len(blocks))
    BY <2>1 DEF TypeOK
  <2> QED BY <2>2, GoingContext DEF FunctionSet
<1> QED BY ONLY <1>1, t > Len(blocks), SMT DEF IsEntry

\* A loop creates its blocks; the code of its condition comes next.
LEMMA EnterLoopFlow ==
  ASSUME Going, IsOpen, EnterLoop(Top.arg), ~LeavesOpen(Top)
  PROVE  VInv'
<1> DEFINE n    == Len(blocks)
           m    == Len(functions)
           node == Top.arg
           E    == EmptyBlock(Top.fn)
           D    == EmptyBlock(NoParent)
           owe  == <<New(2), New(3)>>
           new  == <<E, D, D>>
           e    == Br(New(1))
           code == <<e>>
           arg  == [node |-> node, cond |-> New(1)]
           a    == Task("loop_cond", Top.fn, arg, owe)
           b    == Eval(Top.fn, node.expr)
<1>1. /\ work' = Front(work) \o <<a, b>>
      /\ blocks' = Put(blocks, insert, code) \o new /\ insert' = New(1)
  BY DEF EnterLoop, Then
<1>2. n \in Nat /\ m \in Nat /\ Top.fn \in 0..m  BY GoingContext
<1>3. /\ a.op = "loop_cond" /\ a.fn = Top.fn /\ a.arg.cond = New(1)
      /\ b.op = "eval" /\ b.fn = Top.fn
  <2>1. arg.cond = New(1)  OBVIOUS
  <2> HIDE DEF arg
  <2> QED BY <2>1, TaskParts DEF Eval
<1> HIDE DEF a, b
<1>4. n + 3 \in Nat /\ New(1) = n + 1 /\ New(1) \in 1..(n + 3) /\ New(1) > n
  BY ONLY <1>2, SMT DEF New
<1>5. /\ code \in Seq(InstructionSet(n + 3)) /\ Branching(code)
      /\ code[Len(code)].to = <<New(1)>>
  <2>1. e \in InstructionSet(n + 3)  BY ONLY <1>4, InstructionTypes
  <2>2. e.op \in TerminatorOps /\ e.to = <<New(1)>>  BY BranchParts
  <2> HIDE DEF e
  <2> QED BY ONLY <2>1, <2>2, Tuples, EndingFlow
<1> HIDE DEF code
<1>6. /\ E \in BlockSet(n + 3, m) /\ E.fn = Top.fn
      /\ EndsOnce(E) /\ Plain(E) /\ Targets(E) = {} /\ ~HasTerminator(E)
      /\ D \in BlockSet(n + 3, m) /\ D.fn = NoParent
      /\ EndsOnce(D) /\ Plain(D) /\ Targets(D) = {}
  <2>1. 0 \in 0..m  BY ONLY <1>2, SMT
  <2>2. E \in BlockSet(n + 3, m) /\ D \in BlockSet(n + 3, m)
    BY ONLY <1>2, <1>4, <2>1, BlockTypes DEF NoParent
  <2> QED BY ONLY <2>2, EmptyBlockFlow
<1> HIDE DEF E, D
<1>7. /\ new \in Seq(BlockSet(n + 3, m)) /\ Len(new) = 3
      /\ new[1] = E /\ new[2] = D /\ new[3] = D
  BY ONLY <1>6, Tuples
<1> HIDE DEF new
<1>8. \A i \in 1..Len(new) : (i = 1 /\ new[i] = E) \/ new[i] = D
  <2>1. \A i \in 1..Len(new) : i = 1 \/ i = 2 \/ i = 3  BY ONLY <1>7, SMT
  <2> QED BY ONLY <1>7, <2>1
<1>9. NewFlowOK(new, 1, n)  BY ONLY <1>6, <1>8 DEF NewFlowOK
<1>10. \A i \in 1..Len(code[Len(code)].to) :
         code[Len(code)].to[i] > n /\ code[Len(code)].to[i] \in 1..(n + 3)
  BY ONLY <1>4, <1>5, BranchTargets
<1>11. /\ n + 3 = Len(blocks) + Len(new) /\ insert' = Len(blocks) + 1 /\ New(1) = Len(blocks) + 1
       /\ new \in Seq(BlockSet(n + 3, Len(functions))) /\ NewFlowOK(new, 1, Len(blocks))
       /\ 1 \in 1..Len(new) /\ New(1) > Len(blocks)
       /\ \A i \in 1..Len(code[Len(code)].to) :
            code[Len(code)].to[i] > Len(blocks) /\ code[Len(code)].to[i] \in 1..(n + 3)
  BY <1>1, <1>4, <1>7, <1>9, <1>10
<1> HIDE DEF n, m
<1>12. blocks'[New(1)] = E
  <2>1. blocks'[Len(blocks) + 1] = new[1]
    BY ONLY Going, <1>1, <1>4, <1>5, <1>11, NewBlocks
  <2> QED BY ONLY <1>7, <1>11, <2>1
<1>13. OpenAfter  BY ONLY <1>1, <1>6, <1>12 DEF OpenAfter
<1>14. LoopTaskOK(blocks', a)
  <2>1. ~IsEntry(New(1))  BY ONLY Going, <1>11, NewIsNoEntry
  <2> QED BY ONLY <1>3, <1>6, <1>12, <2>1 DEF LoopTaskOK
<1>15. Goes(<<a, b>>)
  <2>1. /\ Local(a) /\ a.op # "gen" /\ Local(b) /\ b.op \notin LoopOps /\ LeavesOpen(b)
    BY ONLY <1>3 DEF Local, LoopOps, LeavesOpen, KeepOps
  <2> QED BY ONLY Going, ~LeavesOpen(Top), <1>1, <1>13, <1>14, <2>1, NoLoop, GoesOn
<1> QED BY ONLY Going, IsOpen, <1>1, <1>4, <1>5, <1>11, <1>15, NewFlow

\* A while-statement begins with its condition.
LEMMA GenerateWhileFlow ==
  ASSUME IInv, IInv', VInv, GenerateWhile
  PROVE  VInv'
<1>1. /\ Going /\ EnterLoop(Top.arg) /\ IsOpen
      /\ Top.op = "gen" /\ Top.arg.kind = "while"
  BY DEF GenerateWhile, EnterLoop, Visit, Doing, Going, IsPreviousInstructionBlockTerminator, IsOpen
<1>2. ~LeavesOpen(Top)  BY ONLY <1>1 DEF LeavesOpen, KeepOps
<1> QED BY ONLY <1>1, <1>2, EnterLoopFlow

\* The loop of a for-statement begins after its initialization.
LEMMA ForInitializedFlow ==
  ASSUME IInv, IInv', VInv, ForInitialized
  PROVE  VInv'
<1>1. Going /\ EnterLoop(Top.arg) /\ Top.op = "for_init"
  BY DEF ForInitialized, EnterLoop, Doing, Going
<1>2. ~LeavesOpen(Top)  BY ONLY <1>1 DEF LeavesOpen, KeepOps
<1>3. IsOpen  BY <1>1, GoingContext DEF NeedOps
<1> QED BY ONLY <1>1, <1>2, <1>3, EnterLoopFlow

-----------------------------------------------------------------------------
(* Blocks with PHI nodes.                                                  *)

\* The incoming blocks of a PHI node.
LEMMA Incoming ==
  /\ \A a : IsInjective(<<a>>) /\ Range(<<a>>) = {a}
  /\ \A a, b : a # b => IsInjective(<<a, b>>) /\ Range(<<a, b>>) = {a, b}
<1>1. ASSUME NEW a PROVE IsInjective(<<a>>) /\ Range(<<a>>) = {a}
  <2> DEFINE s == <<a>>
  <2>1. DOMAIN s = {1} /\ s[1] = a  OBVIOUS
  <2> HIDE DEF s
  <2>2. IsInjective(s) /\ Range(s) = {a}  BY ONLY <2>1 DEF IsInjective, Range
  <2> QED BY <2>2 DEF s
<1>2. ASSUME NEW a, NEW b, a # b PROVE IsInjective(<<a, b>>) /\ Range(<<a, b>>) = {a, b}
  <2> DEFINE s == <<a, b>>
  <2>1. DOMAIN s = {1, 2} /\ s[1] = a /\ s[2] = b  OBVIOUS
  <2> HIDE DEF s
  <2>2. IsInjective(s) /\ Range(s) = {a, b}
    BY ONLY <1>2, <2>1 DEF IsInjective, Range
  <2> QED BY <2>2 DEF s
<1> QED BY <1>1, <1>2

\* A branch leads to its targets.
LEMMA LeadsTo ==
  ASSUME NEW e, NEW t
  PROVE  /\ \A a : e.to = <<a>> => (Reaches(e, t) <=> t = a)
         /\ \A a, b : e.to = <<a, b>> => (Reaches(e, t) <=> t = a \/ t = b)
<1> DEFINE s == e.to
<1>1. ASSUME NEW a, s = <<a>>
      PROVE  (\E i \in 1..Len(s) : s[i] = t) <=> t = a
  <2>1. Len(s) = 1 /\ s[1] = a  BY <1>1
  <2> HIDE DEF s
  <2>2. 1 \in 1..Len(s) /\ \A i \in 1..Len(s) : i = 1  BY ONLY <2>1, SMT
  <2> QED BY ONLY <2>1, <2>2
<1>2. ASSUME NEW a, NEW b, s = <<a, b>>
      PROVE  (\E i \in 1..Len(s) : s[i] = t) <=> t = a \/ t = b
  <2>1. Len(s) = 2 /\ s[1] = a /\ s[2] = b  BY <1>2
  <2> HIDE DEF s
  <2>2. 1 \in 1..Len(s) /\ 2 \in 1..Len(s) /\ \A i \in 1..Len(s) : i = 1 \/ i = 2
    BY ONLY <2>1, SMT
  <2> QED BY ONLY <2>1, <2>2
<1> QED BY <1>1, <1>2 DEF Reaches

\* A block that begins with PHI nodes and ends with a branch.
LEMMA PhiBlock ==
  ASSUME NEW preds, NEW e, e.op \in TerminatorOps, NEW x,
         x.code = <<Phi(preds), e>> \/ x.code = <<Phi(preds), Phi(preds), e>>
  PROVE  /\ HasTerminator(x) /\ EndsOnce(x)
         /\ \A t : t \in Targets(x) <=> Reaches(e, t)
         /\ x.code = <<Phi(preds), e>> => PrintLoopHead(x)
         /\ MatchesIn(x, preds)
<1> DEFINE phi == Phi(preds)
           s   == x.code
<1>1. phi.op = "phi" /\ phi.to = preds /\ phi.op \notin TerminatorOps /\ e.op # "phi"
  BY DEF Phi, Instruction, TerminatorOps
<1>2. /\ s # <<>> /\ Len(s) \in {2, 3} /\ s[Len(s)] = e
      /\ s = <<phi, e>> => Len(s) = 2
      /\ \A i \in 1..Len(s) : s[i] = phi \/ (i = Len(s) /\ s[i] = e)
      /\ \A i \in 1..(Len(s) - 1) : s[i] = phi
  <2>1. CASE s = <<phi, e>>
    <3>1. Len(s) = 2 /\ s[1] = phi /\ s[2] = e /\ s # <<>>  BY ONLY <2>1
    <3> HIDE DEF s
    <3>2. (\A i \in 1..Len(s) : i = 1 \/ i = 2) /\ \A i \in 1..(Len(s) - 1) : i = 1
      BY ONLY <3>1, SMT
    <3> QED BY ONLY <3>1, <3>2
  <2>2. CASE s = <<phi, phi, e>>
    <3>1. Len(s) = 3 /\ s[1] = phi /\ s[2] = phi /\ s[3] = e /\ s # <<>>
      BY ONLY <2>2
    <3>2. Len(<<phi, e>>) = 2  OBVIOUS
    <3> HIDE DEF s
    <3>3. /\ \A i \in 1..Len(s) : i = 1 \/ i = 2 \/ i = 3
          /\ \A i \in 1..(Len(s) - 1) : i = 1 \/ i = 2
      BY ONLY <3>1, SMT
    <3> QED BY ONLY <3>1, <3>2, <3>3
  <2> QED BY <2>1, <2>2
<1> HIDE DEF phi
<1>3. /\ HasTerminator(x) /\ EndsOnce(x)
      /\ \A t : t \in Targets(x) <=> Reaches(e, t)
  BY ONLY <1>1, <1>2, e.op \in TerminatorOps
     DEF HasTerminator, EndsOnce, Targets, Last, Reaches, s
<1>4. ASSUME s = <<phi, e>> PROVE PrintLoopHead(x)
  <2>1. Len(s) = 2 /\ s[1] = phi /\ s[2] = e  BY ONLY <1>4
  <2> HIDE DEF s
  <2>2. Len(s) > 1 /\ \A i \in 1..Len(s) : i = 1 \/ i = 2  BY ONLY <2>1, SMT
  <2>3. Len(s) > 1 /\ \A i \in 1..Len(s) : s[i].op = "phi" <=> i = 1
    BY ONLY <1>1, <2>1, <2>2
  <2> QED BY ONLY <1>3, <2>3 DEF PrintLoopHead, s
<1>5. ASSUME NEW bs, NEW b, bs[b] = x, IsInjective(preds), Range(preds) = Predecessors(bs, b)
      PROVE  PhisMatch(bs, b)
  <2> SUFFICES ASSUME NEW i \in 1..Len(s), s[i].op = "phi"
               PROVE  /\ \A j \in 1..i : s[j].op = "phi"
                      /\ IsInjective(s[i].to) /\ Range(s[i].to) = Predecessors(bs, b)
    BY <1>5 DEF PhisMatch
  <2>1. s[i] = phi /\ i # Len(s)  BY <1>1, <1>2
  <2> HIDE DEF s
  <2>2. \A j \in 1..i : j \in 1..(Len(s) - 1)
    BY ONLY <1>2, <2>1, i \in 1..Len(s), SMT
  <2>3. \A j \in 1..i : s[j].op = "phi"  BY ONLY <1>1, <1>2, <2>2
  <2> QED BY ONLY <1>1, <1>5, <2>1, <2>3
<1> QED BY <1>3, <1>4, <1>5 DEF phi, MatchesIn

\* The blocks that lead to a new block are new, or the block that was continued.
LEMMA NewPredecessors ==
  ASSUME Going, IsOpen, NEW n2 \in Nat, NEW new \in Seq(BlockSet(n2, Len(functions))),
         n2 = Len(blocks) + Len(new), NEW code \in Seq(InstructionSet(n2)),
         blocks' = Put(blocks, insert, code) \o new, Branching(code),
         NEW t, t > Len(blocks)
  PROVE  ComesFrom(new, code, t)
<1>1. /\ Len(new) \in Nat /\ Len(blocks) <= n2 /\ Len(blocks') = n2
      /\ \A c \in 1..Len(blocks) : c # insert => blocks'[c] = blocks[c]
      /\ \A i \in 1..Len(new) : Len(blocks) + i \in 1..n2 /\ blocks'[Len(blocks) + i] = new[i]
      /\ \A c \in 1..n2 : c > Len(blocks) =>
           \E i \in 1..Len(new) : c = Len(blocks) + i /\ blocks'[c] = new[i]
      /\ Extends(blocks[insert], blocks'[insert], code)
      /\ InstructionSet(Len(blocks)) \subseteq InstructionSet(n2)
  BY NewBlocks
<1>2. /\ Len(blocks) \in Nat /\ insert \in 1..Len(blocks) /\ EndsOnce(blocks[insert])
      /\ blocks[insert].code \in Seq(InstructionSet(n2)) /\ EdgesOK
  BY <1>1, GoingContext DEF Flowing
<1>3. Targets(blocks'[insert]) = {code[Len(code)].to[k] : k \in 1..Len(code[Len(code)].to)}
  <2> DEFINE S == InstructionSet(n2)
  <2>1. blocks[insert].code \in Seq(S) /\ code \in Seq(S)  BY <1>2
  <2> HIDE DEF S
  <2> QED BY ONLY <1>1, <1>2, <2>1, IsOpen, Branching(code), AppendCode DEF Extends, IsOpen
<1>4. insert \in 1..n2  BY ONLY <1>1, <1>2, n2 \in Nat, SMT
<1>5. ASSUME NEW p \in Predecessors(blocks', t)
      PROVE  p = insert \/ \E j \in 1..Len(new) : p = Len(blocks) + j
  <2>1. p \in 1..n2 /\ t \in Targets(blocks'[p])  BY <1>1 DEF Predecessors
  <2>2. CASE p > Len(blocks)  BY ONLY <1>1, <2>1, <2>2
  <2>3. CASE p \in 1..Len(blocks) /\ p # insert
    <3>1. t \in 1..Len(blocks)  BY ONLY <1>1, <1>2, <2>1, <2>3 DEF EdgesOK
    <3> QED BY ONLY <1>2, <3>1, t > Len(blocks), SMT
  <2>4. p > Len(blocks) \/ p \in 1..Len(blocks)
    BY ONLY <1>2, <2>1, n2 \in Nat, SMT
  <2> QED BY ONLY <2>2, <2>3, <2>4
<1>6. insert \in Predecessors(blocks', t) <=> Reaches(code[Len(code)], t)
  BY <1>1, <1>3, <1>4 DEF Predecessors, Reaches
<1>7. \A j \in 1..Len(new) : Len(blocks) + j \in Predecessors(blocks', t) <=> t \in Targets(new[j])
  BY <1>1 DEF Predecessors
<1> QED BY <1>5, <1>6, <1>7 DEF ComesFrom

\* The blocks of the gcd loop: two PHI nodes that know both ways to them.
LEMMA GenerateGCDFlow ==
  ASSUME IInv, IInv', VInv, GenerateGCD
  PROVE  VInv'
<1> DEFINE n     == Len(blocks)
           m     == Len(functions)
           f     == Br(New(1))
           e     == CondBr("gcd", New(2), New(3))
           code  == <<Act("gcd arguments"), f>>
           back  == <<f>>
           preds == <<insert, New(2)>>
           cond  == <<Phi(preds), Phi(preds), e>>
           X     == Block(Top.fn, cond)
           Y     == Block(Top.fn, back)
           Z     == EmptyBlock(Top.fn)
           new   == <<X, Y, Z>>
<1>1. /\ Going /\ work' = Front(work) \o RestOfExpression
      /\ blocks' = Put(blocks, insert, code) \o new /\ insert' = New(3)
      /\ Top.op = "eval"
  BY DEF GenerateGCD, Expecting, Doing, Then, Going
<1>2. n \in Nat /\ m \in Nat /\ Top.fn \in 0..m /\ IsOpen /\ insert \in 1..n
  BY <1>1, GoingContext DEF NeedOps
<1>3. /\ n + 3 \in Nat /\ New(1) = n + 1 /\ New(2) = n + 2 /\ New(3) = n + 3
      /\ New(1) \in 1..(n + 3) /\ New(2) \in 1..(n + 3) /\ New(3) \in 1..(n + 3)
      /\ New(1) > n /\ New(2) > n /\ New(3) > n /\ insert \in 1..(n + 3)
      /\ insert # New(2) /\ n + 1 # n + 2 /\ n + 1 # n + 3
  BY ONLY <1>2, SMT DEF New
<1>4. /\ f \in InstructionSet(n + 3) /\ f.op \in TerminatorOps /\ f.to = <<New(1)>>
      /\ e \in InstructionSet(n + 3) /\ e.op \in TerminatorOps /\ e.to = <<New(2), New(3)>>
      /\ Act("gcd arguments") \in InstructionSet(n + 3)
  <2>1. {"gcd", "gcd arguments"} \subseteq Tags  BY TagTypes DEF VisitorTags
  <2>2. /\ f \in InstructionSet(n + 3) /\ e \in InstructionSet(n + 3)
        /\ Act("gcd arguments") \in InstructionSet(n + 3)
    BY ONLY <1>3, <2>1, InstructionTypes
  <2> QED BY <2>2, BranchParts
<1>5. cond \in Seq(InstructionSet(n + 3))
  <2>1. preds \in Seq(1..(n + 3))  BY ONLY <1>3, Tuples
  <2>2. Phi(preds) \in InstructionSet(n + 3)
    BY ONLY <1>3, <2>1, InstructionTypes
  <2> QED BY ONLY <1>4, <2>2, Tuples
<1>6. IsInjective(preds) /\ Range(preds) = {insert, n + 2}
  BY ONLY <1>3, Incoming
<1> HIDE DEF e, f, preds
<1>7. /\ code \in Seq(InstructionSet(n + 3)) /\ back \in Seq(InstructionSet(n + 3))
      /\ Branching(code) /\ code[Len(code)].to = <<New(1)>>
      /\ Branching(back) /\ back[Len(back)].to = <<New(1)>>
  BY ONLY <1>4, Tuples, EndingFlow
<1>8. X.code = <<Phi(preds), Phi(preds), e>> /\ X.fn = Top.fn  BY DEF Block
<1> HIDE DEF code, back, cond
<1>9. X \in BlockSet(n + 3, m) /\ Y \in BlockSet(n + 3, m) /\ Z \in BlockSet(n + 3, m)
  BY ONLY <1>2, <1>3, <1>5, <1>7, BlockTypes
<1>10. /\ HasTerminator(X) /\ EndsOnce(X) /\ Targets(X) = {n + 2, n + 3}
       /\ \A bs, b : bs[b] = X /\ Predecessors(bs, b) = {insert, n + 2} => PhisMatch(bs, b)
  <2>1. \A t : Reaches(e, t) <=> t = n + 2 \/ t = n + 3
    <3> TAKE t
    <3> DEFINE a == New(2)
               b == New(3)
    <3>1. e.to = <<a, b>> /\ a = n + 2 /\ b = n + 3  BY ONLY <1>3, <1>4
    <3> HIDE DEF a, b
    <3>2. Reaches(e, t) <=> t = a \/ t = b  BY ONLY <3>1, LeadsTo
    <3> QED BY ONLY <3>1, <3>2
  <2> HIDE DEF X
  <2>2. /\ HasTerminator(X) /\ EndsOnce(X)
        /\ \A t : t \in Targets(X) <=> Reaches(e, t)
        /\ MatchesIn(X, preds)
    BY ONLY <1>4, <1>8, PhiBlock
  <2> QED BY ONLY <1>6, <2>1, <2>2 DEF MatchesIn
<1>11. /\ Y.fn = Top.fn /\ HasTerminator(Y) /\ EndsOnce(Y) /\ Plain(Y) /\ Targets(Y) = {n + 1}
       /\ Z.fn = Top.fn /\ ~HasTerminator(Z) /\ EndsOnce(Z) /\ Plain(Z) /\ Targets(Z) = {}
  <2> DEFINE S == InstructionSet(n + 3)
  <2>1. {back[Len(back)].to[i] : i \in 1..Len(back[Len(back)].to)} = {n + 1}
    BY ONLY <1>3, <1>7, BranchTargets
  <2>2. back \in Seq(S)  BY <1>7
  <2> HIDE DEF S
  <2>3. /\ Y.fn = Top.fn /\ HasTerminator(Y) /\ EndsOnce(Y) /\ Plain(Y)
        /\ Targets(Y) = {back[Len(back)].to[i] : i \in 1..Len(back[Len(back)].to)}
    BY ONLY <1>7, <2>2, EndedBlock
  <2> QED BY ONLY <2>1, <2>3, EmptyBlockFlow
<1> HIDE DEF X, Y, Z
<1>12. new \in Seq(BlockSet(n + 3, m)) /\ Len(new) = 3 /\ new[1] = X /\ new[2] = Y /\ new[3] = Z
  BY ONLY <1>9, Tuples
<1> HIDE DEF new
<1>13. \A i \in 1..Len(new) : i = 1 \/ i = 2 \/ i = 3  BY ONLY <1>12, SMT
<1>14. 1 \in 1..Len(new) /\ 2 \in 1..Len(new) /\ 3 \in 1..Len(new)
  BY ONLY <1>12, SMT
<1>15. /\ n + 3 = Len(blocks) + Len(new) /\ insert' = Len(blocks) + 3
       /\ new \in Seq(BlockSet(n + 3, Len(functions))) /\ n = Len(blocks) /\ n + 1 > Len(blocks)
  BY <1>1, <1>3, <1>12
<1> HIDE DEF n, m
<1>16. blocks'[n + 1] = X /\ blocks'[n + 3] = Z
  <2>1. \A i \in 1..Len(new) : blocks'[Len(blocks) + i] = new[i]
    BY ONLY <1>1, <1>3, <1>7, <1>15, NewBlocks
  <2> QED BY ONLY <1>12, <1>14, <1>15, <2>1
<1>17. Predecessors(blocks', n + 1) = {insert, n + 2}
  <2>1. Reaches(code[Len(code)], n + 1)  BY ONLY <1>3, <1>7, LeadsTo
  <2>2. /\ insert \in Predecessors(blocks', n + 1) <=>
             Reaches(code[Len(code)], n + 1)
        /\ \A j \in 1..Len(new) :
             Len(blocks) + j \in Predecessors(blocks', n + 1) <=> n + 1 \in Targets(new[j])
        /\ \A p \in Predecessors(blocks', n + 1) :
             p = insert \/ \E j \in 1..Len(new) : p = Len(blocks) + j
    <3> DEFINE t == n + 1
               l == n + 3
    <3>1. t > Len(blocks) /\ l \in Nat /\ l = Len(blocks) + Len(new)
      BY ONLY <1>3, <1>15
    <3>2. new \in Seq(BlockSet(l, Len(functions))) /\ code \in Seq(InstructionSet(l))
      BY ONLY <1>7, <1>15
    <3> HIDE DEF t, l
    <3>3. ComesFrom(new, code, t)
      BY ONLY <1>1, <1>2, <1>7, <3>1, <3>2, NewPredecessors
    <3> QED BY <1>15, <3>3 DEF t, ComesFrom
  <2>3. /\ insert \in Predecessors(blocks', n + 1)
        /\ n + 1 \notin Predecessors(blocks', n + 1)
        /\ n + 2 \in Predecessors(blocks', n + 1)
        /\ n + 3 \notin Predecessors(blocks', n + 1)
    BY ONLY <1>3, <1>10, <1>11, <1>12, <1>14, <1>15, <2>1, <2>2
  <2> QED BY ONLY <1>13, <1>15, <2>2, <2>3
<1>18. NewFlowOK(new, 3, Len(blocks))
  <2>1. PhisMatch(blocks', n + 1)  BY ONLY <1>10, <1>16, <1>17
  <2>2. \A t \in {n + 1, n + 2, n + 3} : t > Len(blocks) /\ t \in 1..(Len(blocks) + Len(new))
    BY ONLY <1>3, <1>15
  <2>3. Top.fn \in {NoParent, Top.fn}  OBVIOUS
  <2>4. ASSUME NEW i \in 1..Len(new)
        PROVE  /\ new[i].fn \in {NoParent, Top.fn}
               /\ HasTerminator(new[i]) \/ new[i].fn = NoParent \/ i = 3
               /\ EndsOnce(new[i])
               /\ Plain(new[i]) \/ PhisMatch(blocks', Len(blocks) + i)
               /\ \A t \in Targets(new[i]) : t > Len(blocks) /\ t \in 1..(Len(blocks) + Len(new))
    <3>1. CASE i = 1  BY ONLY <1>8, <1>10, <1>12, <1>15, <2>1, <2>2, <2>3, <3>1
    <3>2. CASE i = 2  BY ONLY <1>11, <1>12, <1>15, <2>2, <2>3, <3>2
    <3>3. CASE i = 3  BY ONLY <1>11, <1>12, <1>15, <2>2, <2>3, <3>3
    <3> QED BY ONLY <1>13, <3>1, <3>2, <3>3, i \in 1..Len(new)
  <2> QED BY ONLY <2>4 DEF NewFlowOK
<1>19. OpenAfter  BY ONLY <1>1, <1>3, <1>11, <1>16 DEF OpenAfter
<1>20. Goes(RestOfExpression)  BY ONLY <1>1, <1>19, RestGoesOn
<1>21. \A i \in 1..Len(code[Len(code)].to) :
         code[Len(code)].to[i] > Len(blocks) /\ code[Len(code)].to[i] \in 1..(n + 3)
  BY ONLY <1>3, <1>7, <1>15, BranchTargets
<1> QED BY ONLY <1>1, <1>2, <1>3, <1>7, <1>15, <1>18, <1>20, <1>21, NewFlow

\* The blocks of the loop that prints an array: its PHI node knows the way from
\* the block before the loop; the way back comes later.
LEMMA PrintArrayFlow ==
  ASSUME IInv, IInv', VInv, PrintArray
  PROVE  VInv'
<1> DEFINE n     == Len(blocks)
           m     == Len(functions)
           f     == Br(New(2))
           e     == CondBr("more", New(3), New(4))
           g     == CondBr("empty", New(5), New(1))
           code  == <<Act("open"), g>>
           from  == <<f>>
           preds == <<New(1)>>
           cond  == <<Phi(preds), e>>
           X     == Block(Top.fn, from)
           Y     == Block(Top.fn, cond)
           E     == EmptyBlock(Top.fn)
           D     == EmptyBlock(NoParent)
           new   == <<X, Y, E, D, D>>
           owe   == <<New(4), New(5)>>
           arg   == [depth |-> Top.arg.depth, cond |-> New(2)]
           a     == Task("print_main", Top.fn, arg, owe)
           b     == PrintValue(Top.arg.depth - 1)
<1>1. /\ Going /\ work' = Front(work) \o <<a, b>>
      /\ blocks' = Put(blocks, insert, code) \o new /\ insert' = New(3)
      /\ Top.op = "print_value"
  BY DEF PrintArray, Doing, Then, Going
<1>2. n \in Nat /\ m \in Nat /\ Top.fn \in 0..m /\ IsOpen /\ insert \in 1..n
  BY <1>1, GoingContext DEF NeedOps
<1>3. /\ a.op = "print_main" /\ a.fn = Top.fn /\ a.arg.cond = New(2)
      /\ b.op = "print_value" /\ b.fn = Top.fn
  <2>1. arg.cond = New(2)  OBVIOUS
  <2> HIDE DEF arg
  <2> QED BY <2>1, TaskParts DEF PrintValue
<1> HIDE DEF a, b, arg
<1>4. /\ n + 5 \in Nat /\ New(1) = n + 1 /\ New(2) = n + 2 /\ New(3) = n + 3
      /\ New(4) = n + 4 /\ New(5) = n + 5
      /\ \A t \in {n + 1, n + 2, n + 3, n + 4, n + 5} : t > n /\ t \in 1..(n + 5)
      /\ insert # n + 1 /\ n + 2 # n + 1 /\ n + 2 # n + 3 /\ n + 2 # n + 4 /\ n + 2 # n + 5
      /\ insert \in 1..(n + 5)
  BY ONLY <1>2, SMT DEF New
<1>5. /\ f \in InstructionSet(n + 5) /\ f.op \in TerminatorOps /\ f.to = <<n + 2>>
      /\ e \in InstructionSet(n + 5) /\ e.op \in TerminatorOps /\ e.to = <<n + 3, n + 4>>
      /\ g \in InstructionSet(n + 5) /\ g.op \in TerminatorOps /\ g.to = <<n + 5, n + 1>>
      /\ Act("open") \in InstructionSet(n + 5)
  <2>1. {"open", "empty", "more"} \subseteq Tags  BY TagTypes DEF VisitorTags
  <2>2. /\ f \in InstructionSet(n + 5) /\ e \in InstructionSet(n + 5) /\ g \in InstructionSet(n + 5)
        /\ Act("open") \in InstructionSet(n + 5)
    BY ONLY <1>4, <2>1, InstructionTypes
  <2> QED BY <1>4, <2>2, BranchParts
<1>6. cond \in Seq(InstructionSet(n + 5))
  <2>1. preds \in Seq(1..(n + 5))  BY ONLY <1>4, Tuples
  <2>2. Phi(preds) \in InstructionSet(n + 5)
    BY ONLY <1>4, <2>1, InstructionTypes
  <2> QED BY ONLY <1>5, <2>2, Tuples
<1>7. IsInjective(preds) /\ Range(preds) = {n + 1}  BY ONLY <1>4, Incoming
<1> HIDE DEF e, f, g, preds
<1>8. /\ code \in Seq(InstructionSet(n + 5)) /\ from \in Seq(InstructionSet(n + 5))
      /\ Branching(code) /\ code[Len(code)] = g
      /\ Branching(from) /\ from[Len(from)] = f
  BY ONLY <1>5, Tuples, EndingFlow
<1>9. Y.code = <<Phi(preds), e>> /\ Y.fn = Top.fn  BY DEF Block
<1>10. \A t : /\ Reaches(e, t) <=> t = n + 3 \/ t = n + 4
              /\ Reaches(g, t) <=> t = n + 5 \/ t = n + 1
              /\ Reaches(f, t) <=> t = n + 2
  <2> TAKE t
  <2> DEFINE a1 == n + 1
             a2 == n + 2
             a3 == n + 3
             a4 == n + 4
             a5 == n + 5
  <2>1. f.to = <<a2>> /\ e.to = <<a3, a4>> /\ g.to = <<a5, a1>>  BY ONLY <1>5
  <2> HIDE DEF a1, a2, a3, a4, a5
  <2>2. /\ Reaches(e, t) <=> t = a3 \/ t = a4
        /\ Reaches(g, t) <=> t = a5 \/ t = a1
        /\ Reaches(f, t) <=> t = a2
    BY ONLY <2>1, LeadsTo
  <2> QED BY <2>2 DEF a1, a2, a3, a4, a5
<1> HIDE DEF code, from, cond
<1>11. X \in BlockSet(n + 5, m) /\ Y \in BlockSet(n + 5, m) /\ E \in BlockSet(n + 5, m) /\ D \in BlockSet(n + 5, m)
  <2>1. 0 \in 0..m  BY ONLY <1>2, SMT
  <2> QED BY ONLY <1>2, <1>4, <1>6, <1>8, <2>1, BlockTypes DEF NoParent
<1>12. /\ HasTerminator(Y) /\ EndsOnce(Y) /\ Targets(Y) = {n + 3, n + 4} /\ PrintLoopHead(Y)
       /\ \A bs, c : bs[c] = Y /\ Predecessors(bs, c) = {n + 1} => PhisMatch(bs, c)
  <2> HIDE DEF Y
  <2>1. /\ HasTerminator(Y) /\ EndsOnce(Y)
        /\ \A t : t \in Targets(Y) <=> Reaches(e, t)
        /\ Y.code = <<Phi(preds), e>> => PrintLoopHead(Y)
        /\ MatchesIn(Y, preds)
    BY ONLY <1>5, <1>9, PhiBlock
  <2> QED BY ONLY <1>7, <1>9, <1>10, <2>1 DEF MatchesIn
<1>13. X.fn = Top.fn /\ HasTerminator(X) /\ EndsOnce(X) /\ Plain(X) /\ Targets(X) = {n + 2}
  <2> DEFINE S == InstructionSet(n + 5)
  <2>1. from[Len(from)].to = <<n + 2>>  BY ONLY <1>5, <1>8
  <2>2. {from[Len(from)].to[i] : i \in 1..Len(from[Len(from)].to)} = {n + 2}
    BY ONLY <2>1, BranchTargets
  <2>3. from \in Seq(S)  BY <1>8
  <2> HIDE DEF S
  <2>4. /\ X.fn = Top.fn /\ HasTerminator(X) /\ EndsOnce(X) /\ Plain(X)
        /\ Targets(X) = {from[Len(from)].to[i] : i \in 1..Len(from[Len(from)].to)}
    BY ONLY <1>8, <2>3, EndedBlock
  <2> QED BY ONLY <2>2, <2>4
<1>14. /\ E.fn = Top.fn /\ ~HasTerminator(E) /\ EndsOnce(E) /\ Plain(E) /\ Targets(E) = {}
       /\ D.fn = NoParent /\ EndsOnce(D) /\ Plain(D) /\ Targets(D) = {}
  BY ONLY EmptyBlockFlow
<1> HIDE DEF X, Y, E, D
<1>15. /\ new \in Seq(BlockSet(n + 5, m)) /\ Len(new) = 5
       /\ new[1] = X /\ new[2] = Y /\ new[3] = E /\ new[4] = D /\ new[5] = D
  BY ONLY <1>11, Tuples
<1> HIDE DEF new
<1>16. \A i \in 1..Len(new) : i = 1 \/ i = 2 \/ i = 3 \/ i = 4 \/ i = 5
  BY ONLY <1>15, SMT
<1>17. 1 \in 1..Len(new) /\ 2 \in 1..Len(new) /\ 3 \in 1..Len(new) /\ 4 \in 1..Len(new) /\ 5 \in 1..Len(new)
  BY ONLY <1>15, SMT
<1>18. /\ n + 5 = Len(blocks) + Len(new) /\ insert' = Len(blocks) + 3
       /\ new \in Seq(BlockSet(n + 5, Len(functions))) /\ n = Len(blocks) /\ n + 2 > Len(blocks)
  BY <1>1, <1>4, <1>15
<1> HIDE DEF n, m
<1>19. blocks'[n + 2] = Y /\ blocks'[n + 3] = E
  <2>1. \A i \in 1..Len(new) : blocks'[Len(blocks) + i] = new[i]
    BY ONLY <1>1, <1>4, <1>8, <1>18, NewBlocks
  <2> QED BY ONLY <1>15, <1>17, <1>18, <2>1
<1>20. Predecessors(blocks', n + 2) = {n + 1}
  <2>1. ~Reaches(code[Len(code)], n + 2)  BY ONLY <1>4, <1>8, <1>10
  <2>2. /\ insert \in Predecessors(blocks', n + 2) <=> Reaches(code[Len(code)], n + 2)
        /\ \A j \in 1..Len(new) :
             n + j \in Predecessors(blocks', n + 2) <=> n + 2 \in Targets(new[j])
        /\ \A p \in Predecessors(blocks', n + 2) :
             p = insert \/ \E j \in 1..Len(new) : p = n + j
    <3> DEFINE t == n + 2
               l == n + 5
    <3>1. t > Len(blocks) /\ l \in Nat /\ l = Len(blocks) + Len(new)
      BY ONLY <1>4, <1>18
    <3>2. new \in Seq(BlockSet(l, Len(functions))) /\ code \in Seq(InstructionSet(l))
      BY ONLY <1>8, <1>18
    <3> HIDE DEF t, l
    <3>3. ComesFrom(new, code, t)
      BY ONLY <1>1, <1>2, <1>8, <3>1, <3>2, NewPredecessors
    <3> QED BY <1>18, <3>3 DEF t, ComesFrom
  <2>3. /\ insert \notin Predecessors(blocks', n + 2)
        /\ n + 1 \in Predecessors(blocks', n + 2)
        /\ n + 2 \notin Predecessors(blocks', n + 2)
        /\ n + 3 \notin Predecessors(blocks', n + 2)
        /\ n + 4 \notin Predecessors(blocks', n + 2)
        /\ n + 5 \notin Predecessors(blocks', n + 2)
    BY ONLY <1>4, <1>12, <1>13, <1>14, <1>15, <1>17, <2>1, <2>2
  <2> QED BY ONLY <1>16, <2>2, <2>3
<1>21. NewFlowOK(new, 3, Len(blocks))
  <2>1. PhisMatch(blocks', n + 2)  BY ONLY <1>12, <1>19, <1>20
  <2>2. \A t \in {n + 1, n + 2, n + 3, n + 4, n + 5} : t > Len(blocks) /\ t \in 1..(Len(blocks) + Len(new))
    BY ONLY <1>4, <1>18
  <2>3. Top.fn \in {NoParent, Top.fn} /\ NoParent \in {NoParent, Top.fn}  OBVIOUS
  <2>4. ASSUME NEW i \in 1..Len(new)
        PROVE  /\ new[i].fn \in {NoParent, Top.fn}
               /\ HasTerminator(new[i]) \/ new[i].fn = NoParent \/ i = 3
               /\ EndsOnce(new[i])
               /\ Plain(new[i]) \/ PhisMatch(blocks', Len(blocks) + i)
               /\ \A t \in Targets(new[i]) : t > Len(blocks) /\ t \in 1..(Len(blocks) + Len(new))
    <3>1. CASE i = 1  BY ONLY <1>13, <1>15, <2>2, <2>3, <3>1
    <3>2. CASE i = 2  BY ONLY <1>9, <1>12, <1>15, <1>18, <2>1, <2>2, <2>3, <3>2
    <3>3. CASE i = 3  BY ONLY <1>14, <1>15, <2>3, <3>3
    <3>4. CASE i = 4 \/ i = 5  BY ONLY <1>14, <1>15, <2>3, <3>4
    <3> QED BY ONLY <1>16, <3>1, <3>2, <3>3, <3>4, i \in 1..Len(new)
  <2> QED BY ONLY <2>4 DEF NewFlowOK
<1>22. OpenAfter  BY ONLY <1>1, <1>4, <1>14, <1>19 DEF OpenAfter
<1>23. Goes(<<a, b>>)
  <2>1. LoopTaskOK(blocks', a)
    <3>1. ~IsEntry(New(2))  BY ONLY <1>1, <1>4, <1>18, NewIsNoEntry
    <3> QED BY ONLY <1>3, <1>4, <1>9, <1>12, <1>19, <3>1 DEF LoopTaskOK
  <2>2. /\ Local(a) /\ a.op # "gen" /\ Local(b) /\ b.op \notin LoopOps /\ LeavesOpen(a) /\ LeavesOpen(b)
        /\ b.op # "gen"
    BY ONLY <1>3 DEF Local, LoopOps, LeavesOpen, KeepOps
  <2> QED BY ONLY <1>1, <1>22, <2>1, <2>2, NoLoop, GoesOn
<1>24. \A i \in 1..Len(code[Len(code)].to) :
         code[Len(code)].to[i] > Len(blocks) /\ code[Len(code)].to[i] \in 1..(n + 5)
  <2>1. \A i \in 1..Len(g.to) : Reaches(g, g.to[i])  BY DEF Reaches
  <2> QED BY ONLY <1>4, <1>8, <1>10, <1>18, <2>1
<1> QED BY ONLY <1>1, <1>2, <1>4, <1>8, <1>18, <1>21, <1>23, <1>24, NewFlow

-----------------------------------------------------------------------------
(* Methods that attach the blocks they owe.                                *)

\* A block that is attached keeps its code.
LEMMA AttachCode ==
  ASSUME NEW n \in Nat, NEW m \in Nat, NEW bs \in Seq(BlockSet(n, m)), NEW b,
         NEW fn \in 0..m,
         NEW r, r = Attach(bs, b, fn)
  PROVE  \A c \in 1..Len(bs) : r[c].code = bs[c].code
<1>1. \A c \in 1..Len(bs) : r[c] = IF c = b THEN Block(fn, bs[b].code) ELSE bs[c]
  BY DEF Attach
<1>2. Block(fn, bs[b].code).code = bs[b].code  BY DEF Block
<1> QED BY ONLY <1>1, <1>2

\* A method adds code to the open insert block and attaches an owed block.
LEMMA PutAndAttach ==
  ASSUME Going, NEW code \in Seq(InstructionSet(Len(blocks))), NEW b \in Owed(Len(work)),
         blocks' = Attach(Put(blocks, insert, code), b, Top.fn)
  PROVE  /\ Len(blocks') = Len(blocks)
         /\ \A c \in 1..Len(blocks) : /\ c # b => blocks'[c].fn = blocks[c].fn
                                      /\ c # insert /\ c # b => blocks'[c] = blocks[c]
         /\ blocks'[b].fn = Top.fn /\ blocks'[b].code = <<>>
         /\ Extends(blocks[insert], blocks'[insert], code)
<1> DEFINE n   == Len(blocks)
           m   == Len(functions)
           bs  == Put(blocks, insert, code)
           bs2 == blocks'
<1>1. /\ n \in Nat /\ m \in Nat /\ blocks \in Seq(BlockSet(n, m)) /\ insert \in 1..n
      /\ Top.fn \in 0..m
  BY GoingContext
<1>2. b \in 1..n /\ blocks[b].code = <<>> /\ b # insert  BY OwedBlocks
<1>3. bs2 = Attach(bs, b, Top.fn) /\ bs = Put(blocks, insert, code)  OBVIOUS
<1> HIDE DEF bs, bs2
<1>4. /\ bs \in Seq(BlockSet(n, m)) /\ Len(bs) = n
      /\ \A c \in 1..n : bs[c].fn = blocks[c].fn /\ (c # insert => bs[c] = blocks[c])
  <2>1. code \in Seq(InstructionSet(n)) /\ Len(blocks) = n  OBVIOUS
  <2> HIDE DEF n, m
  <2>2. /\ bs \in Seq(BlockSet(n, m)) /\ Len(bs) = Len(blocks)
        /\ \A c \in 1..Len(blocks) : /\ bs[c].fn = blocks[c].fn
                                     /\ c # insert => bs[c] = blocks[c]
    <3>1. bs = Put(blocks, insert, code)  BY ONLY <1>3
    <3>2. n \in Nat /\ m \in Nat /\ blocks \in Seq(BlockSet(n, m))  BY ONLY <1>1
    <3>3. code \in Seq(InstructionSet(n))  BY ONLY <2>1
    <3> QED BY ONLY <3>1, <3>2, <3>3, PutType
  <2> QED BY ONLY <2>1, <2>2 DEF n, m
<1>5. Extends(blocks[insert], bs[insert], code)
  BY ONLY <1>1, <1>3, code \in Seq(InstructionSet(Len(blocks))), PutCode DEF n
<1> HIDE DEF n, m
<1>6. /\ Len(bs2) = Len(bs)
      /\ \A c \in 1..Len(bs) : /\ c = b => bs2[c].fn = Top.fn
                               /\ c # b => bs2[c] = bs[c]
  <2>1. bs2 = Attach(bs, b, Top.fn)  BY ONLY <1>3
  <2>2. n \in Nat /\ m \in Nat /\ bs \in Seq(BlockSet(n, m)) /\ Top.fn \in 0..m
    BY ONLY <1>1, <1>4
  <2> HIDE DEF Top
  <2> QED BY ONLY <2>1, <2>2, AttachType
<1>7. \A c \in 1..Len(bs) : bs2[c].code = bs[c].code
  <2>1. bs2 = Attach(bs, b, Top.fn)  BY ONLY <1>3
  <2>2. n \in Nat /\ m \in Nat /\ bs \in Seq(BlockSet(n, m)) /\ Top.fn \in 0..m
    BY ONLY <1>1, <1>4
  <2> QED BY ONLY <2>1, <2>2, AttachCode
<1>8. bs[b] = blocks[b] /\ bs2[insert] = bs[insert]
  BY ONLY <1>1, <1>2, <1>4, <1>6
<1> QED BY ONLY <1>1, <1>2, <1>4, <1>5, <1>6, <1>7, <1>8 DEF bs2, n

\* A method attaches an owed block and leaves the others as they are.
LEMMA JustAttach ==
  ASSUME Going, NEW b \in Owed(Len(work)), blocks' = Attach(blocks, b, Top.fn)
  PROVE  /\ Len(blocks') = Len(blocks)
         /\ \A c \in 1..Len(blocks) : /\ c # b => blocks'[c].fn = blocks[c].fn
                                      /\ c # b => blocks'[c] = blocks[c]
         /\ blocks'[b].fn = Top.fn /\ blocks'[b].code = <<>>
         /\ blocks'[insert] = blocks[insert]
<1> DEFINE n   == Len(blocks)
           m   == Len(functions)
           bs2 == blocks'
<1>1. /\ n \in Nat /\ m \in Nat /\ blocks \in Seq(BlockSet(n, m)) /\ insert \in 1..n
      /\ Top.fn \in 0..m
  BY GoingContext
<1>2. b \in 1..n /\ blocks[b].code = <<>> /\ b # insert  BY OwedBlocks
<1>3. bs2 = Attach(blocks, b, Top.fn)  OBVIOUS
<1> HIDE DEF bs2
<1>4. /\ Len(bs2) = n
      /\ \A c \in 1..n : /\ c = b => bs2[c].fn = Top.fn
                         /\ c # b => bs2[c] = blocks[c]
  BY ONLY <1>1, <1>3, AttachType DEF n
<1>5. \A c \in 1..Len(blocks) : bs2[c].code = blocks[c].code
  BY ONLY <1>1, <1>2, <1>3, AttachCode DEF n
<1> QED BY ONLY <1>1, <1>2, <1>4, <1>5 DEF bs2, n

\* A method falls through to block t and moves to the block it owes.
LEMMA FallThroughFlow ==
  ASSUME Going, NEW t \in 1..Len(blocks), MayLeadTo(t), NEW b \in Owed(Len(work)), insert' = b,
         blocks' = Attach(FallThrough(t), b, Top.fn)
  PROVE  OpenAfter /\ \A todo : Goes(todo) => VInv'
<1> DEFINE n    == Len(blocks)
           S    == InstructionSet(n)
           e    == Br(t)
           code == <<e>>
<1>1. n \in Nat /\ blocks[insert].code \in Seq(S)  BY GoingContext
<1>2. code \in Seq(S) /\ Branching(code) /\ code[Len(code)].to = <<t>>
  <2>1. e \in S  BY ONLY <1>1, t \in 1..Len(blocks), InstructionTypes
  <2>2. e.op \in TerminatorOps /\ e.to = <<t>>  BY BranchParts
  <2> HIDE DEF e, S
  <2> QED BY ONLY <2>1, <2>2, Tuples, EndingFlow
<1>3. IsOpen => blocks' = Attach(Put(blocks, insert, code), b, Top.fn)
  BY DEF FallThrough, IsOpen, IsPreviousInstructionBlockTerminator
<1>4. ~IsOpen => blocks' = Attach(blocks, b, Top.fn)
  BY DEF FallThrough, IsOpen, IsPreviousInstructionBlockTerminator
<1> HIDE DEF code
<1>5. \A i \in 1..Len(code[Len(code)].to) : MayLeadTo(code[Len(code)].to[i])
  BY ONLY <1>2, MayLeadTo(t), BranchTargets
<1>6. /\ Len(blocks') = Len(blocks)
      /\ \A c \in 1..Len(blocks) : /\ c # b => blocks'[c].fn = blocks[c].fn
                                   /\ c # insert /\ c # b => blocks'[c] = blocks[c]
      /\ blocks'[b].fn = Top.fn /\ blocks'[b].code = <<>>
      /\ \/ ~IsOpen /\ blocks'[insert] = blocks[insert]
         \/ IsOpen /\ Extends(blocks[insert], blocks'[insert], code)
  <2>1. CASE IsOpen
    BY ONLY Going, <1>2, <1>3, <2>1, b \in Owed(Len(work)), PutAndAttach DEF S, n
  <2>2. CASE ~IsOpen
    BY ONLY Going, <1>4, <2>2, b \in Owed(Len(work)), JustAttach
  <2> QED BY ONLY <2>1, <2>2
<1>7. blocks'[b].code \in Seq(S) /\ Straight(blocks'[b].code)
  BY ONLY <1>6, InstructionFlow, EmptySeq
<1>8. OpenAfter  BY ONLY <1>6, insert' = b, NoEdges DEF OpenAfter
<1>9. ASSUME NEW todo, Goes(todo) PROVE VInv'
  <2>1. \/ ~IsOpen /\ blocks'[insert] = blocks[insert]
        \/ /\ IsOpen
           /\ \E s \in Seq(S) :
                /\ Branching(s) /\ Extends(blocks[insert], blocks'[insert], s)
                /\ \A i \in 1..Len(s[Len(s)].to) : MayLeadTo(s[Len(s)].to[i])
    BY ONLY <1>2, <1>5, <1>6
  <2> HIDE DEF S
  <2> QED
    BY ONLY Going, <1>1, <1>6, <1>7, <1>9, <2>1, b \in Owed(Len(work)), insert' = b, AttachFlow
<1> QED BY ONLY <1>8, <1>9

\* What a method that attaches blocks knows.
LEMMA Owes ==
  ASSUME Going, Top.op \in {"then_end", "else_end", "loop_cond", "body_end", "loop_end",
                            "print_main", "print_last"}
  PROVE  /\ Len(Top.owe) = Owing(Top)
         /\ \A i \in 1..Len(Top.owe) : /\ Top.owe[i] \in 1..Len(blocks)
                                       /\ Top.owe[i] \in Owed(Len(work))
                                       /\ MayLeadTo(Top.owe[i])
         /\ Len(Top.owe) > 0 => Head(Top.owe) = Top.owe[1]
         /\ Len(Top.owe) > 0 => Last(Top.owe) = Top.owe[Len(Top.owe)]
         /\ LoopTaskOK(blocks, Top)
<1>1. Len(work) \in Nat /\ Len(work) >= 2 /\ Top = work[Len(work)]
  BY Context DEF Going
<1>2. Len(work) \in 1..Len(work)  BY ONLY <1>1, SMT
<1>3. LoopTaskOK(blocks, Top)  BY <1>1, <1>2, GoingContext DEF Flowing, LoopsOK
<1>4. \A i \in 1..Len(Top.owe) : Top.owe[i] \in Owed(Len(work)) /\ MayLeadTo(Top.owe[i])
  BY <1>1 DEF Owed, MayLeadTo
<1>5. /\ Len(Top.owe) = Owing(Top)
      /\ \A i \in 1..Len(Top.owe) : Top.owe[i] \in 1..Len(blocks)
      /\ Len(Top.owe) > 0 => Head(Top.owe) = Top.owe[1]
      /\ Len(Top.owe) > 0 => Last(Top.owe) = Top.owe[Len(Top.owe)]
  BY OwingContext DEF Going
<1> QED BY ONLY <1>3, <1>4, <1>5

\* The else-part of an if-statement ends.
LEMMA EndElseFlow ==
  ASSUME IInv, IInv', VInv, EndElse
  PROVE  VInv'
<1> DEFINE merge == Head(Top.owe)
<1>1. /\ Going /\ work' = Front(work) \o <<>> /\ Top.op = "else_end"
      /\ blocks' = Attach(FallThrough(merge), merge, Top.fn) /\ insert' = merge
  BY DEF EndElse, Doing, Then, Going
<1>2. Len(Top.owe) = 1  BY <1>1, Owes DEF Owing
<1>3. merge \in 1..Len(blocks) /\ merge \in Owed(Len(work)) /\ MayLeadTo(merge)
  <2>1. 1 \in 1..Len(Top.owe) /\ Len(Top.owe) > 0  BY <1>2, SMT
  <2> QED BY <1>1, <2>1, Owes
<1> HIDE DEF merge
<1>4. ~LeavesOpen(Top)  BY ONLY <1>1 DEF LeavesOpen, KeepOps
<1>5. Goes(<<>>)  BY ONLY <1>1, <1>4, GoesOn
<1> QED BY ONLY <1>1, <1>3, <1>5, FallThroughFlow

\* The then-part of an if-statement ends.
LEMMA EndThenFlow ==
  ASSUME IInv, IInv', VInv, EndThen
  PROVE  VInv'
<1> DEFINE merge == Last(Top.owe)
           next  == Head(Top.owe)
           a     == Task("else_end", Top.fn, Top.arg, <<merge>>)
           b     == Gen(Top.fn, Top.arg.else[1])
<1>1. /\ Going /\ Top.op = "then_end"
      /\ blocks' = Attach(FallThrough(merge), next, Top.fn) /\ insert' = next
      /\ work' = Front(work) \o <<a, b>> \/ work' = Front(work) \o <<>>
  BY DEF EndThen, Doing, Then, Going
<1>2. Len(Top.owe) = 1 \/ Len(Top.owe) = 2  BY <1>1, Owes DEF Owing
<1>3. /\ merge \in 1..Len(blocks) /\ MayLeadTo(merge) /\ next \in Owed(Len(work))
  <2>1. 1 \in 1..Len(Top.owe) /\ Len(Top.owe) \in 1..Len(Top.owe) /\ Len(Top.owe) > 0
    BY <1>2, SMT
  <2> QED BY <1>1, <2>1, Owes
<1>4. a.op = "else_end" /\ a.fn = Top.fn /\ b.op = "gen" /\ b.fn = Top.fn
  BY TaskParts DEF Gen
<1> HIDE DEF merge, next, a, b
<1>5. ~LeavesOpen(Top)  BY ONLY <1>1 DEF LeavesOpen, KeepOps
<1>6. /\ Local(a) /\ a.op # "gen" /\ Local(b) /\ a.op \notin LoopOps /\ b.op \notin LoopOps
      /\ a.op \notin NeedOps /\ b.op \notin NeedOps
  BY ONLY <1>4 DEF Local, LoopOps, NeedOps
<1>7. CASE work' = Front(work) \o <<a, b>>
  <2>1. Goes(<<a, b>>)  BY ONLY <1>1, <1>5, <1>6, <1>7, NoLoop, GoesOn
  <2> QED BY ONLY <1>1, <1>3, <2>1, FallThroughFlow
<1>8. CASE work' = Front(work) \o <<>>
  <2>1. Goes(<<>>)  BY ONLY <1>1, <1>5, <1>8, GoesOn
  <2> QED BY ONLY <1>1, <1>3, <2>1, FallThroughFlow
<1> QED BY ONLY <1>1, <1>7, <1>8

\* A loop goes back to its condition; the code goes on after the loop.
LEMMA EndLoopFlow ==
  ASSUME IInv, IInv', VInv, EndLoop
  PROVE  VInv'
<1> DEFINE cond == Top.arg.cond
           next == Head(Top.owe)
<1>1. /\ Going /\ work' = Front(work) \o <<>> /\ Top.op = "loop_end"
      /\ blocks' = Attach(FallThrough(cond), next, Top.fn) /\ insert' = next
  BY DEF EndLoop, Doing, Then, Going
<1>2. Len(Top.owe) = 1  BY <1>1, Owes DEF Owing
<1>3. next \in Owed(Len(work))
  <2>1. 1 \in 1..Len(Top.owe) /\ Len(Top.owe) > 0  BY <1>2, SMT
  <2> QED BY <1>1, <2>1, Owes
<1>4. cond \in 1..Len(blocks) /\ MayLeadTo(cond)
  <2>1. LoopTaskOK(blocks, Top) /\ TaskArgOK(Top, Len(blocks))
    BY <1>1, Owes, GoingContext
  <2> QED BY ONLY <1>1, <2>1 DEF LoopTaskOK, TaskArgOK, MayLeadTo
<1> HIDE DEF cond, next
<1>5. ~LeavesOpen(Top)  BY ONLY <1>1 DEF LeavesOpen, KeepOps
<1>6. Goes(<<>>)  BY ONLY <1>1, <1>5, GoesOn
<1> QED BY ONLY <1>1, <1>3, <1>4, <1>6, FallThroughFlow

\* The condition of a loop has been generated: its body follows.
LEMMA LoopConditionFlow ==
  ASSUME IInv, IInv', VInv, LoopCondition
  PROVE  VInv'
<1> DEFINE n     == Len(blocks)
           S     == InstructionSet(n)
           loop  == Top.owe[1]
           after == Top.owe[2]
           node  == Top.arg.node
           cond  == Top.arg.cond
           e     == CondBr(node.kind, loop, after)
           code  == <<e>>
           a     == Task("body_end", Top.fn, Top.arg, <<after>>)
           b     == Gen(Top.fn, node.body)
<1>1. /\ Going /\ work' = Front(work) \o <<a, b>> /\ Top.op = "loop_cond"
      /\ blocks' = Attach(Put(blocks, insert, code), loop, Top.fn) /\ insert' = loop
  BY DEF LoopCondition, Doing, Then, Going
<1>2. /\ n \in Nat /\ TaskArgOK(Top, n) /\ IsOpen /\ blocks[insert].code \in Seq(S)
      /\ EndsOnce(blocks[insert]) /\ Top.fn # 0 /\ insert \in 1..n
  BY <1>1, GoingContext DEF NeedOps
<1>3. Len(Top.owe) = 2  BY <1>1, Owes DEF Owing
<1>4. /\ loop \in 1..n /\ loop \in Owed(Len(work)) /\ MayLeadTo(loop)
      /\ after \in 1..n /\ MayLeadTo(after) /\ LoopTaskOK(blocks, Top)
  <2>1. 1 \in 1..Len(Top.owe) /\ 2 \in 1..Len(Top.owe)  BY <1>3, SMT
  <2> QED BY <1>1, <2>1, Owes
<1>5. code \in Seq(S) /\ Branching(code) /\ code[Len(code)].to = <<loop, after>>
  <2>1. node.kind \in Tags
    <3>1. "while" \in Tags /\ "for" \in Tags  BY TagTypes DEF VisitorTags
    <3>2. node.kind \in {"while", "for"}  BY ONLY <1>1, <1>2 DEF TaskArgOK
    <3> QED BY ONLY <3>1, <3>2
  <2>2. e \in S  BY ONLY <1>2, <1>4, <2>1, InstructionTypes
  <2>3. e.op \in TerminatorOps /\ e.to = <<loop, after>>  BY BranchParts
  <2> HIDE DEF e, S
  <2> QED BY ONLY <2>2, <2>3, Tuples, EndingFlow
<1>6. a.op = "body_end" /\ a.fn = Top.fn /\ a.arg = Top.arg /\ b.op = "gen" /\ b.fn = Top.fn
  BY TaskParts DEF Gen
<1>7. cond \in 1..n /\ blocks[cond].fn = Top.fn /\ ~IsEntry(cond) /\ Plain(blocks[cond])
  BY ONLY <1>1, <1>2, <1>4 DEF LoopTaskOK, TaskArgOK
<1> HIDE DEF loop, after, code, a, b
<1>8. \A i \in 1..Len(code[Len(code)].to) : MayLeadTo(code[Len(code)].to[i])
  BY ONLY <1>4, <1>5, BranchTargets
<1>9. /\ Len(blocks') = Len(blocks)
      /\ \A c \in 1..Len(blocks) : /\ c # loop => blocks'[c].fn = blocks[c].fn
                                   /\ c # insert /\ c # loop => blocks'[c] = blocks[c]
      /\ blocks'[loop].fn = Top.fn /\ blocks'[loop].code = <<>>
      /\ Extends(blocks[insert], blocks'[insert], code)
  BY ONLY <1>1, <1>4, <1>5, PutAndAttach DEF S, n
<1>10. blocks'[loop].code \in Seq(S) /\ Straight(blocks'[loop].code)
  BY ONLY <1>9, InstructionFlow, EmptySeq
<1>11. OpenAfter  BY ONLY <1>1, <1>9, NoEdges DEF OpenAfter
<1>12. LoopTaskOK(blocks', a)
  <2>1. cond # loop  BY <1>1, <1>2, <1>4, <1>7, OwedBlocks DEF NoParent
  <2>2. blocks'[cond].fn = Top.fn  BY ONLY <1>7, <1>9, <2>1 DEF n
  <2>3. Plain(blocks'[cond])
    <3>1. SamePhis(blocks[insert], blocks'[insert])
      BY ONLY <1>2, <1>5, <1>9, AppendCode DEF Extends, IsOpen
    <3>2. Plain(blocks[insert]) => Plain(blocks'[insert])
      BY ONLY <3>1, PlainStays
    <3> QED BY ONLY <1>7, <1>9, <2>1, <3>2 DEF n
  <2> QED BY ONLY <1>6, <1>7, <2>2, <2>3 DEF LoopTaskOK, cond
<1>13. Goes(<<a, b>>)
  <2>1. /\ Local(a) /\ a.op # "gen" /\ Local(b) /\ b.op \notin LoopOps
        /\ a.op \notin NeedOps /\ b.op \notin NeedOps /\ ~LeavesOpen(Top)
    BY ONLY <1>1, <1>6 DEF Local, LoopOps, LeavesOpen, KeepOps, NeedOps
  <2> QED BY ONLY <1>1, <1>11, <1>12, <2>1, NoLoop, GoesOn
<1>14. \/ ~IsOpen /\ blocks'[insert] = blocks[insert]
       \/ /\ IsOpen
          /\ \E s \in Seq(S) :
               /\ Branching(s) /\ Extends(blocks[insert], blocks'[insert], s)
               /\ \A i \in 1..Len(s[Len(s)].to) : MayLeadTo(s[Len(s)].to[i])
  BY ONLY <1>2, <1>5, <1>8, <1>9
<1> HIDE DEF S
<1> QED BY ONLY <1>1, <1>2, <1>4, <1>9, <1>10, <1>13, <1>14, AttachFlow

\* The last element of an array is printed.
LEMMA EndPrintLastFlow ==
  ASSUME IInv, IInv', VInv, EndPrintLast
  PROVE  VInv'
<1> DEFINE n    == Len(blocks)
           m    == Len(functions)
           S    == InstructionSet(n)
           end  == Head(Top.owe)
           e    == Br(end)
           code == <<e>>
           more == <<Act("close")>>
           bs   == Attach(Put(blocks, insert, code), end, Top.fn)
           bs2  == blocks'
<1>1. /\ Going /\ work' = Front(work) \o <<>> /\ Top.op = "print_last"
      /\ bs2 = Put(bs, end, more) /\ insert' = end
  BY DEF EndPrintLast, Doing, Then, Going
<1>2. /\ n \in Nat /\ m \in Nat /\ IsOpen /\ blocks[insert].code \in Seq(S) /\ insert \in 1..n
      /\ blocks \in Seq(BlockSet(n, m)) /\ Top.fn \in 0..m
  BY <1>1, GoingContext DEF NeedOps
<1>3. Len(Top.owe) = 1  BY <1>1, Owes DEF Owing
<1>4. end \in 1..n /\ end \in Owed(Len(work)) /\ MayLeadTo(end) /\ end # insert
  <2>1. 1 \in 1..Len(Top.owe) /\ Len(Top.owe) > 0  BY <1>3, SMT
  <2>2. end \in 1..n /\ end \in Owed(Len(work)) /\ MayLeadTo(end)
    BY <1>1, <2>1, Owes
  <2> QED BY <1>1, <2>2, OwedBlocks
<1>5. code \in Seq(S) /\ Branching(code) /\ code[Len(code)].to = <<end>>
  <2>1. e \in S  BY ONLY <1>2, <1>4, InstructionTypes
  <2>2. e.op \in TerminatorOps /\ e.to = <<end>>  BY BranchParts
  <2> HIDE DEF e, S
  <2> QED BY ONLY <2>1, <2>2, Tuples, EndingFlow
<1>6. more \in Seq(S) /\ Straight(more)
  <2>1. "close" \in Tags  BY TagTypes DEF VisitorTags
  <2>2. Act("close") \in S  BY ONLY <1>2, <2>1, InstructionTypes
  <2> QED BY ONLY <2>2, Tuples, InstructionFlow
<1>7. Len(blocks) = n /\ code \in Seq(InstructionSet(n)) /\ more \in Seq(InstructionSet(n))
  BY <1>5, <1>6
<1> HIDE DEF end, code, more, bs, bs2, n, m, S
<1>8. \A i \in 1..Len(code[Len(code)].to) : MayLeadTo(code[Len(code)].to[i])
  BY ONLY <1>4, <1>5, BranchTargets
<1> DEFINE puts == Put(blocks, insert, code)
<1>9. /\ puts \in Seq(BlockSet(n, m)) /\ Len(puts) = n
      /\ \A c \in 1..n : /\ puts[c].fn = blocks[c].fn
                         /\ c # insert => puts[c] = blocks[c]
      /\ Extends(blocks[insert], puts[insert], code)
  <2>1. puts = Put(blocks, insert, code)  OBVIOUS
  <2> HIDE DEF puts
  <2>2. /\ puts \in Seq(BlockSet(n, m)) /\ Len(puts) = Len(blocks)
        /\ \A c \in 1..Len(blocks) : /\ puts[c].fn = blocks[c].fn
                                     /\ c # insert => puts[c] = blocks[c]
    <3>1. n \in Nat /\ m \in Nat /\ blocks \in Seq(BlockSet(n, m))  BY ONLY <1>2
    <3>2. code \in Seq(InstructionSet(n))  BY ONLY <1>7
    <3> QED BY ONLY <2>1, <3>1, <3>2, PutType
  <2>3. insert \in 1..Len(blocks)  BY ONLY <1>2, <1>7
  <2>4. Extends(blocks[insert], puts[insert], code)
    BY ONLY <1>2, <1>7, <2>1, <2>3, PutCode
  <2> QED BY ONLY <1>7, <2>2, <2>4
<1>10. bs = Attach(puts, end, Top.fn)  BY DEF bs
<1> HIDE DEF puts
<1>11. /\ bs \in Seq(BlockSet(n, m)) /\ Len(bs) = Len(puts)
       /\ \A c \in 1..Len(puts) : /\ c = end => bs[c].fn = Top.fn
                                  /\ c # end => bs[c] = puts[c]
  BY ONLY <1>2, <1>9, <1>10, AttachType
<1>12. \A c \in 1..Len(puts) : bs[c].code = puts[c].code
  <2>1. n \in Nat /\ m \in Nat /\ puts \in Seq(BlockSet(n, m)) /\ Top.fn \in 0..m
    BY ONLY <1>2, <1>9
  <2> QED BY ONLY <1>10, <2>1, AttachCode
<1>13. /\ bs2 \in Seq(BlockSet(n, m)) /\ Len(bs2) = Len(bs)
       /\ \A c \in 1..Len(bs) : /\ bs2[c].fn = bs[c].fn
                                /\ c # end => bs2[c] = bs[c]
  <2>1. n \in Nat /\ m \in Nat /\ bs \in Seq(BlockSet(n, m))  BY ONLY <1>2, <1>11
  <2>2. more \in Seq(InstructionSet(n)) /\ bs2 = Put(bs, end, more)
    BY ONLY <1>1, <1>7
  <2> QED BY ONLY <2>1, <2>2, PutType
<1>14. Extends(bs[end], bs2[end], more)
  <2>1. end \in 1..Len(bs)  BY ONLY <1>4, <1>9, <1>11
  <2> QED BY ONLY <1>1, <1>2, <1>7, <1>11, <2>1, PutCode
<1>15. bs2[end].code = more
  <2>1. blocks[end].code = <<>>  BY <1>1, <1>4, OwedBlocks
  <2>2. bs[end].code = <<>>  BY ONLY <1>4, <1>9, <1>12, <2>1
  <2>3. <<>> \o more = more  BY ONLY <1>6, ConcatEmptySeq
  <2> QED BY ONLY <1>14, <2>2, <2>3 DEF Extends
<1>16. /\ Len(bs2) = n
       /\ \A c \in 1..n : /\ c # end => bs2[c].fn = blocks[c].fn
                          /\ c # insert /\ c # end => bs2[c] = blocks[c]
       /\ bs2[end].fn = Top.fn /\ bs2[insert] = puts[insert]
  BY ONLY <1>2, <1>4, <1>9, <1>11, <1>13
<1>17. /\ Len(blocks') = Len(blocks)
       /\ \A c \in 1..Len(blocks) : /\ c # end => blocks'[c].fn = blocks[c].fn
                                    /\ c # insert /\ c # end => blocks'[c] = blocks[c]
       /\ blocks'[end].fn = Top.fn /\ blocks'[end].code \in Seq(S) /\ Straight(blocks'[end].code)
       /\ Extends(blocks[insert], blocks'[insert], code)
  BY ONLY <1>6, <1>7, <1>9, <1>15, <1>16 DEF bs2
<1>18. OpenAfter
  <2>1. \A i \in 1..Len(more) : more[i].op \notin TerminatorOps
    BY ONLY <1>6 DEF Straight
  <2>2. more # <<>> => Len(more) \in 1..Len(more)  BY ONLY <1>6, EmptySeq, SMT
  <2> QED BY ONLY <1>1, <1>15, <2>1, <2>2 DEF OpenAfter, bs2, HasTerminator, Last
<1>19. Goes(<<>>)  BY ONLY <1>1, <1>18, GoesOn
<1>20. \/ ~IsOpen /\ blocks'[insert] = blocks[insert]
       \/ /\ IsOpen
          /\ \E s \in Seq(S) :
               /\ Branching(s) /\ Extends(blocks[insert], blocks'[insert], s)
               /\ \A i \in 1..Len(s[Len(s)].to) : MayLeadTo(s[Len(s)].to[i])
  BY ONLY <1>2, <1>5, <1>8, <1>17
<1> QED BY ONLY <1>1, <1>2, <1>4, <1>17, <1>19, <1>20, AttachFlow

\* AddIncoming tells the PHI node of a block of a predecessor.
LEMMA AddIncomingCode ==
  ASSUME NEW n \in Nat, NEW m \in Nat, NEW bs \in Seq(BlockSet(n, m)), NEW b, NEW pred \in 1..n,
         NEW r, r = AddIncoming(bs, b, pred)
  PROVE  \A c \in 1..Len(bs) : c = b /\ Len(bs[c].code) > 1 => Learns(bs[c], r[c], pred)
<1> DEFINE phi  == Phi(Append(bs[b].code[1].to, pred))
           fn   == bs[b].fn
           old  == bs[b].code
           code == Updated(old, 1, phi)
           S    == InstructionSet(n)
<1>1. b \in 1..Len(bs) => old \in Seq(S) /\ fn \in 0..m  BY BlockParts
<1>2. b \in 1..Len(bs) => (1 \in 1..Len(old) => phi \in S)
  <2> SUFFICES ASSUME b \in 1..Len(bs), 1 \in 1..Len(old)
               PROVE  phi \in S
    OBVIOUS
  <2>1. old[1] \in S  BY <1>1
  <2>2. old[1].to \in Seq(1..n)  BY <2>1, SMT DEF InstructionSet
  <2>3. Append(old[1].to, pred) \in Seq(1..n)  BY <2>2
  <2> QED BY <2>3, InstructionTypes
<1>3. r = Updated(bs, b, Block(fn, code))  BY DEF AddIncoming, Updated
<1>4. \A c : c = b => bs[c].code = old /\ phi = Phi(Append(bs[c].code[1].to, pred))
  OBVIOUS
<1> HIDE DEF phi, fn, old
<1>5. b \in 1..Len(bs) => /\ code \in Seq(S)
                          /\ Len(code) = Len(old)
                          /\ \A i \in 1..Len(old) : /\ i = 1 => code[i] = phi
                                                    /\ i # 1 => code[i] = old[i]
  <2> HIDE DEF S
  <2> QED BY <1>1, <1>2, Update
<1> HIDE DEF code
<1>6. b \in 1..Len(bs) => code \in Seq(InstructionSet(n))  BY <1>5
<1>7. b \in 1..Len(bs) => fn \in 0..m  BY <1>1
<1>8. /\ r \in Seq(BlockSet(n, m)) /\ Len(r) = Len(bs)
      /\ \A c \in 1..Len(bs) : /\ c = b => r[c].fn = fn /\ r[c].code = code
                               /\ c # b => r[c] = bs[c]
  BY ONLY n \in Nat, m \in Nat, bs \in Seq(BlockSet(n, m)), <1>3, <1>6, <1>7, UpdateBlock
<1>9. ASSUME NEW c \in 1..Len(bs), c = b, Len(bs[c].code) > 1
      PROVE  Learns(bs[c], r[c], pred)
  <2>1. r[c].code = code /\ bs[c].code = old /\ phi = Phi(Append(bs[c].code[1].to, pred))
    BY ONLY <1>4, <1>8, <1>9
  <2>2. /\ Len(code) = Len(old) /\ old \in Seq(S)
        /\ \A i \in 1..Len(old) : /\ i = 1 => code[i] = phi
                                  /\ i # 1 => code[i] = old[i]
    BY ONLY <1>1, <1>5, <1>9
  <2>3. 1 \in 1..Len(old)  BY ONLY <1>9, <2>1, <2>2, SMT
  <2> QED BY ONLY <2>1, <2>2, <2>3 DEF Learns
<1> QED BY ONLY <1>9

\* Another element for an injective sequence.
LEMMA NewIncoming ==
  ASSUME NEW S, NEW s \in Seq(S), NEW z \in S, NEW t, t = Append(s, z),
         IsInjective(s), z \notin Range(s)
  PROVE  /\ IsInjective(t)
         /\ \A x : x \in Range(t) <=> x \in Range(s) \/ x = z
<1>1. /\ Len(s) \in Nat /\ DOMAIN s = 1..Len(s) /\ DOMAIN t = 1..(Len(s) + 1)
      /\ t[Len(s) + 1] = z /\ \A i \in 1..Len(s) : t[i] = s[i]
  OBVIOUS
<1>2. /\ \A i \in 1..(Len(s) + 1) : i \in 1..Len(s) \/ i = Len(s) + 1
      /\ \A i \in 1..Len(s) : i \in 1..(Len(s) + 1)
      /\ Len(s) + 1 \in 1..(Len(s) + 1)
  BY ONLY <1>1, SMT
<1>3. \A i \in 1..Len(s) : s[i] # z  BY <1>1 DEF Range
<1>4. IsInjective(t)  BY <1>1, <1>2, <1>3 DEF IsInjective
<1>5. \A x : x \in Range(t) <=> x \in Range(s) \/ x = z  BY <1>1, <1>2 DEF Range
<1> QED BY ONLY <1>4, <1>5

\* The condition block of the loop that prints an array learns of the way back.
LEMMA LearnsFlow ==
  ASSUME NEW S, NEW x, NEW y, NEW pred, x.code \in Seq(S), y.code \in Seq(S), Learns(x, y, pred),
         PrintLoopHead(x), EndsOnce(x)
  PROVE  SameEnd(x, y) /\ EndsOnce(y) /\ PrintLoopHead(y) /\ ~Plain(x)
<1>1. /\ Len(x.code) \in Nat /\ Len(x.code) > 1 /\ Len(y.code) = Len(x.code)
      /\ y.code[1] = Phi(Append(x.code[1].to, pred))
      /\ \A i \in 1..Len(x.code) : i # 1 => y.code[i] = x.code[i]
      /\ HasTerminator(x)
      /\ \A i \in 1..Len(x.code) : x.code[i].op = "phi" <=> i = 1
  BY DEF Learns, PrintLoopHead
<1>2. /\ y.code[1].op = "phi" /\ y.code[1].op \notin TerminatorOps
  BY <1>1 DEF Phi, Instruction, TerminatorOps
<1>3. /\ x.code # <<>> /\ y.code # <<>> /\ y.code[Len(y.code)] = x.code[Len(x.code)]
      /\ 1 \in 1..Len(x.code)
  <2>1. Len(x.code) \in 1..Len(x.code) /\ Len(x.code) # 1 /\ 1 \in 1..Len(x.code)
    BY ONLY <1>1, SMT
  <2>2. Len(x.code) # 0  BY ONLY <1>1, SMT
  <2> QED BY <1>1, <2>1, <2>2, EmptySeq
<1>4. HasTerminator(y) /\ Targets(x) = Targets(y)
  BY <1>1, <1>3 DEF HasTerminator, Targets, Last
<1>5. EndsOnce(y)
  <2>1. \A i \in 1..(Len(x.code) - 1) : i \in 1..Len(x.code)  BY ONLY <1>1, SMT
  <2> QED BY <1>1, <1>2, <2>1 DEF EndsOnce
<1>6. PrintLoopHead(y)  BY <1>1, <1>2, <1>4 DEF PrintLoopHead
<1>7. ~Plain(x)  BY <1>1, <1>3 DEF Plain
<1> QED BY <1>1, <1>4, <1>5, <1>6, <1>7 DEF SameEnd

\* The blocks when the loop over the elements of an array goes back.
LEMMA PrintMainBlocks ==
  ASSUME Going, NEW code \in Seq(InstructionSet(Len(blocks))), NEW last \in Owed(Len(work)),
         NEW cond \in 1..Len(blocks), cond # insert, cond # last, Len(blocks[cond].code) > 1,
         blocks' = Attach(AddIncoming(Put(blocks, insert, code), cond, insert), last, Top.fn)
  PROVE  /\ Len(blocks') = Len(blocks)
         /\ \A c \in 1..Len(blocks) :
              /\ c # last => blocks'[c].fn = blocks[c].fn
              /\ c # last /\ c # insert /\ c # cond => blocks'[c] = blocks[c]
         /\ blocks'[last].fn = Top.fn /\ blocks'[last].code = <<>>
         /\ Extends(blocks[insert], blocks'[insert], code)
         /\ Learns(blocks[cond], blocks'[cond], insert)
         /\ blocks'[cond].code \in Seq(InstructionSet(Len(blocks)))
<1> DEFINE n    == Len(blocks)
           m    == Len(functions)
           puts == Put(blocks, insert, code)
           adds == AddIncoming(puts, cond, insert)
           bs2  == blocks'
<1>1. /\ n \in Nat /\ m \in Nat /\ blocks \in Seq(BlockSet(n, m)) /\ insert \in 1..n
      /\ Top.fn \in 0..m
  BY GoingContext
<1>2. last \in 1..n /\ blocks[last].code = <<>> /\ last # insert  BY OwedBlocks
<1>3. bs2 = Attach(adds, last, Top.fn)  OBVIOUS
<1>4. Len(blocks) = n /\ code \in Seq(InstructionSet(n)) /\ cond \in 1..n
  OBVIOUS
<1>5. puts = Put(blocks, insert, code) /\ adds = AddIncoming(puts, cond, insert)
  OBVIOUS
<1> HIDE DEF n, m, puts, adds, bs2
<1>6. /\ puts \in Seq(BlockSet(n, m)) /\ Len(puts) = Len(blocks)
      /\ \A c \in 1..Len(blocks) : /\ puts[c].fn = blocks[c].fn
                                   /\ c # insert => puts[c] = blocks[c]
  <2>1. n \in Nat /\ m \in Nat /\ blocks \in Seq(BlockSet(n, m))  BY ONLY <1>1
  <2>2. code \in Seq(InstructionSet(n)) /\ puts = Put(blocks, insert, code)
    BY ONLY <1>4, <1>5
  <2> QED BY ONLY <2>1, <2>2, PutType
<1>7. Extends(blocks[insert], puts[insert], code)
  <2>1. n \in Nat /\ m \in Nat /\ blocks \in Seq(BlockSet(n, m)) /\ insert \in 1..Len(blocks)
    BY ONLY <1>1, <1>4
  <2>2. code \in Seq(InstructionSet(n)) /\ puts = Put(blocks, insert, code)
    BY ONLY <1>4, <1>5
  <2> QED BY ONLY <2>1, <2>2, PutCode
<1>8. n \in Nat /\ m \in Nat /\ puts \in Seq(BlockSet(n, m)) /\ insert \in 1..n
  BY ONLY <1>1, <1>6
<1>9. adds = AddIncoming(puts, cond, insert)  BY ONLY <1>5
<1>10. /\ adds \in Seq(BlockSet(n, m)) /\ Len(adds) = Len(puts)
       /\ \A c \in 1..Len(puts) : /\ adds[c].fn = puts[c].fn
                                  /\ c # cond => adds[c] = puts[c]
  BY ONLY <1>8, <1>9, AddIncomingType
<1>11. \A c \in 1..Len(puts) : c = cond /\ Len(puts[c].code) > 1 => Learns(puts[c], adds[c], insert)
  BY ONLY <1>8, <1>9, AddIncomingCode
<1>12. n \in Nat /\ m \in Nat /\ adds \in Seq(BlockSet(n, m)) /\ Top.fn \in 0..m
  BY ONLY <1>1, <1>10
<1>13. /\ bs2 \in Seq(BlockSet(n, m)) /\ Len(bs2) = Len(adds)
       /\ \A c \in 1..Len(adds) : /\ c = last => bs2[c].fn = Top.fn
                                  /\ c # last => bs2[c] = adds[c]
  BY ONLY <1>3, <1>12, AttachType
<1>14. \A c \in 1..Len(adds) : bs2[c].code = adds[c].code
  BY ONLY <1>3, <1>12, AttachCode
<1>15. Len(puts) = n /\ Len(adds) = n /\ Len(bs2) = n
  BY ONLY <1>4, <1>6, <1>10, <1>13
<1>16. /\ bs2[last].fn = Top.fn /\ bs2[last].code = <<>> /\ bs2[insert] = puts[insert]
       /\ puts[cond] = blocks[cond] /\ bs2[cond] = adds[cond]
  BY ONLY <1>1, <1>2, <1>4, <1>6, <1>10, <1>13, <1>14, <1>15, cond # insert, cond # last
<1>17. Learns(blocks[cond], bs2[cond], insert)
  BY ONLY <1>4, <1>11, <1>15, <1>16, Len(blocks[cond].code) > 1
<1>18. bs2[cond].code \in Seq(InstructionSet(n))
  <2>1. n \in Nat /\ m \in Nat /\ bs2 \in Seq(BlockSet(n, m)) /\ cond \in 1..Len(bs2)
    BY ONLY <1>1, <1>4, <1>13, <1>15
  <2> QED BY ONLY <2>1, BlockParts
<1>19. \A c \in 1..n : /\ c # last => bs2[c].fn = blocks[c].fn
                       /\ c # last /\ c # insert /\ c # cond => bs2[c] = blocks[c]
  BY ONLY <1>4, <1>6, <1>10, <1>13, <1>15
<1> QED BY ONLY <1>4, <1>7, <1>15, <1>16, <1>17, <1>18, <1>19 DEF bs2

\* An element of an array is printed: the loop goes back to its condition,
\* whose PHI node learns of it.
LEMMA EndPrintMainFlow ==
  ASSUME IInv, IInv', VInv, EndPrintMain
  PROVE  VInv'
<1> DEFINE n    == Len(blocks)
           S    == InstructionSet(n)
           cond == Top.arg.cond
           last == Top.owe[1]
           end  == Top.owe[2]
           e    == Br(cond)
           code == <<Act("comma"), Act("space"), e>>
           a    == Task("print_last", Top.fn, Top.arg, <<end>>)
           b    == PrintValue(Top.arg.depth - 1)
           todo == <<a, b>>
           x    == cond
           bs2  == blocks'
<1>1. /\ Going /\ work' = Front(work) \o <<a, b>> /\ Top.op = "print_main"
      /\ blocks' = Attach(AddIncoming(Put(blocks, insert, code), cond, insert), last, Top.fn)
      /\ insert' = last
  BY DEF EndPrintMain, Doing, Then, Going
<1>2. /\ n \in Nat /\ TaskArgOK(Top, n) /\ IsOpen /\ blocks[insert].code \in Seq(S)
      /\ EndsOnce(blocks[insert]) /\ Top.fn # 0 /\ insert \in 1..n /\ Flowing
      /\ blocks[insert].fn = Top.fn
      /\ blocks \in Seq(BlockSet(n, Len(functions))) /\ Len(functions) \in Nat
  BY <1>1, GoingContext DEF NeedOps
<1>3. Len(Top.owe) = 2  BY <1>1, Owes DEF Owing
<1>4. last \in 1..n /\ last \in Owed(Len(work)) /\ LoopTaskOK(blocks, Top)
  <2>1. 1 \in 1..Len(Top.owe)  BY <1>3, SMT
  <2> QED BY <1>1, <2>1, Owes
<1>5. /\ blocks[last].fn = NoParent /\ blocks[last].code = <<>> /\ last # insert
      /\ ~HasTerminator(blocks[last]) /\ Targets(blocks[last]) = {}
  BY <1>1, <1>4, OwedBlocks, NoEdges
<1>6. /\ cond \in 1..n /\ blocks[cond].fn = Top.fn /\ ~IsEntry(cond)
      /\ PrintLoopHead(blocks[cond])
  BY ONLY <1>1, <1>2, <1>4 DEF LoopTaskOK, TaskArgOK
<1>7. /\ cond # insert /\ cond # last /\ Len(blocks[cond].code) > 1
      /\ blocks[cond].code \in Seq(S) /\ EndsOnce(blocks[cond])
  <2>1. blocks[cond].code \in Seq(S)  BY ONLY <1>2, <1>6, BlockParts
  <2>2. EndsOnce(blocks[cond])  BY ONLY <1>2, <1>6 DEF Flowing, FlowOK
  <2> QED BY <1>2, <1>5, <1>6, <2>1, <2>2 DEF PrintLoopHead, IsOpen
<1>8. code \in Seq(S) /\ Branching(code) /\ code[Len(code)] = e /\ e.to = <<cond>>
  <2>1. "comma" \in Tags /\ "space" \in Tags  BY TagTypes DEF VisitorTags
  <2>2. Act("comma") \in S /\ Act("space") \in S /\ e \in S
    BY ONLY <1>2, <1>6, <2>1, InstructionTypes
  <2>3. e.op \in TerminatorOps /\ e.to = <<cond>>  BY BranchParts
  <2> HIDE DEF e, S
  <2> QED BY ONLY <2>2, <2>3, Tuples, EndingFlow
<1>9. /\ a.op = "print_last" /\ a.fn = Top.fn /\ b.op = "print_value" /\ b.fn = Top.fn
  BY TaskParts DEF PrintValue
<1> HIDE DEF cond, last, end, e, code, a, b
<1>10. /\ Len(blocks') = Len(blocks)
       /\ \A c \in 1..Len(blocks) :
            /\ c # last => blocks'[c].fn = blocks[c].fn
            /\ c # last /\ c # insert /\ c # cond => blocks'[c] = blocks[c]
       /\ blocks'[last].fn = Top.fn /\ blocks'[last].code = <<>>
       /\ Extends(blocks[insert], blocks'[insert], code)
       /\ Learns(blocks[cond], blocks'[cond], insert) /\ blocks'[cond].code \in Seq(S)
  BY ONLY <1>1, <1>4, <1>6, <1>7, <1>8, PrintMainBlocks DEF S, n
<1>11. OpenAfter /\ ~HasTerminator(blocks'[last]) /\ Targets(blocks'[last]) = {}
  BY ONLY <1>1, <1>10, NoEdges DEF OpenAfter
<1>12. Goes(todo)
  <2>1. /\ Local(a) /\ a.op # "gen" /\ Local(b) /\ a.op \notin LoopOps /\ b.op \notin LoopOps
        /\ LeavesOpen(b) /\ LeavesOpen(a) /\ b.op # "gen"
    BY ONLY <1>1, <1>9 DEF Local, LoopOps, LeavesOpen, KeepOps
  <2> QED BY ONLY <1>1, <1>11, <2>1, NoLoop, GoesOn DEF todo
<1>13. /\ SamePhis(blocks[insert], blocks'[insert])
       /\ EndsOnce(blocks'[insert]) /\ HasTerminator(blocks'[insert])
       /\ Targets(blocks'[insert]) = {cond} /\ Targets(blocks[insert]) = {}
  <2>1. /\ SamePhis(blocks[insert], blocks'[insert])
        /\ EndsOnce(blocks'[insert]) /\ HasTerminator(blocks'[insert])
        /\ Targets(blocks'[insert]) = {code[Len(code)].to[i] : i \in 1..Len(code[Len(code)].to)}
    <3>1. blocks[insert].code \in Seq(S) /\ code \in Seq(S) /\ Branching(code)
      BY ONLY <1>2, <1>8
    <3>2. EndsOnce(blocks[insert]) /\ ~HasTerminator(blocks[insert])
      BY ONLY <1>2 DEF IsOpen
    <3>3. blocks'[insert].code = blocks[insert].code \o code
      BY ONLY <1>10 DEF Extends
    <3> HIDE DEF S
    <3> QED BY ONLY <3>1, <3>2, <3>3, AppendCode
  <2>2. code[Len(code)].to = <<cond>>  BY ONLY <1>8
  <2>3. {code[Len(code)].to[i] : i \in 1..Len(code[Len(code)].to)} = {cond}
    BY ONLY <2>2, BranchTargets
  <2>4. Targets(blocks[insert]) = {}  BY ONLY <1>2 DEF IsOpen, Targets
  <2> QED BY ONLY <2>1, <2>3, <2>4
<1>14. /\ SameEnd(blocks[cond], blocks'[cond]) /\ EndsOnce(blocks'[cond])
       /\ PrintLoopHead(blocks'[cond]) /\ ~Plain(blocks[cond])
  BY ONLY <1>6, <1>7, <1>10, LearnsFlow
<1>15. Keeps(blocks[last], blocks'[last]) /\ Plain(blocks'[last]) /\ ~PrintLoopHead(blocks[last])
  <2>1. blocks[last].code = blocks'[last].code /\ blocks'[last].code \in Seq(S)
    BY ONLY <1>5, <1>10, EmptySeq
  <2>2. Keeps(blocks[last], blocks'[last])  BY ONLY <2>1, SameCode
  <2>3. Plain(blocks'[last])  BY ONLY <1>10, EmptySeq, SMT DEF Plain
  <2> QED BY ONLY <1>5, <2>2, <2>3 DEF PrintLoopHead
<1>16. \A c \in 1..Len(blocks) : ~(c > Len(blocks)) /\ Keeps(blocks[c], blocks[c])
  <2> TAKE c \in 1..Len(blocks)
  <2>1. ~(c > Len(blocks))  BY ONLY <1>2, c \in 1..Len(blocks), SMT
  <2>2. \A i \in 1..Len(blocks[c].code) : i \in 1..Len(blocks[c].code)  OBVIOUS
  <2> QED BY <2>1, <2>2 DEF Keeps, SameEnd, SamePhis
<1>17. \A c \in 1..Len(blocks) : c # insert => SameEnd(blocks[c], blocks'[c])
  BY ONLY <1>10, <1>14, <1>15, <1>16 DEF Keeps
<1>18. OrdinaryEnds
  <2>1. \A c \in 1..Len(blocks) : ~Continued(c) => SameEnd(blocks[c], blocks'[c])
    BY ONLY <1>2, <1>17 DEF Continued
  <2>2. ASSUME NEW c \in 1..Len(blocks), Continued(c), NEW t \in Targets(blocks'[c])
        PROVE  t \in 1..Len(blocks) /\ Near(t) /\ ~IsEntry(t)
    BY ONLY <1>6, <1>13, <1>16, <2>2, c \in 1..Len(blocks), t \in Targets(blocks'[c])
       DEF Continued, Near, n
  <2>3. \A c \in 1..Len(blocks) :
          \/ blocks'[c].fn = blocks[c].fn
          \/ c \in Owed(Len(work)) /\ blocks'[c].fn = Top.fn /\ c = insert'
    BY ONLY <1>1, <1>4, <1>10
  <2>4. Len(blocks) <= Len(blocks')  BY ONLY <1>2, <1>10, SMT
  <2> QED BY ONLY <1>10, <1>13, <1>16, <2>1, <2>2, <2>3, <2>4 DEF OrdinaryEnds
<1>19. OrdinaryHeads(todo)
  <2>1. \A c \in 1..Len(blocks) : Plain(blocks[c]) => Plain(blocks'[c])
    <3>1. Plain(blocks[insert]) => Plain(blocks'[insert])
      BY ONLY <1>13, PlainStays
    <3> QED BY ONLY <1>10, <1>14, <1>15, <3>1
  <2>2. \A c \in 1..Len(blocks) : PrintLoopHead(blocks[c]) => PrintLoopHead(blocks'[c])
    <3>1. ~PrintLoopHead(blocks[insert])  BY ONLY <1>2 DEF IsOpen, PrintLoopHead
    <3> QED BY ONLY <1>10, <1>14, <1>15, <3>1
  <2> QED BY ONLY <1>12, <2>1, <2>2 DEF Goes, OrdinaryHeads
<1>20. Predecessors(bs2, cond) = Predecessors(blocks, cond) \cup {insert}
  <2>1. ASSUME NEW c \in 1..Len(blocks), c # insert
        PROVE  cond \in Targets(bs2[c]) <=> cond \in Targets(blocks[c])
    BY ONLY <1>17, <2>1, c \in 1..Len(blocks) DEF SameEnd
  <2>2. cond \in Targets(bs2[insert]) /\ cond \notin Targets(blocks[insert])
    BY ONLY <1>13
  <2>3. Len(bs2) = Len(blocks) /\ insert \in 1..Len(blocks)  BY ONLY <1>2, <1>10
  <2> HIDE DEF bs2
  <2> QED BY ONLY <2>1, <2>2, <2>3 DEF Predecessors
<1>21. PhisMatch(bs2, cond)
  <2> DEFINE preds == blocks[cond].code[1].to
             p     == bs2[cond].code
  <2>1. 1 \in 1..Len(blocks[cond].code) /\ blocks[cond].code[1] \in S
    <3>1. 1 \in 1..Len(blocks[cond].code)  BY ONLY <1>7, SMT
    <3> QED BY ONLY <1>7, <3>1, ElementOf
  <2>2. preds \in Seq(1..n)  BY ONLY <2>1, SMT DEF InstructionSet
  <2>3. IsInjective(preds) /\ Range(preds) = Predecessors(blocks, cond)
    <3>1. blocks[cond].code[1].op = "phi"  BY ONLY <1>6, <2>1 DEF PrintLoopHead
    <3>2. PhisMatch(blocks, cond)  BY ONLY <1>2, <1>6 DEF Flowing, FlowOK
    <3> QED BY ONLY <2>1, <3>1, <3>2 DEF PhisMatch
  <2>4. insert \notin Range(preds)  BY ONLY <1>13, <2>3 DEF Predecessors
  <2>5. Len(p) = Len(blocks[cond].code) /\ p[1] = Phi(Append(preds, insert))
    BY ONLY <1>10 DEF Learns
  <2> DEFINE t == Append(preds, insert)
  <2>6. p[1].to = t
    <3>1. \A s : Phi(s).to = s  BY ONLY TRUE DEF Phi, Instruction
    <3> HIDE DEF t, p
    <3>2. p[1] = Phi(t)  BY ONLY <2>5 DEF t
    <3> QED BY ONLY <3>1, <3>2
  <2>7. \A i \in 1..Len(p) : p[i].op = "phi" <=> i = 1
    BY ONLY <1>14 DEF PrintLoopHead
  <2>8. t = Append(preds, insert)  OBVIOUS
  <2> HIDE DEF preds, p, t
  <2>9. IsInjective(t) /\ \A y : y \in Range(t) <=> y \in Range(preds) \/ y = insert
    <3>1. insert \in 1..n  BY ONLY <1>2
    <3>2. IsInjective(preds)  BY ONLY <2>3
    <3> HIDE DEF n
    <3> QED BY ONLY <2>2, <2>4, <2>8, <3>1, <3>2, NewIncoming
  <2>10. Range(t) = Predecessors(bs2, cond)  BY ONLY <1>20, <2>3, <2>9
  <2>11. \A i \in 1..Len(p) : p[i].op = "phi" =>
           /\ \A j \in 1..i : p[j].op = "phi"
           /\ IsInjective(p[i].to) /\ Range(p[i].to) = Predecessors(bs2, cond)
    <3>1. \A i \in 1..Len(p) : i = 1 => \A j \in 1..i : j = 1 /\ j \in 1..Len(p)
      BY ONLY SMT
    <3> QED BY ONLY <2>6, <2>7, <2>9, <2>10, <3>1
  <2> HIDE DEF bs2
  <2> QED BY ONLY <2>11 DEF PhisMatch, p
<1>22. FlowOK(blocks')
  <2>1. ASSUME NEW c \in 1..Len(blocks) PROVE KeepsFlow(blocks, bs2, c, x)
    <3>1. CASE c = cond  BY ONLY <1>14, <1>21, <3>1 DEF KeepsFlow
    <3>2. CASE c = insert  BY ONLY <1>7, <1>13, <3>2 DEF LeadsToPlain, KeepsFlow
    <3>3. CASE c = last  BY ONLY <1>7, <1>15, <3>3 DEF KeepsFlow
    <3>4. CASE c # cond /\ c # insert /\ c # last
      BY ONLY <1>10, <1>16, <3>4, c \in 1..Len(blocks) DEF KeepsFlow
    <3> QED BY ONLY <3>1, <3>2, <3>3, <3>4 DEF KeepsFlow
  <2>2. Len(bs2) \in Nat /\ Len(blocks) \in Nat /\ Len(blocks) <= Len(bs2)
    BY ONLY <1>2, <1>10, SMT
  <2>3. \A c \in 1..Len(bs2) : ~(c > Len(blocks))  BY ONLY <1>10, <1>16
  <2>4. FlowOK(blocks)  BY ONLY <1>2 DEF Flowing
  <2> HIDE DEF bs2, x
  <2>5. FlowOK(bs2)  BY ONLY <2>1, <2>2, <2>3, <2>4, FlowStep
  <2> QED BY <2>5 DEF bs2
<1> HIDE DEF todo
<1> QED BY ONLY <1>12, <1>18, <1>19, <1>22, OrdinaryFlow DEF Goes

-----------------------------------------------------------------------------
(* Functions end and are verified.                                         *)

\* What a function finds when its code is complete: it is the innermost one,
\* and no block of it is saved and open.
LEMMA EndOfFunction ==
  ASSUME IInv, Flowing, status = "generating", work # <<>>, Top.op = "function_end"
  PROVE  /\ Len(work) \in Nat /\ Len(work) >= 2 /\ Top = work[Len(work)]
         /\ Len(blocks) \in Nat /\ Len(functions) \in Nat
         /\ blocks \in Seq(BlockSet(Len(blocks), Len(functions)))
         /\ Top.fn \in 1..Len(functions) /\ Len(Top.owe) = 0
         /\ insert \in 1..Len(blocks) /\ blocks[insert].fn = Top.fn
         /\ \A k \in 1..(Len(work) - 1) : work[k].fn < Top.fn
         /\ \A k \in 1..Len(work) : k > 2 /\ work[k].op = "function_end" =>
              /\ work[k].arg.kind # "main" /\ work[k].arg.saved \in 1..Len(blocks)
              /\ blocks[work[k].arg.saved].fn # Top.fn
         /\ work[2].op = "function_end" => Closed(work[2].arg.saved)
         /\ work[1].op = "program"
<1>1. /\ Len(work) \in Nat /\ Len(work) >= 2 /\ Top = work[Len(work)]
      /\ Len(blocks) \in Nat /\ Len(functions) \in Nat
      /\ blocks \in Seq(BlockSet(Len(blocks), Len(functions)))
      /\ TaskOK(Top, Len(blocks), Len(functions))
      /\ Top.fn \in 0..Len(functions) /\ Top.fn # 0
      /\ insert \in 1..Len(blocks) /\ blocks[insert].fn = Top.fn
  BY Context
<1>2. Top.fn \in 1..Len(functions) /\ Len(work) \in 1..Len(work) /\ 1 \in 1..Len(work)
  BY ONLY <1>1, SMT
<1>3. Len(Top.owe) = 0  BY ONLY <1>1, Top.op = "function_end" DEF TaskOK, Owing
<1>4. CallStackOK /\ FnsOK /\ FinishedOK  BY DEF IInv, Flowing
<1>5. \A k \in 1..Len(work) : work[k].fn \in Nat
  <2>1. \A k \in 1..Len(work) : work[k].fn \in 0..Len(functions)
    BY ONLY IInv DEF IInv, TypeOK, TaskOK
  <2> QED BY ONLY <1>1, <2>1, SMT
<1>6. \A k \in 1..(Len(work) - 1) : work[k].fn < Top.fn
  <2>1. \A k \in 1..(Len(work) - 1) : k \in 1..Len(work) /\ k < Len(work)
    BY ONLY <1>1, SMT
  <2> QED BY ONLY <1>1, <1>2, <1>4, <2>1, Top.op = "function_end" DEF FnsOK
<1>7. ASSUME NEW k \in 1..Len(work), k > 2, work[k].op = "function_end"
      PROVE  /\ work[k].arg.kind # "main" /\ work[k].arg.saved \in 1..Len(blocks)
             /\ blocks[work[k].arg.saved].fn # Top.fn
  <2>1. k \in 3..Len(work) /\ k - 1 \in 1..(Len(work) - 1) /\ k - 1 \in 1..Len(work)
    BY ONLY <1>1, <1>7, k \in 1..Len(work), SMT
  <2>2. /\ work[k].arg.kind # "main" /\ work[k].arg.saved \in 1..Len(blocks)
        /\ blocks[work[k].arg.saved].fn = work[k - 1].fn
    BY ONLY <1>4, <1>7, <2>1 DEF CallStackOK
  <2>3. work[k - 1].fn < Top.fn /\ work[k - 1].fn \in Nat /\ Top.fn \in Nat
    BY ONLY <1>1, <1>2, <1>5, <1>6, <2>1
  <2>4. work[k - 1].fn # Top.fn  BY ONLY <2>3, SMT
  <2> QED BY ONLY <2>2, <2>4
<1>8. work[2].op = "function_end" => Closed(work[2].arg.saved)
  <2>1. Len(work) > 1  BY ONLY <1>1, SMT
  <2> QED BY ONLY <1>4, <2>1 DEF FinishedOK
<1>9. work[1].op = "program"  BY ONLY <1>2, <1>4 DEF CallStackOK
<1> QED BY ONLY <1>1, <1>2, <1>3, <1>6, <1>7, <1>8, <1>9

\* The code at the end of a function that has not ended by itself.
LEMMA EpilogueFlow ==
  ASSUME NEW n \in Nat, NEW kind
  PROVE  /\ Epilogue(kind) \in Seq(InstructionSet(n)) /\ Branching(Epilogue(kind))
         /\ Len(Epilogue(kind)[Len(Epilogue(kind))].to) = 0
<1>1. <<Ret>> \in Seq(InstructionSet(n))
  <2>1. Ret \in InstructionSet(n)  BY InstructionTypes
  <2> QED BY ONLY <2>1, Tuples
<1>2. RuntimeError(MissingReturn) \in Seq(InstructionSet(n))
  <2>1. MissingReturn \in Tags  BY TagTypes DEF VisitorTags
  <2> QED BY <2>1, InstructionTypes
<1>3. Branching(<<Ret>>) /\ Len(<<Ret>>[Len(<<Ret>>)].to) = 0  BY InstructionFlow
<1>4. /\ Branching(RuntimeError(MissingReturn))
      /\ Len(RuntimeError(MissingReturn)[Len(RuntimeError(MissingReturn))].to) = 0
  <2>1. Ret.op \in TerminatorOps  BY DEF Ret, Instruction, TerminatorOps
  <2>2. Len(<<>>) = 0  BY EmptySeq
  <2> QED BY <2>1, <2>2, EndingFlow
<1> QED BY <1>1, <1>2, <1>3, <1>4 DEF Epilogue

\* The blocks of a function with its epilogue.
LEMMA DoneBlocks ==
  ASSUME IInv, Flowing, status = "generating", work # <<>>, Top.op = "function_end",
         NEW kind, NEW done,
         done = IF IsPreviousInstructionBlockTerminator THEN blocks
                ELSE Put(blocks, insert, Epilogue(kind))
  PROVE  /\ Len(done) = Len(blocks)
         /\ \A c \in 1..Len(blocks) : /\ done[c].fn = blocks[c].fn
                                      /\ c # insert => done[c] = blocks[c]
                                      /\ Targets(done[c]) = Targets(blocks[c])
                                      /\ HasTerminator(blocks[c]) => HasTerminator(done[c])
                                      /\ Plain(blocks[c]) => Plain(done[c])
                                      /\ PrintLoopHead(blocks[c]) => PrintLoopHead(done[c])
         /\ HasTerminator(done[insert]) /\ FlowOK(done)
<1> DEFINE n    == Len(blocks)
           S    == InstructionSet(n)
           code == Epilogue(kind)
<1>1. /\ n \in Nat /\ Len(functions) \in Nat /\ insert \in 1..n
      /\ blocks \in Seq(BlockSet(n, Len(functions)))
  BY EndOfFunction
<1>2. FlowOK(blocks)  BY DEF Flowing
<1>3. CASE ~IsOpen
  <2>1. done = blocks  BY <1>3 DEF IsOpen, IsPreviousInstructionBlockTerminator
  <2> QED BY <1>2, <1>3, <2>1 DEF IsOpen
<1>4. CASE IsOpen
  <2>1. done = Put(blocks, insert, code)
    BY <1>4 DEF IsOpen, IsPreviousInstructionBlockTerminator
  <2>2. code \in Seq(S) /\ Branching(code) /\ Len(code[Len(code)].to) = 0
    BY ONLY <1>1, EpilogueFlow
  <2>3. blocks[insert].code \in Seq(S) /\ EndsOnce(blocks[insert]) /\ ~HasTerminator(blocks[insert])
    <3>1. blocks[insert].code \in Seq(S)  BY ONLY <1>1, BlockParts
    <3> QED BY ONLY <1>1, <1>2, <1>4, <3>1 DEF FlowOK, IsOpen
  <2>4. Len(blocks) = n  OBVIOUS
  <2> HIDE DEF code, n
  <2>5. /\ Len(done) = Len(blocks)
        /\ \A c \in 1..Len(blocks) : /\ done[c].fn = blocks[c].fn
                                     /\ c # insert => done[c] = blocks[c]
    <3>1. n \in Nat /\ Len(functions) \in Nat /\ blocks \in Seq(BlockSet(n, Len(functions)))
      BY ONLY <1>1
    <3>2. code \in Seq(InstructionSet(n))  BY ONLY <2>2 DEF S
    <3> QED BY ONLY <2>1, <3>1, <3>2, PutType
  <2>6. Extends(blocks[insert], done[insert], code)
    <3>1. insert \in 1..Len(blocks)  BY ONLY <1>1, <2>4
    <3> QED BY ONLY <1>1, <2>1, <2>2, <3>1, PutCode DEF S
  <2>7. /\ SamePhis(blocks[insert], done[insert])
        /\ EndsOnce(done[insert]) /\ HasTerminator(done[insert])
        /\ Targets(done[insert]) = {} /\ Targets(blocks[insert]) = {}
    <3> HIDE DEF S
    <3>1. done[insert].code = blocks[insert].code \o code
      BY ONLY <2>6 DEF Extends
    <3>2. /\ SamePhis(blocks[insert], done[insert])
          /\ EndsOnce(done[insert]) /\ HasTerminator(done[insert])
          /\ Targets(done[insert]) = {code[Len(code)].to[i] : i \in 1..Len(code[Len(code)].to)}
      BY ONLY <2>2, <2>3, <3>1, AppendCode
    <3>3. \A i \in 1..Len(code[Len(code)].to) : FALSE  BY ONLY <2>2, SMT
    <3>4. Targets(blocks[insert]) = {}  BY ONLY <2>3 DEF Targets
    <3> QED BY ONLY <3>2, <3>3, <3>4
  <2>8. /\ Plain(blocks[insert]) => Plain(done[insert])
        /\ ~PrintLoopHead(blocks[insert])
    <3>1. Plain(blocks[insert]) => Plain(done[insert])  BY ONLY <2>7, PlainStays
    <3> QED BY ONLY <2>3, <3>1 DEF PrintLoopHead
  <2>9. \A c \in 1..Len(blocks) : ~(c > Len(blocks)) /\ Keeps(blocks[c], blocks[c]) /\ c # 0
    <3> TAKE c \in 1..Len(blocks)
    <3>1. ~(c > Len(blocks)) /\ c # 0
      BY ONLY <1>1, <2>4, c \in 1..Len(blocks), SMT
    <3>2. \A i \in 1..Len(blocks[c].code) : i \in 1..Len(blocks[c].code)  OBVIOUS
    <3> QED BY <3>1, <3>2 DEF Keeps, SameEnd, SamePhis
  <2>10. FlowOK(done)
    <3> DEFINE x == 0
    <3>1. \A c \in 1..Len(blocks) : KeepsFlow(blocks, done, c, x)
      <4>1. LeadsToPlain(blocks, done, insert, x)  BY ONLY <2>7 DEF LeadsToPlain
      <4> QED BY ONLY <2>5, <2>7, <2>9, <4>1 DEF KeepsFlow
    <3>2. \A c \in 1..Len(done) : ~(c > Len(blocks))  BY ONLY <2>5, <2>9
    <3>3. Len(done) \in Nat /\ Len(blocks) \in Nat /\ Len(blocks) <= Len(done)
      BY ONLY <1>1, <2>4, <2>5, SMT
    <3> HIDE DEF x
    <3> QED BY ONLY <1>2, <3>1, <3>2, <3>3, FlowStep
  <2> QED BY ONLY <2>3, <2>5, <2>7, <2>8, <2>10
<1> QED BY ONLY <1>3, <1>4

\* A block of the function that ends is only open if it is the insert block.
LEMMA FunctionIsClosed ==
  ASSUME IInv, Flowing, status = "generating", work # <<>>, Top.op = "function_end",
         NEW b \in 1..Len(blocks), blocks[b].fn = Top.fn
  PROVE  HasTerminator(blocks[b]) \/ b = insert
<1>1. /\ Len(work) \in Nat /\ Len(work) >= 2 /\ Len(functions) \in Nat /\ Len(blocks) \in Nat
      /\ Top.fn \in 1..Len(functions)
      /\ \A k \in 1..Len(work) : k > 2 /\ work[k].op = "function_end" =>
           blocks[work[k].arg.saved].fn # Top.fn
      /\ work[2].op = "function_end" => Closed(work[2].arg.saved)
      /\ work[1].op = "program"
  BY EndOfFunction
<1>2. b # 0 /\ Top.fn # 0  BY ONLY <1>1, b \in 1..Len(blocks), SMT
<1>3. HasTerminator(blocks[b]) \/ b = insert \/ IsSaved(b)
  BY ONLY Flowing, <1>2, b \in 1..Len(blocks), blocks[b].fn = Top.fn DEF Flowing, OpenOK, NoParent
<1>4. ASSUME NEW k \in 1..Len(work), work[k].op = "function_end", work[k].arg.saved = b
      PROVE  HasTerminator(blocks[b])
  <2>1. k = 1 \/ k = 2 \/ k > 2  BY ONLY <1>1, k \in 1..Len(work), SMT
  <2>2. k # 1  BY ONLY <1>1, <1>4
  <2>3. ~(k > 2)  BY ONLY <1>1, <1>4, k \in 1..Len(work), blocks[b].fn = Top.fn
  <2>4. Closed(b)  BY ONLY <1>1, <1>4, <2>1, <2>2, <2>3
  <2> QED BY ONLY <1>2, <2>4 DEF Closed, NoBlock
<1> QED BY ONLY <1>3, <1>4 DEF IsSaved

\* A function that is complete passes LLVM's verification.
LEMMA FunctionPasses ==
  ASSUME IInv, Flowing, status = "generating", work # <<>>, Top.op = "function_end",
         NEW kind, NEW done,
         done = IF IsPreviousInstructionBlockTerminator THEN blocks
                ELSE Put(blocks, insert, Epilogue(kind))
  PROVE  VerifyFunction(done, Top.fn)
<1>1. /\ Len(work) \in Nat /\ Len(work) >= 2 /\ Top = work[Len(work)]
      /\ Len(functions) \in Nat /\ Len(blocks) \in Nat
      /\ Top.fn \in 1..Len(functions) /\ Len(Top.owe) = 0
      /\ \A k \in 1..(Len(work) - 1) : work[k].fn < Top.fn
  BY EndOfFunction
<1>2. /\ Len(done) = Len(blocks)
      /\ \A c \in 1..Len(blocks) : /\ done[c].fn = blocks[c].fn
                                   /\ c # insert => done[c] = blocks[c]
                                   /\ Targets(done[c]) = Targets(blocks[c])
      /\ HasTerminator(done[insert]) /\ FlowOK(done)
  BY DoneBlocks
<1>3. EdgesOK  BY DEF Flowing
<1>4. ASSUME NEW b \in BlocksOf(done, Top.fn)
      PROVE  Terminated(done[b]) /\ TargetsInFunction(done, b) /\ PhisMatch(done, b)
  <2>1. b \in 1..Len(blocks) /\ b \in 1..Len(done) /\ blocks[b].fn = Top.fn /\ done[b].fn = Top.fn
    BY ONLY <1>2, b \in BlocksOf(done, Top.fn) DEF BlocksOf
  <2>2. HasTerminator(blocks[b]) \/ b = insert  BY <2>1, FunctionIsClosed
  <2>3. Terminated(done[b]) /\ PhisMatch(done, b)
    BY ONLY <1>2, <2>1, <2>2 DEF Terminated, FlowOK, EndsOnce
  <2>4. ASSUME NEW t \in Targets(done[b])
        PROVE  t \in 1..Len(done) /\ done[t].fn = done[b].fn
    <3>1. t \in 1..Len(blocks) /\ Belongs(blocks, work, t, Top.fn)
      BY ONLY <1>2, <1>3, <2>1, t \in Targets(done[b]) DEF EdgesOK
    <3>2. ~OwedTo(work, t, Top.fn)
      <4>1. ASSUME NEW k \in 1..Len(work), work[k].fn = Top.fn, NEW i \in 1..Len(work[k].owe)
            PROVE  FALSE
        <5>1. k \in 1..(Len(work) - 1) \/ k = Len(work)
          BY ONLY <1>1, k \in 1..Len(work), SMT
        <5>2. CASE k \in 1..(Len(work) - 1)
          <6>1. Top.fn < Top.fn  BY ONLY <1>1, <4>1, <5>2
          <6> QED BY ONLY <1>1, <6>1, SMT
        <5>3. CASE k = Len(work)
          BY ONLY <1>1, <5>3, i \in 1..Len(work[k].owe), SMT
        <5> QED BY ONLY <5>1, <5>2, <5>3
      <4> QED BY ONLY <4>1 DEF OwedTo
    <3>3. blocks[t].fn = Top.fn  BY ONLY <3>1, <3>2 DEF Belongs
    <3> QED BY ONLY <1>2, <2>1, <3>1, <3>3
  <2> QED BY ONLY <2>3, <2>4 DEF TargetsInFunction
<1>5. Predecessors(done, functions[Top.fn].entry) = {}
  <2>1. IsEntry(functions[Top.fn].entry)  BY ONLY <1>1 DEF IsEntry
  <2>2. \A c \in 1..Len(done) : functions[Top.fn].entry \notin Targets(done[c])
    BY ONLY <1>2, <1>3, <2>1 DEF EdgesOK
  <2> QED BY ONLY <2>2 DEF Predecessors
<1> QED BY ONLY <1>4, <1>5 DEF VerifyFunction

\* A function ends, passes the verification, and gives the insert block back.
LEMMA EndFunctionFlow ==
  ASSUME IInv, IInv', VInv, EndFunction
  PROVE  VInv'
<1> DEFINE n    == Len(blocks)
           L    == Len(work)
           kind == Top.arg.kind
           done == IF IsPreviousInstructionBlockTerminator THEN blocks
                   ELSE Put(blocks, insert, Epilogue(kind))
<1>1. /\ status = "generating" /\ work # <<>> /\ Top.op = "function_end"
      /\ blocks' = done /\ functions' = functions
      /\ IF VerifyFunction(done, Top.fn)
         THEN /\ insert' = IF kind = "main" THEN insert ELSE Top.arg.saved
              /\ work' = Front(work) \o <<>> /\ status' = status
         ELSE status' = "invalid"
  BY DEF EndFunction, Doing, Then
<1>2. Flowing  BY <1>1 DEF VInv
<1>3. VerifyFunction(done, Top.fn)
  <2> HIDE DEF kind
  <2> QED BY <1>1, <1>2, FunctionPasses
<1>4. /\ L \in Nat /\ L >= 2 /\ Top = work[L] /\ n \in Nat /\ Len(functions) \in Nat
      /\ Top.fn \in 1..Len(functions) /\ Len(Top.owe) = 0
      /\ insert \in 1..n /\ blocks[insert].fn = Top.fn
      /\ \A k \in 1..L : k > 2 /\ work[k].op = "function_end" =>
           /\ work[k].arg.kind # "main" /\ work[k].arg.saved \in 1..n
           /\ blocks[work[k].arg.saved].fn # Top.fn
      /\ work[2].op = "function_end" => Closed(work[2].arg.saved)
      /\ work[1].op = "program"
  BY <1>1, <1>2, EndOfFunction
<1>5. /\ Len(done) = n
      /\ \A c \in 1..n : /\ done[c].fn = blocks[c].fn
                         /\ c # insert => done[c] = blocks[c]
                         /\ Targets(done[c]) = Targets(blocks[c])
                         /\ HasTerminator(blocks[c]) => HasTerminator(done[c])
                         /\ Plain(blocks[c]) => Plain(done[c])
                         /\ PrintLoopHead(blocks[c]) => PrintLoopHead(done[c])
      /\ HasTerminator(done[insert]) /\ FlowOK(done)
  <2> HIDE DEF kind
  <2> QED BY <1>1, <1>2, DoneBlocks
<1>6. insert' = (IF kind = "main" THEN insert ELSE Top.arg.saved) /\ status' = status
  BY ONLY <1>1, <1>3
<1>7. Len(work') = L - 1 /\ \A k \in 1..(L - 1) : work'[k] = work[k]
  <2> DEFINE S == Range(work)
             w == work'
  <2>1. work \in Seq(S)  BY DEF IInv, TypeOK
  <2>2. <<>> \in Seq({}) /\ Len(<<>>) = 0  BY EmptySeq
  <2>3. w = Front(work) \o <<>> /\ work # <<>>  BY ONLY <1>1, <1>3
  <2> HIDE DEF S, w
  <2>4. Replaced(work, w, <<>>)  BY ONLY <2>1, <2>2, <2>3, Replace
  <2>5. /\ L \in Nat \ {0} /\ Len(w) = L - 1 + 0
        /\ \A k \in 1..(L - 1) : w[k] = work[k]
    BY ONLY <2>2, <2>4 DEF Replaced
  <2>6. Len(w) = L - 1  BY ONLY <2>5, SMT
  <2> QED BY ONLY <2>5, <2>6 DEF w
<1>8. blocks' = done /\ functions' = functions  BY ONLY <1>1
<1> HIDE DEF done, kind
<1>9. /\ L \in 1..L /\ \A k \in 1..(L - 1) : k \in 1..L /\ k < L
      /\ \A k \in 1..L : k \in 1..(L - 1) \/ k = L
      /\ \A c \in 1..n : c # 0
  <2>1. L \in Nat /\ L >= 2 /\ n \in Nat  BY ONLY <1>4
  <2> HIDE DEF L, n
  <2> QED BY ONLY <2>1, SMT
<1>10. L = 2 \/ L > 2
  <2>1. L \in Nat /\ L >= 2  BY ONLY <1>4
  <2> HIDE DEF L
  <2> QED BY ONLY <2>1, SMT
\* What is known of the block to which the function gives the insert block back.
<1>11. /\ L > 2 => /\ insert' = Top.arg.saved
                   /\ insert' \in 1..n /\ insert' # insert
       /\ L = 2 => Closed(Top.arg.saved)
  <2>1. CASE L > 2
    <3>1. /\ Top.arg.kind # "main" /\ Top.arg.saved \in 1..n
          /\ blocks[Top.arg.saved].fn # Top.fn
      BY ONLY <1>1, <1>4, <1>9, <2>1
    <3>2. Top.arg.saved # insert  BY ONLY <1>4, <3>1
    <3>3. ~(L = 2)  BY ONLY <1>4, <2>1, SMT
    <3> QED BY ONLY <1>6, <3>1, <3>2, <3>3 DEF kind
  <2>2. CASE L = 2
    <3>1. Closed(Top.arg.saved) /\ ~(L > 2)  BY ONLY <1>1, <1>4, <2>2, SMT
    <3> QED BY ONLY <3>1
  <2> QED BY ONLY <1>4, <2>1, <2>2, SMT
<1>12. ASSUME NEW b, Closed(b), b \in 0..n PROVE Closed(b)'
  <2>1. b = 0 \/ b \in 1..n  BY ONLY <1>4, <1>12, SMT
  <2> QED BY ONLY <1>5, <1>8, <1>12, <2>1 DEF Closed, NoBlock
<1>13. \A k \in 1..L : work[k].op = "function_end" => work[k].arg.saved \in 0..n
  BY DEF IInv, TypeOK, TaskOK, TaskArgOK
<1>14. FlowOK(blocks')  BY ONLY <1>5, <1>8
<1>15. EdgesOK'
  <2>1. ASSUME NEW b \in 1..n, NEW t \in Targets(blocks[b])
        PROVE  t \in 1..n /\ Belongs(done, work', t, blocks[b].fn) /\ ~IsEntry(t)
    <3>1. t \in 1..n /\ Belongs(blocks, work, t, blocks[b].fn) /\ ~IsEntry(t)
      BY ONLY <1>2, b \in 1..n, t \in Targets(blocks[b]) DEF Flowing, EdgesOK
    <3>2. OwedTo(work, t, blocks[b].fn) => OwedTo(work', t, blocks[b].fn)
      <4>1. \A i \in 1..Len(Top.owe) : FALSE  BY ONLY <1>4, SMT
      <4>2. Top = work[L] /\ Len(work') = L - 1  BY ONLY <1>4, <1>7
      <4>3. ASSUME NEW k \in 1..L, work[k].fn = blocks[b].fn,
                   NEW i \in 1..Len(work[k].owe), work[k].owe[i] = t
            PROVE  OwedTo(work', t, blocks[b].fn)
        <5>1. k # L  BY ONLY <4>1, <4>2, <4>3
        <5>2. k \in 1..(L - 1)  BY ONLY <1>9, <5>1
        <5>3. work'[k] = work[k]  BY ONLY <1>7, <5>2
        <5> QED BY ONLY <4>2, <4>3, <5>2, <5>3 DEF OwedTo
      <4> QED BY ONLY <4>3 DEF OwedTo
    <3> QED BY ONLY <1>5, <3>1, <3>2 DEF Belongs
  <2>2. \A t : IsEntry(t)' <=> IsEntry(t)  BY ONLY <1>8 DEF IsEntry
  <2> QED BY ONLY <1>5, <1>8, <2>1, <2>2 DEF EdgesOK
<1>16. EntriesPlain'
  <2>1. \A f \in 1..Len(functions) : functions[f].entry \in 1..n
    <3>1. functions \in Seq(FunctionSet(n))  BY DEF IInv, TypeOK
    <3>2. ASSUME NEW f \in 1..Len(functions) PROVE functions[f].entry \in 1..n
      <4>1. functions[f] \in FunctionSet(n)
        BY ONLY <3>1, f \in 1..Len(functions)
      <4> QED BY ONLY <4>1 DEF FunctionSet
    <3> QED BY ONLY <3>2
  <2> QED BY ONLY <1>2, <1>5, <1>8, <2>1 DEF Flowing, EntriesPlain
<1>17. OpenOK'
  <2>1. ASSUME NEW b \in 1..n, done[b].fn # NoParent
        PROVE  HasTerminator(done[b]) \/ b = insert' \/ IsSaved(b)'
    <3>1. HasTerminator(blocks[b]) \/ b = insert \/ IsSaved(b)
      BY ONLY <1>2, <1>5, <2>1, b \in 1..n DEF Flowing, OpenOK
    <3>2. ASSUME NEW k \in 1..L, work[k].op = "function_end", work[k].arg.saved = b
          PROVE  HasTerminator(done[b]) \/ b = insert' \/ IsSaved(b)'
      <4>1. CASE k \in 1..(L - 1)  BY ONLY <1>7, <3>2, <4>1 DEF IsSaved
      <4>2. CASE k = L /\ L > 2  BY ONLY <1>4, <1>11, <3>2, <4>2
      <4>3. CASE k = L /\ L = 2
        BY ONLY <1>4, <1>5, <1>9, <1>11, <3>2, <4>3, b \in 1..n DEF Closed, NoBlock
      <4> QED BY ONLY <1>9, <1>10, <4>1, <4>2, <4>3, k \in 1..L
    <3> QED BY ONLY <1>5, <3>1, <3>2, b \in 1..n DEF IsSaved
  <2> QED BY ONLY <1>5, <1>8, <2>1 DEF OpenOK
<1>18. LoopsOK'
  <2>1. ASSUME NEW k \in 1..L PROVE LoopTaskOK(done, work[k])
    <3>1. LoopTaskOK(blocks, work[k])
      BY ONLY <1>2, k \in 1..L DEF Flowing, LoopsOK
    <3>2. work[k].op \in LoopOps => work[k].arg.cond \in 1..n
      BY DEF IInv, TypeOK, TaskOK, TaskArgOK, LoopOps
    <3> QED BY ONLY <1>5, <3>1, <3>2 DEF LoopTaskOK, LoopOps
  <2>2. \A k \in 1..(L - 1) : LoopTaskOK(done, work'[k])
    BY ONLY <1>7, <1>9, <2>1
  <2> QED BY ONLY <1>7, <1>8, <2>2 DEF LoopsOK, LoopTaskOK, IsEntry
<1>19. FnsOK'
  <2>1. FnsOK  BY ONLY <1>2 DEF Flowing
  <2> QED BY ONLY <1>7, <1>9, <2>1 DEF FnsOK
<1>20. FinishedOK'
  <2>1. CASE L = 2
    <3>1. Closed(insert)'
      <4>1. CASE insert' = insert  BY ONLY <1>5, <1>8, <4>1 DEF Closed
      <4>2. CASE insert' = Top.arg.saved
        <5>1. Top.arg.saved \in 0..n  BY ONLY <1>1, <1>4, <1>9, <1>13
        <5>2. (insert' \in 0..n /\ HasTerminator(blocks[insert'])) \/ insert' = 0
          BY ONLY <1>11, <2>1, <4>2, <5>1 DEF Closed, NoBlock
        <5>3. insert' = 0 \/ insert' \in 1..n  BY ONLY <1>4, <4>2, <5>1, SMT
        <5> QED BY ONLY <1>5, <1>8, <5>2, <5>3 DEF Closed, NoBlock
      <4> QED BY ONLY <1>6, <4>1, <4>2
    <3>2. ~(Len(work') > 1)  BY ONLY <1>4, <1>7, <2>1, SMT
    <3> QED BY ONLY <3>1, <3>2 DEF FinishedOK
  <2>2. CASE L > 2
    <3>1. 2 \in 1..(L - 1) /\ 2 \in 1..L /\ L - 1 # 1  BY ONLY <1>4, <2>2, SMT
    <3>2. work[2].op = "function_end" => Closed(work[2].arg.saved)'
      <4> SUFFICES ASSUME work[2].op = "function_end" PROVE Closed(work[2].arg.saved)'
        OBVIOUS
      <4> DEFINE s == work[2].arg.saved
      <4>1. s \in 0..n /\ (s = 0 \/ HasTerminator(blocks[s]))
        BY ONLY <1>4, <1>13, <3>1, work[2].op = "function_end" DEF Closed, NoBlock
      <4>2. s = 0 \/ s \in 1..n  BY ONLY <1>4, <4>1, SMT
      <4>3. work'[2].arg.saved = s  BY ONLY <1>7, <3>1
      <4> HIDE DEF s
      <4> QED BY ONLY <1>5, <1>8, <4>1, <4>2, <4>3 DEF Closed, NoBlock
    <3> QED BY ONLY <1>7, <3>1, <3>2 DEF FinishedOK
  <2> QED BY ONLY <1>10, <2>1, <2>2
<1>21. NeedOK'
  <2>1. ASSUME NEW k \in 1..(L - 1), work[k].op \in NeedOps, ComesBack(blocks, work[k + 1]),
               k + 1 # L
        PROVE  ComesBack(done, work[k + 1])
    <3> DEFINE s == work[k + 1].arg.saved
    <3>1. k + 1 \in 1..L /\ k + 1 >= 2 /\ k + 1 \in Nat /\ (k + 1 = 2 \/ k + 1 > 2)
      BY ONLY <1>4, k \in 1..(L - 1), SMT
    <3>2. work[k + 1].op = "function_end" /\ s # NoBlock /\ ~HasTerminator(blocks[s])
      BY ONLY <2>1 DEF ComesBack
    <3>3. k + 1 > 2
      <4>1. k + 1 # 2  BY ONLY <1>4, <3>2 DEF Closed
      <4> QED BY ONLY <3>1, <4>1
    <3>4. s \in 1..n /\ blocks[s].fn # Top.fn  BY ONLY <1>4, <3>1, <3>2, <3>3
    <3>5. s # insert  BY ONLY <1>4, <3>4
    <3>6. done[s] = blocks[s]  BY ONLY <1>5, <3>4, <3>5
    <3> QED BY ONLY <3>2, <3>6 DEF ComesBack
  <2>2. NeedOK  BY ONLY <1>2 DEF Flowing
  <2>3. \A k \in 1..(L - 1) :
          /\ work[k].op # "gen"
          /\ work[k].op \in NeedOps => LeavesOpen(work[k + 1]) \/ ComesBack(blocks, work[k + 1])
    BY ONLY <2>2 DEF NeedOK
  <2>4. \A k \in 1..((L - 1) - 1) : /\ k \in 1..(L - 1) /\ k + 1 \in 1..(L - 1) /\ k + 1 # L
    BY ONLY <1>4, SMT
  <2>5. ASSUME NEW k \in 1..((L - 1) - 1)
        PROVE  /\ work'[k].op # "gen"
               /\ work'[k].op \in NeedOps =>
                    LeavesOpen(work'[k + 1]) \/ ComesBack(done, work'[k + 1])
    <3>1. work'[k] = work[k] /\ work'[k + 1] = work[k + 1]
      BY ONLY <1>7, <2>4, k \in 1..((L - 1) - 1)
    <3> QED BY ONLY <2>1, <2>3, <2>4, <3>1, k \in 1..((L - 1) - 1)
  <2>6. L - 1 \in 1..(L - 1) /\ (L - 1) + 1 = L  BY ONLY <1>4, SMT
  <2>7. ASSUME work[L - 1].op \in NeedOps PROVE ~HasTerminator(done[insert'])
    <3>1. LeavesOpen(Top) \/ ComesBack(blocks, Top)
      BY ONLY <1>4, <2>3, <2>6, <2>7
    <3>2. ~LeavesOpen(Top)  BY ONLY <1>1 DEF LeavesOpen, KeepOps
    <3>3. Top.arg.saved # NoBlock /\ ~HasTerminator(blocks[Top.arg.saved])
      BY ONLY <3>1, <3>2 DEF ComesBack
    <3>4. L # 2  BY ONLY <1>11, <3>3 DEF Closed
    <3>5. insert' = Top.arg.saved /\ insert' \in 1..n /\ insert' # insert
      BY ONLY <1>11, <1>10, <3>4
    <3> QED BY ONLY <1>5, <3>3, <3>5
  <2>8. Len(work') = L - 1 /\ work'[L - 1] = work[L - 1] /\ work[L - 1].op # "gen"
    BY ONLY <1>7, <2>3, <2>6
  <2> DEFINE w == work'
             i == insert'
  <2>9. /\ \A k \in 1..(Len(w) - 1) :
             /\ w[k].op # "gen"
             /\ w[k].op \in NeedOps => LeavesOpen(w[k + 1]) \/ ComesBack(done, w[k + 1])
        /\ w[Len(w)].op \in NeedOps => ~HasTerminator(done[i])
        /\ w[Len(w)].op # "gen"
    BY ONLY <2>5, <2>7, <2>8
  <2> HIDE DEF w, i
  <2>10. blocks' = done /\ work' = w /\ insert' = i  BY ONLY <1>8 DEF w, i
  <2> QED BY ONLY <2>9, <2>10 DEF NeedOK, LeavesOpen, ComesBack, IsOpen
<1>22. GeneratedIRIsValid'  BY ONLY <1>1, <1>6 DEF GeneratedIRIsValid
<1> QED BY ONLY <1>14, <1>15, <1>16, <1>17, <1>18, <1>19, <1>20, <1>21, <1>22 DEF VInv, Flowing

\* When the visitor enters a function: the rest r of the method that found it,
\* the function's end and its body are what there is to do, on one more block.
LEMMA EntersFunction ==
  ASSUME IInv, status = "generating", work # <<>>,
         NEW kind, NEW body, NEW r,
         EnterFunction(kind, body),
         work' = Front(work) \o (<<r>> \o FunctionTasks(kind, body))
  PROVE  Entered(r)
<1> DEFINE e == Task("function_end", Len(functions) + 1, [kind |-> kind, saved |-> insert], <<>>)
           g == Gen(Len(functions) + 1, body)
           n == Len(blocks)
           m == Len(functions)
           L == Len(work)
           F == [kind |-> kind, body |-> body, entry |-> n + 1]
           W == work'
           bs == blocks'
           fs == functions'
<1>1. /\ bs = Append(blocks, EmptyBlock(m + 1)) /\ fs = Append(functions, F)
      /\ insert' = n + 1 /\ status' = "generating"
      /\ FunctionTasks(kind, body) = <<e, g>>
  BY DEF EnterFunction, FunctionTasks, New
<1>2. TypeOK  BY DEF IInv
<1>3. /\ blocks \in Seq(BlockSet(n, m)) /\ functions \in Seq(FunctionSet(n))
      /\ n \in Nat /\ m \in Nat /\ work \in Seq(Range(work))
      /\ \A k \in 1..L : TaskOK(work[k], n, m)
      /\ Top = work[L]
  BY <1>2 DEF TypeOK, Top, Last
<1>4. F.entry = n + 1  OBVIOUS
<1>5. Len(bs) = n + 1 /\ (\A c \in 1..n : bs[c] = blocks[c]) /\ bs[n + 1] = EmptyBlock(m + 1)
  <2> DEFINE S == BlockSet(n, m) \cup {EmptyBlock(m + 1)}
             E == EmptyBlock(m + 1)
  <2>1. blocks \in Seq(S) /\ E \in S  BY <1>3
  <2> HIDE DEF S, bs, E
  <2>2. Len(bs) = n + 1 /\ (\A c \in 1..n : bs[c] = blocks[c]) /\ bs[n + 1] = E
    BY ONLY <1>1, <2>1, AppendProperties DEF E
  <2> QED BY ONLY <2>2 DEF E
<1>6. Len(fs) = m + 1 /\ (\A f \in 1..m : fs[f] = functions[f]) /\ fs[m + 1].entry = n + 1
  <2> DEFINE S == FunctionSet(n) \cup {F}
  <2>1. functions \in Seq(S) /\ F \in S  BY <1>3
  <2> HIDE DEF S, fs, F
  <2>2. Len(fs) = m + 1 /\ (\A f \in 1..m : fs[f] = functions[f]) /\ fs[m + 1] = F
    BY ONLY <1>1, <2>1, AppendProperties
  <2> QED BY ONLY <2>2, <1>4
<1>7. \A f \in 1..m : functions[f].entry \in 1..n
  <2>1. ASSUME NEW f \in 1..m PROVE functions[f].entry \in 1..n
    <3>1. functions[f] \in FunctionSet(n)  BY ONLY <1>3, f \in 1..m
    <3> QED BY ONLY <3>1 DEF FunctionSet
  <2> QED BY ONLY <2>1
<1>8. /\ L \in Nat \ {0} /\ Len(W) = L + 2
      /\ \A k \in 1..(L - 1) : W[k] = work[k]
      /\ W[L] = r /\ W[L + 1] = e /\ W[L + 2] = g
  <2> DEFINE S    == Range(work)
             todo == <<r>> \o <<e, g>>
  <2>1. work \in Seq(S)  BY <1>3
  <2>2. /\ todo \in Seq({r, e, g}) /\ Len(todo) = 3
        /\ todo[1] = r /\ todo[2] = e /\ todo[3] = g
    OBVIOUS
  <2>3. W = Front(work) \o todo  BY <1>1
  <2> HIDE DEF S, W, todo
  <2>4. Replaced(work, W, todo)  BY ONLY <2>1, <2>2, <2>3, work # <<>>, Replace
  <2>5. /\ L \in Nat \ {0} /\ Len(W) = L - 1 + 3
        /\ \A k \in 1..(L - 1) : W[k] = work[k]
        /\ \A i \in 1..3 : W[L - 1 + i] = todo[i]
    BY ONLY <2>2, <2>4 DEF Replaced
  <2>6. /\ 1 \in 1..3 /\ 2 \in 1..3 /\ 3 \in 1..3 /\ Len(W) = L + 2
        /\ L - 1 + 1 = L /\ L - 1 + 2 = L + 1 /\ L - 1 + 3 = L + 2
    BY ONLY <2>5, SMT
  <2> QED BY ONLY <2>2, <2>5, <2>6
<1>9. /\ e.op = "function_end" /\ e.fn = m + 1 /\ e.arg.saved = insert
      /\ g.op = "gen" /\ g.fn = m + 1
  BY DEF Task, Gen
<1> HIDE DEF e, g
<1> QED BY ONLY <1>1, <1>3, <1>5, <1>6, <1>7, <1>8, <1>9 DEF Entered

\* A function is entered between the functions of the program or in the middle
\* of an expression, to which the visitor comes back.
LEMMA EnterFunctionFlow ==
  ASSUME IInv, VInv, status = "generating", work # <<>>, Top.op \in {"program", "eval"},
         NEW kind, NEW body, NEW rest, rest.op = Top.op, rest.fn = Top.fn,
         EnterFunction(kind, body),
         work' = Front(work) \o (<<rest>> \o FunctionTasks(kind, body))
  PROVE  VInv'
<1> DEFINE n  == Len(blocks)
           m  == Len(functions)
           L  == Len(work)
           W  == work'
           r  == W[L]
           e  == W[L + 1]
           g  == W[L + 2]
           bs == blocks'
           fs == functions'
           E  == EmptyBlock(m + 1)
           i  == insert'
           EntryAfter(b)  == \E f \in 1..(m + 1) : fs[f].entry = b
           ClosedAfter(b) == b = NoBlock \/ HasTerminator(bs[b])
           LoopTaskAfter(t) ==
             /\ t.op \in {"loop_cond", "body_end", "loop_end", "print_main"} =>
                  bs[t.arg.cond].fn = t.fn /\ ~EntryAfter(t.arg.cond)
             /\ t.op \in {"loop_cond", "body_end", "loop_end"} => Plain(bs[t.arg.cond])
             /\ t.op = "print_main" => PrintLoopHead(bs[t.arg.cond])
<1>1. Flowing  BY DEF VInv
<1>2. /\ n \in Nat /\ m \in Nat /\ L \in Nat \ {0} /\ blocks \in Seq(BlockSet(n, m))
      /\ Top = work[L]
      /\ \A k \in 1..L : TaskOK(work[k], n, m)
      /\ \A f \in 1..m : functions[f].entry \in 1..n
      /\ Len(bs) = n + 1
      /\ \A c \in 1..n : bs[c] = blocks[c]
      /\ bs[n + 1] = E /\ Len(fs) = m + 1
      /\ \A f \in 1..m : fs[f] = functions[f]
      /\ fs[m + 1].entry = n + 1 /\ i = n + 1 /\ status' = "generating"
      /\ Len(W) = L + 2
      /\ \A k \in 1..(L - 1) : W[k] = work[k]
      /\ r.op = Top.op /\ r.fn = Top.fn
      /\ e.op = "function_end" /\ e.fn = m + 1 /\ e.arg.saved = insert
      /\ g.op = "gen" /\ g.fn = m + 1 /\ W[L] = r /\ W[L + 1] = e /\ W[L + 2] = g
  <2>1. Entered(rest)
    <3> HIDE DEF n, m, L, W, bs, fs, E, i
    <3> QED BY EntersFunction
  <2> QED BY ONLY <2>1, rest.op = Top.op, rest.fn = Top.fn DEF Entered
<1>3. CallStackOK  BY DEF IInv
<1>4. Top.op = "eval" => insert \in 1..n /\ Len(Top.owe) = 0
  BY Context, QuietContext
<1>5. Top.op = "program" => L = 1 /\ Len(Top.owe) = 0
  <2>1. CASE Top.op = "program"
    <3>1. L \in 1..L  BY ONLY <1>2, SMT
    <3>2. L = 1  BY ONLY <1>2, <1>3, <2>1, <3>1 DEF CallStackOK
    <3>3. TaskOK(Top, n, m)  BY ONLY <1>2, <3>1
    <3> QED BY ONLY <2>1, <3>2, <3>3 DEF TaskOK, Owing
  <2> QED BY <2>1
<1>6. /\ E.fn = m + 1 /\ ~HasTerminator(E) /\ EndsOnce(E) /\ Plain(E)
      /\ Targets(E) = {} /\ Len(E.code) = 0
  <2>1. E.code = <<>> /\ Len(<<>>) = 0  BY EmptySeq DEF EmptyBlock, Block
  <2>2. Len(E.code) = 0  BY ONLY <2>1
  <2> HIDE DEF E
  <2>3. /\ E.fn = m + 1
        /\ ~HasTerminator(E) /\ EndsOnce(E) /\ Plain(E) /\ Targets(E) = {}
    BY EmptyBlockFlow DEF E
  <2> QED BY ONLY <2>2, <2>3
<1> HIDE DEF n, m, L, r, e, g, W, bs, fs, E, i, EntryAfter, ClosedAfter, LoopTaskAfter
<1>7. \A c \in 1..(n + 1) : c \in 1..n \/ c = n + 1
  <2>1. n \in Nat  BY ONLY <1>2
  <2> QED BY ONLY <2>1, SMT
<1>8. /\ \A f \in 1..(m + 1) : f \in 1..m \/ f = m + 1
      /\ \A f \in 1..m : f \in 1..(m + 1)
      /\ \A c \in 1..n : c \in 1..(n + 1) /\ c # n + 1 /\ c # 0
      /\ n + 1 \in 1..(n + 1) /\ n + 1 # 0
  <2>1. n \in Nat /\ m \in Nat  BY ONLY <1>2
  <2> QED BY ONLY <2>1, SMT
<1>9. /\ \A k \in 1..(L + 2) : k \in 1..(L - 1) \/ k = L \/ k = L + 1 \/ k = L + 2
      /\ \A k \in 1..L : k \in 1..(L - 1) \/ k = L
      /\ \A k \in 1..(L - 1) : k \in 1..L /\ k # L /\ k \in 1..(L + 2)
      /\ L + 1 \in 1..(L + 2) /\ L \in 1..L
  <2>1. L \in Nat \ {0}  BY ONLY <1>2
  <2> QED BY ONLY <2>1, SMT
<1>10. /\ FlowOK(blocks) /\ EdgesOK /\ EntriesPlain /\ OpenOK
       /\ LoopsOK /\ FnsOK /\ FinishedOK /\ NeedOK
  BY ONLY <1>1 DEF Flowing
<1>11. FlowOK(bs)
  <2>1. ASSUME NEW c \in 1..n PROVE Keeps(blocks[c], bs[c])
    <3>1. blocks[c].code \in Seq(InstructionSet(n)) /\ blocks[c] = bs[c]
      <4>1. blocks[c] \in BlockSet(n, m)  BY ONLY <1>2, c \in 1..n DEF n
      <4> QED BY ONLY <1>2, <4>1, c \in 1..n DEF BlockSet
    <3>2. blocks[c].code = bs[c].code /\ bs[c].code \in Seq(InstructionSet(n))
      BY ONLY <3>1
    <3> QED BY ONLY <3>2, SameCode
  <2>2. \A c \in 1..n : c # 0 /\ c \in 1..n  BY ONLY <1>8
  <2>3. ASSUME NEW c \in 1..(n + 1), c > n
        PROVE  EndsOnce(bs[c]) /\ PhisMatch(bs, c) /\ LeadsToPlain(blocks, bs, c, 0)
    <3>1. bs[c] = E
      <4>1. c = n + 1
        <5>1. n \in Nat  BY ONLY <1>2
        <5> QED BY ONLY <5>1, <2>3, c \in 1..(n + 1), SMT
      <4> QED BY ONLY <1>2, <4>1
    <3>2. \A j \in 1..Len(bs[c].code) : FALSE  BY ONLY <1>6, <3>1, SMT
    <3> QED BY ONLY <1>6, <3>1, <3>2 DEF PhisMatch, LeadsToPlain
  <2> DEFINE x == 0
  <2>4. \A c \in 1..Len(blocks) : KeepsFlow(blocks, bs, c, x)
    BY ONLY <2>1, <2>2 DEF n, KeepsFlow
  <2>5. \A c \in 1..Len(bs) : c > Len(blocks) =>
           EndsOnce(bs[c]) /\ PhisMatch(bs, c) /\ LeadsToPlain(blocks, bs, c, x)
    BY ONLY <1>2, <2>3 DEF n
  <2>6. Len(blocks) \in Nat /\ Len(bs) \in Nat /\ Len(blocks) <= Len(bs)
    <3>1. n \in Nat /\ Len(bs) = n + 1  BY ONLY <1>2
    <3>2. n \in Nat /\ Len(bs) \in Nat /\ n <= Len(bs)  BY ONLY <3>1, SMT
    <3> QED BY ONLY <3>2 DEF n
  <2> HIDE DEF x
  <2>7. FlowOK(blocks)  BY ONLY <1>10
  <2> QED BY ONLY <2>4, <2>5, <2>6, <2>7, FlowStep
<1>12. \A t : EntryAfter(t) => IsEntry(t) \/ t = n + 1
  <2>1. ASSUME NEW t, NEW f \in 1..(m + 1), fs[f].entry = t PROVE IsEntry(t) \/ t = n + 1
    BY ONLY <1>2, <1>8, <2>1, f \in 1..(m + 1) DEF IsEntry, m
  <2> QED BY ONLY <2>1 DEF EntryAfter
<1>13. EdgesOK'
  <2>1. ASSUME NEW b \in 1..n, NEW t \in Targets(bs[b])
        PROVE  t \in 1..(n + 1) /\ Belongs(bs, W, t, bs[b].fn) /\ ~EntryAfter(t)
    <3>1. t \in 1..n /\ Belongs(blocks, work, t, blocks[b].fn) /\ ~IsEntry(t)
      BY ONLY <1>2, <1>10, b \in 1..n, t \in Targets(bs[b]) DEF EdgesOK, n
    <3>2. OwedTo(work, t, blocks[b].fn) => OwedTo(W, t, blocks[b].fn)
      <4>1. ASSUME NEW k \in 1..L, work[k].fn = blocks[b].fn,
                   NEW j \in 1..Len(work[k].owe), work[k].owe[j] = t
            PROVE  OwedTo(W, t, blocks[b].fn)
        <5>1. k # L
          <6>1. Len(Top.owe) = 0 /\ Top = work[L]
            BY ONLY <1>2, <1>4, <1>5, Top.op \in {"program", "eval"}
          <6>2. Len(work[k].owe) # 0  BY ONLY j \in 1..Len(work[k].owe), SMT
          <6> QED BY ONLY <6>1, <6>2
        <5>2. k \in 1..(L - 1) /\ k \in 1..Len(W) /\ W[k] = work[k]
          BY ONLY <1>2, <1>9, <5>1, k \in 1..L
        <5> QED BY ONLY <4>1, <5>2 DEF OwedTo
      <4> QED BY ONLY <4>1 DEF OwedTo, L
    <3>3. t \in 1..(n + 1) /\ ~EntryAfter(t)  BY ONLY <1>8, <1>12, <3>1
    <3>4. bs[b] = blocks[b] /\ bs[t] = blocks[t]  BY ONLY <1>2, <3>1, b \in 1..n
    <3> QED BY ONLY <3>1, <3>2, <3>3, <3>4 DEF Belongs
  <2>2. ASSUME NEW b \in 1..(n + 1), NEW t \in Targets(bs[b])
        PROVE  t \in 1..(n + 1) /\ Belongs(bs, W, t, bs[b].fn) /\ ~EntryAfter(t)
    <3>1. b # n + 1  BY ONLY <1>2, <1>6, t \in Targets(bs[b])
    <3> QED BY ONLY <1>7, <2>1, <3>1, b \in 1..(n + 1), t \in Targets(bs[b])
  <2>3. /\ bs = blocks' /\ W = work' /\ Len(bs) = n + 1
        /\ fs = functions' /\ Len(fs) = m + 1
    BY ONLY <1>2 DEF bs, W, fs
  <2> QED BY ONLY <2>2, <2>3 DEF EdgesOK, IsEntry, EntryAfter
<1>14. EntriesPlain'
  <2>1. ASSUME NEW f \in 1..(m + 1) PROVE Plain(bs[fs[f].entry])
    <3>1. CASE f \in 1..m  BY ONLY <1>2, <1>10, <3>1 DEF EntriesPlain, m
    <3>2. CASE f = m + 1  BY ONLY <1>2, <1>6, <3>2
    <3> QED BY ONLY <1>8, <3>1, <3>2, f \in 1..(m + 1)
  <2>2. bs = blocks' /\ fs = functions' /\ Len(fs) = m + 1
    BY ONLY <1>2 DEF bs, fs
  <2> QED BY ONLY <2>1, <2>2 DEF EntriesPlain
<1>15. OpenOK'
  <2>1. ASSUME NEW b \in 1..n, bs[b].fn # NoParent
        PROVE  HasTerminator(bs[b]) \/ \E k \in 1..(L + 2) : /\ W[k].op = "function_end"
                                                             /\ W[k].arg.saved = b
    <3>1. HasTerminator(blocks[b]) \/ b = insert \/ IsSaved(b)
      BY ONLY <1>2, <1>10, <2>1, b \in 1..n DEF OpenOK, n
    <3>2. ASSUME IsSaved(b)
          PROVE  \E k \in 1..(L + 2) : W[k].op = "function_end" /\ W[k].arg.saved = b
      <4>1. PICK k \in 1..L : work[k].op = "function_end" /\ work[k].arg.saved = b
        BY ONLY <3>2 DEF IsSaved, L
      <4>2. k # L  BY ONLY <1>2, <4>1, Top.op \in {"program", "eval"}
      <4>3. k \in 1..(L - 1) /\ k \in 1..(L + 2)  BY ONLY <1>9, <4>2, k \in 1..L
      <4> QED BY ONLY <1>2, <4>1, <4>3
    <3>3. b = insert => \E k \in 1..(L + 2) : W[k].op = "function_end" /\ W[k].arg.saved = b
      BY ONLY <1>2, <1>9
    <3> QED BY ONLY <1>2, <3>1, <3>2, <3>3, b \in 1..n
  <2>2. bs = blocks' /\ W = work' /\ i = insert' /\ Len(bs) = n + 1 /\ Len(W) = L + 2
    BY ONLY <1>2 DEF bs, W, i
  <2> QED
    <3>1. bs[n + 1].fn # NoParent => n + 1 = insert'  BY ONLY <1>2, <2>2
    <3>2. ASSUME NEW b \in 1..(n + 1), bs[b].fn # NoParent
          PROVE  HasTerminator(bs[b]) \/ b = insert' \/ \E k \in 1..(L + 2) :
                   /\ W[k].op = "function_end" /\ W[k].arg.saved = b
      BY ONLY <1>7, <2>1, <3>1, <3>2, b \in 1..(n + 1)
    <3> QED BY ONLY <2>2, <3>2 DEF OpenOK, IsSaved
<1>16. LoopsOK'
  <2>1. ASSUME NEW k \in 1..(L - 1) PROVE LoopTaskAfter(W[k])
    <3>1. LoopTaskOK(blocks, work[k]) /\ TaskOK(work[k], n, m)
      BY ONLY <1>2, <1>9, <1>10, k \in 1..(L - 1) DEF LoopsOK, L
    <3>2. work[k].op \in LoopOps => work[k].arg.cond \in 1..n
      BY ONLY <3>1 DEF TaskOK, TaskArgOK, LoopOps
    <3>3. W[k] = work[k]  BY ONLY <1>2, k \in 1..(L - 1)
    <3>4. \A c \in 1..n : ~IsEntry(c) => ~EntryAfter(c)  BY ONLY <1>8, <1>12
    <3> DEFINE t == W[k]
    <3>5. t.op \in LoopOps => /\ t.arg.cond \in 1..n
                              /\ bs[t.arg.cond] = blocks[t.arg.cond]
                              /\ ~IsEntry(t.arg.cond) => ~EntryAfter(t.arg.cond)
      BY ONLY <1>2, <3>2, <3>3, <3>4
    <3>6. LoopTaskOK(blocks, t)  BY ONLY <3>1, <3>3
    <3> HIDE DEF t
    <3>7. LoopTaskAfter(t)
      BY ONLY <3>5, <3>6 DEF LoopTaskOK, LoopOps, LoopTaskAfter
    <3> QED BY ONLY <3>7 DEF t
  <2>2. ASSUME NEW t, t = r \/ t = e \/ t = g PROVE t.op \notin LoopOps
    BY ONLY <1>2, <2>2, Top.op \in {"program", "eval"} DEF LoopOps
  <2>3. ASSUME NEW k \in 1..(L + 2) PROVE LoopTaskAfter(W[k])
    <3>1. CASE k \in 1..(L - 1)  BY ONLY <2>1, <3>1
    <3>2. CASE k \notin 1..(L - 1)
      <4>1. W[k].op \notin LoopOps
        <5>1. W[k] = r \/ W[k] = e \/ W[k] = g
          BY ONLY <1>2, <1>9, <3>2, k \in 1..(L + 2)
        <5> QED BY ONLY <2>2, <5>1
      <4> QED BY ONLY <4>1 DEF LoopOps, LoopTaskAfter
    <3> QED BY ONLY <3>1, <3>2
  <2>4. /\ bs = blocks' /\ W = work' /\ Len(W) = L + 2
        /\ fs = functions' /\ Len(fs) = m + 1
    BY ONLY <1>2 DEF bs, W, fs
  <2>5. \A k \in 1..Len(W) : LoopTaskAfter(W[k])  BY ONLY <2>3, <2>4
  <2> QED BY ONLY <2>4, <2>5 DEF LoopsOK, LoopTaskOK, IsEntry, EntryAfter, LoopTaskAfter
<1>17. FnsOK'
  <2>1. FnsOK  BY ONLY <1>10
  <2>2. \A k \in 1..L : work[k].fn \in Nat /\ work[k].fn <= m /\ work[k].fn < m + 1
    <3>1. \A k \in 1..L : work[k].fn \in 0..m  BY ONLY <1>2 DEF TaskOK
    <3>2. m \in Nat  BY ONLY <1>2
    <3> QED BY ONLY <3>1, <3>2, SMT
  <2>3. r.op # "function_end" /\ r.op # "gen" /\ (r.op = "program" => r.fn = 0)
    BY ONLY <1>2, <1>9, <2>1, Top.op \in {"program", "eval"}
       DEF FnsOK, L
  <2>4. ASSUME NEW k \in 1..(L + 2), W[k].op = "program" PROVE W[k].fn = 0
    BY ONLY <1>2, <1>9, <2>1, <2>3, <2>4, k \in 1..(L + 2), Zenon DEF FnsOK, L
  \* The function of the k-th task, and that of the task that has its place in work.
  <2>5. \A k \in 1..L : W[k].fn = work[k].fn /\ (W[k].op = work[k].op)
    BY ONLY <1>2, <1>9
  <2>6. ASSUME NEW j \in 1..(L + 2), NEW k \in 1..(L + 2), j < k
        PROVE  W[j].fn <= W[k].fn /\ (W[k].op = "function_end" => W[j].fn < W[k].fn)
    <3>1. /\ j \in 1..L \/ j = L + 1
          /\ k \in 1..L \/ k = L + 1 \/ k = L + 2
          /\ k \in 1..L => j \in 1..L
          /\ k = L + 1 => j \in 1..L
      <4>1. L \in Nat \ {0}  BY ONLY <1>2
      <4> QED BY ONLY <4>1, <2>6, SMT
    <3>2. CASE k \in 1..L  BY ONLY <2>1, <2>5, <2>6, <3>1, <3>2 DEF FnsOK, L
    <3>3. CASE k \notin 1..L /\ j \in 1..L
      <4>1. W[k].fn = m + 1  BY ONLY <1>2, <3>1, <3>3
      <4>2. /\ W[j].fn \in Nat /\ W[j].fn < m + 1 /\ m \in Nat
        BY ONLY <1>2, <2>2, <2>5, <3>3
      <4> QED BY ONLY <4>1, <4>2, SMT
    <3>4. CASE k = L + 2 /\ j = L + 1
      <4>1. W[k].fn = m + 1 /\ W[j].fn = m + 1 /\ W[k].op # "function_end" /\ m \in Nat
        BY ONLY <1>2, <3>4
      <4> QED BY ONLY <4>1, SMT
    <3> QED
      <4>1. L + 1 # L + 2 /\ ~(L + 1 < L + 1)  BY ONLY <1>2, SMT
      <4> QED BY ONLY <2>6, <3>1, <3>2, <3>3, <3>4, <4>1
  <2>7. W = work' /\ Len(W) = L + 2  BY ONLY <1>2 DEF W
  <2> QED BY ONLY <2>4, <2>6, <2>7 DEF FnsOK
\* A block that was closed is closed.
<1>18. \A b : (b = NoBlock \/ b \in 1..n) /\ Closed(b) => ClosedAfter(b)
  BY ONLY <1>2 DEF Closed, ClosedAfter
<1>19. \A k \in 1..L : work[k].op = "function_end" =>
         work[k].arg.saved = NoBlock \/ work[k].arg.saved \in 1..n
  <2>1. ASSUME NEW k \in 1..L, work[k].op = "function_end"
        PROVE  work[k].arg.saved \in 0..n
    <3>1. TaskOK(work[k], n, m)  BY ONLY <1>2, k \in 1..L
    <3> QED BY ONLY <2>1, <3>1 DEF TaskOK, TaskArgOK
  <2>2. n \in Nat  BY ONLY <1>2
  <2> QED BY ONLY <2>1, <2>2, SMT DEF NoBlock
<1>20. FinishedOK'
  <2>1. W = work' /\ bs = blocks' /\ Len(W) = L + 2 /\ L \in Nat \ {0}
    BY ONLY <1>2 DEF W, bs
  <2>2. Len(W) # 1  BY ONLY <2>1, SMT
  <2>3. ASSUME W[2].op = "function_end" PROVE ClosedAfter(W[2].arg.saved)
    <3>1. CASE L = 1
      <4>1. W[2] = e
        <5>1. W[L + 1] = e /\ L + 1 = 2  BY ONLY <1>2, <3>1, SMT
        <5> QED BY ONLY <5>1
      <4>2. Closed(insert)  BY ONLY <1>10, <3>1 DEF FinishedOK, L
      <4>3. insert = NoBlock \/ insert \in 1..n
        <5>1. insert \in 0..n /\ n \in Nat  BY IInv DEF IInv, TypeOK, n
        <5> QED BY ONLY <5>1, SMT DEF NoBlock
      <4> DEFINE s == W[2].arg.saved
      <4>4. s = insert  BY ONLY <1>2, <4>1
      <4> HIDE DEF s
      <4>5. (s = NoBlock \/ s \in 1..n) /\ Closed(s)  BY ONLY <4>2, <4>3, <4>4
      <4>6. ClosedAfter(s)  BY ONLY <1>18, <4>5
      <4> QED BY ONLY <4>6 DEF s
    <3>2. CASE L # 1
      <4>1. Len(work) > 1 /\ 2 \in 1..L  BY ONLY <2>1, <3>2, SMT DEF L
      <4>2. work[2].op = "function_end" => Closed(work[2].arg.saved)
        BY ONLY <1>10, <4>1 DEF FinishedOK
      <4>3. L # 2  BY ONLY <1>2, <2>3, Top.op \in {"program", "eval"}
      <4>4. 2 \in 1..(L - 1)  BY ONLY <1>9, <4>1, <4>3
      <4>5. W[2] = work[2]  BY ONLY <1>2, <4>4
      <4>6. LET s == W[2].arg.saved IN (s = NoBlock \/ s \in 1..n) /\ Closed(s)
        BY ONLY <1>19, <2>3, <4>1, <4>2, <4>5
      <4> DEFINE s == W[2].arg.saved
      <4>7. (s = NoBlock \/ s \in 1..n) /\ Closed(s)  BY ONLY <4>6
      <4> HIDE DEF s
      <4>8. ClosedAfter(s)  BY ONLY <1>18, <4>7
      <4> QED BY ONLY <4>8 DEF s
    <3> QED BY ONLY <3>1, <3>2
  <2> QED BY ONLY <2>1, <2>2, <2>3 DEF FinishedOK, Closed, ClosedAfter
<1>21. NeedOK'
  <2>1. ASSUME NEW k \in 1..(L - 1), ComesBack(blocks, work[k + 1]), k + 1 \in 1..L
        PROVE  ComesBack(bs, work[k + 1])
    <3> DEFINE t == work[k + 1]
               s == t.arg.saved
    <3>1. t.op = "function_end" /\ s # NoBlock /\ ~HasTerminator(blocks[s])
      BY ONLY <2>1 DEF ComesBack
    <3>2. s \in 1..n  BY ONLY <1>19, <2>1, <3>1
    <3>3. bs[s] = blocks[s]  BY ONLY <1>2, <3>2
    <3> QED BY ONLY <3>1, <3>3 DEF ComesBack
  <2>2. \A k \in 1..(L - 1) :
          /\ work[k].op # "gen"
          /\ work[k].op \in NeedOps => LeavesOpen(work[k + 1]) \/ ComesBack(blocks, work[k + 1])
    BY ONLY <1>10 DEF NeedOK, L
  <2>3. /\ \A k \in 1..(L - 1) : k + 1 \in 1..L /\ (k + 1 \in 1..(L - 1) \/ k + 1 = L)
        /\ \A k \in 1..(L + 1) : k \in 1..(L - 1) \/ k = L \/ k = L + 1
    <3>1. L \in Nat \ {0}  BY ONLY <1>2
    <3> QED BY ONLY <3>1, SMT
  <2>4. ASSUME NEW k \in 1..(L - 1)
        PROVE  /\ W[k].op # "gen"
               /\ W[k].op \in NeedOps => LeavesOpen(W[k + 1]) \/ ComesBack(bs, W[k + 1])
    <3>1. /\ work[k].op # "gen"
          /\ work[k].op \in NeedOps => LeavesOpen(work[k + 1]) \/ ComesBack(bs, work[k + 1])
      BY ONLY <2>1, <2>2, <2>3, k \in 1..(L - 1)
    <3>2. W[k] = work[k]  BY ONLY <1>2, k \in 1..(L - 1)
    <3>3. CASE k + 1 \in 1..(L - 1)
      <4>1. W[k + 1] = work[k + 1]  BY ONLY <1>2, <3>3
      <4> QED BY ONLY <3>1, <3>2, <4>1
    <3>4. CASE k + 1 = L
      <4>1. work[k + 1] = Top /\ W[k + 1] = r  BY ONLY <1>2, <3>4
      <4>2. ~ComesBack(bs, Top) /\ (LeavesOpen(Top) => LeavesOpen(r))
        BY ONLY <1>2, Top.op \in {"program", "eval"} DEF ComesBack, LeavesOpen
      <4> QED BY ONLY <3>1, <3>2, <4>1, <4>2
    <3> QED BY ONLY <2>3, <3>3, <3>4, k \in 1..(L - 1)
  <2>5. /\ r.op # "gen"
        /\ r.op \in NeedOps => LeavesOpen(e) \/ ComesBack(bs, e)
    <3>1. r.op # "gen" /\ (r.op \in NeedOps => Top.op = "eval")
      BY ONLY <1>2, Top.op \in {"program", "eval"} DEF NeedOps
    <3>2. ASSUME Top.op = "eval" PROVE ComesBack(bs, e)
      <4>1. insert \in 1..n /\ insert # NoBlock
        BY ONLY <1>4, <1>8, <3>2 DEF NoBlock
      <4>2. IsOpen
        <5>1. L > 0 /\ work[L].op \in NeedOps
          <6>1. L \in Nat \ {0} /\ work[L].op = "eval"  BY ONLY <1>2, <3>2
          <6> QED BY ONLY <6>1, SMT DEF NeedOps
        <5> QED BY ONLY <1>10, <5>1 DEF NeedOK, L
      <4>3. bs[insert] = blocks[insert]  BY ONLY <1>2, <4>1
      <4> QED BY ONLY <1>2, <4>1, <4>2, <4>3 DEF ComesBack, IsOpen
    <3> QED BY ONLY <3>1, <3>2
  <2>6. e.op # "gen" /\ e.op \notin NeedOps /\ g.op \notin NeedOps
    BY ONLY <1>2 DEF NeedOps
  <2>7. ASSUME NEW k \in 1..(L + 1)
        PROVE  /\ W[k].op # "gen"
               /\ W[k].op \in NeedOps => LeavesOpen(W[k + 1]) \/ ComesBack(bs, W[k + 1])
    <3>1. W[L] = r /\ W[L + 1] = e  BY ONLY <1>2
    <3>2. CASE k = L  BY ONLY <2>5, <3>1, <3>2
    <3>3. CASE k = L + 1  BY ONLY <2>6, <3>1, <3>3
    <3> QED BY ONLY <2>3, <2>4, <3>2, <3>3, k \in 1..(L + 1)
  <2>8. Len(W) = L + 2 /\ Len(W) - 1 = L + 1
    <3>1. Len(W) = L + 2 /\ L \in Nat  BY ONLY <1>2
    <3> QED BY ONLY <3>1, SMT
  <2>9. W[Len(W)] = g /\ W[Len(W) - 1] = e  BY ONLY <1>2, <2>8
  <2>10. bs = blocks' /\ W = work'  BY DEF bs, W
  <2> QED BY ONLY <2>6, <2>7, <2>8, <2>9, <2>10 DEF NeedOK, LeavesOpen, ComesBack
<1>22. GeneratedIRIsValid'  BY ONLY <1>2 DEF GeneratedIRIsValid
<1>23. FlowOK(blocks')  BY ONLY <1>11 DEF bs
<1> QED BY ONLY <1>13, <1>14, <1>15, <1>16, <1>17, <1>20, <1>21, <1>22, <1>23 DEF VInv, Flowing

\* The visitor enters a function of the program.
LEMMA GenerateProgramFlow ==
  ASSUME IInv, VInv, GenerateProgram
  PROVE  VInv'
<1> DEFINE r    == ProgramLoop(Top.arg.defs, Top.arg.next + 1)
           kind == Top.arg.defs[Top.arg.next].kind
           body == Top.arg.defs[Top.arg.next].body
<1>1. /\ status = "generating" /\ work # <<>> /\ Top.op = "program"
      /\ EnterFunction(kind, body)
      /\ work' = Front(work) \o (<<r>> \o FunctionTasks(kind, body))
  BY Zenon DEF GenerateProgram, Doing, Then
<1>2. Top.fn = 0
  <2>1. FnsOK /\ Len(work) \in 1..Len(work) /\ Top = work[Len(work)]
    <3>1. FnsOK /\ TypeOK  BY <1>1, Zenon DEF VInv, Flowing, IInv
    <3>2. work \in Seq(Range(work)) /\ work # <<>>
      BY ONLY <1>1, <3>1, Zenon DEF TypeOK
    <3>3. Len(work) \in 1..Len(work)  BY ONLY <3>2, EmptySeq, SMT
    <3> QED BY ONLY <3>1, <3>3 DEF Top, Last
  <2> QED BY ONLY <1>1, <2>1, Zenon DEF FnsOK
<1>3. r.op = Top.op /\ r.fn = Top.fn  BY <1>1, <1>2, Zenon DEF ProgramLoop, Task
<1> HIDE DEF r, kind, body
<1> QED BY ONLY IInv, VInv, <1>1, <1>3, EnterFunctionFlow

\* The visitor enters a lambda in an expression.
LEMMA GenerateLambdaFlow ==
  ASSUME IInv, VInv, GenerateLambda
  PROVE  VInv'
<1> DEFINE lambda == Head(Top.arg)
           kind   == IF lambda.void THEN "void" ELSE "nonvoid"
           body   == lambda.body
           r      == Eval(Top.fn, Tail(Top.arg))
<1>1. /\ status = "generating" /\ work # <<>> /\ Top.op = "eval"
      /\ EnterFunction(kind, body)
      /\ work' = Front(work) \o (<<r>> \o FunctionTasks(kind, body))
  BY DEF GenerateLambda, Expecting, Doing, Then, RestOfExpression
<1>2. r.op = Top.op /\ r.fn = Top.fn  BY <1>1 DEF Eval, Task
<1> HIDE DEF r, kind, body
<1> QED BY ONLY IInv, VInv, <1>1, <1>2, EnterFunctionFlow

\* The program ends, and all its functions pass the verification once more.
LEMMA EndProgramFlow ==
  ASSUME IInv, VInv, EndProgram
  PROVE  VInv'
<1>1. /\ status = "generating" /\ work # <<>> /\ Top.op = "program"
      /\ status' = IF \A f \in 1..Len(functions) : VerifyFunction(blocks, f)
                   THEN "done" ELSE "invalid"
  BY DEF EndProgram, Doing
<1>2. FlowOK(blocks) /\ EdgesOK /\ OpenOK /\ FinishedOK /\ TypeOK /\ CallStackOK
  BY <1>1 DEF VInv, Flowing, IInv
<1>3. Len(work) \in 1..Len(work) /\ Top = work[Len(work)] /\ Len(work) \in Nat
  BY <1>1, <1>2, EmptySeq, SMT DEF TypeOK, Top, Last
<1>4. Len(work) = 1 /\ Top = work[1]  BY ONLY <1>1, <1>2, <1>3 DEF CallStackOK
<1>5. Len(Top.owe) = 0
  <2>1. TaskOK(Top, Len(blocks), Len(functions))  BY ONLY <1>2, <1>3 DEF TypeOK
  <2> QED BY ONLY <1>1, <2>1 DEF TaskOK, Owing
<1>6. Len(blocks) \in Nat  BY ONLY <1>2 DEF TypeOK
<1>7. \A k \in 1..Len(work) : work[k] = Top  BY ONLY <1>4, SMT
\* Every block of a function has its terminator.
<1>8. ASSUME NEW b \in 1..Len(blocks), blocks[b].fn # NoParent PROVE HasTerminator(blocks[b])
  <2>1. HasTerminator(blocks[b]) \/ b = insert \/ IsSaved(b)
    BY ONLY <1>2, <1>8, b \in 1..Len(blocks) DEF OpenOK
  <2>2. ~IsSaved(b)  BY ONLY <1>1, <1>7 DEF IsSaved
  <2>3. b # NoBlock  BY ONLY <1>6, b \in 1..Len(blocks), SMT DEF NoBlock
  <2>4. Closed(insert)  BY ONLY <1>2, <1>4 DEF FinishedOK
  <2> QED BY ONLY <2>1, <2>2, <2>3, <2>4 DEF Closed
<1>9. \A t, f : ~OwedTo(work, t, f)
  <2>1. \A i \in 1..Len(Top.owe) : FALSE  BY ONLY <1>5, SMT
  <2> QED BY ONLY <1>7, <2>1 DEF OwedTo
<1>10. ASSUME NEW f \in 1..Len(functions) PROVE VerifyFunction(blocks, f)
  <2>1. f # NoParent
    <3>1. Len(functions) \in Nat  BY ONLY <1>2 DEF TypeOK
    <3> QED BY ONLY <3>1, f \in 1..Len(functions), SMT DEF NoParent
  <2>2. ASSUME NEW b \in BlocksOf(blocks, f)
        PROVE  Terminated(blocks[b]) /\ TargetsInFunction(blocks, b) /\ PhisMatch(blocks, b)
    <3>1. b \in 1..Len(blocks) /\ blocks[b].fn = f
      BY ONLY b \in BlocksOf(blocks, f) DEF BlocksOf
    <3>2. HasTerminator(blocks[b])  BY ONLY <1>8, <2>1, <3>1
    <3>3. Terminated(blocks[b]) /\ PhisMatch(blocks, b)
      BY ONLY <1>2, <3>1, <3>2 DEF Terminated, FlowOK, EndsOnce
    <3>4. TargetsInFunction(blocks, b)
      BY ONLY <1>2, <1>9, <3>1 DEF EdgesOK, Belongs, TargetsInFunction
    <3> QED BY ONLY <3>3, <3>4
  <2>3. Predecessors(blocks, functions[f].entry) = {}
    <3>1. IsEntry(functions[f].entry)
      BY ONLY f \in 1..Len(functions) DEF IsEntry
    <3> QED BY ONLY <1>2, <3>1 DEF EdgesOK, Predecessors
  <2> QED BY ONLY <2>2, <2>3 DEF VerifyFunction
<1>11. status' = "done"  BY ONLY <1>1, <1>10
<1> QED BY ONLY <1>11 DEF VInv, GeneratedIRIsValid

-----------------------------------------------------------------------------
(* The invariant is inductive.                                             *)

\* Before anything is generated there are no blocks and no functions.
LEMMA InitVInv == Init => VInv
<1> SUFFICES ASSUME Init PROVE VInv
  OBVIOUS
<1>1. /\ blocks = <<>> /\ functions = <<>> /\ insert = NoBlock /\ status = "generating"
  BY DEF Init
<1>2. PICK t : work = <<t>> /\ t.op = "program" /\ t.fn = 0
  BY DEF Init, ProgramLoop, Task
<1>3. Len(work) = 1 /\ \A k \in 1..Len(work) : work[k] = t /\ k = 1
  BY ONLY <1>2, SMT
<1>4. /\ \A b \in 1..Len(blocks) : FALSE
      /\ \A f \in 1..Len(functions) : FALSE
  BY ONLY <1>1, EmptySeq, SMT
<1>5. FlowOK(blocks) /\ EdgesOK /\ EntriesPlain /\ OpenOK
  BY ONLY <1>4 DEF FlowOK, EdgesOK, EntriesPlain, OpenOK
<1>6. LoopsOK  BY ONLY <1>2, <1>3 DEF LoopsOK, LoopTaskOK
<1>7. FnsOK  BY ONLY <1>2, <1>3, SMT DEF FnsOK
<1>8. FinishedOK  BY ONLY <1>1, <1>3, SMT DEF FinishedOK, Closed
<1>9. NeedOK
  <2>1. (\A k \in 1..(Len(work) - 1) : FALSE) /\ ~(Len(work) > 1) /\ work[Len(work)] = t
    BY ONLY <1>2, <1>3, SMT
  <2> QED BY ONLY <1>2, <2>1 DEF NeedOK, NeedOps
<1> QED BY ONLY <1>1, <1>5, <1>6, <1>7, <1>8, <1>9 DEF VInv, Flowing, GeneratedIRIsValid

\* The invariant survives when nothing changes.
LEMMA StutterVInv ==
  ASSUME VInv, UNCHANGED vars
  PROVE  VInv'
<1>1. blocks' = blocks /\ functions' = functions /\ insert' = insert /\ work' = work
      /\ status' = status
  BY DEF vars
<1>2. FlowOK(blocks)' <=> FlowOK(blocks)  BY ONLY <1>1
<1>3. (EdgesOK' <=> EdgesOK) /\ (EntriesPlain' <=> EntriesPlain) /\ (OpenOK' <=> OpenOK)
  BY ONLY <1>1 DEF EdgesOK, EntriesPlain, OpenOK, IsEntry, IsSaved
<1>4. (LoopsOK' <=> LoopsOK) /\ (FnsOK' <=> FnsOK)
  BY ONLY <1>1 DEF LoopsOK, LoopTaskOK, FnsOK, IsEntry
<1>5. (FinishedOK' <=> FinishedOK) /\ (NeedOK' <=> NeedOK)
  BY ONLY <1>1 DEF FinishedOK, NeedOK, Closed, IsOpen
<1> QED BY <1>1, <1>2, <1>3, <1>4, <1>5 DEF VInv, Flowing, GeneratedIRIsValid

\* The invariant survives every step: with that of the code generation, it is inductive.
LEMMA NextVInv == IInv /\ IInv' /\ VInv /\ [Next]_vars => VInv'
<1> SUFFICES ASSUME IInv, IInv', VInv, [Next]_vars PROVE VInv'
  OBVIOUS
<1>1. CASE GenerateProgram \/ EndProgram \/ EndFunction
  BY <1>1, GenerateProgramFlow, EndProgramFlow, EndFunctionFlow
<1>2. CASE SkipDeadStatement \/ GenerateLeaf \/ EndExpression \/ EndDeclaration
  BY <1>2, SkipDeadStatementFlow, GenerateLeafFlow, EndExpressionFlow, EndDeclarationFlow
<1>3. CASE EndDealloc \/ EndReturn \/ GenerateCodeBlock \/ GenerateBlockChild
  BY <1>3, EndDeallocFlow, EndReturnFlow, GenerateCodeBlockFlow, GenerateBlockChildFlow
<1>4. CASE GenerateIf \/ IfCondition \/ EndThen \/ EndElse
  BY <1>4, GenerateIfFlow, IfConditionFlow, EndThenFlow, EndElseFlow
<1>5. CASE GenerateWhile \/ GenerateFor \/ ForInitialized \/ LoopCondition
  BY <1>5, GenerateWhileFlow, GenerateForFlow, ForInitializedFlow, LoopConditionFlow
<1>6. CASE EndBody \/ EndLoop \/ EndExpressionCode \/ GenerateAct
  BY <1>6, EndBodyFlow, EndLoopFlow, EndExpressionCodeFlow, GenerateActFlow
<1>7. CASE GenerateCheck \/ GenerateGCD \/ GenerateLambda \/ GeneratePrint
  BY <1>7, GenerateCheckFlow, GenerateGCDFlow, GenerateLambdaFlow, GeneratePrintFlow
<1>8. CASE PrintOperand \/ PrintBaseTypeValue \/ PrintArray \/ EndPrintMain \/ EndPrintLast
  BY <1>8, PrintOperandFlow, PrintBaseTypeValueFlow, PrintArrayFlow, EndPrintMainFlow,
     EndPrintLastFlow
<1>9. CASE Finished \/ UNCHANGED vars  BY <1>9, StutterVInv DEF Finished
<1> QED BY <1>1, <1>2, <1>3, <1>4, <1>5, <1>6, <1>7, <1>8, <1>9 DEF Next, Generate

\* LLVM's verification accepts every function and the module, whatever the
\* program: no block lacks a terminator, no branch leaves its function, no
\* entry block is a target, and PHI nodes match the predecessors of their blocks.
THEOREM IRIsValid == Spec => []GeneratedIRIsValid
<1>1. VInv => GeneratedIRIsValid  BY DEF VInv
<1>2. Spec => []VInv  BY InitVInv, NextVInv, Invariance, PTL DEF Spec
<1> QED BY <1>1, <1>2, PTL
=============================================================================
