----------------------------- MODULE Signatures -----------------------------
(***************************************************************************)
(* Types, and the signatures of the operators.  Two types are equivalent   *)
(* when they are equal, with one exception: an arbitrary type in a         *)
(* signature is equivalent to the first type it is compared with, and from *)
(* then on to that type only, until it is reset.  The signatures are       *)
(* shared by all operator nodes, so what they are bound to is state:       *)
(* bindings maps every arbitrary type to a type or to Null.                *)
(***************************************************************************)
EXTENDS Naturals, Sequences, SequencesExt

Base(b)         == [base |-> b]
ArrayOf(t)      == [array |-> t]
LambdaOf(ps, t) == [parameters |-> ps, result |-> t]
Arbitrary(v)    == [arbitrary |-> v]

\* What GetType returns of a node whose type was never set.
Null == [null |-> "null"]

VoidType      == Base("void")
BooleanType   == Base("bool")
CharacterType == Base("char")
IntegerType   == Base("int")
FloatType     == Base("float")
RationalType  == Base("rat")
StringType    == Base("string")
ErrorType     == Base("error")

IsArray(t)     == "array" \in DOMAIN t
IsLambda(t)    == "result" \in DOMAIN t
IsArbitrary(t) == "arbitrary" \in DOMAIN t
Subtype(t)     == IF IsArray(t) THEN t.array ELSE Null

-----------------------------------------------------------------------------
(* The arbitrary types: the array type [T] is a copy, so its subtype is    *)
(* another arbitrary type than the T of the assignment, and one for both   *)
(* operators on arrays.                                                    *)

T == Arbitrary("T")
E == Arbitrary("E")
Unbound == [v \in {"T", "E"} |-> Null]

Signature(inputs, output) == [inputs |-> inputs, output |-> output]

Unary(types)      == [i \in 1..Len(types) |-> Signature(<<types[i]>>, types[i])]
Binary(types)     == [i \in 1..Len(types) |-> Signature(<<types[i], types[i]>>, types[i])]
Comparison(types) == [i \in 1..Len(types) |-> Signature(<<types[i], types[i]>>, BooleanType)]

Operators == {"=", "+", "-", "*", "/", "%", "//", "==", "!=", ">", "<", ">=", "<=",
              "!", "&&", "||", "[]", "sizeof"}

signature_map ==
  LET numbers == <<IntegerType, FloatType, RationalType>>
      ordered == <<CharacterType>> \o numbers
      Of(op) ==
        CASE op = "="                     -> <<Signature(<<T, T>>, VoidType)>>
          [] op \in {"+", "-"}            -> Unary(numbers) \o Binary(numbers)
          [] op \in {"*", "/"}            -> Binary(numbers)
          [] op = "%"                     -> Binary(<<IntegerType>>)
          [] op = "//"                    -> <<Signature(<<IntegerType, IntegerType>>, RationalType)>>
          [] op \in {"==", "!="}          -> Comparison(<<BooleanType>> \o ordered)
          [] op \in {">", "<", ">=", "<="} -> Comparison(ordered)
          [] op = "!"                     -> Unary(<<BooleanType>>)
          [] op \in {"&&", "||"}          -> Binary(<<BooleanType>>)
          [] op = "[]"                    -> <<Signature(<<ArrayOf(E), IntegerType>>, E)>>
          [] op = "sizeof"                -> <<Signature(<<ArrayOf(E)>>, IntegerType)>>
  IN  [op \in Operators |-> Of(op)]

-----------------------------------------------------------------------------
\* IsEquivalentTo of an input, for a type that has no arbitrary types in it.
EquivalentTo(input, type, bindings) ==
  LET Outcome(yes, b) == [accepts |-> yes, bindings |-> b]
      Variable(v, t) == IF bindings[v] = Null THEN Outcome(TRUE, [bindings EXCEPT ![v] = t])
                        ELSE Outcome(bindings[v] = t, bindings)
  IN  IF IsArbitrary(input) THEN Variable(input.arbitrary, type)
      ELSE IF IsArray(input) /\ IsArbitrary(Subtype(input)) /\ IsArray(type)
      THEN Variable(input.array.arbitrary, type.array)
      ELSE Outcome(input = type, bindings)

\* The arbitrary types of a signature; an output's is that of an input.
Variables(signature) ==
  {v \in {"T", "E"} : \E i \in 1..Len(signature.inputs) :
                        signature.inputs[i] \in {Arbitrary(v), ArrayOf(Arbitrary(v))}}

\* Mutant: what the signature was bound to stays.
KeepArbitraryTypes(signature, bindings) == bindings

ResetArbitraryTypes(signature, bindings) ==
  [v \in {"T", "E"} |-> IF v \in Variables(signature) THEN Null ELSE bindings[v]]

Accepts(signature, types, bindings) ==
  LET reset == ResetArbitraryTypes(signature, bindings)
      Try[n \in 0..Len(signature.inputs)] ==
        IF n = 0 THEN [accepts |-> TRUE, bindings |-> reset]
        ELSE LET r == Try[n - 1]
             IN  IF r.accepts THEN EquivalentTo(signature.inputs[n], types[n], r.bindings) ELSE r
  IN  IF Len(types) # Len(signature.inputs) THEN [accepts |-> FALSE, bindings |-> reset]
      ELSE Try[Len(signature.inputs)]

\* The type of the signature's value, which for an arbitrary type is its binding.
OutputType(signature, bindings) ==
  IF IsArbitrary(signature.output) THEN bindings[signature.output.arbitrary]
  ELSE signature.output

\* The first signature that accepts the types: the type of its value, or Null when
\* there is none, and the bindings that the search leaves.
AcceptingSignature(op, types, bindings) ==
  LET signatures == signature_map[op]
      Search[n \in 0..Len(signatures)] ==
        IF n = 0 THEN [type |-> Null, bindings |-> bindings]
        ELSE LET r   == Search[n - 1]
                 try == Accepts(signatures[n], types, r.bindings)
             IN  IF r.type # Null THEN r
                 ELSE [type     |-> IF try.accepts THEN OutputType(signatures[n], try.bindings)
                                    ELSE Null,
                       bindings |-> try.bindings]
  IN  Search[Len(signatures)]
=============================================================================
