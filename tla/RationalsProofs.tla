-------------------------- MODULE RationalsProofs ---------------------------
(***************************************************************************)
(* The rational numbers of a compiled program, for integers of any width.  *)
(***************************************************************************)
EXTENDS Rationals, WellFoundedInduction, TLAPS

-----------------------------------------------------------------------------
(* Integers of the machine.                                                *)

\* Division with a remainder, by a positive number.
LEMMA Division ==
  ASSUME NEW a \in Int, NEW b \in Nat \ {0}
  PROVE  /\ a \div b \in Int
         /\ a % b \in 0 .. b - 1
         /\ a = b * (a \div b) + (a % b)
  OBVIOUS

\* A number that is in range is its own remainder, and so is its remainder
\* after a multiple of the divisor.
LEMMA SmallRemainder ==
  ASSUME NEW b \in Nat \ {0}, NEW a \in 0 .. b - 1
  PROVE  a % b = a
<1>1. a \div b \in Int /\ a = b * (a \div b) + (a % b) /\ a % b \in 0 .. b - 1
  BY Division
<1>2. a \div b = 0
  <2>1. ~(a \div b >= 1)
    <3>1. SUFFICES ASSUME a \div b >= 1 PROVE FALSE
      OBVIOUS
    <3>2. b * (a \div b) >= b
      BY <1>1, <3>1
    <3> QED BY <1>1, <3>2
  <2>2. ~(a \div b <= -1)
    <3>1. SUFFICES ASSUME a \div b <= -1 PROVE FALSE
      OBVIOUS
    <3>2. b * (a \div b) <= -b
      BY <1>1, <3>1
    <3> QED BY <1>1, <3>2
  <2> QED BY <1>1, <2>1, <2>2
<1> QED BY <1>1, <1>2

\* Wrapping gives an integer, and leaves one as it is.
LEMMA Wrapping ==
  ASSUME NEW x \in Int
  PROVE  /\ Wrap(x) \in Integer
         /\ x \in Integer => Wrap(x) = x
         /\ x = Limit => Wrap(x) = -Limit
<1>1. Limit \in Nat \ {0, 1} /\ 2 * Limit \in Nat \ {0}
  BY LimitAssumption
<1>2. (x + Limit) % (2 * Limit) \in 0 .. 2 * Limit - 1
  BY <1>1, Division
<1>3. Wrap(x) \in Integer
  BY <1>1, <1>2 DEF Wrap, Integer
<1>4. ASSUME x \in Integer PROVE Wrap(x) = x
  <2>1. x + Limit \in 0 .. 2 * Limit - 1
    BY <1>1, <1>4 DEF Integer
  <2>2. (x + Limit) % (2 * Limit) = x + Limit
    BY <1>1, <2>1, SmallRemainder
  <2> QED BY <1>1, <2>2 DEF Wrap
<1>5. ASSUME x = Limit PROVE Wrap(x) = -Limit
  <2>1. (2 * Limit) % (2 * Limit) = 0
    BY <1>1, Division
  <2>2. x + Limit = 2 * Limit
    BY <1>1, <1>5
  <2> QED BY <1>1, <2>1, <2>2 DEF Wrap
<1> QED BY <1>3, <1>4, <1>5

\* The unsigned value of an absolute value is the magnitude, for the
\* smallest integer too.
LEMMA AbsoluteValue ==
  ASSUME NEW x \in Integer
  PROVE  /\ Magnitude(x) \in 0 .. Limit
         /\ WrappedAbs(x) \in Integer
         /\ WrappedAbs(x) = -Limit \/ WrappedAbs(x) >= 0
         /\ Unsigned(WrappedAbs(x)) = Magnitude(x)
<1>1. Limit \in Nat \ {0, 1} /\ 2 * Limit \in Nat \ {0}
  BY LimitAssumption
<1>2. Magnitude(x) \in 0 .. Limit
  BY <1>1 DEF Magnitude, Integer
<1>3. CASE Magnitude(x) < Limit
  <2>1. Magnitude(x) \in Integer
    BY <1>1, <1>2, <1>3 DEF Integer
  <2>2. WrappedAbs(x) = Magnitude(x)
    BY <2>1, Wrapping DEF WrappedAbs, Integer
  <2>3. Magnitude(x) \in 0 .. 2 * Limit - 1
    BY <1>1, <1>2
  <2>4. Unsigned(Magnitude(x)) = Magnitude(x)
    BY <1>1, <2>3, SmallRemainder DEF Unsigned
  <2> QED BY <1>1, <1>2, <2>1, <2>2, <2>4
<1>4. CASE Magnitude(x) = Limit
  <2>1. WrappedAbs(x) = -Limit
    BY <1>1, <1>4, Wrapping DEF WrappedAbs
  <2>2. (-Limit) % (2 * Limit) = Limit
    <3> DEFINE q == (-Limit) \div (2 * Limit)
               r == (-Limit) % (2 * Limit)
    <3>1. q \in Int /\ r \in 0 .. 2 * Limit - 1 /\ -Limit = (2 * Limit) * q + r
      BY <1>1, Division
    <3> HIDE DEF q, r
    <3>2. q = -1
      <4>1. ~(q >= 0)
        <5>1. SUFFICES ASSUME q >= 0 PROVE FALSE
          OBVIOUS
        <5>2. (2 * Limit) * q >= 0
          BY <1>1, <3>1, <5>1
        <5> QED BY <1>1, <3>1, <5>2
      <4>2. ~(q <= -2)
        <5>1. SUFFICES ASSUME q <= -2 PROVE FALSE
          OBVIOUS
        <5>2. (2 * Limit) * q <= (2 * Limit) * (-2)
          BY <1>1, <3>1, <5>1
        <5> QED BY <1>1, <3>1, <5>2
      <4> QED BY <3>1, <4>1, <4>2
    <3>3. r = Limit
      BY <1>1, <3>1, <3>2
    <3> QED BY <3>3 DEF r
  <2> QED BY <1>1, <1>2, <1>4, <2>1, <2>2 DEF Unsigned, Integer
<1> QED BY <1>1, <1>2, <1>3, <1>4

-----------------------------------------------------------------------------
(* Divisors.                                                               *)

\* The quotient of a division needs no bound.
LEMMA Quotient ==
  ASSUME NEW k \in Nat, NEW x \in Nat, NEW q \in Nat, x = k * q
  PROVE  Divides(k, x)
<1>1. CASE k = 0
  <2>1. x = k * 0 /\ 0 \in 0 .. x
    BY <1>1
  <2> QED BY <2>1 DEF Divides
<1>2. CASE k > 0
  <2>1. k * q >= q
    BY <1>2
  <2> QED BY <2>1 DEF Divides
<1> QED BY <1>1, <1>2

\* Everything divides zero, each number divides itself, and divisors are not larger.
LEMMA SimpleDivisors ==
  ASSUME NEW k \in Nat, NEW x \in Nat
  PROVE  /\ Divides(k, 0)
         /\ Divides(x, x)
         /\ Divides(k, x) /\ x > 0 => k \in 1 .. x
<1>1. Divides(k, 0)
  BY 0 = k * 0, Quotient
<1>2. Divides(x, x)
  BY x = x * 1, Quotient
<1>3. ASSUME Divides(k, x), x > 0 PROVE k \in 1 .. x
  <2>1. PICK q \in 0 .. x : x = k * q
    BY <1>3 DEF Divides
  <2>2. q >= 1 /\ k >= 1
    BY <1>3, <2>1
  <2>3. k * q >= k
    BY <2>2
  <2> QED BY <2>1, <2>2, <2>3
<1> QED BY <1>1, <1>2, <1>3

\* A step of Euclid's algorithm keeps the common divisors.
LEMMA Euclid ==
  ASSUME NEW k \in Nat, NEW a \in Nat, NEW b \in Nat \ {0}
  PROVE  CommonDivisor(k, a, b) <=> CommonDivisor(k, b, a % b)
<1> DEFINE d == a \div b
           r == a % b
<1>1. d \in Nat /\ r \in Nat /\ a = b * d + r
  BY Division
<1> HIDE DEF d, r
<1>2. ASSUME Divides(k, a), Divides(k, b) PROVE Divides(k, r)
  <2>1. PICK p \in 0 .. a : a = k * p
    BY <1>2 DEF Divides
  <2>2. PICK q \in 0 .. b : b = k * q
    BY <1>2 DEF Divides
  <2>3. d * q \in Nat /\ p - q * d \in Int
    BY <1>1, <2>1, <2>2
  <2>4. r = k * (p - q * d)
    <3>1. r = k * p - (k * q) * d
      BY <1>1, <2>1, <2>2
    <3> QED BY <1>1, <2>1, <2>2, <3>1
  <2>5. k > 0
    BY <2>2
  <2>6. p - q * d >= 0
    <3>1. SUFFICES ASSUME p - q * d <= -1 PROVE FALSE
      BY <2>3
    <3>2. k * (p - q * d) <= -k
      BY <2>3, <2>5, <3>1
    <3> QED BY <1>1, <2>4, <2>5, <3>2
  <2> QED BY <1>1, <2>3, <2>4, <2>6, Quotient
<1>3. ASSUME Divides(k, b), Divides(k, r) PROVE Divides(k, a)
  <2>1. PICK q \in 0 .. b : b = k * q
    BY <1>3 DEF Divides
  <2>2. PICK p \in 0 .. r : r = k * p
    BY <1>3 DEF Divides
  <2>3. q * d + p \in Nat
    BY <1>1, <2>1, <2>2
  <2>4. a = k * (q * d + p)
    <3>1. a = (k * q) * d + k * p
      BY <1>1, <2>1, <2>2
    <3> QED BY <1>1, <2>1, <2>2, <3>1
  <2> QED BY <2>3, <2>4, Quotient
<1> QED BY <1>2, <1>3 DEF CommonDivisor, r

-----------------------------------------------------------------------------
(* The inductive invariant: the loop's registers have the common divisors  *)
(* of the numerator and the denominator.                                   *)

Numerator == Magnitude(value.num)
Denominator == Unsigned(value.den)

SameDivisors ==
  phase = "gcd" =>
    /\ value.den >= 0 \/ value.den = -Limit
    /\ \A k \in Nat : CommonDivisor(k, gcda, gcdb) <=> CommonDivisor(k, Numerator, Denominator)

\* What the code has is what exact arithmetic has; in the loop, with a positive denominator.
SameNumber ==
  /\ number \in [num : Int, den : Int]
  /\ number.den = 0 => number = NoNumber
  /\ ValuesAreExact
  /\ phase = "gcd" /\ HasValue => value.den > 0
  /\ UndefinedOnlyWithoutValue

IInv == TypeOK /\ SameDivisors /\ SameNumber

\* A numerator and a denominator in the loop are natural numbers of the machine.
LEMMA Halves ==
  ASSUME IInv, phase = "gcd"
  PROVE  /\ Numerator \in 0 .. Limit
         /\ Denominator \in 0 .. Limit
         /\ Limit \in Nat \ {0, 1}
         /\ gcda \in Nat /\ gcdb \in Nat
<1>1. Limit \in Nat \ {0, 1}
  BY LimitAssumption
<1>2. Numerator \in 0 .. Limit
  BY AbsoluteValue DEF IInv, TypeOK, Numerator
<1>3. Denominator \in 0 .. Limit
  <2>1. value.den \in Integer /\ (value.den >= 0 \/ value.den = -Limit)
    BY DEF IInv, TypeOK, SameDivisors
  <2>2. WrappedAbs(value.den) = value.den
    <3>1. CASE value.den >= 0
      BY <2>1, <3>1, Wrapping DEF WrappedAbs, Magnitude, Integer
    <3>2. CASE value.den = -Limit
      <4>1. Magnitude(value.den) = Limit
        BY <1>1, <3>2 DEF Magnitude
      <4> QED BY <1>1, <3>2, <4>1, Wrapping DEF WrappedAbs
    <3> QED BY <2>1, <3>1, <3>2
  <2> QED BY <2>1, <2>2, AbsoluteValue DEF Denominator
<1> QED BY <1>1, <1>2, <1>3 DEF IInv, TypeOK

\* At the end of the loop its register is the greatest common divisor.
LEMMA EndOfLoop ==
  ASSUME IInv, phase = "gcd", gcdb = 0
  PROVE  /\ CommonDivisor(gcda, Numerator, Denominator)
         /\ \A k \in Nat : CommonDivisor(k, Numerator, Denominator) => Divides(k, gcda)
<1>1. gcda \in Nat /\ gcdb \in Nat
  BY Halves
<1>2. \A k \in Nat : CommonDivisor(k, gcda, gcdb) <=> CommonDivisor(k, Numerator, Denominator)
  BY DEF IInv, SameDivisors
<1>3. CommonDivisor(gcda, gcda, gcdb)
  BY <1>1, SimpleDivisors DEF CommonDivisor
<1> QED BY <1>1, <1>2, <1>3 DEF CommonDivisor

\* The invariant gives the property that the runs check.
LEMMA Greatest == IInv => GcdIsGreatest
<1> SUFFICES ASSUME IInv, phase = "gcd", gcdb = 0
             PROVE  /\ CommonDivisor(gcda, Numerator, Denominator)
                    /\ \A k \in 0 .. 2 * Limit :
                         CommonDivisor(k, Numerator, Denominator) => Divides(k, gcda)
  BY DEF GcdIsGreatest, Numerator, Denominator
<1>1. Limit \in Nat
  BY LimitAssumption
<1> QED BY <1>1, EndOfLoop

-----------------------------------------------------------------------------
\* The first operand satisfies the invariant.
LEMMA InitEstablishes == Init => IInv
<1> SUFFICES ASSUME Init PROVE IInv
  OBVIOUS
<1>1. 0 \in Integer /\ 1 \in Integer /\ 0 \in 0 .. 2 * Limit - 1
  BY LimitAssumption DEF Integer
<1>2. TypeOK /\ SameDivisors
  BY <1>1 DEF Init, TypeOK, SameDivisors, Fraction
<1>3. SameNumber
  <2>1. number \in [num : Int, den : Int] /\ number.den # 0 /\ phase = "simple"
    BY DEF Init, Fraction
  <2>2. value.den # 0 /\ value.num * number.den = number.num * value.den
    BY DEF Init, Fraction
  <2> QED BY <2>1, <2>2 DEF SameNumber, UndefinedOnlyWithoutValue, ValuesAreExact
<1> QED BY <1>2, <1>3 DEF IInv

\* Outside the loop nothing is claimed of its registers.
LEMMA NewValue ==
  ASSUME TypeOK, phase' \in {"raw", "error", "simple"}, wrapped' \in BOOLEAN,
         value' \in [num : Integer, den : Integer], UNCHANGED <<gcda, gcdb>>
  PROVE  TypeOK' /\ SameDivisors' /\ (phase' = "gcd" /\ HasValue' => value'.den > 0)
BY DEF TypeOK, SameDivisors

\* n // d is exact.
LEMMA OverKeeps ==
  ASSUME IInv, NEW n \in Integer, NEW d \in Integer, OverOperator(n, d)
  PROVE  IInv'
<1>1. CASE d = 0
  <2>1. phase' = "error" /\ UNCHANGED <<value, number, wrapped, gcda, gcdb>>
    BY <1>1 DEF OverOperator
  <2>2. TypeOK' /\ SameDivisors'
    BY <2>1, NewValue DEF IInv, TypeOK
  <2> QED
    BY <2>1, <2>2 DEF IInv, SameNumber, UndefinedOnlyWithoutValue, ValuesAreExact, HasValue, NoNumber, Fraction
<1>2. CASE d # 0
  <2>1. /\ phase' = "raw" /\ value' = Fraction(n, d) /\ number' = Fraction(n, d)
        /\ wrapped' = FALSE /\ UNCHANGED <<gcda, gcdb>>
    BY <1>2 DEF OverOperator
  <2>2. n \in Int /\ d \in Int
    BY LimitAssumption DEF Integer
  <2>3. TypeOK' /\ SameDivisors'
    BY <2>1, NewValue DEF IInv, Fraction
  <2>4. SameNumber'
    BY <1>2, <2>1, <2>2 DEF SameNumber, UndefinedOnlyWithoutValue, ValuesAreExact, HasValue, NoNumber, Fraction
  <2> QED BY <2>3, <2>4 DEF IInv
<1> QED BY <1>1, <1>2

\* A variable's value is exact, or no number.
LEMMA LoadKeeps ==
  ASSUME IInv, NEW x \in Operands, Load(x)
  PROVE  IInv'
<1>1. x \in [num : Integer, den : Integer] /\ x \in [num : Int, den : Int]
  BY OperandsAssumption, LimitAssumption DEF Integer
<1>2. /\ phase' = "raw" /\ value' = x /\ wrapped' = FALSE /\ UNCHANGED <<gcda, gcdb>>
      /\ number' = IF x.den = 0 THEN NoNumber ELSE x
  BY DEF Load
<1>3. TypeOK' /\ SameDivisors'
  BY <1>1, <1>2, NewValue DEF IInv
<1>4. SameNumber'
  BY <1>1, <1>2 DEF SameNumber, UndefinedOnlyWithoutValue, ValuesAreExact, HasValue, NoNumber, Fraction
<1> QED BY <1>3, <1>4 DEF IInv

\* Two fractions are equal.
SameFraction(f, g) == f.num * g.den = g.num * f.den

\* An operation is exact if it is without limits.
LEMMA BecomesKeeps ==
  ASSUME IInv,
         NEW result \in [num : Int, den : Int], NEW exact \in [num : Int, den : Int],
         Becomes(result, exact),
         HasValue /\ exact.den # 0 => result.den # 0 /\ SameFraction(result, exact),
         exact.den # 0 => HasValue
  PROVE  IInv'
<1> DEFINE fits == {result.num, result.den} \subseteq Integer
<1>1. /\ phase' = "raw" /\ UNCHANGED <<gcda, gcdb>>
      /\ value' = Fraction(Wrap(result.num), Wrap(result.den))
      /\ wrapped' = (wrapped \/ ~fits)
      /\ number' = IF wrapped' \/ exact.den = 0 THEN NoNumber ELSE exact
  BY DEF Becomes
<1>2. value' \in [num : Integer, den : Integer]
  BY <1>1, Wrapping DEF Fraction
<1>3. wrapped' \in BOOLEAN
  BY <1>1 DEF IInv, TypeOK
<1>4. TypeOK' /\ SameDivisors'
  BY <1>1, <1>2, <1>3, NewValue DEF IInv
<1>5. SameNumber'
  <2>1. number' \in [num : Int, den : Int] /\ (number'.den = 0 => number' = NoNumber)
    BY <1>1 DEF NoNumber, Fraction
  <2>2. ASSUME HasValue' PROVE value'.den # 0 /\ value'.num * number'.den = number'.num * value'.den
    <3>1. number' = exact /\ exact.den # 0 /\ fits
      BY <1>1, <2>2 DEF HasValue
    <3>2. value' = Fraction(result.num, result.den)
      BY <1>1, <3>1, Wrapping
    <3>3. HasValue /\ SameFraction(result, exact) /\ result.den # 0
      BY <3>1
    <3> QED BY <3>1, <3>2, <3>3 DEF Fraction, SameFraction
  <2> QED BY <1>1, <2>1, <2>2 DEF SameNumber, UndefinedOnlyWithoutValue, ValuesAreExact
<1> QED BY <1>4, <1>5 DEF IInv

\* Equal fractions stay equal under the operations with a third.
LEMMA SameSum ==
  ASSUME NEW a \in Int, NEW b \in Int, NEW p \in Int, NEW q \in Int, a * q = p * b,
         NEW c \in Int, NEW d \in Int
  PROVE  /\ (a * d + c * b) * (q * d) = (p * d + c * q) * (b * d)
         /\ (a * d - c * b) * (q * d) = (p * d - c * q) * (b * d)
         /\ (c * b - a * d) * (d * q) = (c * q - p * d) * (d * b)
<1> DEFINE x == (a * q) * (d * d)
           y == (p * b) * (d * d)
           z == (c * d) * (b * q)
<1>1. x = y
  OBVIOUS
<1>2. /\ (a * d + c * b) * (q * d) = x + z
      /\ (a * d - c * b) * (q * d) = x - z
      /\ (c * b - a * d) * (d * q) = z - x
  OBVIOUS
<1>3. /\ (p * d + c * q) * (b * d) = y + z
      /\ (p * d - c * q) * (b * d) = y - z
      /\ (c * q - p * d) * (d * b) = z - y
  OBVIOUS
<1> QED BY <1>1, <1>2, <1>3

\* Equal fractions have equal products and quotients with a third one.
LEMMA SameProduct ==
  ASSUME NEW a \in Int, NEW b \in Int, NEW p \in Int, NEW q \in Int, a * q = p * b,
         NEW c \in Int, NEW d \in Int
  PROVE  /\ (a * c) * (q * d) = (p * c) * (b * d)
         /\ (c * b) * (d * p) = (c * q) * (d * a)
<1>1. (a * c) * (q * d) = (a * q) * (c * d) /\ (p * c) * (b * d) = (p * b) * (c * d)
  OBVIOUS
<1>2. (c * b) * (d * p) = (p * b) * (c * d) /\ (c * q) * (d * a) = (a * q) * (c * d)
  OBVIOUS
<1> QED BY <1>1, <1>2

\* The operations take equal fractions to equal fractions.
LEMMA SameResults ==
  ASSUME NEW f \in [num : Int, den : Int], NEW g \in [num : Int, den : Int],
         NEW x \in [num : Int, den : Int], SameFraction(f, g)
  PROVE  /\ SameFraction(RationalNegation(f), Fraction(0 - g.num, g.den))
         /\ SameFraction(RationalAdd(f, x), RationalAdd(g, x))
         /\ SameFraction(RationalSubtract(f, x), ExactSubtract(g, x))
         /\ SameFraction(RationalSubtract(x, f), ExactSubtract(x, g))
         /\ SameFraction(RationalMultiply(f, x), RationalMultiply(g, x))
         /\ SameFraction(RationalDivide(f, x), RationalDivide(g, x))
         /\ SameFraction(RationalDivide(x, f), RationalDivide(x, g))
<1> DEFINE a == f.num  b == f.den  p == g.num  q == g.den  c == x.num  d == x.den
<1>1. /\ a \in Int /\ b \in Int /\ p \in Int /\ q \in Int /\ c \in Int /\ d \in Int
      /\ a * q = p * b
  BY DEF SameFraction
<1>2. SameFraction(RationalNegation(f), Fraction(0 - g.num, g.den))
  <2>1. SUFFICES (0 - a) * q = (0 - p) * b
    BY DEF SameFraction, RationalNegation, Fraction
  <2> HIDE DEF a, b, p, q
  <2>2. (0 - a) * q = 0 - (a * q) /\ (0 - p) * b = 0 - (p * b)
    BY <1>1
  <2> QED BY <1>1, <2>2
<1>3. /\ (a * d + c * b) * (q * d) = (p * d + c * q) * (b * d)
      /\ (a * d - c * b) * (q * d) = (p * d - c * q) * (b * d)
      /\ (c * b - a * d) * (d * q) = (c * q - p * d) * (d * b)
      /\ (a * c) * (q * d) = (p * c) * (b * d)
      /\ (a * d) * (q * c) = (p * d) * (b * c)
      /\ (c * b) * (d * p) = (c * q) * (d * a)
  <2> HIDE DEF a, b, p, q, c, d
  <2> QED BY <1>1, SameSum, SameProduct
<1> QED
  BY <1>2, <1>3
     DEF SameFraction, RationalAdd, RationalSubtract, ExactSubtract, RationalMultiply, RationalDivide, Fraction

Pair == [num : Int, den : Int]

\* The results of the operations are fractions.
LEMMA Fractions ==
  ASSUME NEW f \in Pair, NEW x \in Pair
  PROVE  /\ RationalNegation(f) \in Pair
         /\ RationalAdd(f, x) \in Pair
         /\ RationalSubtract(f, x) \in Pair
         /\ ExactSubtract(f, x) \in Pair
         /\ RationalMultiply(f, x) \in Pair
         /\ RationalDivide(f, x) \in Pair
         /\ RationalNegation(f).den = f.den
         /\ RationalAdd(f, x).den = f.den * x.den
         /\ RationalSubtract(f, x).den = f.den * x.den
         /\ ExactSubtract(f, x).den = f.den * x.den
         /\ RationalMultiply(f, x).den = f.den * x.den
         /\ RationalDivide(f, x).den = f.den * x.num
<1>1. f.num \in Int /\ f.den \in Int /\ x.num \in Int /\ x.den \in Int
  BY DEF Pair
<1>2. \A n, d \in Int : Fraction(n, d) \in Pair /\ Fraction(n, d).den = d
  BY DEF Fraction, Pair
<1>3. /\ 0 - f.num \in Int
      /\ f.num * x.den + x.num * f.den \in Int
      /\ f.num * x.den - x.num * f.den \in Int
      /\ f.den * x.den \in Int /\ f.num * x.num \in Int
      /\ f.num * x.den \in Int /\ f.den * x.num \in Int
  BY <1>1
<1>4. /\ RationalNegation(f) = Fraction(0 - f.num, f.den)
      /\ RationalAdd(f, x) = Fraction(f.num * x.den + x.num * f.den, f.den * x.den)
      /\ RationalSubtract(f, x) = Fraction(f.num * x.den - x.num * f.den, f.den * x.den)
      /\ ExactSubtract(f, x) = Fraction(f.num * x.den - x.num * f.den, f.den * x.den)
      /\ RationalMultiply(f, x) = Fraction(f.num * x.num, f.den * x.den)
      /\ RationalDivide(f, x) = Fraction(f.num * x.den, f.den * x.num)
  BY DEF RationalNegation, RationalAdd, RationalSubtract, ExactSubtract, RationalMultiply, RationalDivide
<1> QED BY <1>1, <1>2, <1>3, <1>4

\* A product is not zero when its factors are not.
LEMMA NonzeroProduct ==
  ASSUME NEW a \in Int, NEW b \in Int
  PROVE  a * b # 0 <=> a # 0 /\ b # 0
OBVIOUS

\* A product with a factor that is not zero.
LEMMA ZeroProduct ==
  ASSUME NEW a \in Int, NEW b \in Int \ {0}, a * b = 0
  PROVE  a = 0
OBVIOUS

\* Every operation on a value and an operand is exact, without limits.
LEMMA OperationKeeps ==
  ASSUME IInv, NEW x \in Operands, Operation(x)
  PROVE  IInv'
<1>1. /\ x \in Pair /\ value \in Pair /\ number \in Pair
      /\ HasValue <=> number.den # 0
      /\ HasValue => value.den # 0 /\ SameFraction(value, number)
      /\ number.den = 0 => number.num = 0
  BY OperandsAssumption, LimitAssumption
     DEF IInv, TypeOK, SameNumber, UndefinedOnlyWithoutValue, ValuesAreExact, HasValue, NoNumber, SameFraction, Fraction, Integer, Pair
<1>2. HasValue /\ number.num # 0 => value.num # 0
  <2>1. SUFFICES ASSUME HasValue, number.num # 0, value.num = 0 PROVE FALSE
    OBVIOUS
  <2>2. number.num * value.den = 0 * number.den /\ value.den # 0
    BY <1>1, <2>1 DEF SameFraction, Pair
  <2> QED BY <1>1, <2>1, <2>2 DEF Pair
<1>3. ASSUME NEW r \in Pair, NEW e \in Pair, Becomes(r, e),
             HasValue /\ e.den # 0 => r.den # 0 /\ SameFraction(r, e),
             e.den # 0 => HasValue
      PROVE  IInv'
  BY <1>3, BecomesKeeps DEF Pair
<1>4. CASE Becomes(value, number)
  BY <1>1, <1>3, <1>4
<1>5. CASE Becomes(RationalNegation(value), Fraction(0 - number.num, number.den))
  <2>1. Fraction(0 - number.num, number.den).den = number.den
    BY DEF Fraction
  <2>2. RationalNegation(value) \in Pair /\ RationalNegation(value).den = value.den
    BY <1>1, Fractions
  <2>3. Fraction(0 - number.num, number.den) \in Pair
    BY <1>1 DEF Fraction, Pair
  <2>4. HasValue => SameFraction(RationalNegation(value), Fraction(0 - number.num, number.den))
    BY <1>1, SameResults DEF Pair
  <2> QED BY <1>1, <1>3, <1>5, <2>1, <2>2, <2>3, <2>4
<1>6. /\ x.num \in Int /\ x.den \in Int /\ value.num \in Int /\ value.den \in Int
      /\ number.num \in Int /\ number.den \in Int
  BY <1>1 DEF Pair
<1>7. CASE Becomes(RationalAdd(value, x), RationalAdd(number, x))
  <2>1. /\ RationalAdd(value, x) \in Pair /\ RationalAdd(value, x).den = value.den * x.den
        /\ RationalAdd(number, x) \in Pair /\ RationalAdd(number, x).den = number.den * x.den
    BY <1>1, Fractions
  <2>2. HasValue => SameFraction(RationalAdd(value, x), RationalAdd(number, x))
    BY <1>1, SameResults DEF Pair
  <2>3. /\ value.den * x.den # 0 <=> value.den # 0 /\ x.den # 0
        /\ number.den * x.den # 0 <=> number.den # 0 /\ x.den # 0
    BY <1>6, NonzeroProduct
  <2> QED BY <1>1, <1>3, <1>7, <2>1, <2>2, <2>3
<1>8. CASE Becomes(RationalSubtract(value, x), ExactSubtract(number, x))
  <2>1. /\ RationalSubtract(value, x) \in Pair /\ RationalSubtract(value, x).den = value.den * x.den
        /\ ExactSubtract(number, x) \in Pair /\ ExactSubtract(number, x).den = number.den * x.den
    BY <1>1, Fractions
  <2>2. HasValue => SameFraction(RationalSubtract(value, x), ExactSubtract(number, x))
    BY <1>1, SameResults DEF Pair
  <2>3. /\ value.den * x.den # 0 <=> value.den # 0 /\ x.den # 0
        /\ number.den * x.den # 0 <=> number.den # 0 /\ x.den # 0
    BY <1>6, NonzeroProduct
  <2> QED BY <1>1, <1>3, <1>8, <2>1, <2>2, <2>3
<1>9. CASE Becomes(RationalSubtract(x, value), ExactSubtract(x, number))
  <2>1. /\ RationalSubtract(x, value) \in Pair /\ RationalSubtract(x, value).den = x.den * value.den
        /\ ExactSubtract(x, number) \in Pair /\ ExactSubtract(x, number).den = x.den * number.den
    BY <1>1, Fractions
  <2>2. HasValue => SameFraction(RationalSubtract(x, value), ExactSubtract(x, number))
    BY <1>1, SameResults DEF Pair
  <2>3. /\ x.den * value.den # 0 <=> x.den # 0 /\ value.den # 0
        /\ x.den * number.den # 0 <=> x.den # 0 /\ number.den # 0
    BY <1>6, NonzeroProduct
  <2> QED BY <1>1, <1>3, <1>9, <2>1, <2>2, <2>3
<1>10. CASE Becomes(RationalMultiply(value, x), RationalMultiply(number, x))
  <2>1. /\ RationalMultiply(value, x) \in Pair /\ RationalMultiply(value, x).den = value.den * x.den
        /\ RationalMultiply(number, x) \in Pair /\ RationalMultiply(number, x).den = number.den * x.den
    BY <1>1, Fractions
  <2>2. HasValue => SameFraction(RationalMultiply(value, x), RationalMultiply(number, x))
    BY <1>1, SameResults DEF Pair
  <2>3. /\ value.den * x.den # 0 <=> value.den # 0 /\ x.den # 0
        /\ number.den * x.den # 0 <=> number.den # 0 /\ x.den # 0
    BY <1>6, NonzeroProduct
  <2> QED BY <1>1, <1>3, <1>10, <2>1, <2>2, <2>3
<1>11. CASE Becomes(RationalDivide(value, x), RationalDivide(number, x))
  <2>1. /\ RationalDivide(value, x) \in Pair /\ RationalDivide(value, x).den = value.den * x.num
        /\ RationalDivide(number, x) \in Pair /\ RationalDivide(number, x).den = number.den * x.num
    BY <1>1, Fractions
  <2>2. HasValue => SameFraction(RationalDivide(value, x), RationalDivide(number, x))
    BY <1>1, SameResults DEF Pair
  <2>3. /\ value.den * x.num # 0 <=> value.den # 0 /\ x.num # 0
        /\ number.den * x.num # 0 <=> number.den # 0 /\ x.num # 0
    BY <1>6, NonzeroProduct
  <2> QED BY <1>1, <1>3, <1>11, <2>1, <2>2, <2>3
<1>12. CASE Becomes(RationalDivide(x, value), RationalDivide(x, number))
  <2>1. /\ RationalDivide(x, value) \in Pair /\ RationalDivide(x, value).den = x.den * value.num
        /\ RationalDivide(x, number) \in Pair /\ RationalDivide(x, number).den = x.den * number.num
    BY <1>1, Fractions
  <2>2. HasValue => SameFraction(RationalDivide(x, value), RationalDivide(x, number))
    BY <1>1, SameResults DEF Pair
  <2>3. /\ x.den * value.num # 0 <=> x.den # 0 /\ value.num # 0
        /\ x.den * number.num # 0 <=> x.den # 0 /\ number.num # 0
    BY <1>6, NonzeroProduct
  <2> QED BY <1>1, <1>2, <1>3, <1>12, <2>1, <2>2, <2>3
<1> QED BY <1>4, <1>5, <1>7, <1>8, <1>9, <1>10, <1>11, <1>12 DEF Operation

-----------------------------------------------------------------------------
(* Simplification.                                                         *)

\* A quotient that is exact.
LEMMA ExactQuotient ==
  ASSUME NEW g \in Nat \ {0}, NEW p \in Int
  PROVE  (g * p) \div g = p
<1> DEFINE q == (g * p) \div g
           r == (g * p) % g
<1>1. q \in Int /\ r \in 0 .. g - 1 /\ g * p = g * q + r
  BY g * p \in Int, Division
<1> HIDE DEF q, r
<1>2. r = g * (p - q)
  BY <1>1
<1>3. p - q = 0
  <2>1. ~(p - q >= 1)
    <3>1. SUFFICES ASSUME p - q >= 1 PROVE FALSE
      OBVIOUS
    <3>2. g * (p - q) >= g
      BY <1>1, <3>1
    <3> QED BY <1>1, <1>2, <3>2
  <2>2. ~(p - q <= -1)
    <3>1. SUFFICES ASSUME p - q <= -1 PROVE FALSE
      OBVIOUS
    <3>2. g * (p - q) <= -g
      BY <1>1, <3>1
    <3> QED BY <1>1, <1>2, <3>2
  <2> QED BY <1>1, <2>1, <2>2
<1> QED BY <1>1, <1>3 DEF q

\* Division by a divisor of the magnitude, whatever the sign.
LEMMA SignedQuotient ==
  ASSUME NEW x \in Int, NEW g \in Nat \ {0}, Divides(g, Magnitude(x))
  PROVE  /\ SDiv(x, g) \in Int
         /\ SDiv(x, g) * g = x
<1>1. PICK q \in 0 .. Magnitude(x) : Magnitude(x) = g * q
  BY DEF Divides
<1>2. q \in Int /\ Magnitude(x) \in Nat /\ Magnitude(g) = g /\ ~(g < 0)
  BY DEF Magnitude
<1>3. Magnitude(x) \div Magnitude(g) = q
  BY <1>1, <1>2, ExactQuotient
<1>4. SDiv(x, g) = IF x < 0 THEN -q ELSE q
  BY <1>2, <1>3 DEF SDiv
<1>5. x = IF x < 0 THEN -(g * q) ELSE g * q
  BY <1>1 DEF Magnitude
<1> QED BY <1>2, <1>4, <1>5

\* A set of numbers has a least element.
LEMMA LeastElement ==
  ASSUME NEW S, S \subseteq Nat, S # {}
  PROVE  \E m \in S : \A y \in S : m <= y
<1>1. PICK m \in S : \A y \in S : ~(<<y, m>> \in OpToRel(<, Nat))
  BY NatLessThanWellFounded, WFMin
<1>2. ASSUME NEW y \in S PROVE m <= y
  <2>1. y \in Nat /\ m \in Nat
    BY <1>1
  <2>2. ~(y < m)
    <3>1. SUFFICES ASSUME y < m PROVE FALSE
      OBVIOUS
    <3>2. <<y, m>> \in OpToRel(<, Nat)
      BY <2>1, <3>1, Zenon DEF OpToRel
    <3> QED BY <1>1, <3>2, Zenon
  <2> QED BY <2>1, <2>2
<1> QED BY <1>1, <1>2

\* Two numbers that are not both zero have a greatest common divisor.
LEMMA GreatestExists ==
  ASSUME NEW n \in Nat, NEW d \in Nat \ {0}
  PROVE  \E k \in 0 .. (n + d) :
           /\ CommonDivisor(k, n, d)
           /\ \A j \in 0 .. (n + d) : CommonDivisor(j, n, d) => j <= k
<1> DEFINE Common == {k \in 0 .. (n + d) : CommonDivisor(k, n, d)}
           Rest == {n + d - k : k \in Common}
<1>1. Rest \subseteq Nat
  OBVIOUS
<1>2. Rest # {}
  <2>1. n = 1 * n /\ d = 1 * d
    OBVIOUS
  <2>2. CommonDivisor(1, n, d)
    BY <2>1, Quotient DEF CommonDivisor
  <2> QED BY <2>2
<1>3. PICK m \in Rest : \A y \in Rest : m <= y
  BY <1>1, <1>2, LeastElement
<1>4. PICK k \in Common : m = n + d - k
  BY <1>3
<1>5. \A j \in Common : j <= k
  BY <1>3, <1>4
<1> QED BY <1>4, <1>5

\* The fraction in lowest terms is the same fraction.
LEMMA LowestTermsAreEqual ==
  ASSUME NEW f \in [num : Int, den : Int], f.den # 0
  PROVE  /\ LowestTerms(f) \in [num : Int, den : Int]
         /\ LowestTerms(f).den > 0
         /\ SameFraction(LowestTerms(f), f)
<1> DEFINE n == Magnitude(f.num)
           d == Magnitude(f.den)
           sign == IF (f.num < 0) = (f.den < 0) THEN 1 ELSE -1
           g == CHOOSE k \in 0..(n + d) : /\ CommonDivisor(k, n, d)
                                          /\ \A j \in 0..(n + d) : CommonDivisor(j, n, d) => j <= k
<1>1. n \in Nat /\ d \in Nat \ {0}
  BY DEF Magnitude
<1> HIDE DEF n, d
<1>2. g \in 0 .. (n + d) /\ CommonDivisor(g, n, d)
  BY <1>1, GreatestExists
<1> HIDE DEF g
<1>3. g \in Nat \ {0}
  BY <1>1, <1>2, SimpleDivisors DEF CommonDivisor
<1>4. PICK p \in 0 .. n : n = g * p
  BY <1>2 DEF CommonDivisor, Divides
<1>5. PICK q \in 0 .. d : d = g * q
  BY <1>2 DEF CommonDivisor, Divides
<1>6. p \in Nat /\ q \in Nat /\ q > 0
  BY <1>1, <1>3, <1>4, <1>5
<1>7. d \div g = q /\ n \div g = p
  BY <1>3, <1>4, <1>5, <1>6, ExactQuotient
<1>8. (-n) \div g = -p
  <2>1. -n = g * (-p)
    BY <1>1, <1>3, <1>4, <1>6
  <2> QED BY <1>3, <1>6, <2>1, ExactQuotient
<1>9. LowestTerms(f) = Fraction((IF (f.num < 0) = (f.den < 0) THEN n ELSE -n) \div g, d \div g)
  BY DEF LowestTerms, n, d, g
<1>10. LowestTerms(f) = Fraction(sign * p, q)
  BY <1>6, <1>7, <1>8, <1>9
<1>11. (sign * p) * f.den = f.num * q
  <2>1. f.num = (IF f.num < 0 THEN -1 ELSE 1) * (g * p)
    BY <1>1, <1>4 DEF n, Magnitude
  <2>2. f.den = (IF f.den < 0 THEN -1 ELSE 1) * (g * q)
    BY <1>1, <1>5 DEF d, Magnitude
  <2>3. p * (g * q) = (g * p) * q
    BY <1>3, <1>6
  <2> QED BY <1>3, <1>6, <2>1, <2>2, <2>3
<1> QED BY <1>6, <1>10, <1>11 DEF SameFraction, Fraction

\* Before the loop the sign goes above and the registers get the magnitudes.
LEMMA SimplifyKeeps ==
  ASSUME IInv, SimplifyRational
  PROVE  IInv'
<1> DEFINE n == value.num
           d == value.den
           lost == wrapped \/ (value.den < 0 /\ -Limit \in {value.num, value.den})
<1>1. /\ phase' = "gcd" /\ value' = WithSignAbove(value)
      /\ gcda' = Unsigned(WrappedAbs(value'.num)) /\ gcdb' = Unsigned(value'.den)
      /\ wrapped' = lost
      /\ number' = IF wrapped' THEN NoNumber ELSE number
  BY DEF SimplifyRational
<1>2. /\ n \in Integer /\ d \in Integer /\ value \in [num : Integer, den : Integer]
      /\ Limit \in Nat \ {0, 1} /\ lost \in BOOLEAN
  BY LimitAssumption DEF IInv, TypeOK
<1>3. n \in Int /\ d \in Int
  BY <1>2 DEF Integer
<1>4. value'.num = (IF d < 0 THEN Wrap(0 - n) ELSE n) /\ value'.den = WrappedAbs(d)
  BY <1>1 DEF WithSignAbove, Fraction
<1>5. value' \in [num : Integer, den : Integer]
  <2>1. Wrap(0 - n) \in Integer /\ WrappedAbs(d) \in Integer
    BY <1>2, <1>3, Wrapping, AbsoluteValue
  <2> QED BY <1>1, <1>2, <2>1 DEF WithSignAbove, Fraction
<1>6. gcda' = Magnitude(value'.num) /\ gcda' \in 0 .. Limit
  BY <1>1, <1>5, AbsoluteValue
<1>7. gcdb' = Unsigned(value'.den) /\ gcdb' \in 0 .. Limit
  BY <1>1, <1>2, <1>4, AbsoluteValue
<1>8. TypeOK'
  BY <1>1, <1>2, <1>5, <1>6, <1>7 DEF TypeOK
<1>9. value'.den >= 0 \/ value'.den = -Limit
  BY <1>2, <1>4, AbsoluteValue
<1>10. SameDivisors'
  BY <1>6, <1>7, <1>9 DEF SameDivisors, Numerator, Denominator
<1>11. SameNumber'
  <2>1. number' \in [num : Int, den : Int] /\ (number'.den = 0 => number' = NoNumber)
    BY <1>1 DEF IInv, SameNumber, NoNumber, Fraction
  <2>2. ASSUME HasValue'
        PROVE  value'.den > 0 /\ value'.num * number'.den = number'.num * value'.den
    <3>1. number' = number /\ ~lost /\ HasValue
      BY <1>1, <2>2 DEF HasValue
    <3>2. d # 0 /\ n * number.den = number.num * d
      BY <3>1 DEF IInv, SameNumber, UndefinedOnlyWithoutValue, ValuesAreExact
    <3>3. number.num \in Int /\ number.den \in Int
      BY DEF IInv, SameNumber
    <3>4. CASE d > 0
      <4>1. value'.den = d /\ value'.num = n
        BY <1>2, <1>3, <1>4, <3>4, Wrapping DEF WrappedAbs, Magnitude
      <4> QED BY <3>1, <3>2, <3>4, <4>1
    <3>5. CASE d < 0
      <4>1. n # -Limit /\ d # -Limit
        BY <3>1, <3>5
      <4>2. 0 - n \in Integer /\ -d \in Integer
        BY <1>2, <1>3, <4>1 DEF Integer
      <4>3. value'.num = 0 - n /\ value'.den = -d
        BY <1>2, <1>3, <1>4, <3>5, <4>2, Wrapping DEF WrappedAbs, Magnitude
      <4>4. (0 - n) * number.den = number.num * (-d)
        BY <1>3, <3>2, <3>3
      <4> QED BY <1>3, <3>1, <3>5, <4>3, <4>4
    <3> QED BY <1>3, <3>2, <3>4, <3>5
  <2>3. HasValue' => value'.den # 0
    BY <2>2
  <2> QED BY <1>1, <2>1, <2>2, <2>3 DEF SameNumber, UndefinedOnlyWithoutValue, ValuesAreExact
<1> QED BY <1>8, <1>10, <1>11 DEF IInv

\* A step of the loop keeps the common divisors.
LEMMA StepKeeps ==
  ASSUME IInv, GcdStep
  PROVE  IInv'
<1>1. /\ phase = "gcd" /\ gcdb # 0 /\ gcda' = gcdb /\ gcdb' = gcda % gcdb
      /\ UNCHANGED <<value, number, wrapped, phase>>
  BY DEF GcdStep, Remainder
<1>2. gcda \in Nat /\ gcdb \in Nat \ {0} /\ gcdb \in 0 .. 2 * Limit - 1 /\ Limit \in Nat
  BY <1>1, LimitAssumption DEF IInv, TypeOK
<1>3. gcdb' \in 0 .. 2 * Limit - 1
  BY <1>1, <1>2, Division
<1>4. TypeOK'
  BY <1>1, <1>2, <1>3 DEF IInv, TypeOK
<1>5. \A k \in Nat : CommonDivisor(k, gcda, gcdb) <=> CommonDivisor(k, gcda', gcdb')
  BY <1>1, <1>2, Euclid
<1>6. Numerator' = Numerator /\ Denominator' = Denominator
  BY <1>1 DEF Numerator, Denominator
<1>7. SameDivisors'
  BY <1>1, <1>5, <1>6 DEF IInv, SameDivisors
<1>8. SameNumber'
  BY <1>1 DEF IInv, SameNumber, UndefinedOnlyWithoutValue, ValuesAreExact, HasValue
<1> QED BY <1>4, <1>7, <1>8 DEF IInv

\* A quotient of an integer is an integer: no divisor is -1.
LEMMA QuotientInRange ==
  ASSUME NEW x \in Integer, NEW g \in 1 .. Limit
  PROVE  SDiv(x, Wrap(g)) \in Integer
<1>1. Limit \in Nat \ {0, 1} /\ x \in Int /\ Magnitude(x) \in 0 .. Limit
  BY LimitAssumption, AbsoluteValue DEF Integer
<1>2. \A h \in 1 .. Limit : Magnitude(x) \div h \in 0 .. Magnitude(x)
  <2>1. SUFFICES ASSUME NEW h \in 1 .. Limit PROVE Magnitude(x) \div h \in 0 .. Magnitude(x)
    OBVIOUS
  <2> DEFINE q == Magnitude(x) \div h
             r == Magnitude(x) % h
  <2>2. h \in Nat \ {0} /\ q \in Int /\ r \in 0 .. h - 1 /\ Magnitude(x) = h * q + r
    <3>1. h \in Nat \ {0} /\ Magnitude(x) \in Int
      BY <1>1
    <3> QED BY <3>1, Division
  <2> HIDE DEF q, r
  <2>3. ~(q <= -1)
    <3>1. SUFFICES ASSUME q <= -1 PROVE FALSE
      OBVIOUS
    <3>2. h * q <= -h
      BY <2>2, <3>1
    <3> QED BY <1>1, <2>2, <3>2
  <2>4. h * q >= q
    BY <2>2, <2>3
  <2> QED BY <1>1, <2>2, <2>3, <2>4 DEF q
<1>3. CASE g < Limit
  <2>1. Wrap(g) = g /\ Magnitude(g) = g /\ ~(g < 0)
    BY <1>1, <1>3, Wrapping DEF Integer, Magnitude
  <2>2. Magnitude(x) \div g \in 0 .. Magnitude(x)
    BY <1>2
  <2>3. SDiv(x, Wrap(g)) = IF x < 0 THEN -(Magnitude(x) \div g) ELSE Magnitude(x) \div g
    BY <2>1 DEF SDiv
  <2>4. x >= 0 => Magnitude(x) <= Limit - 1
    BY <1>1 DEF Magnitude, Integer
  <2> QED BY <1>1, <2>2, <2>3, <2>4 DEF Integer
<1>4. CASE g = Limit
  <2>1. Wrap(g) = -Limit /\ Magnitude(-Limit) = Limit
    BY <1>1, <1>4, Wrapping DEF Magnitude
  <2>2. Magnitude(x) \div Limit \in 0 .. 1
    <3> DEFINE q == Magnitude(x) \div Limit
               r == Magnitude(x) % Limit
    <3>1. q \in Int /\ r \in 0 .. Limit - 1 /\ Magnitude(x) = Limit * q + r
      <4>1. Limit \in Nat \ {0} /\ Magnitude(x) \in Int
        BY <1>1
      <4> QED BY <4>1, Division
    <3>2. q >= 0
      BY <1>1, <1>2
    <3> HIDE DEF q, r
    <3>3. ~(q >= 2)
      <4>1. SUFFICES ASSUME q >= 2 PROVE FALSE
        OBVIOUS
      <4>2. Limit * q >= Limit * 2
        BY <1>1, <3>1, <4>1
      <4> QED BY <1>1, <3>1, <4>2
    <3> QED BY <3>1, <3>2, <3>3 DEF q
  <2>3. SDiv(x, Wrap(g)) \in {Magnitude(x) \div Limit, -(Magnitude(x) \div Limit)}
    BY <2>1 DEF SDiv
  <2> QED BY <1>1, <2>2, <2>3 DEF Integer
<1> QED BY <1>1, <1>3, <1>4

\* Of two equal fractions with a third, the outer ones are equal.
LEMMA SameTransitive ==
  ASSUME NEW f \in [num : Int, den : Int], NEW g \in [num : Int, den : Int],
         NEW h \in [num : Int, den : Int], g.den # 0, SameFraction(f, g), SameFraction(h, g)
  PROVE  SameFraction(f, h)
<1> DEFINE a == f.num  b == f.den  p == g.num  q == g.den  c == h.num  d == h.den
<1>1. /\ a \in Int /\ b \in Int /\ p \in Int /\ q \in Int /\ c \in Int /\ d \in Int
      /\ a * q = p * b /\ c * q = p * d /\ q # 0
  BY DEF SameFraction
<1> HIDE DEF a, b, p, q, c, d
<1>2. (a * d - c * b) * q = (a * q) * d - (c * q) * b
  BY <1>1
<1>3. (a * q) * d - (c * q) * b = (p * b) * d - (p * d) * b
  BY <1>1
<1>4. (p * b) * d - (p * d) * b = 0
  BY <1>1
<1>5. a * d - c * b = 0
  BY <1>1, <1>2, <1>3, <1>4, ZeroProduct
<1> QED BY <1>1, <1>5 DEF SameFraction, a, b, c, d

\* Behind the loop the divisor is positive and not larger than the numbers it divides.
LEMMA Divisor ==
  ASSUME IInv, phase = "gcd", gcdb = 0, gcda # 0
  PROVE  gcda \in 1 .. Limit
<1>1. /\ Numerator \in 0 .. Limit /\ Denominator \in 0 .. Limit
      /\ gcda \in Nat /\ Limit \in Nat
  BY Halves
<1>2. CommonDivisor(gcda, Numerator, Denominator)
  BY EndOfLoop
<1>3. Numerator > 0 \/ Denominator > 0
  <2>1. SUFFICES ASSUME Numerator = 0, Denominator = 0 PROVE FALSE
    BY <1>1
  <2>2. CommonDivisor(0, Numerator, Denominator)
    BY <2>1, SimpleDivisors DEF CommonDivisor
  <2>3. Divides(0, gcda)
    BY <2>2, EndOfLoop
  <2> QED BY <1>1, <2>3, SimpleDivisors
<1> QED BY <1>1, <1>2, <1>3, SimpleDivisors DEF CommonDivisor

\* Both halves are divided by the divisor; the number is the same.
LEMMA EndKeeps ==
  ASSUME IInv, GcdEnd
  PROVE  IInv'
<1>1. phase = "gcd" /\ gcdb = 0 /\ wrapped' = wrapped /\ gcda' = 0 /\ gcdb' = 0
  BY DEF GcdEnd
<1>2. 0 \in 0 .. 2 * Limit - 1
  BY LimitAssumption
<1>3. CASE gcda = 0
  <2>1. phase' = "undefined" /\ UNCHANGED <<value, number>>
    BY <1>3 DEF GcdEnd, Gcd
  <2>2. ~HasValue
    <3>1. SUFFICES ASSUME value.den > 0 PROVE FALSE
      BY <1>1 DEF IInv, SameNumber
    <3>2. Divides(0, Denominator)
      BY <1>1, <1>3, EndOfLoop DEF CommonDivisor
    <3>3. Denominator = 0
      BY <1>1, <3>2, Halves DEF Divides
    <3>4. value.den \in 0 .. 2 * Limit - 1 /\ 2 * Limit \in Nat \ {0} /\ value.den \in Int
      BY <3>1, LimitAssumption DEF IInv, TypeOK, Integer
    <3> QED BY <3>1, <3>3, <3>4, SmallRemainder DEF Denominator, Unsigned
  <2> QED
    BY <1>1, <1>2, <2>1, <2>2 DEF IInv, TypeOK, SameDivisors, SameNumber, UndefinedOnlyWithoutValue, ValuesAreExact, HasValue
<1>4. CASE gcda # 0
  <2> DEFINE g == Wrap(gcda)
  <2>1. /\ phase' = "simple"
        /\ value' = Fraction(SDiv(value.num, g), SDiv(value.den, g))
        /\ number' = IF number = NoNumber THEN number ELSE LowestTerms(number)
    BY <1>4 DEF GcdEnd, Gcd
  <2>2. gcda \in 1 .. Limit
    BY <1>1, <1>4, Divisor
  <2>3. value' \in [num : Integer, den : Integer]
    <3>1. value.num \in Integer /\ value.den \in Integer
      BY DEF IInv, TypeOK
    <3> QED BY <2>1, <2>2, <3>1, QuotientInRange DEF Fraction
  <2>4. TypeOK' /\ SameDivisors'
    BY <1>1, <1>2, <2>1, <2>3 DEF IInv, TypeOK, SameDivisors
  <2>5. ASSUME HasValue
        PROVE  /\ number' \in [num : Int, den : Int] /\ number'.den # 0
               /\ value'.den # 0 /\ SameFraction(value', number')
    <3>1. /\ number \in [num : Int, den : Int] /\ number.den # 0 /\ number # NoNumber
          /\ value.den > 0 /\ SameFraction(value, number)
      BY <1>1, <2>5 DEF IInv, SameNumber, UndefinedOnlyWithoutValue, ValuesAreExact, HasValue, SameFraction
    <3>2. /\ number' = LowestTerms(number) /\ number' \in [num : Int, den : Int]
          /\ number'.den > 0 /\ SameFraction(number', number)
      BY <2>1, <3>1, LowestTermsAreEqual
    <3>3. /\ value.num \in Integer /\ value.den \in Integer /\ Limit \in Nat \ {0, 1}
          /\ value.num \in Int /\ value.den \in Int
      BY LimitAssumption DEF IInv, TypeOK, Integer
    <3>4. Denominator = value.den
      <4>1. value.den \in 0 .. 2 * Limit - 1 /\ 2 * Limit \in Nat \ {0}
        BY <3>1, <3>3 DEF Integer
      <4> QED BY <4>1, SmallRemainder DEF Denominator, Unsigned
    <3>5. Divides(gcda, Magnitude(value.num)) /\ Divides(gcda, value.den)
      BY <1>1, <3>4, EndOfLoop DEF CommonDivisor, Numerator
    <3>6. gcda \in Nat \ {0} /\ gcda <= value.den
      BY <2>2, <3>1, <3>3, <3>5, SimpleDivisors
    <3>7. g = gcda
      <4>1. gcda \in Integer /\ gcda \in Int
        BY <3>3, <3>6 DEF Integer
      <4> QED BY <4>1, Wrapping
    <3>8. Magnitude(value.den) = value.den
      BY <3>1, <3>3 DEF Magnitude
    <3>9. /\ SDiv(value.num, gcda) \in Int /\ SDiv(value.num, gcda) * gcda = value.num
          /\ SDiv(value.den, gcda) \in Int /\ SDiv(value.den, gcda) * gcda = value.den
      BY <3>3, <3>5, <3>6, <3>8, SignedQuotient
    <3>10. /\ value' \in [num : Int, den : Int] /\ value'.num * gcda = value.num
           /\ value'.den * gcda = value.den
      BY <2>1, <3>7, <3>9 DEF Fraction
    <3>11. value'.den # 0
      BY <3>1, <3>6, <3>10
    <3>12. SameFraction(value', number)
      <4>1. (value'.num * gcda) * number.den = number.num * (value'.den * gcda)
        BY <3>1, <3>10 DEF SameFraction
      <4> DEFINE a == value'.num  b == value'.den  p == number.num  q == number.den
      <4>2. a \in Int /\ b \in Int /\ p \in Int /\ q \in Int
        BY <3>1, <3>10
      <4>3. (a * gcda) * q = p * (b * gcda)
        BY <4>1
      <4> HIDE DEF a, b, p, q
      <4>4. (a * q - p * b) * gcda = (a * gcda) * q - p * (b * gcda)
        BY <3>6, <4>2
      <4>5. a * q - p * b = 0
        BY <3>6, <4>2, <4>3, <4>4, ZeroProduct
      <4>6. a * q = p * b
        BY <4>2, <4>5
      <4> QED BY <4>6 DEF SameFraction, a, b, p, q
    <3>13. SameFraction(value', number')
      BY <3>1, <3>2, <3>10, <3>12, SameTransitive
    <3> QED BY <3>2, <3>11, <3>13
  <2>6. ASSUME ~HasValue PROVE number' = number /\ number = NoNumber
    BY <2>1, <2>6 DEF HasValue
  <2>7. SameNumber'
    <3>1. CASE HasValue
      BY <2>1, <2>5, <3>1 DEF SameNumber, UndefinedOnlyWithoutValue, ValuesAreExact, SameFraction
    <3>2. CASE ~HasValue
      BY <2>1, <2>6, <3>2 DEF IInv, SameNumber, UndefinedOnlyWithoutValue, ValuesAreExact, HasValue
    <3> QED BY <3>1, <3>2
  <2> QED BY <2>4, <2>7 DEF IInv
<1> QED BY <1>3, <1>4

-----------------------------------------------------------------------------
\* The invariant is inductive.
LEMMA NextKeeps == IInv /\ [Next]_vars => IInv'
<1> SUFFICES ASSUME IInv, [Next]_vars PROVE IInv'
  OBVIOUS
<1>1. ASSUME NEW n \in Integer, NEW d \in Integer, OverOperator(n, d) PROVE IInv'
  BY <1>1, OverKeeps
<1>2. ASSUME NEW x \in Operands, Load(x) PROVE IInv'
  BY <1>2, LoadKeeps
<1>3. ASSUME NEW x \in Operands, Operation(x) PROVE IInv'
  BY <1>3, OperationKeeps
<1>4. CASE SimplifyRational
  BY <1>4, SimplifyKeeps
<1>5. CASE GcdStep
  BY <1>5, StepKeeps
<1>6. CASE GcdEnd
  BY <1>6, EndKeeps
<1>7. ASSUME UNCHANGED vars PROVE IInv'
  <2>1. UNCHANGED <<value, number, wrapped, phase, gcda, gcdb>>
    BY <1>7 DEF vars
  <2>2. TypeOK'
    BY <2>1 DEF IInv, TypeOK
  <2>3. SameDivisors'
    <3>1. Numerator' = Numerator /\ Denominator' = Denominator
      BY <2>1 DEF Numerator, Denominator
    <3> QED BY <2>1, <3>1 DEF IInv, SameDivisors
  <2>4. SameNumber'
    BY <2>1 DEF IInv, SameNumber, UndefinedOnlyWithoutValue, ValuesAreExact, HasValue
  <2> QED BY <2>2, <2>3, <2>4 DEF IInv
<1> QED BY <1>1, <1>2, <1>3, <1>4, <1>5, <1>6, <1>7 DEF Next, Simplifying

\* The invariant holds in every state of every calculation.
THEOREM Invariance == Spec => []IInv
BY InitEstablishes, NextKeeps, PTL DEF Spec

(* All integers are the machine's, for every width: no operation, and no   *)
(* division by the gcd, gives one outside.                                 *)
THEOREM TypeCorrect == Spec => []TypeOK
<1>1. IInv => TypeOK
  BY DEF IInv
<1> QED BY <1>1, Invariance, PTL

(* As long as no integer wraps around, values are what exact arithmetic    *)
(* has, through any number of operations and simplifications.              *)
THEOREM Exact == Spec => []ValuesAreExact
<1>1. IInv => ValuesAreExact
  BY DEF IInv, SameNumber
<1> QED BY <1>1, Invariance, PTL

\* The division by the gcd is undefined only for what is no number.
THEOREM Defined == Spec => []UndefinedOnlyWithoutValue
<1>1. IInv => UndefinedOnlyWithoutValue
  BY DEF IInv, SameNumber
<1> QED BY <1>1, Invariance, PTL

\* The loop gives the greatest common divisor, for every width and the smallest integer too.
THEOREM GreatestCommonDivisor == Spec => []GcdIsGreatest
BY Greatest, Invariance, PTL

-----------------------------------------------------------------------------
(* Lowest terms.  Equal fractions in lowest terms are the same: of all the *)
(* equal fractions they have the least denominator.                        *)

\* The numerator and the denominator have no common divisor but one.
Reduced(f) ==
  \A k \in Nat : CommonDivisor(k, Magnitude(f.num), f.den) => k = 1

\* The denominators that a fraction equal to f can have.
DenominatorsOf(f) == {e \in Nat \ {0} : \E c \in Int : c * f.den = f.num * e}

\* Factors that are not zero are cancelled.
LEMMA Cancelled ==
  ASSUME NEW a \in Int, NEW b \in Int, NEW c \in Int, c # 0, a * c = b * c
  PROVE  a = b
<1>1. (a - b) * c = a * c - b * c
  OBVIOUS
<1>2. a - b = 0
  BY <1>1, ZeroProduct
<1> QED BY <1>2

\* A product of magnitudes.
LEMMA MagnitudeOfProduct ==
  ASSUME NEW a \in Int, NEW q \in Nat
  PROVE  Magnitude(a * q) = Magnitude(a) * q /\ Magnitude(a) \in Nat
<1>1. CASE a < 0
  <2>1. q = 0 \/ q > 0
    OBVIOUS
  <2>2. CASE q > 0
    <3>1. a * q <= -q /\ -(a * q) = (-a) * q
      BY <1>1, <2>2
    <3> QED BY <1>1, <2>2, <3>1 DEF Magnitude
  <2>3. CASE q = 0
    BY <1>1, <2>3 DEF Magnitude
  <2> QED BY <2>1, <2>2, <2>3
<1>2. CASE a >= 0
  <2>1. a * q >= 0
    BY <1>2
  <2> QED BY <1>2, <2>1 DEF Magnitude
<1> QED BY <1>1, <1>2

\* No fraction equal to a fraction in lowest terms has a smaller denominator.
LEMMA ReducedIsLeast ==
  ASSUME NEW f \in [num : Int, den : Nat \ {0}], Reduced(f), NEW e \in DenominatorsOf(f)
  PROVE  f.den <= e
<1> DEFINE a == f.num
           b == f.den
           S == DenominatorsOf(f)
<1>1. a \in Int /\ b \in Nat \ {0}
  OBVIOUS
<1>2. S \subseteq Nat /\ b \in S /\ e \in S
  BY DEF DenominatorsOf
<1>3. S # {}
  BY <1>2
<1>4. \A x : x \in S <=> x \in Nat \ {0} /\ \E c \in Int : c * b = a * x
  BY DEF DenominatorsOf
<1>5. \A k \in Nat : CommonDivisor(k, Magnitude(a), b) => k = 1
  BY DEF Reduced
<1> HIDE DEF a, b, S
<1>6. PICK m \in S : \A y \in S : m <= y
  BY ONLY <1>2, <1>3, LeastElement
<1>7. PICK c \in Int : c * b = a * m
  BY ONLY <1>4, <1>6
<1>8. m \in Nat \ {0}
  BY ONLY <1>4, <1>6
<1> DEFINE q == b \div m
           r == b % m
<1>9. q \in Int /\ r \in 0 .. m - 1 /\ b = m * q + r
  <2>1. b \in Int /\ m \in Nat \ {0}
    BY ONLY <1>1, <1>8
  <2> QED BY ONLY <2>1, Division
<1> HIDE DEF q, r
\* The remainder would be a smaller denominator.
<1>10. r = 0
  <2>1. SUFFICES ASSUME r # 0 PROVE FALSE
    OBVIOUS
  <2>2. r \in Nat \ {0} /\ r < m
    BY ONLY <1>8, <1>9, <2>1
  <2>3. a - c * q \in Int
    BY ONLY <1>1, <1>7, <1>9
  <2>4. (a - c * q) * b = a * r
    <3>1. (a - c * q) * b = a * b - (c * b) * q
      BY ONLY <1>1, <1>7, <1>9
    <3>2. (c * b) * q = a * (m * q)
      BY ONLY <1>1, <1>7, <1>8, <1>9
    <3>3. a * b = a * (m * q) + a * r
      BY ONLY <1>1, <1>8, <1>9, <2>2
    <3> QED BY ONLY <1>1, <1>8, <1>9, <2>2, <3>1, <3>2, <3>3
  <2>5. r \in S
    BY ONLY <1>4, <2>2, <2>3, <2>4
  <2> QED BY ONLY <1>6, <1>8, <2>2, <2>5
<1>11. b = m * q /\ q \in Nat \ {0}
  <2>1. b = m * q
    BY ONLY <1>1, <1>8, <1>9, <1>10
  <2>2. ~(q <= 0)
    <3>1. SUFFICES ASSUME q <= 0 PROVE FALSE
      OBVIOUS
    <3>2. m * q <= 0
      BY ONLY <1>8, <1>9, <3>1
    <3> QED BY ONLY <1>1, <2>1, <3>2
  <2> QED BY ONLY <1>9, <2>1, <2>2
<1>12. a = c * q
  <2>1. c * q \in Int
    BY ONLY <1>7, <1>11
  <2>2. (c * q) * m = c * (m * q)
    BY ONLY <1>7, <1>8, <1>11
  <2>3. (c * q) * m = a * m
    BY ONLY <1>7, <1>11, <2>2
  <2> QED BY ONLY <1>1, <1>8, <2>1, <2>3, Cancelled
<1>13. CommonDivisor(q, Magnitude(a), b)
  <2>1. Magnitude(a) = Magnitude(c) * q /\ Magnitude(c) \in Nat
    BY ONLY <1>7, <1>11, <1>12, MagnitudeOfProduct
  <2>2. Magnitude(a) = q * Magnitude(c) /\ b = q * m
    BY ONLY <1>8, <1>11, <2>1
  <2> QED BY ONLY <1>8, <1>11, <2>1, <2>2, Quotient DEF CommonDivisor
<1>14. q = 1
  BY ONLY <1>5, <1>11, <1>13
<1>15. b = m
  BY ONLY <1>8, <1>11, <1>14
<1> QED BY ONLY <1>2, <1>6, <1>15 DEF b


\* Equal fractions in lowest terms are the same.
LEMMA ReducedIsUnique ==
  ASSUME NEW f \in [num : Int, den : Nat \ {0}], NEW g \in [num : Int, den : Nat \ {0}],
         Reduced(f), Reduced(g), SameFraction(f, g)
  PROVE  f = g
<1>1. f.num \in Int /\ f.den \in Nat \ {0} /\ g.num \in Int /\ g.den \in Nat \ {0}
  OBVIOUS
<1>2. g.num * f.den = f.num * g.den /\ f.num * g.den = g.num * f.den
  BY <1>1 DEF SameFraction
<1>3. g.den \in DenominatorsOf(f) /\ f.den \in DenominatorsOf(g)
  BY <1>1, <1>2 DEF DenominatorsOf
<1>4. f.den <= g.den /\ g.den <= f.den
  BY <1>3, ReducedIsLeast
<1>5. f.den = g.den
  BY ONLY <1>1, <1>4
<1>6. f.num = g.num
  <2>1. f.num * f.den = g.num * f.den /\ f.den # 0 /\ f.den \in Int
    BY ONLY <1>1, <1>2, <1>5
  <2> QED BY ONLY <1>1, <2>1, Cancelled
<1> QED BY <1>5, <1>6

\* A product of divisors.
LEMMA DividesProduct ==
  ASSUME NEW k \in Nat, NEW g \in Nat, NEW p \in Nat, Divides(k, p)
  PROVE  Divides(g * k, g * p)
<1>1. PICK q \in 0 .. p : p = k * q
  BY DEF Divides
<1>2. g * p = (g * k) * q /\ g * k \in Nat /\ g * p \in Nat /\ q \in Nat
  BY <1>1
<1> QED BY ONLY <1>2, Quotient

\* Division by the greatest common divisor gives a fraction in lowest terms.
LEMMA GreatestReduces ==
  ASSUME NEW n \in Nat, NEW d \in Nat \ {0}, NEW g \in Nat \ {0}, NEW p \in Nat, NEW q \in Nat,
         n = g * p, d = g * q,
         \A k \in Nat \ {0} : CommonDivisor(k, n, d) => k <= g
  PROVE  \A k \in Nat : CommonDivisor(k, p, q) => k = 1
<1>1. SUFFICES ASSUME NEW k \in Nat, CommonDivisor(k, p, q) PROVE k = 1
  OBVIOUS
<1>2. q > 0
  OBVIOUS
<1>3. k \in 1 .. q
  BY <1>1, <1>2, SimpleDivisors DEF CommonDivisor
<1>4. g * k \in Nat \ {0}
  BY <1>3
<1>5. CommonDivisor(g * k, n, d)
  BY <1>1, DividesProduct DEF CommonDivisor
<1>6. g * k <= g
  BY <1>4, <1>5
<1>7. ~(k >= 2)
  <2>1. SUFFICES ASSUME k >= 2 PROVE FALSE
    OBVIOUS
  <2>2. g * k >= 2 * g
    BY <2>1
  <2> QED BY <1>6, <2>2
<1> QED BY <1>3, <1>7

\* The common divisors of a fraction in lowest terms.
LEMMA LowestTermsAreReduced ==
  ASSUME NEW f \in [num : Int, den : Int], f.den # 0
  PROVE  LowestTerms(f) \in [num : Int, den : Nat \ {0}] /\ Reduced(LowestTerms(f))
<1> DEFINE n == Magnitude(f.num)
           d == Magnitude(f.den)
           sign == IF (f.num < 0) = (f.den < 0) THEN 1 ELSE -1
           g == CHOOSE k \in 0..(n + d) : /\ CommonDivisor(k, n, d)
                                          /\ \A j \in 0..(n + d) : CommonDivisor(j, n, d) => j <= k
<1>1. n \in Nat /\ d \in Nat \ {0}
  BY DEF Magnitude
<1>2. LowestTerms(f) = Fraction((IF (f.num < 0) = (f.den < 0) THEN n ELSE -n) \div g, d \div g)
  BY DEF LowestTerms
<1> HIDE DEF n, d
<1>3. /\ g \in 0 .. (n + d) /\ CommonDivisor(g, n, d)
      /\ \A j \in 0..(n + d) : CommonDivisor(j, n, d) => j <= g
  BY <1>1, GreatestExists
<1> HIDE DEF g
<1>4. g \in Nat \ {0}
  BY <1>1, <1>3, SimpleDivisors DEF CommonDivisor
<1>5. PICK p \in 0 .. n : n = g * p
  BY <1>3 DEF CommonDivisor, Divides
<1>6. PICK q \in 0 .. d : d = g * q
  BY <1>3 DEF CommonDivisor, Divides
<1>7. p \in Nat /\ q \in Nat /\ q > 0
  BY <1>1, <1>4, <1>5, <1>6
<1>8. d \div g = q /\ n \div g = p /\ (-n) \div g = -p
  <2>1. -n = g * (-p)
    BY <1>1, <1>4, <1>5, <1>7
  <2> QED BY <1>4, <1>5, <1>6, <1>7, <2>1, ExactQuotient
<1>9. LowestTerms(f) = Fraction(sign * p, q)
  BY <1>2, <1>7, <1>8
<1>10. \A k \in Nat \ {0} : CommonDivisor(k, n, d) => k <= g
  <2>1. ASSUME NEW k \in Nat \ {0}, CommonDivisor(k, n, d) PROVE k <= g
    <3>1. k \in 1 .. d
      BY <1>1, <2>1, SimpleDivisors DEF CommonDivisor
    <3>2. k \in 0 .. (n + d)
      BY ONLY <1>1, <3>1
    <3> QED BY ONLY <1>3, <2>1, <3>2
  <2> QED BY ONLY <2>1
<1>11. \A k \in Nat : CommonDivisor(k, p, q) => k = 1
  BY ONLY <1>1, <1>4, <1>5, <1>6, <1>7, <1>10, GreatestReduces
<1>12. /\ LowestTerms(f).num = sign * p /\ LowestTerms(f).den = q
       /\ LowestTerms(f) \in [num : Int, den : Nat \ {0}]
  BY <1>7, <1>9 DEF Fraction
<1>13. Magnitude(sign * p) = p
  BY ONLY <1>7 DEF Magnitude, sign
<1>14. Magnitude(LowestTerms(f).num) = p
  BY ONLY <1>12, <1>13
<1> QED BY ONLY <1>11, <1>12, <1>14 DEF Reduced

\* Lowest terms of lowest terms.
LEMMA LowestTermsTwice ==
  ASSUME NEW f \in [num : Int, den : Nat \ {0}], Reduced(f)
  PROVE  LowestTerms(f) = f
<1>1. f \in [num : Int, den : Int] /\ f.den # 0
  OBVIOUS
<1>2. SameFraction(LowestTerms(f), f)
  BY <1>1, LowestTermsAreEqual
<1>3. LowestTerms(f) \in [num : Int, den : Nat \ {0}] /\ Reduced(LowestTerms(f))
  BY <1>1, LowestTermsAreReduced
<1> HIDE DEF Reduced, SameFraction
<1> QED BY <1>2, <1>3, ReducedIsUnique

-----------------------------------------------------------------------------
(* The inductive invariant of simplified values, next to that of all.      *)

InLowestTerms ==
  phase = "simple" /\ HasValue => value = number /\ number.den > 0 /\ Reduced(number)

\* What the loop leaves is in lowest terms.
LEMMA EndReduces ==
  ASSUME IInv, IInv', GcdEnd
  PROVE  InLowestTerms'
<1>1. SUFFICES ASSUME phase' = "simple", HasValue' PROVE value' = number' /\ number'.den > 0 /\ Reduced(number)'
  BY DEF InLowestTerms
<1> DEFINE g == Wrap(gcda)
<1>2. phase = "gcd" /\ gcdb = 0 /\ gcda # 0
  BY <1>1 DEF GcdEnd, Gcd
<1>3. /\ value' = Fraction(SDiv(value.num, g), SDiv(value.den, g))
      /\ number' = IF number = NoNumber THEN number ELSE LowestTerms(number)
  BY <1>1 DEF GcdEnd, Gcd
<1>4. HasValue
  BY <1>1, <1>3 DEF HasValue
<1>5. /\ number \in [num : Int, den : Int] /\ number.den # 0
      /\ value.den > 0
  BY <1>2, <1>4 DEF IInv, SameNumber, HasValue
<1>6. number' = LowestTerms(number)
  BY <1>3, <1>4 DEF HasValue
<1>7. number' \in [num : Int, den : Nat \ {0}] /\ Reduced(number')
  BY <1>5, <1>6, LowestTermsAreReduced
<1>8. gcda \in 1 .. Limit
  BY <1>2, Divisor
<1>9. /\ value.num \in Integer /\ value.den \in Integer /\ Limit \in Nat \ {0, 1}
      /\ value.num \in Int /\ value.den \in Int
  BY LimitAssumption DEF IInv, TypeOK, Integer
<1>10. Denominator = value.den
  <2>1. value.den \in 0 .. 2 * Limit - 1 /\ 2 * Limit \in Nat \ {0}
    BY <1>5, <1>9 DEF Integer
  <2> QED BY <2>1, SmallRemainder DEF Denominator, Unsigned
<1>11. /\ CommonDivisor(gcda, Magnitude(value.num), value.den)
       /\ \A k \in Nat : CommonDivisor(k, Magnitude(value.num), value.den) => Divides(k, gcda)
  BY <1>2, <1>10, EndOfLoop DEF Numerator
<1>12. gcda \in Nat \ {0} /\ gcda <= value.den
  BY <1>5, <1>8, <1>9, <1>11, SimpleDivisors DEF CommonDivisor
<1>13. g = gcda
  <2>1. gcda \in Integer /\ gcda \in Int
    BY <1>9, <1>12 DEF Integer
  <2> QED BY <2>1, Wrapping
<1>14. Magnitude(value.den) = value.den
  BY <1>5, <1>9 DEF Magnitude
<1> DEFINE a == SDiv(value.num, gcda)
           b == SDiv(value.den, gcda)
<1>15. a \in Int /\ a * gcda = value.num /\ b \in Int /\ b * gcda = value.den
  BY <1>9, <1>11, <1>12, <1>14, SignedQuotient DEF CommonDivisor
<1>16. value' = Fraction(a, b)
  BY <1>3, <1>13
<1> HIDE DEF a, b, g
<1>17. b > 0 /\ b \in Nat \ {0}
  <2>1. b \in Int
    BY ONLY <1>15
  <2>2. ~(b <= 0)
    <3>1. SUFFICES ASSUME b <= 0 PROVE FALSE
      OBVIOUS
    <3>2. b * gcda <= 0
      BY ONLY <1>12, <2>1, <3>1
    <3> QED BY ONLY <1>5, <1>9, <1>15, <3>2
  <2> QED BY ONLY <2>1, <2>2
<1>18. Magnitude(value.num) = gcda * Magnitude(a) /\ Magnitude(a) \in Nat /\ value.den = gcda * b
  <2>1. Magnitude(a * gcda) = Magnitude(a) * gcda /\ Magnitude(a) \in Nat
    BY ONLY <1>12, <1>15, MagnitudeOfProduct
  <2> QED BY ONLY <1>12, <1>15, <1>17, <2>1
<1>19. \A k \in Nat : CommonDivisor(k, Magnitude(a), b) => k = 1
  <2> DEFINE n == Magnitude(value.num)
             d == value.den
             p == Magnitude(a)
  <2>1. /\ n \in Nat /\ d \in Nat \ {0} /\ gcda \in Nat \ {0} /\ p \in Nat /\ b \in Nat
        /\ n = gcda * p /\ d = gcda * b
    BY <1>5, <1>9, <1>12, <1>17, <1>18 DEF Magnitude
  <2>2. \A k \in Nat \ {0} : CommonDivisor(k, n, d) => k <= gcda
    <3>1. ASSUME NEW k \in Nat \ {0}, CommonDivisor(k, n, d) PROVE k <= gcda
      <4>1. Divides(k, gcda)
        BY ONLY <1>11, <3>1
      <4>2. k \in 1 .. gcda
        BY ONLY <1>12, <4>1, k \in Nat \ {0}, SimpleDivisors
      <4> QED BY ONLY <1>12, <4>2
    <3> QED BY ONLY <3>1
  <2> HIDE DEF n, d, p
  <2>3. \A k \in Nat : CommonDivisor(k, p, b) => k = 1
    BY ONLY <2>1, <2>2, GreatestReduces
  <2> QED BY ONLY <2>3 DEF p
<1>20. /\ value'.num = a /\ value'.den = b
       /\ value' \in [num : Int, den : Nat \ {0}] /\ Reduced(value')
  BY <1>15, <1>16, <1>17, <1>19 DEF Fraction, Reduced
<1>21. SameFraction(value', number')
  BY <1>1 DEF IInv, SameNumber, ValuesAreExact, SameFraction
<1>22. value' = number'
  <2> DEFINE v == value'
             w == number'
  <2>1. /\ v \in [num : Int, den : Nat \ {0}] /\ Reduced(v)
        /\ w \in [num : Int, den : Nat \ {0}] /\ Reduced(w)
        /\ SameFraction(v, w)
    BY <1>7, <1>20, <1>21
  <2> HIDE DEF v, w
  <2>2. v = w
    BY ONLY <2>1, ReducedIsUnique
  <2> QED BY <2>2 DEF v, w
<1> QED BY <1>7, <1>22

\* Simplified values stay in lowest terms.
LEMMA NextReduces == IInv /\ IInv' /\ InLowestTerms /\ [Next]_vars => InLowestTerms'
<1> SUFFICES ASSUME IInv, IInv', InLowestTerms, [Next]_vars PROVE InLowestTerms'
  OBVIOUS
<1>1. ASSUME NEW n \in Integer, NEW d \in Integer, OverOperator(n, d) PROVE phase' # "simple"
  BY <1>1 DEF OverOperator
<1>2. ASSUME NEW x \in Operands, Load(x) \/ Operation(x) PROVE phase' # "simple"
  BY <1>2 DEF Load, Operation, Becomes
<1>3. CASE SimplifyRational \/ GcdStep
  <2>1. phase' # "simple"
    BY <1>3 DEF SimplifyRational, GcdStep
  <2> QED BY <2>1 DEF InLowestTerms
<1>4. CASE GcdEnd
  BY <1>4, EndReduces
<1>5. CASE UNCHANGED vars
  <2>1. UNCHANGED <<value, number, wrapped, phase, gcda, gcdb>>
    BY <1>5 DEF vars
  <2> QED BY <2>1 DEF InLowestTerms, HasValue, Reduced
<1> QED BY <1>1, <1>2, <1>3, <1>4, <1>5 DEF Next, Simplifying, InLowestTerms

\* The calculation starts with zero, in lowest terms.
LEMMA InitReduced == Init => InLowestTerms
<1> SUFFICES ASSUME Init PROVE value = number /\ number.den > 0 /\ Reduced(number)
  BY DEF InLowestTerms
<1>1. value = number /\ number.num = 0 /\ number.den = 1
  BY DEF Init, Fraction
<1>2. Magnitude(0) = 0
  BY DEF Magnitude
<1>3. \A k \in Nat : Divides(k, 1) => k = 1
  BY SimpleDivisors
<1> QED BY ONLY <1>1, <1>2, <1>3 DEF Reduced, CommonDivisor

(* Values that were simplified are in lowest terms in every state of every *)
(* calculation.                                                            *)
THEOREM Reduction == Spec => []InLowestTerms
BY InitReduced, NextReduces, Invariance, PTL DEF Spec

(* A simple value has the one form that RationalCmpEQ relies on, for every *)
(* width of the machine's integers.                                        *)
THEOREM Canonicity == Spec => []SimpleValuesAreCanonical
<1>1. IInv /\ InLowestTerms => SimpleValuesAreCanonical
  <2> SUFFICES ASSUME IInv, InLowestTerms, phase = "simple", HasValue
               PROVE  value = LowestTerms(number)
    BY DEF SimpleValuesAreCanonical
  <2>1. value = number /\ number.den > 0 /\ Reduced(number)
    BY DEF InLowestTerms
  <2>2. number \in [num : Int, den : Nat \ {0}]
    BY <2>1 DEF IInv, SameNumber
  <2> QED BY <2>1, <2>2, LowestTermsTwice
<1> QED BY <1>1, Invariance, Reduction, PTL

\* Fractions in lowest terms are equal when the products are.
LEMMA EqualFractions ==
  ASSUME NEW f \in [num : Int, den : Nat \ {0}], NEW g \in [num : Int, den : Nat \ {0}],
         Reduced(f), Reduced(g)
  PROVE  f = g <=> f.num * g.den = g.num * f.den
<1>1. f = g => f.num * g.den = g.num * f.den
  OBVIOUS
<1>2. f.num * g.den = g.num * f.den => f = g
  BY ReducedIsUnique DEF SameFraction
<1> QED BY <1>1, <1>2

(* Simple values whose products fit compare as the numbers they stand for, *)
(* for every width and all operands.                                       *)
THEOREM Comparison == Spec => []ComparisonsAreExact
<1>1. IInv /\ InLowestTerms => ComparisonsAreExact
  <2> SUFFICES ASSUME IInv, InLowestTerms, phase = "simple", HasValue,
                      NEW x \in Operands, Canonical(x)
               PROVE  LET l == number.num * x.den
                          r == x.num * number.den
                      IN  /\ RationalCmpEQ(value, x) <=> l = r
                          /\ RationalCmpNEQ(value, x) <=> l # r
                          /\ {l, r} \subseteq Integer =>
                               /\ RationalCmpGT(value, x) <=> l > r
                               /\ RationalCmpLT(value, x) <=> l < r
                               /\ RationalCmpGEQ(value, x) <=> l >= r
                               /\ RationalCmpLEQ(value, x) <=> l <= r
    BY DEF ComparisonsAreExact
  <2> DEFINE l == number.num * x.den
             r == x.num * number.den
  <2>1. value = number /\ number.den > 0 /\ Reduced(number)
    BY DEF InLowestTerms
  <2>2. number \in [num : Int, den : Nat \ {0}]
    BY <2>1 DEF IInv, SameNumber
  <2>3. x \in [num : Int, den : Nat \ {0}] /\ Reduced(x)
    <3>1. x \in [num : Int, den : Int] /\ x.den > 0 /\ x = LowestTerms(x)
      BY OperandsAssumption, LimitAssumption DEF Canonical, Integer
    <3>2. LowestTerms(x) \in [num : Int, den : Nat \ {0}] /\ Reduced(LowestTerms(x))
      BY <3>1, LowestTermsAreReduced
    <3> QED BY ONLY <3>1, <3>2
  <2>4. value = x <=> l = r
    BY ONLY <2>1, <2>2, <2>3, EqualFractions
  <2>5. l \in Int /\ r \in Int
    BY ONLY <2>2, <2>3
  <2>6. Wrap(value.num * x.den) = Wrap(l) /\ Wrap(x.num * value.den) = Wrap(r)
    BY ONLY <2>1
  <2> HIDE DEF l, r
  <2>7. {l, r} \subseteq Integer => Wrap(l) = l /\ Wrap(r) = r
    BY ONLY <2>5, Wrapping
  <2>8. /\ RationalCmpEQ(value, x) <=> l = r
        /\ RationalCmpNEQ(value, x) <=> l # r
    BY ONLY <2>4 DEF RationalCmpEQ, RationalCmpNEQ
  <2>9. {l, r} \subseteq Integer =>
          /\ RationalCmpGT(value, x) <=> l > r
          /\ RationalCmpLT(value, x) <=> l < r
          /\ RationalCmpGEQ(value, x) <=> l >= r
          /\ RationalCmpLEQ(value, x) <=> l <= r
    BY ONLY <2>6, <2>7 DEF RationalCmpGT, RationalCmpLT, RationalCmpGEQ, RationalCmpLEQ
  <2> QED BY ONLY <2>8, <2>9 DEF l, r
<1> QED BY <1>1, Invariance, Reduction, PTL
=============================================================================
