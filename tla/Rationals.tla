----------------------------- MODULE Rationals ------------------------------
(***************************************************************************)
(* The rational numbers that a compiled program calculates with: a         *)
(* numerator and a denominator, each an integer of the machine.  An        *)
(* operation whose value is an operand of + - * / leaves it as it is; any  *)
(* other is brought to lowest terms, with a loop for the greatest common   *)
(* divisor.  The model is one calculation that goes on for ever: value is  *)
(* what the code has, number what it stands for.                           *)
(***************************************************************************)
EXTENDS Integers

CONSTANTS
  Limit,     \* integers are -Limit .. Limit-1, with 2^63 in the code
  Operands   \* what the variables and the elements of arrays can have

Integer == -Limit .. Limit - 1

ASSUME LimitAssumption == Limit \in Nat \ {0, 1}
ASSUME OperandsAssumption == Operands \subseteq [num : Integer, den : Integer]

VARIABLES
  value,    \* the numerator and the denominator
  number,   \* the exact fraction that the value stands for, or NoNumber
  wrapped,  \* whether an integer has wrapped around
  phase,    \* raw, gcd (in the loop), simple, or the end: error and undefined
  gcda,     \* the loop's registers, unsigned
  gcdb

vars == <<value, number, wrapped, phase, gcda, gcdb>>

Wrap(x) == ((x + Limit) % (2 * Limit)) - Limit
Unsigned(x) == x % (2 * Limit)
Magnitude(x) == IF x < 0 THEN -x ELSE x

\* Mutant: llvm.abs is told that the smallest integer does not occur.
AbsWithoutSmallest(x) == Magnitude(x)

\* llvm.abs, which leaves the smallest integer as it is.
WrappedAbs(x) == Wrap(Magnitude(x))

\* Signed division rounds towards zero.
SDiv(x, y) ==
  IF (x < 0) = (y < 0) THEN Magnitude(x) \div Magnitude(y)
  ELSE -(Magnitude(x) \div Magnitude(y))

Fraction(n, d) == [num |-> n, den |-> d]

-----------------------------------------------------------------------------
(* The operations, before an integer wraps around.                         *)

RationalAdd(a, b) == Fraction(a.num * b.den + b.num * a.den, a.den * b.den)

\* Mutant: the operands in the wrong order.
SubtractSwapped(a, b) == Fraction(b.num * a.den - a.num * b.den, a.den * b.den)
RationalSubtract(a, b) == Fraction(a.num * b.den - b.num * a.den, a.den * b.den)
RationalMultiply(a, b) == Fraction(a.num * b.num, a.den * b.den)
RationalDivide(a, b) == Fraction(a.num * b.den, a.den * b.num)
RationalNegation(a) == Fraction(0 - a.num, a.den)

\* The two halves are compared as one integer.
RationalCmpEQ(a, b) == a = b
RationalCmpNEQ(a, b) == ~RationalCmpEQ(a, b)
RationalCmpGT(a, b) == Wrap(a.num * b.den) > Wrap(b.num * a.den)

\* Mutant: each numerator times its own denominator.
CmpLTOfProducts(a, b) == Wrap(a.num * a.den) < Wrap(b.num * b.den)
RationalCmpLT(a, b) == Wrap(a.num * b.den) < Wrap(b.num * a.den)
RationalCmpGEQ(a, b) == Wrap(a.num * b.den) >= Wrap(b.num * a.den)
RationalCmpLEQ(a, b) == Wrap(a.num * b.den) <= Wrap(b.num * a.den)

-----------------------------------------------------------------------------
\* The elements of an array are zero bits when it is allocated.
ZeroFilled == Fraction(0, 0)

\* What stands for no number: a division by zero, an element never set, what wrapped around.
NoNumber == Fraction(0, 0)

\* All that an operand can be: a value, raw or simple, or an element never set.
Rational == [num : Integer, den : Integer \ {0}] \cup {ZeroFilled}

Init ==
  /\ value = Fraction(0, 1)
  /\ number = Fraction(0, 1)
  /\ wrapped = FALSE
  /\ phase = "simple"
  /\ gcda = 0
  /\ gcdb = 0

\* n // d, for a new calculation.
OverOperator(n, d) ==
  /\ phase = "simple"
  /\ \/ d = 0 /\ phase' = "error" /\ UNCHANGED <<value, number, wrapped>>
     \/ /\ d # 0
        /\ phase' = "raw"
        /\ value' = Fraction(n, d)
        /\ number' = Fraction(n, d)
        /\ wrapped' = FALSE
  /\ UNCHANGED <<gcda, gcdb>>

\* The value of a variable or an element, for a new calculation.
Load(x) ==
  /\ phase = "simple"
  /\ phase' = "raw"
  /\ value' = x
  /\ number' = IF x.den = 0 THEN NoNumber ELSE x
  /\ wrapped' = FALSE
  /\ UNCHANGED <<gcda, gcdb>>


\* The result of an operation, which stands for the exact fraction.
Becomes(result, exact) ==
  LET fits == {result.num, result.den} \subseteq Integer
  IN  /\ phase \in {"raw", "simple"}
      /\ phase' = "raw"
      /\ value' = Fraction(Wrap(result.num), Wrap(result.den))
      /\ wrapped' = (wrapped \/ ~fits)
      /\ number' = IF wrapped' \/ exact.den = 0 THEN NoNumber ELSE exact
      /\ UNCHANGED <<gcda, gcdb>>

ExactSubtract(a, b) == Fraction(a.num * b.den - b.num * a.den, a.den * b.den)

\* The operand x is on the right or on the left.
Operation(x) ==
  \/ Becomes(value, number)
  \/ Becomes(RationalNegation(value), Fraction(0 - number.num, number.den))
  \/ Becomes(RationalAdd(value, x), RationalAdd(number, x))
  \/ Becomes(RationalSubtract(value, x), ExactSubtract(number, x))
  \/ Becomes(RationalSubtract(x, value), ExactSubtract(x, number))
  \/ Becomes(RationalMultiply(value, x), RationalMultiply(number, x))
  \/ Becomes(RationalDivide(value, x), RationalDivide(number, x))
  \/ Becomes(RationalDivide(x, value), RationalDivide(x, number))

-----------------------------------------------------------------------------
\* Mutant: the sign stays where it is.
WithSignsKept(f) == Fraction(f.num, f.den)

\* The numerator has the sign, unless the denominator is the smallest integer.
WithSignAbove(f) ==
  Fraction(IF f.den < 0 THEN Wrap(0 - f.num) ELSE f.num, WrappedAbs(f.den))

\* SimplifyRational up to the loop, when the parent is no arithmetic operation.
SimplifyRational ==
  /\ phase = "raw"
  /\ phase' = "gcd"
  /\ value' = WithSignAbove(value)
  /\ gcda' = Unsigned(WrappedAbs(value'.num))
  /\ gcdb' = Unsigned(value'.den)
  /\ wrapped' = (wrapped \/ (value.den < 0 /\ -Limit \in {value.num, value.den}))
  /\ number' = IF wrapped' THEN NoNumber ELSE number

\* Mutants: the registers are exchanged, or the divisor is not.
ExchangedOnly(a, b)  == a
QuotientOnly(a, b) == a \div b

Remainder(a, b) == a % b

\* gcd_loop_body
GcdStep ==
  /\ phase = "gcd"
  /\ gcdb # 0
  /\ gcda' = gcdb
  /\ gcdb' = Remainder(gcda, gcdb)
  /\ UNCHANGED <<value, number, wrapped, phase>>

\* The fraction in lowest terms with a positive denominator, by the definition of the gcd.
Divides(k, x) == \E q \in 0..x : x = k * q
CommonDivisor(k, x, y) == Divides(k, x) /\ Divides(k, y)
LowestTerms(f) ==
  LET n == Magnitude(f.num)
      d == Magnitude(f.den)
      gcd == CHOOSE k \in 0..(n + d) : /\ CommonDivisor(k, n, d)
                                       /\ \A j \in 0..(n + d) : CommonDivisor(j, n, d) => j <= k
  IN  Fraction((IF (f.num < 0) = (f.den < 0) THEN n ELSE -n) \div gcd, d \div gcd)

\* Mutant: the wrong register is the divisor.
OtherRegister == gcdb

Gcd == gcda

\* gcd_loop_end, and the rest of SimplifyRational; a division by zero is undefined.
GcdEnd ==
  /\ phase = "gcd"
  /\ gcdb = 0
  /\ \/ Gcd = 0 /\ phase' = "undefined" /\ UNCHANGED <<value, number>>
     \/ /\ Gcd # 0
        /\ phase' = "simple"
        /\ value' = Fraction(SDiv(value.num, Wrap(Gcd)), SDiv(value.den, Wrap(Gcd)))
        /\ number' = IF number = NoNumber THEN number ELSE LowestTerms(number)
  /\ UNCHANGED wrapped
  /\ gcda' = 0 /\ gcdb' = 0

Simplifying == SimplifyRational \/ GcdStep \/ GcdEnd

Next ==
  \/ \E n \in Integer, d \in Integer : OverOperator(n, d)
  \/ \E x \in Operands : Load(x) \/ Operation(x)
  \/ Simplifying

Spec == Init /\ [][Next]_vars /\ WF_vars(GcdStep \/ GcdEnd)

-----------------------------------------------------------------------------
TypeOK ==
  /\ value \in [num : Integer, den : Integer]
  /\ wrapped \in BOOLEAN
  /\ phase \in {"raw", "gcd", "simple", "error", "undefined"}
  /\ gcda \in 0 .. 2 * Limit - 1
  /\ gcdb \in 0 .. 2 * Limit - 1

\* Nothing wrapped around, and there was no division by zero.
HasValue == number # NoNumber

(* As long as no integer wraps around, what the code has is equal to what  *)
(* exact arithmetic has, in raw and in simple values.                      *)
ValuesAreExact ==
  HasValue => value.den # 0 /\ value.num * number.den = number.num * value.den

(* A simple value has the one form that RationalCmpEQ relies on: in lowest *)
(* terms, with the sign above.                                             *)
SimpleValuesAreCanonical == phase = "simple" /\ HasValue => value = LowestTerms(number)

(* The loop keeps the common divisors and ends with the greatest of them,  *)
(* for the smallest integer too, whose absolute value is unsigned.         *)
GcdIsGreatest ==
  phase = "gcd" /\ gcdb = 0 =>
    LET n == Magnitude(value.num)
        d == Unsigned(value.den)
    IN  /\ CommonDivisor(gcda, n, d)
        /\ \A k \in 0 .. 2 * Limit : CommonDivisor(k, n, d) => Divides(k, gcda)

\* Simple values whose products fit compare as the numbers they stand for.
Canonical(x) == x.den > 0 /\ x = LowestTerms(x)
ComparisonsAreExact ==
  phase = "simple" /\ HasValue =>
    \A x \in Operands :
      LET l == number.num * x.den
          r == x.num * number.den
      IN  Canonical(x) =>
            /\ RationalCmpEQ(value, x) <=> l = r
            /\ RationalCmpNEQ(value, x) <=> l # r
            /\ {l, r} \subseteq Integer =>
                 /\ RationalCmpGT(value, x) <=> l > r
                 /\ RationalCmpLT(value, x) <=> l < r
                 /\ RationalCmpGEQ(value, x) <=> l >= r
                 /\ RationalCmpLEQ(value, x) <=> l <= r

(* The division by the gcd is undefined only for what is no number: a      *)
(* division by zero, an element never set, or an integer that wrapped.     *)
UndefinedOnlyWithoutValue == phase = "undefined" => ~HasValue

\* The loop ends, for all integers.
GcdEnds == phase = "gcd" ~> phase # "gcd"
=============================================================================
