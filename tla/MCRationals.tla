---------------------------- MODULE MCRationals -----------------------------
(* Rationals with integers of four bits and every operand.                 *)
EXTENDS Rationals

MCLimit == 8
MCOperands == Rational
=============================================================================
