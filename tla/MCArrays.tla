------------------------------ MODULE MCArrays ------------------------------
(* Arrays with integers of three bits: the bytes of two elements of four   *)
(* bytes, which are arrays, are too many for the product to hold them.     *)
EXTENDS Arrays

CONSTANTS ints, nested

MCVariable     == {ints, nested}
MCVariableType == [x \in MCVariable |-> IF x = ints THEN "int" ELSE "array"]
MCElementSize  == [t \in ElementType |-> IF t = "int" THEN 1 ELSE 4]
MCNumber       == {-1, 0, 2}
MCLength       == {1}
=============================================================================
