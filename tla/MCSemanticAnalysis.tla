------------------------- MODULE MCSemanticAnalysis -------------------------
(* SemanticAnalysis and TypedGeneration on the trees of SemanticPrograms,   *)
(* and the analysis against TypingRules.                                  *)
EXTENDS TypedGeneration, SemanticPrograms

Rules == INSTANCE TypingRules

RECURSIVE MCSubtrees(_)
MCSubtrees(root) == {root} \cup UNION {MCSubtrees(root.children[i]) : i \in 1..Len(root.children)}

MCProgram  == SemanticPrograms
MCBooleans == AboutBooleans

(* The analyzer accepts exactly the programs that the typing rules accept: *)
(* what it keeps in scopes, symbol tables, types and bindings from one     *)
(* node to the next never changes a verdict, and every error is found.     *)
AcceptsExactlyTheWellTyped == status = "done" /\ outcome = "none" => (errors = {} <=> Rules!WellTyped(tree))
=============================================================================
