------------------------- MODULE MC_RecoveryChain -------------------------
(***************************************************************************)
(* Two tasks of one plan below different parents, and the rows that their  *)
(* recoveries may create.  Rows that do not exist yet differ only by name. *)
(***************************************************************************)
EXTENDS RecoveryChain, TLC

CONSTANTS a, b, p, q

MCOriginal == {a, b}
MCParentAtStart == [t \in MCOriginal |-> IF t = a THEN p ELSE q]
RowSymmetry == Permutations(Tasks \ MCOriginal)
=============================================================================
