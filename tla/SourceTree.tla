----------------------------- MODULE SourceTree -----------------------------
(***************************************************************************)
(* What the promotion of workspaces promises about a project's source      *)
(* tree: it is always the base with the overlays of some runs, and a run   *)
(* is added to it at once or not at all, whatever dies in between.         *)
(***************************************************************************)
CONSTANT Runs

VARIABLE tree   \* the runs whose overlay the tree has

TypeOK == tree \subseteq Runs

Init == tree = {}

Apply(r) == r \notin tree /\ tree' = tree \cup {r}

Next == \E r \in Runs : Apply(r)

Spec == Init /\ [][Next]_tree
=============================================================================
