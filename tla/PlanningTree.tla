---------------------------- MODULE PlanningTree ----------------------------
(***************************************************************************)
(* The task rows of a project while planning makes and re-makes them:      *)
(* goals (high_level), their optional refined parts and the atomic tasks.  *)
(* A table of rows is a sequence; a row's number is its id, and parent 0   *)
(* is NULL.  Operators only (planner.py, technical_task_refiner.py,        *)
(* atomic_task_generator.py, resumption_service.py and the phase helpers   *)
(* of project_workflow_service.py).                                        *)
(***************************************************************************)
EXTENDS Naturals, Sequences, FiniteSets

\* Consolidation is the one every module uses; only its rule is needed here.
Hierarchy == INSTANCE TaskHierarchy
             WITH Tasks <- {}, NoTask <- 0, Level <- <<>>, ParentOf <- <<>>

Terminal == {"completed", "failed", "cancelled", "superseded"}

\* n rows of one answer: they share the call that made them.
Added(rows, p, l, n, origin) ==
    rows \o [i \in 1 .. n |->
                [level |-> l, parent |-> p, status |-> "pending",
                 origin |-> origin, call |-> Len(rows) + 1]]

At(rows, l)         == {i \in DOMAIN rows : rows[i].level = l}
Children(rows, p)   == {i \in DOMAIN rows : rows[i].parent = p}
ChildrenAt(rows, p, l) == Children(rows, p) \cap At(rows, l)
Pending(rows, l)    == {i \in At(rows, l) : rows[i].status = "pending"}
Active(rows)        == {i \in DOMAIN rows : rows[i].status \notin Terminal}

\* VARIANT: a project counts as planned once it has atomic tasks.
Planned_ByAtomics(rows) == At(rows, "atomic") # {}

\* Any goal counts, whatever its status.
Planned(rows) == At(rows, "high_level") # {}

\* Goals the refiner still has to answer for; one that has parts is reused.
Unrefined(rows) ==
    {p \in Pending(rows, "high_level") : ChildrenAt(rows, p, "refined") = {}}

\* Parents whose atomic tasks are still to be generated; a goal that was
\* refined is decomposed through its parts.
Undecomposed(rows, refinement) ==
    {p \in Pending(rows, "refined") \cup Pending(rows, "high_level") :
        /\ ChildrenAt(rows, p, "atomic") = {}
        /\ rows[p].level = "high_level" /\ refinement
              => ChildrenAt(rows, p, "refined") = {}}

\* Level by level and in the order of the ids: the parts first when the
\* project is refined.
NextParent(rows, refinement) ==
    LET todo  == Undecomposed(rows, refinement)
        first == IF refinement THEN "refined" ELSE "high_level"
        now   == IF todo \cap At(rows, first) # {} THEN todo \cap At(rows, first) ELSE todo
    IN  CHOOSE p \in now : \A q \in now : p <= q

----------------------------------------------------------------------------
(* Statuses. *)

WithStatus(rows, S, s) ==
    [i \in DOMAIN rows |-> IF i \in S THEN [rows[i] EXCEPT !.status = s] ELSE rows[i]]

Derived(rows, p) ==
    Hierarchy!DerivedStatus({rows[c].status : c \in Children(rows, p)})

\* The parents of the rows S, then the parents of those, take the status
\* their children give them.
Consolidated(rows, S) ==
    LET Above(r, T)  == {r[i].parent : i \in T} \ {0}
        Once(r, T)   == [p \in DOMAIN r |->
                            IF p \in T THEN [r[p] EXCEPT !.status = Derived(r, p)] ELSE r[p]]
        parents == Above(rows, S)
        once    == Once(rows, parents)
    IN  Once(once, Above(rows, parents))

\* The rows S are cancelled if still open; then, level by level, a parent of
\* a cancelled row all of whose children are cancelled.
Cancelled(rows, S) ==
    LET Up(r, T) == {p \in {r[i].parent : i \in T} \ {0} :
                        /\ r[p].status \notin Terminal
                        /\ \A c \in Children(r, p) : r[c].status = "cancelled"}
        hit   == S \cap Active(rows)
        one   == WithStatus(rows, hit, "cancelled")
        two   == WithStatus(one, Up(one, hit), "cancelled")
    IN  WithStatus(two, Up(two, Up(one, hit)), "cancelled")
=============================================================================
