------------------------------ MODULE LivePlan ------------------------------
(***************************************************************************)
(* The execution plan a workflow works through and the changes made to it  *)
(* while it is being executed (schemas/execution_plan.py,                  *)
(* execution_plan_service.py, execution_plan_patch_service.py,             *)
(* recovery_assignment_compiler_service.py).                               *)
(*                                                                         *)
(* A plan is a sequence of batches.  A batch of the sequencer has its      *)
(* index; a patch, inserted later, has the index its anchor had when the   *)
(* patch was made, and a number among the patches of that anchor.  After   *)
(* every change all batches are sorted by these and numbered again, but an *)
(* anchor that moves does not take its patches along.                      *)
(***************************************************************************)
EXTENDS Naturals, Sequences, FiniteSets, FiniteSetsExt, Functions, SequencesExt

\* A plan the schema rejects; the ValidationError leaves the workflow.
Refused == <<>>

\* Batch ids are never given twice: plan_{version}_batch_{at}_patch_{nr}.
Batch(version, at, nr, tasks) ==
    [id |-> <<version, at, nr>>, index |-> at, anchor |-> at, nr |-> nr,
     tasks |-> tasks]

IsPatch(b) == b.nr > 0
Key(b)     == IF IsPatch(b) THEN b.anchor ELSE b.index

\* VARIANT: a patch goes before the batch it is anchored to.
Before_PatchFirst(b, c) == \/ Key(b) < Key(c)
                           \/ Key(b) = Key(c) /\ b.nr > c.nr

\* Batch b comes before batch c in the logical execution sequence.
Before(b, c) == \/ Key(b) < Key(c)
                \/ Key(b) = Key(c) /\ b.nr < c.nr

\* ExecutionPlan.validate_plan.
Accepted(plan) == \A i \in 1 .. Len(plan) - 1 : ~Before(plan[i + 1], plan[i])

Reindexed(plan) == [i \in 1 .. Len(plan) |-> [plan[i] EXCEPT !.index = i]]

\* The batches that come before batch i of the plan.
Earlier(plan, i) == {j \in 1 .. Len(plan) : Before(plan[j], plan[i])}

\* The batches in order.  No two of them are level.
Sorted(plan) ==
    [at \in 1 .. Len(plan) |->
        plan[CHOOSE i \in 1 .. Len(plan) : Cardinality(Earlier(plan, i)) = at - 1]]

\* normalize_execution_plan_terminal_invariants.
Normalized(plan) ==
    LET numbered == Reindexed(Sorted(plan))
    IN  IF Accepted(numbered) THEN numbered ELSE Refused

Position(plan, id) == CHOOSE i \in 1 .. Len(plan) : plan[i].id = id
Planned(plan)      == UNION {plan[i].tasks : i \in 1 .. Len(plan)}

\* _normalize_execution_plan: the batches of the sequencer, one set of tasks each.
NewPlan(version, sets) ==
    [i \in 1 .. Len(sets) |-> Batch(version, i, 0, sets[i])]

\* The number of the next patch of the batch that has index at.
NextNr(plan, at) ==
    1 + Max({0} \cup {b.nr : b \in {c \in Range(plan) : IsPatch(c) /\ c.anchor = at}})

\* insert_patch_batch_after_batch.
PatchAfter(plan, id, tasks) ==
    LET anchor == plan[Position(plan, id)]
        patch  == Batch(anchor.id[1], anchor.index,
                        NextNr(plan, anchor.index), tasks)
    IN  Normalized(Append(plan, patch))

\* VARIANT: at the batch id itself.
AttachAfter_Same(plan, id, tasks) ==
    [plan EXCEPT ![Position(plan, id)].tasks = @ \cup tasks]

\* _attach_cluster_to_existing_batch, at the first batch after id.
AttachAfter(plan, id, tasks) ==
    LET next == Position(plan, id) + 1
    IN  IF next > Len(plan) THEN Refused
        ELSE [plan EXCEPT ![next].tasks = @ \cup tasks]

Placements == {"before_next_useful_progress", "before_first_consumer_batch",
               "after_current_tail"}

\* VARIANT: a cluster that waits for a consumer is dropped.
Place_ConsumerDropped(plan, cluster, id) ==
    IF plan = Refused THEN Refused ELSE
    CASE cluster.placement = "before_next_useful_progress" ->
            PatchAfter(plan, id, cluster.tasks)
      [] cluster.placement = "before_first_consumer_batch" -> plan
      [] cluster.placement = "after_current_tail" ->
            PatchAfter(plan, Last(plan).id, cluster.tasks)

\* _compile_cluster, for the batch id that was just executed.
Place(plan, cluster, id) ==
    IF plan = Refused THEN Refused ELSE
    CASE cluster.placement = "before_next_useful_progress" ->
            PatchAfter(plan, id, cluster.tasks)
      [] cluster.placement = "before_first_consumer_batch" ->
            AttachAfter(plan, id, cluster.tasks)
      [] cluster.placement = "after_current_tail" ->
            PatchAfter(plan, Last(plan).id, cluster.tasks)

\* What the assignment model may propose for the new tasks: disjoint clusters
\* that cover them, in the order of compilation (immediate work first).
Proposals(new) ==
    LET one == {<<[tasks |-> new, placement |-> p]>> : p \in Placements}
        two == {<<[tasks |-> S, placement |-> p], [tasks |-> new \ S, placement |-> q]>> :
                   S \in SUBSET new \ {{}, new}, p \in Placements, q \in Placements}
    IN  one \cup {s \in two : s[2].placement = "before_next_useful_progress"
                               => s[1].placement = "before_next_useful_progress"}

\* compile_recovery_assignment_plan, when no cluster asks for a replan.
Compiled(plan, proposal, id) ==
    LET placed[n \in 0 .. Len(proposal)] ==
            IF n = 0 THEN plan ELSE Place(placed[n - 1], proposal[n], id)
    IN  placed[Len(proposal)]

----------------------------------------------------------------------------
(* What every change keeps, for a plan with some of these tasks. *)

BatchOf(version, tasks) ==
    [id : {version} \X Nat \X Nat, index : Nat, anchor : Nat, nr : Nat,
     tasks : SUBSET tasks]

\* The batches are numbered by their place and strictly in order, no id is
\* given twice, and a patch stays behind the place its anchor had.
WellFormed(plan, version, tasks) ==
    /\ plan \in Seq(BatchOf(version, tasks))
    /\ \A i \in 1 .. Len(plan) :
          /\ plan[i].index = i
          /\ plan[i].id = <<version, plan[i].anchor, plan[i].nr>>
          /\ IsPatch(plan[i]) => plan[i].anchor < i
    /\ \A i, j \in 1 .. Len(plan) :
          i < j => Before(plan[i], plan[j]) /\ plan[i].id # plan[j].id
=============================================================================
