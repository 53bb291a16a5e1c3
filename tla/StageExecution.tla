--------------------------- MODULE StageExecution ---------------------------
(***************************************************************************)
(* The execution stage of a project: the atomic tasks are sequenced into   *)
(* batches, the batches are executed one after the other, and after each   *)
(* the recovery of its failed tasks and an evaluation decide how the live  *)
(* plan goes on (project_workflow_service.py, post_batch_service.py,       *)
(* live_plan_mutation_service.py).                                         *)
(*                                                                         *)
(* The sequencer, the recovery decision, the evaluation and the placement  *)
(* of new work are answers of language models: any answer their schemas    *)
(* let pass.                                                               *)
(***************************************************************************)
EXTENDS LivePlan, PostBatchDecision, FiniteSets

CONSTANTS
    MaxTasks,           \* atomic task rows a behaviour can have
    Original,           \* how many of them decomposition produced
    MaxBatches,         \* batches the sequencer makes at most
    MaxCreated,         \* tasks one recovery decision creates at most
    MaxIterations,      \* max_workflow_iterations
    MaxFinalizations,   \* max_finalization_iterations
    MaxWorkflows        \* times the workflow is started

ASSUME StageAssumption ==
    /\ {MaxTasks, Original, MaxBatches, MaxCreated, MaxIterations,
        MaxWorkflows} \subseteq Nat \ {0}
    /\ MaxFinalizations \in Nat
    /\ Original <= MaxTasks

Tasks == 1 .. MaxTasks

VARIABLES
    status,         \* status[t]: Task.status, "absent" before the row exists
    plan,           \* active_plan; empty when there is none
    version,        \* Project.plan_version
    pos,            \* current_index, counted from 1
    completed,      \* completed_batches of the earlier iterations
    processed,      \* processed_batch_ids_set of this iteration
    todo,           \* tasks of the current batch still to execute or to judge
    created,        \* created_recovery_task_ids of the current batch
    iteration,      \* iteration_number
    finalizations,  \* finalization_iteration_count
    leftOut,        \* history: pending tasks the sequencer gave no batch
    workflow,       \* history: workflows started so far
    pc,             \* where the workflow is
    outcome         \* how it ended

vars == <<status, plan, version, pos, completed, processed, todo, created,
          iteration, finalizations, leftOut, workflow, pc, outcome>>

Statuses == {"absent", "pending", "completed", "troubled", "review", "replaced"}
Failures == {"llm_failed", "no_candidates", "reprocessed", "not_executable",
             "unaskable", "unplaceable", "refused_plan", "refused_result", "unassigned"}

With(s)  == {t \in Tasks : status[t] = s}
Current  == plan[pos]
IsFinal  == pos = Len(plan)
BatchIds == {plan[i].id : i \in 1 .. Len(plan)}

Init ==
    /\ status = [t \in Tasks |-> IF t <= Original THEN "pending" ELSE "absent"]
    /\ plan = <<>> /\ version = 0 /\ pos = 1
    /\ completed = {} /\ processed = {} /\ todo = {} /\ created = {}
    /\ iteration = 1 /\ finalizations = 0
    /\ leftOut = {} /\ workflow = 1
    /\ pc = "sequence" /\ outcome = "none"

End(how) == pc' = "done" /\ outcome' = how

----------------------------------------------------------------------------
(* An iteration. *)

\* The atomic tasks the sequencer is given, with what they came from.
Candidates == With("pending")

\* The plans it may answer with, a set of tasks for each batch.  It may forget
\* a task or name it twice: neither its schema nor its caller compares the
\* plan with the candidates, and an order against depends_on_task_titles that
\* survives the second try is only logged.
SequencerAnswers == UNION {[1 .. n -> SUBSET Candidates \ {{}}] : n \in 1 .. MaxBatches}

\* What generate_execution_plan ends with when there is no plan: no task to
\* plan, or no valid answer in two tries.
SequencingFails ==
    /\ End(IF Candidates = {} THEN "no_candidates" ELSE "llm_failed")
    /\ UNCHANGED <<plan, version, pos, processed, leftOut>>

Sequence ==
    /\ pc = "sequence"
    /\ UNCHANGED <<status, completed, todo, created, iteration, finalizations,
                   workflow>>
    /\ \/ SequencingFails
       \/ \E sets \in SequencerAnswers :
             /\ plan' = NewPlan(version + 1, sets)
             /\ version' = version + 1 /\ pos' = 1 /\ processed' = {}
             /\ leftOut' = Candidates \ Planned(plan')
             /\ pc' = "take" /\ UNCHANGED outcome

TakeBatch ==
    /\ pc = "take"
    /\ UNCHANGED <<status, plan, version, completed, processed, created,
                   iteration, finalizations, leftOut, workflow>>
    /\ \/ /\ pos > Len(plan)
          /\ pc' = "iterate" /\ UNCHANGED <<pos, todo, outcome>>
       \/ /\ pos <= Len(plan) /\ Current.id \in completed
          /\ pos' = pos + 1 /\ UNCHANGED <<todo, pc, outcome>>
       \/ /\ pos <= Len(plan) /\ Current.id \in processed \ completed
          /\ End("reprocessed") /\ UNCHANGED <<pos, todo>>
       \/ /\ pos <= Len(plan) /\ Current.id \notin completed \cup processed
          /\ todo' = Current.tasks /\ pc' = "run" /\ UNCHANGED <<pos, outcome>>

\* execute_task_sync of one task of the batch.
RunTask(t) ==
    /\ pc = "run" /\ t \in todo
    /\ IF status[t] = "pending"
       THEN /\ \E s \in {"completed", "troubled", "review"} :
                  status' = [status EXCEPT ![t] = s]
            /\ todo' = todo \ {t} /\ UNCHANGED <<pc, outcome>>
       ELSE End("not_executable") /\ UNCHANGED <<status, todo>>
    /\ UNCHANGED <<plan, version, pos, completed, processed, created, iteration,
                   finalizations, leftOut, workflow>>

\* The stop event is looked at before each task.
Pause ==
    /\ pc = "run" /\ todo # {}
    /\ End("paused")
    /\ UNCHANGED <<status, plan, version, pos, completed, processed, todo,
                   created, iteration, finalizations, leftOut, workflow>>

\* The tasks of the batch that need a recovery; the status of every task is
\* final by now.
Troubled == Current.tasks \cap With("troubled")

\* A task that awaits a review ends the workflow before anything is judged.
FinishBatch ==
    /\ pc = "run" /\ todo = {}
    /\ IF Current.tasks \cap With("review") # {}
       THEN End("review") /\ UNCHANGED todo
       ELSE /\ todo' = Troubled
            /\ pc' = "judge" /\ UNCHANGED outcome
    /\ UNCHANGED <<status, plan, version, pos, completed, processed, created,
                   iteration, finalizations, leftOut, workflow>>

\* A decision for t: the rows of n new tasks that replace it, none when the
\* decision is manual_review.
Materialise(t, n) ==
    LET next == MaxTasks - Cardinality(With("absent"))
        new  == next + 1 .. next + n
    IN  /\ next + n <= MaxTasks
        /\ status' = [u \in Tasks |->
              CASE u \in new          -> "pending"
                [] u = t /\ new # {}  -> "replaced"
                [] OTHER              -> status[u]]
        /\ created' = created \cup new

\* No valid decision in two tries.  What the recovery of the earlier tasks of
\* the batch created stays.
RecoveryFails == End("llm_failed") /\ UNCHANGED <<status, todo, created>>

\* Recovery of one task: committed before the next one is looked at.
Recover(t) ==
    /\ pc = "judge" /\ t \in todo
    /\ UNCHANGED <<plan, version, pos, completed, processed, iteration,
                   finalizations, leftOut, workflow>>
    /\ \/ /\ \E n \in 0 .. MaxCreated : Materialise(t, n)
          /\ todo' = todo \ {t} /\ UNCHANGED <<pc, outcome>>
       \/ RecoveryFails

----------------------------------------------------------------------------
(* The evaluation of the batch and what follows from it. *)

\* Pending tasks apart from those created now.  Creating one makes its parent
\* pending again, and the rows counted are those of every planning level.
OtherWork == created # {} \/ With("pending") \ (created \cup Current.tasks) # {}

\* VARIANT: any pending task passes.
Unassigned_Unchecked(new) == {}

\* _assert_no_unassigned_nonterminal_tasks.
Unassigned(new) == With("pending") \ Planned(new)

\* What the iteration does with the result r and the plan it carries.
Proceed(r, new) ==
    /\ finalizations' = r.count
    /\ processed' = processed \cup {Current.id}
    /\ created' = {}
    /\ UNCHANGED iteration
    /\ CASE r.type = "manual_review" ->
               End("review") /\ UNCHANGED <<plan, pos>>
         [] r.type = "close" ->
               End("closed") /\ UNCHANGED <<plan, pos>>
         [] r.type = "replan" ->
               /\ plan' = <<>> /\ pos' = 1
               /\ pc' = "iterate" /\ UNCHANGED outcome
         [] r.type \in {"assign", "continue"} ->
               /\ plan' = new /\ pos' = pos + 1
               /\ pc' = "take" /\ UNCHANGED outcome
         [] r.type = "resequence" ->
               /\ plan' = new /\ UNCHANGED pos
               /\ pc' = "iterate" /\ UNCHANGED outcome

\* An exception anywhere in the post-batch step ends the workflow; what was
\* committed before stays.
Fail(how) ==
    /\ End(how)
    /\ UNCHANGED <<plan, pos, processed, created, iteration, finalizations>>

\* The intent was applied and left the plan new behind.
Conclude(s, intent, new) ==
    LET r == Result(intent, IsFinal, finalizations, MaxFinalizations) IN
    CASE new = Refused -> Fail("refused_plan")
      [] new # Refused /\ r.type = "close" /\ Unassigned(new) # {} ->
            Fail("unassigned")
      [] new # Refused /\ ~(r.type = "close" /\ Unassigned(new) # {}) ->
            IF Rejects(s, r, new # plan) THEN Fail("refused_result")
                                         ELSE Proceed(r, new)

\* The model saw a structural conflict: the intent becomes a replan.
Escalated(s) == Conclude(s, Replan, plan)

\* The first cluster waits for a batch that uses it, and there is none left.
Unplaceable(proposal) ==
    IsFinal /\ proposal[1].placement = "before_first_consumer_batch"

\* No RecoveryAssignmentInput can be made, as for a project whose name has
\* less than ten characters, which stands for its goal.
Unaskable == Fail("unaskable")

\* No valid answer in two tries.
AssignmentFails == Fail("llm_failed")

\* mutate_live_plan, assignment: new work is placed where the model proposes.
Assign(s, intent) ==
    \/ Unaskable
    \/ AssignmentFails
    \/ Escalated(s)
    \/ \E proposal \in Proposals(created) :
          IF Unplaceable(proposal) THEN Fail("unplaceable")
          ELSE Conclude(s, intent, Compiled(plan, proposal, Current.id))

\* mutate_live_plan, resequencing: new work comes next.
Resequence(s, intent) ==
    Conclude(s, intent, IF created = {} THEN plan
                        ELSE PatchAfter(plan, Current.id, created))

\* mutate_live_plan, called for these two alone.
Mutate(s, intent) ==
    CASE intent.type = "assign"     -> Assign(s, intent)
      [] intent.type = "resequence" -> Resequence(s, intent)
      [] OTHER                      -> Conclude(s, intent, plan)

\* What an evaluation leads to, and all that still matters of it afterwards.
Verdicts ==
    {[intent |-> Resolve(s, created # {}, OtherWork, IsFinal),
      closed |-> s.closed, manual |-> s.manual] : s \in Evaluations}

\* No valid evaluation in two tries.
EvaluationFails == Fail("llm_failed")

Evaluate ==
    /\ pc = "judge" /\ todo = {}
    /\ \/ EvaluationFails
       \/ \E v \in Verdicts : Mutate(v, v.intent)
    /\ UNCHANGED <<status, version, completed, todo, leftOut, workflow>>

\* The next turn of the loop over iterations, unless it was the last one or the
\* plan is used up.
NextIteration ==
    /\ pc = "iterate"
    /\ completed' = completed \cup processed
    /\ processed' = {} /\ pos' = 1
    /\ CASE iteration = MaxIterations ->
               End("review") /\ UNCHANGED iteration
         [] iteration < MaxIterations /\ plan = <<>> ->
               pc' = "sequence" /\ iteration' = iteration + 1 /\ UNCHANGED outcome
         [] iteration < MaxIterations /\ plan # <<>> /\ BatchIds \subseteq completed' ->
               End("review") /\ iteration' = iteration + 1
         [] OTHER ->
               pc' = "take" /\ iteration' = iteration + 1 /\ UNCHANGED outcome
    /\ UNCHANGED <<status, plan, version, todo, created, finalizations, leftOut,
                   workflow>>

\* The project is started again, after a pause, a review or a failure: the
\* plan and the counters of the workflow were its local variables.
NextWorkflow ==
    /\ pc = "done" /\ outcome # "closed" /\ workflow < MaxWorkflows
    /\ status' = [t \in Tasks |->
                    IF status[t] = "review" THEN "pending" ELSE status[t]]
    /\ plan' = <<>> /\ pos' = 1
    /\ completed' = {} /\ processed' = {} /\ todo' = {} /\ created' = {}
    /\ iteration' = 1 /\ finalizations' = 0 /\ leftOut' = {}
    /\ workflow' = workflow + 1
    /\ pc' = "sequence" /\ outcome' = "none"
    /\ UNCHANGED version

Next == \/ Sequence \/ TakeBatch \/ Pause \/ FinishBatch \/ Evaluate
        \/ NextIteration \/ NextWorkflow
        \/ \E t \in Tasks : RunTask(t) \/ Recover(t)

Spec == Init /\ [][Next]_vars

----------------------------------------------------------------------------
(* Safety. *)

Done == completed \cup processed

\* No work is lost between two batches: a task that is pending, and that the
\* sequencer did not forget, is in a batch still to be executed, wherever the
\* recovery of an earlier batch had it placed.
PlanCoversWork ==
    pc \in {"take", "iterate"} /\ plan # <<>> =>
       \A t \in With("pending") \ leftOut :
          \E i \in 1 .. Len(plan) : t \in plan[i].tasks /\ plan[i].id \notin Done

\* Work inserted into the live plan is ahead of it: the batches that were
\* executed stay at its beginning, so none is passed over or executed twice.
WorkAhead ==
    \A i, j \in 1 .. Len(plan) :
       i < j /\ plan[j].id \in Done => plan[i].id \in Done

\* The stage is closed only when nothing is left to do, planned or not.
ClosedIsComplete == outcome = "closed" => With("pending") = {}

\* A change of the live plan keeps the batches there are, in their order, and
\* leaves those already executed as they were.
MutationsKeepThePlan ==
    [][version' = version /\ plan # <<>> /\ plan' # <<>> =>
         \E f \in [1 .. Len(plan) -> 1 .. Len(plan')] :
            /\ \A i, j \in 1 .. Len(plan) : i < j => f[i] < f[j]
            /\ \A i \in 1 .. Len(plan) :
                  /\ plan'[f[i]].id = plan[i].id
                  /\ plan[i].tasks \subseteq plan'[f[i]].tasks
                  /\ i <= pos => plan'[f[i]].tasks = plan[i].tasks]_vars

----------------------------------------------------------------------------
(* What the properties rest on. *)

\* The counters finalizations and workflow are left out: nothing here is about
\* how large they get.
TypeOK ==
    /\ status \in [Tasks -> Statuses]
    /\ version \in Nat /\ pos \in Nat \ {0}
    /\ completed \subseteq Nat \X Nat \X Nat
    /\ processed \subseteq Nat \X Nat \X Nat
    /\ {todo, created, leftOut} \subseteq SUBSET Tasks
    /\ iteration \in Nat
    /\ pc \in {"sequence", "take", "run", "judge", "iterate", "done"}

IsDone(i) == plan[i].id \in Done

\* Rows are created in the order of their ids.
RowsInOrder == \E m \in 0 .. MaxTasks : With("absent") = m + 1 .. MaxTasks

\* What is done of the version of the plan is in it, and has nothing pending.
PlanOK ==
    /\ WellFormed(plan, version, Tasks \ With("absent"))
    /\ \A d \in Done : /\ d[1] <= version
                       /\ plan # <<>> /\ d[1] = version => d \in BatchIds
    /\ \A i \in 1 .. Len(plan) : IsDone(i) => plan[i].tasks \cap With("pending") = {}

\* The batch that is executed is the first that is not done.
PositionOK ==
    /\ pc \in {"take", "run", "judge"} =>
          \A i \in 1 .. Len(plan) : i < pos => IsDone(i)
    /\ pc \in {"run", "judge"} => pos <= Len(plan) /\ ~IsDone(pos)

\* Tasks of the batch are pending only until they are executed.
BatchOK ==
    /\ pc = "run" => /\ todo \subseteq Current.tasks
                     /\ Current.tasks \cap With("pending") \subseteq todo
    /\ pc = "judge" => Current.tasks \cap With("pending") = {}
    /\ (todo \cup created) \cap With("absent") = {}
    /\ pc \in {"sequence", "take", "run", "iterate"} => created = {}

\* PlanCoversWork at every point, when recovery has created more work.
WorkIsCovered ==
    pc \in {"take", "run", "judge", "iterate"} /\ plan # <<>> =>
       \A t \in With("pending") \ (leftOut \cup created) :
          \E i \in 1 .. Len(plan) : t \in plan[i].tasks /\ ~IsDone(i)

StageInv ==
    /\ TypeOK /\ RowsInOrder /\ PlanOK /\ PositionOK /\ BatchOK /\ WorkIsCovered
    /\ WorkAhead /\ ClosedIsComplete
    /\ pc # "done" => outcome = "none"
=============================================================================
