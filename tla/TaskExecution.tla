--------------------------- MODULE TaskExecution ---------------------------
(***************************************************************************)
(* execute_task_sync: one attempt to execute an atomic task, from the      *)
(* ExecutionRun row to the validated, promoted and consolidated result     *)
(* (task_execution_service.py).                                            *)
(*                                                                         *)
(* Several worker threads of one server process may run the call, each on  *)
(* a database session of its own.  A step of a worker ends at a commit, or *)
(* at the one write that is not in the database: the promotion of the      *)
(* run's workspace into the project's source tree.  A rollback leaves the  *)
(* rows as the last commit left them, so uncommitted writes are not        *)
(* represented.  Rows carry no version: what a session reads before its    *)
(* commit may be out of date when it commits.  The process may die between *)
(* any two steps.                                                          *)
(*                                                                         *)
(* The execution engine and the validators are nondeterministic: each      *)
(* outcome their contracts allow is a step.                                *)
(***************************************************************************)
EXTENDS TaskHierarchy

CONSTANTS
    Workers,    \* worker threads that execute workflows
    Runs,       \* ids of ExecutionRun rows; bounds the attempts of a behaviour
    NoRun       \* a worker that holds no run

ASSUME ExecutionAssumption == NoRun \notin Runs /\ IsFiniteSet(Runs)

VARIABLES
    status,        \* status[t]: Task.status as last committed
    runTask,       \* runTask[r]: ExecutionRun.task_id, NoTask before r exists
    runStatus,     \* runStatus[r]: ExecutionRun.status
    recovery,      \* recovery[r]: ExecutionRun.recovery_action
    artifact,      \* artifact[r]: final_task_status of r's validation_result
    promoted,      \* runs whose workspace was applied to the source tree
    pc,            \* pc[w]: how far worker w is in the call
    run,           \* run[w]: the run worker w executes
    choice,        \* choice[w]: the status or recovery action w decided on
    view,          \* view[w]: the parent statuses w is about to commit
    stale,         \* history: stale[t] is "no" once the parents of t were
                   \* consolidated after its last write, "read" while they are
    orphaned       \* history: tasks whose call died without closing them

vars == <<status, runTask, runStatus, recovery, artifact, promoted,
          pc, run, choice, view, stale, orphaned>>

rows   == <<status, runTask, runStatus, recovery, artifact>>
locals == <<pc, run, choice, view>>

ExecutableStatuses == {"pending", "failed"}
RunStatuses == {"absent", "pending", "running", "succeeded", "failed", "rejected"}
RecoveryActions == {"none", "retry_same_task", "reatomize", "manual_review"}
Verdicts == {"completed", "partial", "failed"}
MaxFailedRunsBeforeManualReview == 1

\* "admitted" is a task found executable but not yet marked running;
\* "started" covers the workspace, the request and the engine; "transient" an
\* engine outage being recorded; "checking" the post-conditions; "reconciling"
\* the parents about to be read, "consolidating" about to be written.
ProgramPoints == {"idle", "created", "admitted", "started", "transient",
                  "validating", "promoting", "closing", "checking",
                  "reconciling", "consolidating"}

\* The view of a worker that is not consolidating, or that found nothing to
\* change.
NoChange == [t \in Tasks |-> "unchanged"]

TypeOK ==
    /\ status    \in [Tasks -> TaskStatuses]
    /\ runTask   \in [Runs -> Atomic \cup {NoTask}]
    /\ runStatus \in [Runs -> RunStatuses]
    /\ recovery  \in [Runs -> RecoveryActions]
    /\ artifact  \in [Runs -> Verdicts \cup {"none"}]
    /\ promoted  \subseteq Runs
    /\ pc        \in [Workers -> ProgramPoints]
    /\ run       \in [Workers -> Runs \cup {NoRun}]
    /\ choice    \in [Workers -> Verdicts \cup RecoveryActions]
    /\ view      \in [Workers -> [Tasks -> TaskStatuses \cup {"unchanged"}]]
    /\ stale     \in [Tasks -> {"no", "read", "yes"}]
    /\ orphaned  \subseteq Atomic

Init ==
    /\ status    = [t \in Tasks |-> "pending"]
    /\ runTask   = [r \in Runs |-> NoTask]
    /\ runStatus = [r \in Runs |-> "absent"]
    /\ recovery  = [r \in Runs |-> "none"]
    /\ artifact  = [r \in Runs |-> "none"]
    /\ promoted  = {}
    /\ pc        = [w \in Workers |-> "idle"]
    /\ run       = [w \in Workers |-> NoRun]
    /\ choice    = [w \in Workers |-> "none"]
    /\ view      = [w \in Workers |-> NoChange]
    /\ stale     = [t \in Tasks |-> "no"]
    /\ orphaned  = {}

----------------------------------------------------------------------------
(* Writes shared by several steps. *)

TaskOf(w) == runTask[run[w]]

\* VARIANT: a task whose work is only partly done may be executed again.
Executable_Partial(t) == /\ t \in Atomic
                         /\ status[t] \in ExecutableStatuses \cup {"partial"}

Executable(t) == /\ t \in Atomic
                 /\ status[t] \in ExecutableStatuses

\* Commit the status of t; its parents do not know of it yet.
WriteStatus(t, s) ==
    /\ status' = [status EXCEPT ![t] = s]
    /\ stale'  = [stale EXCEPT ![t] = "yes"]

\* The call of w ends, by return or by exception.
Leave(w) ==
    /\ pc'     = [pc EXCEPT ![w] = "idle"]
    /\ run'    = [run EXCEPT ![w] = NoRun]
    /\ choice' = [choice EXCEPT ![w] = "none"]
    /\ view'   = [view EXCEPT ![w] = NoChange]

MoveTo(w, point) ==
    /\ pc' = [pc EXCEPT ![w] = point]
    /\ UNCHANGED <<run, choice, view>>

\* Run and task fail in one commit.
FailBoth(w, runState, action) ==
    /\ WriteStatus(TaskOf(w), "failed")
    /\ runStatus' = [runStatus EXCEPT ![run[w]] = runState]
    /\ recovery'  = [recovery EXCEPT ![run[w]] = action]
    /\ UNCHANGED <<runTask, artifact>>

\* The failure is committed and the exception leaves the call: no
\* consolidation follows.
FailAndRaise(w) ==
    /\ FailBoth(w, "failed", "manual_review")
    /\ Leave(w)
    /\ UNCHANGED <<promoted, orphaned>>

----------------------------------------------------------------------------
(* Starting the attempt. *)

CreateRun(w, t, r) ==
    /\ pc[w] = "idle"
    /\ Executable(t)
    /\ runStatus[r] = "absent"
    /\ runTask'   = [runTask EXCEPT ![r] = t]
    /\ runStatus' = [runStatus EXCEPT ![r] = "pending"]
    /\ pc'  = [pc EXCEPT ![w] = "created"]
    /\ run' = [run EXCEPT ![w] = r]
    /\ UNCHANGED <<status, recovery, artifact, promoted, choice, view,
                   stale, orphaned>>

\* The task is validated once more, ...
Admit(w) ==
    /\ pc[w] = "created"
    /\ Executable(TaskOf(w))
    /\ MoveTo(w, "admitted")
    /\ UNCHANGED <<rows, promoted, stale, orphaned>>

\* ... and is refused if another session took it in the meantime.
Refuse(w) ==
    /\ pc[w] = "created"
    /\ ~ Executable(TaskOf(w))
    /\ Leave(w)
    /\ UNCHANGED <<rows, promoted, stale, orphaned>>

\* Run and task become running in one commit.
StartRun(w) ==
    /\ pc[w] = "admitted"
    /\ WriteStatus(TaskOf(w), "running")
    /\ runStatus' = [runStatus EXCEPT ![run[w]] = "running"]
    /\ recovery'  = [recovery EXCEPT ![run[w]] = "none"]
    /\ MoveTo(w, "started")
    /\ UNCHANGED <<runTask, artifact, promoted, orphaned>>

\* _prepare_execution_workspace raises TaskExecutionServiceError, which the
\* call passes on: neither the run nor the task is closed.
PrepareFails(w) ==
    /\ pc[w] = "started"
    /\ Leave(w)
    /\ orphaned' = orphaned \cup {TaskOf(w)}
    /\ UNCHANGED <<rows, promoted, stale>>

----------------------------------------------------------------------------
(* The engine. *)

EngineSucceeds(w) ==
    /\ pc[w] = "started"
    /\ runStatus' = [runStatus EXCEPT ![run[w]] = "succeeded"]
    /\ recovery'  = [recovery EXCEPT ![run[w]] = "none"]
    /\ MoveTo(w, "validating")
    /\ UNCHANGED <<status, runTask, artifact, promoted, stale, orphaned>>

\* A failed decision, an engine error or any other exception.
EngineFails(w) ==
    /\ pc[w] = "started"
    /\ FailBoth(w, "failed", "manual_review")
    /\ MoveTo(w, "reconciling")
    /\ UNCHANGED <<promoted, orphaned>>

EngineRejects(w) ==
    /\ pc[w] = "started"
    /\ FailBoth(w, "rejected", "reatomize")
    /\ MoveTo(w, "reconciling")
    /\ UNCHANGED <<promoted, orphaned>>

FailedRuns(t) == {r \in Runs : runTask[r] = t /\ runStatus[r] = "failed"}

\* VARIANT: the first failure is not counted.
EngineOutage_OffByOne(w) ==
    /\ pc[w] = "started"
    /\ choice' = [choice EXCEPT ![w] =
          IF Cardinality(FailedRuns(TaskOf(w))) > MaxFailedRunsBeforeManualReview
          THEN "manual_review" ELSE "retry_same_task"]
    /\ pc' = [pc EXCEPT ![w] = "transient"]
    /\ UNCHANGED <<rows, promoted, run, view, stale, orphaned>>

\* An infrastructure error is retried unless an earlier run of the task
\* failed.  The earlier runs are counted before the failure is committed.
EngineOutage(w) ==
    /\ pc[w] = "started"
    /\ choice' = [choice EXCEPT ![w] =
          IF Cardinality(FailedRuns(TaskOf(w))) >= MaxFailedRunsBeforeManualReview
          THEN "manual_review" ELSE "retry_same_task"]
    /\ pc' = [pc EXCEPT ![w] = "transient"]
    /\ UNCHANGED <<rows, promoted, run, view, stale, orphaned>>

\* VARIANT: the failure is recorded on the run only.
RecordOutage_RunOnly(w) ==
    /\ pc[w] = "transient"
    /\ runStatus' = [runStatus EXCEPT ![run[w]] = "failed"]
    /\ recovery'  = [recovery EXCEPT ![run[w]] = choice[w]]
    /\ MoveTo(w, "reconciling")
    /\ UNCHANGED <<status, runTask, artifact, promoted, stale, orphaned>>

RecordOutage(w) ==
    /\ pc[w] = "transient"
    /\ FailBoth(w, "failed", choice[w])
    /\ MoveTo(w, "reconciling")
    /\ UNCHANGED <<promoted, orphaned>>

----------------------------------------------------------------------------
(* Validation, promotion and closure. *)

ValidationBreaks(w) == pc[w] = "validating" /\ FailAndRaise(w)

\* VARIANT: partial work is not promoted.
Validate_PartialNotPromoted(w, final) ==
    /\ pc[w] = "validating"
    /\ choice' = [choice EXCEPT ![w] = final]
    /\ pc' = [pc EXCEPT ![w] = IF final = "completed" THEN "promoting" ELSE "closing"]
    /\ UNCHANGED <<rows, promoted, run, view, stale, orphaned>>

\* The aggregated verdict names the final task status: manual_review is
\* aggregated to "failed".  Only completed and partial work is promoted.
Validate(w, final) ==
    /\ pc[w] = "validating"
    /\ choice' = [choice EXCEPT ![w] = final]
    /\ pc' = [pc EXCEPT ![w] = IF final \in {"completed", "partial"}
                               THEN "promoting" ELSE "closing"]
    /\ UNCHANGED <<rows, promoted, run, view, stale, orphaned>>

\* The swap of the source tree: a file-system effect no rollback undoes.
Promote(w) ==
    /\ pc[w] = "promoting"
    /\ promoted' = promoted \cup {run[w]}
    /\ MoveTo(w, "closing")
    /\ UNCHANGED <<rows, stale, orphaned>>

PromoteFails(w) == pc[w] = "promoting" /\ FailAndRaise(w)

\* VARIANT: the task is closed without its artifact.
Close_WithoutArtifact(w) ==
    /\ pc[w] = "closing"
    /\ WriteStatus(TaskOf(w), choice[w])
    /\ MoveTo(w, "checking")
    /\ UNCHANGED <<runTask, runStatus, recovery, artifact, promoted, orphaned>>

\* The validation_result artifact and the task status in one commit.
Close(w) ==
    /\ pc[w] = "closing"
    /\ WriteStatus(TaskOf(w), choice[w])
    /\ artifact' = [artifact EXCEPT ![run[w]] = choice[w]]
    /\ MoveTo(w, "checking")
    /\ UNCHANGED <<runTask, runStatus, recovery, promoted, orphaned>>

CloseFails(w) == pc[w] = "closing" /\ FailAndRaise(w)

\* _assert_validation_post_conditions: the row must still hold the status the
\* artifact names.
CheckClosed(w) ==
    /\ pc[w] = "checking"
    /\ IF status[TaskOf(w)] = artifact[run[w]]
       THEN MoveTo(w, "reconciling")
       ELSE Leave(w)
    /\ UNCHANGED <<rows, promoted, stale, orphaned>>

Sibling(u, t) == ParentOf[u] = ParentOf[t]

\* The parents up to the root are derived from the committed statuses; a
\* parent that would keep its status is not written.
ReadHierarchy(w) ==
    /\ pc[w] = "reconciling"
    /\ LET derived == ConsolidateFrom(status, ParentOf[TaskOf(w)])
       IN  view' = [view EXCEPT ![w] =
              [t \in Tasks |-> IF derived[t] = status[t] THEN "unchanged"
                               ELSE derived[t]]]
    /\ stale' = [u \in Tasks |-> IF Sibling(u, TaskOf(w)) /\ stale[u] = "yes"
                                 THEN "read" ELSE stale[u]]
    /\ pc' = [pc EXCEPT ![w] = "consolidating"]
    /\ UNCHANGED <<rows, promoted, run, choice, orphaned>>

\* The changed parents in one commit; the call returns.
Consolidate(w) ==
    /\ pc[w] = "consolidating"
    /\ status' = [t \in Tasks |-> IF view[w][t] = "unchanged" THEN status[t]
                                  ELSE view[w][t]]
    /\ stale'  = [u \in Tasks |-> IF Sibling(u, TaskOf(w)) /\ stale[u] = "read"
                                  THEN "no" ELSE stale[u]]
    /\ Leave(w)
    /\ UNCHANGED <<runTask, runStatus, recovery, artifact, promoted, orphaned>>

----------------------------------------------------------------------------
(* The environment of the call. *)

\* The reviewed task goes back to pending (a narrow or moderate resumption);
\* its parents are not consolidated.
Reopen(t) ==
    /\ t \in Atomic
    /\ status[t] \in {"failed", "partial", "awaiting_review"}
    /\ WriteStatus(t, "pending")
    /\ UNCHANGED <<runTask, runStatus, recovery, artifact, promoted, locals, orphaned>>

\* The server process dies with every worker in it.
Crash ==
    /\ \E w \in Workers : pc[w] # "idle"
    /\ pc'     = [w \in Workers |-> "idle"]
    /\ run'    = [w \in Workers |-> NoRun]
    /\ choice' = [w \in Workers |-> "none"]
    /\ view'   = [w \in Workers |-> NoChange]
    /\ orphaned' = orphaned \cup {TaskOf(w) : w \in {v \in Workers : run[v] # NoRun}}
    /\ UNCHANGED <<rows, promoted, stale>>

----------------------------------------------------------------------------

Start(w) == \E t \in Atomic, r \in Runs : CreateRun(w, t, r)

\* A step of a call that is under way.
Continue(w) ==
    \/ Admit(w)
    \/ Refuse(w)
    \/ StartRun(w)
    \/ PrepareFails(w)
    \/ EngineSucceeds(w)
    \/ EngineFails(w)
    \/ EngineRejects(w)
    \/ EngineOutage(w)
    \/ RecordOutage(w)
    \/ ValidationBreaks(w)
    \/ \E final \in Verdicts : Validate(w, final)
    \/ Promote(w)
    \/ PromoteFails(w)
    \/ Close(w)
    \/ CloseFails(w)
    \/ CheckClosed(w)
    \/ ReadHierarchy(w)
    \/ Consolidate(w)

Next ==
    \/ \E w \in Workers : Start(w) \/ Continue(w)
    \/ \E t \in Atomic : Reopen(t)
    \/ Crash

Spec == Init /\ [][Next]_vars

----------------------------------------------------------------------------
(* Safety. *)

Holds(w, t) == run[w] # NoRun /\ TaskOf(w) = t

\* From the commit that marks the task running to the one that closes it.
Executing(w) ==
    pc[w] \in {"started", "transient", "validating", "promoting", "closing"}

\* A validation verdict is only ever attached to a run that stays succeeded,
\* and the run's files are in the source tree exactly when the verdict says
\* they belong there: no failure path may contradict a persisted verdict.
VerdictMatchesRun ==
    \A r \in Runs :
       artifact[r] # "none" =>
          /\ runStatus[r] = "succeeded"
          /\ (r \in promoted) <=> (artifact[r] \in {"completed", "partial"})

\* A task that reads completed or partial has a run with that verdict whose
\* files were promoted: what get_completion_execution_run_for_task and the
\* later tasks that build on the source tree rely on.
ClosedWorkIsEvidenced ==
    \A t \in Atomic :
       status[t] \in {"completed", "partial"} =>
          \E r \in Runs : /\ runTask[r] = t
                         /\ artifact[r] = status[t]
                         /\ r \in promoted

\* A running task is being executed by some worker, or its call died: by a
\* crash or because the workspace could not be prepared.  Every other failure
\* path of the call closes the task.
RunningIsOwned ==
    \A t \in Atomic :
       status[t] = "running" =>
          \/ t \in orphaned
          \/ \E w \in Workers : Executing(w) /\ Holds(w, t)

\* A parent none of whose descendants was written since the last
\* consolidation has the status its children determine: the walk up from one
\* task leaves no parent on another branch or level behind.  Holds while one
\* worker executes a task at a time.
ParentsFollowChildren ==
    \A p \in Groups :
       (\A t \in Descendants(p) : stale[t] = "no") => Consolidated(status, p)

\* At most one run of a task is answered with a retry: the next failure goes
\* to manual review (_MAX_FAILED_RUNS_BEFORE_MANUAL_REVIEW).  Holds while one
\* worker executes a task at a time.
OneRetryPerTask ==
    \A r, s \in Runs :
       /\ recovery[r] = "retry_same_task"
       /\ recovery[s] = "retry_same_task"
       /\ runTask[r] = runTask[s]
       => r = s

----------------------------------------------------------------------------
(* Why VerdictMatchesRun, ClosedWorkIsEvidenced and RunningIsOwned are kept: *)
(* the inductive invariant of the proofs.                                    *)

\* What a worker carries from one step to the next.
WorkersOK ==
    \A w \in Workers :
       /\ pc[w] = "idle" <=> run[w] = NoRun
       /\ run[w] # NoRun => TaskOf(w) \in Atomic
       /\ pc[w] = "transient" => choice[w] \in RecoveryActions
       /\ pc[w] = "promoting" => choice[w] \in {"completed", "partial"}
       /\ pc[w] = "closing"   => choice[w] \in Verdicts
       /\ \A t \in Atomic : view[w][t] = "unchanged"

\* A run is executed by the worker that created it and by no other.
RunsAreOwned ==
    \A v, w \in Workers : run[v] = run[w] => v = w \/ run[v] = NoRun

Untouched(r) == artifact[r] = "none" /\ r \notin promoted

\* How far the row of a run and its files are when its worker is at a point.
RunsOK ==
    /\ \A r \in Runs : runStatus[r] = "absent" => Untouched(r)
    /\ \A w \in Workers :
          /\ run[w] # NoRun => runStatus[run[w]] # "absent"
          /\ pc[w] \in {"created", "admitted", "started", "transient"} =>
                Untouched(run[w])
          /\ pc[w] \in {"validating", "promoting"} =>
                runStatus[run[w]] = "succeeded" /\ Untouched(run[w])
          /\ pc[w] = "closing" =>
                /\ runStatus[run[w]] = "succeeded"
                /\ artifact[run[w]] = "none"
                /\ (run[w] \in promoted) <=> (choice[w] \in {"completed", "partial"})

\* No step of a worker can contradict a persisted verdict, because only the
\* owner of a run writes to it and stops doing so with the verdict.
IInv ==
    /\ TypeOK
    /\ WorkersOK
    /\ RunsAreOwned
    /\ RunsOK
    /\ VerdictMatchesRun
    /\ ClosedWorkIsEvidenced
    /\ RunningIsOwned

----------------------------------------------------------------------------
(* Why ParentsFollowChildren, OneRetryPerTask and the refinement below are   *)
(* kept while one worker executes a task at a time.                          *)

\* One workflow is at work for the project, and so one thread executes its tasks:
\* WorkflowControl!WorkflowsAreAccountedFor where no request is granted out of turn.
OneWorker == \A v, w \in Workers : v = w

\* What the worker relies on: nobody else moves the task it executes.
TasksAreHeld ==
    /\ \A t \in Atomic : status[t] \in {"pending", "running"} \cup Verdicts
    /\ \A w \in Workers :
          /\ pc[w] = "admitted" => Executable(TaskOf(w))
          /\ Executing(w) => status[TaskOf(w)] = "running"

\* A retry is only decided for a task without a failed run, and leaves one.
RetriesAreCounted ==
    /\ \A r \in Runs : recovery[r] = "retry_same_task" => runStatus[r] = "failed"
    /\ \A w \in Workers :
          pc[w] = "transient" /\ choice[w] = "retry_same_task" =>
             FailedRuns(TaskOf(w)) = {}

\* The rows as they will be once w has written the parents it derived.
Landed(w) == [t \in Tasks |-> IF view[w][t] = "unchanged" THEN status[t]
                              ELSE view[w][t]]

\* Once they are written, every parent below which nothing else was written
\* since w read the hierarchy has the status its children determine.
ViewsAreCurrent ==
    \A w \in Workers :
       pc[w] = "consolidating" =>
          \A p \in Groups :
             (\A u \in Descendants(p) :
                 \/ stale[u] = "no"
                 \/ stale[u] = "read" /\ Sibling(u, TaskOf(w)))
             => Consolidated(Landed(w), p)

SoloInv ==
    /\ TasksAreHeld
    /\ RetriesAreCounted
    /\ OneRetryPerTask
    /\ ViewsAreCurrent
    /\ ParentsFollowChildren

----------------------------------------------------------------------------
(* Refinement. *)

Lifecycle == INSTANCE TaskLifecycle WITH
    Work      <- Atomic,
    state     <- [t \in Atomic |-> status[t]],
    delivered <- {runTask[r] : r \in promoted}

\* The attempts keep the promise the platform makes about a task: work is
\* delivered before it is announced, on every path through the failures of a
\* call.  Holds while one worker executes a task at a time.
ImplementsLifecycle == Lifecycle!Spec
=============================================================================
