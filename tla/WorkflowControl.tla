--------------------------- MODULE WorkflowControl ---------------------------
(***************************************************************************)
(* One project under way: the conversation with the user, the workflows    *)
(* that are submitted to the thread pool for it, the cooperative stop      *)
(* event, the session of the environment, and a server that may die and    *)
(* start again (ws/router.py, aria/orchestrator.py,                        *)
(* project_workflow_service.py, main.py).                                  *)
(*                                                                         *)
(* A turn of the conversation is one step: its tools run and its phase     *)
(* change is committed before the router acts on the answer.  The one      *)
(* exception is a disruptive resumption, which commits the phase           *)
(* "replanning" before it plans.  The tools check little of what state the *)
(* conversation is in, only the prompt of the model that calls them says   *)
(* which belongs to which phase, so they may be used in any.  What a       *)
(* workflow does to a task is a begin and an end here, TaskExecution has   *)
(* the steps between.                                                      *)
(*                                                                         *)
(* A request is out of turn if it asks for work, for a review, or whether  *)
(* the project is completed, while a workflow is at work or a review is    *)
(* open; if it answers a review that is not open; or if it opens a review  *)
(* of a task that did not fail.  The code grants most of these requests,   *)
(* and the history variable astray counts those it granted.                *)
(***************************************************************************)
EXTENDS Naturals, FiniteSets

CONSTANTS
    MaxTask,        \* atomic tasks a behaviour can have; a later one has a
                    \* larger number (Task.id)
    Jobs,           \* workflow submissions of a behaviour, numbered as they
                    \* are made
    MaxIterations,  \* run_project_workflow's max_workflow_iterations
    MaxAstray,      \* requests granted out of turn in a behaviour
    Faults          \* whether the answer of a turn that changed the phase may
                    \* carry another event than that of the change, and the
                    \* report of a workflow may fail

ASSUME WorkflowAssumption ==
    /\ MaxTask \in Nat \ {0}
    /\ IsFiniteSet(Jobs) /\ Jobs \subseteq Nat
    /\ MaxIterations \in Nat \ {0}
    /\ MaxAstray \in Nat /\ Faults \in BOOLEAN

VARIABLES
    phase,      \* Conversation.phase
    review,     \* Conversation.review_context: a task, or one of the two below
    plan,       \* whether Conversation.proposed_plan is set
    replanner,  \* whether a turn is busy with a disruptive resumption
    task,       \* task[t]: the row of task t, abstracted from Task.status
    stop,       \* the project's threading.Event
    session,    \* whether EnvironmentSessionStore holds a session of the project
    pc,         \* pc[j]: how far workflow j is
    todo,       \* todo[j]: tasks of j's plan in batches not yet begun
    batch,      \* batch[j]: tasks of the current batch not yet executed
    current,    \* current[j]: the task j executes, or 0
    round,      \* round[j]: iterations of j's main loop
    direct,     \* workflows the endpoint POST run called, not the pool
    asked,      \* history: workflows the pause request that stands was made for
    late,       \* history: late[j]: tasks j began under the pause request that
                \* stands, at most 2
    astray      \* history: requests granted out of turn

conversation == <<phase, review, plan, replanner>>
loop         == <<todo, batch, current, round>>
history      == <<asked, late>>
calls        == <<direct, astray>>

vars == <<conversation, task, stop, session, pc, loop, history, calls>>

Tasks == 1 .. MaxTask
NoReview == 0
ProjectReview == MaxTask + 1

\* "gathering" is gathering_requirements.
Phases == {"gathering", "executing", "reviewing", "replanning", "paused",
           "completed"}

\* Between "queued" and "evaluating" the workflow runs; "paused", "review",
\* "closed" and "failing" are its outcomes, not yet reported.
ProgramPoints == {"unused", "queued", "planning", "sequencing", "choosing",
                  "cleared", "executing", "evaluating", "paused", "review",
                  "closed", "failing", "teardown", "removing", "done"}

AtWork(j) == pc[j] \notin {"unused", "teardown", "removing", "done"}
Workers   == {j \in Jobs : AtWork(j)}
SomeWork  == \E j \in Jobs : AtWork(j)
Busy      == SomeWork \/ review # NoReview

Init ==
    /\ phase = "gathering" /\ review = NoReview
    /\ plan = FALSE /\ replanner = FALSE
    /\ task = [t \in Tasks |-> "absent"]
    /\ stop = FALSE
    /\ session = FALSE
    /\ pc = [j \in Jobs |-> "unused"]
    /\ todo = [j \in Jobs |-> {}]
    /\ batch = [j \in Jobs |-> {}]
    /\ current = [j \in Jobs |-> 0]
    /\ round = [j \in Jobs |-> 0]
    /\ direct = {} /\ asked = {} /\ late = [j \in Jobs |-> 0]
    /\ astray = 0

----------------------------------------------------------------------------
(* What the queries of the code see. *)

In(S) == {t \in Tasks : task[t] \in S}

\* Task.status not in TERMINAL_TASK_STATUSES.  A parent is pending as long as
\* one of its children is not terminal, so this is also "some row is pending".
Unfinished == In({"planned", "pending", "running"})

HasPending == Unfinished # {}

\* New rows: some tasks that did not exist, in state s.
Created(N, s) == [t \in Tasks |-> IF t \in N THEN s ELSE task[t]]

----------------------------------------------------------------------------
(* Submission of a workflow to the pool. *)

\* The router submits a workflow only if the event of the answer says so; the
\* event is that of the last tool of the turn, and "fallback" for most turns
\* that ran out of steps, so a turn that changed the phase may submit none.
Submit(j) ==
    /\ pc[j] = "unused" /\ \A i \in Jobs : i < j => pc[i] # "unused"
    /\ pc' = [pc EXCEPT ![j] = "queued"]

SubmitOrLose(j) ==
    \/ Submit(j)
    \/ Faults /\ UNCHANGED pc

NotLate   == late' = [j \in Jobs |-> 0]
ClearStop == stop' = FALSE /\ NotLate /\ asked' = {}
KeepStop  == UNCHANGED <<stop, late, asked>>

\* A request that is granted, out of turn if c holds.
InTurnUnless(c) ==
    IF c THEN astray < MaxAstray /\ astray' = astray + 1 ELSE UNCHANGED astray

----------------------------------------------------------------------------
(* Turns of the conversation, and the endpoints of the routers.  A turn of   *)
(* the chat waits for the one before, the endpoints wait for nothing.        *)

\* ProjectStartService: new rows, if there are no unfinished ones.
PlanProject ==
    /\ Unfinished = {}
    /\ \E N \in SUBSET In({"absent"}) :
          /\ N # {}
          /\ task' = Created(N, "planned")

\* start_project, from the chat or the Start button.  The stop event is not
\* touched.
StartProject(j) ==
    /\ PlanProject
    /\ InTurnUnless(Busy)
    /\ phase' = "executing"
    /\ SubmitOrLose(j)
    /\ KeepStop
    /\ UNCHANGED <<review, plan, replanner, session, loop, direct>>

\* POST start of the projects router: the rows only.
StartByApi ==
    /\ PlanProject
    /\ UNCHANGED <<conversation, stop, session, pc, loop, history, calls>>

\* POST run: run_project_workflow is called in the thread of the request,
\* whatever the conversation is about.
RunWorkflow(j) ==
    /\ InTurnUnless(Busy)
    /\ Submit(j)
    /\ direct' = direct \cup {j}
    /\ UNCHANGED <<conversation, task, stop, session, loop, history>>

\* POST pause, in whatever phase.
PauseWorkflow ==
    /\ stop' = TRUE
    /\ asked' = asked \cup {j \in Jobs : AtWork(j)}
    /\ IF stop THEN UNCHANGED late ELSE NotLate
    /\ UNCHANGED <<conversation, task, session, pc, loop, calls>>

\* VARIANT: the phase is left as it was.
Reopen_KeepsPhase == UNCHANGED phase

Reopen == phase' = "executing"

\* POST resume-workflow: the event is cleared before anything is checked, and
\* whether a workflow is at work is not.
ResumeWorkflow(j) ==
    /\ ClearStop
    /\ \/ /\ phase \in {"paused", "executing"} /\ HasPending
          /\ InTurnUnless(Busy)
          /\ Reopen
          /\ Submit(j)
       \/ /\ phase \notin {"paused", "executing"} \/ ~HasPending
          /\ UNCHANGED <<phase, pc, astray>>
    /\ UNCHANGED <<review, plan, replanner, task, session, loop, direct>>

\* resume_project, from the chat; the phase is not looked at.
ResumeByChat(j) ==
    /\ ~replanner /\ HasPending
    /\ InTurnUnless(Busy)
    /\ ClearStop
    /\ Reopen
    /\ SubmitOrLose(j)
    /\ UNCHANGED <<review, plan, replanner, task, session, loop, direct>>

\* review_agent found the user's answer sufficient.
ProposePlan ==
    /\ ~replanner
    /\ InTurnUnless(review = NoReview)
    /\ plan' = TRUE
    /\ UNCHANGED <<phase, review, replanner, task, stop, session, pc,
                   loop, history, direct>>

\* VARIANT: the context of the review stays with the conversation.
ForgetReview_KeepsContext == plan' = FALSE /\ UNCHANGED review

\* VARIANT: the plan that was proposed stays.
ForgetReview_KeepsPlan == review' = NoReview /\ UNCHANGED plan

ForgetReview == review' = NoReview /\ plan' = FALSE

\* review_agent found that the user gave up; no workflow is submitted.  A
\* review of no task is one of the project, also if none is open.
AbandonReview ==
    /\ ~replanner
    /\ InTurnUnless(review = NoReview)
    /\ \/ /\ review \in Tasks
          /\ task' = [task EXCEPT ![review] = "failed"]
          /\ phase' = "executing"
       \/ /\ review \notin Tasks
          /\ phase' = "paused"
          /\ UNCHANGED task
    /\ ForgetReview
    /\ UNCHANGED <<replanner, stop, session, pc, loop, history, direct>>

\* confirmation_agent found that the user did not confirm.
RejectPlan ==
    /\ ~replanner /\ plan
    /\ plan' = FALSE
    /\ UNCHANGED <<phase, review, replanner, task, stop, session, pc,
                   loop, history, calls>>

\* The rows after a resumption of the reviewed task: the task is pending
\* again; a moderate change also cancels some unfinished tasks and creates
\* some, a narrow one does not.
Resumed(E, N) ==
    [t \in Tasks |-> CASE t = review -> "pending"
                       [] t \in E    -> "closed"
                       [] t \in N    -> "pending"
                       [] OTHER      -> task[t]]

\* resumption_agent, after the user confirmed.  It needs the review, not the
\* plan.  A task that is no longer failed refuses the resumption, and nothing
\* changes.
ConfirmPlan(j) ==
    /\ ~replanner
    /\ \/ /\ review = ProjectReview
          /\ UNCHANGED task
       \/ /\ review \in Tasks /\ task[review] = "failed"
          /\ \E E \in SUBSET In({"pending"}), N \in SUBSET In({"absent"}) :
                task' = Resumed(E, N)
    /\ Reopen /\ ForgetReview
    /\ \/ Submit(j) /\ ClearStop
       \/ Faults /\ UNCHANGED pc /\ KeepStop
    /\ UNCHANGED <<replanner, session, loop, calls>>

\* A disruptive change first supersedes all that is not terminal ...
BeginReplanning ==
    /\ ~replanner
    /\ review \in Tasks /\ task[review] = "failed"
    /\ task' = [t \in Tasks |->
                   IF t \in Unfinished THEN "closed" ELSE task[t]]
    /\ phase' = "replanning"
    /\ replanner' = TRUE
    /\ UNCHANGED <<review, plan, stop, session, pc, loop, history, calls>>

\* ... and then plans anew.
FinishReplanning(j) ==
    /\ replanner
    /\ \E N \in SUBSET In({"absent"}) :
          /\ N # {}
          /\ task' = Created(N, "planned")
    /\ replanner' = FALSE
    /\ Reopen /\ ForgetReview
    /\ \/ Submit(j) /\ ClearStop
       \/ Faults /\ UNCHANGED pc /\ KeepStop
    /\ UNCHANGED <<session, loop, calls>>

\* Planning raised: the connection of the user ends with the exception.
FailReplanning ==
    /\ replanner
    /\ replanner' = FALSE
    /\ UNCHANGED <<phase, review, plan, task, stop, session, pc, loop,
                   history, calls>>

OpenReview(r) == phase' = "reviewing" /\ review' = r /\ plan' = FALSE

\* POST notify-review, on any task.
NotifyReview(t) ==
    /\ task[t] # "absent"
    /\ InTurnUnless(Busy \/ task[t] # "failed")
    /\ OpenReview(t)
    /\ UNCHANGED <<replanner, task, stop, session, pc, loop, history,
                   direct>>

\* check_project_completed: all atomic tasks, of which there are some, are
\* terminal.
ProjectCompleted ==
    phase = "executing" /\ Unfinished = {} /\ Tasks # In({"absent"})

CompleteProject == phase' = "completed" /\ UNCHANGED <<review, plan>>

\* POST notify-task-event, with the status of a task that is terminal.
NotifyTaskEvent ==
    /\ ProjectCompleted
    /\ CompleteProject
    /\ InTurnUnless(Busy)
    /\ UNCHANGED <<replanner, task, stop, session, pc, loop, history,
                   direct>>

----------------------------------------------------------------------------
(* A workflow: run_project_workflow. *)

GoTo(j, point) == pc' = [pc EXCEPT ![j] = point]

\* The runtime is planned, its container started, and validated.
PrepareEnvironment(j) ==
    /\ pc[j] = "queued"
    /\ \/ GoTo(j, "failing") /\ UNCHANGED session
       \/ GoTo(j, "review") /\ session' = FALSE
       \/ GoTo(j, "planning") /\ session' = TRUE
    /\ UNCHANGED <<conversation, task, stop, loop, history, calls>>

\* Atomic tasks are generated for the work that is only planned.
PlanWork(j) ==
    /\ pc[j] = "planning"
    /\ \/ /\ GoTo(j, "sequencing")
          /\ task' = Created(In({"planned"}), "pending")
       \/ /\ GoTo(j, "failing")
          /\ UNCHANGED task
    /\ UNCHANGED <<conversation, stop, session, loop, history, calls>>

\* The next batch is some of the tasks left in the plan.
TakeBatch(j, left) ==
    \E B \in SUBSET left :
       /\ B # {}
       /\ batch' = [batch EXCEPT ![j] = B]
       /\ todo'  = [todo EXCEPT ![j] = left \ B]
       /\ GoTo(j, "choosing")

\* VARIANT: the loop has no limit.
NextIteration_NoLimit(j) == UNCHANGED round

NextIteration(j) ==
    /\ round[j] < MaxIterations
    /\ round' = [round EXCEPT ![j] = @ + 1]

\* An iteration that begins without a plan; a plan holds pending tasks only,
\* and there is none without them.
SequencePlan(j) ==
    /\ pc[j] = "sequencing"
    /\ \/ /\ NextIteration(j)
          /\ TakeBatch(j, In({"pending"}))
       \/ /\ UNCHANGED <<todo, batch, round>>
          /\ \/ round[j] = MaxIterations /\ GoTo(j, "review")
             \/ round[j] < MaxIterations /\ GoTo(j, "failing")
             \/ round[j] < MaxIterations /\ GoTo(j, "review")
    /\ UNCHANGED <<conversation, task, stop, session, current, history, calls>>

\* VARIANT: the event is looked at before the first task of a batch only.
CheckStop_OncePerBatch(j) ==
    /\ pc[j] = "choosing" /\ batch[j] # {}
    /\ IF stop /\ current[j] = 0
       THEN GoTo(j, "paused") /\ ClearStop /\ UNCHANGED current
       ELSE /\ \E t \in batch[j] : current' = [current EXCEPT ![j] = t]
            /\ GoTo(j, "cleared")
            /\ KeepStop
    /\ UNCHANGED <<conversation, task, session, todo, batch, round,
                   calls>>

\* The event is looked at before each task; a workflow that finds it set
\* consumes it.
CheckStop(j) ==
    /\ pc[j] = "choosing" /\ batch[j] # {}
    /\ IF stop
       THEN GoTo(j, "paused") /\ ClearStop /\ UNCHANGED current
       ELSE /\ \E t \in batch[j] : current' = [current EXCEPT ![j] = t]
            /\ GoTo(j, "cleared")
            /\ KeepStop
    /\ UNCHANGED <<conversation, task, session, todo, batch, round, calls>>

\* execute_task_sync refuses a task whose status is not pending or failed;
\* "failed" here may also be partial or awaiting_review.
BeginTask(j) ==
    /\ pc[j] = "cleared"
    /\ \/ /\ task[current[j]] \in {"pending", "failed"}
          /\ task' = [task EXCEPT ![current[j]] = "running"]
          /\ GoTo(j, "executing")
          /\ late' = [late EXCEPT ![j] = IF stop /\ @ < 2 THEN @ + 1 ELSE @]
       \/ /\ task[current[j]] # "pending"
          /\ GoTo(j, "failing") /\ UNCHANGED <<task, late>>
    /\ UNCHANGED <<conversation, stop, session, loop, asked, calls>>

\* A failed attempt returns or raises.
EndTask(j) ==
    /\ pc[j] = "executing"
    /\ \E result \in {"closed", "failed"} :
          /\ task' = [task EXCEPT ![current[j]] = result]
          /\ \/ GoTo(j, "choosing")
             \/ result = "failed" /\ GoTo(j, "failing")
    /\ batch' = [batch EXCEPT ![j] = @ \ {current[j]}]
    /\ UNCHANGED <<conversation, stop, session, todo, current, round,
                   history, calls>>

\* All tasks of the batch were executed.
CloseBatch(j) ==
    /\ pc[j] = "choosing" /\ batch[j] = {}
    /\ GoTo(j, "evaluating")
    /\ UNCHANGED <<conversation, task, stop, session, loop, history, calls>>

\* The rows after the recovery of a batch: new tasks replace or complete some
\* of those that failed.
Recovered(F, N) ==
    [t \in Tasks |-> CASE t \in F -> "closed"
                       [] t \in N -> "pending"
                       [] OTHER   -> task[t]]

\* The recovery of the batch is committed, and then the batch is evaluated:
\* continue with the plan and the recovery tasks put into it; an iteration
\* over what is left of the plan; an iteration over a new plan; the stage
\* closed; a review asked for; an exception.  A stage is not closed over
\* unfinished tasks, and a plan that is exhausted without having been closed
\* ends in a review.  A closed row that is pending again stands for one more
\* recovery task: evaluations that replan can make any number of them, those
\* that continue at most MaxTask.
EvaluateBatch(j) ==
    /\ pc[j] = "evaluating"
    /\ \E F \in SUBSET In({"failed"}), N \in SUBSET In({"absent", "closed"}) :
          /\ F = {} <=> N = {}
          /\ task' = Recovered(F, N)
          /\ \/ /\ N \subseteq In({"absent"})
                /\ TakeBatch(j, todo[j] \cup N)
                /\ UNCHANGED round
             \/ /\ N = {}
                /\ NextIteration(j) /\ TakeBatch(j, todo[j])
             \/ /\ GoTo(j, "sequencing")
                /\ UNCHANGED <<todo, batch, round>>
             \/ /\ todo[j] = {}
                /\ GoTo(j, IF Unfinished \cup N = {} THEN "closed" ELSE "failing")
                /\ UNCHANGED <<todo, batch, round>>
             \/ /\ GoTo(j, "review") \/ GoTo(j, "failing")
                /\ UNCHANGED <<todo, batch, round>>
    /\ UNCHANGED <<conversation, stop, session, current, history, calls>>

----------------------------------------------------------------------------
(* The report of a workflow to the conversation: _run_workflow_background.  *)

\* A review of the whole project; the report itself may fail, and then
\* nothing of it is committed.
TryOpenProjectReview ==
    \/ OpenReview(ProjectReview)
    \/ Faults /\ UNCHANGED <<phase, review, plan>>

\* The workflow was stopped; the phase is written whatever it is.
ReportPaused(j) ==
    /\ pc[j] = "paused"
    /\ phase' = "paused"
    /\ UNCHANGED <<review, plan>>

\* The last task that awaits a review is reviewed, or else the last that failed,
\* or the project if there is none.
ReportReview(j) ==
    /\ pc[j] = "review"
    /\ \/ \E t \in In({"failed"}) : OpenReview(t)
       \/ Faults /\ TryOpenProjectReview
       \/ In({"failed"}) = {} /\ TryOpenProjectReview

\* A task that awaits a review comes before the completion of the project.
ReportClosed(j) ==
    /\ pc[j] = "closed"
    /\ \/ \E t \in In({"failed"}) : OpenReview(t)
       \/ ProjectCompleted /\ CompleteProject
       \/ ~ProjectCompleted /\ UNCHANGED <<phase, review, plan>>
       \/ Faults /\ TryOpenProjectReview

ReportFailure(j) ==
    /\ pc[j] = "failing"
    /\ TryOpenProjectReview

\* A workflow the endpoint called returns its result to the caller and not to
\* the conversation, and gives its container back only if it returns.
ReportToCaller(j) ==
    /\ \/ pc[j] \in {"paused", "review", "closed"} /\ GoTo(j, "teardown")
       \/ pc[j] = "failing" /\ GoTo(j, "done")
    /\ UNCHANGED <<phase, review, plan>>

ReportToConversation(j) ==
    /\ \/ ReportPaused(j)
       \/ ReportReview(j)
       \/ ReportClosed(j)
       \/ ReportFailure(j)
    /\ GoTo(j, "teardown")

Report(j) ==
    /\ IF j \in direct THEN ReportToCaller(j) ELSE ReportToConversation(j)
    /\ direct'  = direct \ {j}
    /\ todo'    = [todo EXCEPT ![j] = {}]
    /\ batch'   = [batch EXCEPT ![j] = {}]
    /\ current' = [current EXCEPT ![j] = 0]
    /\ round'   = [round EXCEPT ![j] = 0]
    /\ asked'   = asked \ {j}
    /\ UNCHANGED <<replanner, task, stop, session, late, astray>>

\* After the report the container of the session is stopped ...
StopContainer(j) ==
    /\ pc[j] = "teardown"
    /\ IF session THEN GoTo(j, "removing") ELSE GoTo(j, "done")
    /\ UNCHANGED <<conversation, task, stop, session, loop, history, calls>>

\* ... and the session of the project removed, whoever's it is by then.
RemoveSession(j) ==
    /\ pc[j] = "removing"
    /\ session' = FALSE
    /\ GoTo(j, "done")
    /\ UNCHANGED <<conversation, task, stop, loop, history, calls>>

----------------------------------------------------------------------------
(* The server dies and starts again: threads, the event and the sessions    *)
(* are lost, the rows stay.  Startup pauses a project                       *)
(* that was executing and has pending rows.                                 *)

RestartServer ==
    /\ phase' = IF phase = "executing" /\ HasPending THEN "paused" ELSE phase
    /\ replanner' = FALSE
    /\ pc'      = [j \in Jobs |-> IF pc[j] = "unused" THEN "unused" ELSE "done"]
    /\ todo'    = [j \in Jobs |-> {}]
    /\ batch'   = [j \in Jobs |-> {}]
    /\ current' = [j \in Jobs |-> 0]
    /\ round'   = [j \in Jobs |-> 0]
    /\ session' = FALSE
    /\ stop'    = FALSE
    /\ direct'  = {} /\ asked' = {} /\ NotLate
    /\ UNCHANGED <<review, plan, task, astray>>

----------------------------------------------------------------------------

JobStep(j) ==
    \/ PrepareEnvironment(j)
    \/ PlanWork(j)
    \/ SequencePlan(j)
    \/ CheckStop(j)
    \/ BeginTask(j)
    \/ EndTask(j)
    \/ CloseBatch(j)
    \/ EvaluateBatch(j)
    \/ Report(j)
    \/ StopContainer(j)
    \/ RemoveSession(j)

UserStep(j) ==
    \/ StartProject(j)
    \/ RunWorkflow(j)
    \/ ResumeWorkflow(j)
    \/ ResumeByChat(j)
    \/ ConfirmPlan(j)
    \/ FinishReplanning(j)

Next ==
    \/ \E j \in Jobs : JobStep(j) \/ UserStep(j)
    \/ StartByApi
    \/ PauseWorkflow
    \/ ProposePlan
    \/ AbandonReview
    \/ RejectPlan
    \/ BeginReplanning
    \/ FailReplanning
    \/ \E t \in Tasks : NotifyReview(t)
    \/ NotifyTaskEvent
    \/ RestartServer

Spec == Init /\ [][Next]_vars

\* The pool has a thread for every workflow and the calls a workflow makes
\* return or raise; nothing is assumed of the user or the server.
FairSpec == Spec /\ \A j \in Jobs : WF_vars(JobStep(j))

----------------------------------------------------------------------------
(* Safety. *)

\* Workflows at work and a review that waits are one thing in all, and one more
\* for each request that was granted out of turn (router.py, api/workflow.py):
\* what the program does by itself, and an answer to a review, never adds a
\* second, whatever order reports, confirmations, replanning and restarts come
\* in.  resume_workflow, "Resume a paused or interrupted workflow", does grant
\* such requests.
WorkflowsAreAccountedFor ==
    Cardinality(Workers) + (IF review # NoReview THEN 1 ELSE 0) <= 1 + astray

\* As long as no request was granted out of turn, a workflow of the
\* conversation is at work only in the phase "executing", so what the user is
\* told is over, paused or waiting for an answer is (router.py,
\* orchestrator.py).  A workflow of the endpoint does not touch the phase.
WorkOnlyWhileExecuting ==
    astray = 0 =>
        \A j \in Jobs : AtWork(j) => j \in direct \/ phase = "executing"

\* As long as no request was granted out of turn, a review that waits for the
\* user says what it is about, nothing else keeps a review or a proposed plan,
\* and the task under review is one that resume_after_review accepts, so a
\* confirmation is not refused.
ReviewIsAnswerable ==
    astray = 0 =>
        /\ review # NoReview <=> phase \in {"reviewing", "replanning"}
        /\ plan => review # NoReview
        /\ review \in Tasks => task[review] = "failed"

\* While a pause request stands, each workflow at work, one or several, begins
\* at most the one task it had already chosen.  The first workflow that pauses
\* takes the request away from the others (_run_execution_iteration).
PauseHoldsBackWork == \A j \in Jobs : late[j] <= 1

(* Liveness. *)

\* Every workflow that is submitted ends and closes its session: the main loop
\* does not go round for ever, whatever the evaluations answer and whatever
\* another workflow does to the same tasks.
WorkflowEnds == <>[](\A j \in Jobs : pc[j] \in {"unused", "done"})

----------------------------------------------------------------------------
(* What the safety properties rest on. *)

TaskStates == {"absent", "planned", "pending", "running", "closed", "failed"}

TypeOK ==
    /\ phase \in Phases
    /\ review \in NoReview .. ProjectReview
    /\ plan \in BOOLEAN /\ replanner \in BOOLEAN /\ stop \in BOOLEAN
    /\ task \in [Tasks -> TaskStates]
    /\ session \in BOOLEAN
    /\ pc \in [Jobs -> ProgramPoints]
    /\ todo \in [Jobs -> SUBSET Tasks] /\ batch \in [Jobs -> SUBSET Tasks]
    /\ current \in [Jobs -> Tasks \cup {0}]
    /\ round \in [Jobs -> 0 .. MaxIterations]
    /\ direct \subseteq Jobs /\ asked \subseteq Jobs
    /\ late \in [Jobs -> 0 .. 2]
    /\ astray \in 0 .. MaxAstray

\* A turn that replans does so for a review, and keeps its phase until it is
\* done.
ReplanningKeepsReview == replanner => review # NoReview
ReplanningKeepsPhase  == astray = 0 /\ replanner => phase = "replanning"

\* A workflow that began a task under the pause request has not chosen the next.
StopIsHeeded == \A j \in Jobs : late[j] > 0 => stop /\ pc[j] # "cleared"

ControlInv ==
    /\ TypeOK
    /\ WorkflowsAreAccountedFor
    /\ ReplanningKeepsReview /\ ReplanningKeepsPhase
    /\ WorkOnlyWhileExecuting /\ ReviewIsAnswerable
    /\ PauseHoldsBackWork /\ StopIsHeeded

----------------------------------------------------------------------------
(* What documents say of the program and the code does not do. *)

\* project_workflow_service.clear_workflow_stop: "Clear a pending stop signal
\* (call before re-submitting the workflow)": a workflow is paused only by a
\* request made while it was at work.
StopIsForThisWorkflow ==
    [][\A j \in Jobs : CheckStop(j) /\ pc'[j] = "paused" => j \in asked]_vars
=============================================================================
