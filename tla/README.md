# A verification development of the multi-agent platform

The platform plans a software project with language models, breaks it into
atomic tasks, executes them with agents in a container, validates what they
did, promotes it into the project's source tree, and recovers, replans or asks
the user when something goes wrong. A conversational agent, Aria, stands
between the user and the workflow; a QA engine probes what was built. The
models here are about the *control* of that system: what is committed in which
order, who may act when, and what is left after a failure, a crash or a late
answer. What a language model, a tool or a container answers is always a
choice among all the answers the code's schemas and checks let pass.

Paths are relative to `src/app/` unless they start with another directory.

## 1. Inventory

| Component | Code | State | Operations | Hard behaviour |
|---|---|---|---|---|
| Task attempt | `services/task_execution_service.py`, `services/execution_runs.py`, `services/tasks.py` | rows `Task`, `ExecutionRun`, `Artifact`; the promoted files | create run, start, engine outcome, validate, promote, persist artifact and status, check, reconcile | some fifteen commits and one file-system effect; every one may be the last; two sessions on one task |
| Task hierarchy | `services/task_hierarchy_service.py`, `services/task_hierarchy_reconciliation_service.py` | status of parents | derive, consolidate up to the root | derived late from committed children; failures skip it |
| Project workflow | `services/project_workflow_service.py` | a thread; the stop event; a plan in memory | environment, planning, sequencing, batches, evaluation, iteration limit | pause in the middle; loops fed by model answers |
| Conversation | `api/ws/router.py`, `services/conversation/aria/` | `Conversation.phase`, review context, proposed plan, pending reports | turns with tools; start, pause, resume, review, confirm; reports of workflows | HTTP threads, the event loop and workflow threads act on one row |
| Resumption | `services/conversation/resumption_service.py` | task rows | narrow, moderate, disruptive | several commits; planning in the middle |
| Startup | `main.py` | – | pauses conversations that were executing | what a crash leaves in the rows |
| Recovery | `services/recovery_service.py` | `is_recovery_task`, `followup_depth`, statuses | reatomize, insert_followup, manual_review with corrections | chains that must end |
| Workspaces and storage | `services/local_workspace_runtime.py`, `services/project_storage.py` | directories source, staging, backup | prepare, promote, roll back, recover | crash between renames, failing removals |
| Validation | `services/validation/` with its five validators | results of validators | select, run, correct, aggregate, upgrade | mixed results, models that cannot be asked |
| Post-batch evaluation | `services/post_batch_service.py`, `services/post_batch_decision_service.py`, `services/evaluation_service.py`, `schemas/evaluation.py`, `schemas/post_batch.py` | iteration trace, finalization count | recover, evaluate, resolve the intent, mutate the plan | long call with several commits; contradictory answers |
| Execution plan | `services/execution_plan_service.py`, `services/execution_plan_patch_service.py`, `services/live_plan_mutation_service.py`, `services/recovery_assignment_compiler_service.py`, `schemas/execution_plan.py` | plan versions, batches, patches | sequence, patch, assign, resequence | no task lost or planned twice while the plan is being executed |
| Planning | `services/planner.py`, `services/technical_task_refiner.py`, `services/atomic_task_generator.py` | task rows | plan, refine, atomise | flushed before they are judged; repeated by every workflow |
| Execution engine | `execution_engine/` | runtime state of one run, budgets, evidence | decide, call a subagent, repair, finish | loop bounds, repair attempts, verdicts from stale evidence |
| Environment | `services/environment/` | runtime spec, session store, container | plan, bootstrap, install, smoke-test, repair, tear down | one session per project, several workflows |
| QA engine | `services/qa/` | QA session row, report | offer, bootstrap, probe, synthesise, report, remediate | runs in threads of its own beside the conversation |
| Project start and import | `services/project_start_service.py`, the import services | project rows, source tree | start, import | starts over open tasks |
| Memory, manifest, supervisor, LLM providers, prompts, REST views, frontend | several | derived data | – | model calls and I/O |

How they interact. The router (an event loop, plus a thread per HTTP request)
runs turns of the conversation and submits workflows and QA runs to thread
pools. A workflow thread calls the environment, the planners, the task attempts
and the post-batch evaluation one after the other, each on database sessions of
its own, and reports to the conversation when it is done. A task attempt runs
the engine, then the validators, then the promotion. The stop event, the
session store and the thread pools live in memory; everything else is rows and
directories.

What makes each component correct, in one sentence: an attempt never leaves
rows, artifact and files contradicting one another; a parent has the status
its children determine; a workflow ends, and no second one is at work
unless a request asked for it; the phase the user sees agrees with what runs and
what is left to do; work is decomposed once
and only beside a proven container; no pending task is lost between two
batches; recovery chains end; an engine run keeps its budgets and verifies what
it finishes; the source tree changes atomically; a task is closed as completed
only if nobody objected; a QA run ends, is reported after it was stored, and is
remediated once per confirmation.
The hazards behind these sentences are listed with their lines in
`PROJECT.json`.

## 2. Modules

| Module | Models | Notes |
|---|---|---|
| `TaskHierarchy` | planning levels, statuses, derivation and the walk to the root | constants and operators only |
| `TaskExecution` | one action per commit of `execute_task_sync`, every failure path, crash | extends `TaskHierarchy` |
| `TaskLifecycle` | what the platform promises about one task | abstract; `TaskExecution` implements it |
| `WorkflowControl` | conversation, workflows, stop event, session of the environment, restart | a task attempt is a begin and an end |
| `StageExecution` | sequencing, batches, recovery, evaluation and iterations of a workflow | composes the next two |
| `LivePlan` | batches, patches, ordering, placement of new tasks | operators only |
| `PostBatchDecision` | answers of the evaluator, schema checks, intents and results | operators only |
| `RecoveryChain` | `materialize_recovery_decision` and the life of recovery tasks | |
| `ProjectSetup` | environment, planning and the answers to a review | instances the consolidation of `TaskHierarchy` through `PlanningTree` |
| `PlanningTree` | the table of task rows and what planning and resumption do to it | operators only |
| `ExecutionEngine` | the decision loop of one engine run, and the documentation engine | |
| `ValidationPipeline` | selection of validators, their corrections, aggregation | |
| `SourcePromotion` | `promote_workspace_to_source`, `ensure_project_storage` | a rename is a step, copies and removals are two |
| `SourceTree` | the source tree changes by one run at a time, at once | abstract; `SourcePromotion` implements it |
| `QASession` | QA runs, their reports and the turns that answer them | |
| `TaskExecution_proofs`, `WorkflowControl_proofs`, `StageExecution_proofs`, `ProjectSetup_proofs`, `ExecutionEngine_proofs`, `RecoveryChain_proofs`, `QASession_proofs` | theorems about the module each extends | checked with TLAPS |
| `AttemptSteps_proofs` | theorems about `ValidationPipeline` and `SourcePromotion`, the two steps that follow the execution of an attempt | the two share no state; the specification of the first is `ValidationSpec` |

How they fit together. `StageExecution` is the inside of `EvaluateBatch` and of
the loops of `WorkflowControl`, `ProjectSetup` the inside of its
`PrepareEnvironment` and `PlanWork` and of the resumptions; both take the
execution of a task as one step, which `TaskExecution` has in detail. In
`TaskExecution` the engine, the validators and the promotion are one step each:
their outcomes are the results of `ExecutionEngine`, the verdicts of
`ValidationPipeline` and the returns of `SourcePromotion`. `RecoveryChain`
takes the corrections of one recovery decision in detail, `StageExecution` what
it does to the plan.

An operator whose comment begins with `VARIANT:` is a plausible mistake in the
definition below it. No specification uses it; `PROJECT.json` ("mutants") says
which property notices it.

### TaskExecution

A step of a worker ends at a commit or at the promotion. `status`, `runTask`,
`runStatus`, `recovery` and `artifact` are the committed rows; `promoted` is
the set of runs whose workspace is in the source tree; `pc`, `run`, `choice`
and `view` are the locals of a call. `stale` and `orphaned` are history: which
writes the parents have not seen, and which tasks a call left without closing
them. `CreateRun` and `Admit` are the two checks of
`_validate_task_is_executable`; `StartRun` commits run and task; the five
`Engine…` actions are the return of the engine and the four `except` branches
(`EngineFails` stands for three of them); `Validate` … `CheckClosed` are
`_validate_after_execution`; `ReadHierarchy` and `Consolidate` are the read and
the commit of the reconciliation. `ValidationBreaks`, `PromoteFails` and
`CloseFails` mark run and task failed and raise, without reconciling.

### WorkflowControl

A turn of the conversation is one step, except a disruptive resumption, which
commits the phase `replanning` and then plans (`BeginReplanning`,
`FinishReplanning`, `FailReplanning`). The other user actions are endpoints:
`StartByApi` (rows only), `RunWorkflow` (`POST /workflow/projects/{id}/run`, a
workflow in the thread of its request: `direct`), `PauseWorkflow`,
`ResumeWorkflow`, `NotifyReview` and `NotifyTaskEvent`. The guards are those of
the code. That a tool belongs to a phase is said in Aria's prompt only, so a
project is started, resumed and reviewed in any phase here, and
`resume_workflow` does accept `executing`. A request is *out of turn* if it asks
for work, a review or the completion of the project while a workflow is at work
or a review is open, answers a review that is not open, or opens one of a task
that did not fail; `astray` counts those that were granted, and `MaxAstray`
bounds them in a run. The actions of a workflow follow
`run_project_workflow`: `PrepareEnvironment`, `PlanWork`, `SequencePlan`, then
for each batch `CheckStop`, `BeginTask`, `EndTask`, and `EvaluateBatch`, whose
disjuncts are the answers of the post-batch evaluation. `Report` is
`_run_workflow_background` after the workflow returned or raised
(`ReportToConversation`), or the answer of the endpoint (`ReportToCaller`);
`StopContainer` and `RemoveSession` are the teardown. The
event of a turn, not its phase change, makes the router submit a workflow:
with `Faults` the two may disagree (`SubmitOrLose`), and the report of a
workflow may fail. Workflows are numbered in the order they are submitted.

### StageExecution, LivePlan, PostBatchDecision

A batch is a record of an id, its index, its anchor if it is a patch, and its
tasks. `LivePlan` has the order of batches (`Before`), the check of the schema
(`Accepted`), the renumbering after every change (`Normalized`) and the
insertion of patches; a plan the schema rejects is `Refused`, and the workflow
fails on it. `PostBatchDecision` enumerates every answer of the evaluator, what
the schema's corrections make of it, which it rejects, the intent
`resolve_post_batch_intent` derives, and which results the schema of the result
lets pass. `StageExecution` executes: `Sequence` asks for batches and may leave
tasks out (`leftOut`, the log line of the code), `TakeBatch`, `RunTask` and
`Pause` are the loop over a batch, `FinishBatch`, `Recover` and `Evaluate` are
`process_batch_after_execution` in the order of its commits, `Assign` and
`Resequence` the mutations, `NextIteration` the outer loop with its two limits,
and `NextWorkflow` a workflow started again on the same rows.

### ProjectSetup, PlanningTree

`table` is the committed task rows, `view` what the open session sees: rows of
an answer are flushed there before their quality is judged, and committed by
the next commit, whoever makes it. `PlanEnvironment` … `Repair` are the
steps of the environment, with the container's state from `none` to `proven`;
`PlanProject`, `Refine` and `Atomise` are the planners, each parent one answer;
`Report` and `Teardown` the end of a workflow. `TryAgain`, `Narrow`,
`Moderate` with `CreateBlock` and `Reintegrate`, and `Disrupt` with `Replan`
are the answers to a review, one action per commit. Workflows follow one
another here (`WorkflowControl` has them overlap), from the chat or from the
endpoint, which does not tear down.

### ExecutionEngine

An iteration of the loop is one step: `Settle` is a forced finish or a spent
budget, `Conclude` a final decision of the model, `Undecided` and `Invalid`
answers that cannot be used, the others a call of a subagent with each of its
outcomes. `request` is the classification of the task, `command` and
`diagnosis` the latest evidence, `phase` the guard on what may be called.
`DocumentContext` and `DocumentWrite` are the engine for documentation tasks.

### ValidationPipeline

The run starts from any call sequence and any evidence. The operators
`CodeChange` … `ImageGeneration` are what each of the five validators can
report: every answer of its model after the corrections the validator makes of
it (`Sanitised`, `Overruled`), what it says without asking, and what it does
when the model fails: four of them raise, one reports.

### RecoveryChain

Applies the four corrections of `materialize_recovery_decision` in the order of
the code to any decision of the model, creates any number of tasks up to a
bound, and lets each be executed with any outcome; `Retry` is the resolution of
a review.

### SourcePromotion

A directory is absent or a tree: the set of runs whose overlay it has, and
whether all of its files are there. `Faults` names the operations that may
fail. `Ensure` … `MakeSource` are `ensure_project_storage`, whose errors are
logged and passed over; `Promote` … `Cleanup` are the promotion with its
rollback. The process may die between any two steps.

### QASession

`row` is the committed QA session, `run` a worker thread with the session it
has in memory, `conv` the three columns of the conversation it touches. A
turn is two steps, so that a report may arrive between its read and its write
(`Turn`, `Respond`); only the columns the turn changed are overwritten, as the
ORM does. A worker goes through `Bootstrap`, `Build`, rounds of `Decide` and
`Skip` or `Probe`, `Synthesise`, `Persist`/`Save`, `Tell`/`Told`; `holder` is
the lock on the conversation's row between the last two. The turns of a chat
connection share a database session. A turn that raises `ActiveTasksError` or
`AriaOrchestratorError` is answered with the error, and the session goes on with
what it has flushed (`RespondRefused`); any other exception ends the connection
and rolls back (`RespondFails`). `kept` are the remediation tasks flushed and not
committed, which the next turn that is answered commits (`Respond`, `Turn`,
`Talk`) or a disconnection drops (`Leave`). The strategy of each
product type and the yield of each agent are tables.

## 3. Runs

| Run | Bounds | Shows |
|---|---|---|
| `MC_TaskExecution` | 1 worker, 3 runs, tree h–g–a and h–b | `ParentsFollowChildren`, `OneRetryPerTask`; `ImplementsLifecycle`: implements `TaskLifecycle` |
| `MC_TaskExecutionRace` | 2 workers, 2 runs, same tree | verdicts, evidence and ownership under a race for one task |
| `WorkflowControl` | 2 tasks, 2 workflows, 2 iterations, faults, at most 1 request out of turn | workflows are accounted for, also when two are at work; without such a request the phase tells what is at work and a review can be answered; a pause holds each workflow back; `WorkflowEnds` |
| `WorkflowControlStop` (violation) | 2 tasks, 2 workflows, nothing out of turn | finding 1 |
| `StageExecution` | 2 original and 2 recovery tasks, 2 batches, 3 iterations, 1 finalization, 2 workflows | no pending task is lost between batches, new work is ahead, a closed stage is complete, mutations keep the plan |
| `ProjectSetup` | 1 runtime type with a driver and 1 without, 5 rows, 2 rows an answer, 3 workflows, 1 new block, 1 restart | work is decomposed once, only beside a proven container; the session of the chat's workflows is removed; completed work survives each answer to a review |
| `ExecutionEngine` | 5 subagents, 6 steps, 5 calls, 2 repairs | budgets, context before work, no empty run reported as completed, a finish follows a verification |
| `ExecutionEngineSetup` (violation) | as above | finding 2 |
| `MC_RecoveryChain` | 2 original tasks below different parents, 4 recovery tasks, at most 2 per decision | follow-ups continue partial work, replacements are not replaced, a replaced task stays replaced, chains end |
| `SourcePromotion` | 3 runs, crash anywhere, every fault but "drop" and "recover" | a sound source after each recovery, a whole tree at every step, no stale source; implements `SourceTree` |
| `ValidationPipeline` | 4 agents (1 ignored), sequences of at most 2 calls, all orders of the evidence | everyone heard once, no upgrade over an objection, an outage approves nothing, honest primary result |
| `QASession` | 2 runs, 2 product types, 4 agents, 2 rounds, 1 restart, 1 refused confirmation per report | finished rows have their findings, reports follow results, one remediation per answer to a report, no agent dominates; `EveryRunEnds` |

Why the bounds are enough. *Attempts*: three runs let one task fail, be retried
and fail again while the other task moves the common parent; the tree has a
parent two levels up and one directly above. *Workflows*: two let one be
paused or end in a review and the other be submitted by the resumption or the
confirmation, and where a request is out of turn both be at work together, on
different tasks or the same one; the theorems have any number of workflows and
of such requests; two tasks make a batch in which a pause falls between two
tasks; two iterations make one that replans and one that meets the limit. *Stages*:
two batches have a patch before, between and after them, two recovery tasks are
placed into one batch or different ones, three iterations reach one that
resequences what another one left, and the second workflow meets rows that the
first left in every status. *Setup*: five rows make two goals with parts and
atomics of one of them, or one goal and a new block with its own. *Engine*: six
steps are enough for a rejected selection, a selection, a write, a failing
command, a repair and the step that is one too many; the theorems hold for
every budget. *Recovery*: four tasks make a chain of two follow-ups and a
reatomization in any order. *Promotion*: three make one that succeeded, one
that is under way and one that follows a recovery. *QA*: two runs are one whose
report is being answered and one that reports meanwhile; two rounds make one
that repeats the agent of the other. Runs end when the bounds are used up, so
deadlock is not checked.

Fairness. `WorkflowEnds` assumes weak fairness of each workflow's own steps:
the thread pool has more threads than a project has workflows, a workflow
thread is never descheduled for ever, and the calls it makes to models,
container and engine return or raise. Nothing is assumed of the user or of the
server, which may restart at any time. `EveryRunEnds` assumes the same of each
QA worker; nothing is assumed of turns, and the lock a report waits for is held
by another worker, which releases it when Aria has answered. The number
of recovery tasks of one workflow is bounded in the model (`MaxTask`); in the
code the path that assigns recovery tasks to the live plan does not count
against the iteration limit (`finalization_reopened` after an assignment), so
there the bound is the recovery caps (`FollowupsEnd`), not the loop.

Conditions of the properties. `WorkflowsAreAccountedFor` and
`PauseHoldsBackWork` hold unconditionally. `WorkOnlyWhileExecuting` and
`ReviewIsAnswerable` hold as long as no request was granted out of turn, and say
so; after one, a workflow may report a pause or a review while another works on,
even at the task under review. `ParentsFollowChildren`, `OneRetryPerTask` and
`ImplementsLifecycle` hold for one worker; by `WorkflowsAreAccountedFor` that is
the case as long as no request was granted out of turn, and nobody calls
`POST /tasks/{id}/execute`. `SourceIsSound`, `SomeTreeSurvives` and
`ImplementsSourceTree` hold unless the removal of the backup after the swap, or
the rename of the recovery, fails; `NoStaleSource` is proved even then. All of
`SourcePromotion` assumes that one thread touches the directories of a project:
`ensure_project_storage` takes no lock and is also called by the project start
(`services/project_start_service.py:106`, `:147`), the imports and the analysis,
which in another thread could sweep a staging or backup tree that is in use.
`PlanCoversWork` speaks of the pending tasks the sequencer was not silent about.
`ProjectSetup` has workflows one after the other. `QASession` has one chat
connection at a time, whose turns its websocket serialises, and reads committed
rows only. In `ValidationPipeline` a call sequence may name any agent; an engine
run cannot call the image agent (`execution_engine/next_action.py:12-19`), so
what its validator reports without a model is reached by other callers of the
validation only.

### Findings

1. A pause request sets the stop event whether or not a workflow is at work,
   and the submission after `project_started` does not clear it: the next
   workflow pauses at its first task. `clear_workflow_stop` says "call before
   re-submitting the workflow".
2. `_command_is_setup_only` is documented with "A successful setup command must
   not be treated as evidence that acceptance-criteria verification has been
   completed", but a task that asks for verification in its repository
   (`orchestrator.py:516`) is finished after any successful last command, an
   installation included.

### Seen while modelling

Visible in the definitions, and stated here because no run asks about them.

*Control.* The phase `paused` is committed before the teardown, so a workflow
resumed in between loses its session to the teardown of the one that was paused
(`api/ws/router.py:143`). After a crash a task stays `running`: startup looks
at conversations only, no plan takes the task up, and `execute_task_sync`
refuses it, although `README.md:29` promises a resumption "desde pausa o
crash". The workflow is submitted for the event of a turn's last tool, so a
turn may leave `executing` without a workflow. A disruptive resumption commits
`replanning` before it plans; if planning fails everything is superseded, the
superseded goals still count as a plan, and the workflow never plans again.
`resume_workflow` is documented with "Resume a paused or interrupted workflow"
(`api/ws/router.py:624`; `README.md:320` has "Reanuda workflow pausado o tras
crash"), but in the phase `executing` it looks for pending tasks only: it clears
the stop event and submits a second workflow beside the one at work, which is
what `astray` counts (`ResumeWorkflow`).

*Attempts.* The workspace is promoted before the artifact and the status are
persisted, and for partial work too (`Validate`, `Promote`), where
`README.md:582-584` has the opposite order and completed tasks only. A failure
after the execution does not reconcile the parents (`FailAndRaise`). A
follow-up of a recovery task is not marked as one, so it may be reatomized.

*Storage.* If the removal of the backup fails part-way after the swap, the
rollback deletes the complete new source and restores the half-removed backup
(`local_workspace_runtime.py:352`). A failed rename in the recovery is hidden
by the `mkdir` after it, and the backup is deleted by the next recovery
(`Recover`, `MakeSource`).

*Validation.* A validator that fails makes the verdict failed only if all fail,
and manual_review comes first (`Aggregate`), where `README.md:569` puts failed
first. The command validator drops a gap that was named when the last command
passed (`Overruled`); blockers of a partial result do not prevent an upgrade.

*Stages.* The plan of the sequencer is not compared with its candidates: a task
may be left out or named twice, and an order against `depends_on_task_titles`
is only logged. A failed task of a batch that was interrupted by a pause, a
review or an exception is never judged again. A project goal shorter than ten
characters makes every assignment raise. An answer that closes the stage before
the last batch is not deferred, as `post_batch_service.py:752` says, but
rejected by the schema, and the workflow fails. The guard on reprocessed
batches never fires.

*Setup.* The catalogue and the planner name runtime types without a driver, for
which a `ValueError` ends the workflow. The environment is planned again by
every workflow and overwrites the runtime spec. The spec is stored as a dict
and read with `model_validate_json`, which fails, so packages a user adds are
skipped silently. The image a repair corrects is never started,
and the repaired spec not stored. Rows of a rejected refinement or decomposition are committed with
the message about the failure. A run of the endpoint leaves container and
session on exceptions. A moderate cancellation does not consolidate the
parents: a project may be announced as completed whose goal is still open, and
a new start then raises `ActiveTasksError`.

*Engine.* A rejected context selection cannot be retried. A passing command
before the last write counts as verification, and an old diagnosis decides
whether a failure can be repaired. With the default budget of 8 steps, 8 calls
and 2 repairs the limit of calls and three invalid decisions in a row are not
reached. Evidence of files that were restored after a failed write stays.

*QA.* No caller fills the registry of agents, so a deployed run probes nothing
and passes; a run that exhausts its budget without findings passes. A remediation
changes the phase to `executing` and submits no workflow. A turn that confirms
or declines a remediation may overwrite a newer report. A confirmed remediation
creates one task for each the report names (`services/qa/QA.md:149`). If a later
tool of the turn then raises `ActiveTasksError` (`start_project`: the new tasks
are active), the router answers with the error and goes on with the same session,
without a rollback (`api/ws/router.py:349-351`). The next turn commits the flushed
tasks while the report is still pending, and a second confirmation creates them
again (`RespondRefused`): the reason why `RemediatedOncePerAnswer` counts
`refused` confirmations. A crash, or a turn of
Aria that raises while a report is delivered, leaves the phase `qa_running`.

## 4. Proofs

What is proved holds for every value of the constants, under the assumptions
their modules state by name.

**`TaskExecution_proofs`**, for every task tree of at most three levels, every
number of runs and of workers that race for the same tasks: `Typing`
(`TypeOK`), `VerdictsAreKept` (a persisted verdict is attached to a succeeded
run, whose files are in the source tree exactly if the verdict is completed or
partial), `WorkIsEvidenced` (a task that reads completed or partial has a
promoted run with that verdict), `RunningTasksAreOwned` (a running task is being
executed, or its call died) and `Invariance`, the invariant `IInv` they rest
on. None of the three is inductive. What is missing is what a worker carries
from one step to the next (`WorkersOK`: at `closing` it holds a verdict, at
`promoting` one that is promoted), that a run is executed by one worker only
(`RunsAreOwned`: the row of a run is created by its worker, and ids are not
reused), and how far the row and the files of a run are at each point
(`RunsOK`). From these a verdict can only be written by the owner of a run that
succeeded and whose files are where the verdict says; afterwards nobody writes
to that run again, because a failure is recorded before the verdict or not at
all. Assumptions: `HierarchyAssumption` (a parent is on a higher level than its
children) and `ExecutionAssumption` (runs are a finite set).

The other three properties of an attempt are proved for one worker
(`OneWorker`), the hypothesis of each theorem, which `WorkflowsAreCounted` of
`WorkflowControl_proofs` provides where no request is granted out of turn. `ParentsAreSettled` (`ParentsFollowChildren`), `RetriesAreBounded`
(`OneRetryPerTask`) and `LifecycleIsImplemented` (the refinement of
`TaskLifecycle`) rest on `SoloInv`. `TasksAreHeld` says that the task of a
running call stays running until that call moves it, and that no task has a
status an attempt cannot leave it in; `RetriesAreCounted` that a retry is chosen
for a task without a failed run only, and becomes one. The parents are the hard
part, since a reconciliation is a read and a later write, and between two
reconciliations parents are out of date: `ViewsAreCurrent` says of the derived
statuses that wait to be written that with them the table *will be* consolidated
(`Landed`), for every parent below which nothing was written since the read. The
proof walks the tree from the parent that is being derived: its children were
either derived before it, and then agree, or are atomic.

**`ExecutionEngine_proofs`**, for every budget: `BudgetHolds`, `ContextFirst`,
`NothingEmptyIsCompleted`, `VerifiedFinish` and `LoopInvariance`. `LoopInv`
adds what ties the counters and the phase together: while a run goes on each
step was a call or a repair, discovery ends with the one call it allows, and a
writer that wrote nothing left a failed step. That a spent run has its context
needs an assumption: a rejected selection and the invalid decisions that may
follow must leave a step (`MaxRepairs + 1 < MaxSteps` in `EngineAssumption`),
which the default budget does.

**`RecoveryChain_proofs`**, for any number of tasks and decisions:
`FollowupsContinue`, `ReplacementsAreFinal`, `WorkIsDoneOnce`,
`DepthStopsAtTheCap` and `ChainInvariance`. `ChainInv` adds that a row that does
not exist is blank (`AbsentIsBlank`: a new task has no history that could make
it a source), that a task's outcome agrees with its status (`OutcomeIsStatus`)
and that follow-ups and replacements know their source. `FollowupChainsEnd`
(`FollowupsEnd`) needs `DepthCounts` besides: a follow-up counts one more than
its source. Along a lineage the count therefore falls by one with each link, and
since it is at most the cap, a lineage of follow-ups alone has at most cap + 1
tasks (`ShortLineage`).

**`AttemptSteps_proofs`** on `SourcePromotion`, for any number of runs. `OlderTreesStayBehind`
(`NoStaleSource`) holds whichever operations fail: `FreshTrees` adds that a
whole backup has all that was promoted, and that a whole staging tree has it
with the run that is under way. `ReadersFindASoundSource`,
`NothingPromotedIsLost` and `SwapIsAtomic` (the refinement of `SourceTree`)
assume `Survivable`: the removal of the backup and the rename of the recovery
do not fail. `PromotionInv` adds which of the two trees is the one to go on
with at each point (`OneTree`), that no tree but the new source has a run whose
fate is open (`NothingRefused`), and that the staging tree is the source and
one run (`StagingAddsRun`). The refinement maps the tree to what a recovery at
that moment would come to (`Surviving`): it changes in `Swap` only.

**`WorkflowControl_proofs`**, for any number of tasks, workflows, iterations and
requests out of turn, without a hypothesis: `WorkflowsAreCounted`
(`WorkflowsAreAccountedFor`), `PhaseTellsTheTruth` (`WorkOnlyWhileExecuting`),
`ReviewsCanBeAnswered` (`ReviewIsAnswerable`), `PausesHold`
(`PauseHoldsBackWork`) and `ControlInvariance`. The first is a count: the
workflows at work and a review that waits are at most one and the requests out
of turn together. A workflow that opens a review ends with it, an answer that
submits one closes the review, and every other way to add to the count is a
request that is counted. The answer after a replanning is safe because the
review waits until then (`ReplanningKeepsReview`). While nothing is out of turn
the count says that at most one workflow is at work, and none beside a review
(`OneThingAtATime`); from this the phase follows, with `ReplanningKeepsPhase` for
the turn that submits after it has replanned, and that no workflow touches a
task under review. `StopIsHeeded` adds that a workflow that began a task under a
pause request has not chosen another: `late` is counted for each workflow, so
the argument does not care how many there are.

**`StageExecution_proofs`**, for any number of tasks, batches, iterations and
workflows and every answer of the models: `NoWorkIsLost` (`PlanCoversWork`),
`WorkStaysAhead` (`WorkAhead`), `NothingIsLeftOpen` (`ClosedIsComplete`),
`BatchesKeepTheirPlaces` (`MutationsKeepThePlan`) and `StageInvariance`. The
first half is about plans alone. `WellFormed` says that the batches of a plan
are strictly ordered by `Before`, numbered by their place and without two of
one id, and that a patch stands behind the place its anchor had. A new patch is
level with no batch (`NextNrIsNew`), so there is one place where it fits
(`PlaceExists`); sorting inserts it there and moves no other past another
(`SortingInserts`). The numbers given afterwards are what makes this hard:
anchors do not follow the batches they name, so a renumbered plan could be out
of order. `RenumberingKeepsOrder` shows that the check of the schema, which
compares neighbours only, rejects every such plan. What is left is a plan that
has grown behind the current batch (`Grown`), and so it is for a cluster that is
attached and for the two clusters of a proposal (`CompiledGrows`). The second
half shows that each step keeps `StageInv`: the executed batches are the first
ones of the plan (`PositionOK`, `WorkAhead`) and have nothing pending
(`PlanOK`); what is pending is in a later batch, left out by the sequencer, or
was created by the recovery under way (`WorkIsCovered`). None of the three
follows without the others: that work is covered needs the batch just judged to
have nothing pending, and that needs the plan to give new tasks to later batches
only. `Evaluated` sums up the table of decisions, its schema checks and the
mutations in five ways an evaluation ends. `StageAssumption` asks for positive
bounds and no more.

**`ProjectSetup_proofs`**, for any number of rows, answers, workflows and
restarts: `NothingIsPlannedUnproven`, `TheChatClosesItsSession`,
`NothingFinishedIsUndone` and `SetupInvariance`. `RowsOK` says that no atomic
task is a parent (so that consolidation writes none), that what the open
session has flushed keeps what is finished in the committed rows, and that a
task under review is not finished while its answer is carried out;
`EnvironmentOK` that a container is worked on in a session and that the user's
turns have none. `NothingIsPlannedTwice` (`OneDecomposition`) rests on
`PlanningOK`: `CutOnce` states the property row by row, for the committed rows
and for what the open session has flushed, together with what makes the next
decomposition safe. All goals not cut yet come from one plan, because a plan is
made only when no goal is open; a goal gets parts when it has none, and atomic
tasks after all parts exist or, in a project without refinement, directly; and
an answer to a review puts an atomic task back, never a goal that could be cut
again. Most steps change statuses only (`Steady`), and cannot disturb it.

**`AttemptSteps_proofs`** on `ValidationPipeline`, for any agents, calls and
evidence: `NoObjectionIsOverruled` and `NothingIsApprovedUnasked`, from
`VerdictsAreFounded`: every result is one that a validator can report, and a
verdict is what the aggregation makes of the results. The first then needs no
argument about each validator, the second that the one result without an answer
asks for a manual review. `TheSpokesmanIsHonest` (`SpokesmanIsHonest`) is a
property of the aggregation: there is a first result of the rank that speaks,
and its decision is never worse than the verdict. `NobodyIsPassedOver`
(`EveryoneIsHeard`) needs `HeardInOrder`: the results there are and the
validators still queued are, in this order, the selection; so what is left to
show is that the selection names every producer of a call, and of evidence that
is not ignored, once (`SelectionIsComplete`, from `FirstOfPicks` on the loop
that collects first occurrences).

**`QASession_proofs`**, for any number of runs, agents, findings and restarts:
`ResultsAreWhole`, `ReportsFollowResults`, `OneRemediationPerAnswer`
(`RemediatedOncePerAnswer`), `NoAgentTakesOver` and `QAInvariance`. `StoredInTime` places the commit of a row between the end
of its run and its report, also in what a turn has read; `RemediedIsAnswered`
counts the tasks made of a report, those the session still keeps included: while
the report is shown or being answered, only confirmations that were refused have
made any, and one more can follow; `TakesTurns` that an agent is one probe
ahead of the others only if it was the last one. `QAAssumption` asks that the
null value is neither a run nor an agent.

Only model-checked: liveness (`WorkflowEnds`, `EveryRunEnds`), which with
ENABLED is out of the prover's reach. Every safety property and action property
of the runs that pass is a theorem, some under the hypotheses named above. What
a recursive definition computes for every input would need the library's
induction theorems, which take an operator as a parameter and cannot be
instantiated; where a proof needs such a fact it argues by the least
counterexample instead (`Least`, from the well-foundedness of the naturals):
`FirstOf`, the links of a lineage, the numbers of patches. No module here
declares a RECURSIVE operator.

## 5. What is not modelled

The prompts and schemas of the language-model calls, where no property depends
on them; the tools of the subagents and what validators read of files; project
memory, workspace manifest, supervisor, REST views and frontend, which change
no state the control depends on. Inside modelled components: the tool loop and
the message history of a turn; two active conversations of one project; the
packages of an environment and their versions; the preparation of a workspace
and its commands; the import of sources; the QA endpoint that reports a run
again, and what QA agents do to find something. The endpoints that plan a
project, refine or atomise one task (`api/planner.py`,
`api/technical_task_refiner.py`, `api/atomic_task_generator.py`) are not actions
of `ProjectSetup`. `WorkflowControl` leaves out the phase `qa_running` and what
remediation does to the phase (`QASession`), the container (`ProjectSetup`) and
all of a session but whether there is one, and `ProjectSetup` the phases of the
conversation. `LivePlan` has at most two clusters of recovery tasks per proposal,
of which the compiler takes any number, and leaves out its error for a cluster
with a task that its batch already has. `StageExecution` leaves out the
infrastructure error of an attempt that is raised out of its batch, and
`TaskExecution` the refusal of a blocked task
(`services/task_execution_service.py:117`), which no service blocks, and of one
whose executor type is unknown. Database transactions are atomic and serialised by commits and
row locks; a lost connection is a raised exception.

## 6. What is left

1. *Proofs*: `ParentsFollowChildren` and `ImplementsLifecycle` for workers that
   race, as far as they hold; what the properties of one module assume of
   another, as theorems of their composition.
2. *Composition*: `StageExecution` as an implementation of the loop of
   `WorkflowControl`; overlapping workflows in `ProjectSetup`.
3. *Conversation*: the tool loop of a turn, and the creation of conversations.
4. *Workspaces*: preparation, reading of changes, and the commands run there.
