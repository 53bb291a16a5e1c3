---------------------------- MODULE ProjectSetup ----------------------------
(***************************************************************************)
(* What a workflow does before it executes anything: it plans the runtime  *)
(* environment, starts the project's container, installs and smoke-tests   *)
(* it, and only then plans, refines and atomises the project's tasks; and  *)
(* what happens between two workflows, when the user answers a review and  *)
(* the tasks are cancelled, added to or replaced                           *)
(* (project_workflow_service.py, services/environment, planner.py,         *)
(* technical_task_refiner.py, atomic_task_generator.py,                    *)
(* resumption_service.py, project_start_service.py).                       *)
(*                                                                         *)
(* Answers of language models and results of docker and package managers   *)
(* are any the code accepts, and any of its failures.  The execution of    *)
(* the tasks is one step here; StageExecution has it in detail.            *)
(***************************************************************************)
EXTENDS PlanningTree

CONSTANTS
    RuntimeTypes,   \* RuntimeSpec.runtime_type of the plans considered
    MaxChildren,    \* rows one answer of a planning model has at most
    MaxTasks,       \* task rows a behaviour has at most
    MaxWorkflows,   \* workflows started
    MaxBlocks,      \* new work blocks of one answer
    MaxCrashes      \* process restarts

ASSUME SetupAssumption ==
    /\ {MaxChildren, MaxTasks, MaxWorkflows} \subseteq Nat \ {0}
    /\ {MaxBlocks, MaxCrashes} \subseteq Nat

\* Runtime types the driver registry knows.
Drivers == {"python_venv", "node_npm", "rust_cargo", "java_maven", "android_gradle"}

\* Runtime types whose gradle wrapper is seeded.
Gradle == {"android_gradle", "java_gradle"}

VARIABLES
    table,       \* the committed task rows
    view,        \* the rows the open database session sees
    refinement,  \* Project.enable_technical_refinement
    spec,        \* Project.runtime_spec: its runtime type, "none" before
    container,   \* the project's container and how far it has been proved
    session,     \* the session store has an entry for the project
    review,      \* task under review; Anchorless for the project, 0 for none
    blocks,      \* new_work_blocks still to create
    pc,          \* where the workflow or the user's turn is
    caller,      \* who started the last workflow: the chat or the endpoint
    workflow,    \* workflows started
    crashes      \* process restarts so far

rows == <<table, view>>
env  == <<container, session>>
vars == <<table, view, refinement, spec, container, session, review, blocks,
          pc, caller, workflow, crashes>>

Anchorless == MaxTasks + 1

Launch(who) ==
    /\ workflow < MaxWorkflows
    /\ workflow' = workflow + 1
    /\ caller' = who
    /\ pc' = "environment"

Goto(p) == pc' = p /\ UNCHANGED <<refinement, caller, workflow, crashes>>

----------------------------------------------------------------------------
(* The runtime environment. *)

\* The catalog's image, when the selector names one of it, decides the type;
\* the planner's answer does otherwise.
Resolved(catalog, planned) == IF catalog # "none" THEN catalog ELSE planned

PlanEnvironment ==
    /\ pc = "environment"
    /\ \/ \E catalog \in RuntimeTypes \cup {"none"}, planned \in RuntimeTypes :
             spec' = Resolved(catalog, planned)
          /\ Goto("start")
       \/ Goto("failed") /\ UNCHANGED spec
    /\ UNCHANGED <<rows, env, review, blocks>>

\* The session is closed whatever docker answers to the stop.
Stopped ==
    /\ session' = FALSE
    /\ container' \in IF session THEN {"none", container} ELSE {container}

\* A container of the same name is removed first, if docker lets it; an image
\* that cannot be built or pulled is the only failure bootstrap reports.
StartContainer ==
    /\ pc = "start"
    /\ \/ /\ spec \in Drivers
          /\ \/ container' = "started" /\ session' = TRUE /\ Goto("install")
             \/ container' = "none" /\ UNCHANGED session /\ Goto("unusable")
             \/ container' \in {"none", container} /\ UNCHANGED session /\ Goto("failed")
       \/ spec \notin Drivers /\ UNCHANGED env /\ Goto("failed")
    /\ UNCHANGED <<rows, spec, review, blocks>>

InstallPackages ==
    /\ pc = "install"
    /\ \/ UNCHANGED env /\ Goto(IF spec \in Gradle THEN "seed" ELSE "smoke")
       \/ Stopped /\ Goto("unusable")
       \/ UNCHANGED env /\ Goto("failed")
    /\ UNCHANGED <<rows, spec, review, blocks>>

SeedGradleWrapper ==
    /\ pc = "seed"
    /\ \/ UNCHANGED env /\ Goto("smoke")
       \/ Stopped /\ Goto("unusable")
       \/ UNCHANGED env /\ Goto("failed")
    /\ UNCHANGED <<rows, spec, review, blocks>>

SmokeTest ==
    /\ pc = "smoke"
    /\ \/ container' = "proven" /\ Goto("plan")
       \/ UNCHANGED container /\ Goto("repair")
       \/ UNCHANGED container /\ Goto("failed")
    /\ UNCHANGED <<rows, spec, session, review, blocks>>

\* VARIANT: the packages of the repair are installed and not tested.
Repair_Untested ==
    /\ pc = "repair"
    /\ \/ UNCHANGED env /\ Goto("plan")
       \/ Stopped /\ Goto("unusable")
       \/ UNCHANGED env /\ Goto("failed")
    /\ UNCHANGED <<rows, spec, review, blocks>>

\* One repair: its packages go into the same container, the smoke test is
\* run once more, and any failure but docker's own tears the container down.
Repair ==
    /\ pc = "repair"
    /\ \/ container' = "proven" /\ UNCHANGED session /\ Goto("plan")
       \/ Stopped /\ Goto("unusable")
       \/ UNCHANGED env /\ Goto("failed")
    /\ UNCHANGED <<rows, spec, review, blocks>>

----------------------------------------------------------------------------
(* Planning. *)

\* An answer of a planning model is made into rows, flushed, judged, and
\* committed when it passes.
Answered(p, l, origin) ==
    \E n \in 1 .. MaxChildren, sound \in BOOLEAN :
        /\ Len(view) + n <= MaxTasks
        /\ view' = Added(view, p, l, n, origin)
        /\ table' = IF sound THEN view' ELSE table
        /\ Goto(IF sound THEN pc ELSE "failed")

\* The model did not answer, or twice not as its schema asks.
Unanswered == Goto("failed") /\ UNCHANGED rows

PlanProject ==
    /\ pc = "plan"
    /\ \/ Planned(view) /\ Goto("refine") /\ UNCHANGED rows
       \/ ~Planned(view) /\ (Answered(0, "high_level", "plan") \/ Unanswered)
    /\ UNCHANGED <<env, spec, review, blocks>>

Refine ==
    /\ pc = "refine"
    /\ LET todo == IF refinement THEN Unrefined(view) ELSE {}
       IN  IF todo = {}
           THEN Goto("atomise") /\ UNCHANGED rows
           ELSE LET goal == CHOOSE g \in todo : \A h \in todo : g <= h
                IN  Answered(goal, "refined", "plan") \/ Unanswered
    /\ UNCHANGED <<env, spec, review, blocks>>

Atomise ==
    /\ pc = "atomise"
    /\ IF Undecomposed(view, refinement) = {}
       THEN Goto("execute") /\ UNCHANGED rows
       ELSE Answered(NextParent(view, refinement), "atomic", "plan") \/ Unanswered
    /\ UNCHANGED <<env, spec, review, blocks>>

----------------------------------------------------------------------------
(* Execution, in one step, and the ends of a workflow. *)

\* Without an atomic task to run there is no plan, and the workflow fails.
\* Otherwise some of them complete, and possibly one stops the stage for a
\* review, of which the chat is told if it can be reached.
Execute ==
    /\ pc = "execute"
    /\ LET ready == Pending(view, "atomic")
       IN  \/ Goto("failed") /\ UNCHANGED <<rows, review>>
           \/ /\ ready # {}
              /\ view' = Consolidated(WithStatus(view, ready, "completed"), ready)
              /\ table' = view'
              /\ Goto("ending") /\ UNCHANGED review
           \/ \E t \in ready, s \in {"awaiting_review", "failed"} :
              \E done \in SUBSET (ready \ {t}) :
                 /\ view' = Consolidated(
                                WithStatus(WithStatus(view, done, "completed"), {t}, s),
                                done \cup {t})
                 /\ table' = view'
                 /\ review' \in IF caller = "chat" THEN {t, review} ELSE {review}
                 /\ Goto("ending")
    /\ UNCHANGED <<env, spec, blocks>>

\* The endpoint closes its session and lets the error out; the chat tells the
\* conversation on the workflow's own session, whose commit takes whatever
\* was flushed along.
Report ==
    /\ pc \in {"failed", "unusable"}
    /\ \/ /\ caller = "chat"
          /\ \/ table' = view /\ view' = view /\ review' = Anchorless
             \/ table' = table /\ view' = table /\ UNCHANGED review
          /\ Goto("ending")
       \/ /\ caller = "api"
          /\ view' = table /\ UNCHANGED <<table, review>>
          /\ Goto(IF pc = "failed" THEN "idle" ELSE "ending")
    /\ UNCHANGED <<env, spec, blocks>>

\* VARIANT: only a workflow that ended without an error is torn down.
Teardown_OnlyAfterWork ==
    /\ pc = "ending"
    /\ IF review = Anchorless THEN UNCHANGED env ELSE Stopped
    /\ Goto("idle")
    /\ UNCHANGED <<rows, spec, review, blocks>>

Teardown ==
    /\ pc = "ending"
    /\ Stopped
    /\ Goto("idle")
    /\ UNCHANGED <<rows, spec, review, blocks>>

----------------------------------------------------------------------------
(* What starts a workflow. *)

\* A project is planned anew when none of its rows is open; an answer that
\* does not pass is rolled back with the turn.
StartProject ==
    /\ pc = "idle" /\ review = 0
    /\ Active(table) = {}
    /\ \E n \in 1 .. MaxChildren :
          /\ Len(table) + n <= MaxTasks
          /\ table' = Added(table, 0, "high_level", n, "plan")
    /\ view' = table'
    /\ Launch("chat")
    /\ UNCHANGED <<refinement, env, spec, review, blocks, crashes>>

\* The user resumes a paused project; any pending row will do.
ResumePaused ==
    /\ pc = "idle" /\ review = 0
    /\ \E i \in DOMAIN table : table[i].status = "pending"
    /\ Launch("chat")
    /\ UNCHANGED <<rows, refinement, env, spec, review, blocks, crashes>>

\* POST /projects/{id}/run asks nothing of the conversation.
RunEndpoint ==
    /\ pc = "idle"
    /\ Launch("api")
    /\ UNCHANGED <<rows, refinement, env, spec, review, blocks, crashes>>

----------------------------------------------------------------------------
(* The answer to a review. *)

AnswerProject ==
    /\ pc = "idle" /\ review = Anchorless
    /\ review' = 0
    /\ Launch("chat")
    /\ UNCHANGED <<rows, refinement, env, spec, blocks, crashes>>

Reviewed ==
    /\ pc = "idle" /\ review \in DOMAIN table
    /\ table[review].status \in {"awaiting_review", "failed"}

\* The task waits again, the review is over and the workflow submitted.
TryAgain ==
    /\ view' = WithStatus(view, {review}, "pending")
    /\ table' = view'
    /\ review' = 0
    /\ Launch("chat")

Narrow ==
    /\ Reviewed
    /\ TryAgain
    /\ UNCHANGED <<refinement, env, spec, blocks, crashes>>

\* VARIANT: the rows the assessment names are cancelled whatever they are.
Moderate_AnyRow ==
    /\ Reviewed
    /\ \E S \in SUBSET DOMAIN view : view' = WithStatus(view, S, "cancelled")
    /\ blocks' \in 0 .. MaxBlocks
    /\ Goto("blocks")
    /\ UNCHANGED <<table, env, spec, review>>

\* The rows the assessment names are cancelled, not yet committed; its new
\* work blocks are created one after the other.
Moderate ==
    /\ Reviewed
    /\ \E S \in SUBSET DOMAIN view : view' = Cancelled(view, S)
    /\ blocks' \in 0 .. MaxBlocks
    /\ Goto("blocks")
    /\ UNCHANGED <<table, env, spec, review>>

\* A new goal goes through the atomic task generator, which commits; atomic
\* tasks below a goal that exists are only flushed.
CreateBlock ==
    /\ pc = "blocks" /\ blocks > 0
    /\ blocks' = blocks - 1
    /\ \E n \in 1 .. MaxChildren :
          \/ /\ Len(view) + n < MaxTasks
             /\ view' = Added(Added(view, 0, "high_level", 1, "block"),
                              Len(view) + 1, "atomic", n, "block")
             /\ table' = view'
          \/ /\ Len(view) + n <= MaxTasks
             /\ \E p \in At(view, "high_level") :
                   view' = Added(view, p, "atomic", n, "block")
             /\ UNCHANGED table
    /\ Goto("blocks")
    /\ UNCHANGED <<env, spec, review>>

\* The sequencer's order of the pending tasks is not modelled.
Reintegrate ==
    /\ pc = "blocks" /\ blocks = 0
    /\ TryAgain
    /\ UNCHANGED <<refinement, env, spec, blocks, crashes>>

\* The open rows are given up and that is committed before the planner is
\* asked.
Disrupt ==
    /\ Reviewed
    /\ view' = WithStatus(view, Active(view), "superseded")
    /\ table' = view'
    /\ Goto("replan")
    /\ UNCHANGED <<env, spec, review, blocks>>

Replan ==
    /\ pc = "replan"
    /\ \E n \in 1 .. MaxChildren :
          /\ Len(view) + n <= MaxTasks
          /\ view' = Added(view, 0, "high_level", n, "plan")
    /\ table' = view'
    /\ review' = 0
    /\ Launch("chat")
    /\ UNCHANGED <<refinement, env, spec, blocks, crashes>>

\* A model that does not answer, or not well enough, ends the turn: what was
\* not committed is rolled back and the review stays open.
AnswerFails ==
    /\ pc \in {"blocks", "replan"}
    /\ view' = table
    /\ blocks' = 0
    /\ Goto("idle")
    /\ UNCHANGED <<table, env, spec, review>>

\* The process dies; its sessions are memory, the container is not.
Crash ==
    /\ pc # "idle" /\ crashes < MaxCrashes
    /\ crashes' = crashes + 1
    /\ view' = table
    /\ session' = FALSE /\ blocks' = 0
    /\ pc' = "idle"
    /\ UNCHANGED <<table, refinement, spec, container, review, caller, workflow>>

----------------------------------------------------------------------------
Init ==
    /\ table = <<>> /\ view = <<>>
    /\ refinement \in BOOLEAN
    /\ spec = "none"
    /\ container = "none" /\ session = FALSE
    /\ review = 0 /\ blocks = 0
    /\ pc = "idle" /\ caller = "chat"
    /\ workflow = 0 /\ crashes = 0

Environment == \/ PlanEnvironment \/ StartContainer \/ InstallPackages
               \/ SeedGradleWrapper \/ SmokeTest \/ Repair

Planning == PlanProject \/ Refine \/ Atomise

Answer == \/ AnswerProject \/ Narrow \/ Moderate \/ CreateBlock \/ Reintegrate
          \/ Disrupt \/ Replan \/ AnswerFails

Next == \/ Environment \/ Planning \/ Execute \/ Report \/ Teardown
        \/ StartProject \/ ResumePaused \/ RunEndpoint \/ Answer \/ Crash

Spec == Init /\ [][Next]_vars

----------------------------------------------------------------------------
(* Properties. *)

CallsOf(S) == {table[i].call : i \in S}
Plan(p, l) == {i \in ChildrenAt(table, p, l) : table[i].origin = "plan"}

\* No failure, restart or answered review makes planning do again what it
\* did: a parent's parts come from one call of the model, a goal is cut into
\* parts or into atomic tasks and not both, and open goals nobody has cut yet
\* are of one plan.
OneDecomposition ==
    /\ \A p \in DOMAIN table :
          /\ \A l \in {"refined", "atomic"} : Cardinality(CallsOf(Plan(p, l))) <= 1
          /\ table[p].level = "high_level" =>
                Plan(p, "refined") = {} \/ Plan(p, "atomic") = {}
    /\ Cardinality(CallsOf({p \in Plan(0, "high_level") \cap Active(table) :
                               Children(table, p) = {}})) <= 1

\* Tasks are planned and executed only beside a container that passed its
\* smoke test and that the tools of the engine can reach.
PlansInAProvenEnvironment ==
    pc \in {"plan", "refine", "atomise", "execute"} =>
        session /\ container = "proven"

\* However a workflow of the chat ends, by error, review or restart, the
\* session store no longer knows its container.
ChatLeavesNoSession ==
    pc = "idle" /\ caller = "chat" => ~session

\* No answer to a review undoes an atomic task that was completed, not even
\* one that replaces the plan.
FinishedWorkSurvives ==
    [][\A i \in DOMAIN table :
          table[i].level = "atomic" /\ table[i].status = "completed"
              => table'[i].status = "completed"]_vars

----------------------------------------------------------------------------
(* What the properties rest on. *)

Row == [level  : {"high_level", "refined", "atomic"},
        parent : Nat,
        status : Hierarchy!TaskStatuses,
        origin : {"plan", "block"},
        call   : Nat]

\* Every parent is a row, and no atomic task is one.
Tree(rs) ==
    /\ rs \in Seq(Row)
    /\ \A i \in DOMAIN rs :
          rs[i].parent # 0 =>
              rs[i].parent \in DOMAIN rs /\ rs[rs[i].parent].level # "atomic"

\* The rows of r are rows of s, at the same level, and what was finished is.
Keeps(r, s) ==
    \A i \in DOMAIN r :
        /\ i \in DOMAIN s /\ s[i].level = r[i].level
        /\ r[i].level = "atomic" /\ r[i].status = "completed"
              => s[i].status = "completed"

\* The open session is ahead of the committed rows while it plans or answers
\* a review only, and the task under review is not finished meanwhile.
RowsOK ==
    /\ Tree(table) /\ Tree(view) /\ Keeps(table, view)
    /\ pc \in {"idle", "ending"} => view = table
    /\ pc = "blocks" => review \in DOMAIN view /\ view[review].status # "completed"

\* A container is worked on in a session, and the user's turns have none.
EnvironmentOK ==
    /\ session \in BOOLEAN
    /\ pc \in {"install", "seed", "smoke", "repair"} => session
    /\ PlansInAProvenEnvironment
    /\ pc \in {"idle", "blocks", "replan"} /\ caller = "chat" => ~session

SetupInv == RowsOK /\ EnvironmentOK

\* A goal of a plan that is open and not cut yet.
Uncut(rs, i) ==
    /\ i \in At(rs, "high_level") /\ rs[i].origin = "plan"
    /\ rs[i].status \notin Terminal
    /\ Children(rs, i) = {}

\* OneDecomposition row by row; a refined project cuts its goals into parts
\* and the other projects have none.
CutOnce(rs) ==
    /\ \A i, j \in DOMAIN rs :
          /\ rs[i].origin = "plan" /\ rs[j].origin = "plan"
          /\ rs[i].parent = rs[j].parent /\ rs[i].parent # 0
          /\ rs[i].level = rs[j].level
          => rs[i].call = rs[j].call
    /\ \A i \in DOMAIN rs :
          rs[i].origin = "plan" /\ rs[i].parent # 0 =>
             IF refinement
             THEN rs[i].level = "atomic" => rs[rs[i].parent].level # "high_level"
             ELSE rs[i].level # "refined"
    /\ \A i, j \in DOMAIN rs : Uncut(rs, i) /\ Uncut(rs, j) => rs[i].call = rs[j].call

\* A plan is made when no goal is open, parts when there are none, and atomic
\* tasks after the parts; a review puts only an atomic task back.
PlanningOK ==
    /\ CutOnce(table) /\ CutOnce(view)
    /\ Len(table) <= MaxTasks /\ Len(view) <= MaxTasks
    /\ review \in {0, Anchorless} \cup At(table, "atomic")
    /\ pc = "replan" => Active(view) = {}
    /\ pc = "atomise" /\ refinement => Unrefined(view) = {}
=============================================================================
