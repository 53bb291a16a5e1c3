----------------------- MODULE WorkflowControl_proofs -----------------------
(***************************************************************************)
(* Theorems about WorkflowControl, for any number of tasks, workflows,     *)
(* iterations and requests out of turn.  The count of what is under way    *)
(* comes first; where no request was granted out of turn it leaves one     *)
(* workflow or one review, and the rest about the conversation follows.    *)
(***************************************************************************)
EXTENDS WorkflowControl, FiniteSetTheorems, TLAPS

----------------------------------------------------------------------------
(* The types. *)

\* A step of a workflow keeps the types.
LEMMA JobStepTypes ==
    ASSUME TypeOK, NEW j \in Jobs, JobStep(j)
    PROVE  TypeOK'
<1>1. CASE PrepareEnvironment(j)
  BY <1>1 DEF TypeOK, PrepareEnvironment, GoTo, ProgramPoints, conversation,
     loop, history, calls
<1>2. CASE PlanWork(j)
  BY <1>2 DEF TypeOK, PlanWork, GoTo, ProgramPoints, Created, TaskStates,
     conversation, loop, history, calls
<1>3. CASE SequencePlan(j)
  <2>1. In({"pending"}) \subseteq Tasks
    BY DEF In
  <2>2. task' = task /\ UNCHANGED <<conversation, stop, session, current, history, calls>>
    BY <1>3 DEF SequencePlan
  <2>3. pc' \in [Jobs -> ProgramPoints] /\ todo' \in [Jobs -> SUBSET Tasks]
        /\ batch' \in [Jobs -> SUBSET Tasks]
    BY <1>3, <2>1 DEF TypeOK, SequencePlan, TakeBatch, GoTo, ProgramPoints
  <2>4. round' \in [Jobs -> 0 .. MaxIterations]
    BY <1>3, WorkflowAssumption DEF TypeOK, SequencePlan, NextIteration
  <2> QED
    BY <2>2, <2>3, <2>4 DEF TypeOK, conversation, history, calls
<1>4. CASE CheckStop(j)
  <2>1. /\ pc' \in [Jobs -> ProgramPoints]
        /\ current' \in [Jobs -> Tasks \cup {0}]
    BY <1>4 DEF TypeOK, CheckStop, GoTo, ProgramPoints
  <2>2. stop' \in BOOLEAN /\ late' \in [Jobs -> 0 .. 2] /\ asked' \subseteq Jobs
    <3>1. ClearStop \/ KeepStop
      BY <1>4 DEF CheckStop
    <3>2. late' \in [Jobs -> 0 .. 2] /\ asked' \subseteq Jobs
      BY <3>1 DEF TypeOK, ClearStop, KeepStop, NotLate
    <3>3. stop' \in BOOLEAN
      BY <3>1 DEF TypeOK, ClearStop, KeepStop
    <3> QED
      BY <3>2, <3>3
  <2>3. UNCHANGED <<conversation, task, session, todo, batch, round, calls>>
    BY <1>4 DEF CheckStop
  <2> QED
    BY <2>1, <2>2, <2>3 DEF TypeOK, conversation, calls
<1>5. CASE BeginTask(j)
  <2>1. /\ task' \in [Tasks -> TaskStates] /\ pc' \in [Jobs -> ProgramPoints]
    BY <1>5 DEF TypeOK, BeginTask, GoTo, ProgramPoints, TaskStates
  <2>2. late' \in [Jobs -> 0 .. 2]
    BY <1>5 DEF TypeOK, BeginTask
  <2>3. UNCHANGED <<conversation, stop, session, loop, asked, calls>>
    BY <1>5 DEF BeginTask
  <2> QED
    BY <2>1, <2>2, <2>3 DEF TypeOK, conversation, loop, calls
<1>6. CASE EndTask(j)
  <2>1. /\ task' \in [Tasks -> TaskStates] /\ pc' \in [Jobs -> ProgramPoints]
        /\ batch' \in [Jobs -> SUBSET Tasks]
    <3>1. task' \in [Tasks -> TaskStates]
      BY <1>6 DEF TypeOK, EndTask, TaskStates
    <3>2. pc' \in [Jobs -> ProgramPoints]
      BY <1>6 DEF TypeOK, EndTask, GoTo, ProgramPoints
    <3>3. batch' \in [Jobs -> SUBSET Tasks]
      BY <1>6 DEF TypeOK, EndTask
    <3> QED
      BY <3>1, <3>2, <3>3
  <2>2. UNCHANGED <<conversation, stop, session, todo, current, round, history, calls>>
    BY <1>6 DEF EndTask
  <2> QED
    BY <2>1, <2>2 DEF TypeOK, conversation, history, calls
<1>7. CASE CloseBatch(j)
  BY <1>7 DEF TypeOK, CloseBatch, GoTo, ProgramPoints, conversation,
     loop, history, calls
<1>8. CASE EvaluateBatch(j)
  <2>1. PICK F \in SUBSET In({"failed"}), N \in SUBSET In({"absent", "closed"}) :
          /\ task' = Recovered(F, N)
          /\ \/ TakeBatch(j, todo[j] \cup N) /\ UNCHANGED round
             \/ NextIteration(j) /\ TakeBatch(j, todo[j])
             \/ /\ \E point \in {"sequencing", "closed", "failing", "review"} :
                      GoTo(j, point)
                /\ UNCHANGED <<todo, batch, round>>
    BY <1>8 DEF EvaluateBatch
  <2>2. N \subseteq Tasks
    BY DEF In
  <2>3. task' \in [Tasks -> TaskStates]
    BY <2>1 DEF TypeOK, Recovered, TaskStates
  <2>4. pc' \in [Jobs -> ProgramPoints] /\ todo' \in [Jobs -> SUBSET Tasks]
        /\ batch' \in [Jobs -> SUBSET Tasks]
    BY <2>1, <2>2 DEF TypeOK, TakeBatch, GoTo, ProgramPoints
  <2>5. round' \in [Jobs -> 0 .. MaxIterations]
    BY <2>1, WorkflowAssumption DEF TypeOK, NextIteration
  <2>6. UNCHANGED <<conversation, stop, session, current, history, calls>>
    BY <1>8 DEF EvaluateBatch
  <2> QED
    BY <2>3, <2>4, <2>5, <2>6 DEF TypeOK, conversation, history, calls
<1>9. CASE Report(j)
  <2>1. /\ phase' \in Phases /\ plan' \in BOOLEAN
        /\ review' \in NoReview .. ProjectReview
    <3>1. ProjectReview \in NoReview .. ProjectReview
          /\ Tasks \subseteq NoReview .. ProjectReview
      BY WorkflowAssumption DEF NoReview, ProjectReview, Tasks
    <3>2. In({"failed"}) \subseteq Tasks
      BY DEF In
    <3> QED
      BY <1>9, <3>1, <3>2 DEF TypeOK, Report, ReportToCaller, ReportToConversation,
         ReportPaused, ReportReview, ReportClosed, ReportFailure, CompleteProject,
         TryOpenProjectReview, OpenReview, Phases
  <2>2. pc' \in [Jobs -> ProgramPoints]
    BY <1>9 DEF TypeOK, Report, ReportToCaller, ReportToConversation, GoTo,
       ProgramPoints
  <2>3. /\ todo' \in [Jobs -> SUBSET Tasks] /\ batch' \in [Jobs -> SUBSET Tasks]
        /\ current' \in [Jobs -> Tasks \cup {0}]
        /\ round' \in [Jobs -> 0 .. MaxIterations]
    BY <1>9, WorkflowAssumption DEF TypeOK, Report
  <2>4. /\ asked' \subseteq Jobs /\ direct' \subseteq Jobs
        /\ UNCHANGED <<replanner, task, stop, session, late, astray>>
    BY <1>9 DEF TypeOK, Report
  <2> QED
    BY <2>1, <2>2, <2>3, <2>4 DEF TypeOK
<1>10. CASE StopContainer(j)
  BY <1>10 DEF TypeOK, StopContainer, GoTo, ProgramPoints, conversation, loop, history,
     calls
<1>11. CASE RemoveSession(j)
  BY <1>11 DEF TypeOK, RemoveSession, GoTo, ProgramPoints, conversation, loop, history,
     calls
<1> QED
  BY <1>1, <1>2, <1>3, <1>4, <1>5, <1>6, <1>7, <1>8, <1>9, <1>10, <1>11 DEF JobStep

\* The count of requests out of turn keeps its type and does not shrink.
LEMMA InTurnType ==
    ASSUME TypeOK, NEW c \in BOOLEAN, InTurnUnless(c)
    PROVE  /\ astray' \in 0 .. MaxAstray /\ astray' >= astray
           /\ c => astray' = astray + 1
BY WorkflowAssumption DEF TypeOK, InTurnUnless

\* A step of the user keeps the types.
LEMMA UserStepTypes ==
    ASSUME TypeOK, NEW j \in Jobs, UserStep(j)
    PROVE  TypeOK'
<1> USE DEF Submit, SubmitOrLose, Reopen, ForgetReview
<1>1. NoReview \in NoReview .. ProjectReview
  BY WorkflowAssumption DEF NoReview, ProjectReview
<1>2. {"queued"} \subseteq ProgramPoints /\ {"executing"} \subseteq Phases
      /\ {"planned", "pending", "closed"} \subseteq TaskStates
  BY DEF ProgramPoints, Phases, TaskStates
<1>3. /\ stop' \in BOOLEAN /\ asked' \subseteq Jobs /\ late' \in [Jobs -> 0 .. 2]
  <2>1. ClearStop \/ KeepStop
    BY DEF UserStep, StartProject, RunWorkflow, ResumeWorkflow, ResumeByChat,
       ConfirmPlan, FinishReplanning, KeepStop, history
  <2>2. stop' \in BOOLEAN
    BY <2>1 DEF TypeOK, ClearStop, KeepStop
  <2> QED
    BY <2>1, <2>2 DEF TypeOK, ClearStop, KeepStop, NotLate
<1>4. Busy \in BOOLEAN
  BY DEF Busy, SomeWork
<1>5. astray' \in 0 .. MaxAstray
  <2>1. InTurnUnless(Busy) \/ UNCHANGED astray
    BY DEF UserStep, StartProject, RunWorkflow, ResumeWorkflow, ResumeByChat,
       ConfirmPlan, FinishReplanning, calls
  <2> QED
    BY <1>4, <2>1, InTurnType DEF TypeOK
<1>6. direct' \subseteq Jobs
  BY DEF TypeOK, UserStep, StartProject, RunWorkflow, ResumeWorkflow, ResumeByChat,
     ConfirmPlan, FinishReplanning, calls
<1>7. pc' \in [Jobs -> ProgramPoints]
  BY <1>2 DEF TypeOK, UserStep, StartProject, RunWorkflow, ResumeWorkflow,
     ResumeByChat, ConfirmPlan, FinishReplanning
<1>8. task' \in [Tasks -> TaskStates]
  BY <1>2 DEF TypeOK, UserStep, StartProject, RunWorkflow, ResumeWorkflow,
     ResumeByChat, ConfirmPlan, FinishReplanning, PlanProject, Created, Resumed
<1>9. /\ phase' \in Phases /\ review' \in NoReview .. ProjectReview
      /\ plan' \in BOOLEAN /\ replanner' \in BOOLEAN
  BY <1>1, <1>2 DEF TypeOK, UserStep, StartProject, RunWorkflow, ResumeWorkflow,
     ResumeByChat, ConfirmPlan, FinishReplanning, conversation
<1>10. UNCHANGED <<session, loop>>
  BY DEF UserStep, StartProject, RunWorkflow, ResumeWorkflow, ResumeByChat,
     ConfirmPlan, FinishReplanning
<1> QED
  BY <1>3, <1>5, <1>6, <1>7, <1>8, <1>9, <1>10 DEF TypeOK, loop

\* So does every step.
LEMMA TypeStep ==
    ASSUME TypeOK, [Next]_vars
    PROVE  TypeOK'
<1>1. CASE \E j \in Jobs : JobStep(j) \/ UserStep(j)
  BY <1>1, JobStepTypes, UserStepTypes
<1>2. CASE PauseWorkflow
  <2>1. /\ stop' \in BOOLEAN /\ asked' \subseteq Jobs
        /\ UNCHANGED <<conversation, task, session, pc, loop, calls>>
    BY <1>2 DEF TypeOK, PauseWorkflow
  <2>2. late' \in [Jobs -> 0 .. 2]
    BY <1>2 DEF TypeOK, PauseWorkflow, NotLate
  <2> QED
    BY <2>1, <2>2 DEF TypeOK, conversation, loop, calls
<1>3. CASE ProposePlan
  <2>1. astray' \in 0 .. MaxAstray
    BY <1>3, InTurnType DEF ProposePlan
  <2> QED
    BY <1>3, <2>1 DEF TypeOK, ProposePlan, loop, history
<1>4. CASE AbandonReview
  <2>1. /\ phase' \in Phases /\ plan' = FALSE
        /\ review' \in NoReview .. ProjectReview
    BY <1>4, WorkflowAssumption DEF AbandonReview, ForgetReview, NoReview,
       ProjectReview, Phases
  <2>2. task' \in [Tasks -> TaskStates]
    BY <1>4 DEF TypeOK, AbandonReview, TaskStates
  <2>3. UNCHANGED <<replanner, stop, session, pc, loop, history, direct>>
    BY <1>4 DEF AbandonReview
  <2>4. astray' \in 0 .. MaxAstray
    BY <1>4, InTurnType DEF AbandonReview
  <2> QED
    BY <2>1, <2>2, <2>3, <2>4 DEF TypeOK, loop, history
<1>5. CASE RejectPlan
  BY <1>5 DEF TypeOK, RejectPlan, loop, history, calls
<1>6. CASE BeginReplanning
  BY <1>6 DEF TypeOK, BeginReplanning, Phases, TaskStates, loop, history,
     calls
<1>7. CASE FailReplanning
  BY <1>7 DEF TypeOK, FailReplanning, loop, history, calls
<1>8. CASE RestartServer
  <2>1. /\ session' = FALSE /\ asked' = {} /\ direct' = {}
        /\ UNCHANGED <<review, plan, task, astray>>
    BY <1>8 DEF RestartServer
  <2>2. pc' \in [Jobs -> ProgramPoints]
    BY <1>8 DEF RestartServer, ProgramPoints
  <2>3. /\ todo' \in [Jobs -> SUBSET Tasks] /\ batch' \in [Jobs -> SUBSET Tasks]
        /\ current' \in [Jobs -> Tasks \cup {0}]
        /\ round' \in [Jobs -> 0 .. MaxIterations]
    BY <1>8, WorkflowAssumption DEF RestartServer
  <2>4. phase' \in Phases /\ replanner' \in BOOLEAN /\ stop' \in BOOLEAN
    BY <1>8 DEF TypeOK, RestartServer, Phases
  <2>5. late' \in [Jobs -> 0 .. 2]
    BY <1>8 DEF RestartServer, NotLate
  <2> QED
    BY <2>1, <2>2, <2>3, <2>4, <2>5 DEF TypeOK
<1>9. CASE StartByApi
  BY <1>9 DEF TypeOK, StartByApi, PlanProject, Created, TaskStates, conversation,
     loop, history, calls
<1>10. ASSUME NEW t \in Tasks, NotifyReview(t) PROVE TypeOK'
  <2>1. astray' \in 0 .. MaxAstray
    BY <1>10, InTurnType DEF NotifyReview, Busy, SomeWork
  <2>2. t \in NoReview .. ProjectReview
    BY WorkflowAssumption DEF Tasks, NoReview, ProjectReview
  <2> QED
    BY <1>10, <2>1, <2>2 DEF TypeOK, NotifyReview, OpenReview, Phases,
       loop, history
<1>11. CASE NotifyTaskEvent
  <2>1. astray' \in 0 .. MaxAstray
    BY <1>11, InTurnType DEF NotifyTaskEvent, Busy, SomeWork
  <2> QED
    BY <1>11, <2>1 DEF TypeOK, NotifyTaskEvent, CompleteProject, Phases,
       loop, history
<1>12. CASE UNCHANGED vars
  BY <1>12 DEF TypeOK, vars, conversation, loop, history, calls
<1> QED
  BY <1>1, <1>2, <1>3, <1>4, <1>5, <1>6, <1>7, <1>8, <1>9, <1>10, <1>11, <1>12 DEF Next

----------------------------------------------------------------------------
(* How much is under way.                                                   *)

\* There are finitely many workflows at work, and none if the project is idle.
LEMMA WorkersFinite ==
    ASSUME TypeOK
    PROVE  /\ IsFiniteSet(Workers) /\ Cardinality(Workers) \in Nat
           /\ ~SomeWork => Cardinality(Workers) = 0
<1>1. Workers \in SUBSET Jobs
  BY DEF Workers
<1>2. IsFiniteSet(Workers)
  BY <1>1, FS_Subset, WorkflowAssumption
<1>3. ~SomeWork => Workers = {}
  BY DEF SomeWork, Workers
<1> QED
  BY <1>2, <1>3, FS_CardinalityType, FS_EmptySet

\* A step that moves workflow j only, and puts it to work or not.
LEMMA WorkersAfter ==
    ASSUME TypeOK, TypeOK', NEW j \in Jobs, \A i \in Jobs : i # j => pc'[i] = pc[i]
    PROVE  /\ Cardinality(Workers)' <= Cardinality(Workers) + 1
           /\ (AtWork(j)' => AtWork(j)) => Cardinality(Workers)' <= Cardinality(Workers)
           /\ AtWork(j) /\ ~AtWork(j)' => Cardinality(Workers)' = Cardinality(Workers) - 1
<1>1. IsFiniteSet(Workers) /\ Cardinality(Workers) \in Nat
  BY WorkersFinite
<1>2. \A i \in Jobs : i # j => (AtWork(i)' <=> AtWork(i))
  BY DEF AtWork
<1>3. Workers' = {i \in Jobs : AtWork(i)'}
  BY DEF Workers
<1>4. CASE AtWork(j)'
  <2>1. Workers' = Workers \cup {j}
    BY <1>2, <1>3, <1>4 DEF Workers
  <2>2. j \in Workers <=> AtWork(j)
    BY DEF Workers
  <2>3. Cardinality(Workers \cup {j})
          = IF AtWork(j) THEN Cardinality(Workers) ELSE Cardinality(Workers) + 1
    BY <1>1, <2>2, FS_AddElement
  <2>4. Cardinality(Workers)'
          = IF AtWork(j) THEN Cardinality(Workers) ELSE Cardinality(Workers) + 1
    BY <2>1, <2>3
  <2> QED
    BY <1>1, <1>4, <2>4
<1>5. CASE ~AtWork(j)'
  <2>1. Workers' = Workers \ {j}
    BY <1>2, <1>3, <1>5 DEF Workers
  <2>2. AtWork(j) => j \in Workers
    BY DEF Workers
  <2> QED
    BY <1>1, <1>5, <2>1, <2>2, FS_RemoveElement
<1> QED
  BY <1>4, <1>5

\* A step of a workflow moves that workflow only, and the workflow was at work
\* unless the step belongs to its teardown.
LEMMA JobStepMoves ==
    ASSUME TypeOK, NEW j \in Jobs, JobStep(j)
    PROVE  /\ \E p \in ProgramPoints : pc' = [pc EXCEPT ![j] = p]
           /\ AtWork(j)' => AtWork(j)
           /\ UNCHANGED <<replanner, astray>>
<1> USE DEF GoTo, AtWork, conversation, calls
<1>1. CASE PrepareEnvironment(j)
  BY <1>1 DEF TypeOK, ProgramPoints, PrepareEnvironment
<1>2. CASE PlanWork(j)
  BY <1>2 DEF TypeOK, ProgramPoints, PlanWork
<1>3. CASE SequencePlan(j)
  BY <1>3 DEF TypeOK, ProgramPoints, SequencePlan, TakeBatch
<1>4. CASE CheckStop(j)
  BY <1>4 DEF TypeOK, ProgramPoints, CheckStop
<1>5. CASE BeginTask(j)
  BY <1>5 DEF TypeOK, ProgramPoints, BeginTask
<1>6. CASE EndTask(j)
  BY <1>6 DEF TypeOK, ProgramPoints, EndTask
<1>7. CASE CloseBatch(j)
  BY <1>7 DEF TypeOK, ProgramPoints, CloseBatch
<1>8. CASE EvaluateBatch(j)
  <2>1. pc[j] = "evaluating" /\ UNCHANGED <<replanner, astray>>
    BY <1>8 DEF EvaluateBatch
  <2>2. \E p \in ProgramPoints : pc' = [pc EXCEPT ![j] = p]
    BY <1>8 DEF EvaluateBatch, TakeBatch, ProgramPoints
  <2> QED
    BY <2>1, <2>2
<1>9. CASE Report(j)
  BY <1>9 DEF TypeOK, ProgramPoints, Report, ReportToCaller, ReportToConversation,
     ReportPaused, ReportReview, ReportClosed, ReportFailure
<1>10. CASE StopContainer(j)
  BY <1>10 DEF TypeOK, ProgramPoints, StopContainer
<1>11. CASE RemoveSession(j)
  BY <1>11 DEF TypeOK, ProgramPoints, RemoveSession
<1> QED
  BY <1>1, <1>2, <1>3, <1>4, <1>5, <1>6, <1>7, <1>8, <1>9, <1>10, <1>11 DEF JobStep

\* The conversation is written by the report only, which ends the work; rows
\* are written at work.
LEMMA JobStepWrites ==
    ASSUME TypeOK, NEW j \in Jobs, JobStep(j)
    PROVE  /\ UNCHANGED task \/ AtWork(j)
           /\ \/ Report(j) /\ AtWork(j) /\ ~AtWork(j)' /\ UNCHANGED task
              \/ UNCHANGED <<phase, review, plan, direct>>
<1>1. CASE Report(j)
  BY <1>1 DEF TypeOK, Report, ReportToCaller, ReportToConversation, ReportPaused,
     ReportReview, ReportClosed, ReportFailure, GoTo, AtWork
<1>2. CASE ~Report(j)
  <2>1. UNCHANGED <<phase, review, plan, direct>>
    BY <1>2 DEF JobStep, PrepareEnvironment, PlanWork, SequencePlan, CheckStop,
       BeginTask, EndTask, CloseBatch, EvaluateBatch, StopContainer, RemoveSession,
       conversation, calls
  <2>2. UNCHANGED task \/ PlanWork(j) \/ BeginTask(j) \/ EndTask(j) \/ EvaluateBatch(j)
    BY <1>2 DEF JobStep, PrepareEnvironment, SequencePlan, CheckStop, CloseBatch,
       StopContainer, RemoveSession
  <2>3. UNCHANGED task \/ AtWork(j)
    BY <2>2 DEF PlanWork, BeginTask, EndTask, EvaluateBatch, AtWork
  <2> QED
    BY <2>1, <2>3
<1> QED
  BY <1>1, <1>2

\* A step of the user puts at most workflow j to work: if that is in turn, the
\* project was idle or the step answers the open review.
LEMMA UserStepSubmits ==
    ASSUME TypeOK, ReplanningKeepsReview, NEW j \in Jobs, UserStep(j)
    PROVE  /\ UNCHANGED pc \/ pc' = [pc EXCEPT ![j] = "queued"]
           /\ \/ UNCHANGED <<pc, phase, review, plan, replanner, task, direct, astray>>
              \/ /\ astray' = astray + 1 /\ UNCHANGED <<review, plan, replanner>>
              \/ /\ ~Busy /\ UNCHANGED <<review, plan, replanner, astray>>
                 /\ \/ phase' = "executing" /\ UNCHANGED direct
                    \/ UNCHANGED <<phase, task>> /\ direct' = direct \cup {j}
              \/ /\ review # NoReview /\ review' = NoReview /\ ~plan' /\ ~replanner'
                 /\ phase' = "executing" /\ UNCHANGED <<direct, astray>>
<1> USE DEF Submit, SubmitOrLose, InTurnUnless, Reopen, ForgetReview, conversation, calls
<1>1. CASE StartProject(j)
  BY <1>1 DEF StartProject
<1>2. CASE RunWorkflow(j)
  BY <1>2 DEF RunWorkflow
<1>3. CASE ResumeWorkflow(j)
  BY <1>3 DEF ResumeWorkflow
<1>4. CASE ResumeByChat(j)
  BY <1>4 DEF ResumeByChat
<1>5. CASE ConfirmPlan(j)
  <2>1. review # NoReview
    BY <1>5, WorkflowAssumption DEF ConfirmPlan, NoReview, ProjectReview, Tasks
  <2> QED
    BY <1>5, <2>1 DEF ConfirmPlan
<1>6. CASE FinishReplanning(j)
  BY <1>6 DEF FinishReplanning, ReplanningKeepsReview
<1> QED
  BY <1>1, <1>2, <1>3, <1>4, <1>5, <1>6 DEF UserStep

\* The remaining steps move no workflow, or end them all.
LEMMA OtherSteps ==
    ASSUME TypeOK, [Next]_vars, ~ \E j \in Jobs : JobStep(j) \/ UserStep(j)
    PROVE  /\ UNCHANGED pc \/ (RestartServer /\ \A i \in Jobs : ~AtWork(i)')
           /\ \/ review' \in {review, NoReview} /\ astray' >= astray
              \/ \E t \in Tasks : NotifyReview(t)
<1>1. \/ StartByApi \/ PauseWorkflow \/ ProposePlan \/ AbandonReview \/ RejectPlan
      \/ BeginReplanning \/ FailReplanning \/ NotifyTaskEvent \/ RestartServer
      \/ (\E t \in Tasks : NotifyReview(t)) \/ UNCHANGED vars
  BY DEF Next
<1>2. UNCHANGED pc \/ (RestartServer /\ \A i \in Jobs : ~AtWork(i)')
  <2>1. CASE RestartServer
    BY <2>1 DEF RestartServer, AtWork
  <2> QED
    BY <1>1, <2>1 DEF StartByApi, PauseWorkflow, ProposePlan, AbandonReview, RejectPlan,
       BeginReplanning, FailReplanning, NotifyTaskEvent, NotifyReview, vars
<1>3. review' \in {review, NoReview} \/ \E t \in Tasks : NotifyReview(t)
  BY <1>1 DEF StartByApi, PauseWorkflow, ProposePlan, AbandonReview, RejectPlan,
     BeginReplanning, FailReplanning, NotifyTaskEvent, RestartServer, ForgetReview,
     CompleteProject, vars, conversation
<1>4. astray' = astray \/ astray' = astray + 1
  <2>1. CASE ProposePlan \/ AbandonReview \/ NotifyTaskEvent
    BY <2>1 DEF ProposePlan, AbandonReview, NotifyTaskEvent, InTurnUnless
  <2>2. CASE \E t \in Tasks : NotifyReview(t)
    BY <2>2 DEF NotifyReview, InTurnUnless
  <2> QED
    BY <1>1, <2>1, <2>2 DEF StartByApi, PauseWorkflow, RejectPlan, BeginReplanning,
       FailReplanning, RestartServer, vars, calls
<1>5. astray' >= astray
  BY <1>4 DEF TypeOK
<1> QED
  BY <1>2, <1>3, <1>5

\* What the program does by itself, and an answer to a review, adds nothing to
\* what is under way; a request granted out of turn adds one.
LEMMA CountStep ==
    ASSUME ControlInv, [Next]_vars
    PROVE  WorkflowsAreAccountedFor'
<1> DEFINE Reviews == IF review # NoReview THEN 1 ELSE 0
<1>1. /\ TypeOK /\ TypeOK' /\ ReplanningKeepsReview
      /\ Cardinality(Workers) + Reviews <= 1 + astray
  BY TypeStep DEF ControlInv, WorkflowsAreAccountedFor
<1>2. /\ Cardinality(Workers) \in Nat /\ Cardinality(Workers)' \in Nat
      /\ (~SomeWork => Cardinality(Workers) = 0)
      /\ astray \in Nat /\ astray' \in Nat /\ Reviews \in 0 .. 1 /\ Reviews' \in 0 .. 1
  <2>1. Cardinality(Workers) \in Nat /\ (~SomeWork => Cardinality(Workers) = 0)
    BY <1>1, WorkersFinite
  <2>2. Cardinality(Workers)' \in Nat
    <3>1. Workers' \in SUBSET Jobs
      BY DEF Workers
    <3>2. Cardinality(Workers') \in Nat
      BY <3>1, FS_Subset, FS_CardinalityType, WorkflowAssumption
    <3> QED
      BY <3>2
  <2> QED
    BY <1>1, <2>1, <2>2, WorkflowAssumption DEF TypeOK
<1> SUFFICES Cardinality(Workers)' + Reviews' <= 1 + astray'
  BY DEF WorkflowsAreAccountedFor
<1>3. ASSUME NEW j \in Jobs, JobStep(j)
      PROVE  Cardinality(Workers)' + Reviews' <= 1 + astray'
  <2>1. /\ \A i \in Jobs : i # j => pc'[i] = pc[i]
        /\ AtWork(j)' => AtWork(j)
        /\ astray' = astray
    BY <1>1, <1>3, JobStepMoves DEF TypeOK
  <2>2. Cardinality(Workers)' <= Cardinality(Workers)
    BY <1>1, <2>1, WorkersAfter
  <2>3. CASE UNCHANGED review
    <3>1. Reviews' = Reviews
      BY <2>3
    <3> HIDE DEF Reviews
    <3> QED
      BY <1>1, <1>2, <2>1, <2>2, <3>1
  <2>4. CASE AtWork(j) /\ ~AtWork(j)'
    <3>1. Cardinality(Workers)' = Cardinality(Workers) - 1
      BY <1>1, <2>1, <2>4, WorkersAfter
    <3> HIDE DEF Reviews
    <3> QED
      BY <1>1, <1>2, <2>1, <3>1
  <2> QED
    BY <1>1, <1>3, <2>3, <2>4, JobStepWrites
<1>4. ASSUME NEW j \in Jobs, UserStep(j)
      PROVE  Cardinality(Workers)' + Reviews' <= 1 + astray'
  <2>1. /\ UNCHANGED pc \/ pc' = [pc EXCEPT ![j] = "queued"]
        /\ \/ UNCHANGED <<pc, review, astray>>
           \/ astray' = astray + 1 /\ UNCHANGED review
           \/ ~Busy /\ UNCHANGED <<review, astray>>
           \/ review # NoReview /\ review' = NoReview /\ UNCHANGED astray
    BY <1>1, <1>4, UserStepSubmits
  <2>2. \A i \in Jobs : i # j => pc'[i] = pc[i]
    BY <1>1, <2>1 DEF TypeOK
  <2>3. /\ Cardinality(Workers)' <= Cardinality(Workers) + 1
        /\ UNCHANGED pc => Cardinality(Workers)' <= Cardinality(Workers)
    BY <1>1, <2>2, WorkersAfter DEF AtWork
  <2>4. /\ review' = review => Reviews' = Reviews
        /\ review # NoReview => Reviews = 1
        /\ review' = NoReview => Reviews' = 0
        /\ ~Busy => Reviews = 0 /\ ~SomeWork
    BY DEF Busy
  <2> HIDE DEF Reviews
  <2> QED
    BY <1>1, <1>2, <2>1, <2>3, <2>4
<1>5. ASSUME NEW t \in Tasks, NotifyReview(t)
      PROVE  Cardinality(Workers)' + Reviews' <= 1 + astray'
  <2>1. Workers' = Workers
    BY <1>5 DEF NotifyReview, Workers, AtWork
  <2>2. astray' = astray + 1 \/ (~Busy /\ astray' = astray)
    BY <1>5 DEF NotifyReview, InTurnUnless
  <2>3. ~Busy => Reviews = 0 /\ ~SomeWork
    BY DEF Busy
  <2> HIDE DEF Reviews
  <2> QED
    BY <1>1, <1>2, <2>1, <2>2, <2>3
<1>6. ASSUME review' \in {review, NoReview}, astray' >= astray,
             UNCHANGED pc \/ \A i \in Jobs : ~AtWork(i)'
      PROVE  Cardinality(Workers)' + Reviews' <= 1 + astray'
  <2>1. Workers' = Workers \/ Workers' = {}
    BY <1>6 DEF Workers, AtWork
  <2>2. Cardinality(Workers)' <= Cardinality(Workers)
    BY <1>2, <2>1, FS_EmptySet
  <2>3. Reviews' <= Reviews
    BY <1>6
  <2> HIDE DEF Reviews
  <2> QED
    BY <1>1, <1>2, <1>6, <2>2, <2>3
<1> QED
  BY <1>1, <1>3, <1>4, <1>5, <1>6, OtherSteps

\* Where nothing was granted out of turn, one workflow is at work or one review
\* is open.
LEMMA OneThingAtATime ==
    ASSUME TypeOK, WorkflowsAreAccountedFor, astray = 0
    PROVE  /\ \A i, j \in Jobs : AtWork(i) /\ AtWork(j) => i = j
           /\ SomeWork => review = NoReview
<1>1. IsFiniteSet(Workers) /\ Cardinality(Workers) \in Nat
  BY WorkersFinite
<1>2. ASSUME NEW i \in Jobs, NEW j \in Jobs, AtWork(i), AtWork(j), i # j
      PROVE  FALSE
  <2>1. IsFiniteSet({i}) /\ Cardinality({i}) = 1
    BY FS_Singleton
  <2>2. Cardinality({i} \cup {j}) = 2
    BY <1>2, <2>1, FS_AddElement
  <2>3. {i} \cup {j} \in SUBSET Workers
    BY <1>2 DEF Workers
  <2>4. Cardinality({i} \cup {j}) <= Cardinality(Workers)
    BY <1>1, <2>3, FS_Subset
  <2> QED
    BY <1>1, <2>2, <2>4 DEF WorkflowsAreAccountedFor
<1>3. SomeWork => Cardinality(Workers) # 0
  <2>1. SomeWork => Workers # {}
    BY DEF SomeWork, Workers
  <2> QED
    BY <1>1, <2>1, FS_EmptySet
<1> QED
  BY <1>1, <1>2, <1>3 DEF WorkflowsAreAccountedFor

----------------------------------------------------------------------------
(* Who is at work, and in which phase.                                      *)

\* A turn that replans keeps the review it answers: no other turn of the chat
\* comes between.
LEMMA ReplanningStep ==
    ASSUME ControlInv, [Next]_vars
    PROVE  ReplanningKeepsReview'
<1>1. TypeOK /\ ReplanningKeepsReview
  BY DEF ControlInv
<1>2. ASSUME NEW j \in Jobs, JobStep(j) PROVE ReplanningKeepsReview'
  <2>1. /\ UNCHANGED replanner
        /\ Report(j) \/ UNCHANGED review
    BY <1>1, <1>2, JobStepMoves, JobStepWrites
  <2>2. Report(j) => review' = review \/ review' # NoReview
    <3>1. ProjectReview # NoReview /\ NoReview \notin Tasks
      BY WorkflowAssumption DEF NoReview, ProjectReview, Tasks
    <3>2. In({"failed"}) \subseteq Tasks
      BY DEF In
    <3> QED
      BY <3>1, <3>2 DEF Report, ReportToCaller, ReportToConversation, ReportPaused,
         ReportReview, ReportClosed, ReportFailure, CompleteProject,
         TryOpenProjectReview, OpenReview
  <2> QED
    BY <1>1, <2>1, <2>2 DEF ReplanningKeepsReview
<1>3. ASSUME NEW j \in Jobs, UserStep(j) PROVE ReplanningKeepsReview'
  BY <1>1, <1>3, UserStepSubmits DEF ReplanningKeepsReview
<1>4. ASSUME NEW t \in Tasks, NotifyReview(t) PROVE ReplanningKeepsReview'
  BY <1>4 DEF NotifyReview, OpenReview, ReplanningKeepsReview, NoReview, Tasks
<1>5. CASE BeginReplanning
  BY <1>5 DEF BeginReplanning, ReplanningKeepsReview, NoReview, Tasks
<1>6. CASE UNCHANGED <<replanner, review>> \/ ~replanner'
  BY <1>1, <1>6 DEF ReplanningKeepsReview
<1>7. \/ \E j \in Jobs : JobStep(j) \/ UserStep(j)
      \/ (\E t \in Tasks : NotifyReview(t)) \/ BeginReplanning
      \/ UNCHANGED <<replanner, review>> \/ ~replanner'
  BY DEF Next, StartByApi, PauseWorkflow, ProposePlan, AbandonReview, RejectPlan,
     FailReplanning, NotifyTaskEvent, RestartServer, CompleteProject, vars, conversation
<1> QED
  BY <1>2, <1>3, <1>4, <1>5, <1>6, <1>7

\* The requests granted out of turn are not forgotten.
LEMMA AstrayStays ==
    ASSUME ControlInv, [Next]_vars, astray' = 0
    PROVE  astray = 0
<1>1. TypeOK /\ ReplanningKeepsReview /\ astray \in Nat
  BY WorkflowAssumption DEF ControlInv, TypeOK
<1>2. CASE \E j \in Jobs : JobStep(j)
  BY <1>1, <1>2, JobStepMoves
<1>3. CASE \E j \in Jobs : UserStep(j)
  BY <1>1, <1>3, UserStepSubmits
<1>4. CASE \E t \in Tasks : NotifyReview(t)
  BY <1>1, <1>4 DEF NotifyReview, InTurnUnless
<1>5. CASE ~ \E j \in Jobs : JobStep(j) \/ UserStep(j)
  BY <1>1, <1>4, <1>5, OtherSteps
<1> QED
  BY <1>2, <1>3, <1>5

\* A workflow is put to work where none is, and the phase says so, or it is the
\* endpoint's; the phase is left by the last one at work only.
LEMMA WorkStep ==
    ASSUME ControlInv, [Next]_vars
    PROVE  WorkOnlyWhileExecuting' /\ ReplanningKeepsPhase'
<1> SUFFICES ASSUME astray' = 0
             PROVE  /\ \A i \in Jobs : AtWork(i)' => i \in direct' \/ phase' = "executing"
                    /\ replanner' => phase' = "replanning"
  BY DEF WorkOnlyWhileExecuting, ReplanningKeepsPhase
<1>1. /\ TypeOK /\ ReplanningKeepsReview /\ astray = 0
      /\ \A i \in Jobs : AtWork(i) => i \in direct \/ phase = "executing"
      /\ replanner => phase = "replanning" /\ Busy /\ ~SomeWork
      /\ \A i, j \in Jobs : AtWork(i) /\ AtWork(j) => i = j
      /\ SomeWork => review = NoReview
  <2>1. astray = 0
    BY AstrayStays
  <2>2. TypeOK /\ WorkflowsAreAccountedFor /\ ReplanningKeepsReview
    BY DEF ControlInv
  <2> QED
    BY <2>1, <2>2, OneThingAtATime DEF ControlInv, WorkOnlyWhileExecuting,
       ReplanningKeepsPhase, ReplanningKeepsReview, Busy
<1> DEFINE Goal == /\ \A i \in Jobs : AtWork(i)' => i \in direct' \/ phase' = "executing"
                   /\ replanner' => phase' = "replanning"
<1>2. ASSUME NEW j \in Jobs, JobStep(j) PROVE Goal
  <2>1. /\ \A i \in Jobs : AtWork(i)' => AtWork(i)
        /\ UNCHANGED replanner
    BY <1>1, <1>2, JobStepMoves DEF TypeOK, AtWork
  <2>2. CASE UNCHANGED <<phase, direct>>
    BY <1>1, <2>1, <2>2
  <2>3. CASE AtWork(j) /\ ~AtWork(j)'
    BY <1>1, <2>1, <2>3 DEF SomeWork
  <2> QED
    BY <1>1, <1>2, <2>2, <2>3, JobStepWrites
<1>3. ASSUME NEW j \in Jobs, UserStep(j) PROVE Goal
  <2>1. UNCHANGED pc \/ pc' = [pc EXCEPT ![j] = "queued"]
    BY <1>1, <1>3, UserStepSubmits
  <2>2. \A i \in Jobs : AtWork(i)' => AtWork(i) \/ i = j
    BY <1>1, <2>1 DEF TypeOK, AtWork
  <2>3. \/ UNCHANGED <<pc, phase, replanner, direct>>
        \/ /\ ~Busy /\ UNCHANGED replanner
           /\ \/ phase' = "executing" /\ UNCHANGED direct
              \/ UNCHANGED phase /\ direct' = direct \cup {j}
        \/ phase' = "executing" /\ ~replanner'
    BY <1>1, <1>3, UserStepSubmits
  <2>4. ~Busy => ~SomeWork
    BY DEF Busy
  <2>5. CASE UNCHANGED <<pc, phase, replanner, direct>>
    BY <1>1, <2>5 DEF AtWork
  <2>6. CASE ~Busy /\ UNCHANGED replanner /\ phase' = "executing"
    BY <1>1, <2>6
  <2>7. CASE ~Busy /\ UNCHANGED <<replanner, phase>> /\ direct' = direct \cup {j}
    BY <1>1, <2>2, <2>4, <2>7 DEF SomeWork
  <2>8. CASE phase' = "executing" /\ ~replanner'
    BY <2>8
  <2> QED
    BY <2>3, <2>5, <2>6, <2>7, <2>8
<1>4. CASE UNCHANGED <<phase, replanner, pc, direct>>
  BY <1>1, <1>4 DEF AtWork
<1>5. CASE AbandonReview \/ BeginReplanning
  <2>1. UNCHANGED pc /\ ~replanner /\ review # NoReview
        /\ (UNCHANGED replanner \/ phase' = "replanning")
    BY <1>1, <1>5 DEF AbandonReview, BeginReplanning, InTurnUnless, NoReview, Tasks
  <2> QED
    BY <1>1, <2>1 DEF SomeWork, AtWork
<1>6. CASE FailReplanning
  BY <1>1, <1>6 DEF FailReplanning, AtWork, calls
<1>7. CASE RestartServer
  <2>1. (\A i \in Jobs : ~AtWork(i)') /\ replanner' = FALSE
    BY <1>7 DEF RestartServer, AtWork
  <2> QED
    BY <2>1
<1>8. CASE NotifyTaskEvent \/ \E t \in Tasks : NotifyReview(t)
  <2>1. ~Busy /\ UNCHANGED <<pc, replanner>>
    BY <1>1, <1>8 DEF NotifyTaskEvent, NotifyReview, InTurnUnless
  <2>2. ~SomeWork
    BY <2>1 DEF Busy
  <2> QED
    BY <1>1, <2>1, <2>2 DEF SomeWork, AtWork
<1>9. \/ \E j \in Jobs : JobStep(j) \/ UserStep(j)
      \/ AbandonReview \/ BeginReplanning \/ FailReplanning \/ RestartServer
      \/ NotifyTaskEvent \/ (\E t \in Tasks : NotifyReview(t))
      \/ UNCHANGED <<phase, replanner, pc, direct>>
  BY DEF Next, StartByApi, PauseWorkflow, ProposePlan, RejectPlan, vars, conversation,
     calls
<1> QED
  BY <1>2, <1>3, <1>4, <1>5, <1>6, <1>7, <1>8, <1>9

----------------------------------------------------------------------------
(* What a review is about.                                                  *)

\* A review that is opened or kept can be answered.
LEMMA ReviewStep ==
    ASSUME ControlInv, [Next]_vars
    PROVE  ReviewIsAnswerable'
<1> DEFINE Answerable ==
        /\ review # NoReview <=> phase \in {"reviewing", "replanning"}
        /\ plan => review # NoReview
        /\ review \in Tasks => task[review] = "failed"
<1> SUFFICES ASSUME astray' = 0 PROVE Answerable'
  BY DEF ReviewIsAnswerable
<1>1. /\ TypeOK /\ ReplanningKeepsReview /\ astray = 0 /\ Answerable
      /\ \A j \in Jobs : AtWork(j) => review = NoReview
  <2>1. astray = 0
    BY AstrayStays
  <2>2. TypeOK /\ WorkflowsAreAccountedFor /\ ReplanningKeepsReview /\ Answerable
    BY <2>1 DEF ControlInv, ReviewIsAnswerable
  <2> QED
    BY <2>1, <2>2, OneThingAtATime DEF SomeWork
<1>2. /\ ProjectReview \notin Tasks /\ ProjectReview # NoReview /\ NoReview \notin Tasks
      /\ \A t \in In({"failed"}) : t \in Tasks /\ task[t] = "failed"
  BY WorkflowAssumption DEF ProjectReview, Tasks, NoReview, In
<1>3. ASSUME NEW j \in Jobs, JobStep(j) PROVE Answerable'
  <2>1. CASE UNCHANGED <<phase, review, plan>>
    BY <1>1, <1>2, <1>3, <2>1, JobStepWrites
  <2>2. CASE Report(j) /\ AtWork(j) /\ UNCHANGED task
    <3>1. \/ phase' \in {"paused", "completed"} /\ UNCHANGED <<review, plan>>
          \/ UNCHANGED <<phase, review, plan>>
          \/ OpenReview(ProjectReview)
          \/ \E t \in In({"failed"}) : OpenReview(t)
      BY <2>2 DEF Report, ReportToCaller, ReportToConversation, ReportPaused,
         ReportReview, ReportClosed, ReportFailure, CompleteProject,
         TryOpenProjectReview
    <3>2. CASE phase' \in {"paused", "completed"} /\ UNCHANGED <<review, plan>>
      BY <1>1, <1>2, <2>2, <3>2
    <3>3. CASE OpenReview(ProjectReview)
      BY <1>2, <3>3 DEF OpenReview
    <3>4. CASE \E t \in In({"failed"}) : OpenReview(t)
      BY <1>2, <2>2, <3>4 DEF OpenReview
    <3> QED
      BY <2>1, <3>1, <3>2, <3>3, <3>4
  <2> QED
    BY <1>1, <1>3, <2>1, <2>2, JobStepWrites
<1>4. ASSUME NEW j \in Jobs, UserStep(j) PROVE Answerable'
  <2>1. \/ UNCHANGED <<phase, review, plan, task>>
        \/ review = NoReview /\ UNCHANGED <<review, plan>>
           /\ (phase' = "executing" \/ UNCHANGED phase)
        \/ review' = NoReview /\ ~plan' /\ phase' = "executing"
    BY <1>1, <1>4, UserStepSubmits DEF Busy
  <2> QED
    BY <1>1, <1>2, <2>1
<1>5. CASE ProposePlan \/ RejectPlan
  <2>1. UNCHANGED <<phase, review, task>> /\ (plan' => review # NoReview \/ plan)
    BY <1>1, <1>5 DEF ProposePlan, RejectPlan, InTurnUnless
  <2> QED
    BY <1>1, <2>1
<1>6. CASE AbandonReview
  <2>1. review' = NoReview /\ ~plan' /\ phase' \in {"executing", "paused"}
    BY <1>6 DEF AbandonReview, ForgetReview
  <2> QED
    BY <1>2, <2>1
<1>7. CASE BeginReplanning
  <2>1. task'[review] = task[review] /\ review # NoReview
    BY <1>1, <1>2, <1>7 DEF BeginReplanning, Unfinished, In
  <2> QED
    BY <1>1, <1>7, <2>1 DEF BeginReplanning
<1>8. CASE RestartServer
  <2>1. UNCHANGED <<review, plan, task>>
    BY <1>8 DEF RestartServer
  <2>2. phase' = phase \/ (phase = "executing" /\ phase' = "paused")
    BY <1>8 DEF RestartServer
  <2> QED
    BY <1>1, <2>1, <2>2
<1>9. CASE StartByApi
  <2>1. UNCHANGED <<phase, review, plan>>
    BY <1>9 DEF StartByApi, conversation
  <2>2. review \in Tasks => task'[review] = task[review]
    BY <1>1, <1>9 DEF StartByApi, PlanProject, Created, In
  <2> QED
    BY <1>1, <2>1, <2>2
<1>10. ASSUME NEW t \in Tasks, NotifyReview(t) PROVE Answerable'
  <2>1. task[t] = "failed" /\ UNCHANGED task /\ OpenReview(t)
    BY <1>1, <1>10 DEF NotifyReview, InTurnUnless
  <2> QED
    BY <1>2, <2>1 DEF OpenReview
<1>11. CASE NotifyTaskEvent
  <2>1. /\ phase = "executing" /\ phase' = "completed"
        /\ UNCHANGED <<review, plan, task>>
    BY <1>11 DEF NotifyTaskEvent, ProjectCompleted, CompleteProject
  <2> QED
    BY <1>1, <2>1
<1>12. CASE UNCHANGED <<phase, review, plan, task>>
  BY <1>1, <1>12
<1>13. PauseWorkflow \/ FailReplanning \/ UNCHANGED vars
      => UNCHANGED <<phase, review, plan, task>>
  BY DEF PauseWorkflow, FailReplanning, vars, conversation
<1> QED
  BY <1>3, <1>4, <1>5, <1>6, <1>7, <1>8, <1>9, <1>10, <1>11, <1>12, <1>13 DEF Next

----------------------------------------------------------------------------
(* What a pause holds back.                                                 *)

\* A workflow looks at the event after it began a task and before it chooses
\* the next one; what others do meanwhile clears the event or leaves it.
LEMMA JobStepPauses ==
    ASSUME ControlInv, NEW j \in Jobs, JobStep(j)
    PROVE  PauseHoldsBackWork' /\ StopIsHeeded'
<1>1. /\ TypeOK /\ PauseHoldsBackWork /\ StopIsHeeded
      /\ late \in [Jobs -> 0 .. 2]
  BY DEF ControlInv, TypeOK
<1>2. \A i \in Jobs : i # j => pc'[i] = pc[i]
  BY <1>1, JobStepMoves DEF TypeOK
<1>3. CASE CheckStop(j)
  <2>1. CASE stop
    <3>1. \A i \in Jobs : late'[i] = 0
      BY <1>3, <2>1 DEF CheckStop, ClearStop, NotLate
    <3> QED
      BY <3>1 DEF PauseHoldsBackWork, StopIsHeeded
  <2>2. CASE ~stop
    <3>1. late' = late
      BY <1>3, <2>2 DEF CheckStop, KeepStop
    <3>2. \A i \in Jobs : late[i] = 0
      BY <1>1, <2>2 DEF StopIsHeeded
    <3> QED
      BY <3>1, <3>2 DEF PauseHoldsBackWork, StopIsHeeded
  <2> QED
    BY <2>1, <2>2
<1>4. CASE BeginTask(j)
  <2>1. pc[j] = "cleared" /\ UNCHANGED stop
    BY <1>4 DEF BeginTask
  <2>2. late[j] = 0
    BY <1>1, <2>1 DEF StopIsHeeded
  <2>3. late'[j] \in {0, 1} /\ (late'[j] = 1 => stop)
    BY <1>1, <1>4, <2>2 DEF BeginTask
  <2>4. \A i \in Jobs : i # j => late'[i] = late[i]
    BY <1>1, <1>4 DEF BeginTask
  <2>5. pc'[j] # "cleared"
    BY <1>1, <1>4 DEF TypeOK, BeginTask, GoTo
  <2> QED
    BY <1>1, <1>2, <2>1, <2>3, <2>4, <2>5 DEF PauseHoldsBackWork, StopIsHeeded
<1>5. CASE ~CheckStop(j) /\ ~BeginTask(j)
  <2>1. UNCHANGED <<stop, late>>
    BY <1>5 DEF JobStep, PrepareEnvironment, PlanWork, SequencePlan, EndTask, CloseBatch,
       EvaluateBatch, Report, StopContainer, RemoveSession, history
  <2>2. pc'[j] # "cleared"
    BY <1>1, <1>5 DEF TypeOK, JobStep, PrepareEnvironment, PlanWork, SequencePlan,
       TakeBatch, EndTask, CloseBatch, EvaluateBatch, Report, ReportToCaller,
       ReportToConversation, StopContainer, RemoveSession, GoTo
  <2> QED
    BY <1>1, <1>2, <2>1, <2>2 DEF PauseHoldsBackWork, StopIsHeeded
<1> QED
  BY <1>3, <1>4, <1>5

\* Whoever submits a workflow clears the event or leaves it as it is, and the
\* new workflow has chosen no task.
LEMMA UserStepPauses ==
    ASSUME ControlInv, NEW j \in Jobs, UserStep(j)
    PROVE  PauseHoldsBackWork' /\ StopIsHeeded'
<1>1. TypeOK /\ PauseHoldsBackWork /\ StopIsHeeded /\ ReplanningKeepsReview
  BY DEF ControlInv
<1>2. NotLate \/ UNCHANGED <<stop, late>>
  BY DEF UserStep, StartProject, RunWorkflow, ResumeWorkflow, ResumeByChat, ConfirmPlan,
     FinishReplanning, ClearStop, KeepStop, history
<1>3. UNCHANGED pc \/ pc' = [pc EXCEPT ![j] = "queued"]
  BY <1>1, UserStepSubmits
<1>4. \A i \in Jobs : pc[i] # "cleared" => pc'[i] # "cleared"
  BY <1>1, <1>3 DEF TypeOK
<1>5. CASE NotLate
  BY <1>5 DEF NotLate, PauseHoldsBackWork, StopIsHeeded
<1>6. CASE UNCHANGED <<stop, late>>
  BY <1>1, <1>4, <1>6 DEF PauseHoldsBackWork, StopIsHeeded
<1> QED
  BY <1>2, <1>5, <1>6

\* After a pause request a workflow begins no task but the one it has chosen.
LEMMA PauseStep ==
    ASSUME ControlInv, [Next]_vars
    PROVE  PauseHoldsBackWork' /\ StopIsHeeded'
<1>1. TypeOK /\ PauseHoldsBackWork /\ StopIsHeeded
  BY DEF ControlInv
<1>2. CASE \E j \in Jobs : JobStep(j) \/ UserStep(j)
  BY <1>2, JobStepPauses, UserStepPauses
<1>3. CASE NotLate
  BY <1>3 DEF NotLate, PauseHoldsBackWork, StopIsHeeded
<1>4. CASE PauseWorkflow
  <2>1. stop' = TRUE /\ UNCHANGED pc /\ (UNCHANGED late \/ NotLate)
    BY <1>4 DEF PauseWorkflow
  <2> QED
    BY <1>1, <1>3, <2>1 DEF PauseHoldsBackWork, StopIsHeeded
<1>5. CASE UNCHANGED <<stop, late, pc>>
  BY <1>1, <1>5 DEF PauseHoldsBackWork, StopIsHeeded
<1>6. \/ \E j \in Jobs : JobStep(j) \/ UserStep(j)
      \/ PauseWorkflow \/ NotLate \/ UNCHANGED <<stop, late, pc>>
  BY DEF Next, StartByApi, ProposePlan, AbandonReview, RejectPlan, BeginReplanning,
     FailReplanning, NotifyReview, NotifyTaskEvent, RestartServer, vars, history
<1> QED
  BY <1>2, <1>3, <1>4, <1>5, <1>6

----------------------------------------------------------------------------
(* The theorems.                                                            *)

\* The inductive invariant of the control of a project (router.py,
\* orchestrator.py, project_workflow_service.py, api/workflow.py), for every
\* way a workflow or a review is asked for, in turn or not.
THEOREM ControlInvariance == Spec => []ControlInv
<1>1. Init => ControlInv
  <2> SUFFICES ASSUME Init PROVE ControlInv
    OBVIOUS
  <2>1. TypeOK
    <3>1. /\ phase \in Phases /\ review \in NoReview .. ProjectReview
          /\ asked \subseteq Jobs /\ direct \subseteq Jobs /\ astray \in 0 .. MaxAstray
      BY WorkflowAssumption DEF Init, Phases, NoReview, ProjectReview
    <3>2. /\ plan \in BOOLEAN /\ replanner \in BOOLEAN /\ stop \in BOOLEAN
          /\ session \in BOOLEAN
      BY DEF Init
    <3>3. /\ task \in [Tasks -> TaskStates] /\ pc \in [Jobs -> ProgramPoints]
          /\ late \in [Jobs -> 0 .. 2]
      BY DEF Init, TaskStates, ProgramPoints
    <3>4. /\ todo \in [Jobs -> SUBSET Tasks] /\ batch \in [Jobs -> SUBSET Tasks]
          /\ current \in [Jobs -> Tasks \cup {0}]
          /\ round \in [Jobs -> 0 .. MaxIterations]
      BY WorkflowAssumption DEF Init
    <3> QED
      BY <3>1, <3>2, <3>3, <3>4 DEF TypeOK
  <2>2. ReviewIsAnswerable
    BY DEF Init, ReviewIsAnswerable, NoReview, Tasks
  <2>3. \A j \in Jobs : ~AtWork(j)
    BY DEF Init, AtWork
  <2>4. WorkflowsAreAccountedFor
    <3>1. ~SomeWork /\ review = NoReview /\ astray = 0
      BY <2>3 DEF SomeWork, Init
    <3> QED
      BY <2>1, <3>1, WorkersFinite DEF WorkflowsAreAccountedFor
  <2>5. WorkOnlyWhileExecuting /\ ReplanningKeepsReview /\ ReplanningKeepsPhase
    BY <2>3 DEF Init, WorkOnlyWhileExecuting, ReplanningKeepsReview,
       ReplanningKeepsPhase
  <2>6. PauseHoldsBackWork /\ StopIsHeeded
    BY DEF Init, PauseHoldsBackWork, StopIsHeeded
  <2> QED
    BY <2>1, <2>2, <2>4, <2>5, <2>6 DEF ControlInv
<1>2. ControlInv /\ [Next]_vars => ControlInv'
  <2> SUFFICES ASSUME ControlInv, [Next]_vars PROVE ControlInv'
    OBVIOUS
  <2>1. TypeOK'
    BY TypeStep DEF ControlInv
  <2> QED
    BY <2>1, CountStep, ReplanningStep, WorkStep, ReviewStep, PauseStep DEF ControlInv
<1> QED
  BY <1>1, <1>2, PTL DEF Spec

\* Workflows at work and an open review are one thing, and one more for each
\* request that was granted out of turn (websocket_chat, confirm_start,
\* resume_workflow, run_workflow_for_project).
THEOREM WorkflowsAreCounted == Spec => []WorkflowsAreAccountedFor
<1>1. ControlInv => WorkflowsAreAccountedFor
  BY DEF ControlInv
<1> QED
  BY <1>1, ControlInvariance, PTL

\* As long as no request was granted out of turn, no workflow of the
\* conversation is at work in a phase that tells the user otherwise.
THEOREM PhaseTellsTheTruth == Spec => []WorkOnlyWhileExecuting
<1>1. ControlInv => WorkOnlyWhileExecuting
  BY DEF ControlInv
<1> QED
  BY <1>1, ControlInvariance, PTL

\* As long as no request was granted out of turn, a review the user is asked to
\* answer is about something that resume_after_review accepts.
THEOREM ReviewsCanBeAnswered == Spec => []ReviewIsAnswerable
<1>1. ControlInv => ReviewIsAnswerable
  BY DEF ControlInv
<1> QED
  BY <1>1, ControlInvariance, PTL

\* While a pause request stands, each workflow begins at most one more task (the
\* event is looked at before each task of _run_execution_iteration), also if
\* several are at work.
THEOREM PausesHold == Spec => []PauseHoldsBackWork
<1>1. ControlInv => PauseHoldsBackWork
  BY DEF ControlInv
<1> QED
  BY <1>1, ControlInvariance, PTL
=============================================================================
