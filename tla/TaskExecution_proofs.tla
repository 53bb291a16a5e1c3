----------------------- MODULE TaskExecution_proofs -----------------------
(***************************************************************************)
(* Theorems about TaskExecution, for every task tree, every number of      *)
(* workers and every number of attempts.                                   *)
(***************************************************************************)
EXTENDS TaskExecution, FiniteSetTheorems, TLAPS

----------------------------------------------------------------------------
(* The consolidation of parents. *)

\* A status derived from children's statuses is a task status.
LEMMA DerivedStatusType ==
    ASSUME NEW S
    PROVE  DerivedStatus(S) \in TaskStatuses
BY DEF DerivedStatus, TaskStatuses, TerminalStatuses

\* A row with children is not atomic.
LEMMA ParentsAreGroups ==
    ASSUME NEW p \in Tasks, Children(p) # {}
    PROVE  p \notin Atomic
<1>1. PICK c \in Tasks : ParentOf[c] = p
  BY DEF Children
<1>2. Level[p] \in LevelsAbove(Level[c])
  BY <1>1, HierarchyAssumption
<1>3. Level[c] \in {"atomic", "refined", "high_level"}
  BY HierarchyAssumption DEF PlanningLevels
<1>4. Level[p] # "atomic"
  BY <1>2, <1>3 DEF LevelsAbove
<1> QED
  BY <1>4 DEF Atomic

\* Consolidating one parent keeps the rows well typed and writes no atomic task.
LEMMA ConsolidateOneFrame ==
    ASSUME NEW st \in [Tasks -> TaskStatuses], NEW p \in Tasks
    PROVE  /\ ConsolidateOne(st, p) \in [Tasks -> TaskStatuses]
           /\ \A t \in Atomic : ConsolidateOne(st, p)[t] = st[t]
<1>1. CASE Children(p) = {}
  BY <1>1 DEF ConsolidateOne
<1>2. CASE Children(p) # {}
  <2>1. p \notin Atomic
    BY <1>2, ParentsAreGroups
  <2>2. Atomic \subseteq Tasks
    BY DEF Atomic
  <2> QED
    BY <1>2, <2>1, <2>2, DerivedStatusType DEF ConsolidateOne
<1> QED
  BY <1>1, <1>2

\* So does the walk up to the root.
LEMMA ConsolidateFromFrame ==
    ASSUME NEW st \in [Tasks -> TaskStatuses], NEW p \in Tasks \cup {NoTask}
    PROVE  /\ ConsolidateFrom(st, p) \in [Tasks -> TaskStatuses]
           /\ \A t \in Atomic : ConsolidateFrom(st, p)[t] = st[t]
<1>1. CASE p = NoTask
  BY <1>1 DEF ConsolidateFrom
<1>2. CASE p # NoTask /\ ParentOf[p] = NoTask
  BY <1>2, ConsolidateOneFrame DEF ConsolidateFrom
<1>3. CASE p # NoTask /\ ParentOf[p] # NoTask
  <2> DEFINE own == ConsolidateOne(st, p)
  <2>1. /\ own \in [Tasks -> TaskStatuses]
        /\ \A t \in Atomic : own[t] = st[t]
    BY <1>3, ConsolidateOneFrame
  <2>2. ParentOf[p] \in Tasks
    BY <1>3, HierarchyAssumption
  <2>3. /\ ConsolidateOne(own, ParentOf[p]) \in [Tasks -> TaskStatuses]
        /\ \A t \in Atomic : ConsolidateOne(own, ParentOf[p])[t] = own[t]
    BY <2>1, <2>2, ConsolidateOneFrame
  <2>4. ConsolidateFrom(st, p) = ConsolidateOne(own, ParentOf[p])
    BY <1>3 DEF ConsolidateFrom
  <2> QED
    BY <2>1, <2>3, <2>4
<1> QED
  BY <1>1, <1>2, <1>3

----------------------------------------------------------------------------
(* The inductive invariant, one conjunct at a time. *)

\* Every step keeps the types.
LEMMA TypingStep ==
    ASSUME IInv, [Next]_vars
    PROVE  TypeOK'
<1> USE HierarchyAssumption, ExecutionAssumption
<1> USE DEF IInv, TypeOK, WorkersOK, rows, locals, TaskOf, Executable, NoChange,
           ProgramPoints, RunStatuses,
           RecoveryActions, Verdicts, ExecutableStatuses, Atomic
<1>s. /\ Verdicts \subseteq TaskStatuses
      /\ {"pending", "running"} \subseteq TaskStatuses
  BY DEF TaskStatuses, TerminalStatuses
<1>1. ASSUME NEW w \in Workers, NEW t \in Atomic, NEW r \in Runs, CreateRun(w, t, r)
      PROVE  TypeOK'
  BY <1>1 DEF CreateRun
<1>2. ASSUME NEW w \in Workers, Admit(w)
      PROVE  TypeOK'
  BY <1>2 DEF Admit, MoveTo, Leave
<1>3. ASSUME NEW w \in Workers, Refuse(w)
      PROVE  TypeOK'
  BY <1>3 DEF Refuse, MoveTo, Leave
<1>4. ASSUME NEW w \in Workers, StartRun(w)
      PROVE  TypeOK'
  BY <1>s, <1>4 DEF StartRun, WriteStatus, MoveTo, Leave
<1>5. ASSUME NEW w \in Workers, PrepareFails(w)
      PROVE  TypeOK'
  BY <1>5 DEF PrepareFails, MoveTo, Leave
<1>6. ASSUME NEW w \in Workers, EngineSucceeds(w)
      PROVE  TypeOK'
  BY <1>6 DEF EngineSucceeds, MoveTo, Leave
<1>7. ASSUME NEW w \in Workers, EngineFails(w)
      PROVE  TypeOK'
  BY <1>s, <1>7 DEF EngineFails, FailBoth, WriteStatus, MoveTo, Leave
<1>8. ASSUME NEW w \in Workers, EngineRejects(w)
      PROVE  TypeOK'
  BY <1>s, <1>8 DEF EngineRejects, FailBoth, WriteStatus, MoveTo, Leave
<1>9. ASSUME NEW w \in Workers, EngineOutage(w)
      PROVE  TypeOK'
  BY <1>9 DEF EngineOutage, MoveTo, Leave
<1>10. ASSUME NEW w \in Workers, RecordOutage(w)
      PROVE  TypeOK'
  BY <1>s, <1>10 DEF RecordOutage, FailBoth, WriteStatus, MoveTo, Leave
<1>11. ASSUME NEW w \in Workers, ValidationBreaks(w)
      PROVE  TypeOK'
  BY <1>s, <1>11 DEF ValidationBreaks, FailAndRaise, FailBoth, WriteStatus, MoveTo, Leave
<1>12. ASSUME NEW w \in Workers, NEW final \in Verdicts, Validate(w, final)
      PROVE  TypeOK'
  BY <1>12 DEF Validate
<1>13. ASSUME NEW w \in Workers, Promote(w)
      PROVE  TypeOK'
  BY <1>13 DEF Promote, MoveTo, Leave
<1>14. ASSUME NEW w \in Workers, PromoteFails(w)
      PROVE  TypeOK'
  BY <1>s, <1>14 DEF PromoteFails, FailAndRaise, FailBoth, WriteStatus, MoveTo, Leave
<1>15. ASSUME NEW w \in Workers, Close(w)
      PROVE  TypeOK'
  BY <1>s, <1>15 DEF Close, WriteStatus, MoveTo, Leave
<1>16. ASSUME NEW w \in Workers, CloseFails(w)
      PROVE  TypeOK'
  BY <1>s, <1>16 DEF CloseFails, FailAndRaise, FailBoth, WriteStatus, MoveTo, Leave
<1>17. ASSUME NEW w \in Workers, CheckClosed(w)
      PROVE  TypeOK'
  <2>1. CASE MoveTo(w, "reconciling")
    BY <1>17, <2>1 DEF CheckClosed, MoveTo
  <2>2. CASE Leave(w)
    BY <1>17, <2>2 DEF CheckClosed, Leave
  <2> QED
    BY <1>17, <2>1, <2>2 DEF CheckClosed
<1>18. ASSUME NEW w \in Workers, ReadHierarchy(w)
      PROVE  TypeOK'
  <2> DEFINE derived == ConsolidateFrom(status, ParentOf[TaskOf(w)])
  <2>1. ParentOf[TaskOf(w)] \in Tasks \cup {NoTask}
    BY <1>18 DEF ReadHierarchy
  <2>2. derived \in [Tasks -> TaskStatuses]
    BY <2>1, ConsolidateFromFrame DEF TypeOK
  <2> HIDE DEF derived
  <2>3. view' \in [Workers -> [Tasks -> TaskStatuses \cup {"unchanged"}]]
    BY <1>18, <2>2 DEF ReadHierarchy, derived
  <2>4. stale' \in [Tasks -> {"no", "read", "yes"}]
    BY <1>18 DEF ReadHierarchy
  <2>5. pc' \in [Workers -> ProgramPoints]
    BY <1>18 DEF ReadHierarchy
  <2> QED
    BY <1>18, <2>3, <2>4, <2>5 DEF ReadHierarchy
<1>19. ASSUME NEW w \in Workers, Consolidate(w)
      PROVE  TypeOK'
  <2>1. status' \in [Tasks -> TaskStatuses]
    <3>1. ASSUME NEW t \in Tasks PROVE status'[t] \in TaskStatuses
      BY <1>19 DEF Consolidate
    <3> QED
      BY <1>19, <3>1 DEF Consolidate
  <2>2. stale' \in [Tasks -> {"no", "read", "yes"}]
    BY <1>19 DEF Consolidate
  <2> QED
    BY <1>19, <2>1, <2>2 DEF Consolidate, Leave
<1>20. ASSUME NEW t \in Atomic, Reopen(t)
      PROVE  TypeOK'
  BY <1>s, <1>20 DEF Reopen, WriteStatus
<1>21. ASSUME Crash
      PROVE  TypeOK'
  BY <1>21 DEF Crash
<1>22. ASSUME UNCHANGED vars
      PROVE  TypeOK'
  BY <1>22 DEF vars
<1> QED
  BY <1>1, <1>2, <1>3, <1>4, <1>5, <1>6, <1>7, <1>8, <1>9, <1>10, <1>11, <1>12, <1>13, <1>14, <1>15, <1>16, <1>17, <1>18, <1>19, <1>20, <1>21, <1>22
     DEF Next, Start, Continue

\* A worker that leaves the call carries nothing, and the others what they
\* carried.
LEMMA LeaveKeepsWorkers ==
    ASSUME TypeOK, WorkersOK, UNCHANGED runTask, NEW w \in Workers, Leave(w)
    PROVE  WorkersOK'
<1> USE DEF TypeOK, WorkersOK, Leave, TaskOf
<1>1. \A t \in Atomic : NoChange[t] = "unchanged"
  BY DEF NoChange, Atomic
<1>2. ASSUME NEW v \in Workers, v # w
      PROVE  pc'[v] = pc[v] /\ run'[v] = run[v] /\ choice'[v] = choice[v] /\ view'[v] = view[v]
  BY <1>2
<1>3. pc'[w] = "idle" /\ run'[w] = NoRun /\ view'[w] = NoChange
  OBVIOUS
<1> QED
  BY <1>1, <1>2, <1>3

\* What a worker carries stays consistent with its program point.
LEMMA WorkersStep ==
    ASSUME IInv, TypeOK', [Next]_vars
    PROVE  WorkersOK'
<1> USE HierarchyAssumption, ExecutionAssumption
<1> USE DEF IInv, WorkersOK, RunsOK, TypeOK, rows, locals, TaskOf, Verdicts, RecoveryActions
<1>1. ASSUME NEW w \in Workers, NEW t \in Atomic, NEW r \in Runs, CreateRun(w, t, r)
      PROVE  WorkersOK'
  BY <1>1 DEF CreateRun, Executable
<1>2. ASSUME NEW w \in Workers, Admit(w)
      PROVE  WorkersOK'
  BY <1>2 DEF Admit, MoveTo
<1>3. ASSUME NEW w \in Workers, Refuse(w)
      PROVE  WorkersOK'
  BY <1>3, LeaveKeepsWorkers DEF Refuse
<1>4. ASSUME NEW w \in Workers, StartRun(w)
      PROVE  WorkersOK'
  BY <1>4 DEF StartRun, WriteStatus, MoveTo
<1>5. ASSUME NEW w \in Workers, PrepareFails(w)
      PROVE  WorkersOK'
  BY <1>5, LeaveKeepsWorkers DEF PrepareFails
<1>6. ASSUME NEW w \in Workers, EngineSucceeds(w)
      PROVE  WorkersOK'
  BY <1>6 DEF EngineSucceeds, MoveTo
<1>7. ASSUME NEW w \in Workers, EngineFails(w)
      PROVE  WorkersOK'
  BY <1>7 DEF EngineFails, FailBoth, WriteStatus, MoveTo
<1>8. ASSUME NEW w \in Workers, EngineRejects(w)
      PROVE  WorkersOK'
  BY <1>8 DEF EngineRejects, FailBoth, WriteStatus, MoveTo
<1>9. ASSUME NEW w \in Workers, EngineOutage(w)
      PROVE  WorkersOK'
  BY <1>9 DEF EngineOutage
<1>10. ASSUME NEW w \in Workers, RecordOutage(w)
      PROVE  WorkersOK'
  BY <1>10 DEF RecordOutage, FailBoth, WriteStatus, MoveTo
<1>11. ASSUME NEW w \in Workers, ValidationBreaks(w)
      PROVE  WorkersOK'
  BY <1>11, LeaveKeepsWorkers DEF ValidationBreaks, FailAndRaise, FailBoth
<1>12. ASSUME NEW w \in Workers, NEW final \in Verdicts, Validate(w, final)
      PROVE  WorkersOK'
  BY <1>12 DEF Validate
<1>13. ASSUME NEW w \in Workers, Promote(w)
      PROVE  WorkersOK'
  BY <1>13 DEF Promote, MoveTo
<1>14. ASSUME NEW w \in Workers, PromoteFails(w)
      PROVE  WorkersOK'
  BY <1>14, LeaveKeepsWorkers DEF PromoteFails, FailAndRaise, FailBoth
<1>15. ASSUME NEW w \in Workers, Close(w)
      PROVE  WorkersOK'
  BY <1>15 DEF Close, WriteStatus, MoveTo
<1>16. ASSUME NEW w \in Workers, CloseFails(w)
      PROVE  WorkersOK'
  BY <1>16, LeaveKeepsWorkers DEF CloseFails, FailAndRaise, FailBoth
<1>17. ASSUME NEW w \in Workers, CheckClosed(w)
      PROVE  WorkersOK'
  <2>1. CASE MoveTo(w, "reconciling")
    BY <1>17, <2>1 DEF CheckClosed, MoveTo
  <2>2. CASE Leave(w)
    BY <1>17, <2>2, LeaveKeepsWorkers DEF CheckClosed
  <2> QED
    BY <1>17, <2>1, <2>2 DEF CheckClosed
<1>18. ASSUME NEW w \in Workers, ReadHierarchy(w)
      PROVE  WorkersOK'
  <2> DEFINE derived == ConsolidateFrom(status, ParentOf[TaskOf(w)])
  <2>1. ParentOf[TaskOf(w)] \in Tasks \cup {NoTask}
    BY <1>18 DEF ReadHierarchy, Atomic
  <2>2. \A t \in Atomic : derived[t] = status[t]
    BY <2>1, ConsolidateFromFrame
  <2> HIDE DEF derived
  <2>3. \A t \in Atomic : view'[w][t] = "unchanged"
    BY <1>18, <2>2 DEF ReadHierarchy, derived, Atomic
  <2>4. \A v \in Workers : v # w => view'[v] = view[v] /\ pc'[v] = pc[v]
    BY <1>18 DEF ReadHierarchy
  <2>5. pc'[w] = "consolidating" /\ UNCHANGED <<run, choice, runTask>>
    BY <1>18 DEF ReadHierarchy
  <2> QED
    BY <1>18, <2>3, <2>4, <2>5 DEF ReadHierarchy
<1>19. ASSUME NEW w \in Workers, Consolidate(w)
      PROVE  WorkersOK'
  BY <1>19, LeaveKeepsWorkers DEF Consolidate
<1>20. ASSUME NEW t \in Atomic, Reopen(t)
      PROVE  WorkersOK'
  BY <1>20 DEF Reopen, WriteStatus
<1>21. ASSUME Crash
      PROVE  WorkersOK'
  <2>1. \A w \in Workers : pc'[w] = "idle" /\ run'[w] = NoRun /\ view'[w] = NoChange
    BY <1>21 DEF Crash
  <2>2. \A t \in Atomic : NoChange[t] = "unchanged"
    BY DEF NoChange, Atomic
  <2> HIDE DEF NoChange
  <2> QED
    BY <2>1, <2>2
<1>22. ASSUME UNCHANGED vars
      PROVE  WorkersOK'
  BY <1>22 DEF vars
<1> QED
  BY <1>1, <1>2, <1>3, <1>4, <1>5, <1>6, <1>7, <1>8, <1>9, <1>10,
     <1>11, <1>12, <1>13, <1>14, <1>15, <1>16, <1>17, <1>18, <1>19,
     <1>20, <1>21, <1>22
     DEF Next, Start, Continue

\* No step gives a run a second owner: a new run is taken from the ids that are
\* still absent, and a run some worker holds is not absent.
LEMMA OwnershipStep ==
    ASSUME IInv, TypeOK', [Next]_vars
    PROVE  RunsAreOwned'
<1> USE HierarchyAssumption, ExecutionAssumption
<1> USE DEF IInv, RunsAreOwned, WorkersOK, RunsOK, TypeOK, rows, locals, TaskOf
<1>1. ASSUME NEW w \in Workers, NEW t \in Atomic, NEW r \in Runs, CreateRun(w, t, r)
      PROVE  RunsAreOwned'
  BY <1>1 DEF CreateRun, Executable
<1>2. ASSUME NEW w \in Workers, Admit(w)
      PROVE  RunsAreOwned'
  BY <1>2 DEF Admit, MoveTo
<1>3. ASSUME NEW w \in Workers, Refuse(w)
      PROVE  RunsAreOwned'
  BY <1>3 DEF Refuse, Leave
<1>4. ASSUME NEW w \in Workers, StartRun(w)
      PROVE  RunsAreOwned'
  BY <1>4 DEF StartRun, WriteStatus, MoveTo
<1>5. ASSUME NEW w \in Workers, PrepareFails(w)
      PROVE  RunsAreOwned'
  BY <1>5 DEF PrepareFails, Leave
<1>6. ASSUME NEW w \in Workers, EngineSucceeds(w)
      PROVE  RunsAreOwned'
  BY <1>6 DEF EngineSucceeds, MoveTo
<1>7. ASSUME NEW w \in Workers, EngineFails(w)
      PROVE  RunsAreOwned'
  BY <1>7 DEF EngineFails, FailBoth, WriteStatus, MoveTo
<1>8. ASSUME NEW w \in Workers, EngineRejects(w)
      PROVE  RunsAreOwned'
  BY <1>8 DEF EngineRejects, FailBoth, WriteStatus, MoveTo
<1>9. ASSUME NEW w \in Workers, EngineOutage(w)
      PROVE  RunsAreOwned'
  BY <1>9 DEF EngineOutage
<1>10. ASSUME NEW w \in Workers, RecordOutage(w)
      PROVE  RunsAreOwned'
  BY <1>10 DEF RecordOutage, FailBoth, WriteStatus, MoveTo
<1>11. ASSUME NEW w \in Workers, ValidationBreaks(w)
      PROVE  RunsAreOwned'
  BY <1>11 DEF ValidationBreaks, FailAndRaise, FailBoth, WriteStatus, Leave
<1>12. ASSUME NEW w \in Workers, NEW final \in Verdicts, Validate(w, final)
      PROVE  RunsAreOwned'
  BY <1>12 DEF Validate
<1>13. ASSUME NEW w \in Workers, Promote(w)
      PROVE  RunsAreOwned'
  BY <1>13 DEF Promote, MoveTo
<1>14. ASSUME NEW w \in Workers, PromoteFails(w)
      PROVE  RunsAreOwned'
  BY <1>14 DEF PromoteFails, FailAndRaise, FailBoth, WriteStatus, Leave
<1>15. ASSUME NEW w \in Workers, Close(w)
      PROVE  RunsAreOwned'
  BY <1>15 DEF Close, WriteStatus, MoveTo
<1>16. ASSUME NEW w \in Workers, CloseFails(w)
      PROVE  RunsAreOwned'
  BY <1>16 DEF CloseFails, FailAndRaise, FailBoth, WriteStatus, Leave
<1>17. ASSUME NEW w \in Workers, CheckClosed(w)
      PROVE  RunsAreOwned'
  BY <1>17 DEF CheckClosed, MoveTo, Leave
<1>18. ASSUME NEW w \in Workers, ReadHierarchy(w)
      PROVE  RunsAreOwned'
  BY <1>18 DEF ReadHierarchy
<1>19. ASSUME NEW w \in Workers, Consolidate(w)
      PROVE  RunsAreOwned'
  BY <1>19 DEF Consolidate, Leave
<1>20. ASSUME NEW t \in Atomic, Reopen(t)
      PROVE  RunsAreOwned'
  BY <1>20 DEF Reopen, WriteStatus
<1>21. ASSUME Crash
      PROVE  RunsAreOwned'
  BY <1>21 DEF Crash
<1>22. ASSUME UNCHANGED vars
      PROVE  RunsAreOwned'
  BY <1>22 DEF vars
<1> QED
  BY <1>1, <1>2, <1>3, <1>4, <1>5, <1>6, <1>7, <1>8, <1>9, <1>10,
     <1>11, <1>12, <1>13, <1>14, <1>15, <1>16, <1>17, <1>18, <1>19,
     <1>20, <1>21, <1>22
     DEF Next, Start, Continue

\* The row of a run and its files stay in step with the worker that owns it.
LEMMA RunsStep ==
    ASSUME IInv, TypeOK', [Next]_vars
    PROVE  RunsOK'
<1> USE HierarchyAssumption, ExecutionAssumption
<1> USE DEF IInv, RunsAreOwned, WorkersOK, RunsOK, Untouched, TypeOK, rows, locals, TaskOf
<1>1. ASSUME NEW w \in Workers, NEW t \in Atomic, NEW r \in Runs, CreateRun(w, t, r)
      PROVE  RunsOK'
  BY <1>1 DEF CreateRun, Executable
<1>2. ASSUME NEW w \in Workers, Admit(w)
      PROVE  RunsOK'
  BY <1>2 DEF Admit, MoveTo
<1>3. ASSUME NEW w \in Workers, Refuse(w)
      PROVE  RunsOK'
  BY <1>3 DEF Refuse, Leave
<1>4. ASSUME NEW w \in Workers, StartRun(w)
      PROVE  RunsOK'
  BY <1>4 DEF StartRun, WriteStatus, MoveTo
<1>5. ASSUME NEW w \in Workers, PrepareFails(w)
      PROVE  RunsOK'
  BY <1>5 DEF PrepareFails, Leave
<1>6. ASSUME NEW w \in Workers, EngineSucceeds(w)
      PROVE  RunsOK'
  BY <1>6 DEF EngineSucceeds, MoveTo
<1>7. ASSUME NEW w \in Workers, EngineFails(w)
      PROVE  RunsOK'
  BY <1>7 DEF EngineFails, FailBoth, WriteStatus, MoveTo
<1>8. ASSUME NEW w \in Workers, EngineRejects(w)
      PROVE  RunsOK'
  BY <1>8 DEF EngineRejects, FailBoth, WriteStatus, MoveTo
<1>9. ASSUME NEW w \in Workers, EngineOutage(w)
      PROVE  RunsOK'
  BY <1>9 DEF EngineOutage
<1>10. ASSUME NEW w \in Workers, RecordOutage(w)
      PROVE  RunsOK'
  BY <1>10 DEF RecordOutage, FailBoth, WriteStatus, MoveTo
<1>11. ASSUME NEW w \in Workers, ValidationBreaks(w)
      PROVE  RunsOK'
  BY <1>11 DEF ValidationBreaks, FailAndRaise, FailBoth, WriteStatus, Leave
<1>12. ASSUME NEW w \in Workers, NEW final \in Verdicts, Validate(w, final)
      PROVE  RunsOK'
  BY <1>12 DEF Validate
<1>13. ASSUME NEW w \in Workers, Promote(w)
      PROVE  RunsOK'
  BY <1>13 DEF Promote, MoveTo
<1>14. ASSUME NEW w \in Workers, PromoteFails(w)
      PROVE  RunsOK'
  BY <1>14 DEF PromoteFails, FailAndRaise, FailBoth, WriteStatus, Leave
<1>15. ASSUME NEW w \in Workers, Close(w)
      PROVE  RunsOK'
  BY <1>15 DEF Close, WriteStatus, MoveTo
<1>16. ASSUME NEW w \in Workers, CloseFails(w)
      PROVE  RunsOK'
  BY <1>16 DEF CloseFails, FailAndRaise, FailBoth, WriteStatus, Leave
<1>17. ASSUME NEW w \in Workers, CheckClosed(w)
      PROVE  RunsOK'
  BY <1>17 DEF CheckClosed, MoveTo, Leave
<1>18. ASSUME NEW w \in Workers, ReadHierarchy(w)
      PROVE  RunsOK'
  BY <1>18 DEF ReadHierarchy
<1>19. ASSUME NEW w \in Workers, Consolidate(w)
      PROVE  RunsOK'
  BY <1>19 DEF Consolidate, Leave
<1>20. ASSUME NEW t \in Atomic, Reopen(t)
      PROVE  RunsOK'
  BY <1>20 DEF Reopen, WriteStatus
<1>21. ASSUME Crash
      PROVE  RunsOK'
  BY <1>21 DEF Crash
<1>22. ASSUME UNCHANGED vars
      PROVE  RunsOK'
  BY <1>22 DEF vars
<1> QED
  BY <1>1, <1>2, <1>3, <1>4, <1>5, <1>6, <1>7, <1>8, <1>9, <1>10,
     <1>11, <1>12, <1>13, <1>14, <1>15, <1>16, <1>17, <1>18, <1>19,
     <1>20, <1>21, <1>22
     DEF Next, Start, Continue

\* No step contradicts a verdict that was persisted.
LEMMA VerdictStep ==
    ASSUME IInv, TypeOK', [Next]_vars
    PROVE  VerdictMatchesRun'
<1> USE HierarchyAssumption, ExecutionAssumption
<1> USE DEF IInv, RunsAreOwned, WorkersOK, RunsOK, Untouched, VerdictMatchesRun, TypeOK, rows, locals, TaskOf
<1>1. ASSUME NEW w \in Workers, NEW t \in Atomic, NEW r \in Runs, CreateRun(w, t, r)
      PROVE  VerdictMatchesRun'
  BY <1>1 DEF CreateRun, Executable
<1>2. ASSUME NEW w \in Workers, Admit(w)
      PROVE  VerdictMatchesRun'
  BY <1>2 DEF Admit, MoveTo
<1>3. ASSUME NEW w \in Workers, Refuse(w)
      PROVE  VerdictMatchesRun'
  BY <1>3 DEF Refuse, Leave
<1>4. ASSUME NEW w \in Workers, StartRun(w)
      PROVE  VerdictMatchesRun'
  BY <1>4 DEF StartRun, WriteStatus, MoveTo
<1>5. ASSUME NEW w \in Workers, PrepareFails(w)
      PROVE  VerdictMatchesRun'
  BY <1>5 DEF PrepareFails, Leave
<1>6. ASSUME NEW w \in Workers, EngineSucceeds(w)
      PROVE  VerdictMatchesRun'
  BY <1>6 DEF EngineSucceeds, MoveTo
<1>7. ASSUME NEW w \in Workers, EngineFails(w)
      PROVE  VerdictMatchesRun'
  BY <1>7 DEF EngineFails, FailBoth, WriteStatus, MoveTo
<1>8. ASSUME NEW w \in Workers, EngineRejects(w)
      PROVE  VerdictMatchesRun'
  BY <1>8 DEF EngineRejects, FailBoth, WriteStatus, MoveTo
<1>9. ASSUME NEW w \in Workers, EngineOutage(w)
      PROVE  VerdictMatchesRun'
  BY <1>9 DEF EngineOutage
<1>10. ASSUME NEW w \in Workers, RecordOutage(w)
      PROVE  VerdictMatchesRun'
  BY <1>10 DEF RecordOutage, FailBoth, WriteStatus, MoveTo
<1>11. ASSUME NEW w \in Workers, ValidationBreaks(w)
      PROVE  VerdictMatchesRun'
  BY <1>11 DEF ValidationBreaks, FailAndRaise, FailBoth, WriteStatus, Leave
<1>12. ASSUME NEW w \in Workers, NEW final \in Verdicts, Validate(w, final)
      PROVE  VerdictMatchesRun'
  BY <1>12 DEF Validate
<1>13. ASSUME NEW w \in Workers, Promote(w)
      PROVE  VerdictMatchesRun'
  BY <1>13 DEF Promote, MoveTo
<1>14. ASSUME NEW w \in Workers, PromoteFails(w)
      PROVE  VerdictMatchesRun'
  BY <1>14 DEF PromoteFails, FailAndRaise, FailBoth, WriteStatus, Leave
<1>15. ASSUME NEW w \in Workers, Close(w)
      PROVE  VerdictMatchesRun'
  BY <1>15 DEF Close, WriteStatus, MoveTo
<1>16. ASSUME NEW w \in Workers, CloseFails(w)
      PROVE  VerdictMatchesRun'
  BY <1>16 DEF CloseFails, FailAndRaise, FailBoth, WriteStatus, Leave
<1>17. ASSUME NEW w \in Workers, CheckClosed(w)
      PROVE  VerdictMatchesRun'
  BY <1>17 DEF CheckClosed, MoveTo, Leave
<1>18. ASSUME NEW w \in Workers, ReadHierarchy(w)
      PROVE  VerdictMatchesRun'
  BY <1>18 DEF ReadHierarchy
<1>19. ASSUME NEW w \in Workers, Consolidate(w)
      PROVE  VerdictMatchesRun'
  BY <1>19 DEF Consolidate, Leave
<1>20. ASSUME NEW t \in Atomic, Reopen(t)
      PROVE  VerdictMatchesRun'
  BY <1>20 DEF Reopen, WriteStatus
<1>21. ASSUME Crash
      PROVE  VerdictMatchesRun'
  BY <1>21 DEF Crash
<1>22. ASSUME UNCHANGED vars
      PROVE  VerdictMatchesRun'
  BY <1>22 DEF vars
<1> QED
  BY <1>1, <1>2, <1>3, <1>4, <1>5, <1>6, <1>7, <1>8, <1>9, <1>10,
     <1>11, <1>12, <1>13, <1>14, <1>15, <1>16, <1>17, <1>18, <1>19,
     <1>20, <1>21, <1>22
     DEF Next, Start, Continue

\* A task is closed as completed or partial by the commit that writes the
\* evidence, and evidence is never withdrawn.
LEMMA EvidenceStep ==
    ASSUME IInv, TypeOK', [Next]_vars
    PROVE  ClosedWorkIsEvidenced'
<1> USE HierarchyAssumption, ExecutionAssumption
<1> USE DEF IInv, RunsAreOwned, WorkersOK, RunsOK, Untouched, ClosedWorkIsEvidenced, TypeOK, rows, locals, TaskOf
<1>1. ASSUME NEW w \in Workers, NEW t \in Atomic, NEW r \in Runs, CreateRun(w, t, r)
      PROVE  ClosedWorkIsEvidenced'
  BY <1>1 DEF CreateRun, Executable
<1>2. ASSUME NEW w \in Workers, Admit(w)
      PROVE  ClosedWorkIsEvidenced'
  BY <1>2 DEF Admit, MoveTo
<1>3. ASSUME NEW w \in Workers, Refuse(w)
      PROVE  ClosedWorkIsEvidenced'
  BY <1>3 DEF Refuse, Leave
<1>4. ASSUME NEW w \in Workers, StartRun(w)
      PROVE  ClosedWorkIsEvidenced'
  BY <1>4 DEF StartRun, WriteStatus, MoveTo
<1>5. ASSUME NEW w \in Workers, PrepareFails(w)
      PROVE  ClosedWorkIsEvidenced'
  BY <1>5 DEF PrepareFails, Leave
<1>6. ASSUME NEW w \in Workers, EngineSucceeds(w)
      PROVE  ClosedWorkIsEvidenced'
  BY <1>6 DEF EngineSucceeds, MoveTo
<1>7. ASSUME NEW w \in Workers, EngineFails(w)
      PROVE  ClosedWorkIsEvidenced'
  BY <1>7 DEF EngineFails, FailBoth, WriteStatus, MoveTo
<1>8. ASSUME NEW w \in Workers, EngineRejects(w)
      PROVE  ClosedWorkIsEvidenced'
  BY <1>8 DEF EngineRejects, FailBoth, WriteStatus, MoveTo
<1>9. ASSUME NEW w \in Workers, EngineOutage(w)
      PROVE  ClosedWorkIsEvidenced'
  BY <1>9 DEF EngineOutage
<1>10. ASSUME NEW w \in Workers, RecordOutage(w)
      PROVE  ClosedWorkIsEvidenced'
  BY <1>10 DEF RecordOutage, FailBoth, WriteStatus, MoveTo
<1>11. ASSUME NEW w \in Workers, ValidationBreaks(w)
      PROVE  ClosedWorkIsEvidenced'
  BY <1>11 DEF ValidationBreaks, FailAndRaise, FailBoth, WriteStatus, Leave
<1>12. ASSUME NEW w \in Workers, NEW final \in Verdicts, Validate(w, final)
      PROVE  ClosedWorkIsEvidenced'
  BY <1>12 DEF Validate
<1>13. ASSUME NEW w \in Workers, Promote(w)
      PROVE  ClosedWorkIsEvidenced'
  BY <1>13 DEF Promote, MoveTo
<1>14. ASSUME NEW w \in Workers, PromoteFails(w)
      PROVE  ClosedWorkIsEvidenced'
  BY <1>14 DEF PromoteFails, FailAndRaise, FailBoth, WriteStatus, Leave
<1>15. ASSUME NEW w \in Workers, Close(w)
      PROVE  ClosedWorkIsEvidenced'
  BY <1>15 DEF Close, WriteStatus, MoveTo
<1>16. ASSUME NEW w \in Workers, CloseFails(w)
      PROVE  ClosedWorkIsEvidenced'
  BY <1>16 DEF CloseFails, FailAndRaise, FailBoth, WriteStatus, Leave
<1>17. ASSUME NEW w \in Workers, CheckClosed(w)
      PROVE  ClosedWorkIsEvidenced'
  BY <1>17 DEF CheckClosed, MoveTo, Leave
<1>18. ASSUME NEW w \in Workers, ReadHierarchy(w)
      PROVE  ClosedWorkIsEvidenced'
  BY <1>18 DEF ReadHierarchy
<1>19. ASSUME NEW w \in Workers, Consolidate(w)
      PROVE  ClosedWorkIsEvidenced'
  <2>1. \A t \in Atomic : status'[t] = status[t]
    BY <1>19 DEF Consolidate, Atomic
  <2>2. UNCHANGED <<runTask, artifact, promoted>>
    BY <1>19 DEF Consolidate
  <2> QED
    BY <2>1, <2>2
<1>20. ASSUME NEW t \in Atomic, Reopen(t)
      PROVE  ClosedWorkIsEvidenced'
  BY <1>20 DEF Reopen, WriteStatus
<1>21. ASSUME Crash
      PROVE  ClosedWorkIsEvidenced'
  BY <1>21 DEF Crash
<1>22. ASSUME UNCHANGED vars
      PROVE  ClosedWorkIsEvidenced'
  BY <1>22 DEF vars
<1> QED
  BY <1>1, <1>2, <1>3, <1>4, <1>5, <1>6, <1>7, <1>8, <1>9, <1>10,
     <1>11, <1>12, <1>13, <1>14, <1>15, <1>16, <1>17, <1>18, <1>19,
     <1>20, <1>21, <1>22
     DEF Next, Start, Continue

\* A task that reads running keeps its worker until the worker closes it.
LEMMA RunningStep ==
    ASSUME IInv, TypeOK', [Next]_vars
    PROVE  RunningIsOwned'
<1> USE HierarchyAssumption, ExecutionAssumption
<1> USE DEF IInv, WorkersOK, RunsAreOwned, RunningIsOwned, Holds, Executing, TypeOK, rows, locals, TaskOf
<1>1. ASSUME NEW w \in Workers, NEW t \in Atomic, NEW r \in Runs, CreateRun(w, t, r)
      PROVE  RunningIsOwned'
  <2> SUFFICES ASSUME NEW u \in Atomic, status'[u] = "running"
               PROVE  \/ u \in orphaned'
                      \/ \E v \in Workers : (Executing(v) /\ Holds(v, u))'
    OBVIOUS
  <2>1. status[u] = "running"
    BY <1>1 DEF CreateRun, Atomic
  <2>2. CASE u \in orphaned
    BY <1>1, <2>2 DEF CreateRun
  <2>3. CASE \E v \in Workers : Executing(v) /\ Holds(v, u)
    <3>1. PICK v \in Workers : Executing(v) /\ Holds(v, u)
      BY <2>3
    <3>2. v # w
      BY <1>1, <3>1 DEF CreateRun
    <3>3. pc'[v] = pc[v] /\ run'[v] = run[v]
      BY <1>1, <3>2 DEF CreateRun, Executable
    <3>4. runTask'[run[v]] = runTask[run[v]]
      BY <1>1, <3>1 DEF CreateRun, RunsOK
    <3> QED
      BY <3>1, <3>3, <3>4
  <2> QED
    BY <2>1, <2>2, <2>3
<1>2. ASSUME NEW w \in Workers, Admit(w)
      PROVE  RunningIsOwned'
  BY <1>2 DEF Admit, MoveTo
<1>3. ASSUME NEW w \in Workers, Refuse(w)
      PROVE  RunningIsOwned'
  BY <1>3 DEF Refuse, Leave
<1>4. ASSUME NEW w \in Workers, StartRun(w)
      PROVE  RunningIsOwned'
  <2> SUFFICES ASSUME NEW t \in Atomic, status'[t] = "running"
               PROVE  \/ t \in orphaned'
                      \/ \E v \in Workers : (Executing(v) /\ Holds(v, t))'
    OBVIOUS
  <2>1. CASE t = TaskOf(w)
    <3>1. Executing(w)' /\ Holds(w, t)'
      BY <1>4, <2>1 DEF StartRun, MoveTo
    <3> QED
      BY <3>1
  <2>2. CASE t # TaskOf(w)
    <3>1. status[t] = "running"
      BY <1>4, <2>2 DEF StartRun, WriteStatus, Atomic
    <3>2. ASSUME NEW v \in Workers, Executing(v) /\ Holds(v, t)
          PROVE  (Executing(v) /\ Holds(v, t))'
      BY <1>4, <2>2, <3>2 DEF StartRun, MoveTo
    <3> QED
      BY <1>4, <3>1, <3>2 DEF StartRun
  <2> QED
    BY <2>1, <2>2
<1>5. ASSUME NEW w \in Workers, PrepareFails(w)
      PROVE  RunningIsOwned'
  BY <1>5 DEF PrepareFails, Leave
<1>6. ASSUME NEW w \in Workers, EngineSucceeds(w)
      PROVE  RunningIsOwned'
  BY <1>6 DEF EngineSucceeds, MoveTo
<1>7. ASSUME NEW w \in Workers, EngineFails(w)
      PROVE  RunningIsOwned'
  <2> SUFFICES ASSUME NEW t \in Atomic, status'[t] = "running"
               PROVE  \/ t \in orphaned'
                      \/ \E v \in Workers : (Executing(v) /\ Holds(v, t))'
    OBVIOUS
  <2>1. status[t] = "running" /\ t # TaskOf(w)
    BY <1>7 DEF EngineFails, FailBoth, WriteStatus, Atomic, Verdicts
  <2>2. CASE t \in orphaned
    BY <1>7, <2>2 DEF EngineFails, FailBoth, WriteStatus
  <2>3. CASE \E v \in Workers : Executing(v) /\ Holds(v, t)
    <3>1. PICK v \in Workers : Executing(v) /\ Holds(v, t)
      BY <2>3
    <3>2. v # w
      BY <2>1, <3>1
    <3>3. pc'[v] = pc[v] /\ run'[v] = run[v] /\ runTask' = runTask
      BY <1>7, <3>2 DEF EngineFails, FailBoth, WriteStatus, MoveTo
    <3> QED
      BY <3>1, <3>3
  <2> QED
    BY <2>1, <2>2, <2>3
<1>8. ASSUME NEW w \in Workers, EngineRejects(w)
      PROVE  RunningIsOwned'
  BY <1>8 DEF EngineRejects, FailBoth, WriteStatus, MoveTo
<1>9. ASSUME NEW w \in Workers, EngineOutage(w)
      PROVE  RunningIsOwned'
  BY <1>9 DEF EngineOutage
<1>10. ASSUME NEW w \in Workers, RecordOutage(w)
      PROVE  RunningIsOwned'
  BY <1>10 DEF RecordOutage, FailBoth, WriteStatus, MoveTo
<1>11. ASSUME NEW w \in Workers, ValidationBreaks(w)
      PROVE  RunningIsOwned'
  BY <1>11 DEF ValidationBreaks, FailAndRaise, FailBoth, WriteStatus, Leave
<1>12. ASSUME NEW w \in Workers, NEW final \in Verdicts, Validate(w, final)
      PROVE  RunningIsOwned'
  BY <1>12 DEF Validate
<1>13. ASSUME NEW w \in Workers, Promote(w)
      PROVE  RunningIsOwned'
  BY <1>13 DEF Promote, MoveTo
<1>14. ASSUME NEW w \in Workers, PromoteFails(w)
      PROVE  RunningIsOwned'
  BY <1>14 DEF PromoteFails, FailAndRaise, FailBoth, WriteStatus, Leave
<1>15. ASSUME NEW w \in Workers, Close(w)
      PROVE  RunningIsOwned'
  <2> SUFFICES ASSUME NEW t \in Atomic, status'[t] = "running"
               PROVE  \/ t \in orphaned'
                      \/ \E v \in Workers : (Executing(v) /\ Holds(v, t))'
    OBVIOUS
  <2>1. status[t] = "running" /\ t # TaskOf(w)
    BY <1>15 DEF Close, WriteStatus, Atomic, Verdicts
  <2>2. CASE t \in orphaned
    BY <1>15, <2>2 DEF Close, WriteStatus
  <2>3. CASE \E v \in Workers : Executing(v) /\ Holds(v, t)
    <3>1. PICK v \in Workers : Executing(v) /\ Holds(v, t)
      BY <2>3
    <3>2. v # w
      BY <2>1, <3>1
    <3>3. pc'[v] = pc[v] /\ run'[v] = run[v] /\ runTask' = runTask
      BY <1>15, <3>2 DEF Close, WriteStatus, MoveTo
    <3> QED
      BY <3>1, <3>3
  <2> QED
    BY <2>1, <2>2, <2>3
<1>16. ASSUME NEW w \in Workers, CloseFails(w)
      PROVE  RunningIsOwned'
  BY <1>16 DEF CloseFails, FailAndRaise, FailBoth, WriteStatus, Leave
<1>17. ASSUME NEW w \in Workers, CheckClosed(w)
      PROVE  RunningIsOwned'
  <2> SUFFICES ASSUME NEW t \in Atomic, status'[t] = "running"
               PROVE  \/ t \in orphaned'
                      \/ \E v \in Workers : (Executing(v) /\ Holds(v, t))'
    OBVIOUS
  <2>1. status[t] = "running"
    BY <1>17 DEF CheckClosed, Atomic
  <2>2. CASE t \in orphaned
    BY <1>17, <2>2 DEF CheckClosed
  <2>3. CASE \E v \in Workers : Executing(v) /\ Holds(v, t)
    <3>1. PICK v \in Workers : Executing(v) /\ Holds(v, t)
      BY <2>3
    <3>2. v # w
      BY <1>17, <3>1 DEF CheckClosed
    <3>3. pc'[v] = pc[v] /\ run'[v] = run[v]
      BY <1>17, <3>2 DEF CheckClosed, MoveTo, Leave
    <3>4. runTask'[run[v]] = runTask[run[v]]
      BY <1>17, <3>1 DEF CheckClosed, RunsOK
    <3> QED
      BY <3>1, <3>3, <3>4
  <2> QED
    BY <2>1, <2>2, <2>3
<1>18. ASSUME NEW w \in Workers, ReadHierarchy(w)
      PROVE  RunningIsOwned'
  BY <1>18 DEF ReadHierarchy
<1>19. ASSUME NEW w \in Workers, Consolidate(w)
      PROVE  RunningIsOwned'
  <2> SUFFICES ASSUME NEW t \in Atomic, status'[t] = "running"
               PROVE  \/ t \in orphaned'
                      \/ \E v \in Workers : (Executing(v) /\ Holds(v, t))'
    OBVIOUS
  <2>1. status[t] = "running"
    BY <1>19 DEF Consolidate, Atomic
  <2>2. CASE t \in orphaned
    BY <1>19, <2>2 DEF Consolidate
  <2>3. CASE \E v \in Workers : Executing(v) /\ Holds(v, t)
    <3>1. PICK v \in Workers : Executing(v) /\ Holds(v, t)
      BY <2>3
    <3>2. v # w
      BY <1>19, <3>1 DEF Consolidate
    <3>3. pc'[v] = pc[v] /\ run'[v] = run[v]
      BY <1>19, <3>2 DEF Consolidate, Leave
    <3>4. runTask'[run[v]] = runTask[run[v]]
      BY <1>19, <3>1 DEF Consolidate, RunsOK
    <3> QED
      BY <3>1, <3>3, <3>4
  <2> QED
    BY <2>1, <2>2, <2>3
<1>20. ASSUME NEW t \in Atomic, Reopen(t)
      PROVE  RunningIsOwned'
  BY <1>20 DEF Reopen, WriteStatus
<1>21. ASSUME Crash
      PROVE  RunningIsOwned'
  BY <1>21 DEF Crash
<1>22. ASSUME UNCHANGED vars
      PROVE  RunningIsOwned'
  BY <1>22 DEF vars
<1> QED
  BY <1>1, <1>2, <1>3, <1>4, <1>5, <1>6, <1>7, <1>8, <1>9, <1>10,
     <1>11, <1>12, <1>13, <1>14, <1>15, <1>16, <1>17, <1>18, <1>19,
     <1>20, <1>21, <1>22
     DEF Next, Start, Continue

----------------------------------------------------------------------------
(* The theorems. *)

\* The inductive invariant: every fact a worker relies on between two commits
\* holds in every reachable state, however many workers interleave.
THEOREM Invariance == Spec => []IInv
<1>1. Init => IInv
  <2> SUFFICES ASSUME Init PROVE IInv
    OBVIOUS
  <2>1. TypeOK
    BY DEF Init, TypeOK, TaskStatuses, RunStatuses, RecoveryActions, ProgramPoints, NoChange
  <2>2. WorkersOK /\ RunsAreOwned
    BY ExecutionAssumption DEF Init, WorkersOK, RunsAreOwned, NoChange, Atomic
  <2>3. RunsOK /\ VerdictMatchesRun
    BY DEF Init, RunsOK, Untouched, VerdictMatchesRun
  <2>4. ClosedWorkIsEvidenced /\ RunningIsOwned
    BY DEF Init, ClosedWorkIsEvidenced, RunningIsOwned, Atomic
  <2> QED
    BY <2>1, <2>2, <2>3, <2>4 DEF IInv
<1>2. IInv /\ [Next]_vars => IInv'
  BY TypingStep, WorkersStep, OwnershipStep, RunsStep, VerdictStep,
     EvidenceStep, RunningStep DEF IInv
<1> QED
  BY <1>1, <1>2, PTL DEF Spec

\* The rows and the workers stay well typed.
THEOREM Typing == Spec => []TypeOK
BY Invariance, PTL DEF IInv

\* No failure path of a call contradicts a persisted verdict, for any number of
\* workers, tasks and attempts.
THEOREM VerdictsAreKept == Spec => []VerdictMatchesRun
BY Invariance, PTL DEF IInv

\* A task never reads completed or partial without a run of its own that has
\* this verdict and whose files reached the source tree.
THEOREM WorkIsEvidenced == Spec => []ClosedWorkIsEvidenced
BY Invariance, PTL DEF IInv

\* A task that reads running is being executed, unless its call died.
THEOREM RunningTasksAreOwned == Spec => []RunningIsOwned
BY Invariance, PTL DEF IInv

----------------------------------------------------------------------------
(* One worker.                                                             *)

\* A task whose failed runs are not counted has none.
LEMMA UncountedIsNone ==
    ASSUME NEW t, ~ (Cardinality(FailedRuns(t)) >= MaxFailedRunsBeforeManualReview)
    PROVE  FailedRuns(t) = {}
<1>1. IsFiniteSet(FailedRuns(t))
  BY ExecutionAssumption, FS_Subset DEF FailedRuns
<1>2. Cardinality(FailedRuns(t)) \in Nat
  BY <1>1, FS_CardinalityType
<1>3. Cardinality(FailedRuns(t)) = 0
  BY <1>2 DEF MaxFailedRunsBeforeManualReview
<1> QED
  BY <1>1, <1>3, FS_EmptySet

\* Nobody but the one worker moves the task it executes: a reviewer can only
\* reopen a task that is closed.
LEMMA HeldStep ==
    ASSUME OneWorker, IInv, TypeOK', [Next]_vars, TasksAreHeld
    PROVE  TasksAreHeld'
<1> USE HierarchyAssumption, ExecutionAssumption
<1> USE DEF OneWorker, IInv, TypeOK, WorkersOK, RunsOK, TasksAreHeld, Executing, Executable,
           ExecutableStatuses, Verdicts, Atomic, rows, locals, TaskOf
<1>1. ASSUME NEW w \in Workers, NEW t \in Atomic, NEW r \in Runs, CreateRun(w, t, r)
      PROVE  TasksAreHeld'
  BY <1>1 DEF CreateRun, Executable
<1>2. ASSUME NEW w \in Workers, Admit(w)
      PROVE  TasksAreHeld'
  BY <1>2 DEF Admit, MoveTo
<1>3. ASSUME NEW w \in Workers, Refuse(w)
      PROVE  TasksAreHeld'
  BY <1>3 DEF Refuse, Leave
<1>4. ASSUME NEW w \in Workers, StartRun(w)
      PROVE  TasksAreHeld'
  BY <1>4 DEF StartRun, WriteStatus, MoveTo
<1>5. ASSUME NEW w \in Workers, PrepareFails(w)
      PROVE  TasksAreHeld'
  BY <1>5 DEF PrepareFails, Leave
<1>6. ASSUME NEW w \in Workers, EngineSucceeds(w)
      PROVE  TasksAreHeld'
  BY <1>6 DEF EngineSucceeds, MoveTo
<1>7. ASSUME NEW w \in Workers, EngineFails(w)
      PROVE  TasksAreHeld'
  BY <1>7 DEF EngineFails, FailBoth, WriteStatus, MoveTo
<1>8. ASSUME NEW w \in Workers, EngineRejects(w)
      PROVE  TasksAreHeld'
  BY <1>8 DEF EngineRejects, FailBoth, WriteStatus, MoveTo
<1>9. ASSUME NEW w \in Workers, EngineOutage(w)
      PROVE  TasksAreHeld'
  BY <1>9 DEF EngineOutage
<1>10. ASSUME NEW w \in Workers, RecordOutage(w)
      PROVE  TasksAreHeld'
  BY <1>10 DEF RecordOutage, FailBoth, WriteStatus, MoveTo
<1>11. ASSUME NEW w \in Workers, ValidationBreaks(w)
      PROVE  TasksAreHeld'
  BY <1>11 DEF ValidationBreaks, FailAndRaise, FailBoth, WriteStatus, Leave
<1>12. ASSUME NEW w \in Workers, NEW final \in Verdicts, Validate(w, final)
      PROVE  TasksAreHeld'
  BY <1>12 DEF Validate
<1>13. ASSUME NEW w \in Workers, Promote(w)
      PROVE  TasksAreHeld'
  BY <1>13 DEF Promote, MoveTo
<1>14. ASSUME NEW w \in Workers, PromoteFails(w)
      PROVE  TasksAreHeld'
  BY <1>14 DEF PromoteFails, FailAndRaise, FailBoth, WriteStatus, Leave
<1>15. ASSUME NEW w \in Workers, Close(w)
      PROVE  TasksAreHeld'
  BY <1>15 DEF Close, WriteStatus, MoveTo
<1>16. ASSUME NEW w \in Workers, CloseFails(w)
      PROVE  TasksAreHeld'
  BY <1>16 DEF CloseFails, FailAndRaise, FailBoth, WriteStatus, Leave
<1>17. ASSUME NEW w \in Workers, CheckClosed(w)
      PROVE  TasksAreHeld'
  BY <1>17 DEF CheckClosed, MoveTo, Leave
<1>18. ASSUME NEW w \in Workers, ReadHierarchy(w)
      PROVE  TasksAreHeld'
  BY <1>18 DEF ReadHierarchy
<1>19. ASSUME NEW w \in Workers, Consolidate(w)
      PROVE  TasksAreHeld'
  BY <1>19 DEF Consolidate, Leave
<1>20. ASSUME NEW t \in Atomic, Reopen(t)
      PROVE  TasksAreHeld'
  BY <1>20 DEF Reopen, WriteStatus
<1>21. ASSUME Crash
      PROVE  TasksAreHeld'
  BY <1>21 DEF Crash
<1>22. ASSUME UNCHANGED vars
      PROVE  TasksAreHeld'
  BY <1>22 DEF vars
<1> QED
  BY <1>1, <1>2, <1>3, <1>4, <1>5, <1>6, <1>7, <1>8, <1>9, <1>10,
     <1>11, <1>12, <1>13, <1>14, <1>15, <1>16, <1>17, <1>18, <1>19,
     <1>20, <1>21, <1>22
     DEF Next, Start, Continue

\* A retry is decided on a count that no other worker can change before the
\* decision is recorded.
LEMMA CountingStep ==
    ASSUME OneWorker, IInv, TypeOK', [Next]_vars, RetriesAreCounted
    PROVE  RetriesAreCounted'
<1> USE HierarchyAssumption, ExecutionAssumption
<1> USE DEF OneWorker, IInv, TypeOK, WorkersOK, RunsOK, RetriesAreCounted, FailedRuns, rows, locals, TaskOf
<1>1. ASSUME NEW w \in Workers, NEW t \in Atomic, NEW r \in Runs, CreateRun(w, t, r)
      PROVE  RetriesAreCounted'
  BY <1>1 DEF CreateRun, Executable
<1>2. ASSUME NEW w \in Workers, Admit(w)
      PROVE  RetriesAreCounted'
  BY <1>2 DEF Admit, MoveTo
<1>3. ASSUME NEW w \in Workers, Refuse(w)
      PROVE  RetriesAreCounted'
  BY <1>3 DEF Refuse, Leave
<1>4. ASSUME NEW w \in Workers, StartRun(w)
      PROVE  RetriesAreCounted'
  BY <1>4 DEF StartRun, WriteStatus, MoveTo
<1>5. ASSUME NEW w \in Workers, PrepareFails(w)
      PROVE  RetriesAreCounted'
  BY <1>5 DEF PrepareFails, Leave
<1>6. ASSUME NEW w \in Workers, EngineSucceeds(w)
      PROVE  RetriesAreCounted'
  BY <1>6 DEF EngineSucceeds, MoveTo
<1>7. ASSUME NEW w \in Workers, EngineFails(w)
      PROVE  RetriesAreCounted'
  BY <1>7 DEF EngineFails, FailBoth, WriteStatus, MoveTo
<1>8. ASSUME NEW w \in Workers, EngineRejects(w)
      PROVE  RetriesAreCounted'
  BY <1>8 DEF EngineRejects, FailBoth, WriteStatus, MoveTo
<1>9. ASSUME NEW w \in Workers, EngineOutage(w)
      PROVE  RetriesAreCounted'
  <2> HIDE DEF FailedRuns
  <2>1. UNCHANGED <<runTask, runStatus, recovery, run>>
    BY <1>9 DEF EngineOutage
  <2>2. \A t : FailedRuns(t)' = FailedRuns(t)
    BY <2>1 DEF FailedRuns
  <2>3. ASSUME NEW v \in Workers, choice'[v] = "retry_same_task"
        PROVE  FailedRuns(TaskOf(v)) = {}
    <3>1. ~ (Cardinality(FailedRuns(TaskOf(v))) >= MaxFailedRunsBeforeManualReview)
      BY <1>9, <2>3 DEF EngineOutage
    <3> QED
      BY <3>1, UncountedIsNone
  <2> QED
    BY <2>1, <2>2, <2>3
<1>10. ASSUME NEW w \in Workers, RecordOutage(w)
      PROVE  RetriesAreCounted'
  BY <1>10 DEF RecordOutage, FailBoth, WriteStatus, MoveTo
<1>11. ASSUME NEW w \in Workers, ValidationBreaks(w)
      PROVE  RetriesAreCounted'
  BY <1>11 DEF ValidationBreaks, FailAndRaise, FailBoth, WriteStatus, Leave
<1>12. ASSUME NEW w \in Workers, NEW final \in Verdicts, Validate(w, final)
      PROVE  RetriesAreCounted'
  BY <1>12 DEF Validate
<1>13. ASSUME NEW w \in Workers, Promote(w)
      PROVE  RetriesAreCounted'
  BY <1>13 DEF Promote, MoveTo
<1>14. ASSUME NEW w \in Workers, PromoteFails(w)
      PROVE  RetriesAreCounted'
  BY <1>14 DEF PromoteFails, FailAndRaise, FailBoth, WriteStatus, Leave
<1>15. ASSUME NEW w \in Workers, Close(w)
      PROVE  RetriesAreCounted'
  BY <1>15 DEF Close, WriteStatus, MoveTo
<1>16. ASSUME NEW w \in Workers, CloseFails(w)
      PROVE  RetriesAreCounted'
  BY <1>16 DEF CloseFails, FailAndRaise, FailBoth, WriteStatus, Leave
<1>17. ASSUME NEW w \in Workers, CheckClosed(w)
      PROVE  RetriesAreCounted'
  BY <1>17 DEF CheckClosed, MoveTo, Leave
<1>18. ASSUME NEW w \in Workers, ReadHierarchy(w)
      PROVE  RetriesAreCounted'
  BY <1>18 DEF ReadHierarchy
<1>19. ASSUME NEW w \in Workers, Consolidate(w)
      PROVE  RetriesAreCounted'
  BY <1>19 DEF Consolidate, Leave
<1>20. ASSUME NEW t \in Atomic, Reopen(t)
      PROVE  RetriesAreCounted'
  BY <1>20 DEF Reopen, WriteStatus
<1>21. ASSUME Crash
      PROVE  RetriesAreCounted'
  BY <1>21 DEF Crash
<1>22. ASSUME UNCHANGED vars
      PROVE  RetriesAreCounted'
  BY <1>22 DEF vars
<1> QED
  BY <1>1, <1>2, <1>3, <1>4, <1>5, <1>6, <1>7, <1>8, <1>9, <1>10,
     <1>11, <1>12, <1>13, <1>14, <1>15, <1>16, <1>17, <1>18, <1>19,
     <1>20, <1>21, <1>22
     DEF Next, Start, Continue

\* The run a retry is recorded on is the only failed run of its task.
LEMMA RetryStep ==
    ASSUME IInv, TypeOK', [Next]_vars, RetriesAreCounted, OneRetryPerTask
    PROVE  OneRetryPerTask'
<1> USE HierarchyAssumption, ExecutionAssumption
<1> USE DEF IInv, TypeOK, WorkersOK, RunsOK, RetriesAreCounted, OneRetryPerTask, FailedRuns, rows, locals, TaskOf
<1>1. ASSUME NEW w \in Workers, NEW t \in Atomic, NEW r \in Runs, CreateRun(w, t, r)
      PROVE  OneRetryPerTask'
  BY <1>1 DEF CreateRun, Executable
<1>2. ASSUME NEW w \in Workers, Admit(w)
      PROVE  OneRetryPerTask'
  BY <1>2 DEF Admit, MoveTo
<1>3. ASSUME NEW w \in Workers, Refuse(w)
      PROVE  OneRetryPerTask'
  BY <1>3 DEF Refuse, Leave
<1>4. ASSUME NEW w \in Workers, StartRun(w)
      PROVE  OneRetryPerTask'
  BY <1>4 DEF StartRun, WriteStatus, MoveTo
<1>5. ASSUME NEW w \in Workers, PrepareFails(w)
      PROVE  OneRetryPerTask'
  BY <1>5 DEF PrepareFails, Leave
<1>6. ASSUME NEW w \in Workers, EngineSucceeds(w)
      PROVE  OneRetryPerTask'
  BY <1>6 DEF EngineSucceeds, MoveTo
<1>7. ASSUME NEW w \in Workers, EngineFails(w)
      PROVE  OneRetryPerTask'
  BY <1>7 DEF EngineFails, FailBoth, WriteStatus, MoveTo
<1>8. ASSUME NEW w \in Workers, EngineRejects(w)
      PROVE  OneRetryPerTask'
  BY <1>8 DEF EngineRejects, FailBoth, WriteStatus, MoveTo
<1>9. ASSUME NEW w \in Workers, EngineOutage(w)
      PROVE  OneRetryPerTask'
  BY <1>9 DEF EngineOutage
<1>10. ASSUME NEW w \in Workers, RecordOutage(w)
      PROVE  OneRetryPerTask'
  BY <1>10 DEF RecordOutage, FailBoth, WriteStatus, MoveTo
<1>11. ASSUME NEW w \in Workers, ValidationBreaks(w)
      PROVE  OneRetryPerTask'
  BY <1>11 DEF ValidationBreaks, FailAndRaise, FailBoth, WriteStatus, Leave
<1>12. ASSUME NEW w \in Workers, NEW final \in Verdicts, Validate(w, final)
      PROVE  OneRetryPerTask'
  BY <1>12 DEF Validate
<1>13. ASSUME NEW w \in Workers, Promote(w)
      PROVE  OneRetryPerTask'
  BY <1>13 DEF Promote, MoveTo
<1>14. ASSUME NEW w \in Workers, PromoteFails(w)
      PROVE  OneRetryPerTask'
  BY <1>14 DEF PromoteFails, FailAndRaise, FailBoth, WriteStatus, Leave
<1>15. ASSUME NEW w \in Workers, Close(w)
      PROVE  OneRetryPerTask'
  BY <1>15 DEF Close, WriteStatus, MoveTo
<1>16. ASSUME NEW w \in Workers, CloseFails(w)
      PROVE  OneRetryPerTask'
  BY <1>16 DEF CloseFails, FailAndRaise, FailBoth, WriteStatus, Leave
<1>17. ASSUME NEW w \in Workers, CheckClosed(w)
      PROVE  OneRetryPerTask'
  BY <1>17 DEF CheckClosed, MoveTo, Leave
<1>18. ASSUME NEW w \in Workers, ReadHierarchy(w)
      PROVE  OneRetryPerTask'
  BY <1>18 DEF ReadHierarchy
<1>19. ASSUME NEW w \in Workers, Consolidate(w)
      PROVE  OneRetryPerTask'
  BY <1>19 DEF Consolidate, Leave
<1>20. ASSUME NEW t \in Atomic, Reopen(t)
      PROVE  OneRetryPerTask'
  BY <1>20 DEF Reopen, WriteStatus
<1>21. ASSUME Crash
      PROVE  OneRetryPerTask'
  BY <1>21 DEF Crash
<1>22. ASSUME UNCHANGED vars
      PROVE  OneRetryPerTask'
  BY <1>22 DEF vars
<1> QED
  BY <1>1, <1>2, <1>3, <1>4, <1>5, <1>6, <1>7, <1>8, <1>9, <1>10,
     <1>11, <1>12, <1>13, <1>14, <1>15, <1>16, <1>17, <1>18, <1>19,
     <1>20, <1>21, <1>22
     DEF Next, Start, Continue

----------------------------------------------------------------------------
(* One worker: the parents.                                                *)

\* A parent is on a higher level than its child.
LEMMA ParentIsAbove ==
    ASSUME NEW t \in Tasks, ParentOf[t] # NoTask
    PROVE  /\ ParentOf[t] \in Tasks
           /\ \/ Level[t] = "atomic" /\ Level[ParentOf[t]] \in {"refined", "high_level"}
              \/ Level[t] = "refined" /\ Level[ParentOf[t]] = "high_level"
<1>1. Level[ParentOf[t]] \in LevelsAbove(Level[t])
  BY HierarchyAssumption
<1>2. Level[t] \in {"atomic", "refined", "high_level"}
  BY HierarchyAssumption DEF PlanningLevels
<1>3. ParentOf[t] \in Tasks
  BY HierarchyAssumption
<1> QED
  BY <1>1, <1>2, <1>3 DEF LevelsAbove

\* Whether a row follows its children depends on these rows only.
LEMMA ConsolidatedIsLocal ==
    ASSUME NEW st, NEW new, NEW p, new[p] = st[p],
           \A c \in Children(p) : new[c] = st[c], Consolidated(st, p)
    PROVE  Consolidated(new, p)
<1>1. {new[c] : c \in Children(p)} = {st[c] : c \in Children(p)}
  OBVIOUS
<1> QED
  BY <1>1 DEF Consolidated

\* Consolidating one parent settles it and writes no other row.
LEMMA ConsolidateOneEffect ==
    ASSUME NEW st \in [Tasks -> TaskStatuses], NEW p \in Tasks
    PROVE  /\ \A q \in Tasks : q # p => ConsolidateOne(st, p)[q] = st[q]
           /\ Consolidated(ConsolidateOne(st, p), p)
<1> DEFINE new == ConsolidateOne(st, p)
<1>1. CASE Children(p) = {}
  BY <1>1 DEF ConsolidateOne, Consolidated
<1>2. CASE Children(p) # {}
  <2>1. new = [st EXCEPT ![p] = DerivedStatus({st[c] : c \in Children(p)})]
    BY <1>2 DEF ConsolidateOne
  <2>2. \A q \in Tasks : q # p => new[q] = st[q]
    BY <2>1
  <2>3. \A c \in Children(p) : c \in Tasks /\ c # p
    BY ParentIsAbove, HierarchyAssumption DEF Children
  <2>4. {new[c] : c \in Children(p)} = {st[c] : c \in Children(p)}
    BY <2>2, <2>3
  <2>5. new[p] = DerivedStatus({st[c] : c \in Children(p)})
    BY <2>1
  <2> QED
    BY <2>2, <2>4, <2>5 DEF Consolidated
<1> QED
  BY <1>1, <1>2

\* The walk up from a row settles its ancestors, and no other row sees a
\* difference in itself or below.
LEMMA ConsolidateFromEffect ==
    ASSUME NEW st \in [Tasks -> TaskStatuses], NEW t \in Tasks, NEW p \in Tasks
    PROVE  LET new == ConsolidateFrom(st, ParentOf[t])
           IN  IF t \in Descendants(p)
               THEN Consolidated(new, p)
               ELSE new[p] = st[p] /\ \A c \in Children(p) : new[c] = st[c]
<1> DEFINE up  == ParentOf[t]
           new == ConsolidateFrom(st, up)
<1>d. t \in Descendants(p) <=> \/ up = p
                               \/ up # NoTask /\ ParentOf[up] = p
  BY DEF Descendants
<1>0. up \in Tasks \cup {NoTask} /\ NoTask \notin Tasks
  BY HierarchyAssumption
<1>c. \A c \in Children(p) : c \in Tasks /\ ParentOf[c] = p
  BY DEF Children
<1>1. CASE up = NoTask
  <2>1. new = st
    BY <1>1 DEF ConsolidateFrom
  <2> QED
    BY <1>1, <1>0, <1>d, <2>1
<1>2. CASE up # NoTask /\ ParentOf[up] = NoTask
  <2>1. new = ConsolidateOne(st, up) /\ up \in Tasks
    BY <1>2, <1>0 DEF ConsolidateFrom
  <2>2. /\ \A q \in Tasks : q # up => new[q] = st[q]
        /\ Consolidated(new, up)
    BY <2>1, ConsolidateOneEffect
  <2>3. CASE p = up
    BY <1>d, <2>2, <2>3
  <2>4. CASE p # up
    <3>1. t \notin Descendants(p)
      BY <1>2, <1>0, <1>d, <2>4
    <3>2. \A c \in Children(p) : c # up
      BY <1>2, <1>c, <1>0
    <3> QED
      BY <3>1, <3>2, <1>c, <2>2, <2>4
  <2> QED
    BY <2>3, <2>4
<1>3. CASE up # NoTask /\ ParentOf[up] # NoTask
  <2> DEFINE own == ConsolidateOne(st, up)
             top == ParentOf[up]
  <2>0. up \in Tasks /\ top \in Tasks
    BY <1>3, <1>0, HierarchyAssumption
  <2>1. new = ConsolidateOne(own, top)
    BY <1>3 DEF ConsolidateFrom
  <2>2. own \in [Tasks -> TaskStatuses]
    BY <2>0, ConsolidateOneFrame
  <2>3. /\ \A q \in Tasks : q # up => own[q] = st[q]
        /\ Consolidated(own, up)
    BY <2>0, ConsolidateOneEffect
  <2> HIDE DEF own
  <2>4. /\ \A q \in Tasks : q # top => new[q] = own[q]
        /\ Consolidated(new, top)
    BY <2>0, <2>1, <2>2, ConsolidateOneEffect
  <2>5. ParentOf[top] = NoTask /\ Level[top] = "high_level" /\ Level[up] = "refined"
    BY <1>3, <2>0, ParentIsAbove
  <2> HIDE DEF new
  <2>6. CASE p = top
    BY <1>3, <1>d, <2>4, <2>6 DEF new
  <2>7. CASE p = up
    <3>1. \A c \in Children(up) : c # top /\ c \in Tasks
      BY <2>0, <2>5, <2>7, <1>c, <1>0
    <3>2. up # top
      BY <2>5
    <3>3. Consolidated(new, up)
      BY <3>1, <3>2, <2>0, <2>3, <2>4, ConsolidatedIsLocal
    <3> QED
      BY <3>3, <1>d, <2>7 DEF new
  <2>8. CASE p # top /\ p # up
    <3>1. t \notin Descendants(p)
      BY <1>d, <2>8
    <3>2. \A c \in Children(p) : c # up /\ c # top
      BY <1>c, <2>5, <2>8, <1>0
    <3>3. new[p] = st[p] /\ \A c \in Children(p) : new[c] = st[c]
      BY <3>2, <1>c, <2>3, <2>4, <2>8
    <3> QED
      BY <3>1, <3>3 DEF new
  <2> QED
    BY <2>6, <2>7, <2>8
<1> QED
  BY <1>0, <1>1, <1>2, <1>3

\* Writing an atomic task marks it stale, and a parent that is not above it
\* does not see the write.
LEMMA WriteKeepsParents ==
    ASSUME TypeOK, ParentsFollowChildren,
           NEW t \in Atomic, NEW s \in TaskStatuses, WriteStatus(t, s)
    PROVE  ParentsFollowChildren'
<1> USE HierarchyAssumption DEF TypeOK, Groups, Atomic
<1> SUFFICES ASSUME NEW p \in Groups, \A u \in Descendants(p) : stale'[u] = "no"
             PROVE  Consolidated(status', p)
  BY DEF ParentsFollowChildren, Consolidated
<1>1. \A u \in Tasks : u # t => status'[u] = status[u] /\ stale'[u] = stale[u]
  BY DEF WriteStatus
<1>2. stale'[t] = "yes"
  BY DEF WriteStatus
<1>3. t \notin Descendants(p)
  BY <1>2
<1>4. \A u \in Descendants(p) : u \in Tasks /\ stale[u] = "no"
  BY <1>1, <1>3 DEF Descendants
<1>5. Consolidated(status, p)
  BY <1>4 DEF ParentsFollowChildren
<1>6. \A c \in Children(p) : status'[c] = status[c]
  BY <1>1, <1>3 DEF Children, Descendants
<1>7. status'[p] = status[p]
  BY <1>1
<1> QED
  BY <1>5, <1>6, <1>7, ConsolidatedIsLocal

\* A step that writes no status, and settles nothing, disturbs no parent.
LEMMA QuietKeepsParents ==
    ASSUME ParentsFollowChildren, UNCHANGED status,
           \A u \in Tasks : stale'[u] = "no" => stale[u] = "no"
    PROVE  ParentsFollowChildren'
<1> SUFFICES ASSUME NEW p \in Groups, \A u \in Descendants(p) : stale'[u] = "no"
             PROVE  Consolidated(status', p)
  BY DEF ParentsFollowChildren, Consolidated
<1>1. \A u \in Descendants(p) : stale[u] = "no"
  BY DEF Descendants
<1>2. Consolidated(status, p)
  BY <1>1 DEF ParentsFollowChildren
<1> QED
  BY <1>2, ConsolidatedIsLocal

\* A parent nothing was written below since its last consolidation follows its
\* children after every step.
LEMMA ParentsStep ==
    ASSUME IInv, [Next]_vars, ViewsAreCurrent, ParentsFollowChildren
    PROVE  ParentsFollowChildren'
<1> USE HierarchyAssumption, ExecutionAssumption
<1> USE DEF IInv, TypeOK, WorkersOK, ParentsFollowChildren, rows, locals
<1>w. /\ Verdicts \subseteq TaskStatuses
      /\ {"pending", "running", "failed"} \subseteq TaskStatuses
      /\ \A w \in Workers : pc[w] # "idle" => TaskOf(w) \in Atomic
  BY DEF TaskStatuses, TerminalStatuses, Verdicts
<1>d. \A p : Descendants(p) \subseteq Tasks
  BY DEF Descendants
<1>1. ASSUME NEW w \in Workers, NEW t \in Atomic, NEW r \in Runs, CreateRun(w, t, r)
      PROVE  ParentsFollowChildren'
  BY <1>1, QuietKeepsParents DEF CreateRun, Executable
<1>2. ASSUME NEW w \in Workers, Admit(w)
      PROVE  ParentsFollowChildren'
  BY <1>2, QuietKeepsParents DEF Admit, MoveTo
<1>3. ASSUME NEW w \in Workers, Refuse(w)
      PROVE  ParentsFollowChildren'
  BY <1>3, QuietKeepsParents DEF Refuse, Leave
<1>4. ASSUME NEW w \in Workers, StartRun(w)
      PROVE  ParentsFollowChildren'
  <2>1. TaskOf(w) \in Atomic /\ \E s \in TaskStatuses : WriteStatus(TaskOf(w), s)
    BY <1>4, <1>w DEF StartRun, MoveTo
  <2> QED
    BY <2>1, WriteKeepsParents
<1>5. ASSUME NEW w \in Workers, PrepareFails(w)
      PROVE  ParentsFollowChildren'
  BY <1>5, QuietKeepsParents DEF PrepareFails, Leave
<1>6. ASSUME NEW w \in Workers, EngineSucceeds(w)
      PROVE  ParentsFollowChildren'
  BY <1>6, QuietKeepsParents DEF EngineSucceeds, MoveTo
<1>7. ASSUME NEW w \in Workers, EngineFails(w)
      PROVE  ParentsFollowChildren'
  <2>1. TaskOf(w) \in Atomic /\ \E s \in TaskStatuses : WriteStatus(TaskOf(w), s)
    BY <1>7, <1>w DEF EngineFails, FailBoth, MoveTo
  <2> QED
    BY <2>1, WriteKeepsParents
<1>8. ASSUME NEW w \in Workers, EngineRejects(w)
      PROVE  ParentsFollowChildren'
  <2>1. TaskOf(w) \in Atomic /\ \E s \in TaskStatuses : WriteStatus(TaskOf(w), s)
    BY <1>8, <1>w DEF EngineRejects, FailBoth, MoveTo
  <2> QED
    BY <2>1, WriteKeepsParents
<1>9. ASSUME NEW w \in Workers, EngineOutage(w)
      PROVE  ParentsFollowChildren'
  BY <1>9, QuietKeepsParents DEF EngineOutage
<1>10. ASSUME NEW w \in Workers, RecordOutage(w)
      PROVE  ParentsFollowChildren'
  <2>1. TaskOf(w) \in Atomic /\ \E s \in TaskStatuses : WriteStatus(TaskOf(w), s)
    BY <1>10, <1>w DEF RecordOutage, FailBoth, MoveTo
  <2> QED
    BY <2>1, WriteKeepsParents
<1>11. ASSUME NEW w \in Workers, ValidationBreaks(w)
      PROVE  ParentsFollowChildren'
  <2>1. TaskOf(w) \in Atomic /\ \E s \in TaskStatuses : WriteStatus(TaskOf(w), s)
    BY <1>11, <1>w DEF ValidationBreaks, FailAndRaise, FailBoth, Leave
  <2> QED
    BY <2>1, WriteKeepsParents
<1>12. ASSUME NEW w \in Workers, NEW final \in Verdicts, Validate(w, final)
      PROVE  ParentsFollowChildren'
  BY <1>12, QuietKeepsParents DEF Validate
<1>13. ASSUME NEW w \in Workers, Promote(w)
      PROVE  ParentsFollowChildren'
  BY <1>13, QuietKeepsParents DEF Promote, MoveTo
<1>14. ASSUME NEW w \in Workers, PromoteFails(w)
      PROVE  ParentsFollowChildren'
  <2>1. TaskOf(w) \in Atomic /\ \E s \in TaskStatuses : WriteStatus(TaskOf(w), s)
    BY <1>14, <1>w DEF PromoteFails, FailAndRaise, FailBoth, Leave
  <2> QED
    BY <2>1, WriteKeepsParents
<1>15. ASSUME NEW w \in Workers, Close(w)
      PROVE  ParentsFollowChildren'
  <2>1. TaskOf(w) \in Atomic /\ \E s \in TaskStatuses : WriteStatus(TaskOf(w), s)
    BY <1>15, <1>w DEF Close, MoveTo
  <2> QED
    BY <2>1, WriteKeepsParents
<1>16. ASSUME NEW w \in Workers, CloseFails(w)
      PROVE  ParentsFollowChildren'
  <2>1. TaskOf(w) \in Atomic /\ \E s \in TaskStatuses : WriteStatus(TaskOf(w), s)
    BY <1>16, <1>w DEF CloseFails, FailAndRaise, FailBoth, Leave
  <2> QED
    BY <2>1, WriteKeepsParents
<1>17. ASSUME NEW w \in Workers, CheckClosed(w)
      PROVE  ParentsFollowChildren'
  BY <1>17, QuietKeepsParents DEF CheckClosed, MoveTo, Leave
<1>18. ASSUME NEW w \in Workers, ReadHierarchy(w)
      PROVE  ParentsFollowChildren'
  <2>1. UNCHANGED status /\ \A u \in Tasks : stale'[u] = "no" => stale[u] = "no"
    BY <1>18 DEF ReadHierarchy
  <2> QED
    BY <2>1, QuietKeepsParents
<1>19. ASSUME NEW w \in Workers, Consolidate(w)
      PROVE  ParentsFollowChildren'
  <2>1. status' = Landed(w)
    BY <1>19 DEF Consolidate, Landed
  <2>2. \A u \in Tasks : stale'[u] = "no" =>
                          \/ stale[u] = "no"
                          \/ stale[u] = "read" /\ Sibling(u, TaskOf(w))
    BY <1>19 DEF Consolidate
  <2>3. pc[w] = "consolidating"
    BY <1>19 DEF Consolidate
  <2> SUFFICES ASSUME NEW p \in Groups, \A u \in Descendants(p) : stale'[u] = "no"
               PROVE  Consolidated(status', p)
    BY DEF Consolidated
  <2>4. Consolidated(Landed(w), p)
    BY <2>2, <2>3, <1>d DEF ViewsAreCurrent
  <2> QED
    BY <2>1, <2>4
<1>20. ASSUME NEW t \in Atomic, Reopen(t)
      PROVE  ParentsFollowChildren'
  BY <1>20, <1>w, WriteKeepsParents DEF Reopen
<1>21. ASSUME Crash
      PROVE  ParentsFollowChildren'
  BY <1>21, QuietKeepsParents DEF Crash
<1>22. ASSUME UNCHANGED vars
      PROVE  ParentsFollowChildren'
  BY <1>22, QuietKeepsParents DEF vars
<1> QED
  BY <1>1, <1>2, <1>3, <1>4, <1>5, <1>6, <1>7, <1>8, <1>9, <1>10,
     <1>11, <1>12, <1>13, <1>14, <1>15, <1>16, <1>17, <1>18, <1>19,
     <1>20, <1>21, <1>22
     DEF Next, Start, Continue

\* What the walk up from a task derives settles every parent below which only
\* the task and its siblings were written.
LEMMA ReadSettles ==
    ASSUME TypeOK, ParentsFollowChildren, NEW t \in Tasks, NEW p \in Groups,
           \A u \in Descendants(p) : stale[u] = "no" \/ Sibling(u, t)
    PROVE  Consolidated(ConsolidateFrom(status, ParentOf[t]), p)
<1> DEFINE derived == ConsolidateFrom(status, ParentOf[t])
<1>1. IF t \in Descendants(p)
      THEN Consolidated(derived, p)
      ELSE derived[p] = status[p] /\ \A c \in Children(p) : derived[c] = status[c]
  BY ConsolidateFromEffect DEF TypeOK, Groups
<1> HIDE DEF derived
<1>2. CASE t \in Descendants(p)
  BY <1>1, <1>2 DEF derived
<1>3. CASE t \notin Descendants(p)
  <2>1. \A u \in Descendants(p) : ~ Sibling(u, t)
    BY <1>3, HierarchyAssumption DEF Descendants, Sibling, Groups
  <2>2. Consolidated(status, p)
    BY <2>1 DEF ParentsFollowChildren
  <2>3. Consolidated(derived, p)
    BY <1>1, <1>3, <2>2, ConsolidatedIsLocal
  <2> QED
    BY <2>3 DEF derived
<1> QED
  BY <1>2, <1>3

\* The parents a worker is about to write are derived from rows nobody else
\* writes before it; a task reopened in between is marked stale.
LEMMA ViewsStep ==
    ASSUME OneWorker, IInv, TypeOK', [Next]_vars, ViewsAreCurrent, ParentsFollowChildren
    PROVE  ViewsAreCurrent'
<1> USE HierarchyAssumption, ExecutionAssumption
<1> USE DEF OneWorker, IInv, TypeOK, WorkersOK, rows, locals, TaskOf
<1>n. ASSUME \A w \in Workers : pc'[w] # "consolidating"
      PROVE  ViewsAreCurrent'
  BY <1>n DEF ViewsAreCurrent
<1>1. ASSUME NEW w \in Workers, NEW t \in Atomic, NEW r \in Runs, CreateRun(w, t, r)
      PROVE  ViewsAreCurrent'
  BY <1>1, <1>n DEF CreateRun, Executable
<1>2. ASSUME NEW w \in Workers, Admit(w)
      PROVE  ViewsAreCurrent'
  BY <1>2, <1>n DEF Admit, MoveTo
<1>3. ASSUME NEW w \in Workers, Refuse(w)
      PROVE  ViewsAreCurrent'
  BY <1>3, <1>n DEF Refuse, Leave
<1>4. ASSUME NEW w \in Workers, StartRun(w)
      PROVE  ViewsAreCurrent'
  BY <1>4, <1>n DEF StartRun, WriteStatus, MoveTo
<1>5. ASSUME NEW w \in Workers, PrepareFails(w)
      PROVE  ViewsAreCurrent'
  BY <1>5, <1>n DEF PrepareFails, Leave
<1>6. ASSUME NEW w \in Workers, EngineSucceeds(w)
      PROVE  ViewsAreCurrent'
  BY <1>6, <1>n DEF EngineSucceeds, MoveTo
<1>7. ASSUME NEW w \in Workers, EngineFails(w)
      PROVE  ViewsAreCurrent'
  BY <1>7, <1>n DEF EngineFails, FailBoth, WriteStatus, MoveTo
<1>8. ASSUME NEW w \in Workers, EngineRejects(w)
      PROVE  ViewsAreCurrent'
  BY <1>8, <1>n DEF EngineRejects, FailBoth, WriteStatus, MoveTo
<1>9. ASSUME NEW w \in Workers, EngineOutage(w)
      PROVE  ViewsAreCurrent'
  BY <1>9, <1>n DEF EngineOutage
<1>10. ASSUME NEW w \in Workers, RecordOutage(w)
      PROVE  ViewsAreCurrent'
  BY <1>10, <1>n DEF RecordOutage, FailBoth, WriteStatus, MoveTo
<1>11. ASSUME NEW w \in Workers, ValidationBreaks(w)
      PROVE  ViewsAreCurrent'
  BY <1>11, <1>n DEF ValidationBreaks, FailAndRaise, FailBoth, WriteStatus, Leave
<1>12. ASSUME NEW w \in Workers, NEW final \in Verdicts, Validate(w, final)
      PROVE  ViewsAreCurrent'
  BY <1>12, <1>n DEF Validate
<1>13. ASSUME NEW w \in Workers, Promote(w)
      PROVE  ViewsAreCurrent'
  BY <1>13, <1>n DEF Promote, MoveTo
<1>14. ASSUME NEW w \in Workers, PromoteFails(w)
      PROVE  ViewsAreCurrent'
  BY <1>14, <1>n DEF PromoteFails, FailAndRaise, FailBoth, WriteStatus, Leave
<1>15. ASSUME NEW w \in Workers, Close(w)
      PROVE  ViewsAreCurrent'
  BY <1>15, <1>n DEF Close, WriteStatus, MoveTo
<1>16. ASSUME NEW w \in Workers, CloseFails(w)
      PROVE  ViewsAreCurrent'
  BY <1>16, <1>n DEF CloseFails, FailAndRaise, FailBoth, WriteStatus, Leave
<1>17. ASSUME NEW w \in Workers, CheckClosed(w)
      PROVE  ViewsAreCurrent'
  BY <1>17, <1>n DEF CheckClosed, MoveTo, Leave
<1>18. ASSUME NEW w \in Workers, ReadHierarchy(w)
      PROVE  ViewsAreCurrent'
  <2> DEFINE derived == ConsolidateFrom(status, ParentOf[TaskOf(w)])
  <2>0. TaskOf(w) \in Atomic /\ TaskOf(w)' = TaskOf(w)
    BY <1>18 DEF ReadHierarchy
  <2>t. TaskOf(w) \in Tasks /\ ParentOf[TaskOf(w)] \in Tasks \cup {NoTask}
    BY <2>0 DEF Atomic
  <2>1. derived \in [Tasks -> TaskStatuses]
    BY <2>t, ConsolidateFromFrame
  <2>2. Landed(w)' = derived
    <3> HIDE DEF derived
    <3>1. view'[w] = [t \in Tasks |-> IF derived[t] = status[t] THEN "unchanged"
                                      ELSE derived[t]]
      BY <1>18 DEF ReadHierarchy, derived
    <3>2. "unchanged" \notin TaskStatuses
      BY DEF TaskStatuses, TerminalStatuses
    <3>3. \A t \in Tasks : Landed(w)'[t] = derived[t]
      BY <1>18, <2>1, <3>1, <3>2 DEF ReadHierarchy, Landed
    <3> QED
      BY <2>1, <3>3 DEF Landed
  <2> SUFFICES ASSUME NEW v \in Workers, NEW p \in Groups,
                      (\A u \in Descendants(p) :
                         \/ stale[u] = "no"
                         \/ stale[u] = "read" /\ Sibling(u, TaskOf(v)))'
               PROVE  Consolidated(Landed(v), p)'
    BY DEF ViewsAreCurrent
  <2>3. v = w
    OBVIOUS
  <2>4. \A u \in Descendants(p) : stale[u] = "no" \/ Sibling(u, TaskOf(w))
    BY <1>18, <2>0, <2>3 DEF ReadHierarchy, Descendants, Sibling
  <2>5. Consolidated(derived, p)
    BY <2>t, <2>4, ReadSettles
  <2> HIDE DEF derived, Landed, TaskOf
  <2> QED
    BY <2>2, <2>3, <2>5 DEF Consolidated
<1>19. ASSUME NEW w \in Workers, Consolidate(w)
      PROVE  ViewsAreCurrent'
  BY <1>19, <1>n DEF Consolidate, Leave
<1>20. ASSUME NEW t \in Atomic, Reopen(t)
      PROVE  ViewsAreCurrent'
  <2> SUFFICES ASSUME NEW w \in Workers, pc[w] = "consolidating", NEW p \in Groups,
                      \A u \in Descendants(p) :
                         \/ stale'[u] = "no"
                         \/ stale'[u] = "read" /\ Sibling(u, TaskOf(w))
               PROVE  Consolidated(Landed(w)', p)
    BY <1>20 DEF Reopen, ViewsAreCurrent, Consolidated
  <2>1. \A u \in Tasks : u # t => status'[u] = status[u] /\ stale'[u] = stale[u]
    BY <1>20 DEF Reopen, WriteStatus
  <2>2. stale'[t] = "yes" /\ view' = view
    BY <1>20 DEF Reopen, WriteStatus, Atomic
  <2>3. t \notin Descendants(p) /\ t # p
    BY <2>2 DEF Groups
  <2>4. \A u \in Tasks : u # t => Landed(w)'[u] = Landed(w)[u]
    BY <2>1, <2>2 DEF Landed
  <2>5. Consolidated(Landed(w), p)
    BY <2>1, <2>3 DEF ViewsAreCurrent, Descendants
  <2>6. /\ Landed(w)'[p] = Landed(w)[p]
        /\ \A c \in Children(p) : Landed(w)'[c] = Landed(w)[c]
    BY <2>3, <2>4 DEF Groups, Children, Descendants
  <2> HIDE DEF Landed
  <2> QED
    BY <2>5, <2>6, ConsolidatedIsLocal
<1>21. ASSUME Crash
      PROVE  ViewsAreCurrent'
  BY <1>21 DEF Crash, ViewsAreCurrent
<1>22. ASSUME UNCHANGED vars
      PROVE  ViewsAreCurrent'
  <2> SUFFICES ASSUME NEW w \in Workers, pc[w] = "consolidating", NEW p \in Groups,
                      \A u \in Descendants(p) :
                         \/ stale[u] = "no"
                         \/ stale[u] = "read" /\ Sibling(u, TaskOf(w))
               PROVE  Consolidated(Landed(w)', p)
    BY <1>22 DEF vars, ViewsAreCurrent, Consolidated, Sibling
  <2>1. Consolidated(Landed(w), p)
    BY DEF ViewsAreCurrent
  <2>2. Landed(w)' = Landed(w)
    BY <1>22 DEF vars, Landed
  <2> QED
    BY <2>1, <2>2
<1> QED
  BY <1>1, <1>2, <1>3, <1>4, <1>5, <1>6, <1>7, <1>8, <1>9, <1>10,
     <1>11, <1>12, <1>13, <1>14, <1>15, <1>16, <1>17, <1>18, <1>19,
     <1>20, <1>21, <1>22
     DEF Next, Start, Continue

----------------------------------------------------------------------------
(* One worker: the refinement of the lifecycle.                            *)

\* The status of an atomic task is written for the abstract task.
LEMMA WriteIsVisible ==
    ASSUME TypeOK, NEW t \in Atomic, NEW s, WriteStatus(t, s)
    PROVE  [u \in Atomic |-> status'[u]] = [[u \in Atomic |-> status[u]] EXCEPT ![t] = s]
<1>1. \A u \in Atomic : status'[u] = IF u = t THEN s ELSE status[u]
  BY DEF TypeOK, Atomic, WriteStatus
<1> QED
  BY <1>1

\* A step that writes no status, no run's task and no file is a stutter.
LEMMA QuietIsStutter ==
    ASSUME UNCHANGED <<status, runTask, promoted>>
    PROVE  UNCHANGED Lifecycle!vars
BY DEF Lifecycle!vars

\* A failure closes the task the worker executes.
LEMMA FailureIsSettled ==
    ASSUME IInv, TasksAreHeld, NEW w \in Workers, Executing(w),
           NEW runState, NEW action, FailBoth(w, runState, action), UNCHANGED promoted
    PROVE  Lifecycle!Next
<1>1. TaskOf(w) \in Atomic /\ status[TaskOf(w)] = "running"
  BY DEF IInv, WorkersOK, TasksAreHeld, Executing
<1>2. Lifecycle!Settle(TaskOf(w), "failed")
  BY <1>1, WriteIsVisible DEF IInv, FailBoth, Lifecycle!Settle
<1> QED
  BY <1>1, <1>2 DEF Lifecycle!Next, Lifecycle!Results

\* Every step of an attempt is a step of the lifecycle or a stutter.
LEMMA LifecycleStep ==
    ASSUME IInv, TasksAreHeld, [Next]_vars
    PROVE  [Lifecycle!Next]_(Lifecycle!vars)
<1> USE DEF IInv, TypeOK, WorkersOK, rows, locals
<1>1. ASSUME NEW w \in Workers, NEW t \in Atomic, NEW r \in Runs, CreateRun(w, t, r)
      PROVE  [Lifecycle!Next]_(Lifecycle!vars)
  <2>1. r \notin promoted
    BY <1>1 DEF CreateRun, RunsOK, Untouched
  <2>2. {runTask'[s] : s \in promoted} = {runTask[s] : s \in promoted}
    BY <1>1, <2>1 DEF CreateRun
  <2> QED
    BY <1>1, <2>2 DEF CreateRun, Lifecycle!vars
<1>2. ASSUME NEW w \in Workers, Admit(w)
      PROVE  [Lifecycle!Next]_(Lifecycle!vars)
  BY <1>2, QuietIsStutter DEF Admit, MoveTo
<1>3. ASSUME NEW w \in Workers, Refuse(w)
      PROVE  [Lifecycle!Next]_(Lifecycle!vars)
  BY <1>3, QuietIsStutter DEF Refuse, Leave
<1>4. ASSUME NEW w \in Workers, StartRun(w)
      PROVE  [Lifecycle!Next]_(Lifecycle!vars)
  <2>1. TaskOf(w) \in Atomic
    BY <1>4 DEF StartRun
  <2>2. PICK t \in Atomic : t = TaskOf(w)
    BY <2>1
  <2>3. Lifecycle!Begin(t)
    BY <1>4, <2>2, WriteIsVisible
       DEF StartRun, TasksAreHeld, Executable, ExecutableStatuses, Lifecycle!Begin
  <2> QED
    BY <2>3 DEF Lifecycle!Next
<1>5. ASSUME NEW w \in Workers, PrepareFails(w)
      PROVE  [Lifecycle!Next]_(Lifecycle!vars)
  BY <1>5, QuietIsStutter DEF PrepareFails, Leave
<1>6. ASSUME NEW w \in Workers, EngineSucceeds(w)
      PROVE  [Lifecycle!Next]_(Lifecycle!vars)
  BY <1>6, QuietIsStutter DEF EngineSucceeds, MoveTo
<1>7. ASSUME NEW w \in Workers, EngineFails(w)
      PROVE  [Lifecycle!Next]_(Lifecycle!vars)
  BY <1>7, FailureIsSettled DEF EngineFails, Executing
<1>8. ASSUME NEW w \in Workers, EngineRejects(w)
      PROVE  [Lifecycle!Next]_(Lifecycle!vars)
  BY <1>8, FailureIsSettled DEF EngineRejects, Executing
<1>9. ASSUME NEW w \in Workers, EngineOutage(w)
      PROVE  [Lifecycle!Next]_(Lifecycle!vars)
  BY <1>9, QuietIsStutter DEF EngineOutage
<1>10. ASSUME NEW w \in Workers, RecordOutage(w)
      PROVE  [Lifecycle!Next]_(Lifecycle!vars)
  BY <1>10, FailureIsSettled DEF RecordOutage, Executing
<1>11. ASSUME NEW w \in Workers, ValidationBreaks(w)
      PROVE  [Lifecycle!Next]_(Lifecycle!vars)
  BY <1>11, FailureIsSettled DEF ValidationBreaks, FailAndRaise, Executing
<1>12. ASSUME NEW w \in Workers, NEW final \in Verdicts, Validate(w, final)
      PROVE  [Lifecycle!Next]_(Lifecycle!vars)
  BY <1>12, QuietIsStutter DEF Validate
<1>13. ASSUME NEW w \in Workers, Promote(w)
      PROVE  [Lifecycle!Next]_(Lifecycle!vars)
  <2>1. TaskOf(w) \in Atomic
    BY <1>13 DEF Promote
  <2>2. PICK t \in Atomic : t = TaskOf(w)
    BY <2>1
  <2>3. /\ {runTask'[r] : r \in promoted'} = {runTask[r] : r \in promoted} \cup {t}
        /\ UNCHANGED status
    BY <1>13, <2>2 DEF Promote, TaskOf
  <2>4. status[t] = "running"
    BY <1>13, <2>2 DEF Promote, TasksAreHeld, Executing
  <2>5. Lifecycle!Deliver(t)
    BY <2>3, <2>4 DEF Lifecycle!Deliver
  <2> QED
    BY <2>5 DEF Lifecycle!Next
<1>14. ASSUME NEW w \in Workers, PromoteFails(w)
      PROVE  [Lifecycle!Next]_(Lifecycle!vars)
  BY <1>14, FailureIsSettled DEF PromoteFails, FailAndRaise, Executing
<1>15. ASSUME NEW w \in Workers, Close(w)
      PROVE  [Lifecycle!Next]_(Lifecycle!vars)
  <2>1. TaskOf(w) \in Atomic
    BY <1>15 DEF Close
  <2>2. PICK t \in Atomic : t = TaskOf(w)
    BY <2>1
  <2>3. choice[w] \in {"completed", "partial"} => t \in {runTask[r] : r \in promoted}
    BY <1>15, <2>2 DEF Close, RunsOK, TaskOf
  <2>4. PICK result \in Lifecycle!Results : result = choice[w]
    BY <1>15 DEF Close, Verdicts, Lifecycle!Results
  <2>5. Lifecycle!Settle(t, result)
    BY <1>15, <2>2, <2>3, <2>4, WriteIsVisible
       DEF Close, TasksAreHeld, Executing, Lifecycle!Settle
  <2> QED
    BY <2>5 DEF Lifecycle!Next
<1>16. ASSUME NEW w \in Workers, CloseFails(w)
      PROVE  [Lifecycle!Next]_(Lifecycle!vars)
  BY <1>16, FailureIsSettled DEF CloseFails, FailAndRaise, Executing
<1>17. ASSUME NEW w \in Workers, CheckClosed(w)
      PROVE  [Lifecycle!Next]_(Lifecycle!vars)
  BY <1>17, QuietIsStutter DEF CheckClosed, MoveTo, Leave
<1>18. ASSUME NEW w \in Workers, ReadHierarchy(w)
      PROVE  [Lifecycle!Next]_(Lifecycle!vars)
  BY <1>18, QuietIsStutter DEF ReadHierarchy
<1>19. ASSUME NEW w \in Workers, Consolidate(w)
      PROVE  [Lifecycle!Next]_(Lifecycle!vars)
  <2>1. \A t \in Atomic : status'[t] = status[t]
    BY <1>19 DEF Consolidate, Atomic
  <2> QED
    BY <1>19, <2>1 DEF Consolidate, Lifecycle!vars
<1>20. ASSUME NEW t \in Atomic, Reopen(t)
      PROVE  [Lifecycle!Next]_(Lifecycle!vars)
  <2>1. status[t] \in {"failed", "partial"}
    BY <1>20 DEF Reopen, TasksAreHeld, Verdicts
  <2>2. Lifecycle!Retry(t)
    BY <1>20, <2>1, WriteIsVisible DEF Reopen, Lifecycle!Retry
  <2> QED
    BY <2>2 DEF Lifecycle!Next
<1>21. ASSUME Crash
      PROVE  [Lifecycle!Next]_(Lifecycle!vars)
  BY <1>21, QuietIsStutter DEF Crash
<1>22. ASSUME UNCHANGED vars
      PROVE  [Lifecycle!Next]_(Lifecycle!vars)
  BY <1>22, QuietIsStutter DEF vars
<1> QED
  BY <1>1, <1>2, <1>3, <1>4, <1>5, <1>6, <1>7, <1>8, <1>9, <1>10,
     <1>11, <1>12, <1>13, <1>14, <1>15, <1>16, <1>17, <1>18, <1>19,
     <1>20, <1>21, <1>22
     DEF Next, Start, Continue

\* What the one worker relies on holds in every reachable state.
LEMMA Solo ==
    ASSUME OneWorker
    PROVE  Spec => []SoloInv
<1>1. Init => SoloInv
  <2> SUFFICES ASSUME Init PROVE SoloInv
    OBVIOUS
  <2>1. TasksAreHeld /\ RetriesAreCounted /\ OneRetryPerTask /\ ViewsAreCurrent
    BY DEF Init, TasksAreHeld, Executing, RetriesAreCounted, OneRetryPerTask,
           ViewsAreCurrent, Atomic
  <2>2. ParentsFollowChildren
    <3> SUFFICES ASSUME NEW p \in Groups, Children(p) # {}
                 PROVE  status[p] = DerivedStatus({status[c] : c \in Children(p)})
      BY DEF ParentsFollowChildren, Consolidated
    <3>1. {status[c] : c \in Children(p)} = {"pending"}
      BY DEF Init, Children
    <3>2. status[p] = "pending"
      BY DEF Init, Groups
    <3> QED
      BY <3>1, <3>2 DEF DerivedStatus, TerminalStatuses
  <2> QED
    BY <2>1, <2>2 DEF SoloInv
<1>2. IInv /\ IInv' /\ SoloInv /\ [Next]_vars => SoloInv'
  BY HeldStep, CountingStep, RetryStep, ViewsStep, ParentsStep DEF SoloInv, IInv
<1> QED
  BY <1>1, <1>2, Invariance, PTL DEF Spec

\* While one worker executes a task at a time, a parent nothing was written
\* below since its last consolidation has the status its children determine,
\* in every task tree.
THEOREM ParentsAreSettled ==
    ASSUME OneWorker
    PROVE  Spec => []ParentsFollowChildren
BY Solo, PTL DEF SoloInv

\* While one worker executes a task at a time, an outage is answered with a
\* retry at most once in the life of a task.
THEOREM RetriesAreBounded ==
    ASSUME OneWorker
    PROVE  Spec => []OneRetryPerTask
BY Solo, PTL DEF SoloInv

\* While one worker executes a task at a time, the attempts implement the
\* lifecycle of a task: every behaviour of the call, through every failure and
\* crash, delivers work before it announces it.
THEOREM LifecycleIsImplemented ==
    ASSUME OneWorker
    PROVE  Spec => ImplementsLifecycle
<1>1. Init => Lifecycle!Init
  BY DEF Init, Lifecycle!Init, Atomic
<1>2. IInv /\ SoloInv /\ [Next]_vars => [Lifecycle!Next]_(Lifecycle!vars)
  BY LifecycleStep DEF SoloInv
<1> QED
  BY <1>1, <1>2, Invariance, Solo, PTL DEF Spec, ImplementsLifecycle, Lifecycle!Spec
=============================================================================
