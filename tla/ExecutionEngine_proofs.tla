----------------------- MODULE ExecutionEngine_proofs -----------------------
(***************************************************************************)
(* Theorems about ExecutionEngine, for every budget and every answer of    *)
(* the language models.                                                    *)
(***************************************************************************)
EXTENDS ExecutionEngine, TLAPS

----------------------------------------------------------------------------
(* The invariant holds at first. *)

\* A run that begins has spent nothing.
LEMMA LoopInvInit == Init => LoopInv
<1> SUFFICES ASSUME Init PROVE LoopInv
  OBVIOUS
<1>1. TypeOK
  BY EngineAssumption DEF Init, TypeOK, Completed, Stopped, Raised
<1>2. WithinBudget
  BY EngineAssumption DEF Init, WithinBudget
<1>3. CompletedHasContext /\ FinishFollowsVerification
  BY DEF Init, CompletedHasContext, FinishFollowsVerification, Completed
<1>4. last \notin Writers /\ result = "none" /\ phase = "discovery"
  BY DEF Init, Writers
<1>5. calls = 0 /\ repairs = 0 /\ steps = 0 /\ ~changed /\ command = None /\ done = {}
  BY DEF Init
<1> QED
  BY <1>1, <1>2, <1>3, <1>4, <1>5 DEF LoopInv

----------------------------------------------------------------------------
(* What the guards of a step say. *)

\* A task that asks for a verification needs no more of it only when a command has passed.
LEMMA NoMoreVerification ==
    ASSUME TypeOK, request.explicit, ~Improves
    PROVE  Passed
<1>1. request.runtime
  BY DEF TypeOK, Requests
<1> QED
  BY <1>1 DEF Improves, Passed

\* A finish of the engine follows a step and, where it is asked for, a verification.
LEMMA ForcedFinish ==
    ASSUME LoopInv, Looping, Forced = "finished"
    PROVE  done # {} /\ (request.explicit => Passed)
<1>1. done # {}
  BY DEF Forced, NothingLeft
<1>2. ASSUME request.explicit PROVE Passed
  <2>1. CASE NothingLeft
    <3>1. TypeOK /\ (last \in Writers /\ ~changed => failed)
      BY DEF LoopInv, Looping
    <3> QED
      BY <1>2, <2>1, <3>1, NoMoreVerification DEF NothingLeft
  <2>2. CASE ~NothingLeft
    <3>1. Sufficient
      BY <2>2 DEF Forced
    <3> QED
      BY <1>2, <3>1, NoMoreVerification DEF Sufficient, LoopInv
  <2> QED
    BY <2>1, <2>2
<1> QED
  BY <1>1, <1>2

\* In the discovery phase nobody but the context selection is called.
LEMMA CalledInDiscovery ==
    ASSUME LoopInv, NEW a, Call(a), phase = "discovery"
    PROVE  a = "context" /\ calls = 0
BY DEF LoopInv, Call, Asked, Looping, Acceptable

----------------------------------------------------------------------------
(* Every step keeps the invariant. *)

\* A subagent that is called finds the budget unspent.
LEMMA CallFrame ==
    ASSUME LoopInv, NEW a, Call(a)
    PROVE  /\ request.engine = "orchestrated" /\ result = "none" /\ a \in Called
           /\ steps < MaxSteps /\ calls < MaxCalls
           /\ calls' = calls + 1 /\ steps' = steps + 1 /\ invalids' = 0
           /\ last' = a /\ request' = request /\ repairs' = repairs
<1>1. Looping /\ Forced = "none" /\ a \in Called
  BY DEF Call, Asked
<1>2. ~Spent
  BY <1>1 DEF Forced
<1>3. TypeOK
  BY DEF LoopInv
<1>4. calls < MaxCalls
  BY <1>2, <1>3, EngineAssumption DEF Spent, TypeOK
<1> QED
  BY <1>1, <1>4 DEF Call, Looping

\* A step that only ends the run.
LEMMA EndFrame ==
    ASSUME LoopInv, UNCHANGED <<request, phase, calls, repairs, done, changed, command>>,
           result = "none", request.engine = "orchestrated",
           TypeOK', WithinBudget', result' # "none",
           result' \in Completed => "context" \in done,
           result' = "finished" /\ request.explicit => Passed
    PROVE  LoopInv'
<1>1. request' = request /\ phase' = phase /\ done' = done
      /\ changed' = changed /\ command' = command
  OBVIOUS
<1>2. CompletedHasContext'
  BY <1>1 DEF CompletedHasContext
<1>3. FinishFollowsVerification'
  BY <1>1 DEF FinishFollowsVerification, Passed
<1> QED
  BY <1>1, <1>2, <1>3 DEF LoopInv

\* A forced finish and a spent budget keep the invariant of the loop.
LEMMA SettleStep == ASSUME LoopInv, Settle PROVE LoopInv'
<1>1. /\ Looping /\ Forced \in {"finished", "refused"} /\ result' = Forced
      /\ UNCHANGED <<request, phase, calls, repairs, done, changed, command>>
  BY DEF Settle, Forced, evidence
<1>2. TypeOK'
  BY EngineAssumption, <1>1 DEF Settle, LoopInv, TypeOK, evidence, Completed, Stopped
<1>3. WithinBudget'
  BY EngineAssumption, <1>1 DEF Settle, LoopInv, WithinBudget, TypeOK, Looping
<1>4. result' = "finished" => done # {} /\ (request.explicit => Passed)
  BY <1>1, ForcedFinish
<1>5. result' \in Completed => "context" \in done
  <2>1. done # {} => "context" \in done
    BY <1>1 DEF LoopInv, Looping, TypeOK
  <2> QED
    BY <1>1, <1>4, <2>1 DEF Completed
<1> QED
  BY <1>1, <1>2, <1>3, <1>4, <1>5, EndFrame DEF Looping

\* An answer that cannot be read ends the run and keeps it.
LEMMA UndecidedStep == ASSUME LoopInv, Undecided PROVE LoopInv'
<1>1. /\ Looping /\ result' \in {"unreadable", "invalid_output", "error"}
      /\ result' = "unreadable" => changed \/ command # None
      /\ UNCHANGED <<request, phase, budget, last, done, failed, evidence>>
  BY DEF Undecided, Asked
<1>2. TypeOK' /\ WithinBudget'
  BY <1>1 DEF LoopInv, TypeOK, WithinBudget, budget, evidence, Completed, Stopped, Raised
<1>3. result' \in Completed => "context" \in done
  BY <1>1 DEF LoopInv, Looping, TypeOK, Completed
<1> QED
  BY <1>1, <1>2, <1>3, EndFrame DEF Looping, budget, evidence

\* A final decision of the model keeps it.
LEMMA ConcludeStep == ASSUME LoopInv, Conclude PROVE LoopInv'
<1>1. /\ Looping /\ result' \in {"completed", "rejected"}
      /\ result' = "completed" => done # {}
      /\ invalids' \in {invalids, 0} /\ steps' = steps + 1
      /\ UNCHANGED <<request, phase, calls, repairs, last, done, failed, evidence>>
  BY DEF Conclude, Asked, Acceptable
<1>2. TypeOK'
  BY <1>1 DEF LoopInv, TypeOK, evidence, Completed, Stopped
<1>3. WithinBudget'
  BY EngineAssumption, <1>1 DEF LoopInv, TypeOK, WithinBudget, Looping
<1>4. result' \in Completed => "context" \in done
  BY <1>1 DEF LoopInv, Looping, TypeOK, Completed
<1> QED
  BY <1>1, <1>2, <1>3, <1>4, EndFrame DEF Looping, evidence

\* A run whose steps are used up keeps it.
LEMMA ExhaustStep == ASSUME LoopInv, Exhaust PROVE LoopInv'
<1>1. /\ result = "none" /\ request.engine = "orchestrated" /\ steps >= MaxSteps
      /\ result' = "exhausted"
      /\ UNCHANGED <<request, phase, budget, last, done, failed, evidence>>
  BY DEF Exhaust
<1>2. TypeOK' /\ WithinBudget'
  BY <1>1 DEF LoopInv, TypeOK, WithinBudget, budget, evidence, Completed
<1>3. "context" \in done
  <2>1. phase # "discovery"
    <3> SUFFICES ASSUME phase = "discovery" PROVE FALSE
      OBVIOUS
    <3>1. calls <= 1 /\ calls + repairs = steps /\ repairs <= MaxRepairs
      BY <1>1 DEF LoopInv, WithinBudget
    <3> QED
      BY <1>1, <3>1, EngineAssumption DEF LoopInv, TypeOK
  <2> QED
    BY <1>1, <2>1 DEF LoopInv, TypeOK
<1> QED
  BY <1>1, <1>2, <1>3, EndFrame DEF budget, evidence

\* An invalid decision finds the repair budget unspent and leaves a failed step.
LEMMA InvalidStep == ASSUME LoopInv, Invalid PROVE LoopInv'
<1>1. /\ Looping /\ ~Spent
      /\ steps' = steps + 1 /\ repairs' = repairs + 1 /\ invalids' = invalids + 1
      /\ failed' = TRUE
      /\ UNCHANGED <<request, phase, calls, last, done, evidence, result>>
  BY DEF Invalid, Asked, Forced
<1>2. TypeOK'
  BY <1>1 DEF LoopInv, TypeOK, evidence
<1>3. WithinBudget'
  BY EngineAssumption, <1>1 DEF LoopInv, TypeOK, WithinBudget, Looping, Spent
<1>4. CompletedHasContext' /\ FinishFollowsVerification'
  BY <1>1 DEF LoopInv, CompletedHasContext, FinishFollowsVerification, Passed, evidence
<1>5. result' = "none" => calls' + repairs' = steps'
  BY <1>1 DEF LoopInv, TypeOK
<1> QED
  BY <1>1, <1>2, <1>3, <1>4, <1>5 DEF LoopInv, Looping, evidence

\* The budget after a call.
LEMMA CallBudget ==
    ASSUME LoopInv, NEW a, Call(a)
    PROVE  WithinBudget' /\ (calls' + repairs' = steps')
<1>1. TypeOK /\ WithinBudget /\ result = "none" /\ calls + repairs = steps
  BY CallFrame DEF LoopInv
<1> QED
  BY <1>1, CallFrame, EngineAssumption DEF TypeOK, WithinBudget

\* A completed step: the evidence is well typed, and a writer has written.
LEMMA AnswerStep ==
    ASSUME LoopInv, NEW a, Answer(a),
           command' \in Commands \cup {None}, diagnosis' \in Diagnoses \cup {None},
           changed' \in BOOLEAN, a \in Writers => changed'
    PROVE  LoopInv'
<1>1. /\ Call(a) /\ done' = done \cup {a} /\ failed' = failed /\ result' = result
      /\ phase' = IF a = "context" THEN "execution" ELSE phase
  BY DEF Answer
<1>2. TypeOK'
  BY <1>1, CallFrame DEF LoopInv, TypeOK
<1>3. WithinBudget' /\ (calls' + repairs' = steps')
  BY <1>1, CallBudget
<1>4. CompletedHasContext' /\ FinishFollowsVerification'
  BY <1>1, CallFrame DEF CompletedHasContext, FinishFollowsVerification, Completed
<1>5. phase' = "execution" /\ "context" \in done'
  BY <1>1, CallFrame, CalledInDiscovery DEF LoopInv, TypeOK
<1> QED
  BY <1>1, <1>2, <1>3, <1>4, <1>5, CallFrame DEF LoopInv

\* A call that completes no step or ends the run.
LEMMA FailureStep ==
    ASSUME LoopInv, NEW a, Call(a), UNCHANGED <<phase, command, diagnosis>>,
           changed' \in BOOLEAN, a = "context" => changed' = changed,
           done' \in {done, done \cup {a}}, failed' \in BOOLEAN,
           result' \in Stopped \cup Raised \cup {"none"},
           result' = "none" => failed' /\ done' = done,
           done' # done => a \in {"code", "tests"}
    PROVE  LoopInv'
<1>1. TypeOK'
  BY CallFrame DEF LoopInv, TypeOK
<1>2. WithinBudget' /\ (calls' + repairs' = steps')
  BY CallBudget
<1>3. CompletedHasContext' /\ FinishFollowsVerification'
  BY DEF CompletedHasContext, FinishFollowsVerification, Completed, Stopped, Raised
<1>4. ASSUME phase' = "discovery" PROVE calls' = 1 /\ last' = "context" /\ done' = {}
  BY <1>4, CallFrame, CalledInDiscovery DEF LoopInv
<1>5. ASSUME phase' = "execution" PROVE "context" \in done'
  BY <1>5, CallFrame DEF LoopInv
<1>6. ASSUME phase' = "discovery" PROVE ~changed' /\ command' = None
  BY <1>6, CallFrame, CalledInDiscovery DEF LoopInv
<1> QED
  BY <1>1, <1>2, <1>3, <1>4, <1>5, <1>6, CallFrame DEF LoopInv

\* The engine for documentation tasks keeps it.
LEMMA DocumentationStep ==
    ASSUME LoopInv, DocumentContext \/ DocumentWrite
    PROVE  LoopInv'
<1>1. request.engine = "documentation" /\ request' = request /\ result = "none"
  BY DEF DocumentContext, DocumentWrite, Documenting
<1>2. TypeOK'
  BY EngineAssumption DEF DocumentContext, DocumentWrite, LoopInv, TypeOK, budget,
                          evidence, Completed, Stopped, Raised
<1>3. WithinBudget' /\ UNCHANGED <<calls, repairs, steps>>
  BY DEF DocumentContext, DocumentWrite, LoopInv, WithinBudget, budget
<1>4. result' \in {"none", "completed", "failed", "error"}
  BY <1>1 DEF DocumentContext, DocumentWrite
<1>5. CompletedHasContext' /\ FinishFollowsVerification'
  BY <1>1, <1>4 DEF CompletedHasContext, FinishFollowsVerification
<1> QED
  BY <1>1, <1>2, <1>3, <1>4, <1>5 DEF LoopInv

\* Every step of an engine run keeps it.
LEMMA LoopInvStep == ASSUME LoopInv, [Next]_vars PROVE LoopInv'
<1>1. CASE UNCHANGED vars
  BY <1>1 DEF vars, budget, evidence, LoopInv, TypeOK, WithinBudget,
              CompletedHasContext, FinishFollowsVerification, Passed
<1>2. CASE Settle \/ Undecided \/ Invalid \/ Conclude \/ Exhaust
  BY <1>2, SettleStep, UndecidedStep, InvalidStep, ConcludeStep, ExhaustStep
<1>3. CASE SelectContext \/ SkipCommand
  <2>1. TypeOK
    BY DEF LoopInv
  <2> QED
    BY <1>3, <2>1, AnswerStep DEF SelectContext, SkipCommand, evidence, TypeOK, Writers
<1>4. CASE RunCommand
  <2>1. TypeOK
    BY DEF LoopInv
  <2>2. /\ Answer("command") /\ command' \in Commands /\ changed' = changed
        /\ diagnosis' \in {diagnosis} \cup Diagnoses
    BY <1>4 DEF RunCommand
  <2> QED
    BY <2>1, <2>2, AnswerStep DEF TypeOK, Writers
<1>5. CASE Install
  <2>1. TypeOK
    BY DEF LoopInv
  <2> QED
    BY <1>5, <2>1, AnswerStep DEF Install, TypeOK, Writers
<1>6. ASSUME NEW a \in Called, Decline(a) PROVE LoopInv'
  <2>1. result = "none" /\ TypeOK
    BY <1>6, CallFrame DEF Decline, LoopInv
  <2> QED
    BY <1>6, <2>1, FailureStep DEF Decline, evidence, TypeOK
<1>7. ASSUME NEW a \in Called, Raise(a), UNCHANGED <<command, diagnosis>>,
             changed' \in BOOLEAN, a = "context" => changed' = changed
      PROVE  LoopInv'
  <2>1. TypeOK
    BY DEF LoopInv
  <2> QED
    BY <1>7, <2>1, FailureStep DEF Raise, Stopped, Raised, TypeOK
<1>8. ASSUME NEW a \in Writers, Write(a) PROVE LoopInv'
  <2>1. TypeOK
    BY DEF LoopInv
  <2> QED
    BY <1>8, <2>1, AnswerStep DEF Write, TypeOK
<1>9. ASSUME NEW a \in Writers, NeedDependency(a) PROVE LoopInv'
  <2>1. TypeOK
    BY DEF LoopInv
  <2> QED
    BY <1>9, <2>1, FailureStep DEF NeedDependency, evidence, Stopped, TypeOK
<1>11. CASE RejectSelection \/ RejectPlan \/ \E a \in Writers : RejectFiles(a)
  BY <1>11, <1>6, CallFrame DEF RejectSelection, RejectPlan, RejectFiles, Decline
<1>12. CASE (\E a \in Called : Break(a)) \/ \E a \in Writers : BreakAfterWriting(a)
  <2>1. TypeOK
    BY DEF LoopInv
  <2>2. ASSUME NEW a \in Writers, BreakAfterWriting(a) PROVE LoopInv'
    <3>1. a \in Called /\ a # "context"
      BY <2>2, CallFrame DEF BreakAfterWriting, Raise, Writers
    <3> QED
      BY <1>7, <2>2, <3>1 DEF BreakAfterWriting
  <2>3. ASSUME NEW a \in Called, Break(a) PROVE LoopInv'
    BY <1>7, <2>1, <2>3 DEF Break, evidence, TypeOK
  <2> QED
    BY <1>12, <2>2, <2>3
<1>13. CASE WriteCode \/ WriteDocument \/ WriteTests
  BY <1>13, <1>8 DEF WriteCode, WriteDocument, WriteTests, Writers
<1>14. CASE RejectInstall
  <2>1. TypeOK
    BY DEF LoopInv
  <2> QED
    BY <1>14, <2>1, FailureStep DEF RejectInstall, Stopped, TypeOK
<1>10. CASE DocumentContext \/ DocumentWrite
  BY <1>10, DocumentationStep
<1> QED
  BY <1>1, <1>2, <1>3, <1>4, <1>5, <1>6, <1>7, <1>9, <1>10, <1>11,
     <1>12, <1>13, <1>14 DEF Next

----------------------------------------------------------------------------
(* The theorems. *)

\* The inductive invariant of the decision loop.
THEOREM LoopInvariance == Spec => []LoopInv
BY LoopInvInit, LoopInvStep, PTL DEF Spec

\* Whatever the language models answer, a run takes no more steps, calls and
\* repairs than its budget has.
THEOREM BudgetHolds == Spec => []WithinBudget
<1>1. LoopInv => WithinBudget
  BY DEF LoopInv
<1> QED
  BY <1>1, LoopInvariance, PTL

\* Nothing is written or run before the context of the task was selected.
THEOREM ContextFirst == Spec => []ContextBeforeWork
<1>1. LoopInv => ContextBeforeWork
  BY DEF LoopInv, ContextBeforeWork, TypeOK
<1> QED
  BY <1>1, LoopInvariance, PTL

\* For every budget with more steps than a rejected selection and the repairs
\* can use, a run that is reported as completed has selected its context.
THEOREM NothingEmptyIsCompleted == Spec => []CompletedHasContext
<1>1. LoopInv => CompletedHasContext
  BY DEF LoopInv
<1> QED
  BY <1>1, LoopInvariance, PTL

\* The engine ends no run whose task asks for a verification before one has
\* passed.
THEOREM VerifiedFinish == Spec => []FinishFollowsVerification
<1>1. LoopInv => FinishFollowsVerification
  BY DEF LoopInv
<1> QED
  BY <1>1, LoopInvariance, PTL
=============================================================================
