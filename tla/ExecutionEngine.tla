--------------------------- MODULE ExecutionEngine ---------------------------
(***************************************************************************)
(* One run of the execution engine for one attempt of a task               *)
(* (execution_engine): the loop in which a language model chooses the next *)
(* subagent, the guardrails that correct or end it, the subagents'         *)
(* outcomes, and the shorter run of the documentation engine.              *)
(*                                                                         *)
(* An iteration of the loop runs on one thread and is one step.  Every     *)
(* answer a language model may give, and every outcome a subagent reports  *)
(* for one, is a choice of the step.                                       *)
(***************************************************************************)
EXTENDS Naturals

CONSTANTS
    Called,         \* the subagents the language model calls
    Engines,        \* the engines of the executor types in use
    MaxSteps,       \* LoopBudget.max_steps
    MaxCalls,       \* LoopBudget.max_agent_calls
    MaxRepairs      \* LoopBudget.max_repair_attempts

\* next_action.VALID_SUBAGENT_NAMES
Subagents == {"context", "code", "command", "document", "tests", "environment"}

\* A context selection that is rejected and the invalid decisions that may
\* follow it leave a step of the default budget (8, 8, 2).
ASSUME EngineAssumption ==
    /\ Called \subseteq Subagents /\ "context" \in Called
    /\ Engines \subseteq {"orchestrated", "documentation"}
    /\ MaxSteps \in Nat /\ MaxCalls \in Nat \ {0} /\ MaxRepairs \in Nat \ {0}
    /\ MaxRepairs + 1 < MaxSteps

VARIABLES
    request,    \* what the checks read of the request
    phase,      \* ResolutionState.phase
    steps,      \* ExecutionState: step_count,
    calls,      \*    agent_call_count,
    repairs,    \*    repair_attempt_count
    invalids,   \* consecutive_invalid_decisions
    last,       \* the subagent called last
    done,       \* the subagents with a completed step
    failed,     \* is there a failed step?
    changed,    \* did a subagent change files?
    command,    \* the command executed last, as the evidence has it
    diagnosis,  \* the latest error diagnosis of the evidence
    result      \* how the run ended, "none" while it goes on

budget   == <<steps, calls, repairs, invalids>>
evidence == <<changed, command, diagnosis>>
vars == <<request, phase, budget, last, done, failed, evidence, result>>

None == [none |-> TRUE]

\* passed: the exit code was one of those expected, in time; setup: chmod,
\* mkdir, an installation ...; import: the output shows an import or a
\* collection error.
Commands  == [passed : BOOLEAN, setup : BOOLEAN, import : BOOLEAN]
Diagnoses == [environment : BOOLEAN, recoverable : BOOLEAN]

\* The classification of the task: runtime is verification_level, testing
\* task_type; the others are read off its text.
Requests ==
    {r \in [engine : Engines, runtime : BOOLEAN, testing : BOOLEAN,
            explicit : BOOLEAN, documentation : BOOLEAN,
            executable : BOOLEAN, material : BOOLEAN] :
        /\ r.explicit => r.runtime
        /\ r.testing  => r.material /\ (r.runtime => r.explicit)}

\* "finished" and "refused" are the engine's own verdicts, "completed" and
\* "rejected" those of the language model.
Completed == {"finished", "completed", "exhausted", "unreadable"}
Stopped   == {"refused", "rejected", "needs_dependency", "failed"}
Raised    == {"invalid_output", "transient", "error"}

TypeOK ==
    /\ request \in Requests
    /\ phase \in {"discovery", "execution"}
    /\ steps \in Nat /\ calls \in Nat /\ repairs \in Nat /\ invalids \in Nat
    /\ last \in Called \cup {"nobody"} /\ done \subseteq Called
    /\ failed \in BOOLEAN /\ changed \in BOOLEAN
    /\ command \in Commands \cup {None}
    /\ diagnosis \in Diagnoses \cup {None}
    /\ result \in Completed \cup Stopped \cup Raised \cup {"none"}

Init ==
    /\ request \in Requests
    /\ phase = "discovery"
    /\ steps = 0 /\ calls = 0 /\ repairs = 0 /\ invalids = 0
    /\ last = "nobody" /\ done = {}
    /\ failed = FALSE /\ changed = FALSE
    /\ command = None /\ diagnosis = None
    /\ result = "none"

----------------------------------------------------------------------------
(* What the evidence says. *)

Writers == {"code", "document", "tests"}

Passed == command # None /\ command.passed

SetupOnly == command # None /\ command.setup

\* The task asks for a verification and the last command was only a setup.
Unverified == request.explicit /\ SetupOnly

\* VARIANT: a verification that failed is not repeated after the repair.
Improves_OnlyOnce ==
    /\ request.runtime
    /\ command = None
    /\ \/ request.explicit
       \/ ~request.documentation /\ changed /\ request.executable

\* _verification_would_materially_improve: a setup command that passed is
\* let through by the first check and stopped by the last one.
Improves ==
    /\ request.runtime
    /\ ~(Passed /\ ~Unverified)
    /\ \/ request.explicit
       \/ ~request.documentation /\ changed /\ request.executable
    /\ ~Passed

\* _failed_verification_is_repairable_by_repo_changes
Repairable ==
    /\ command # None /\ ~Passed /\ changed
    /\ IF diagnosis # None
       THEN diagnosis.recoverable /\ ~diagnosis.environment
       ELSE command.import

\* _latest_step_failure_indicates_repairable_gap
Gap ==
    /\ failed
    /\ \/ last \in Writers \cup {"context", "environment"}
       \/ /\ last = "command" /\ command # None /\ ~Passed
          /\ \/ diagnosis # None /\ diagnosis.environment /\ diagnosis.recoverable
             \/ Repairable

\* _build_completion_checklist, _checklist_requires_finish
Sufficient ==
    /\ phase # "discovery" \/ done # {}
    /\ request.material => changed \/ done \cap Writers # {}
    /\ Improves => Passed /\ ~Unverified
    /\ ~Gap

----------------------------------------------------------------------------
(* What the engine decides itself. *)

\* The four situations in which _maybe_build_forced_terminal_decision ends
\* the run although the budget is not spent.
NothingLeft ==
    /\ done # {}
    /\ \/ last \in Writers /\ changed /\ ~Improves /\ ~Gap
       \/ /\ last = "command" /\ Passed /\ changed /\ ~Unverified
          /\ request.testing => "tests" \in done
       \/ last = "command" /\ command = None /\ changed /\ ~Improves /\ ~Gap
       \/ last \in Writers /\ ~changed /\ ~failed

\* VARIANT: the repair budget may be exceeded by one.
Spent_OneMore == calls >= MaxCalls \/ repairs > MaxRepairs \/ invalids >= 3

Spent == calls >= MaxCalls \/ repairs >= MaxRepairs \/ invalids >= 3

\* _maybe_build_forced_terminal_decision, _build_terminal_decision
Forced ==
    IF NothingLeft THEN "finished"
    ELSE IF ~Spent THEN "none"
    ELSE IF Sufficient /\ done # {} THEN "finished" ELSE "refused"

\* VARIANT: the phase is not looked at once a subagent was called.
Acceptable_FirstCallOnly(d) ==
    /\ calls = 0 => d = "context"
    /\ d \in Called => \/ d # last
                       \/ d = "command" /\ Unverified
    /\ d = "finish" => /\ done # {}
                       /\ ~(last = "command" /\ Repairable)

\* _normalize_decision: is decision d let through?
Acceptable(d) ==
    /\ calls = 0 => d = "context"
    /\ phase = "discovery" => d = "context"
    /\ d \in Called => \/ d # last
                       \/ d = "command" /\ Unverified
    /\ d = "finish" => /\ done # {}
                       /\ ~(last = "command" /\ Repairable)

----------------------------------------------------------------------------
(* The loop of ExecutionOrchestrator.run. *)

\* The top of the loop, with steps left.
Looping == result = "none" /\ request.engine = "orchestrated" /\ steps < MaxSteps

\* The language model is asked.
Asked == Looping /\ Forced = "none"

Settle ==
    /\ Looping /\ Forced # "none"
    /\ steps' = steps + 1 /\ result' = Forced
    /\ invalids' = IF Forced = "refused" THEN 0 ELSE invalids
    /\ UNCHANGED <<request, phase, calls, repairs, last, done, failed, evidence>>

\* Two answers that are no decision, or a model that cannot be reached.
Undecided ==
    /\ Asked
    /\ result' \in {IF changed \/ command # None THEN "unreadable"
                                                 ELSE "invalid_output",
                    "error"}
    /\ UNCHANGED <<request, phase, budget, last, done, failed, evidence>>

\* VARIANT: an invalid decision costs a step and no repair attempt.
Invalid_Unpunished ==
    /\ Asked
    /\ \E d \in Called \cup {"finish", "reject", "invalid"} :
          d = "invalid" \/ ~Acceptable(d)
    /\ steps' = steps + 1
    /\ failed' = TRUE
    /\ UNCHANGED <<request, phase, calls, repairs, invalids, last, done,
                   evidence, result>>

Invalid ==
    /\ Asked
    /\ \E d \in Called \cup {"finish", "reject", "invalid"} :
          d = "invalid" \/ ~Acceptable(d)
    /\ steps' = steps + 1 /\ repairs' = repairs + 1 /\ invalids' = invalids + 1
    /\ failed' = TRUE
    /\ UNCHANGED <<request, phase, calls, last, done, evidence, result>>

\* The decisions finish and reject of the language model.
Conclude ==
    /\ Asked
    /\ \/ Acceptable("finish") /\ result' = "completed" /\ UNCHANGED invalids
       \/ Acceptable("reject") /\ result' = "rejected" /\ invalids' = 0
    /\ steps' = steps + 1
    /\ UNCHANGED <<request, phase, calls, repairs, last, done, failed, evidence>>

\* Subagent a is called: register_step, register_agent_call.
Call(a) ==
    /\ Asked /\ a \in Called /\ Acceptable(a)
    /\ steps' = steps + 1 /\ calls' = calls + 1 /\ invalids' = 0
    /\ last' = a
    /\ UNCHANGED <<request, repairs>>

\* The step is completed and the loop goes on; the phase advances.
Answer(a) ==
    /\ Call(a)
    /\ done' = done \cup {a} /\ UNCHANGED <<failed, result>>
    /\ phase' = IF a = "context" THEN "execution" ELSE phase

\* SubagentRejectedStepError: the step fails and the loop goes on.
Decline(a) ==
    /\ Call(a)
    /\ failed' = TRUE
    /\ UNCHANGED <<phase, done, evidence, result>>

\* Any other exception of a subagent ends the run.
Raise(a) ==
    /\ Call(a)
    /\ \/ result' = "failed" /\ failed' = TRUE
       \/ result' = "transient" /\ UNCHANGED failed
    /\ UNCHANGED <<phase, done>>

Break(a) == Raise(a) /\ UNCHANGED evidence

\* ContextSelectionAgent: two selections of runs that are not in the catalog
\* are a rejected step.
SelectContext == Answer("context") /\ UNCHANGED evidence

RejectSelection == Decline("context")

\* Every file of the answer is written.
Write(a) ==
    /\ Answer(a)
    /\ changed' = TRUE /\ UNCHANGED <<command, diagnosis>>

WriteCode     == Write("code")
WriteDocument == Write("document")
WriteTests    == Write("tests")

\* _validate_generated_files: no file, a path twice or outside of the
\* workspace, a file created that exists or modified that does not.
RejectFiles(a) == a \in Writers /\ Decline(a)

\* A file cannot be written, or the assessment of the tests that were written
\* raises.  The files of a failed write are restored, their evidence stays.
BreakAfterWriting(a) ==
    /\ a \in Writers
    /\ Raise(a)
    /\ changed' = TRUE /\ UNCHANGED <<command, diagnosis>>

\* The subagents that write code and tests ask for a package instead.
NeedDependency(a) ==
    /\ a \in {"code", "tests"}
    /\ Call(a)
    /\ done' = done \cup {a} /\ result' = "needs_dependency"
    /\ UNCHANGED <<phase, failed, evidence>>

\* CommandRunnerAgent: the plan says that no verification applies.
SkipCommand == Answer("command") /\ UNCHANGED evidence

\* Neither the second nor the third plan is a command that may be executed.
RejectPlan == Decline("command")

\* A command is executed.  One that failed is diagnosed, if the diagnosis
\* can be had; a diagnosis of an earlier command stays in the evidence.
RunCommand ==
    /\ Answer("command")
    /\ command' \in Commands
    /\ diagnosis' \in {diagnosis} \cup (IF command'.passed THEN {} ELSE Diagnoses)
    /\ UNCHANGED changed

\* EnvironmentManagerAgent: the packages that the diagnosis asks for are
\* installed; a manifest of the repository may change with them.
Install ==
    /\ diagnosis # None
    /\ Answer("environment")
    /\ changed' \in {changed, TRUE}
    /\ UNCHANGED <<command, diagnosis>>

\* There is no diagnosis, it names no package or none could be installed:
\* the only rejected step that ends the run.
RejectInstall ==
    /\ Call("environment")
    /\ failed' = TRUE /\ result' = "failed"
    /\ changed' \in {changed} \cup (IF diagnosis # None THEN {TRUE} ELSE {})
    /\ UNCHANGED <<phase, done, command, diagnosis>>

\* max_steps is reached: what there is goes to validation.
Exhaust ==
    /\ result = "none" /\ request.engine = "orchestrated" /\ steps >= MaxSteps
    /\ result' = "exhausted"
    /\ UNCHANGED <<request, phase, budget, last, done, failed, evidence>>

----------------------------------------------------------------------------
(* DocumentationEngine.execute: the context, if it can be had, then the    *)
(* document; no loop and no budget.                                        *)

Documenting == result = "none" /\ request.engine = "documentation"

DocumentContext ==
    /\ Documenting /\ last = "nobody"
    /\ last' = "context"
    /\ \/ phase' = "execution" /\ done' = {"context"} /\ UNCHANGED result
       \/ UNCHANGED <<phase, done, result>>
       \/ result' = "error" /\ UNCHANGED <<phase, done>>
    /\ UNCHANGED <<request, budget, failed, evidence>>

DocumentWrite ==
    /\ Documenting /\ last = "context"
    /\ \/ changed' = TRUE /\ result' = "completed"
       \/ UNCHANGED changed /\ result' \in {"failed", "error"}
    /\ UNCHANGED <<request, phase, budget, last, done, failed, command, diagnosis>>

Next ==
    \/ Settle \/ Undecided \/ Invalid \/ Conclude
    \/ SelectContext \/ RejectSelection
    \/ WriteCode \/ WriteDocument \/ WriteTests
    \/ \E a \in Writers : RejectFiles(a) \/ NeedDependency(a) \/ BreakAfterWriting(a)
    \/ SkipCommand \/ RejectPlan \/ RunCommand
    \/ Install \/ RejectInstall
    \/ \E a \in Called : Break(a)
    \/ Exhaust
    \/ DocumentContext \/ DocumentWrite

Spec == Init /\ [][Next]_vars

----------------------------------------------------------------------------
(* Properties. *)

\* No run takes more steps, calls or repairs than its budget has, whatever
\* the language model answers; calls and repairs share the steps.
WithinBudget ==
    /\ steps <= MaxSteps /\ calls <= MaxCalls /\ repairs <= MaxRepairs
    /\ calls + repairs <= steps /\ invalids <= repairs

\* Nothing is written, run or installed before the context of the task was
\* selected, also not after a selection that was rejected.
ContextBeforeWork ==
    request.engine = "orchestrated" /\ (changed \/ command # None \/ done # {}) =>
        "context" \in done

\* A run that is reported as completed, on whichever of the four ways, has
\* selected its context: a run in which nobody worked is never sent to
\* validation as partial work.
CompletedHasContext ==
    result \in Completed /\ request.engine = "orchestrated" =>
        "context" \in done

\* The engine itself does not end a run whose task asks for a verification
\* before a command has passed: after a failed one the repair is verified.
FinishFollowsVerification ==
    result = "finished" /\ request.explicit => Passed

\* What the properties rest on: while a run goes on each step was a call or
\* a repair; the discovery phase ends with the only call it allows; a writer
\* that wrote nothing has left a failed step.
LoopInv ==
    /\ TypeOK /\ WithinBudget
    /\ result = "none" => calls + repairs = steps
    /\ request.engine = "documentation" =>
          calls = 0 /\ repairs = 0 /\ result \notin {"finished", "exhausted"}
    /\ request.engine = "orchestrated" =>
          /\ phase = "execution" => "context" \in done
          /\ phase = "discovery" =>
                /\ ~changed /\ command = None /\ done = {}
                /\ result = "none" =>
                      \/ calls = 0
                      \/ calls = 1 /\ last = "context"
          /\ result = "none" /\ last \in Writers /\ ~changed => failed
    /\ CompletedHasContext /\ FinishFollowsVerification

\* The comment on _command_is_setup_only: "A successful setup command must
\* not be treated as evidence that acceptance-criteria verification has been
\* completed." (orchestrator.py:475)
SetupIsNotVerification ==
    result = "finished" /\ request.explicit => ~SetupOnly
=============================================================================
