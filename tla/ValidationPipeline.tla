------------------------- MODULE ValidationPipeline -------------------------
(***************************************************************************)
(* How the verdict on one execution comes about: the validators are        *)
(* selected by the agents that left evidence, each judges the evidence of  *)
(* its agent, and the results are aggregated (services/validation).        *)
(*                                                                         *)
(* A validator asks a language model, which may give any answer its schema *)
(* lets pass, and then corrects the answer by rules of its own.            *)
(***************************************************************************)
EXTENDS Naturals, Sequences, FiniteSets, SequencesExt

CONSTANTS
    Producers,      \* the agents of an execution
    MaxCalls        \* agent calls of one execution

\* The agents a validator is registered for, and those validation ignores.
Validated == {"code_change_agent", "command_runner_agent", "document_writer_agent",
              "test_builder_agent", "image_generation_agent"}
Unjudged  == {"context_selection_agent", "execution_orchestrator",
              "environment_manager_agent"}

Registered == Producers \cap Validated
Ignored    == Producers \cap Unjudged

ASSUME ValidationAssumption ==
    /\ Producers \subseteq Validated \cup Unjudged
    /\ MaxCalls \in Nat

VARIABLES
    called,     \* ExecutionResult.execution_agent_sequence
    evidence,   \* the producers of the evidence, in the order of their items
    queue,      \* the validators selected and not yet run
    results,    \* the results of those that ran: who and what
    verdict     \* "none", the aggregated decision, or "error"

validationVars == <<called, evidence, queue, results, verdict>>

\* "gap" is the decision partial with an annotation that names what is
\* missing; a result with another decision has no annotations.
Opinions  == {"completed", "partial", "gap", "failed", "manual_review"}
Decisions == {"completed", "partial", "failed", "manual_review"}

Decision(opinion) == IF opinion = "gap" THEN "partial" ELSE opinion

\* Sequences of at most n different elements of S.
Orders(S, n) == {s \in SeqOf(S, n) : IsInjective(s)}

----------------------------------------------------------------------------
(* Selection. *)

\* The elements of s that are in S, each where it comes first.
FirstOf(s, S) ==
    LET first[n \in 0 .. Len(s)] ==
          IF n = 0 THEN <<>>
          ELSE IF s[n] \in S /\ ~Contains(first[n - 1], s[n])
               THEN Append(first[n - 1], s[n])
               ELSE first[n - 1]
    IN  first[Len(s)]

Open(available) == ToSet(available) \ Ignored

\* VARIANT: an agent that is not in the sequence is not validated.
Ordered_SequenceOnly(sequence, available) == FirstOf(sequence, Open(available))

\* order_producers_by_execution_sequence: the agents with evidence in the
\* order of their first call, then those that the sequence does not name.
Ordered(sequence, available) ==
    FirstOf(sequence \o available, Open(available))

\* Those of them a validator is registered for.
Selected(sequence, available) ==
    FirstOf(Ordered(sequence, available), Registered)

ValidationInit ==
    /\ called \in SeqOf(Producers, MaxCalls)
    /\ evidence \in Orders(Producers, Cardinality(Producers))
    /\ queue = Selected(called, evidence)
    /\ results = <<>>
    /\ verdict = "none"

----------------------------------------------------------------------------
(* The validators. *)

\* What a model may answer: signal says that it names a warning, an error, a
\* blocker or a missing scope of the agent's own work; what it says of others
\* (the workflow, the promotion, another validator) is deleted first.
Answers == [decision : Decisions, signal : BOOLEAN, annotated : BOOLEAN]

\* Annotations go with the decision partial alone.
Named(a) == IF a.decision = "partial" /\ a.annotated THEN "gap" ELSE a.decision

\* _sanitize_llm_output: a rejection that names nothing is an approval.
Sanitised(a) ==
    IF a.decision # "completed" /\ ~a.signal /\ ~a.annotated
    THEN "completed" ELSE Named(a)

\* The last command of an execution, and whether its task can be verified by
\* one (_normalize_llm_output_for_terminal_success): a command that succeeded
\* and does more than prepare overrules the model.
LastCommands == {"none", "failed", "setup", "passed"}

Overruled(last, verifiable, a) ==
    a.decision \in {"partial", "failed"} /\ last = "passed" /\ verifiable

Says(p, opinion) == [by |-> p, opinion |-> opinion, answered |-> TRUE]

CodeChange == {Says("code_change_agent", Sanitised(a)) : a \in Answers}

\* A second try follows on an invalid answer.
TestBuilder == {Says("test_builder_agent", Sanitised(a)) : a \in Answers}

\* Without a changed file nobody is asked.
DocumentWriter ==
    {Says("document_writer_agent", "failed")}
       \cup {Says("document_writer_agent", Sanitised(a)) : a \in Answers}

CommandRunner ==
    {Says("command_runner_agent",
          IF Overruled(last, verifiable, a) THEN "completed" ELSE Named(a)) :
        a \in Answers, last \in LastCommands, verifiable \in BOOLEAN}

\* VARIANT: the vision model that fails leaves a partial result.
ImageOutage_Partial ==
    [by |-> "image_generation_agent", opinion |-> "partial", answered |-> FALSE]

\* The vision model failed: of all validators only this one does not raise.
ImageOutage ==
    [by |-> "image_generation_agent", opinion |-> "manual_review",
     answered |-> FALSE]

\* No evidence, no image in the workspace or in the source, or one of less
\* than 100 bytes: nobody is asked.  Annotations are not part of the answer.
ImageGeneration ==
    {Says("image_generation_agent", "failed"), ImageOutage}
       \cup {Says("image_generation_agent", d) : d \in Decisions}

Judgements ==
    CodeChange \cup TestBuilder \cup DocumentWriter \cup CommandRunner
       \cup ImageGeneration

Results(p) == {j \in Judgements : j.by = p}

----------------------------------------------------------------------------
(* Aggregation. *)

Heard == {Decision(results[i].opinion) : i \in DOMAIN results}

Said(opinion) == \E i \in DOMAIN results : results[i].opinion = opinion

\* _compute_aggregate_decision.
Aggregate ==
    IF "manual_review" \in Heard    THEN "manual_review"
    ELSE IF Heard = {"failed"}      THEN "failed"
    ELSE IF Heard = {"completed"}   THEN "completed"
    ELSE "partial"

\* VARIANT: a gap does not keep a verdict from being upgraded.
Upgraded_OverGap ==
    Aggregate = "partial" /\ "completed" \in Heard /\ "failed" \notin Heard

\* _should_upgrade_partial_to_completed.
Upgraded ==
    /\ Aggregate = "partial"
    /\ "completed" \in Heard
    /\ "failed" \notin Heard
    /\ ~Said("gap")

AggregateVerdict == IF Upgraded THEN "completed" ELSE Aggregate

\* VARIANT: the first result stands for the verdict.
Spokesman_First == {1}

\* _pick_primary_result: the results, by decision, that may stand for the
\* verdict; the first of the best kind is taken.
Spokesman ==
    LET Saying(d) == {i \in DOMAIN results : Decision(results[i].opinion) = d}
        best == IF AggregateVerdict # "partial" THEN AggregateVerdict
                ELSE IF "partial" \in Heard     THEN "partial"
                ELSE "failed"
    IN  {i \in Saying(best) : \A j \in Saying(best) : i <= j}

\* _map_final_task_status.
FinalTaskStatus ==
    CASE verdict \in {"completed", "partial"}      -> verdict
      [] verdict \in {"failed", "manual_review"}   -> "failed"
      [] OTHER                                     -> "none"

----------------------------------------------------------------------------
(* Steps. *)

RunValidator ==
    /\ queue # <<>> /\ verdict = "none"
    /\ \E r \in Results(Head(queue)) : results' = Append(results, r)
    /\ queue' = Tail(queue)
    /\ UNCHANGED <<called, evidence, verdict>>

\* A validator raised, when its model failed or gave no valid answer: there is
\* no verdict on what the others found.
ValidatorRaises ==
    /\ queue # <<>> /\ verdict = "none"
    /\ verdict' = "error"
    /\ UNCHANGED <<called, evidence, queue, results>>

\* Without a validator the call fails.
Conclude ==
    /\ queue = <<>> /\ verdict = "none"
    /\ verdict' = IF results = <<>> THEN "error" ELSE AggregateVerdict
    /\ UNCHANGED <<called, evidence, queue, results>>

ValidationNext == RunValidator \/ ValidatorRaises \/ Conclude

ValidationSpec == ValidationInit /\ [][ValidationNext]_validationVars

----------------------------------------------------------------------------
(* Safety. *)

Judged == verdict \in Decisions

\* A verdict rests on every agent whose work can be validated, each heard
\* once, called by the orchestrator or not: none of the files that are
\* promoted on it comes from an agent that nobody judged.
EveryoneIsHeard ==
    Judged =>
       /\ \A p \in Registered \ Ignored :
             Contains(evidence, p) =>
                \E i \in DOMAIN results : results[i].by = p
       /\ \A i, j \in DOMAIN results : results[i].by = results[j].by => i = j

\* A task is not closed as completed over a failure, a gap that was named, or
\* a demand for review, whichever validators agree otherwise.
CompletedIsUncontested ==
    FinalTaskStatus = "completed" =>
       Said("completed") /\ ~\E o \in {"failed", "gap", "manual_review"} : Said(o)

\* A model that cannot be asked approves of nothing: where a validator goes on
\* without an answer, no agreement of the others makes the task completed or
\* keeps a part of it.
OutageIsNoApproval ==
    (\E i \in DOMAIN results : ~results[i].answered) =>
       FinalTaskStatus \in {"failed", "none"}

\* The result whose summary and discipline are shown for the verdict never
\* claims more than the verdict.
Rank(d) == CASE d = "completed" -> 3 [] d = "partial" -> 2
             [] d = "failed" -> 1 [] d = "manual_review" -> 0

SpokesmanIsHonest ==
    Judged => \E i \in Spokesman :
                 /\ Spokesman = {i}
                 /\ Rank(Decision(results[i].opinion)) <= Rank(verdict)
----------------------------------------------------------------------------
(* What EveryoneIsHeard rests on: the results there are and the validators  *)
(* still to run are the selection, in its order.                            *)

HeardInOrder ==
    LET chosen == Selected(called, evidence)
    IN  /\ called \in Seq(Producers) /\ evidence \in Seq(Producers)
        /\ results \in Seq(Judgements) /\ queue \in Seq(Producers)
        /\ Len(results) + Len(queue) = Len(chosen)
        /\ \A i \in DOMAIN results : results[i].by = chosen[i]
        /\ \A i \in DOMAIN queue : queue[i] = chosen[Len(results) + i]
        /\ Judged => queue = <<>>
=============================================================================
