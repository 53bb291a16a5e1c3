-------------------------- MODULE PostBatchDecision -------------------------
(***************************************************************************)
(* What follows from the evaluation of an executed batch: the answers of   *)
(* the evaluator its schema lets pass (schemas/evaluation.py), the intent  *)
(* they are resolved to (post_batch_decision_service.py), and the results  *)
(* the schema of the result lets pass (schemas/post_batch.py).             *)
(***************************************************************************)
EXTENDS Naturals

Decisions  == {"stage_completed", "stage_incomplete", "manual_review_required"}
Strategies == {"none", "reatomize_failed_tasks", "insert_followup_atomic_tasks",
               "replan_from_high_level", "manual_review"}
Scopes     == {"none", "local_resequencing", "remaining_plan_rebuild",
               "high_level_replan"}
Rebuilds   == {"local_resequencing", "remaining_plan_rebuild"}
Levels     == {"none", "atomic", "high_level"}

\* What the language model may answer.
Answers ==
    [decision : Decisions, closed : BOOLEAN, manual : BOOLEAN,
     strategy : Strategies, replan : Levels, followup : BOOLEAN,
     scope : Scopes, valid : BOOLEAN, blocking : {"unknown", "yes", "no"},
     tailRisk : BOOLEAN]

\* recommended_next_action is derived, never taken from the answer.
NextAction(a) ==
    CASE a.decision = "stage_completed" -> "close_stage"
      [] a.decision # "stage_completed" /\ a.manual -> "manual_review"
      [] a.decision # "stage_completed" /\ ~a.manual /\ a.replan = "high_level" ->
            "replan_remaining_work"
      [] a.decision # "stage_completed" /\ ~a.manual /\ a.replan # "high_level"
         /\ (\/ a.followup \/ a.replan = "atomic"
             \/ a.strategy \in {"reatomize_failed_tasks",
                                "insert_followup_atomic_tasks"}) ->
            "resequence_remaining_batches"
      [] OTHER -> "continue_current_plan"

FixedScope(a) ==
    CASE NextAction(a) \in {"close_stage", "continue_current_plan"} -> "none"
      [] NextAction(a) = "replan_remaining_work" -> "high_level_replan"
      [] NextAction(a) = "resequence_remaining_batches" ->
            IF a.scope \in Rebuilds THEN a.scope ELSE "local_resequencing"
      [] NextAction(a) = "manual_review" -> a.scope

FixedValid(a) ==
    CASE NextAction(a) = "replan_remaining_work" -> FALSE
      [] NextAction(a) = "manual_review" -> a.valid
      [] OTHER -> TRUE

\* StageEvaluationOutput.validate_output, after the corrections above.
Valid(a) ==
    /\ a.strategy = "insert_followup_atomic_tasks" => a.followup
    /\ a.strategy = "manual_review" => a.manual
    /\ a.strategy = "replan_from_high_level" => a.replan = "high_level"
    /\ a.strategy = "reatomize_failed_tasks" => a.replan # "high_level"
    /\ a.replan = "high_level" =>
          ~FixedValid(a) /\ FixedScope(a) = "high_level_replan"
    /\ a.decision = "stage_completed" =>
          /\ a.closed /\ ~a.manual /\ ~a.followup
          /\ a.strategy = "none" /\ a.replan = "none"
    /\ a.decision = "manual_review_required" => a.manual
    /\ a.decision = "stage_incomplete" => ~a.closed

\* An evaluation as far as the resolution looks at it
\* (build_post_batch_decision_signals).
Signals(a) ==
    [action |-> NextAction(a), closed |-> a.closed, manual |-> a.manual,
     valid |-> FixedValid(a), followup |-> a.followup,
     structural |-> \/ ~FixedValid(a)
                    \/ FixedScope(a) = "high_level_replan"
                    \/ a.replan = "high_level"
                    \/ a.strategy = "replan_from_high_level",
     rebuild |-> FixedScope(a) \in Rebuilds,
     blocking |-> a.blocking = "yes", tailRisk |-> a.tailRisk]

Evaluations == {Signals(a) : a \in {b \in Answers : Valid(b)}}

----------------------------------------------------------------------------
(* resolve_post_batch_intent.  new: recovery created tasks in this batch;   *)
(* old: other tasks are pending; final: the batch is the last of the plan.  *)

Resequences(s, new, old) ==
    \/ s.rebuild \/ s.action = "resequence_remaining_batches" \/ s.blocking
    \/ new /\ ~old /\ (s.followup \/ s.tailRisk)

Assigns(s, new, old) ==
    /\ s.valid /\ new /\ ~s.blocking
    /\ old \/ (s.action = "continue_current_plan" /\ ~s.rebuild)

Closes(s, new, final) ==
    /\ s.closed \/ s.action = "close_stage"
    /\ final /\ ~new

Continues(s, new) ==
    /\ s.valid /\ ~new /\ ~s.blocking /\ ~s.rebuild
    /\ s.action = "continue_current_plan"

Intent(type, continues, reopened) ==
    [type |-> type, continues |-> continues, reopened |-> reopened]

ManualReview == Intent("manual_review", FALSE, FALSE)
Replan       == Intent("replan", FALSE, TRUE)

\* The fallback of the resolution is a review nobody asked for.
Resolve(s, new, old, final) ==
    CASE s.manual -> ManualReview
      [] ~s.manual /\ s.structural -> Replan
      [] ~s.manual /\ ~s.structural /\ Resequences(s, new, old) ->
            Intent("resequence", FALSE, TRUE)
      [] ~s.manual /\ ~s.structural /\ ~Resequences(s, new, old)
         /\ Assigns(s, new, old) -> Intent("assign", TRUE, final)
      [] ~s.manual /\ ~s.structural /\ ~Resequences(s, new, old)
         /\ ~Assigns(s, new, old) /\ Closes(s, new, final) ->
            Intent("close", FALSE, FALSE)
      [] ~s.manual /\ ~s.structural /\ ~Resequences(s, new, old)
         /\ ~Assigns(s, new, old) /\ ~Closes(s, new, final)
         /\ Continues(s, new) -> Intent("continue", TRUE, FALSE)
      [] OTHER -> ManualReview

----------------------------------------------------------------------------
(* The result of the batch (process_batch_after_execution) and the          *)
(* validator of its schema (PostBatchResult.validate_result).               *)

\* A final batch that is reopened because work was assigned to the plan does
\* not count as a finalization; every other reopening does, up to max.
Counts(intent, final) == final /\ intent.reopened /\ intent.type # "assign"

Result(intent, final, count, max) ==
    LET guarded == Counts(intent, final) /\ count >= max
        status  == CASE guarded -> "finalization_guard_blocked"
                     [] ~guarded /\ intent.type = "close" -> "project_stage_closed"
                     [] ~guarded /\ final /\ intent.reopened ->
                           "finalization_reopened"
                     [] ~final /\ intent.type = "assign" ->
                           "completed_with_evaluation"
                     [] intent.type = "continue" -> "completed_with_evaluation"
                     [] OTHER -> "checkpoint_blocked"
    IN  [type      |-> IF guarded THEN "manual_review" ELSE intent.type,
         status    |-> status,
         guarded   |-> guarded,
         continues |-> intent.continues /\ ~guarded,
         count     |-> IF Counts(intent, final) /\ ~guarded
                       THEN count + 1 ELSE count]

\* A review comes without a new plan, and the evaluation or the guard asked
\* for it.
ReviewRejected(s, r, patched) ==
    r.type = "manual_review" /\ (patched \/ (~s.manual /\ ~r.guarded))

\* Only an evaluation that closed the stage closes it.
CloseRejected(s, r) == r.type = "close" /\ ~s.closed

\* And one that closed it goes with no other status.
ClosedRejected(s, r) ==
    s.closed /\ r.status \in {"finalization_reopened", "checkpoint_blocked",
                              "completed_with_evaluation"}

\* The results no object can be made of, among those that are asked for: the
\* ValidationError leaves the workflow.
Rejects(s, r, patched) ==
    ReviewRejected(s, r, patched) \/ CloseRejected(s, r) \/ ClosedRejected(s, r)
=============================================================================
