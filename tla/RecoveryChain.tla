--------------------------- MODULE RecoveryChain ---------------------------
(***************************************************************************)
(* What becomes of an atomic task that failed or was done only in part:    *)
(* the recovery decision of its batch creates tasks that replace it        *)
(* (reatomize) or that complete it (insert_followup), those are executed   *)
(* like any other, and may fail in turn (recovery_service.py).             *)
(*                                                                         *)
(* The decision is the answer of a language model; the service corrects    *)
(* it, so that the chain of recoveries ends with a person.                 *)
(***************************************************************************)
EXTENDS Naturals, FiniteSets

CONSTANTS
    Tasks,          \* the rows a behaviour can have
    NoTask,
    Original,       \* the rows the plan begins with
    Parents,        \* their parents
    ParentAtStart,  \* the parent of each original row
    MaxCreated      \* rows one decision creates at most

ASSUME RecoveryAssumption ==
    /\ IsFiniteSet(Tasks) /\ NoTask \notin Tasks
    /\ Original \subseteq Tasks
    /\ ParentAtStart \in [Original -> Parents]
    /\ MaxCreated \in Nat \ {0}

VARIABLES
    state,      \* state[t]: Task.status, "absent" before the row exists
    parent,     \* parent[t]: Task.parent_task_id
    recovery,   \* the tasks with is_recovery_task
    depth,      \* depth[t]: Task.followup_depth
    decided,    \* tasks a decision was made for since they last ran
    source,     \* history: the task t was created for, NoTask if original
    outcome     \* history: how the last execution of t ended

vars == <<state, parent, recovery, depth, decided, source, outcome>>
rows == <<parent, recovery, depth, source>>

Results  == {"completed", "partial", "failed"}
Replaced == {"reatomized", "followed_up"}
Actions  == {"reatomize", "insert_followup", "manual_review"}
MaxFollowupDepth == 2

Exists(t)     == state[t] # "absent"
Troubled(t)   == state[t] \in {"failed", "partial"}

TypeOK ==
    /\ state \in [Tasks -> {"absent", "pending"} \cup Results \cup Replaced]
    /\ parent \in [Tasks -> Parents \cup {NoTask}]
    /\ recovery \subseteq Tasks
    /\ depth \in [Tasks -> Nat]
    /\ decided \subseteq Tasks
    /\ source \in [Tasks -> Tasks \cup {NoTask}]
    /\ outcome \in [Tasks -> Results \cup {"none"}]

Init ==
    /\ state = [t \in Tasks |-> IF t \in Original THEN "pending" ELSE "absent"]
    /\ parent = [t \in Tasks |->
                   IF t \in Original THEN ParentAtStart[t] ELSE NoTask]
    /\ recovery = {} /\ decided = {}
    /\ depth = [t \in Tasks |-> 0]
    /\ source = [t \in Tasks |-> NoTask]
    /\ outcome = [t \in Tasks |-> "none"]

----------------------------------------------------------------------------
(* The corrections, in the order in which they are made. *)

\* VARIANT: work that failed may be followed up.
NothingToFollowUp_Never(t, action) == action

\* A failed task left no progress behind to follow up on.
NothingToFollowUp(t, action) ==
    IF state[t] = "failed" /\ action = "insert_followup"
    THEN "reatomize" ELSE action

\* VARIANT: a recovery task may be reatomized again.
AntiCascade_Never(t, action) == action

AntiCascade(t, action) ==
    IF t \in recovery /\ action = "reatomize" THEN "manual_review" ELSE action

\* VARIANT: one level more.
DepthCap_OffByOne(t, action) ==
    IF depth[t] > MaxFollowupDepth /\ action = "insert_followup"
    THEN "manual_review" ELSE action

DepthCap(t, action) ==
    IF depth[t] >= MaxFollowupDepth /\ action = "insert_followup"
    THEN "manual_review" ELSE action

\* Another recovery below the same parent already went wrong.
RepetitionCap(t, action) ==
    IF /\ action = "insert_followup"
       /\ \E u \in Tasks \ {t} : /\ Troubled(u) /\ parent[u] = parent[t]
                                 /\ u \in recovery \/ depth[u] > 0
    THEN "manual_review" ELSE action

EffectiveAction(t, action) ==
    RepetitionCap(t, DepthCap(t, AntiCascade(t, NothingToFollowUp(t, action))))

----------------------------------------------------------------------------

Execute(t) ==
    /\ state[t] = "pending"
    /\ \E r \in Results :
          /\ state' = [state EXCEPT ![t] = r]
          /\ outcome' = [outcome EXCEPT ![t] = r]
    /\ decided' = decided \ {t}
    /\ UNCHANGED rows

\* VARIANT: the source keeps its status.
MarkSource_Kept(t, N, action) ==
    state' = [u \in Tasks |-> IF u \in N THEN "pending" ELSE state[u]]

\* One commit creates the tasks of N and closes their source.
MarkSource(t, N, action) ==
    state' = [u \in Tasks |->
                 CASE u = t   -> IF action = "reatomize" THEN "reatomized"
                                                         ELSE "followed_up"
                   [] u \in N -> "pending"
                   [] OTHER   -> state[u]]

\* materialize_recovery_decision.
Materialize(t) ==
    /\ Troubled(t) /\ t \notin decided
    /\ decided' = decided \cup {t}
    /\ UNCHANGED outcome
    /\ \E proposed \in Actions :
          LET action == EffectiveAction(t, proposed) IN
          IF action = "manual_review"
          THEN UNCHANGED <<state, rows>>
          ELSE \E N \in SUBSET {u \in Tasks : ~Exists(u)} :
                 /\ N # {} /\ Cardinality(N) <= MaxCreated
                 /\ MarkSource(t, N, action)
                 /\ parent' = [u \in Tasks |->
                                 IF u \in N THEN parent[t] ELSE parent[u]]
                 /\ recovery' = IF action = "reatomize" THEN recovery \cup N
                                                        ELSE recovery
                 /\ depth' = [u \in Tasks |->
                                IF u \in N /\ action = "insert_followup"
                                THEN depth[t] + 1 ELSE depth[u]]
                 /\ source' = [u \in Tasks |->
                                 IF u \in N THEN t ELSE source[u]]

\* The user resolved the review of a task: it is tried again.
Retry(t) ==
    /\ Troubled(t) /\ t \in decided
    /\ state' = [state EXCEPT ![t] = "pending"]
    /\ UNCHANGED <<rows, decided, outcome>>

Next == \E t \in Tasks : Execute(t) \/ Materialize(t) \/ Retry(t)

Spec == Init /\ [][Next]_vars

----------------------------------------------------------------------------
(* Safety. *)

\* The tasks t comes from, itself included: a chain has no more links than
\* there are rows.
Lineage(t) ==
    LET up[n \in 0 .. Cardinality(Tasks)] ==
          IF n = 0 THEN {t}
          ELSE up[n - 1] \cup ({source[u] : u \in up[n - 1]} \ {NoTask})
    IN  up[Cardinality(Tasks)]

\* A follow-up completes work that was done in part, never work that failed,
\* whatever the model decided.
FollowupContinuesPartialWork ==
    \A t \in Tasks : depth[t] > 0 => outcome[source[t]] = "partial"

\* No task that replaces another is itself replaced by smaller ones.
ReplacementIsNotReplaced ==
    \A t \in recovery : source[t] \notin recovery

\* Work has one task responsible for it: once tasks were created for another,
\* that one is never executed again, so its work is not done twice.
SourceStaysReplaced ==
    \A t \in Tasks : source[t] # NoTask => state[source[t]] \in Replaced

\* A chain of follow-ups only, each made for the one before, has two links:
\* with the repetition cap it is the only way a chain grows without being
\* reatomized.
FollowupsEnd ==
    \A t \in Tasks :
       Cardinality({u \in Lineage(t) : depth[u] > 0}) > MaxFollowupDepth
          => Lineage(t) \cap recovery # {}

----------------------------------------------------------------------------
(* Why they are kept: the inductive invariant of the proofs.                *)

\* Rows that do not exist yet say nothing, and nobody comes from them.
AbsentIsBlank ==
    \A t \in Tasks : ~Exists(t) =>
       t \notin recovery /\ depth[t] = 0 /\ source[t] = NoTask

OutcomeIsStatus == \A t \in Tasks : Troubled(t) => outcome[t] = state[t]

FollowupsHaveASource ==
    \A t \in Tasks : depth[t] > 0 => source[t] # NoTask

RecoveriesHaveASource == \A t \in recovery : source[t] # NoTask

\* The number of follow-ups a row counts stops at the cap.
DepthIsCapped == \A t \in Tasks : depth[t] <= MaxFollowupDepth

\* A follow-up counts one more than the task it was made for; what bounds
\* the chains in FollowupsEnd.
DepthCounts ==
    \A t \in Tasks : source[t] # NoTask /\ t \notin recovery =>
                        depth[t] = depth[source[t]] + 1

ChainInv ==
    /\ TypeOK
    /\ AbsentIsBlank
    /\ OutcomeIsStatus
    /\ FollowupsHaveASource
    /\ RecoveriesHaveASource
    /\ DepthIsCapped
    /\ SourceStaysReplaced
    /\ FollowupContinuesPartialWork
    /\ ReplacementIsNotReplaced
=============================================================================
