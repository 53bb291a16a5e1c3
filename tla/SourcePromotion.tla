--------------------------- MODULE SourcePromotion ---------------------------
(***************************************************************************)
(* The promotion of a run's workspace into the source tree of its project: *)
(* a staging copy, a swap of directories, a rollback, and the recovery     *)
(* that ensure_project_storage makes of what an interrupted promotion left *)
(* behind (local_workspace_runtime.py, project_storage.py).                *)
(*                                                                         *)
(* One thread at a time touches the directories.  A rename is one step; a  *)
(* copy or a removal of a tree takes two, with a partial tree between.     *)
(* The process may die between any two steps, and the operations in Faults *)
(* may fail.                                                               *)
(***************************************************************************)
EXTENDS FiniteSets

CONSTANTS
    Runs,       \* runs whose workspaces may be promoted
    NoRun,
    Faults      \* the kinds of operations that may fail

\* "retire", "swap", "rollback" and "recover" are the renames of a promotion,
\* of its rollback and of the recovery; "drop" is the removal of the backup
\* after the swap, "remove" and "sweep" are the other removals of a promotion
\* and of the recovery.
FaultKinds == {"copy", "retire", "swap", "drop", "remove", "rollback",
               "sweep", "recover"}

ASSUME PromotionAssumption ==
    /\ NoRun \notin Runs
    /\ Faults \subseteq FaultKinds

VARIABLES
    source,     \* the directory domain_data/source
    staging,    \* source.staging
    backup,     \* source.backup
    pc,         \* how far the call under way is
    run,        \* the run being promoted
    ready,      \* the storage was ensured since the last promotion
    fate        \* history: what became of the promotion of each run

dirs == <<source, staging, backup>>
vars == <<dirs, pc, run, ready, fate>>

Fates == {"none", "under way", "returned", "raised", "cut off"}
Promoted == {r \in Runs : fate[r] = "returned"}
Refused  == {r \in Runs : fate[r] = "raised"}

\* A directory is absent, or a tree: the runs whose overlay it has, and
\* whether it has all of its files.
Absent == [there |-> FALSE, runs |-> {}, whole |-> FALSE]
Tree(R, w) == [there |-> TRUE, runs |-> R, whole |-> w]
Dirs == {Absent} \cup [there : {TRUE}, runs : SUBSET Runs, whole : BOOLEAN]

\* Some of the files are gone, or not there yet.
Broken(d) == Tree(d.runs, FALSE)

\* The empty directory that mkdir makes of a source that is not there.
Empty == Tree({}, FALSE)

EnsurePoints  == {"sweeping", "swept", "orphan", "making"}
PromotePoints == {"staging", "copying", "retiring", "swapping", "dropping",
                  "rollback", "restore", "cleanup"}

TypeOK ==
    /\ source \in Dirs /\ staging \in Dirs /\ backup \in Dirs
    /\ pc \in {"idle"} \cup EnsurePoints \cup PromotePoints
    /\ run \in Runs \cup {NoRun}
    /\ ready \in BOOLEAN
    /\ fate \in [Runs -> Fates]
    /\ (run # NoRun) <=> (pc \in PromotePoints)
    /\ \A r \in Runs : (fate[r] = "under way") <=> (r = run)

Init ==
    /\ source = Tree({}, TRUE) /\ staging = Absent /\ backup = Absent
    /\ pc = "idle" /\ run = NoRun /\ ready = FALSE
    /\ fate = [r \in Runs |-> "none"]

----------------------------------------------------------------------------
(* ensure_project_storage: what fails in it is logged, and it goes on.      *)

Ensure ==
    /\ pc = "idle"
    /\ pc' = "sweeping"
    /\ UNCHANGED <<dirs, run, ready, fate>>

\* An orphaned staging directory is removed.
Sweep ==
    /\ pc = "sweeping"
    /\ \/ ~staging.there /\ UNCHANGED staging
       \/ staging.there /\ staging' = Absent
       \/ staging.there /\ "sweep" \in Faults /\ staging' = Broken(staging)
    /\ pc' = "swept"
    /\ UNCHANGED <<source, backup, run, ready, fate>>

\* VARIANT: the backup is dropped as soon as it is found.
Recover_DropsBackup ==
    /\ pc = "swept"
    /\ UNCHANGED <<source, staging, run, ready, fate>>
    /\ IF backup.there
       THEN backup' = Broken(backup) /\ pc' = "orphan"
       ELSE pc' = "making" /\ UNCHANGED backup

\* A source that is not there is recovered from the backup; a backup beside a
\* source is removed.
Recover ==
    /\ pc = "swept"
    /\ UNCHANGED <<staging, run, ready, fate>>
    /\ \/ ~backup.there /\ pc' = "making" /\ UNCHANGED <<source, backup>>
       \/ /\ backup.there /\ ~source.there
          /\ source' = backup /\ backup' = Absent
          /\ pc' = "making"
       \/ /\ backup.there /\ ~source.there /\ "recover" \in Faults
          /\ pc' = "making" /\ UNCHANGED <<source, backup>>
       \/ /\ backup.there /\ source.there
          /\ backup' = Broken(backup)
          /\ pc' = "orphan" /\ UNCHANGED source

\* The rest of the removal of the backup.
DropOrphan ==
    /\ pc = "orphan"
    /\ \/ backup' = Absent
       \/ "sweep" \in Faults /\ UNCHANGED backup
    /\ pc' = "making"
    /\ UNCHANGED <<source, staging, run, ready, fate>>

MakeSource ==
    /\ pc = "making"
    /\ source' = IF source.there THEN source ELSE Empty
    /\ ready' = TRUE
    /\ pc' = "idle"
    /\ UNCHANGED <<staging, backup, run, fate>>

----------------------------------------------------------------------------
(* promote_workspace_to_source. *)

End(how) ==
    /\ pc' = "idle" /\ run' = NoRun
    /\ fate' = [fate EXCEPT ![run] = how]
    /\ ready' = FALSE

Raise == End("raised")

Proceed(point) == pc' = point /\ UNCHANGED <<run, ready, fate>>

Promote(r) ==
    /\ pc = "idle" /\ ready
    /\ fate[r] = "none"
    /\ run' = r
    /\ fate' = [fate EXCEPT ![r] = "under way"]
    /\ pc' = "staging"
    /\ UNCHANGED <<dirs, ready>>

\* What an earlier call left is removed; a failure here leaves the call as it
\* is, and the rollback out.
BeginStaging ==
    /\ pc = "staging"
    /\ UNCHANGED source
    /\ \/ /\ staging' = Empty /\ backup' = Absent
          /\ Proceed("copying")
       \/ /\ "remove" \in Faults /\ staging.there
          /\ staging' = Broken(staging) /\ UNCHANGED backup
          /\ Raise
       \/ /\ "remove" \in Faults /\ backup.there
          /\ staging' = Absent /\ backup' = Broken(backup)
          /\ Raise

\* VARIANT: the overlay is laid on an empty directory.
Stage_OverlayOnly ==
    /\ pc = "copying"
    /\ \/ staging' = Tree({run}, TRUE) /\ Proceed("retiring")
       \/ "copy" \in Faults /\ UNCHANGED staging /\ Proceed("rollback")
    /\ UNCHANGED <<source, backup>>

\* The copy of the source with the overlay of the run.
Stage ==
    /\ pc = "copying"
    /\ \/ staging' = Tree(source.runs \cup {run}, source.whole) /\ Proceed("retiring")
       \/ "copy" \in Faults /\ UNCHANGED staging /\ Proceed("rollback")
    /\ UNCHANGED <<source, backup>>

\* source -> source.backup
Retire ==
    /\ pc = "retiring"
    /\ \/ backup' = source /\ source' = Absent /\ Proceed("swapping")
       \/ "retire" \in Faults /\ UNCHANGED <<source, backup>> /\ Proceed("rollback")
    /\ UNCHANGED staging

\* source.staging -> source
Swap ==
    /\ pc = "swapping"
    /\ \/ source' = staging /\ staging' = Absent /\ Proceed("dropping")
       \/ "swap" \in Faults /\ UNCHANGED <<source, staging>> /\ Proceed("rollback")
    /\ UNCHANGED backup

\* The backup is removed, the call returns.
DropBackup ==
    /\ pc = "dropping"
    /\ UNCHANGED <<source, staging>>
    /\ \/ backup.whole /\ backup' = Broken(backup) /\ Proceed("dropping")
       \/ ~backup.whole /\ backup' = Absent /\ End("returned")
       \/ "drop" \in Faults /\ UNCHANGED backup /\ Proceed("rollback")

\* A new source is removed if the backup is there, ...
Rollback ==
    /\ pc = "rollback"
    /\ UNCHANGED <<staging, backup>>
    /\ \/ source.there /\ backup.there /\ source' = Broken(source) /\ Proceed("restore")
       \/ ~source.there /\ backup.there /\ UNCHANGED source /\ Proceed("restore")
       \/ ~backup.there /\ UNCHANGED source /\ Proceed("cleanup")

\* ... and the backup becomes the source again.  If the rollback fails, the
\* call ends there.
Restore ==
    /\ pc = "restore"
    /\ \/ source' = backup /\ backup' = Absent /\ Proceed("cleanup")
       \/ "remove" \in Faults /\ source.there /\ UNCHANGED <<source, backup>> /\ Raise
       \/ "rollback" \in Faults /\ source' = Absent /\ UNCHANGED backup /\ Raise
    /\ UNCHANGED staging

Cleanup ==
    /\ pc = "cleanup"
    /\ \/ staging' = Absent
       \/ "remove" \in Faults /\ staging.there /\ staging' = Broken(staging)
    /\ Raise
    /\ UNCHANGED <<source, backup>>

----------------------------------------------------------------------------

\* The process dies.  A run whose promotion was cut off is not promoted again:
\* its task is executed by a new run.
Crash ==
    /\ pc' = "idle" /\ run' = NoRun /\ ready' = FALSE
    /\ fate' = [r \in Runs |-> IF r = run THEN "cut off" ELSE fate[r]]
    /\ UNCHANGED dirs

PromotionStep ==
    \/ BeginStaging
    \/ Stage
    \/ Retire
    \/ Swap
    \/ DropBackup
    \/ Rollback
    \/ Restore
    \/ Cleanup

EnsureStep ==
    \/ Sweep
    \/ Recover
    \/ DropOrphan
    \/ MakeSource

Next ==
    \/ Ensure
    \/ EnsureStep
    \/ \E r \in Runs : Promote(r)
    \/ PromotionStep
    \/ Crash

Spec == Init /\ [][Next]_vars

----------------------------------------------------------------------------
(* Safety. *)

AtRest == pc = "idle" /\ ready

\* Once the storage was ensured, as every reader of the source does first, the
\* source is a whole tree with every overlay that was promoted and none that
\* was refused: what the next task builds on.
SourceIsSound ==
    AtRest => /\ source.there /\ source.whole
              /\ Promoted \subseteq source.runs
              /\ source.runs \cap Refused = {}

\* At every moment, the swap and the ways back included, a whole tree is left
\* on disk that has all that was promoted.
SomeTreeSurvives ==
    \E d \in {source, backup} : d.there /\ d.whole /\ Promoted \subseteq d.runs

\* Whatever fails, an older tree never takes the place of a newer one: a
\* source with all of its files has all that was promoted, so a loss shows.
NoStaleSource ==
    source.there /\ source.whole => Promoted \subseteq source.runs

\* The tree a recovery at this moment would come to.
Surviving == IF source.there THEN source ELSE backup

(* The swap of directories is one step for whoever looks after a recovery. *)
Atomically == INSTANCE SourceTree WITH tree <- Surviving.runs

ImplementsSourceTree == Atomically!Spec

----------------------------------------------------------------------------
(* Why these are kept: the inductive invariants of the proofs.  The second  *)
(* needs the two operations whose failure the code does not survive.        *)

FreshTrees ==
    /\ TypeOK
    /\ NoStaleSource
    /\ backup.whole => Promoted \subseteq backup.runs
    /\ pc \in {"retiring", "swapping"} /\ staging.whole =>
          Promoted \cup {run} \subseteq staging.runs
    /\ pc = "dropping" /\ source.whole => run \in source.runs

Survivable == Faults \cap {"drop", "recover"} = {}

Kept(R) == \A r \in R : fate[r] \in {"returned", "cut off"}

\* One of the two trees is always the one to go on with, and which one follows
\* from how far the call is.
OneTree ==
    /\ source.there => source.whole
    /\ ~source.there => backup.there /\ backup.whole
    /\ pc \in {"orphan", "making", "staging", "copying", "retiring", "dropping"}
          => source.there
    /\ pc = "idle" /\ ready => source.there
    /\ pc \in {"swapping", "restore"} => ~source.there
    /\ pc \in {"copying", "retiring"} => ~backup.there
    /\ pc = "rollback" => ~(source.there /\ backup.there)

\* No tree has a run that was refused or is only on its way, except the new
\* source.
NothingRefused ==
    /\ Kept(backup.runs)
    /\ Kept(IF pc = "dropping" THEN source.runs \ {run} ELSE source.runs)

\* The staging tree adds its run to the tree it will replace.
StagingAddsRun ==
    pc \in {"retiring", "swapping"} =>
       /\ staging.there /\ staging.whole
       /\ staging.runs = Surviving.runs \cup {run}

PromotionInv == FreshTrees /\ OneTree /\ NothingRefused /\ StagingAddsRun
=============================================================================
