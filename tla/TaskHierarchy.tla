--------------------------- MODULE TaskHierarchy ---------------------------
(***************************************************************************)
(* The task rows of one project as a tree of at most three planning        *)
(* levels, and the deterministic consolidation of a parent's status from   *)
(* the statuses of its children (task_hierarchy_service.py).               *)
(*                                                                         *)
(* The module holds constants and operators only: the modules that change  *)
(* task rows EXTEND it.                                                    *)
(***************************************************************************)
EXTENDS Naturals, FiniteSets

CONSTANTS
    Tasks,      \* the task rows of the project
    NoTask,     \* the NULL of Task.parent_task_id
    Level,      \* Task.planning_level of each row
    ParentOf    \* Task.parent_task_id of each row

PlanningLevels == {"high_level", "refined", "atomic"}

\* A parent is on a strictly higher planning level than its children, so the
\* walk from a row to its root passes at most two parents.
LevelsAbove(l) == CASE l = "atomic"     -> {"high_level", "refined"}
                    [] l = "refined"    -> {"high_level"}
                    [] l = "high_level" -> {}

ASSUME HierarchyAssumption ==
    /\ NoTask \notin Tasks
    /\ Level \in [Tasks -> PlanningLevels]
    /\ ParentOf \in [Tasks -> Tasks \cup {NoTask}]
    /\ \A t \in Tasks :
          ParentOf[t] # NoTask => Level[ParentOf[t]] \in LevelsAbove(Level[t])

----------------------------------------------------------------------------
(* Statuses of a task row. *)

TerminalStatuses == {"partial", "completed", "failed", "reatomized",
                     "followed_up", "superseded", "cancelled"}

TaskStatuses == TerminalStatuses \cup
                {"pending", "running", "awaiting_validation", "awaiting_review"}

\* Statuses of work that produced something and is closed.
ProductiveTerminal == {"completed", "reatomized", "followed_up"}

Atomic == {t \in Tasks : Level[t] = "atomic"}
Groups == Tasks \ Atomic
Children(p) == {c \in Tasks : ParentOf[c] = p}

----------------------------------------------------------------------------
(* Consolidation. *)

\* The status a parent takes from the set S of its children's statuses; the
\* rules are tried in this order.
DerivedStatus(S) ==
    IF S \ TerminalStatuses # {}          THEN "pending"
    ELSE IF "failed" \in S                THEN "failed"
    ELSE IF "partial" \in S               THEN "partial"
    ELSE IF S \cap ProductiveTerminal # {} THEN "completed"
    ELSE "pending"

\* One parent; a row without children keeps its status.
ConsolidateOne(st, p) ==
    IF Children(p) = {} THEN st
    ELSE [st EXCEPT ![p] = DerivedStatus({st[c] : c \in Children(p)})]

\* VARIANT: the walk stops at the direct parent.
ConsolidateFrom_DirectParentOnly(st, p) ==
    IF p = NoTask THEN st ELSE ConsolidateOne(st, p)

\* The walk from p up to the root.
ConsolidateFrom(st, p) ==
    IF p = NoTask THEN st
    ELSE LET own == ConsolidateOne(st, p)
         IN  IF ParentOf[p] = NoTask THEN own
             ELSE ConsolidateOne(own, ParentOf[p])

\* What a parent's status must be once every write below it was consolidated.
Consolidated(st, p) ==
    Children(p) # {} => st[p] = DerivedStatus({st[c] : c \in Children(p)})

Descendants(p) ==
    {t \in Tasks : \/ ParentOf[t] = p
                   \/ /\ ParentOf[t] # NoTask
                      /\ ParentOf[ParentOf[t]] = p}
=============================================================================
