------------------------- MODULE MC_TaskExecution -------------------------
(***************************************************************************)
(* A project with one high-level task h, a refined task g below it, and    *)
(* two atomic tasks: a below g (two levels to consolidate) and b directly  *)
(* below h.                                                                *)
(***************************************************************************)
EXTENDS TaskExecution

MCTasks == {"h", "g", "a", "b"}

MCLevel == [t \in MCTasks |-> CASE t = "h" -> "high_level"
                                [] t = "g" -> "refined"
                                [] OTHER   -> "atomic"]

MCParentOf == [t \in MCTasks |-> CASE t = "h" -> NoTask
                                   [] t = "a" -> "g"
                                   [] OTHER   -> "h"]
=============================================================================
