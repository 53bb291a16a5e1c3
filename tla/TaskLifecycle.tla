--------------------------- MODULE TaskLifecycle ---------------------------
(***************************************************************************)
(* What the platform promises about one atomic task, whatever happens      *)
(* inside an attempt to execute it: an attempt begins only on a task that  *)
(* waits for one, ends with one of three results, and a result that counts *)
(* as work done is announced only when the work was delivered to the       *)
(* project's source tree.  A task may be left running for ever, by an      *)
(* attempt that dies; a completed task is never touched again.             *)
(***************************************************************************)
CONSTANT Work       \* the atomic tasks

VARIABLES
    state,          \* state[t]: where task t stands
    delivered       \* tasks with work in the source tree

vars == <<state, delivered>>

Results == {"completed", "partial", "failed"}

TypeOK ==
    /\ state \in [Work -> {"pending", "running"} \cup Results]
    /\ delivered \subseteq Work

Init ==
    /\ state = [t \in Work |-> "pending"]
    /\ delivered = {}

Begin(t) ==
    /\ state[t] \in {"pending", "failed"}
    /\ state' = [state EXCEPT ![t] = "running"]
    /\ UNCHANGED delivered

Deliver(t) ==
    /\ state[t] = "running"
    /\ delivered' = delivered \cup {t}
    /\ UNCHANGED state

Settle(t, result) ==
    /\ state[t] = "running"
    /\ result \in {"completed", "partial"} => t \in delivered
    /\ state' = [state EXCEPT ![t] = result]
    /\ UNCHANGED delivered

\* A reviewed task is given another chance.
Retry(t) ==
    /\ state[t] \in {"failed", "partial"}
    /\ state' = [state EXCEPT ![t] = "pending"]
    /\ UNCHANGED delivered

Next ==
    \E t \in Work :
       \/ Begin(t)
       \/ Deliver(t)
       \/ \E result \in Results : Settle(t, result)
       \/ Retry(t)

Spec == Init /\ [][Next]_vars
=============================================================================
