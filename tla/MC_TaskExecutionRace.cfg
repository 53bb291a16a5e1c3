\* Two workers that may be given the same task.
CONSTANTS
    Tasks    <- MCTasks
    Level    <- MCLevel
    ParentOf <- MCParentOf
    NoTask   = NoTask
    NoRun    = NoRun
    Workers  = {w1, w2}
    Runs     = {r1, r2}
SPECIFICATION Spec
CHECK_DEADLOCK FALSE
INVARIANTS
    VerdictMatchesRun
    ClosedWorkIsEvidenced
    RunningIsOwned
