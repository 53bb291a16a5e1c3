\* One worker, as long as a project has one workflow thread.
CONSTANTS
    Tasks    <- MCTasks
    Level    <- MCLevel
    ParentOf <- MCParentOf
    NoTask   = NoTask
    NoRun    = NoRun
    Workers  = {w1}
    Runs     = {r1, r2, r3}
SPECIFICATION Spec
CHECK_DEADLOCK FALSE
INVARIANTS
    ParentsFollowChildren
    OneRetryPerTask
PROPERTY ImplementsLifecycle
