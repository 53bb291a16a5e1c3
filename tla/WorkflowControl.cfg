\* One request is granted out of turn, so two workflows may be at work.
CONSTANTS
    MaxTask       = 2
    Jobs          = {1, 2}
    MaxIterations = 2
    MaxAstray     = 1
    Faults        = TRUE
SPECIFICATION FairSpec
CHECK_DEADLOCK FALSE
INVARIANTS
    WorkflowsAreAccountedFor
    WorkOnlyWhileExecuting
    
    PauseHoldsBackWork
PROPERTY WorkflowEnds
