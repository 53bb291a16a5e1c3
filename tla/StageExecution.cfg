SPECIFICATION Spec
CONSTANTS
    MaxTasks = 4
    Original = 2
    MaxBatches = 2
    MaxCreated = 2
    MaxIterations = 3
    MaxFinalizations = 1
    MaxWorkflows = 2
INVARIANTS
    PlanCoversWork
    WorkAhead
    ClosedIsComplete
PROPERTY MutationsKeepThePlan
CHECK_DEADLOCK FALSE
