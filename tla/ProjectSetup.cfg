SPECIFICATION Spec
CONSTANTS
    RuntimeTypes = {"android_gradle", "go"}
    MaxChildren = 2
    MaxTasks = 5
    MaxWorkflows = 3
    MaxBlocks = 1
    MaxCrashes = 1
INVARIANTS
    OneDecomposition
    PlansInAProvenEnvironment
    ChatLeavesNoSession
PROPERTY FinishedWorkSurvives
\* Every bound may be used up.
CHECK_DEADLOCK FALSE
