\* The default repair budget and fewer steps and calls than the default.
CONSTANTS
    Called     = {"context", "code", "command", "tests", "environment"}
    Engines    = {"orchestrated", "documentation"}
    MaxSteps   = 6
    MaxCalls   = 5
    MaxRepairs = 2
SPECIFICATION Spec
CHECK_DEADLOCK FALSE
INVARIANT SetupIsNotVerification
