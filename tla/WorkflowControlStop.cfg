\* The statement of a document is checked against the code.
CONSTANTS
    MaxTask       = 2
    Jobs          = {1, 2}
    MaxIterations = 2
    MaxAstray     = 0
    Faults        = TRUE
SPECIFICATION FairSpec
CHECK_DEADLOCK FALSE
PROPERTY StopIsForThisWorkflow
