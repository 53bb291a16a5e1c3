SPECIFICATION Spec
CONSTANTS
    None = None
    NumRuns = 2
    Products = {"web_app", "mobile_android"}
    Registered = {"performance_qa_agent", "regression_qa_agent", "apk_installer", "synthesis_agent"}
    MaxRounds = 2
    MaxFindings = 2
    MaxPerAgent = 2
    MaxCompletions = 2
    MaxRefusals = 1
    MaxCrashes = 1
INVARIANTS
    CompletedHasItsFindings
    ReportFollowsResult
    RemediatedOncePerAnswer
    NoAgentDominates
PROPERTY EveryRunEnds
CHECK_DEADLOCK FALSE
