\* Every order of at most two calls and of the evidence of four agents.
CONSTANTS
    Producers = {"code_change_agent", "command_runner_agent",
                 "image_generation_agent", "context_selection_agent"}
    MaxCalls  = 2
SPECIFICATION ValidationSpec
CHECK_DEADLOCK FALSE
INVARIANTS
    EveryoneIsHeard
    CompletedIsUncontested
    OutageIsNoApproval
    SpokesmanIsHonest
