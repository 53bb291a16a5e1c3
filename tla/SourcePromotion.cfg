\* Copies and renames of a promotion may fail; the process may die anywhere.
CONSTANTS
    Runs   = {r1, r2, r3}
    NoRun  = NoRun
    Faults = {"copy", "retire", "swap", "remove", "rollback", "sweep"}
SPECIFICATION Spec
CHECK_DEADLOCK FALSE
INVARIANTS
    SourceIsSound
    SomeTreeSurvives
    NoStaleSource
PROPERTY ImplementsSourceTree
