\* Four recovery tasks, at most two of them for one decision.
CONSTANTS
    a = a
    b = b
    p = p
    q = q
    Tasks         = {a, b, n1, n2, n3, n4}
    NoTask        = NoTask
    Original      <- MCOriginal
    Parents       = {p, q}
    ParentAtStart <- MCParentAtStart
    MaxCreated    = 2
SPECIFICATION Spec
CHECK_DEADLOCK FALSE
SYMMETRY RowSymmetry
INVARIANTS
    FollowupContinuesPartialWork
    ReplacementIsNotReplaced
    SourceStaysReplaced
    FollowupsEnd
