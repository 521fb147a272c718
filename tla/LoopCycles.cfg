CONSTANTS
    None = none
    Empty = empty
    s1 = s1
    s2 = s2
    s3 = s3
    t1 = t1
    t2 = t2
    Session = {s1, s2, s3}
    Ticket = {t1, t2}
    Unsafe = {t2}
    Needs <- Chain
    Target <- Picking
    DryStart = {s3}
    SafeStart = {s1}
    NoReserve = {}
    Isolated = FALSE
    Count = 2
    FailLimit = 3
    Careful = TRUE
    Env = {"kill", "term", "rm", "mode", "decide", "commit"}
    MaxCommits = 4
SPECIFICATION MCSpec
ACTION_CONSTRAINT Casts
PROPERTIES HeadlessUnderLock CompletionIsReal CycleKeepsToItsWork
CHECK_DEADLOCK FALSE
