CONSTANTS
    None = none
    Empty = empty
    s1 = s1
    s2 = s2
    t1 = t1
    Session = {s1, s2}
    Ticket = {t1}
    Unsafe = {}
    Needs <- NoNeeds
    Target <- Picking
    DryStart = {}
    SafeStart = {}
    NoReserve = {}
    Isolated = FALSE
    Count = 2
    FailLimit = 2
    Careful = TRUE
    Env = {"rm", "other", "kill"}
    MaxCommits = 0
SPECIFICATION FairSpec
INVARIANTS ExitLeavesNothing OneRunnerPerTicket
PROPERTIES HaltWaitsForHuman EverySessionEnds
CHECK_DEADLOCK FALSE
