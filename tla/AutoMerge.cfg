SPECIFICATION ASpec
CONSTANTS
    None = None
    Proc = {m1, m2}
    Mortal = {m1}
    File = {"m", "n", "s"}
    Docs = {"m", "n"}
    Histories <- Repositories
    PlainCommits = FALSE
    MaxEdits = 2
    MaxCommits = 1
    MaxSwitches = 1
    MaxMoves = 2
INVARIANTS UnverifiedIsBlocked
PROPERTIES ExecutedIsWhatWasChecked RollbackIsExact
CHECK_DEADLOCK FALSE
