SPECIFICATION ASpec
CONSTANTS
    None = None
    Proc = {m1}
    Mortal = {m1}
    File = {"m", "n", "s"}
    Docs = {"m", "n"}
    Histories <- Repositories
    PlainCommits = FALSE
    MaxEdits = 1
    MaxCommits = 1
    MaxSwitches = 0
    MaxMoves = 2
PROPERTY CommitsSurvive
CHECK_DEADLOCK FALSE
