SPECIFICATION RSpec
CONSTANTS
    None = None
    Proc = {r1, r2}
    Mortal = {r1}
    Branch = {"main", "side"}
    File = {"a", "b"}
    Histories <- AllTrees
    MaxCommits = 1
    MaxEdits = 1
    MaxSwitches = 1
    MaxCycles = 1
    MaxMoves = 3
INVARIANTS FailureIsRecoverable
PROPERTIES RecordGoesWithWork WorkSurvives
CHECK_DEADLOCK FALSE
