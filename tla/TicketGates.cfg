CONSTANTS
    approve = approve
    approve2 = approve2
    reject = reject
    cancel = cancel
    reopen = reopen
    edit = edit
    body = body
    pick = pick
    run = run
    None = none
    Proc = {approve, approve2, reject, cancel, pick, run}
    Mortal = {reject}
    Cmd <- MCCmd
SPECIFICATION TSpec
SYMMETRY Symmetry
INVARIANTS RejectedNeverRuns
PROPERTIES DecisionsAreFinal
CHECK_DEADLOCK FALSE
