CONSTANTS
    approve = approve
    approve2 = approve2
    reject = reject
    cancel = cancel
    reopen = reopen
    edit = edit
    body = body
    pick = pick
    run = run
    None = none
    Proc = {reject, pick}
    Mortal = {}
    Cmd <- MCCmd
SPECIFICATION TSpec
PROPERTY RejectionStands
CHECK_DEADLOCK FALSE
