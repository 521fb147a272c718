CONSTANTS
    approve = approve
    approve2 = approve2
    reject = reject
    cancel = cancel
    reopen = reopen
    edit = edit
    body = body
    pick = pick
    run = run
    None = none
    Proc = {reject, cancel, reopen, edit, body}
    Mortal = {reject, body}
    Cmd <- MCCmd
SPECIFICATION TSpec
PROPERTIES RejectionStands NoLostUpdate AuditCommitsOwnChange
CHECK_DEADLOCK FALSE
