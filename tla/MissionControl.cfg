CONSTANTS
    Tabs = {t1, t2}
    LocalTabs = {t1}
    Commands = {serve}
    Daemons = {serve}
    NoCommand = NoCommand
    MaxApprovals = 2
    MaxDeaths = 1
    MaxEchoes = 1
    Tickets = {1, 2}
    MaxMoves = 1
    MaxLoads = 2
    None = None
    Editors = {1}
    Texts = {x, z}
    TooLong = {z}
    Tails <- MCTails
    Nothing = Nothing
    Jobs = {1, 2}
    Interview_Max = 2
    TranscriptMax = 3
    Hasty = FALSE
    MaxClicks <- MCMaxClicks
    x = x
    z = z
    zTail = zTail
SPECIFICATION Spec
INVARIANTS OneRunPerConfirmation TurnCarriesItsAnswers ServedIsCurrent
PROPERTIES SuccessIsTrue BulkIsLowRisk ButtonsComeBack WaitingIsAnnounced
CHECK_DEADLOCK FALSE
