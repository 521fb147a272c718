CONSTANTS
    NoUrl = NoUrl
    NoTopic = NoTopic
    Topics = {"total", "love"}
    MaxRequests = 2
    MaxBack = 2
    Respoken = {"love"}
    Expiring = TRUE
    f1 = f1
    f2 = f2
    Paths = {f1, f2}
    Typable = {f1, f2}
    Sibling <- MCSibling
    Nothing = Nothing
    j1 = j1
    j2 = j2
    Jobs = {j1, j2}
    MaxTyped = 3
SYMMETRY MCAlike
SPECIFICATION MCSpec
INVARIANTS HeardIsShown ReadingIsLatest StageIsAwaited ButtonsAreTrue
CHECK_DEADLOCK FALSE
