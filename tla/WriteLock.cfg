CONSTANTS
    w1 = w1
    w2 = w2
    w3 = w3
    none = none
    Proc = {w1, w2, w3}
    None = none
    Mortal = {w2}
    Killable = {w1}
    MaxTries = 2
SPECIFICATION FairSpec
INVARIANTS LockIsSound
PROPERTIES LiveOwnerKeepsLock MutexSpec NextWriterProceeds EveryScriptEnds
CHECK_DEADLOCK FALSE
