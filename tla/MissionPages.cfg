CONSTANTS
    None = None
    p1 = p1
    p2 = p2
    c1 = c1
    c2 = c2
    tick = tick
    Codes <- MCCodes
    Pairings = {p1, p2}
    DeviceCount = 2
    MaxDevices = 1
    MaxRenewals = 1
    MaxCrashes = 1
    MaxPosts = 1
    MaxWire = 1
SPECIFICATION Spec
INVARIANTS TokensAreStored CodeReadsBack ReadersAgree PreviewIsFaithful BoardAgrees
PROPERTY RevokedStaysRevoked
CHECK_DEADLOCK FALSE
