SPECIFICATION FairSpec
CONSTANTS
    Records = {r1}
    Procs = {p1, p2}
    None = None
    Hand = Hand
    HandEntries = FALSE
    ReleaseRule = "settled"
    MaxReservations = 3
PROPERTIES
    NoBlindRetry
    LandedIsReported
    ClaimIsSettled
