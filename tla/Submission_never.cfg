SPECIFICATION Spec
CONSTANTS
    Records = {r1, r2}
    Procs = {p1, p2, p3}
    None = None
    Hand = Hand
    HandEntries = TRUE
    ReleaseRule = "never"
    MaxReservations = 2
SYMMETRY Symmetry
INVARIANTS
    OnePost
    SubmittedIsLive
    LandedIsRecoverable
PROPERTIES
    ImplementsPostOnce
