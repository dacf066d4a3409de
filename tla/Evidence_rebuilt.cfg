SPECIFICATION Spec
CONSTANTS
    Baseline <- MCBaseline
    Retrievals <- MCRetrievals
    Lens <- MCLens
    Offers <- MCOffers
    Settings = {1}
    Reuse = 1
    MaxNow = 3
    MaxRecords = 2
INVARIANTS
    StoredIsStrongest
    PacketsAreReproducible
    ShadowsAddTheLens
    ReportsAreComponents
CHECK_DEADLOCK FALSE
