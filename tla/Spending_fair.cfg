SPECIFICATION FairSpec
CONSTANTS
    model = model
    news = news
    later = later
    Calls = {model, news, later}
    Projects = {1, 2}
    ProjectOf <- MCProjectOf
    ProviderOf <- MCProviderOf
    EstimateOf <- MCEstimateOf
    Ceiling <- Wide
    SeriesCeiling = 4
    NewsCeiling = 2
    Understated = {model}
    MaxReservations = 1
    MaxRestores = 1
    None = None
    Unpriced = Unpriced
INVARIANTS
    SeriesCeilingsHold
PROPERTIES
    SettlementStands
    RestoreEnds
    CreditsAreSettled
CHECK_DEADLOCK FALSE
