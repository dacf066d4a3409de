SPECIFICATION Spec
CONSTANTS
    model = model
    news = news
    later = later
    Calls = {model, news, later}
    Projects = {1, 2}
    ProjectOf <- MCProjectOf
    ProviderOf <- MCProviderOf
    EstimateOf <- MCEstimateOf
    Ceiling <- Tight
    SeriesCeiling = 4
    NewsCeiling = 3
    Understated = {}
    MaxReservations = 2
    MaxRestores = 2
    None = None
    Unpriced = Unpriced
INVARIANTS
    NoRepeatPurchase
    ChargesAreCounted
PROPERTIES
    ImplementsPurse
CHECK_DEADLOCK FALSE
