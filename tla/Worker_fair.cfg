SPECIFICATION FairSpec
CONSTANTS
    Questions = {1}
    Versions = {1, 2}
    Window = 1
    MaxQuestions = 1
    MaxAttempts = 2
    MaxActs = 1
    MaxEdits = 2
    MaxDeaths = 0
    MaxRestores = 0
    None = None
INVARIANTS
    FailuresAreBounded
PROPERTIES
    QuestionsAreDecided
    ForecastsAreCommented
