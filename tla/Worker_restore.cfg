SPECIFICATION Spec
CONSTANTS
    Questions = {1}
    Versions = {1}
    Window = 0
    MaxQuestions = 1
    MaxAttempts = 2
    MaxActs = 2
    MaxEdits = 0
    MaxDeaths = 1
    MaxRestores = 1
    None = None
PROPERTIES
    ImplementsErrand
    VerdictsStand
