SPECIFICATION Spec
CONSTANTS
    Questions = {1}
    Versions = {1}
    Window = 1
    MaxQuestions = 1
    MaxAttempts = 3
    MaxActs = 1
    MaxEdits = 0
    MaxDeaths = 0
    MaxRestores = 0
    None = None
INVARIANTS
    RecordedIsNotExhausted
