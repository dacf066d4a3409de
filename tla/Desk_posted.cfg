SPECIFICATION Spec
CONSTANTS
    Whole = 12
    Floor = 1
    Ceiling = 11
    Tolerance = 2
    MaxCategories = 3
    Points = 4
    MaxPoints = 5
    Levels <- MCLevels
    Alphabet <- MCAlphabet
    Renamed <- MCRenamed
    Questions <- MCQuestions
    Configs <- MCConfigs
    Sources <- MCSources
    Replies <- MCReplies
    Curves <- MCCurves
    Files <- MCFiles
    MaxTries = 2
    MaxDecisions = 2
INVARIANTS
    RefusalIsExact
    RecordedIsPostable
    PostedIsApproved
    VerdictIsTrue
CHECK_DEADLOCK FALSE
