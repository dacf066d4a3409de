SPECIFICATION FairSpec
CONSTANTS
    Records = {1}
    Questions = {"b"}
    Posts = {1}
    QuestionOf <- MCQuestionOf
    PostOf <- MCPostOf
    TypeOf <- MCTypeOf
    Admitted <- MCAdmitted
    Priced <- MCPriced
    Unposted = {1}
    Answers <- MaskedAnswers
    Sessions = {"timer", "operator"}
    Timers = {"timer"}
    MaxChanges = 2
    MaxVersions = 2
    MaxClock = 1
    MaxCommands = 1
    MaxFaults = 1
    Null = Null
INVARIANTS
    ScoresBelong
PROPERTIES
    ImplementsScoreboard
    NothingStaleIsScored
    LedgerCatchesUp
    ScoresCatchUp
    WithheldIsPushed
