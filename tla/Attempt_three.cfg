SPECIFICATION Spec
CONSTANTS
    Questions = {1}
    Naming = {1}
    Docs = {news, gov}
    NewsDocs = {news}
    WebDocs = {gov}
    Usable = {gov}
    Stale = {news}
    Official = {gov}
    Procs = {poll, batch, replay}
    Polls = {poll}
    Batches = {batch}
    Replays = {replay}
    None = None
    Strategies = 1
    Queries = 1
    WebClient = TRUE
    Prices = {1}
    Retain = TRUE
    Window = 0
    Budget = 1
    MaxTries = 2
    FailOnStale = TRUE
    MaxAttempts = 2
    MaxClock = 1
    MaxFaults = 1
INVARIANTS
    RecordsAreAttributable
    ReplaysAreFaithful
    NoHindsight
    EmptyEvidenceIsMarked
    ReportsAddUp
CHECK_DEADLOCK FALSE
