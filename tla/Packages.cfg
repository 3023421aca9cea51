CONSTANTS
    Nil = Nil
    DayLength = 3
    Workers = {w1, w2}
    Requests <- MCRequest
    RuleEvent <- MCRuleEvent
    Recordings <- MCRecordings
    Duration <- MCDuration
    Terms <- MCTerms
    Actors <- MCActors
    MaxTries = 2
    MaxDays = 1
    MaxSetbacks = 2
SPECIFICATION ArtifactsSpec
SYMMETRY Symmetry
CHECK_DEADLOCK FALSE
INVARIANTS
    KeyDeterminesBytes
    SuccessCoversRequest
    AccessibleHasItsBytes
    VerifiesItsEventOnly
    DeletionIsDue
