SPECIFICATION FairSpec
CONSTANTS
    Delays <- MCDelays
    Malformed = Malformed
    MaxNow <- MCMaxNow
INVARIANTS
    TypeOK
    HeadIsEarliest
    TailIsLatest
    NeverEarly
    FinishedInThePast
PROPERTIES
    NothingWithheld
    SettlesOnLatest
    NeverGoesBack
    Settles
    RunsBeforeFinishing
    ImplementsSchedule
