\* One account, two movements, a request of a person and one failure or stop.
SPECIFICATION FairSpec
CONSTANTS
    Account = {"a"}
    Movement = {"m1", "m2"}
    AccountOf <- BothOfA
    Configured <- Alone
    StartDate <- NoStart
    Thread = {"loop", "button"}
    Loop = "loop"
    ProcessOf <- Threads
    LastDay = 3
    Overlap = 1
    Backfill = 2
    Width = 4
    Periods <- WholeRange
    MaxAsked = 1
    MaxStops = 1
    None = None
INVARIANTS TypeOK WindowsTile
PROPERTIES NothingMissed WrittenThenLinked
CHECK_DEADLOCK FALSE
