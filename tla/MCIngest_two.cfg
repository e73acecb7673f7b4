\* Two connections record at once.
SPECIFICATION FairSpec
CONSTANTS
    Account = {"card"}
    Text = {"auth", "cafe", "CAFE", "bar"}
    Ext = {"p1", "p2", "b1", "b2"}
    Note = {"mine"}
    None = None
    Incoming <- RaceIncoming
    Normalize <- MCNormalize
    Describes <- RaceDescribes
    Batches <- RaceBatches
    Writer = {w1, w2}
    MaxJobs = 3
    MaxEdits = 1
INVARIANTS BatchesWhole
PROPERTIES EveryJobEnds
CHECK_DEADLOCK FALSE
