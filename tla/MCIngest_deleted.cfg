\* Two pending payments of one amount; the settled one is deleted.
SPECIFICATION Spec
CONSTANTS
    Account = {"card"}
    Text = {"auth", "cafe", "CAFE", "bar"}
    Ext = {"p1", "p2", "b1", "b2"}
    Note = {"mine"}
    None = None
    Incoming <- CardIncoming
    Normalize <- MCNormalize
    Describes <- CardDescribes
    Batches <- SyncBatches
    Writer = {w1}
    MaxJobs = 4
    MaxEdits = 1
PROPERTY DeletedStaysOut
CHECK_DEADLOCK FALSE
