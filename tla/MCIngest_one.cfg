\* One connection records; a person deletes, notes, decides and restores.
SPECIFICATION Spec
CONSTANTS
    Account = {"card"}
    Text = {"auth", "cafe", "CAFE", "bar"}
    Ext = {"p1", "p2", "b1", "b2"}
    Note = {"mine"}
    None = None
    Incoming <- CardIncoming
    Normalize <- MCNormalize
    Describes <- CardDescribes
    Batches <- CardBatches
    Writer = {w1}
    MaxJobs = 4
    MaxEdits = 3
INVARIANTS TypeOK PlanStillHolds SettledAccounted RowsBoundedByMovements
PROPERTIES SettledKept NotesKept RestoreKeepsIdentity DecidedOnce
CHECK_DEADLOCK FALSE
