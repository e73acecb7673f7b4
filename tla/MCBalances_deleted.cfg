CONSTANTS
    Movement = {"p"}
    Amount <- MCAmount
    Pending = {"p"}
    Before = 10
    LastDay = 2
    Reports <- MCReports
    Slip = {0}
    Act = {"delete"}
    MaxActs = 1
    MaxSyncs = 2
    None = None
SPECIFICATION Spec
INVARIANTS
    DeletionsExplained
CHECK_DEADLOCK FALSE
