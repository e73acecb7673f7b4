CONSTANTS
    Movement = {"p", "q"}
    Amount <- MCAmount
    Pending = {"p"}
    Before = 10
    LastDay = 2
    Reports <- MCReports
    Slip = {0}
    Act = {"delete", "declare", "align", "stop"}
    MaxActs = 2
    MaxSyncs = 2
    None = None
SPECIFICATION Spec
INVARIANTS
    TypeOK
    ChecksExplained
    DeclarationStands
CHECK_DEADLOCK FALSE
