CONSTANTS
    Process = {"server", "command"}
    Row = {"r"}
    Table = {"rules", "account_balances"}
    Former <- MCFormer
    Rows <- MCRows
    LastSecond = 2
    Keep = 1
    MaxBackups = 2
    MaxStops = 1
    None = None
SPECIFICATION Spec
INVARIANTS
    TypeOK
    RowsKept
    SnapshotsWhole
    OwnSnapshotKept
CHECK_DEADLOCK FALSE
