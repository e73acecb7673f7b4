\* Two threads, the sync and a stop of the process meet on the document.
SPECIFICATION Spec
CONSTANTS
    Uid = {"u1", "u2"}
    Base = {"Conto", "Fineco"}
    Session = {"s1", "s2"}
    None = None
    Declared <- Installed
    Consents <- Shared
    Thread = {"t1", "t2"}
    Row = {1, 2, 3}
    Application = {"app"}
    Request = {"credentials", "connect", "rename", "remove", "add", "delete", "category", "rename_category"}
    MaxRequests = 2
    MaxStops = 1
INVARIANTS TypeOK EntriesApart SyncMends
PROPERTIES DocumentEdits CuratedKept UidKeepsRow
CHECK_DEADLOCK FALSE
