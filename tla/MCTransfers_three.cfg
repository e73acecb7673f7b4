\* A sync, and a person, at work on the legs of one transfer.
SPECIFICATION FairSpec
CONSTANTS
    Leg = {1, 2, 3}
    Account = {"A", "B", "C"}
    Iban = {"A", "B"}
    Facts <- ThreeFacts
    Category = {"Uncategorized"}
    Declarations <- ThreeDeclarations
    Destination = {"deposit"}
    Arrivals <- ThreeArrivals
    Since = 1
    MaxGap = 2
    MaxRequests = 3
    None = None
INVARIANTS TypeOK PairsCleared ClearingNets
PROPERTIES RejectionStands PassEnds
CHECK_DEADLOCK FALSE
