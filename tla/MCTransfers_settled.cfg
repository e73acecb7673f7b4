\* A pending leg paired by hand settles.
SPECIFICATION Spec
CONSTANTS
    Leg = {1, 2, 3}
    Account = {"A", "B", "C"}
    Iban = {"A", "B"}
    Facts <- ThreeFacts
    Category = {"Uncategorized"}
    Declarations <- ThreeDeclarations
    Destination = {"deposit"}
    Arrivals <- ThreeArrivals
    Since = 1
    MaxGap = 2
    MaxRequests = 3
    None = None
INVARIANT ClearingAlwaysNets
CHECK_DEADLOCK FALSE
