\* The former partner of a paired leg is deleted.
SPECIFICATION Spec
CONSTANTS
    Leg = {1, 2, 3}
    Account = {"A", "B", "C"}
    Iban = {"A", "B"}
    Facts <- ThreeFacts
    Category = {"Uncategorized"}
    Declarations <- ThreeDeclarations
    Destination = {"deposit"}
    Arrivals <- BookedArrivals
    Since = 1
    MaxGap = 2
    MaxRequests = 3
    None = None
PROPERTY DeletionKeepsOtherPairs
CHECK_DEADLOCK FALSE
