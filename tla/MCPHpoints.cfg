CONSTANTS
    Positions <- MCPositions
    Headings <- MCTwoHeadings
    HalfTurn = 4
    MinDist = 1
    MaxDist = 2
    MaxHeading = 2
    Limit = 3
    StoredValues <- MCAnyStored
SPECIFICATION Spec
INVARIANTS
    TypeOK
    ReadsWritten
PROPERTY ImplementsPathHistory
