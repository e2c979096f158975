CONSTANTS
    Vehicles <- MCVehicles
    Pages = {"p"}
    StationTypes <- MCTypes
    Headings <- MCHeading
    MaxRun = 3
    UDPBuffer = 2
    PageBuffer = 2
SPECIFICATION FairSpec
INVARIANTS
    TypeOK
    OneMapPerServer
    NoGhost
    MapFirst
    IconRight
PROPERTY VehicleAppears
CHECK_DEADLOCK FALSE
