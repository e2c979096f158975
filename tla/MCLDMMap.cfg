CONSTANTS
    o1 = o1
    o2 = o2
    o3 = o3
    Stations <- MCStations
    KeyBase = 2
    CardMod = 3
    TimeMod = 8
    Objects <- MCObjects
    Positions <- MCPositions
    RangeM = 1
    Expiry = 1
    RemoveIds <- MCRemoveLow
    ClockStepsBack = FALSE
    MaxTime = 2
SPECIFICATION Spec
INVARIANTS
    TypeOK
    CardExact
    HistoriesOwned
PROPERTY ImplementsVehicleStore
