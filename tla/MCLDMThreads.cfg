CONSTANTS
    Stations <- MCStations
    UpperKeys <- MCOneUpperKey
    UpperOf <- MCSameUpper
    Scanners = {"viz"}
    GNValues = {5}
    GNMod = 8
    Gap = 3
    AgeCheck = FALSE
    Logging = FALSE
    Expiry = 0
    TimeMod = 4
    CardMod = 3
    MaxTime = 1
SPECIFICATION FairSpec
INVARIANTS
    TypeOK
    IteratorsValid
    MarkersTracked
PROPERTIES
    ExpiredGoes
    MessageHandled
