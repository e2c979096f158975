CONSTANTS
    Stations <- MCOneStation
    UpperKeys <- MCOneUpperKey
    UpperOf <- MCOneUpper
    Scanners = {}
    GNValues = {5}
    GNMod = 8
    Gap = 3
    AgeCheck = FALSE
    Logging = FALSE
    Expiry = 0
    TimeMod = 4
    CardMod = 4
    MaxTime = 1
SPECIFICATION Spec
PROPERTY SweepTakesOnlyOld
