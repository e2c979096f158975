CONSTANTS
    Stations <- MCOneStation
    UpperKeys <- MCOneUpperKey
    UpperOf <- MCOneUpper
    Scanners = {"json"}
    GNValues <- MCGNAround
    GNMod = 8
    Gap = 3
    AgeCheck = TRUE
    Logging = TRUE
    Expiry = 0
    TimeMod = 4
    CardMod = 4
    MaxTime = 1
SPECIFICATION Spec
PROPERTIES
    AgeCheckProtects
    AgeCheckKeepsNew
