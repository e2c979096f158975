--------------------------- MODULE DENMDescriptions ---------------------------
(*****************************************************************************)
(* The decentralized environmental notification messages: the descriptors    *)
(* of the ASN.1 module of the DENM (ETSI EN 302 637-3).                      *)
(*****************************************************************************)
EXTENDS ITSContainer

ImpactReductionContainer == Sequence(<<
    Member("heightLonCarrLeft", HeightLonCarr), Member("heightLonCarrRight", HeightLonCarr),
    Member("posLonCarrLeft", PosLonCarr), Member("posLonCarrRight", PosLonCarr),
    Member("positionOfPillars", PositionOfPillars), Member("posCentMass", PosCentMass),
    Member("wheelBaseVehicle", WheelBaseVehicle), Member("turningRadius", TurningRadius),
    Member("posFrontAx", PosFrontAx), Member("positionOfOccupants", PositionOfOccupants),
    Member("vehicleMass", VehicleMass),
    Member("requestResponseIndication", RequestResponseIndication)>>)
ReferenceDenms == ExtList(3, 1, 8, ActionID)
RoadWorksContainerExtended == Sequence(<<
    Optional("lightBarSirenInUse", LightBarSirenInUse), Optional("closedLanes", ClosedLanes),
    Optional("restriction", RestrictedTypes), Optional("speedLimit", SpeedLimit),
    Optional("incidentIndication", CauseCode), Optional("recommendedPath", ItineraryPath),
    Optional("startingPointSpeedLimit", DeltaReferencePosition),
    Optional("trafficFlowRule", TrafficRule), Optional("referenceDenms", ReferenceDenms)>>)
StationaryVehicleContainer == Sequence(<<
    Optional("stationarySince", StationarySince), Optional("stationaryCause", CauseCode),
    Optional("carryingDangerousGoods", DangerousGoodsExtended),
    Optional("numberOfOccupants", NumberOfOccupants),
    Optional("vehicleIdentification", VehicleIdentification),
    Optional("energyStorageType", EnergyStorageType)>>)
AlacarteContainer == ExtSequence(<<
    Optional("lanePosition", LanePosition),
    Optional("impactReduction", ImpactReductionContainer),
    Optional("externalTemperature", Temperature),
    Optional("roadWorks", RoadWorksContainerExtended),
    Optional("positioningSolution", PositioningSolutionType),
    Optional("stationaryVehicle", StationaryVehicleContainer)>>)
LocationContainer == ExtSequence(<<
    Optional("eventSpeed", Speed), Optional("eventPositionHeading", Heading),
    Member("traces", Traces), Optional("roadType", RoadType)>>)
Termination == Enum(1, 2)
ManagementContainer == ExtSequence(<<
    Member("actionID", ActionID), Member("detectionTime", TimestampIts),
    Member("referenceTime", TimestampIts), Optional("termination", Termination),
    Member("eventPosition", ReferencePosition),
    Optional("relevanceDistance", RelevanceDistance),
    Optional("relevanceTrafficDirection", RelevanceTrafficDirection),
    Default("validityDuration", ValidityDuration, 600),
    Optional("transmissionInterval", TransmissionInterval), Member("stationType", StationType)>>)
SituationContainer == ExtSequence(<<
    Member("informationQuality", InformationQuality), Member("eventType", CauseCode),
    Optional("linkedCause", CauseCode), Optional("eventHistory", EventHistory)>>)
DecentralizedEnvironmentalNotificationMessage == Sequence(<<
    Member("management", ManagementContainer), Optional("situation", SituationContainer),
    Optional("location", LocationContainer), Optional("alacarte", AlacarteContainer)>>)
DENM == Sequence(<<
    Member("header", ItsPduHeader),
    Member("denm", DecentralizedEnvironmentalNotificationMessage)>>)

DENMTypes == [
    ImpactReductionContainer |-> ImpactReductionContainer, ReferenceDenms |-> ReferenceDenms,
    RoadWorksContainerExtended |-> RoadWorksContainerExtended,
    StationaryVehicleContainer |-> StationaryVehicleContainer,
    AlacarteContainer |-> AlacarteContainer, LocationContainer |-> LocationContainer,
    Termination |-> Termination, ManagementContainer |-> ManagementContainer,
    SituationContainer |-> SituationContainer,
    DecentralizedEnvironmentalNotificationMessage |-> DecentralizedEnvironmentalNotificationMessage,
    DENM |-> DENM]
==============================================================================
