----------------------------- MODULE ITSContainer -----------------------------
(*****************************************************************************)
(* The data elements and data frames of the ITS container (ETSI TS 102       *)
(* 894-2), one definition per generated descriptor asn_DEF_<type> of         *)
(* src/decoder-module/asn1/src, with the constraint function that guards     *)
(* the same bounds.                                                          *)
(*****************************************************************************)
EXTENDS ASN1Types

AccelerationConfidence == Integer(7, 0, 102)
AccelerationControl == BitString(0, 7, 7)
AccidentSubCauseCode == Integer(8, 0, 255)
SequenceNumber == Integer(16, 0, 65535)
StationID == WideInteger(32, <<2147483647, 1>>, TRUE)
ActionID == Sequence(<<
    Member("originatingStationID", StationID), Member("sequenceNumber", SequenceNumber)>>)
AdverseWeatherConditionAdhesionSubCauseCode == Integer(8, 0, 255)
AdverseWeatherConditionExtremeWeatherConditionSubCauseCode == Integer(8, 0, 255)
AdverseWeatherConditionPrecipitationSubCauseCode == Integer(8, 0, 255)
AdverseWeatherConditionVisibilitySubCauseCode == Integer(8, 0, 255)
AltitudeConfidence == Enum(4, 16)
AltitudeValue == Integer(20, -100000, 800001)
Altitude == Sequence(<<
    Member("altitudeValue", AltitudeValue), Member("altitudeConfidence", AltitudeConfidence)>>)
CauseCodeType == Integer(8, 0, 255)
SubCauseCodeType == Integer(8, 0, 255)
CauseCode == ExtSequence(<<
    Member("causeCode", CauseCodeType), Member("subCauseCode", SubCauseCodeType)>>)
CenDsrcTollingZoneID == Integer(27, 0, 134217727)
Latitude == Integer(31, -900000000, 900000001)
Longitude == WideInteger(32, <<1800000000, 1>>, FALSE)
CenDsrcTollingZone == ExtSequence(<<
    Member("protectedZoneLatitude", Latitude), Member("protectedZoneLongitude", Longitude),
    Optional("cenDsrcTollingZoneID", CenDsrcTollingZoneID)>>)
DrivingLaneStatus == BitString(4, 1, 13)
HardShoulderStatus == Enum(2, 3)
ClosedLanes == ExtSequence(<<
    Optional("innerhardShoulderStatus", HardShoulderStatus),
    Optional("outerhardShoulderStatus", HardShoulderStatus),
    Optional("drivingLaneStatus", DrivingLaneStatus)>>)
CollisionRiskSubCauseCode == Integer(8, 0, 255)
CurvatureConfidence == Enum(3, 8)
CurvatureValue == Integer(11, -1023, 1023)
Curvature == Sequence(<<
    Member("curvatureValue", CurvatureValue),
    Member("curvatureConfidence", CurvatureConfidence)>>)
CurvatureCalculationMode == ExtEnum(2, 3, 3)
DangerousEndOfQueueSubCauseCode == Integer(8, 0, 255)
DangerousGoodsBasic == Enum(5, 20)
PhoneNumber == Octets(4, 1, 16, 4, 11)
DangerousGoodsExtended == ExtSequence(<<
    Member("dangerousGoodsType", DangerousGoodsBasic),
    Member("unNumber", Integer(14, 0, 9999)), Member("elevatedTemperature", Bool),
    Member("tunnelsRestricted", Bool), Member("limitedQuantity", Bool),
    Optional("emergencyActionCode", Octets(5, 1, 24, 7, 128)),
    Optional("phoneNumber", PhoneNumber), Optional("companyName", Octets(-1, 0, 0, 8, 256))>>)
DangerousSituationSubCauseCode == Integer(8, 0, 255)
DeltaAltitude == Integer(15, -12700, 12800)
DeltaLatitude == Integer(18, -131071, 131072)
DeltaLongitude == Integer(18, -131071, 131072)
DeltaReferencePosition == Sequence(<<
    Member("deltaLatitude", DeltaLatitude), Member("deltaLongitude", DeltaLongitude),
    Member("deltaAltitude", DeltaAltitude)>>)
HeadingValue == Integer(12, 0, 3601)
SemiAxisLength == Integer(12, 0, 4095)
PosConfidenceEllipse == Sequence(<<
    Member("semiMajorConfidence", SemiAxisLength),
    Member("semiMinorConfidence", SemiAxisLength),
    Member("semiMajorOrientation", HeadingValue)>>)
ReferencePosition == Sequence(<<
    Member("latitude", Latitude), Member("longitude", Longitude),
    Member("positionConfidenceEllipse", PosConfidenceEllipse), Member("altitude", Altitude)>>)
DigitalMap == List(8, 1, 256, ReferencePosition)
DriveDirection == Enum(2, 3)
EmbarkationStatus == Bool
EmergencyPriority == BitString(0, 2, 2)
EmergencyVehicleApproachingSubCauseCode == Integer(8, 0, 255)
EnergyStorageType == BitString(0, 7, 7)
InformationQuality == Integer(3, 0, 7)
PathDeltaTime == ExtInteger(16, 1, 65535)
EventPoint == Sequence(<<
    Member("eventPosition", DeltaReferencePosition),
    Optional("eventDeltaTime", PathDeltaTime),
    Member("informationQuality", InformationQuality)>>)
EventHistory == List(5, 1, 23, EventPoint)
ExteriorLights == BitString(0, 8, 8)
HazardousLocationAnimalOnTheRoadSubCauseCode == Integer(8, 0, 255)
HazardousLocationDangerousCurveSubCauseCode == Integer(8, 0, 255)
HazardousLocationObstacleOnTheRoadSubCauseCode == Integer(8, 0, 255)
HazardousLocationSurfaceConditionSubCauseCode == Integer(8, 0, 255)
HeadingConfidence == Integer(7, 1, 127)
Heading == Sequence(<<
    Member("headingValue", HeadingValue), Member("headingConfidence", HeadingConfidence)>>)
HeightLonCarr == Integer(7, 1, 100)
HumanPresenceOnTheRoadSubCauseCode == Integer(8, 0, 255)
HumanProblemSubCauseCode == Integer(8, 0, 255)
ItineraryPath == List(6, 1, 40, ReferencePosition)
ItsPduHeader == Sequence(<<
    Member("protocolVersion", Integer(8, 0, 255)), Member("messageID", Integer(8, 0, 255)),
    Member("stationID", StationID)>>)
LanePosition == Integer(4, -1, 14)
LateralAccelerationValue == Integer(9, -160, 161)
LateralAcceleration == Sequence(<<
    Member("lateralAccelerationValue", LateralAccelerationValue),
    Member("lateralAccelerationConfidence", AccelerationConfidence)>>)
LightBarSirenInUse == BitString(0, 2, 2)
LongitudinalAccelerationValue == Integer(9, -160, 161)
LongitudinalAcceleration == Sequence(<<
    Member("longitudinalAccelerationValue", LongitudinalAccelerationValue),
    Member("longitudinalAccelerationConfidence", AccelerationConfidence)>>)
NumberOfOccupants == Integer(7, 0, 127)
OpeningDaysHours == OctetString
PathPoint == Sequence(<<
    Member("pathPosition", DeltaReferencePosition), Optional("pathDeltaTime", PathDeltaTime)>>)
PathHistory == List(6, 0, 40, PathPoint)
PerformanceClass == Integer(3, 0, 7)
PosCentMass == Integer(6, 1, 63)
PosFrontAx == Integer(5, 1, 20)
PosLonCarr == Integer(7, 1, 127)
PosPillar == Integer(5, 1, 30)
PositionOfOccupants == BitString(0, 20, 20)
PositionOfPillars == ExtList(2, 1, 3, PosPillar)
PositioningSolutionType == ExtEnum(3, 6, 6)
PostCrashSubCauseCode == Integer(8, 0, 255)
ProtectedZoneID == Integer(27, 0, 134217727)
ProtectedZoneRadius == ExtInteger(8, 1, 255)
ProtectedZoneType == ExtEnum(0, 1, 2)
TimestampIts == WideInteger(42, <<2147483647, 2047>>, FALSE)
ProtectedCommunicationZone == ExtSequence(<<
    Member("protectedZoneType", ProtectedZoneType), Optional("expiryTime", TimestampIts),
    Member("protectedZoneLatitude", Latitude), Member("protectedZoneLongitude", Longitude),
    Optional("protectedZoneRadius", ProtectedZoneRadius),
    Optional("protectedZoneID", ProtectedZoneID)>>)
ProtectedCommunicationZonesRSU == List(4, 1, 16, ProtectedCommunicationZone)
PtActivationData == Octets(5, 1, 20, 8, 256)
PtActivationType == Integer(8, 0, 255)
PtActivation == Sequence(<<
    Member("ptActivationType", PtActivationType), Member("ptActivationData", PtActivationData)>>)
RelevanceDistance == Enum(3, 8)
RelevanceTrafficDirection == Enum(2, 4)
RequestResponseIndication == Enum(1, 2)
RescueAndRecoveryWorkInProgressSubCauseCode == Integer(8, 0, 255)
StationType == Integer(8, 0, 255)
RestrictedTypes == ExtList(2, 1, 3, StationType)
RoadType == Enum(2, 4)
RoadworksSubCauseCode == Integer(8, 0, 255)
SignalViolationSubCauseCode == Integer(8, 0, 255)
SlowVehicleSubCauseCode == Integer(8, 0, 255)
SpecialTransportType == BitString(0, 4, 4)
SpeedConfidence == Integer(7, 1, 127)
SpeedValue == Integer(14, 0, 16383)
Speed == Sequence(<<
    Member("speedValue", SpeedValue), Member("speedConfidence", SpeedConfidence)>>)
SpeedLimit == Integer(8, 1, 255)
StationarySince == Enum(2, 4)
StationaryVehicleSubCauseCode == Integer(8, 0, 255)
SteeringWheelAngleConfidence == Integer(7, 1, 127)
SteeringWheelAngleValue == Integer(10, -511, 512)
SteeringWheelAngle == Sequence(<<
    Member("steeringWheelAngleValue", SteeringWheelAngleValue),
    Member("steeringWheelAngleConfidence", SteeringWheelAngleConfidence)>>)
Temperature == Integer(7, -60, 67)
Traces == List(3, 1, 7, PathHistory)
TrafficConditionSubCauseCode == Integer(8, 0, 255)
TrafficRule == ExtEnum(2, 4, 4)
TransmissionInterval == Integer(14, 1, 10000)
TurningRadius == Integer(8, 1, 255)
VDS == Octets(0, 6, 6, 7, 128)
ValidityDuration == Integer(17, 0, 86400)
VehicleBreakdownSubCauseCode == Integer(8, 0, 255)
WMInumber == Octets(2, 1, 3, 7, 128)
VehicleIdentification == ExtSequence(<<
    Optional("wMInumber", WMInumber), Optional("vDS", VDS)>>)
VehicleLengthConfidenceIndication == Enum(3, 5)
VehicleLengthValue == Integer(10, 1, 1023)
VehicleLength == Sequence(<<
    Member("vehicleLengthValue", VehicleLengthValue),
    Member("vehicleLengthConfidenceIndication", VehicleLengthConfidenceIndication)>>)
VehicleMass == Integer(10, 1, 1024)
VehicleRole == Enum(4, 16)
VehicleWidth == Integer(6, 1, 62)
VerticalAccelerationValue == Integer(9, -160, 161)
VerticalAcceleration == Sequence(<<
    Member("verticalAccelerationValue", VerticalAccelerationValue),
    Member("verticalAccelerationConfidence", AccelerationConfidence)>>)
WheelBaseVehicle == Integer(7, 1, 127)
WrongWayDrivingSubCauseCode == Integer(8, 0, 255)
YawRateConfidence == Enum(4, 9)
YawRateValue == Integer(16, -32766, 32767)
YawRate == Sequence(<<
    Member("yawRateValue", YawRateValue), Member("yawRateConfidence", YawRateConfidence)>>)

ITSTypes == [
    AccelerationConfidence |-> AccelerationConfidence,
    AccelerationControl |-> AccelerationControl,
    AccidentSubCauseCode |-> AccidentSubCauseCode, SequenceNumber |-> SequenceNumber,
    StationID |-> StationID, ActionID |-> ActionID,
    AdverseWeatherConditionAdhesionSubCauseCode |-> AdverseWeatherConditionAdhesionSubCauseCode,
    AdverseWeatherConditionExtremeWeatherConditionSubCauseCode |-> AdverseWeatherConditionExtremeWeatherConditionSubCauseCode,
    AdverseWeatherConditionPrecipitationSubCauseCode |-> AdverseWeatherConditionPrecipitationSubCauseCode,
    AdverseWeatherConditionVisibilitySubCauseCode |-> AdverseWeatherConditionVisibilitySubCauseCode,
    AltitudeConfidence |-> AltitudeConfidence, AltitudeValue |-> AltitudeValue,
    Altitude |-> Altitude, CauseCodeType |-> CauseCodeType,
    SubCauseCodeType |-> SubCauseCodeType, CauseCode |-> CauseCode,
    CenDsrcTollingZoneID |-> CenDsrcTollingZoneID, Latitude |-> Latitude,
    Longitude |-> Longitude, CenDsrcTollingZone |-> CenDsrcTollingZone,
    DrivingLaneStatus |-> DrivingLaneStatus, HardShoulderStatus |-> HardShoulderStatus,
    ClosedLanes |-> ClosedLanes, CollisionRiskSubCauseCode |-> CollisionRiskSubCauseCode,
    CurvatureConfidence |-> CurvatureConfidence, CurvatureValue |-> CurvatureValue,
    Curvature |-> Curvature, CurvatureCalculationMode |-> CurvatureCalculationMode,
    DangerousEndOfQueueSubCauseCode |-> DangerousEndOfQueueSubCauseCode,
    DangerousGoodsBasic |-> DangerousGoodsBasic, PhoneNumber |-> PhoneNumber,
    DangerousGoodsExtended |-> DangerousGoodsExtended,
    DangerousSituationSubCauseCode |-> DangerousSituationSubCauseCode,
    DeltaAltitude |-> DeltaAltitude, DeltaLatitude |-> DeltaLatitude,
    DeltaLongitude |-> DeltaLongitude, DeltaReferencePosition |-> DeltaReferencePosition,
    HeadingValue |-> HeadingValue, SemiAxisLength |-> SemiAxisLength,
    PosConfidenceEllipse |-> PosConfidenceEllipse, ReferencePosition |-> ReferencePosition,
    DigitalMap |-> DigitalMap, DriveDirection |-> DriveDirection,
    EmbarkationStatus |-> EmbarkationStatus, EmergencyPriority |-> EmergencyPriority,
    EmergencyVehicleApproachingSubCauseCode |-> EmergencyVehicleApproachingSubCauseCode,
    EnergyStorageType |-> EnergyStorageType, InformationQuality |-> InformationQuality,
    PathDeltaTime |-> PathDeltaTime, EventPoint |-> EventPoint, EventHistory |-> EventHistory,
    ExteriorLights |-> ExteriorLights,
    HazardousLocationAnimalOnTheRoadSubCauseCode |-> HazardousLocationAnimalOnTheRoadSubCauseCode,
    HazardousLocationDangerousCurveSubCauseCode |-> HazardousLocationDangerousCurveSubCauseCode,
    HazardousLocationObstacleOnTheRoadSubCauseCode |-> HazardousLocationObstacleOnTheRoadSubCauseCode,
    HazardousLocationSurfaceConditionSubCauseCode |-> HazardousLocationSurfaceConditionSubCauseCode,
    HeadingConfidence |-> HeadingConfidence, Heading |-> Heading,
    HeightLonCarr |-> HeightLonCarr,
    HumanPresenceOnTheRoadSubCauseCode |-> HumanPresenceOnTheRoadSubCauseCode,
    HumanProblemSubCauseCode |-> HumanProblemSubCauseCode, ItineraryPath |-> ItineraryPath,
    ItsPduHeader |-> ItsPduHeader, LanePosition |-> LanePosition,
    LateralAccelerationValue |-> LateralAccelerationValue,
    LateralAcceleration |-> LateralAcceleration, LightBarSirenInUse |-> LightBarSirenInUse,
    LongitudinalAccelerationValue |-> LongitudinalAccelerationValue,
    LongitudinalAcceleration |-> LongitudinalAcceleration,
    NumberOfOccupants |-> NumberOfOccupants, OpeningDaysHours |-> OpeningDaysHours,
    PathPoint |-> PathPoint, PathHistory |-> PathHistory,
    PerformanceClass |-> PerformanceClass, PosCentMass |-> PosCentMass,
    PosFrontAx |-> PosFrontAx, PosLonCarr |-> PosLonCarr, PosPillar |-> PosPillar,
    PositionOfOccupants |-> PositionOfOccupants, PositionOfPillars |-> PositionOfPillars,
    PositioningSolutionType |-> PositioningSolutionType,
    PostCrashSubCauseCode |-> PostCrashSubCauseCode, ProtectedZoneID |-> ProtectedZoneID,
    ProtectedZoneRadius |-> ProtectedZoneRadius, ProtectedZoneType |-> ProtectedZoneType,
    TimestampIts |-> TimestampIts, ProtectedCommunicationZone |-> ProtectedCommunicationZone,
    ProtectedCommunicationZonesRSU |-> ProtectedCommunicationZonesRSU,
    PtActivationData |-> PtActivationData, PtActivationType |-> PtActivationType,
    PtActivation |-> PtActivation, RelevanceDistance |-> RelevanceDistance,
    RelevanceTrafficDirection |-> RelevanceTrafficDirection,
    RequestResponseIndication |-> RequestResponseIndication,
    RescueAndRecoveryWorkInProgressSubCauseCode |-> RescueAndRecoveryWorkInProgressSubCauseCode,
    StationType |-> StationType, RestrictedTypes |-> RestrictedTypes, RoadType |-> RoadType,
    RoadworksSubCauseCode |-> RoadworksSubCauseCode,
    SignalViolationSubCauseCode |-> SignalViolationSubCauseCode,
    SlowVehicleSubCauseCode |-> SlowVehicleSubCauseCode,
    SpecialTransportType |-> SpecialTransportType, SpeedConfidence |-> SpeedConfidence,
    SpeedValue |-> SpeedValue, Speed |-> Speed, SpeedLimit |-> SpeedLimit,
    StationarySince |-> StationarySince,
    StationaryVehicleSubCauseCode |-> StationaryVehicleSubCauseCode,
    SteeringWheelAngleConfidence |-> SteeringWheelAngleConfidence,
    SteeringWheelAngleValue |-> SteeringWheelAngleValue,
    SteeringWheelAngle |-> SteeringWheelAngle, Temperature |-> Temperature, Traces |-> Traces,
    TrafficConditionSubCauseCode |-> TrafficConditionSubCauseCode,
    TrafficRule |-> TrafficRule, TransmissionInterval |-> TransmissionInterval,
    TurningRadius |-> TurningRadius, VDS |-> VDS, ValidityDuration |-> ValidityDuration,
    VehicleBreakdownSubCauseCode |-> VehicleBreakdownSubCauseCode, WMInumber |-> WMInumber,
    VehicleIdentification |-> VehicleIdentification,
    VehicleLengthConfidenceIndication |-> VehicleLengthConfidenceIndication,
    VehicleLengthValue |-> VehicleLengthValue, VehicleLength |-> VehicleLength,
    VehicleMass |-> VehicleMass, VehicleRole |-> VehicleRole, VehicleWidth |-> VehicleWidth,
    VerticalAccelerationValue |-> VerticalAccelerationValue,
    VerticalAcceleration |-> VerticalAcceleration, WheelBaseVehicle |-> WheelBaseVehicle,
    WrongWayDrivingSubCauseCode |-> WrongWayDrivingSubCauseCode,
    YawRateConfidence |-> YawRateConfidence, YawRateValue |-> YawRateValue,
    YawRate |-> YawRate]
==============================================================================
