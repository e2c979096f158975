--------------------------- MODULE CAMDescriptions ---------------------------
(*****************************************************************************)
(* The cooperative awareness messages: the descriptors of the ASN.1 module   *)
(* of the CAM (ETSI EN 302 637-2), with the enhanced CAM of this code,       *)
(* whose parameters have a container of the node status besides.             *)
(*****************************************************************************)
EXTENDS ITSContainer

AuxilliaryLinkMac == OctetString
AuxilliaryLinkRSSI == Integer(23, -8000000, 10000)
BasicContainer == ExtSequence(<<
    Member("stationType", StationType), Member("referencePosition", ReferencePosition)>>)
BasicVehicleContainerHighFrequency == Sequence(<<
    Member("heading", Heading), Member("speed", Speed),
    Member("driveDirection", DriveDirection), Member("vehicleLength", VehicleLength),
    Member("vehicleWidth", VehicleWidth),
    Member("longitudinalAcceleration", LongitudinalAcceleration),
    Member("curvature", Curvature),
    Member("curvatureCalculationMode", CurvatureCalculationMode), Member("yawRate", YawRate),
    Optional("accelerationControl", AccelerationControl),
    Optional("lanePosition", LanePosition),
    Optional("steeringWheelAngle", SteeringWheelAngle),
    Optional("lateralAcceleration", LateralAcceleration),
    Optional("verticalAcceleration", VerticalAcceleration),
    Optional("performanceClass", PerformanceClass),
    Optional("cenDsrcTollingZone", CenDsrcTollingZone)>>)
BasicVehicleContainerLowFrequency == Sequence(<<
    Member("vehicleRole", VehicleRole), Member("exteriorLights", ExteriorLights),
    Member("pathHistory", PathHistory)>>)
RSUContainerHighFrequency == ExtSequence(<<
    Optional("protectedCommunicationZonesRSU", ProtectedCommunicationZonesRSU)>>)
HighFrequencyContainer == ExtChoice(1, <<
    Member("basicVehicleContainerHighFrequency", BasicVehicleContainerHighFrequency),
    Member("rsuContainerHighFrequency", RSUContainerHighFrequency)>>)
LowFrequencyContainer == ExtChoice(0, <<
    Member("basicVehicleContainerLowFrequency", BasicVehicleContainerLowFrequency)>>)
DangerousGoodsContainer == Sequence(<<
    Member("dangerousGoodsBasic", DangerousGoodsBasic)>>)
EmergencyContainer == Sequence(<<
    Member("lightBarSirenInUse", LightBarSirenInUse),
    Optional("incidentIndication", CauseCode),
    Optional("emergencyPriority", EmergencyPriority)>>)
PublicTransportContainer == Sequence(<<
    Member("embarkationStatus", EmbarkationStatus), Optional("ptActivation", PtActivation)>>)
RescueContainer == Sequence(<<Member("lightBarSirenInUse", LightBarSirenInUse)>>)
RoadWorksContainerBasic == Sequence(<<
    Optional("roadworksSubCauseCode", RoadworksSubCauseCode),
    Member("lightBarSirenInUse", LightBarSirenInUse), Optional("closedLanes", ClosedLanes)>>)
SafetyCarContainer == Sequence(<<
    Member("lightBarSirenInUse", LightBarSirenInUse),
    Optional("incidentIndication", CauseCode), Optional("trafficRule", TrafficRule),
    Optional("speedLimit", SpeedLimit)>>)
SpecialTransportContainer == Sequence(<<
    Member("specialTransportType", SpecialTransportType),
    Member("lightBarSirenInUse", LightBarSirenInUse)>>)
SpecialVehicleContainer == ExtChoice(3, <<
    Member("publicTransportContainer", PublicTransportContainer),
    Member("specialTransportContainer", SpecialTransportContainer),
    Member("dangerousGoodsContainer", DangerousGoodsContainer),
    Member("roadWorksContainerBasic", RoadWorksContainerBasic),
    Member("rescueContainer", RescueContainer),
    Member("emergencyContainer", EmergencyContainer),
    Member("safetyCarContainer", SafetyCarContainer)>>)
CamParameters == ExtSequence(<<
    Member("basicContainer", BasicContainer),
    Member("highFrequencyContainer", HighFrequencyContainer),
    Optional("lowFrequencyContainer", LowFrequencyContainer),
    Optional("specialVehicleContainer", SpecialVehicleContainer)>>)
GenerationDeltaTime == Integer(16, 0, 65535)
CoopAwareness == Sequence(<<
    Member("generationDeltaTime", GenerationDeltaTime), Member("camParameters", CamParameters)>>)
CAM == Sequence(<<Member("header", ItsPduHeader), Member("cam", CoopAwareness)>>)
CPULoad == Integer(14, 0, 10001)
GPULoad == Integer(14, 0, 10001)
IPAddr == OctetString
RAMLoad == Integer(19, 0, 512001)
ChannelNodeStatusContainer == ExtSequence(<<
    Optional("auxilliaryLinkMac", AuxilliaryLinkMac),
    Optional("auxilliaryLinkRSSI", AuxilliaryLinkRSSI), Optional("ipAddress", IPAddr),
    Optional("publicIpAddress", IPAddr), Member("cpuLoad", CPULoad),
    Member("ramLoad", RAMLoad), Member("gpuLoad", GPULoad),
    Optional("extraComputationDeviceCpuLoad", CPULoad),
    Optional("extraComputationDeviceRamLoad", RAMLoad),
    Optional("extraComputationDeciceGpuLoad", GPULoad)>>)
CamParametersEnhanced == ExtSequence(<<
    Member("basicContainer", BasicContainer),
    Member("highFrequencyContainer", HighFrequencyContainer),
    Optional("lowFrequencyContainer", LowFrequencyContainer),
    Optional("specialVehicleContainer", SpecialVehicleContainer),
    Optional("channelNodeStatusContainer", ChannelNodeStatusContainer)>>)
CoopAwarenessEnhanced == Sequence(<<
    Member("generationDeltaTime", GenerationDeltaTime),
    Member("camParameters", CamParametersEnhanced)>>)
CAMEnhanced == Sequence(<<
    Member("header", ItsPduHeader), Member("cam", CoopAwarenessEnhanced)>>)

CAMTypes == [
    AuxilliaryLinkMac |-> AuxilliaryLinkMac, AuxilliaryLinkRSSI |-> AuxilliaryLinkRSSI,
    BasicContainer |-> BasicContainer,
    BasicVehicleContainerHighFrequency |-> BasicVehicleContainerHighFrequency,
    BasicVehicleContainerLowFrequency |-> BasicVehicleContainerLowFrequency,
    RSUContainerHighFrequency |-> RSUContainerHighFrequency,
    HighFrequencyContainer |-> HighFrequencyContainer,
    LowFrequencyContainer |-> LowFrequencyContainer,
    DangerousGoodsContainer |-> DangerousGoodsContainer,
    EmergencyContainer |-> EmergencyContainer,
    PublicTransportContainer |-> PublicTransportContainer,
    RescueContainer |-> RescueContainer, RoadWorksContainerBasic |-> RoadWorksContainerBasic,
    SafetyCarContainer |-> SafetyCarContainer,
    SpecialTransportContainer |-> SpecialTransportContainer,
    SpecialVehicleContainer |-> SpecialVehicleContainer, CamParameters |-> CamParameters,
    GenerationDeltaTime |-> GenerationDeltaTime, CoopAwareness |-> CoopAwareness, CAM |-> CAM,
    CPULoad |-> CPULoad, GPULoad |-> GPULoad, IPAddr |-> IPAddr, RAMLoad |-> RAMLoad,
    ChannelNodeStatusContainer |-> ChannelNodeStatusContainer,
    CamParametersEnhanced |-> CamParametersEnhanced,
    CoopAwarenessEnhanced |-> CoopAwarenessEnhanced, CAMEnhanced |-> CAMEnhanced]
==============================================================================
