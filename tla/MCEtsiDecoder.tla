---------------------------- MODULE MCEtsiDecoder ----------------------------
(* Instances of EtsiDecoder for TLC, with the codec of EtsiCodec.            *)
EXTENDS EtsiDecoder, EtsiCodec

\* Every type but those the messages themselves go through from top to bottom.
MCPartTypes ==
    DOMAIN Types \ {"CAM", "CoopAwareness", "CamParameters", "CoopAwarenessEnhanced",
                    "CamParametersEnhanced", "DENM",
                    "DecentralizedEnvironmentalNotificationMessage"}
MCAllKinds == Kinds
=============================================================================
