----------------------------- MODULE MCReception -----------------------------
(* Instances of Reception for TLC.                                           *)
EXTENDS Reception

Frame(ether, own, layers, msg, short, fault) ==
    [ether |-> ether, own |-> own, layers |-> layers, msg |-> msg, short |-> short, fault |-> fault]

\* A frame for each way through the filters, the detection and the decoders.
MCFrames == {
    Frame("gn", TRUE, "its", "cam", FALSE, "none"),
    Frame("gn", FALSE, "its", "cam", FALSE, "none"),
    Frame("gn", FALSE, "its", "denm", FALSE, "none"),
    Frame("gn", FALSE, "its", "cam", FALSE, "gn"),
    Frame("gn", FALSE, "its", "other", FALSE, "none"),
    Frame("gn", FALSE, "facility", "cam", TRUE, "uper"),
    Frame("gn", FALSE, "facility", "cam", FALSE, "none")}

MCFewFrames == {
    Frame("gn", FALSE, "its", "cam", FALSE, "none"),
    Frame("gn", FALSE, "its", "denm", FALSE, "none"),
    Frame("gn", FALSE, "its", "cam", FALSE, "gn"),
    Frame("gn", FALSE, "facility", "cam", TRUE, "uper")}
=============================================================================
