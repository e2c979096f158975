CONSTANTS
    Unwritten = Unwritten
    Mixed = Mixed
    MessageKinds <- MCAllKinds
    ValueTypes <- MCPartTypes
    ValueKinds <- MCAllKinds
    FaultKinds = {3}
    AdditionSizes = {1}
    Extensible <- ExtensibleTypes
    BufferOctets = 2048
    StaleOctets = {0, 2, 255}
    Message <- SampleMessage
    Encoding <- uper_encode_octets
    Decoded <- asn_decode_octets
    Satisfying <- SatisfiesConstraints
SPECIFICATION Spec
INVARIANTS
    UnknownSkipped
