SPECIFICATION Spec
CONSTANTS
    Size <- Sizes
    Hdr = 3
    MaxSize = 5
    Mimic <- MimicByte
    Claim <- ClaimByte
    Chunk = {1, 4}
    Block = 4
    MaxRuns = 2
    Backlog = 3
    Strangers = {"other"}
    RecvFails = TRUE
    IfDown = TRUE
INVARIANTS
    StreamConserved
    OneParked
    Resynchronises
