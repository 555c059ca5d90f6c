CONSTANTS
    Nil = Nil
    Malformed = Malformed
    Second <- HalfSeconds
    MinHMACKeySize <- HMACSize
    KeySize <- PairSize
    MinClock <- First
    MaxClock = 9
    SignerOptions <- MCSigners
    VerifierOptions <- MCVerifiers
    Requests <- MCRequests
    Foreign <- MCForeign
    MaxIssued = 1
SPECIFICATION JSpec
INVARIANTS
    JTypeOK
    AcceptedInWindow
    ClaimsSurvive
    LiveTokenAccepted
    UnsignedPayloadIgnored
