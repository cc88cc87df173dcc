SPECIFICATION SessionSpec
CONSTANTS
    r1 = r1
    r2 = r2
    r3 = r3
    r4 = r4
    Requests <- MCRequests
    NoRequest = NoRequest
    Addresses <- MCAddresses
    Emails <- MCEmails
    NoEmail = NoEmail
    Canonical <- MCCanonical
    WideEmails = {}
    Collated <- MCCollated
    Passwords <- MCPasswords
    WeakPasswords <- MCWeakPasswords
    Digests <- MCDigests
    Digest <- MCDigest
    Seeds <- MCSeeds
    Inputs <- TokenInputs
    NoInput = NoInput
    NoClaim = NoClaim
    TicksPerSecond = 2
    TimeToLive = 2
    GatewayCalls <- SessionGatewayCalls
    Replicas <- MCReplicas
    Ahead <- MCAhead
    MaxSkew = 1
    Epochs = {0, 1}
    MaxTime = 5
SYMMETRY Symmetry
INVARIANTS
    TokenHonoured
    TokenExpires
