SPECIFICATION Spec
CONSTANTS
    r1 = r1
    r2 = r2
    r3 = r3
    r4 = r4
    Requests <- MCRequests
    NoRequest = NoRequest
    Addresses <- MCAddresses
    Emails <- MCEmails
    NoEmail = NoEmail
    Canonical <- MCCanonical
    WideEmails = {}
    Collated <- MCCollated
    Passwords <- MCPasswords
    WeakPasswords <- MCWeakPasswords
    Digests <- MCDigests
    Digest <- MCDigest
    Seeds <- MCSeeds
    Inputs <- AccessInputs
    NoInput = NoInput
    NoClaim = NoClaim
SYMMETRY Symmetry
INVARIANTS
    StaffAlwaysActive
    ActorStillEntitled
    IInv
