SPECIFICATION TransportSpec
CONSTANTS
    r1 = r1
    r2 = r2
    r3 = r3
    r4 = r4
    Requests <- MCFourRequests
    NoRequest = NoRequest
    Addresses <- WireAddresses
    Emails <- WireEmails
    NoEmail = NoEmail
    Canonical <- WireCanonical
    WideEmails <- WireWideEmails
    Collated <- WireCollated
    Passwords <- WirePasswords
    WeakPasswords <- WireWeakPasswords
    Digests <- MCDigests
    Digest <- WireDigest
    Seeds <- MCSeeds
    Inputs <- WireInputs
    NoInput = NoInput
    NoClaim = NoClaim
    MissizedAddresses <- WireMissized
    LongPasswords <- WireLongPasswords
    EmptyPassword = "empty"
    Clients <- MCClients
SYMMETRY FourSymmetry
INVARIANTS
    AnswersAgree
    SameRecords
    SameUserShown
    SameAnswers
    SameRows
    MemorySound
