SPECIFICATION SeedSpec
CONSTANTS
    Requests <- MCRequests
    NoRequest = NoRequest
    Addresses <- MCEmails
    Emails <- MCEmails
    NoEmail = NoEmail
    Canonical <- MCCanonical
    WideEmails = {}
    Collated <- MCCollated
    Passwords <- MCPasswords
    WeakPasswords = {}
    Digests <- MCPasswords
    Digest <- MCDigest
    Seeds <- MCSeeds
    Replicas = {p1, p2, p3}
    MaxCrashes = 1
INVARIANTS
    SeedTypeOK
    ServesAfterSeeding
    SomeReplicaAhead
PROPERTIES
    ImplementsLifecycle
    SomeReplicaServes
