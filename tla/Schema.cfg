SPECIFICATION SchemaSpec
CONSTANTS
    Replicas = {p1, p2, p3}
    Tables = 4
    MaxCrashes = 1
INVARIANTS
    SchemaInv
    ReadyOverWholeSchema
    SomeReplicaAhead
PROPERTY
    SomeReplicaReady
