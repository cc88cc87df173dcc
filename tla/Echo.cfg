SPECIFICATION EchoSpec
CONSTANTS
    c1 = c1
    c2 = c2
    c3 = c3
    p1 = p1
    p2 = p2
    mock = mock
    Database = Database
    Calls <- MCCalls
    Processes <- MCProcesses
    Durable <- MCDurable
    Messages <- MCMessages
    Stripped <- MCStripped
    Texts <- MCTexts
    NoText = ""
    Unschematic <- MCUnschematic
    Oversized = {"huge"}
    NoId = NoId
    BlankId = BlankId
    MaxRestarts = 1
SYMMETRY MCSymmetry
INVARIANTS
    EchoesFound
    EchoesFaithful
PROPERTY
    WritesOnce
