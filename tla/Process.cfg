SPECIFICATION ProcessSpec
CONSTANTS
    c1 = c1
    c2 = c2
    h1 = h1
    h2 = h2
    Calls <- MCCalls
    HttpCalls <- MCHttpCalls
INVARIANTS
    ProcessInv
    CleanReturn
    EngineOutlivesCalls
PROPERTY
    ServerEndEndsProcess
