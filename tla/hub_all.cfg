SPECIFICATION Spec
CONSTANTS
    p1 = p1
    p2 = p2
    p3 = p3
    Pids <- MCPids
    ForkMayFail = TRUE
    Topics <- MCTopicsAll
    MaxMsgs = 3
SYMMETRY Symmetry
PROPERTIES HubStopHasCause DriftHasCause WaitErrorMeansOvercount
