SPECIFICATION FairSpec
CONSTANTS
    p1 = p1
    p2 = p2
    p3 = p3
    Pids <- MCPids
    ForkMayFail = FALSE
    Topics <- MCTopicsPlay
    MaxMsgs = 3
INVARIANTS OneRecorder
PROPERTIES StopHitsRecorder ZombieReaped TemperatureFlows
