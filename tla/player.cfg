SPECIFICATION MCSpec
CONSTANTS
    Programs = {"playback", "poll", "async", "ctl", "mixer", "mqtt"}
    Recorders = {"capture", "poll", "async"}
    Period = 2
    Buffer = 6
    Lens <- MCLens
    UIntMod = 65536
    MaxVolume = 1
    Disk = 5
    Total = 9
INVARIANTS InOrder BufUsable TailLossBounded TerminalRestored FileIsCapture
PROPERTIES StreamsGoOn
