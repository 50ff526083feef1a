SPECIFICATION Spec
CONSTANT Frames = 3
INVARIANTS ShownIsDequeued NoBufferLost CrashCauses CleanStop
