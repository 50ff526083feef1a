SPECIFICATION MCThreadsSpec
CONSTANTS
    Programs = {"threadcreate", "threadexit", "threadrecycle", "threadcancel", "testcancel",
                "cancelpoint", "setcancelstate", "detachother", "detachself", "cleanupafter",
                "cleanuplast", "detachstate", "stacksize"}
    Waiters = {"wait", "waitpid", "poll", "sigchld"}
    Children = 3
    Naps = 3
    NapTime = 2
    Slips = 2
INVARIANTS ThreadsEndAsTold AllReaped
PROPERTIES ProgramsEnd
