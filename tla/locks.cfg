SPECIFICATION Spec
CONSTANTS
    p1 = p1
    p2 = p2
    p3 = p3
    Procs <- MCProcs
    MaxFiles = 2
SYMMETRY Symmetry
INVARIANTS OneInstance
PROPERTIES LockedDataStays LockedOut
