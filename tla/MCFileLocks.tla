----------------------------- MODULE MCFileLocks -----------------------------
(* Instance of FileLocks for TLC: three processes.                         *)
EXTENDS FileLocks, TLC

CONSTANTS p1, p2, p3
MCProcs == {p1, p2, p3}
Symmetry == Permutations(MCProcs)
=============================================================================
