--------------------------- MODULE MCExecutionRun ---------------------------
EXTENDS ExecutionRun, TLC
CONSTANTS c1, c2, c3, r1, r2, q1, k1
Symmetry == Permutations(Calls) \cup Permutations(Runs)
=============================================================================
