----------------------- MODULE MCProgressionCommands -----------------------
EXTENDS ProgressionCommands, TLC

CONSTANTS t1, d1, d2, worker, other

OneProcess == [d \in Drains |-> worker]
DrainSymmetry == Permutations(Drains)
TwoProcesses == d1 :> worker @@ d2 :> other
=============================================================================
