----------------------------- MODULE MCRepoLock -----------------------------
EXTENDS RepoLock, TLC

TaskSymmetry == Permutations(Tasks)
=============================================================================
