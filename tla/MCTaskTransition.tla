-------------------------- MODULE MCTaskTransition --------------------------
EXTENDS TaskTransition, TLC

\* The tasks are not alike: updateTask is used on one of them.
Symmetry == Permutations(Keys)
=============================================================================
