---------------------------- MODULE MCHardLinkLock ----------------------------
\* Instances of HardLinkLock with one process that dies.
EXTENDS HardLinkLock, TLC

\* Sound for the invariants only.
Symmetry == Permutations(Process)
===============================================================================
