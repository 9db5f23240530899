--------------------------- MODULE MCExecutionLease ---------------------------
\* A small instance of ExecutionLease: symmetric owners and lease ids.
EXTENDS ExecutionLease, TLC

Symmetry == Permutations(Owner) \cup Permutations(LeaseId)
===============================================================================
