------------------------- MODULE MCServiceOwnership -------------------------
EXTENDS ServiceOwnership, FiniteSetsExt, TLC

CONSTANT MaxStarted     \* bound: how many processes start in all

Bounded == MapThenSumSet(LAMBDA p : born[p], Pid) <= MaxStarted
Symmetry == Permutations(Pid)
=============================================================================
