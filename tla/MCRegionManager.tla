---------------------------- MODULE MCRegionManager ----------------------------
EXTENDS RegionManager, TLC

CONSTANTS c1, c2, c3, r1, r2, MaxTasks

\* c1 and c2 share a region, c3 lives in another one.
MCRegionOf == [c \in Chunks |-> IF c = c3 THEN r2 ELSE r1]

\* Bound on the tasks waiting for the IO threads.
FewTasks == Len(ioQueue) <= MaxTasks

Symmetry == Permutations(Handles) \cup Permutations(Workers)
=============================================================================
