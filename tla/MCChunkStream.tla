---------------------------- MODULE MCChunkStream ----------------------------
EXTENDS ChunkStream, TLC

Symmetry == Permutations(Sessions) \cup Permutations(Dims)
=============================================================================
