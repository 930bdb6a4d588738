---------------------------- MODULE MCChunkPipeline ----------------------------
EXTENDS ChunkPipeline, TLC

CONSTANTS c1, r1, r2

\* c1 lives in a region of its own when the instance has two.
MCRegionOf == [c \in Chunks |-> IF c = c1 \/ r2 \notin Regions THEN r1 ELSE r2]
MCContents == {content : content \in SUBSET Edits}

Symmetry == Permutations(Workers) \cup Permutations(Edits) \cup Permutations(Handles)
=============================================================================
