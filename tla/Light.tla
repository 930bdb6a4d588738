-------------------------------- MODULE Light --------------------------------
(***************************************************************************)
(* Light: Lighter and what WorldManager::SetBlock asks of it, where all    *)
(* chunks around are loaded.  A kind of block is its opacity and emission. *)
(* Blocks change between two ticks; the tick then empties the light queue, *)
(* where each entry recomputes a cell and queues the neighbours that may   *)
(* get brighter.  Light only grows that way, so a change first takes away  *)
(* all light that may have come from its cell.  The queue is a set here:   *)
(* in which order entries are taken, and how many there are for a cell, is *)
(* left open.                                                              *)
(***************************************************************************)
EXTENDS Integers, FiniteSets

CONSTANTS
    Columns,
    Beside,     \* Beside[x]: the columns that share a side with x
    Around,     \* Around[x]: x, those, and the columns at its corners
    Top,        \* CHUNK_HEIGHT
    Full,       \* the brightest light there is
    Kinds, Air,
    Opacity, Emission,
    MaxQueued  \* bound: a block changes while no more than that is queued

ASSUME LightAssumption ==
    /\ Top \in Nat \ {0} /\ Full \in Nat \ {0}
    /\ Beside \in [Columns -> SUBSET Columns] /\ Around \in [Columns -> SUBSET Columns]
    /\ \A x \in Columns : x \notin Beside[x] /\ x \in Around[x] /\ Beside[x] \subseteq Around[x]
    /\ \A x, z \in Columns : z \in Beside[x] <=> x \in Beside[z]
    /\ Opacity \in [Kinds -> Nat] /\ Emission \in [Kinds -> 0..Full]
    /\ Air \in Kinds /\ Opacity[Air] = 0 /\ Emission[Air] = 0

Heights == 0..(Top - 1)
Cells   == Columns \X Heights
Types   == {"sky", "block"}
Lights  == [Cells -> 0..Full]

VARIABLES
    cellBlocks,
    heightMap,   \* above it nothing dims the light of the sky
    light,       \* for each type and cell
    lightQueue,  \* the cells to look at
    draining     \* ProcessLightQueue runs

lightVars == <<cellBlocks, heightMap, light, lightQueue, draining>>

SeesSky(h, c) == c[2] >= h[c[1]]

LightTypeOK ==
    /\ cellBlocks \in [Cells -> Kinds]
    /\ heightMap \in [Columns -> 0..Top]
    /\ light \in [Types -> Lights]
    /\ lightQueue \subseteq Types \X Cells
    /\ draining \in BOOLEAN
    \* The height map is that of the blocks.
    /\ \A c \in Cells : SeesSky(heightMap, c) <=>
          \A y \in Heights : y >= c[2] => Opacity[cellBlocks[<<c[1], y>>]] = 0

LightInit ==
    /\ cellBlocks = [c \in Cells |-> Air]
    /\ heightMap = [x \in Columns |-> 0]
    /\ light = [t \in Types |-> [c \in Cells |-> IF t = "sky" THEN Full ELSE 0]]
    /\ lightQueue = {} /\ draining = FALSE

-----------------------------------------------------------------------------
(* What a cell gets *)

IsBeside(c, n) ==
    \/ n[2] = c[2] /\ n[1] \in Beside[c[1]]
    \/ n[1] = c[1] /\ n[2] \in {c[2] - 1, c[2] + 1}

Neighbors == [c \in Cells |-> {n \in Cells : IsBeside(c, n)}]

Source(b, h, t, c) == CASE t = "sky"   -> IF SeesSky(h, c) THEN Full ELSE 0
                        [] t = "block" -> Emission[b[c]]

\* What a block takes away, at least one; and whether it lets any light through.
Dim(b, c)    == IF Opacity[b[c]] = 0 THEN 1 ELSE Opacity[b[c]]
Passes(b, c) == Opacity[b[c]] < Full

\* v is the most of what c is given: newVal.
IsValue(b, h, l, t, c, v) ==
    /\ v >= Source(b, h, t, c)
    /\ Passes(b, c) => \A n \in Neighbors[c] : v >= l[n] - Dim(b, c)
    /\ \/ v = 0 \/ v = Source(b, h, t, c)
       \/ Passes(b, c) /\ \E n \in Neighbors[c] : v = l[n] - Dim(b, c)

-----------------------------------------------------------------------------
(* Lighter *)

PropagateLightAt(t, c) ==
    \E v \in 0..Full :
       /\ IsValue(cellBlocks, heightMap, light[t], t, c, v)
       /\ light' = [light EXCEPT ![t][c] = v]
       /\ lightQueue' = (lightQueue \ {<<t, c>>}) \cup
            IF v = light[t][c] THEN {}
            ELSE {<<t, n>> : n \in {n \in Neighbors[c] : light[t][n] < v - 1}}

Lit(l) == {c \in Cells : l[c] > 0}

\* With a cell, the darker ones around it.
IsClosed(l, D) == \A d \in D : \A n \in Neighbors[d] : n \in Lit(l) /\ l[n] < l[d] => n \in D

\* The cells that UnlightAt makes dark, begun at each of S: those that may have their light from there.
Darkened(l, S) ==
    Lit(l) \ UNION {Lit(l) \ D : D \in {D \in SUBSET Lit(l) : S \cap Lit(l) \subseteq D /\ IsClosed(l, D)}}

Without(l, dark) == [c \in Cells |-> IF c \in dark THEN 0 ELSE l[c]]

\* Slip: only what is not made dark itself is looked at again.
WokenBright(l, dark) == {n \in Lit(l) \ dark : \E d \in dark : n \in Neighbors[d]}

\* Everything lit beside them is looked at again.
Woken(l, dark) == {n \in Lit(l) : \E d \in dark : n \in Neighbors[d]}

-----------------------------------------------------------------------------
(* WorldManager *)

IsHeight(b, x, h) ==
    /\ \A y \in Heights : y >= h => Opacity[b[<<x, y>>]] = 0
    /\ h > 0 => Opacity[b[<<x, h - 1>>]] > 0

\* RelightColumn: full light down to the height.
Relit(l, x, h) == [c \in Cells |-> IF c[1] = x /\ c[2] >= h THEN Full ELSE l[c]]

Segment(x, low, high) == {c \in Cells : c[1] = x /\ low <= c[2] /\ c[2] <= high}

\* From where the height changed, and as far down as nothing dims, with the columns around.
Region(b, x, old, new) ==
    LET low  == IF new < old THEN new ELSE old
        high == IF new < old THEN old ELSE new
    IN  {c \in Cells :
           /\ c[1] \in Around[x] /\ c[2] <= high
           /\ \A y \in Heights : c[2] <= y /\ y < low => Opacity[b[<<x, y>>]] = 0}

ChangesLighting(old, new) == Opacity[old] # Opacity[new] \/ Emission[old] # Emission[new]

\* The cells of the sky's light that are looked at for a height that changed.
Uncovered(b, x, old, new) ==
    IF new = old THEN {}
    ELSE Region(b, x, old, new) \cup (IF new < old THEN Segment(x, new, old - 1) ELSE {})

\* torches and sky go dark with the old block, covered when the column has grown.
ChangeBlock(c, kind) ==
    /\ ~draining /\ Cardinality(lightQueue) <= MaxQueued
    /\ ChangesLighting(cellBlocks[c], kind)
    /\ cellBlocks' = [cellBlocks EXCEPT ![c] = kind]
    /\ \E h \in 0..Top, torches \in {Darkened(light["block"], {c})}, sky \in {Darkened(light["sky"], {c})} :
       \E relit \in {Relit(Without(light["sky"], sky), c[1], h)} :
       \E covered \in {IF h > heightMap[c[1]] THEN Darkened(relit, Segment(c[1], heightMap[c[1]], h)) ELSE {}} :
          /\ IsHeight(cellBlocks', c[1], h)
          /\ heightMap' = [heightMap EXCEPT ![c[1]] = h]
          /\ light' = [light EXCEPT !["sky"] = Without(relit, covered), !["block"] = Without(@, torches)]
          /\ lightQueue' = lightQueue
               \cup {"sky"} \X (Woken(light["sky"], sky) \cup {c} \cup Woken(relit, covered)
                                 \cup Uncovered(cellBlocks', c[1], heightMap[c[1]], h))
               \cup {"block"} \X (Woken(light["block"], torches) \cup {c})
    /\ UNCHANGED draining

\* ProcessLightQueue goes on until nothing is left.
StartQueue ==
    /\ ~draining /\ lightQueue # {}
    /\ draining' = TRUE
    /\ UNCHANGED <<cellBlocks, heightMap, light, lightQueue>>

TakeEntry(t, c) ==
    /\ draining /\ <<t, c>> \in lightQueue
    /\ PropagateLightAt(t, c)
    /\ draining' = (lightQueue' # {})
    /\ UNCHANGED <<cellBlocks, heightMap>>

LightNext ==
    \/ \E c \in Cells, kind \in Kinds : ChangeBlock(c, kind)
    \/ StartQueue
    \/ \E t \in Types, c \in Cells : TakeEntry(t, c)

LightSpec == LightInit /\ [][LightNext]_lightVars

-----------------------------------------------------------------------------
(* Properties *)

IsRight(t, c) == IsValue(cellBlocks, heightMap, light[t], t, c, light[t][c])

\* When the queue is empty, torches light exactly what they should: no cell has kept the light of a
\* source that is gone, or has been left dark by one that was put.
BlockLightSettles == lightQueue = {} => \A c \in Cells : IsRight("block", c)

\* The highest block of a column that dims without being opaque: water, ice or leaves.
IsSurface(c) == c[2] = heightMap[c[1]] - 1 /\ Passes(cellBlocks, c)

\* Likewise the sky, but for the surface of water or leaves.
SkyLightSettles == lightQueue = {} => \A c \in Cells : IsRight("sky", c) \/ IsSurface(c)

\* "Make sure lighting is up to date".
LightingIsUpToDate == lightQueue = {} => \A t \in Types, c \in Cells : IsRight(t, c)

\* Whatever is queued, no cell is brighter than what is beside it can make it.
NeverTooBright ==
    \A t \in Types, c \in Cells :
        \/ light[t][c] <= Source(cellBlocks, heightMap, t, c)
        \/ Passes(cellBlocks, c) /\ \E n \in Neighbors[c] : light[t][c] <= light[t][n] - Dim(cellBlocks, c)

\* Light is what the blocks make it when nothing is queued, and never more in between.
LightIsRight == NeverTooBright /\ BlockLightSettles /\ SkyLightSettles
=============================================================================
