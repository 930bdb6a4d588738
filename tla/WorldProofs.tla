---------------------------- MODULE WorldProofs ----------------------------
(***************************************************************************)
(* A dimension, for any entities, chunks, players and columns of blocks:   *)
(* its entities as they are saved (EntityStore) and shown (EntityTracking) *)
(* and its scheduled ticks (BlockTicks); and what MCWorld puts together.   *)
(*                                                                         *)
(* Entities: a record of a chunk that is not loaded speaks for its         *)
(* entities alone (RecordsCount).  The record of a loaded chunk does not   *)
(* count, but it will when the chunk is dropped unsaved; then it must be   *)
(* empty, and is: an unmodified chunk has each entity of its record in its *)
(* bucket, alive or about to be cleaned up (UnmodifiedIsTrue).             *)
(*                                                                         *)
(* Viewers: whom an entry names has a session and shows the entity where   *)
(* it was last said to be, but for those who are to get it in this tick    *)
(* (ShowsExactly); without a session nothing is shown.                     *)
(*                                                                         *)
(* Ticks: sand that begins to fall is counted twice, as a block and as an  *)
(* entity, until its first tick, which comes in the same tick of the world *)
(* (FreshIsBrief); meanwhile its block is in its place, one to each, and   *)
(* no entry that is due names it (OwnersTrue).                             *)
(*                                                                         *)
(* Light: whatever is queued, a cell that is not looked at again is bright *)
(* enough (BlockEnough, SkyEnough), the surface of water and leaves        *)
(* excepted for what falls on it from right above.  Together with          *)
(* NeverTooBright that is the right light when the queue is empty.         *)
(* RelightColumn brightens a column without telling its neighbours; that   *)
(* does no harm because one that waits for the sky's light has its         *)
(* neighbours queued (Waiting).                                            *)
(***************************************************************************)
EXTENDS MCWorld, ChunkPipelineProofs, WellFoundedInduction, SequenceTheorems
-----------------------------------------------------------------------------
(* The light of torches and of the sky. *)

Queued(t, c) == <<t, c>> \in lightQueue

\* What comes from right above is not missed by the surface of water, ice or leaves.
FromAbove(c, n) == IsSurface(c) /\ n = <<c[1], c[2] + 1>>

BlockEnough ==
    \A c \in Cells : Queued("block", c) \/
        /\ light["block"][c] >= Emission[cellBlocks[c]]
        /\ Passes(cellBlocks, c) => \A n \in Neighbors[c] :
              light["block"][c] >= light["block"][n] - Dim(cellBlocks, c)

SkyEnough ==
    \A c \in Cells : Queued("sky", c) \/
        /\ SeesSky(heightMap, c) => light["sky"][c] = Full
        /\ Passes(cellBlocks, c) => \A n \in Neighbors[c] :
              light["sky"][c] >= light["sky"][n] - Dim(cellBlocks, c) \/ FromAbove(c, n)

Waiting ==
    ~draining => \A c \in Cells : SeesSky(heightMap, c) /\ light["sky"][c] < Full =>
        \A n \in Neighbors[c] :
            \/ Queued("sky", n)
            \/ Passes(cellBlocks, n) => light["sky"][n] >= Full - Dim(cellBlocks, n)
            \/ FromAbove(n, c)

LightInv == LightTypeOK /\ NeverTooBright /\ BlockEnough /\ SkyEnough /\ Waiting

-----------------------------------------------------------------------------
(* Cells *)

LEMMA CellFacts ==
    ASSUME NEW c \in Cells
    PROVE  /\ c[1] \in Columns /\ c[2] \in Heights /\ c = <<c[1], c[2]>>
           /\ c[2] \in Int /\ 0 <= c[2] /\ c[2] < Top /\ Top \in Nat /\ Full \in Nat /\ Full > 0
BY LightAssumption DEF Cells, Heights

LEMMA NeighborFacts ==
    ASSUME NEW c \in Cells, NEW n \in Neighbors[c]
    PROVE  /\ n \in Cells /\ n # c /\ c \in Neighbors[n]
           /\ \/ n[2] = c[2] /\ n[1] \in Beside[c[1]] /\ n[1] \in Around[c[1]] /\ c[1] \in Around[n[1]]
              \/ n[1] = c[1] /\ n[2] = c[2] - 1
              \/ n[1] = c[1] /\ n[2] = c[2] + 1
<1>1. n \in Cells /\ IsBeside(c, n)
  BY DEF Neighbors
<1>2. /\ c[1] \in Columns /\ n[1] \in Columns /\ c[2] \in Int /\ n[2] \in Int
  BY <1>1, CellFacts
<1>3. n # c
  BY <1>1, <1>2, LightAssumption DEF IsBeside
<1>4. IsBeside(n, c)
  BY <1>1, <1>2, LightAssumption DEF IsBeside
<1>5. c \in Neighbors[n]
  BY <1>1, <1>4 DEF Neighbors
<1>6. n[1] \in Beside[c[1]] => n[1] \in Around[c[1]] /\ c[1] \in Around[n[1]]
  BY <1>2, LightAssumption
<1> QED BY <1>1, <1>2, <1>3, <1>5, <1>6 DEF IsBeside

LEMMA BlockFacts ==
    ASSUME NEW b \in [Cells -> Kinds], NEW c \in Cells
    PROVE  /\ Opacity[b[c]] \in Nat /\ Emission[b[c]] \in 0..Full
           /\ Dim(b, c) \in Nat /\ Dim(b, c) >= 1
           /\ Passes(b, c) \in BOOLEAN
<1>1. b[c] \in Kinds
  OBVIOUS
<1>2. Opacity[b[c]] \in Nat /\ Emission[b[c]] \in 0..Full
  BY <1>1, LightAssumption
<1> QED BY <1>2 DEF Dim, Passes

LEMMA SourceFacts ==
    ASSUME NEW b \in [Cells -> Kinds], NEW h, NEW c \in Cells
    PROVE  /\ Source(b, h, "block", c) = Emission[b[c]]
           /\ Source(b, h, "sky", c) = IF SeesSky(h, c) THEN Full ELSE 0
           /\ \A t \in Types : Source(b, h, t, c) \in 0..Full
<1>1. Emission[b[c]] \in 0..Full /\ Full \in Nat
  BY BlockFacts, CellFacts
<1>2. /\ Source(b, h, "block", c) = Emission[b[c]]
      /\ Source(b, h, "sky", c) = IF SeesSky(h, c) THEN Full ELSE 0
  BY DEF Source
<1> QED BY <1>1, <1>2 DEF Types

LEMMA LightFacts ==
    ASSUME NEW l \in Lights, NEW c \in Cells
    PROVE  l[c] \in Nat /\ l[c] \in Int /\ 0 <= l[c] /\ l[c] <= Full
BY CellFacts DEF Lights

-----------------------------------------------------------------------------
(* Unlighting *)

(* What UnlightAt makes dark: where it began, if there was light (1); with a
   cell all that may have their light from it (2); and nothing else (3). *)
LEMMA DarkenedFacts ==
    ASSUME NEW l \in Lights, NEW S \in SUBSET Cells
    PROVE  /\ Darkened(l, S) \subseteq Lit(l)
           /\ S \cap Lit(l) \subseteq Darkened(l, S)
           /\ \A d \in Darkened(l, S) : \A n \in Neighbors[d] :
                 n \in Lit(l) /\ l[n] < l[d] => n \in Darkened(l, S)
           /\ \A d \in Darkened(l, S) : d \notin S =>
                 \E e \in Darkened(l, S) : d \in Neighbors[e] /\ l[d] < l[e]
<1> DEFINE Closed == {D \in SUBSET Lit(l) : S \cap Lit(l) \subseteq D /\ IsClosed(l, D)}
           dark == Darkened(l, S)
<1>1. dark \subseteq Lit(l) /\ \A d \in dark, D \in Closed : d \in D
  BY DEF Darkened
<1>2. ASSUME NEW d \in Lit(l), \A D \in Closed : d \in D PROVE d \in dark
  BY <1>2 DEF Darkened
<1>3. S \cap Lit(l) \subseteq dark
  BY <1>2
<1>4. ASSUME NEW d \in dark, NEW n \in Neighbors[d], n \in Lit(l), l[n] < l[d] PROVE n \in dark
  BY <1>1, <1>2, <1>4 DEF IsClosed
<1>5. ASSUME NEW d \in dark, d \notin S, \A e \in dark : ~(d \in Neighbors[e] /\ l[d] < l[e])
      PROVE  FALSE
  <2>1. dark \ {d} \in SUBSET Lit(l) /\ S \cap Lit(l) \subseteq dark \ {d}
    BY <1>1, <1>3, <1>5
  <2>2. IsClosed(l, dark \ {d})
    BY <1>4, <1>5 DEF IsClosed
  <2>3. dark \ {d} \in Closed
    BY <2>1, <2>2
  <2> QED BY <1>1, <2>3
<1> QED BY <1>1, <1>3, <1>4, <1>5

LEMMA WithoutFacts ==
    ASSUME NEW l \in Lights, NEW dark
    PROVE  /\ Without(l, dark) \in Lights
           /\ \A c \in Cells : c \in dark => Without(l, dark)[c] = 0
           /\ \A c \in Cells : c \notin dark => Without(l, dark)[c] = l[c]
<1>1. 0 \in 0..Full
  BY LightAssumption
<1> QED BY <1>1 DEF Without, Lights

-----------------------------------------------------------------------------
(* An entry is taken from the queue *)

LEMMA InitLight == LightInit => LightInv
<1> SUFFICES ASSUME LightInit PROVE LightInv
  OBVIOUS
<1>1. Full \in Nat /\ Full > 0 /\ Top \in Nat /\ Air \in Kinds /\ Opacity[Air] = 0 /\ Emission[Air] = 0
  BY LightAssumption
<1>2. /\ cellBlocks \in [Cells -> Kinds] /\ heightMap \in [Columns -> 0..Top]
      /\ light["sky"] = [c \in Cells |-> Full] /\ light["block"] = [c \in Cells |-> 0]
      /\ light \in [Types -> Lights]
  BY <1>1 DEF LightInit, Types, Lights
<1>3. \A c \in Cells : cellBlocks[c] = Air /\ SeesSky(heightMap, c)
  BY CellFacts DEF LightInit, SeesSky
<1>4. ASSUME NEW c \in Cells
      PROVE  SeesSky(heightMap, c) <=>
                \A y \in Heights : y >= c[2] => Opacity[cellBlocks[<<c[1], y>>]] = 0
  BY <1>1, <1>3, CellFacts DEF Cells
<1>5. LightTypeOK
  BY <1>2, <1>4 DEF LightInit, LightTypeOK
<1>6. ASSUME NEW c \in Cells, NEW t \in Types PROVE light[t][c] <= Source(cellBlocks, heightMap, t, c)
  BY <1>1, <1>2, <1>3, SourceFacts DEF Types
<1>7. NeverTooBright
  BY <1>6 DEF NeverTooBright
<1>8. BlockEnough
  <2> SUFFICES ASSUME NEW c \in Cells, NEW n \in Neighbors[c]
               PROVE  light["block"][c] >= light["block"][n] - Dim(cellBlocks, c)
    BY <1>1, <1>2, <1>3 DEF BlockEnough
  <2> QED BY <1>2, BlockFacts, NeighborFacts
<1>9. SkyEnough
  <2> SUFFICES ASSUME NEW c \in Cells, NEW n \in Neighbors[c]
               PROVE  light["sky"][c] >= light["sky"][n] - Dim(cellBlocks, c)
    BY <1>2 DEF SkyEnough
  <2> QED BY <1>1, <1>2, BlockFacts, NeighborFacts
<1>10. Waiting
  BY <1>1, <1>2 DEF Waiting
<1> QED BY <1>5, <1>7, <1>8, <1>9, <1>10 DEF LightInv

(* The new value of a cell is no less than the old one, and is what its source
   or a neighbour gives. *)
LEMMA NoDarker ==
    ASSUME LightTypeOK, NeverTooBright, NEW t \in Types, NEW c \in Cells, NEW v \in 0..Full,
           IsValue(cellBlocks, heightMap, light[t], t, c, v)
    PROVE  light[t][c] <= v
<1>1. light[t] \in Lights /\ cellBlocks \in [Cells -> Kinds]
  BY DEF LightTypeOK
<1>2. CASE light[t][c] <= Source(cellBlocks, heightMap, t, c)
  <2>1. Source(cellBlocks, heightMap, t, c) \in 0..Full /\ light[t][c] \in Nat /\ Full \in Nat
    BY <1>1, LightFacts, SourceFacts, CellFacts
  <2>2. v >= Source(cellBlocks, heightMap, t, c)
    BY DEF IsValue
  <2> QED BY <1>2, <2>1, <2>2
<1>3. CASE Passes(cellBlocks, c) /\ \E n \in Neighbors[c] : light[t][c] <= light[t][n] - Dim(cellBlocks, c)
  <2>1. PICK n \in Neighbors[c] : light[t][c] <= light[t][n] - Dim(cellBlocks, c)
    BY <1>3
  <2>2. v >= light[t][n] - Dim(cellBlocks, c)
    BY <1>3 DEF IsValue
  <2> QED BY <1>1, <2>1, <2>2, LightFacts, BlockFacts, NeighborFacts
<1> QED BY <1>2, <1>3 DEF NeverTooBright

LEMMA TakeEntryKeeps ==
    ASSUME LightInv, NEW t \in Types, NEW c \in Cells, TakeEntry(t, c)
    PROVE  LightInv'
<1>1. PICK v \in 0..Full :
         /\ IsValue(cellBlocks, heightMap, light[t], t, c, v)
         /\ light' = [light EXCEPT ![t][c] = v]
         /\ lightQueue' = (lightQueue \ {<<t, c>>}) \cup
              IF v = light[t][c] THEN {}
              ELSE {<<t, n>> : n \in {n \in Neighbors[c] : light[t][n] < v - 1}}
  BY DEF TakeEntry, PropagateLightAt
<1>t. /\ LightTypeOK /\ cellBlocks \in [Cells -> Kinds] /\ light \in [Types -> Lights]
      /\ \A u \in Types : light[u] \in Lights
  BY DEF LightInv, LightTypeOK
<1>u. /\ UNCHANGED <<cellBlocks, heightMap>> /\ draining /\ draining' = (lightQueue' # {})
  BY DEF TakeEntry
<1>2. v \in Nat /\ v <= Full /\ light[t][c] <= v
  BY <1>1, <1>t, CellFacts, NoDarker DEF LightInv
<1>3. /\ light' \in [Types -> Lights]
      /\ \A u \in Types, d \in Cells : light'[u][d] = IF u = t /\ d = c THEN v ELSE light[u][d]
  BY <1>1, <1>t DEF Lights
<1>4. ASSUME NEW u \in Types, NEW d \in Cells
      PROVE  light[u][d] \in Nat /\ light'[u][d] \in Nat /\ light[u][d] <= light'[u][d]
  BY <1>t, <1>2, <1>3, LightFacts
<1>5. LightTypeOK'
  <2>1. \A n \in Neighbors[c] : n \in Cells
    BY NeighborFacts
  <2>2. lightQueue' \subseteq Types \X Cells
    BY <1>1, <1>t, <2>1 DEF LightTypeOK
  <2> QED BY <1>t, <1>u, <1>3, <2>2 DEF LightTypeOK
<1>6. NeverTooBright'
  <2> SUFFICES ASSUME NEW u \in Types, NEW d \in Cells
               PROVE  \/ light'[u][d] <= Source(cellBlocks, heightMap, u, d)
                      \/ /\ Passes(cellBlocks, d)
                         /\ \E n \in Neighbors[d] : light'[u][d] <= light'[u][n] - Dim(cellBlocks, d)
    BY <1>u DEF NeverTooBright, Source, Passes, Dim, SeesSky
  <2>1. CASE u = t /\ d = c
    <3>1. \A n \in Neighbors[d] : n \in Cells /\ light'[u][n] = light[u][n]
      BY <1>3, <2>1, NeighborFacts
    <3>2. Source(cellBlocks, heightMap, u, d) \in 0..Full /\ light'[u][d] = v
      BY <1>t, <1>3, <2>1, SourceFacts
    <3> QED BY <1>1, <1>2, <2>1, <3>1, <3>2, CellFacts DEF IsValue
  <2>2. CASE ~(u = t /\ d = c)
    <3>1. light'[u][d] = light[u][d]
      BY <1>3, <2>2
    <3>2. CASE light[u][d] <= Source(cellBlocks, heightMap, u, d)
      BY <3>1, <3>2
    <3>3. CASE Passes(cellBlocks, d) /\ \E n \in Neighbors[d] : light[u][d] <= light[u][n] - Dim(cellBlocks, d)
      <4>1. PICK n \in Neighbors[d] : light[u][d] <= light[u][n] - Dim(cellBlocks, d)
        BY <3>3
      <4>2. n \in Cells
        BY NeighborFacts
      <4>3. light[u][n] <= light'[u][n] /\ light[u][n] \in Nat /\ light'[u][n] \in Nat /\ light[u][d] \in Nat
        BY <1>4, <4>2
      <4>4. light'[u][d] <= light'[u][n] - Dim(cellBlocks, d)
        BY <1>t, <3>1, <4>1, <4>3, BlockFacts
      <4> QED BY <3>3, <4>4
    <3> QED BY <3>2, <3>3 DEF LightInv, NeverTooBright
  <2> QED BY <2>1, <2>2
<1>7. ASSUME NEW u \in Types, NEW d \in Cells, <<u, d>> \notin lightQueue'
      PROVE  (u = t /\ d = c) \/ <<u, d>> \notin lightQueue
  BY <1>1, <1>7
(* A cell beside is queued when it misses something of the new value. *)
<1>8. ASSUME NEW u \in Types, NEW d \in Cells, <<u, d>> \notin lightQueue', NEW n \in Neighbors[d],
             ~(u = t /\ d = c)
      PROVE  \/ light'[u][n] = light[u][n]
             \/ light'[u][d] >= light'[u][n] - Dim(cellBlocks, d)
  <2>1. CASE u = t /\ n = c /\ v # light[t][c]
    <3>1. d \in Neighbors[c] /\ light'[u][n] = v /\ light'[u][d] = light[u][d]
      BY <1>3, <1>8, <2>1, NeighborFacts
    <3>2. ~(light[t][d] < v - 1)
      BY <1>1, <1>8, <2>1, <3>1
    <3>3. light[t][d] \in Nat /\ Dim(cellBlocks, d) \in Nat /\ Dim(cellBlocks, d) >= 1
      BY <1>t, <1>4, BlockFacts
    <3> QED BY <1>2, <2>1, <3>1, <3>2, <3>3
  <2>2. CASE ~(u = t /\ n = c /\ v # light[t][c])
    BY <1>3, <2>2, NeighborFacts
  <2> QED BY <2>1, <2>2
<1>9. BlockEnough'
  <2> SUFFICES ASSUME NEW d \in Cells, <<"block", d>> \notin lightQueue'
               PROVE  /\ light'["block"][d] >= Emission[cellBlocks[d]]
                      /\ Passes(cellBlocks, d) => \A n \in Neighbors[d] :
                            light'["block"][d] >= light'["block"][n] - Dim(cellBlocks, d)
    BY <1>u DEF BlockEnough, Queued, Passes, Dim
  <2>0. "block" \in Types
    BY DEF Types
  <2>1. CASE t = "block" /\ d = c
    <3>1. \A n \in Neighbors[d] : light'["block"][n] = light["block"][n]
      BY <1>3, <2>0, <2>1, NeighborFacts
    <3>2. light'["block"][d] = v /\ v >= Emission[cellBlocks[d]]
      BY <1>t, <1>1, <1>3, <2>0, <2>1, SourceFacts DEF IsValue
    <3> QED BY <1>1, <2>1, <3>1, <3>2 DEF IsValue
  <2>2. CASE ~(t = "block" /\ d = c)
    <3>1. /\ light["block"][d] >= Emission[cellBlocks[d]]
          /\ Passes(cellBlocks, d) => \A n \in Neighbors[d] :
                light["block"][d] >= light["block"][n] - Dim(cellBlocks, d)
      BY <1>7, <2>0, <2>2 DEF LightInv, BlockEnough, Queued
    <3>2. light'["block"][d] = light["block"][d]
      BY <1>3, <2>0, <2>2
    <3> QED BY <1>8, <2>0, <2>2, <3>1, <3>2
  <2> QED BY <2>1, <2>2
<1>10. SkyEnough'
  <2> SUFFICES ASSUME NEW d \in Cells, <<"sky", d>> \notin lightQueue'
               PROVE  /\ SeesSky(heightMap, d) => light'["sky"][d] = Full
                      /\ Passes(cellBlocks, d) => \A n \in Neighbors[d] :
                            \/ light'["sky"][d] >= light'["sky"][n] - Dim(cellBlocks, d)
                            \/ FromAbove(d, n)
    BY <1>u DEF SkyEnough, Queued, Passes, Dim, FromAbove, IsSurface, SeesSky
  <2>0. "sky" \in Types
    BY DEF Types
  <2>1. CASE t = "sky" /\ d = c
    <3>1. \A n \in Neighbors[d] : light'["sky"][n] = light["sky"][n]
      BY <1>3, <2>0, <2>1, NeighborFacts
    <3>2. light'["sky"][d] = v /\ (SeesSky(heightMap, d) => v >= Full)
      BY <1>t, <1>1, <1>3, <2>0, <2>1, SourceFacts DEF IsValue
    <3>3. SeesSky(heightMap, d) => light'["sky"][d] = Full
      BY <1>2, <3>2, CellFacts
    <3> QED BY <1>1, <2>1, <3>1, <3>2, <3>3 DEF IsValue
  <2>2. CASE ~(t = "sky" /\ d = c)
    <3>1. /\ SeesSky(heightMap, d) => light["sky"][d] = Full
          /\ Passes(cellBlocks, d) => \A n \in Neighbors[d] :
                light["sky"][d] >= light["sky"][n] - Dim(cellBlocks, d) \/ FromAbove(d, n)
      BY <1>7, <2>0, <2>2 DEF LightInv, SkyEnough, Queued
    <3>2. light'["sky"][d] = light["sky"][d]
      BY <1>3, <2>0, <2>2
    <3> QED BY <1>8, <2>0, <2>2, <3>1, <3>2
  <2> QED BY <2>1, <2>2
<1>11. Waiting'
  <2> SUFFICES ASSUME lightQueue' = {}, NEW d \in Cells, SeesSky(heightMap', d), light'["sky"][d] < Full
               PROVE  FALSE
    BY <1>u DEF Waiting
  <2>1. light'["sky"][d] = Full
    BY <1>10 DEF SkyEnough, Queued
  <2> QED BY <2>1, CellFacts
<1> QED BY <1>5, <1>6, <1>9, <1>10, <1>11 DEF LightInv

-----------------------------------------------------------------------------
(* A block changes *)

Torches(c)     == Darkened(light["block"], {c})
SkyDark(c)     == Darkened(light["sky"], {c})
RelitSky(c, h) == Relit(Without(light["sky"], SkyDark(c)), c[1], h)
Covered(c, h)  == IF h > heightMap[c[1]]
                  THEN Darkened(RelitSky(c, h), Segment(c[1], heightMap[c[1]], h)) ELSE {}

(* The step in these names: what is dark, what is full, what is queued. *)
LEMMA ChangeBlockFacts ==
    ASSUME LightTypeOK, NEW c \in Cells, NEW kind \in Kinds, ChangeBlock(c, kind)
    PROVE  /\ ~draining /\ ~draining'
           /\ cellBlocks \in [Cells -> Kinds] /\ cellBlocks' \in [Cells -> Kinds]
           /\ cellBlocks' = [cellBlocks EXCEPT ![c] = kind]
           /\ heightMap \in [Columns -> 0..Top]
           /\ light["sky"] \in Lights /\ light["block"] \in Lights /\ light \in [Types -> Lights]
           /\ \E h \in 0..Top :
                 /\ IsHeight(cellBlocks', c[1], h)
                 /\ heightMap' = [heightMap EXCEPT ![c[1]] = h]
                 /\ light' = [light EXCEPT !["sky"] = Without(RelitSky(c, h), Covered(c, h)),
                                           !["block"] = Without(light["block"], Torches(c))]
                 /\ lightQueue' = lightQueue
                      \cup {"sky"} \X (Woken(light["sky"], SkyDark(c)) \cup {c}
                                        \cup Woken(RelitSky(c, h), Covered(c, h))
                                        \cup Uncovered(cellBlocks', c[1], heightMap[c[1]], h))
                      \cup {"block"} \X (Woken(light["block"], Torches(c)) \cup {c})
<1>1. /\ ~draining /\ ~draining'
      /\ cellBlocks \in [Cells -> Kinds] /\ heightMap \in [Columns -> 0..Top]
      /\ light \in [Types -> Lights] /\ light["sky"] \in Lights /\ light["block"] \in Lights
      /\ cellBlocks' = [cellBlocks EXCEPT ![c] = kind]
  BY DEF LightTypeOK, ChangeBlock, Types
<1> QED BY <1>1, ZenonT(40) DEF ChangeBlock, Torches, SkyDark, RelitSky, Covered

(* Nothing changes about the other cells' blocks. *)
LEMMA OtherBlocks ==
    ASSUME NEW b \in [Cells -> Kinds], NEW c \in Cells, NEW kind \in Kinds, NEW d \in Cells, d # c
    PROVE  LET b2 == [b EXCEPT ![c] = kind]
           IN  b2[d] = b[d] /\ Dim(b2, d) = Dim(b, d) /\ (Passes(b2, d) <=> Passes(b, d))
BY DEF Dim, Passes

LEMMA ChangeKeepsType ==
    ASSUME LightTypeOK, NEW c \in Cells, NEW kind \in Kinds, ChangeBlock(c, kind)
    PROVE  LightTypeOK'
<1>1. PICK h \in 0..Top :
         /\ IsHeight(cellBlocks', c[1], h)
         /\ heightMap' = [heightMap EXCEPT ![c[1]] = h]
         /\ light' = [light EXCEPT !["sky"] = Without(RelitSky(c, h), Covered(c, h)),
                                   !["block"] = Without(light["block"], Torches(c))]
         /\ lightQueue' = lightQueue
              \cup {"sky"} \X (Woken(light["sky"], SkyDark(c)) \cup {c}
                                \cup Woken(RelitSky(c, h), Covered(c, h))
                                \cup Uncovered(cellBlocks', c[1], heightMap[c[1]], h))
              \cup {"block"} \X (Woken(light["block"], Torches(c)) \cup {c})
  BY ChangeBlockFacts
<1>2. /\ cellBlocks' \in [Cells -> Kinds] /\ heightMap \in [Columns -> 0..Top]
      /\ cellBlocks' = [cellBlocks EXCEPT ![c] = kind] /\ cellBlocks \in [Cells -> Kinds]
      /\ light \in [Types -> Lights] /\ ~draining'
      /\ light["sky"] \in Lights /\ light["block"] \in Lights
  BY ChangeBlockFacts
<1>3. RelitSky(c, h) \in Lights
  BY <1>2, WithoutFacts, CellFacts DEF RelitSky, Relit, Lights
<1>4. light' \in [Types -> Lights]
  BY <1>1, <1>2, <1>3, WithoutFacts DEF Types
<1>5. lightQueue' \subseteq Types \X Cells
  <2>1. /\ Woken(light["sky"], SkyDark(c)) \subseteq Cells
        /\ Woken(light["block"], Torches(c)) \subseteq Cells
        /\ Woken(RelitSky(c, h), Covered(c, h)) \subseteq Cells
    BY DEF Woken, Lit
  <2>2. Uncovered(cellBlocks', c[1], heightMap[c[1]], h) \subseteq Cells
    BY DEF Uncovered, Region, Segment
  <2> QED BY <1>1, <2>1, <2>2 DEF LightTypeOK, Types
<1>6. heightMap' \in [Columns -> 0..Top]
  BY <1>1, <1>2
<1>7. ASSUME NEW d \in Cells
      PROVE  SeesSky(heightMap', d) <=>
                \A y \in Heights : y >= d[2] => Opacity[cellBlocks'[<<d[1], y>>]] = 0
  <2>0. d[1] \in Columns /\ d[2] \in Int /\ 0 <= d[2] /\ Top \in Nat
    BY CellFacts
  <2>1. CASE d[1] = c[1]
    <3>1. heightMap'[d[1]] = h
      BY <1>1, <1>2, <2>0, <2>1
    <3>2. \A y \in Heights : y >= h => Opacity[cellBlocks'[<<d[1], y>>]] = 0
      BY <1>1, <2>1 DEF IsHeight
    <3>3. h > 0 => h - 1 \in Heights /\ Opacity[cellBlocks'[<<d[1], h - 1>>]] > 0
      BY <1>1, <2>0, <2>1 DEF IsHeight, Heights
    <3>4. ASSUME d[2] >= h, NEW y \in Heights, y >= d[2] PROVE Opacity[cellBlocks'[<<d[1], y>>]] = 0
      BY <2>0, <3>2, <3>4 DEF Heights
    <3>5. ASSUME ~(d[2] >= h)
          PROVE  \E y \in Heights : y >= d[2] /\ Opacity[cellBlocks'[<<d[1], y>>]] # 0
      <4>1. h > 0 /\ h - 1 >= d[2]
        BY <2>0, <3>5
      <4> QED BY <3>3, <4>1
    <3> QED BY <3>1, <3>4, <3>5 DEF SeesSky
  <2>2. CASE d[1] # c[1]
    <3>1. heightMap'[d[1]] = heightMap[d[1]]
      BY <1>1, <1>2, <2>0, <2>2
    <3>2. \A y \in Heights : cellBlocks'[<<d[1], y>>] = cellBlocks[<<d[1], y>>]
      BY <1>2, <2>0, <2>2, CellFacts DEF Cells
    <3> QED BY <3>1, <3>2 DEF LightTypeOK, SeesSky
  <2> QED BY <2>1, <2>2
<1>8. draining' \in BOOLEAN
  BY <1>2, Zenon DEF ChangeBlock, LightTypeOK
<1> QED BY <1>2, <1>4, <1>5, <1>6, <1>7, <1>8, Zenon DEF LightTypeOK

(* What was dark, was lit beside something dark, and is queued for it. *)
LEMMA DarkIsWoken ==
    ASSUME NEW l \in Lights, NEW S \in SUBSET Cells, NEW d \in Darkened(l, S), d \notin S
    PROVE  d \in Woken(l, Darkened(l, S))
BY DarkenedFacts DEF Woken

LEMMA TorchesKeep ==
    ASSUME LightInv, NEW c \in Cells, NEW kind \in Kinds, ChangeBlock(c, kind)
    PROVE  /\ BlockEnough'
           /\ \A d \in Cells :
                 \/ light'["block"][d] <= Source(cellBlocks', heightMap', "block", d)
                 \/ /\ Passes(cellBlocks', d)
                    /\ \E n \in Neighbors[d] : light'["block"][d] <= light'["block"][n] - Dim(cellBlocks', d)
<1> DEFINE l == light["block"]
           l2 == light'["block"]
           dark == Torches(c)
<1>t. LightTypeOK
  BY DEF LightInv
<1>1. /\ cellBlocks \in [Cells -> Kinds] /\ cellBlocks' \in [Cells -> Kinds]
      /\ cellBlocks' = [cellBlocks EXCEPT ![c] = kind]
      /\ l \in Lights /\ light \in [Types -> Lights]
  BY <1>t, ChangeBlockFacts
<1>2. /\ l2 = Without(l, dark)
      /\ \A d \in Cells : Queued("block", d) \/ d = c \/ d \in Woken(l, dark) => Queued("block", d)'
  BY <1>t, <1>1, ChangeBlockFacts DEF Types, Queued
<1>3. /\ dark \subseteq Lit(l) /\ (c \in Lit(l) => c \in dark)
      /\ \A d \in dark : \A n \in Neighbors[d] : n \in Lit(l) /\ l[n] < l[d] => n \in dark
  BY <1>1, DarkenedFacts DEF Torches
<1>4. \A d \in Cells : (d \in dark => l2[d] = 0) /\ (d \notin dark => l2[d] = l[d])
  BY <1>1, <1>2, WithoutFacts
<1>5. \A d \in Cells : l[d] \in Nat /\ l2[d] \in Nat /\ l2[d] <= l[d]
  BY <1>1, <1>4, LightFacts
<1>6. ASSUME NEW d \in dark PROVE Queued("block", d)'
  <2>1. d \in Cells /\ (d # c => d \in Woken(l, dark))
    BY <1>1, <1>3, DarkIsWoken DEF Torches, Lit
  <2> QED BY <1>2, <2>1
<1> HIDE DEF l, l2, dark
<1>7. ASSUME NEW d \in Cells, ~Queued("block", d)'
      PROVE  /\ l2[d] >= Emission[cellBlocks'[d]]
             /\ Passes(cellBlocks', d) => \A n \in Neighbors[d] : l2[d] >= l2[n] - Dim(cellBlocks', d)
  <2>1. d # c /\ d \notin dark /\ ~Queued("block", d)
    BY <1>2, <1>6, <1>7
  <2>2. cellBlocks'[d] = cellBlocks[d] /\ Dim(cellBlocks', d) = Dim(cellBlocks, d)
        /\ (Passes(cellBlocks', d) <=> Passes(cellBlocks, d))
    BY <1>1, <2>1, OtherBlocks
  <2>3. /\ l[d] >= Emission[cellBlocks[d]]
        /\ Passes(cellBlocks, d) => \A n \in Neighbors[d] : l[d] >= l[n] - Dim(cellBlocks, d)
    BY <2>1 DEF LightInv, BlockEnough, l
  <2>4. ASSUME NEW n \in Neighbors[d], Passes(cellBlocks, d) PROVE l2[d] >= l2[n] - Dim(cellBlocks, d)
    <3>1. l[d] >= l[n] - Dim(cellBlocks, d) /\ n \in Cells /\ l2[d] = l[d]
      BY <1>4, <2>1, <2>3, <2>4, NeighborFacts
    <3> QED BY <1>1, <1>5, <3>1, BlockFacts
  <2> QED BY <1>4, <2>1, <2>2, <2>3, <2>4
<1>8. BlockEnough'
  BY <1>7 DEF BlockEnough, Queued, l2, Passes, Dim
<1>9. ASSUME NEW d \in Cells
      PROVE  \/ l2[d] <= Source(cellBlocks', heightMap', "block", d)
             \/ /\ Passes(cellBlocks', d)
                /\ \E n \in Neighbors[d] : l2[d] <= l2[n] - Dim(cellBlocks', d)
  <2>0. /\ Source(cellBlocks', heightMap', "block", d) \in 0..Full
        /\ Source(cellBlocks', heightMap', "block", d) = Emission[cellBlocks'[d]]
        /\ Source(cellBlocks, heightMap, "block", d) = Emission[cellBlocks[d]]
    BY <1>1, SourceFacts, ZenonT(40) DEF Types
  <2>1. CASE l2[d] = 0
    BY <2>0, <2>1, CellFacts
  <2>2. CASE l2[d] # 0
    <3>1. d \notin dark /\ d # c /\ l2[d] = l[d] /\ d \in Lit(l)
      BY <1>3, <1>4, <1>5, <2>2 DEF Lit
    <3>2. cellBlocks'[d] = cellBlocks[d] /\ Dim(cellBlocks', d) = Dim(cellBlocks, d)
          /\ (Passes(cellBlocks', d) <=> Passes(cellBlocks, d))
      BY <1>1, <3>1, OtherBlocks
    <3>3. \/ l[d] <= Source(cellBlocks, heightMap, "block", d)
          \/ Passes(cellBlocks, d) /\ \E n \in Neighbors[d] : l[d] <= l[n] - Dim(cellBlocks, d)
      BY DEF LightInv, NeverTooBright, Types, l
    <3>4. ASSUME NEW n \in Neighbors[d], l[d] <= l[n] - Dim(cellBlocks, d)
          PROVE  l2[d] <= l2[n] - Dim(cellBlocks, d)
      <4>1. n \in Cells /\ d \in Neighbors[n]
        BY NeighborFacts
      <4>2. l[d] < l[n]
        BY <1>1, <1>5, <3>4, <4>1, BlockFacts
      <4>3. n \notin dark
        BY <1>3, <3>1, <4>1, <4>2
      <4> QED BY <1>4, <3>1, <3>4, <4>1, <4>3
    <3> QED BY <2>0, <3>1, <3>2, <3>3, <3>4
  <2> QED BY <2>1, <2>2
<1> QED BY <1>8, <1>9 DEF l2

(* The sky's light: what a column that grows covers goes dark, what a column
   that shrinks uncovers is full at once. *)
LEMMA SkyKeeps ==
    ASSUME LightInv, NEW c \in Cells, NEW kind \in Kinds, ChangeBlock(c, kind)
    PROVE  /\ SkyEnough' /\ Waiting'
           /\ \A d \in Cells :
                 \/ light'["sky"][d] <= Source(cellBlocks', heightMap', "sky", d)
                 \/ /\ Passes(cellBlocks', d)
                    /\ \E n \in Neighbors[d] : light'["sky"][d] <= light'["sky"][n] - Dim(cellBlocks', d)
<1>t. LightTypeOK /\ LightTypeOK'
  BY ChangeKeepsType DEF LightInv
<1>1. PICK h \in 0..Top :
         /\ IsHeight(cellBlocks', c[1], h)
         /\ heightMap' = [heightMap EXCEPT ![c[1]] = h]
         /\ light' = [light EXCEPT !["sky"] = Without(RelitSky(c, h), Covered(c, h)),
                                   !["block"] = Without(light["block"], Torches(c))]
         /\ lightQueue' = lightQueue
              \cup {"sky"} \X (Woken(light["sky"], SkyDark(c)) \cup {c}
                                \cup Woken(RelitSky(c, h), Covered(c, h))
                                \cup Uncovered(cellBlocks', c[1], heightMap[c[1]], h))
              \cup {"block"} \X (Woken(light["block"], Torches(c)) \cup {c})
  BY <1>t, ChangeBlockFacts
<1> DEFINE x == c[1]
           old == heightMap[x]
           l == light["sky"]
           l2 == light'["sky"]
           dark == SkyDark(c)
           relit == RelitSky(c, h)
           covered == Covered(c, h)
           Raised(d) == d[1] = x /\ d[2] >= h
<1>2. /\ cellBlocks \in [Cells -> Kinds] /\ cellBlocks' \in [Cells -> Kinds]
      /\ cellBlocks' = [cellBlocks EXCEPT ![c] = kind]
      /\ l \in Lights /\ light \in [Types -> Lights] /\ ~draining /\ ~draining'
      /\ heightMap \in [Columns -> 0..Top]
  BY <1>t, ChangeBlockFacts
<1>3. /\ x \in Columns /\ x \in Around[x] /\ old \in Nat /\ h \in Nat /\ h <= Top
      /\ Full \in Nat /\ Full > 0 /\ Top \in Nat
  BY <1>2, CellFacts, LightAssumption
<1>4. /\ \A d \in Cells : SeesSky(heightMap', d) <=> IF d[1] = x THEN d[2] >= h ELSE SeesSky(heightMap, d)
      /\ \A d \in Cells : d[1] = x => (SeesSky(heightMap, d) <=> d[2] >= old)
  BY <1>1, <1>2, CellFacts DEF SeesSky
<1>5. /\ l2 = Without(relit, covered)
      /\ \A d \in Cells :
            \/ Queued("sky", d) \/ d = c \/ d \in Woken(l, dark) \/ d \in Woken(relit, covered)
            \/ d \in Uncovered(cellBlocks', x, old, h)
            => Queued("sky", d)'
  BY <1>1, <1>2 DEF Types, Queued
<1>6. /\ dark \subseteq Lit(l) /\ (c \in Lit(l) => c \in dark)
      /\ \A d \in dark : \A n \in Neighbors[d] : n \in Lit(l) /\ l[n] < l[d] => n \in dark
      /\ \A d \in dark : d # c => \E e \in dark : d \in Neighbors[e] /\ l[d] < l[e]
      /\ \A d \in dark : d # c => d \in Woken(l, dark)
  BY <1>2, DarkenedFacts, DarkIsWoken DEF SkyDark
<1>7. /\ relit \in Lights
      /\ \A d \in Cells : Raised(d) => relit[d] = Full
      /\ \A d \in Cells : ~Raised(d) /\ d \in dark => relit[d] = 0
      /\ \A d \in Cells : ~Raised(d) /\ d \notin dark => relit[d] = l[d]
  BY <1>2, <1>3, WithoutFacts DEF RelitSky, Relit, Lights
<1> DEFINE grown == Segment(x, old, h)
<1>8. /\ h > old =>
            /\ covered \subseteq Lit(relit) /\ grown \cap Lit(relit) \subseteq covered
            /\ \A d \in covered : \A n \in Neighbors[d] : n \in Lit(relit) /\ relit[n] < relit[d] => n \in covered
            /\ \A d \in covered : d \notin grown => \E e \in covered : d \in Neighbors[e] /\ relit[d] < relit[e]
            /\ \A d \in covered : d \notin grown => d \in Woken(relit, covered)
      /\ ~(h > old) => covered = {}
  <2>1. grown \in SUBSET Cells
    BY DEF Segment
  <2>2. h > old => covered = Darkened(relit, grown)
    BY DEF Covered
  <2>3. ~(h > old) => covered = {}
    BY DEF Covered
  <2> HIDE DEF grown, covered, relit
  <2> QED BY <1>7, <2>1, <2>2, <2>3, DarkenedFacts, DarkIsWoken
<1>9. \A d \in Cells : (d \in covered => l2[d] = 0) /\ (d \notin covered => l2[d] = relit[d])
  BY <1>5, <1>7, WithoutFacts
<1>10. \A d \in Cells : d \in grown <=> d[1] = x /\ old <= d[2] /\ d[2] <= h
  BY DEF Segment
(* The cells of the region are looked at again. *)
<1>11. ASSUME NEW d \in Cells, h # old, d[1] \in Around[x], d[2] <= old \/ d[2] <= h,
              d[2] >= old \/ d[2] >= h
       PROVE  Queued("sky", d)'
  <2> DEFINE low  == IF h < old THEN h ELSE old
             high == IF h < old THEN old ELSE h
  <2>1. d[2] <= high /\ d[2] >= low /\ d[2] \in Int /\ low \in Int
    BY <1>3, <1>11, CellFacts
  <2>2. ~(\E y \in Heights : d[2] <= y /\ y < low)
    BY <2>1 DEF Heights
  <2>3. d \in Region(cellBlocks', x, old, h)
    BY <1>11, <2>1, <2>2 DEF Region
  <2> QED BY <1>5, <1>11, <2>3 DEF Uncovered
<1>12. ASSUME NEW d \in dark PROVE Queued("sky", d)'
  BY <1>5, <1>6 DEF Lit
<1>13. ASSUME NEW d \in covered PROVE Queued("sky", d)'
  <2>1. h > old /\ d \in Cells
    BY <1>8 DEF Lit
  <2>2. CASE d \in grown
    BY <1>3, <1>10, <1>11, <2>1, <2>2
  <2>3. CASE d \notin grown
    BY <1>5, <1>8, <2>1, <2>3
  <2> QED BY <2>2, <2>3
<1>14. ASSUME NEW d \in Cells, d # c
       PROVE  /\ cellBlocks'[d] = cellBlocks[d] /\ Dim(cellBlocks', d) = Dim(cellBlocks, d)
              /\ (Passes(cellBlocks', d) <=> Passes(cellBlocks, d))
  BY <1>2, <1>14, OtherBlocks
<1>15. \A d \in Cells : /\ l[d] \in Nat /\ l2[d] \in Nat /\ relit[d] \in Nat
                       /\ l[d] <= Full /\ l2[d] <= Full /\ relit[d] <= Full
                       /\ l2[d] <= relit[d]
  BY <1>2, <1>3, <1>7, <1>9, LightFacts
<1>16. ASSUME NEW d \in Cells
       PROVE  Dim(cellBlocks, d) \in Nat /\ Dim(cellBlocks, d) >= 1 /\ d[1] \in Columns /\ d[2] \in Int
              /\ 0 <= d[2] /\ d[2] < Top /\ d = <<d[1], d[2]>>
  BY <1>2, BlockFacts, CellFacts
(* A cell that stays lit and is not raised keeps its light, and what is no longer lit is dark. *)
<1>17. ASSUME NEW d \in Cells, ~Queued("sky", d)'
       PROVE  /\ d # c /\ d \notin dark /\ d \notin covered /\ ~Queued("sky", d)
              /\ l2[d] = relit[d] /\ l2[d] >= l[d]
              /\ Raised(d) => l2[d] = Full
              /\ ~Raised(d) => l2[d] = l[d]
  BY <1>5, <1>7, <1>9, <1>12, <1>13, <1>15, <1>17
<1>h. \A z \in Columns : heightMap'[z] = IF z = x THEN h ELSE heightMap[z]
  BY <1>1, <1>2
<1>e. /\ \A d \in Cells : ~Queued("sky", d) =>
           /\ SeesSky(heightMap, d) => l[d] = Full
           /\ Passes(cellBlocks, d) => \A n \in Neighbors[d] :
                 l[d] >= l[n] - Dim(cellBlocks, d) \/ FromAbove(d, n)
      /\ \A d \in Cells : SeesSky(heightMap, d) /\ l[d] < Full => \A n \in Neighbors[d] :
           \/ Queued("sky", n) \/ FromAbove(n, d)
           \/ Passes(cellBlocks, n) => l[n] >= Full - Dim(cellBlocks, n)
      /\ \A d \in Cells :
           \/ l[d] <= Source(cellBlocks, heightMap, "sky", d)
           \/ Passes(cellBlocks, d) /\ \E n \in Neighbors[d] : l[d] <= l[n] - Dim(cellBlocks, d)
  BY <1>2 DEF LightInv, SkyEnough, Waiting, NeverTooBright, Types
<1> HIDE DEF l, l2, dark, relit, covered, grown
(* The surface of column x before the step: below a block that was put on it,
   below the open sky as before, or open to the sky itself. *)
(* The surface of a column: below the sky as before, or below what was put on it. *)
<1>18. ASSUME NEW d \in Cells, NEW n \in Neighbors[d], ~Queued("sky", d)', FromAbove(d, n), ~Raised(d)
       PROVE  FromAbove(d, n)' \/ l2[n] = 0
  <2>1. d # c /\ n \in Cells /\ d[1] \in Columns /\ d[2] \in Int
    BY <1>16, <1>17, <1>18, NeighborFacts
  <2>2. d[2] = heightMap[d[1]] - 1 /\ Passes(cellBlocks', d) /\ n = <<d[1], d[2] + 1>>
    BY <1>14, <1>18, <2>1 DEF FromAbove, IsSurface
  <2>3. CASE heightMap'[d[1]] = heightMap[d[1]]
    BY <2>2, <2>3 DEF FromAbove, IsSurface, Passes
  <2>4. CASE heightMap'[d[1]] # heightMap[d[1]]
    <3>1. d[1] = x /\ d[2] = old - 1 /\ h > old /\ n = <<x, old>>
      BY <1>3, <1>18, <1>h, <2>1, <2>2, <2>4
    <3>2. n \in grown
      BY <1>3, <1>10, <2>1, <3>1
    <3> QED BY <1>8, <1>9, <1>15, <2>1, <3>1, <3>2 DEF Lit
  <2> QED BY <2>3, <2>4
(* A cell beside one that the relit column has made brighter. *)
<1>19. ASSUME NEW d \in Cells, NEW n \in Neighbors[d], ~Queued("sky", d)', ~Raised(d), Passes(cellBlocks, d),
              Raised(n), l[n] < Full
       PROVE  l[d] >= Full - Dim(cellBlocks, d) \/ FromAbove(d, n)' \/ l2[n] = 0
  <2>1. /\ n \in Cells /\ d \in Neighbors[n] /\ d[2] \in Int /\ n[2] \in Int /\ d # c
        /\ n = <<n[1], n[2]>> /\ ~Queued("sky", d)
    BY <1>16, <1>17, <1>19, NeighborFacts
  <2>2. CASE n[2] < old
    <3>1. ~(d[2] = n[2] /\ d[1] \in Around[x])
      BY <1>3, <1>11, <1>19, <2>1, <2>2
    <3>2. d[1] = x /\ d[2] = n[2] - 1
      BY <1>3, <1>19, <2>1, <3>1, NeighborFacts
    <3>3. d[2] = h - 1 /\ n[2] = d[2] + 1 /\ heightMap'[d[1]] = h /\ n = <<d[1], d[2] + 1>>
      BY <1>3, <1>19, <1>h, <2>1, <3>2
    <3>4. Passes(cellBlocks', d)
      BY <1>14, <1>19, <2>1
    <3> QED BY <3>3, <3>4 DEF FromAbove, IsSurface, Passes
  <2>3. CASE n[2] >= old
    <3>1. SeesSky(heightMap, n)
      BY <1>4, <1>19, <2>1, <2>3
    <3>2. FromAbove(d, n) \/ l[d] >= Full - Dim(cellBlocks, d)
      BY <1>19, <1>e, <2>1, <3>1
    <3> QED BY <1>18, <1>19, <3>2
  <2> QED BY <1>3, <2>1, <2>2, <2>3
<1>20. ASSUME NEW d \in Cells, ~Queued("sky", d)'
       PROVE  /\ SeesSky(heightMap', d) => l2[d] = Full
              /\ Passes(cellBlocks', d) => \A n \in Neighbors[d] :
                    l2[d] >= l2[n] - Dim(cellBlocks', d) \/ FromAbove(d, n)'
  <2>1. /\ d # c /\ l2[d] >= l[d] /\ (Raised(d) => l2[d] = Full) /\ (~Raised(d) => l2[d] = l[d])
        /\ ~Queued("sky", d)
    BY <1>17, <1>20
  <2>2. SeesSky(heightMap', d) => l2[d] = Full
    BY <1>4, <1>15, <1>e, <2>1
  <2>3. ASSUME NEW n \in Neighbors[d], Passes(cellBlocks', d)
        PROVE  l2[d] >= l2[n] - Dim(cellBlocks', d) \/ FromAbove(d, n)'
    <3>1. n \in Cells /\ Passes(cellBlocks, d) /\ Dim(cellBlocks', d) = Dim(cellBlocks, d)
      BY <1>14, <2>1, <2>3, NeighborFacts
    <3>2. CASE Raised(d) \/ l2[n] = 0
      BY <1>3, <1>15, <1>16, <2>1, <3>1, <3>2
    <3>3. CASE ~Raised(d) /\ FromAbove(d, n)
      BY <1>18, <1>20, <3>2, <3>3
    <3>4. CASE ~Raised(d) /\ ~FromAbove(d, n) /\ l2[n] <= l[n]
      <4>1. l[d] >= l[n] - Dim(cellBlocks, d)
        BY <1>e, <2>1, <3>1, <3>4
      <4> QED BY <1>15, <1>16, <2>1, <3>1, <3>4, <4>1
    <3>5. CASE ~Raised(d) /\ ~(l2[n] <= l[n])
      <4>1. Raised(n) /\ l[n] < Full
        BY <1>3, <1>7, <1>9, <1>15, <3>1, <3>5
      <4>2. l[d] >= Full - Dim(cellBlocks, d) \/ FromAbove(d, n)' \/ l2[n] = 0
        BY <1>19, <1>20, <3>1, <3>5, <4>1
      <4> QED BY <1>3, <1>15, <1>16, <2>1, <3>1, <3>2, <3>5, <4>2
    <3> QED BY <3>2, <3>3, <3>4, <3>5
  <2> QED BY <2>2, <2>3
<1>21. SkyEnough'
  BY <1>20 DEF SkyEnough, Queued, l2, Passes, Dim, FromAbove, IsSurface, SeesSky
(* Cells that see the sky and are not full. *)
<1>22. ASSUME NEW d \in Cells, SeesSky(heightMap', d), l2[d] < Full, NEW n \in Neighbors[d],
              ~Queued("sky", n)', Passes(cellBlocks', n)
       PROVE  l2[n] >= Full - Dim(cellBlocks', n) \/ FromAbove(n, d)'
  <2>1. /\ n \in Cells /\ n # c /\ d \in Neighbors[n] /\ Passes(cellBlocks, n) /\ ~Queued("sky", n)
        /\ Dim(cellBlocks', n) = Dim(cellBlocks, n) /\ n[2] \in Int /\ d[2] \in Int
        /\ Dim(cellBlocks, n) \in Nat /\ l2[n] >= l[n] /\ (Raised(n) => l2[n] = Full)
    BY <1>14, <1>16, <1>17, <1>22, NeighborFacts
  <2>2. CASE d[1] = x
    <3>1. Raised(d) /\ relit[d] = Full /\ d \in covered /\ h > old
      BY <1>3, <1>4, <1>7, <1>8, <1>9, <1>15, <1>22, <2>2
    <3>2. d \in grown
      <4> SUFFICES ASSUME d \notin grown PROVE FALSE
        OBVIOUS
      <4>1. PICK e \in covered : relit[d] < relit[e]
        BY <1>8, <3>1
      <4>2. e \in Cells
        BY <1>8, <3>1 DEF Lit
      <4> QED BY <1>3, <1>15, <3>1, <4>1, <4>2
    <3>3. d[2] = h
      BY <1>3, <1>10, <2>1, <3>1, <3>2
    <3>4. CASE n[1] = x /\ n[2] = d[2] + 1
      BY <1>3, <2>1, <3>3, <3>4
    <3>5. CASE n[1] = x /\ n[2] = d[2] - 1
      BY <1>3, <1>11, <1>22, <2>1, <3>1, <3>3, <3>5
    <3>6. CASE n[2] = d[2] /\ n[1] \in Around[x]
      BY <1>3, <1>11, <1>22, <2>1, <3>1, <3>3, <3>6
    <3> QED BY <2>2, <3>4, <3>5, <3>6, NeighborFacts
  <2>3. CASE d[1] # x
    <3>1. SeesSky(heightMap, d) /\ ~Raised(d)
      BY <1>4, <1>22, <2>3
    <3>2. l[d] < Full
      <4> SUFFICES ASSUME l[d] = Full PROVE FALSE
        BY <1>3, <1>15
      <4>1. d \notin dark
        <5> SUFFICES ASSUME d \in dark PROVE FALSE
          OBVIOUS
        <5>1. d # c
          BY <2>3 DEF x
        <5>2. PICK e \in dark : l[d] < l[e]
          BY <1>6, <5>1
        <5>3. e \in Cells
          BY <1>6 DEF Lit
        <5> QED BY <1>3, <1>15, <5>2, <5>3
      <4>2. relit[d] = Full /\ d \in covered /\ h > old
        <5>1. relit[d] = Full
          BY <1>7, <3>1, <4>1
        <5>2. d \in covered
          BY <1>3, <1>9, <1>15, <1>22, <5>1
        <5> QED BY <1>8, <5>1, <5>2
      <4>3. d \notin grown
        BY <1>10, <2>3
      <4>4. PICK e \in covered : relit[d] < relit[e]
        BY <1>8, <4>2, <4>3
      <4>5. e \in Cells
        BY <1>8, <4>2 DEF Lit
      <4> QED BY <1>3, <1>15, <4>2, <4>4, <4>5
    <3>3. l[n] >= Full - Dim(cellBlocks, n) \/ FromAbove(n, d)
      BY <1>e, <2>1, <3>1, <3>2
    <3>4. CASE l[n] >= Full - Dim(cellBlocks, n)
      BY <1>3, <1>15, <2>1, <3>4
    <3>5. CASE FromAbove(n, d)
      <4>1. n[1] = d[1] /\ n[1] \in Columns
        BY <1>16, <2>1, <3>5 DEF FromAbove
      <4>2. heightMap'[n[1]] = heightMap[n[1]]
        BY <1>h, <2>3, <4>1
      <4> QED BY <1>22, <3>5, <4>2 DEF FromAbove, IsSurface, Passes
    <3> QED BY <3>3, <3>4, <3>5
  <2> QED BY <2>2, <2>3
<1>23. Waiting'
  BY <1>22 DEF Waiting, Queued, l2, Passes, Dim, FromAbove, IsSurface, SeesSky
(* No cell is too bright. *)
<1>24. ASSUME NEW d \in Cells
       PROVE  \/ l2[d] <= Source(cellBlocks', heightMap', "sky", d)
              \/ /\ Passes(cellBlocks', d)
                 /\ \E n \in Neighbors[d] : l2[d] <= l2[n] - Dim(cellBlocks', d)
  <2>0. /\ Source(cellBlocks', heightMap', "sky", d) = IF SeesSky(heightMap', d) THEN Full ELSE 0
        /\ Source(cellBlocks, heightMap, "sky", d) = IF SeesSky(heightMap, d) THEN Full ELSE 0
    <3>1. Source(cellBlocks', heightMap', "sky", d) = IF SeesSky(heightMap', d) THEN Full ELSE 0
      BY <1>2, SourceFacts
    <3>2. Source(cellBlocks, heightMap, "sky", d) = IF SeesSky(heightMap, d) THEN Full ELSE 0
      BY <1>2, SourceFacts
    <3> QED BY <3>1, <3>2
  <2>1. CASE SeesSky(heightMap', d) \/ l2[d] = 0
    BY <1>3, <1>15, <2>0, <2>1
  <2>2. CASE ~SeesSky(heightMap', d) /\ l2[d] # 0
    <3>1. ~Raised(d)
      BY <1>4, <2>2
    <3>2. d \notin covered /\ d \notin dark /\ l2[d] = l[d] /\ relit[d] = l[d] /\ l[d] > 0
      BY <1>7, <1>9, <1>15, <2>2, <3>1
    <3>3. d \in Lit(l) /\ d \in Lit(relit) /\ d # c
      BY <1>6, <3>2 DEF Lit
    <3>4. ~SeesSky(heightMap, d)
      <4> SUFFICES ASSUME SeesSky(heightMap, d) PROVE FALSE
        OBVIOUS
      <4>1. d[1] = x /\ d[2] >= old /\ d[2] < h
        BY <1>3, <1>4, <1>16, <2>2
      <4> QED BY <1>3, <1>8, <1>10, <1>16, <3>2, <3>3, <4>1
    <3>5. PICK n \in Neighbors[d] : Passes(cellBlocks, d) /\ l[d] <= l[n] - Dim(cellBlocks, d)
      BY <1>e, <2>0, <3>2, <3>4, <1>15
    <3>6. n \in Cells /\ d \in Neighbors[n] /\ l[d] < l[n]
      BY <1>15, <1>16, <3>5, NeighborFacts
    <3>7. n \notin dark
      BY <1>6, <3>2, <3>3, <3>6
    <3>8. relit[n] >= l[n]
      BY <1>7, <1>15, <3>6, <3>7
    <3>9. n \notin covered
      BY <1>8, <1>15, <3>2, <3>3, <3>6, <3>8
    <3>10. l2[d] <= l2[n] - Dim(cellBlocks, d)
      BY <1>9, <1>15, <1>16, <3>2, <3>5, <3>6, <3>8, <3>9
    <3> QED BY <1>14, <3>3, <3>5, <3>10
  <2> QED BY <2>1, <2>2
<1> QED BY <1>21, <1>23, <1>24 DEF l2

LEMMA ChangeBlockKeeps ==
    ASSUME LightInv, NEW c \in Cells, NEW kind \in Kinds, ChangeBlock(c, kind)
    PROVE  LightInv'
<1>1. LightTypeOK'
  BY ChangeKeepsType DEF LightInv
<1>2. NeverTooBright'
  BY TorchesKeep, SkyKeeps DEF NeverTooBright, Types, Source, Passes, Dim, SeesSky
<1> QED BY <1>1, <1>2, TorchesKeep, SkyKeeps DEF LightInv

-----------------------------------------------------------------------------
(* The theorems *)

THEOREM LightHolds == LightSpec => []LightInv
<1>0. ASSUME LightInv, UNCHANGED <<cellBlocks, heightMap, light, lightQueue>>,
             draining' \in BOOLEAN, draining' \/ UNCHANGED draining
      PROVE  LightInv'
  <2>1. LightTypeOK'
    BY <1>0 DEF LightInv, LightTypeOK, SeesSky
  <2>2. NeverTooBright'
    BY <1>0 DEF LightInv, NeverTooBright, Source, Passes, Dim, SeesSky
  <2>3. BlockEnough'
    BY <1>0 DEF LightInv, BlockEnough, Queued, Passes, Dim
  <2>4. SkyEnough'
    BY <1>0 DEF LightInv, SkyEnough, Queued, FromAbove, IsSurface, Passes, Dim, SeesSky
  <2>5. Waiting'
    BY <1>0 DEF LightInv, Waiting, Queued, FromAbove, IsSurface, Passes, Dim, SeesSky
  <2> QED BY <2>1, <2>2, <2>3, <2>4, <2>5 DEF LightInv
<1>1. LightInv /\ UNCHANGED lightVars => LightInv'
  BY <1>0 DEF lightVars, LightInv, LightTypeOK
<1>2. LightInv /\ StartQueue => LightInv'
  BY <1>0 DEF StartQueue
<1>3. LightInv /\ [LightNext]_lightVars => LightInv'
  BY <1>1, <1>2, ChangeBlockKeeps, TakeEntryKeeps DEF LightNext
<1> QED BY <1>3, InitLight, PTL DEF LightSpec

(* The height map is that of the blocks, and light is between none and full. *)
THEOREM LightTyped == LightSpec => []LightTypeOK
<1>1. LightInv => LightTypeOK
  BY DEF LightInv
<1> QED BY <1>1, LightHolds, PTL

(* No cell is ever brighter than its sources and the cells beside it make it:
   lighter.cpp, UnlightAt before PropagateLightAt. *)
THEOREM NothingTooBright == LightSpec => []NeverTooBright
<1>1. LightInv => NeverTooBright
  BY DEF LightInv
<1> QED BY <1>1, LightHolds, PTL

(* A cell that is neither too bright nor too dark has its value. *)
LEMMA EnoughIsRight ==
    ASSUME LightTypeOK, NeverTooBright, NEW t \in Types, NEW c \in Cells,
           light[t][c] >= Source(cellBlocks, heightMap, t, c),
           Passes(cellBlocks, c) => \A n \in Neighbors[c] : light[t][c] >= light[t][n] - Dim(cellBlocks, c)
    PROVE  IsRight(t, c)
<1>1. /\ cellBlocks \in [Cells -> Kinds] /\ light[t] \in Lights
  BY DEF LightTypeOK
<1>2. Source(cellBlocks, heightMap, t, c) \in 0..Full /\ light[t][c] \in Nat /\ Full \in Nat
  BY <1>1, SourceFacts, LightFacts, CellFacts
<1>3. CASE light[t][c] <= Source(cellBlocks, heightMap, t, c)
  BY <1>2, <1>3 DEF IsRight, IsValue
<1>4. CASE Passes(cellBlocks, c) /\ \E n \in Neighbors[c] : light[t][c] <= light[t][n] - Dim(cellBlocks, c)
  <2>1. PICK n \in Neighbors[c] : light[t][c] <= light[t][n] - Dim(cellBlocks, c)
    BY <1>4
  <2>2. light[t][c] = light[t][n] - Dim(cellBlocks, c)
    BY <1>1, <1>2, <1>4, <2>1, LightFacts, BlockFacts, NeighborFacts, SMTT(30)
  <2> QED BY <1>4, <2>2 DEF IsRight, IsValue
<1> QED BY <1>3, <1>4 DEF NeverTooBright

(* When nothing is queued, torches light exactly what they should. *)
THEOREM TorchesSettle == LightSpec => []BlockLightSettles
<1>1. ASSUME LightInv, lightQueue = {}, NEW c \in Cells PROVE IsRight("block", c)
  <2>1. /\ light["block"][c] >= Emission[cellBlocks[c]]
        /\ Passes(cellBlocks, c) => \A n \in Neighbors[c] :
              light["block"][c] >= light["block"][n] - Dim(cellBlocks, c)
    BY <1>1 DEF LightInv, BlockEnough, Queued
  <2>2. Source(cellBlocks, heightMap, "block", c) = Emission[cellBlocks[c]]
    BY <1>1, SourceFacts DEF LightInv, LightTypeOK
  <2> QED BY <1>1, <2>1, <2>2, EnoughIsRight DEF LightInv, Types
<1>2. LightInv => BlockLightSettles
  BY <1>1 DEF BlockLightSettles
<1> QED BY <1>2, LightHolds, PTL

(* So does the sky, but for the surface of water, ice or leaves. *)
THEOREM SkySettles == LightSpec => []SkyLightSettles
<1>1. ASSUME LightInv, lightQueue = {}, NEW c \in Cells, ~IsSurface(c) PROVE IsRight("sky", c)
  <2>1. /\ SeesSky(heightMap, c) => light["sky"][c] = Full
        /\ Passes(cellBlocks, c) => \A n \in Neighbors[c] :
              light["sky"][c] >= light["sky"][n] - Dim(cellBlocks, c)
    BY <1>1 DEF LightInv, SkyEnough, Queued, FromAbove
  <2>2. Source(cellBlocks, heightMap, "sky", c) = IF SeesSky(heightMap, c) THEN Full ELSE 0
    BY <1>1, SourceFacts DEF LightInv, LightTypeOK
  <2>3. light["sky"][c] \in Nat /\ "sky" \in Types /\ Full \in Nat
    BY <1>1, LightFacts, CellFacts DEF LightInv, LightTypeOK, Types
  <2>4. light["sky"][c] >= Source(cellBlocks, heightMap, "sky", c)
    BY <2>1, <2>2, <2>3
  <2> QED BY <1>1, <2>1, <2>3, <2>4, EnoughIsRight DEF LightInv
<1>2. LightInv => SkyLightSettles
  BY <1>1 DEF SkyLightSettles
<1> QED BY <1>2, LightHolds, PTL

(* Light is right when the queue is empty, and never too bright before. *)
THEOREM LightRight == LightSpec => []LightIsRight
BY NothingTooBright, TorchesSettle, SkySettles, PTL DEF LightIsRight


-----------------------------------------------------------------------------
(* Entities and the records of their chunks *)

\* Who was born and is neither dead nor lost is somewhere.
IsSomewhere ==
    \A e \in born \ (gone \cup strayed) :
        e \in living \/ \E c \in Places : c \notin present /\ e \in records[c]

RecordsCount ==
    /\ living \cap gone = {} /\ living \subseteq born
    /\ \A c \in Places : records[c] \subseteq born
    /\ \A c \in Places \ present : \A e \in records[c] :
          /\ e \notin living /\ e \notin gone
          /\ \A d \in Places \ present : e \in records[d] => d = c

UnmodifiedIsTrue ==
    \A c \in present \ chunkModified : \A e \in records[c] :
        (e \in living /\ bucketPos[e] = c) \/ <<e, c>> \in fallen

StoreInv == EntityStoreTypeOK /\ IsSomewhere /\ RecordsCount /\ UnmodifiedIsTrue

-----------------------------------------------------------------------------

LEMMA InitStore == EntityStoreInit => StoreInv
BY EntityStoreAssumption DEF EntityStoreInit, StoreInv, EntityStoreTypeOK, IsSomewhere, RecordsCount, UnmodifiedIsTrue

(* A chunk that is not saved when it is dropped, or at the end, has an empty
   record. *)
LEMMA UnsavedIsEmpty ==
    ASSUME StoreInv, NEW c \in present, c \notin chunkModified, ~ChunkHasEntities(c)
    PROVE  records[c] = {}
<1> SUFFICES ASSUME NEW e \in records[c] PROVE FALSE
  BY DEF StoreInv, EntityStoreTypeOK
<1>1. (e \in living /\ bucketPos[e] = c) \/ <<e, c>> \in fallen
  BY DEF StoreInv, UnmodifiedIsTrue
<1>2. <<e, c>>[2] = c
  OBVIOUS
<1> QED BY <1>1, <1>2 DEF ChunkHasEntities, LivingIn

LEMMA AddKeeps ==
    ASSUME StoreInv, NEW e \in Entities, NEW c \in Places, AddNewEntity(e, c)
    PROVE  StoreInv'
<1>1. EntityStoreTypeOK'
  BY DEF AddNewEntity, StoreInv, EntityStoreTypeOK
<1>2. IsSomewhere' /\ RecordsCount'
  BY DEF AddNewEntity, StoreInv, EntityStoreTypeOK, IsSomewhere, RecordsCount
<1>3. UnmodifiedIsTrue'
  BY DEF AddNewEntity, StoreInv, EntityStoreTypeOK, RecordsCount, UnmodifiedIsTrue
<1> QED BY <1>1, <1>2, <1>3 DEF StoreInv

LEMMA KillKeeps ==
    ASSUME StoreInv, NEW e \in Entities, Kill(e)
    PROVE  StoreInv'
<1>1. EntityStoreTypeOK'
  BY DEF Kill, StoreInv, EntityStoreTypeOK, RecordsCount
<1>2. IsSomewhere' /\ RecordsCount'
  BY DEF Kill, StoreInv, EntityStoreTypeOK, IsSomewhere, RecordsCount
<1>3. UnmodifiedIsTrue'
  BY DEF Kill, StoreInv, EntityStoreTypeOK, UnmodifiedIsTrue
<1> QED BY <1>1, <1>2, <1>3 DEF StoreInv

(* Whatever goes from a bucket in a tick leaves its chunk modified. *)
LEMMA TickKeeps ==
    ASSUME StoreInv, EntityManagerTick
    PROVE  StoreInv'
<1>1. /\ bucketPos' \in [Entities -> Places]
      /\ chunkModified \subseteq chunkModified' /\ chunkModified' \subseteq present
      /\ DeathModified \subseteq chunkModified'
  BY DEF EntityManagerTick, StoreInv, EntityStoreTypeOK, DeathModified, LeftModified
<1>2. /\ fallen' = {} /\ husks' = {}
      /\ UNCHANGED <<living, present, records, running, frozen, born, gone, strayed>>
  BY DEF EntityManagerTick
<1>3. EntityStoreTypeOK'
  BY <1>1, <1>2 DEF StoreInv, EntityStoreTypeOK
<1>4. IsSomewhere' /\ RecordsCount'
  BY <1>2 DEF StoreInv, IsSomewhere, RecordsCount
<1>5. UnmodifiedIsTrue'
  <2> SUFFICES ASSUME NEW c \in present', c \notin chunkModified', NEW e \in records'[c]
               PROVE  e \in living' /\ bucketPos'[e] = c
    BY DEF UnmodifiedIsTrue
  <2>1. c \in present /\ c \notin chunkModified /\ e \in records[c] /\ c \notin DeathModified /\ e \in Entities
    BY <1>1, <1>2 DEF StoreInv, EntityStoreTypeOK
  <2>2. <<e, c>> \notin fallen
    <3> SUFFICES ASSUME <<e, c>> \in fallen PROVE FALSE
      OBVIOUS
    <3>1. <<e, c>>[2] = c /\ <<e, c>> \in fallen \cup husks
      OBVIOUS
    <3> QED BY <2>1, <3>1 DEF DeathModified
  <2>3. e \in living /\ bucketPos[e] = c
    BY <2>1, <2>2 DEF StoreInv, UnmodifiedIsTrue
  <2>4. bucketPos'[e] = c
    <3> SUFFICES ASSUME bucketPos'[e] # bucketPos[e] PROVE FALSE
      BY <2>3
    <3>1. c \in LeftModified(e) => c \in chunkModified'
      BY DEF EntityManagerTick, StoreInv, EntityStoreTypeOK
    <3> QED BY <2>1, <2>3, <3>1 DEF LeftModified
  <2> QED BY <1>2, <2>3, <2>4
<1> QED BY <1>3, <1>4, <1>5 DEF StoreInv

LEMMA SaveKeeps ==
    ASSUME StoreInv, SaveChunks
    PROVE  StoreInv'
<1>1. PICK saved \in SUBSET present :
         /\ chunkModified \subseteq saved
         /\ records' = [c \in Places |-> IF c \in saved THEN LivingIn(c) ELSE records[c]]
  BY DEF SaveChunks, StoreInv, EntityStoreTypeOK
<1>2. /\ chunkModified' = {}
      /\ UNCHANGED <<living, bucketPos, fallen, husks, present, running, frozen, born, gone, strayed>>
  BY DEF SaveChunks
<1>3. \A c \in Places : records'[c] = IF c \in saved THEN LivingIn(c) ELSE records[c]
  BY <1>1
<1>4. \A c \in Places \ present : records'[c] = records[c]
  BY <1>1, <1>3
<1>5. EntityStoreTypeOK'
  BY <1>1, <1>2 DEF StoreInv, EntityStoreTypeOK, LivingIn
<1>6. IsSomewhere'
  BY <1>2, <1>4 DEF StoreInv, IsSomewhere
<1>7. RecordsCount'
  BY <1>2, <1>3, <1>4 DEF StoreInv, RecordsCount, LivingIn
<1>8. UnmodifiedIsTrue'
  BY <1>1, <1>2, <1>3 DEF StoreInv, EntityStoreTypeOK, UnmodifiedIsTrue, LivingIn
<1> QED BY <1>5, <1>6, <1>7, <1>8 DEF StoreInv

(* Saved or not, the record of a chunk that is dropped holds who lived there. *)
LEMMA DropKeeps ==
    ASSUME StoreInv, NEW c \in Places, DropChunk(c)
    PROVE  StoreInv'
<1>1. /\ c \in present /\ present' = present \ {c} /\ chunkModified' = chunkModified \ {c}
      /\ UNCHANGED <<bucketPos, running, frozen, born, gone, strayed>>
  BY DEF DropChunk
<1>3. /\ records' \in [Places -> SUBSET Entities]
      /\ records'[c] = LivingIn(c)
      /\ \A d \in Places : d # c => records'[d] = records[d]
      /\ living' = living \ LivingIn(c)
      /\ \A d \in Places, e \in Entities : d # c /\ <<e, d>> \in fallen => <<e, d>> \in fallen'
      /\ fallen' \subseteq Entities \X Places /\ husks' \subseteq Entities \X Places
  <2>1. CASE c \in chunkModified \/ ChunkHasEntities(c)
    <3>1. /\ records' = [d \in Places |-> IF d \in {c} THEN LivingIn(d) ELSE records[d]]
          /\ living' = {e \in living : bucketPos[e] \notin {c}}
          /\ husks' = husks \cup {<<e, bucketPos[e]>> : e \in {x \in living : bucketPos[x] \in {c}}}
                            \cup {pair \in fallen : pair[2] \in {c}}
          /\ fallen' = {pair \in fallen : pair[2] \notin {c}}
      BY <2>1 DEF DropChunk, Collected
    <3>2. living' = living \ LivingIn(c)
      BY <3>1 DEF LivingIn
    <3>3. records' \in [Places -> SUBSET Entities]
      BY <3>1 DEF StoreInv, EntityStoreTypeOK, LivingIn
    <3>4. ASSUME NEW d \in Places, NEW e \in Entities, d # c, <<e, d>> \in fallen PROVE <<e, d>> \in fallen'
      BY <3>1, <3>4
    <3>5. husks' \subseteq Entities \X Places /\ fallen' \subseteq Entities \X Places
      BY <3>1 DEF StoreInv, EntityStoreTypeOK
    <3> QED BY <3>1, <3>2, <3>3, <3>4, <3>5
  <2>2. CASE ~(c \in chunkModified \/ ChunkHasEntities(c))
    <3>1. records[c] = {} /\ LivingIn(c) = {} /\ UNCHANGED <<records, living, husks, fallen>>
      BY <1>1, <2>2, UnsavedIsEmpty DEF DropChunk, ChunkHasEntities
    <3> QED BY <3>1 DEF StoreInv, EntityStoreTypeOK
  <2> QED BY <2>1, <2>2
<1>4. EntityStoreTypeOK'
  BY <1>1, <1>3 DEF StoreInv, EntityStoreTypeOK
<1>5. IsSomewhere'
  <2> SUFFICES ASSUME NEW e \in born \ (gone \cup strayed), e \notin living'
               PROVE  \E d \in Places : d \notin present' /\ e \in records'[d]
    BY <1>1 DEF IsSomewhere
  <2>1. CASE e \in living
    BY <1>1, <1>3, <2>1 DEF LivingIn
  <2>2. CASE e \notin living
    <3>1. PICK d \in Places : d \notin present /\ e \in records[d]
      BY <2>2 DEF StoreInv, IsSomewhere
    <3> QED BY <1>1, <1>3, <3>1
  <2> QED BY <2>1, <2>2
<1>6. RecordsCount'
  <2>1. living' \cap gone' = {} /\ living' \subseteq born'
    BY <1>1, <1>3 DEF StoreInv, RecordsCount
  <2>2. \A d \in Places : records'[d] \subseteq born'
    BY <1>1, <1>3 DEF StoreInv, RecordsCount, LivingIn
  <2>3. ASSUME NEW d \in Places \ present', NEW e \in records'[d]
        PROVE  /\ e \notin living' /\ e \notin gone'
               /\ \A k \in Places \ present' : e \in records'[k] => k = d
    BY <1>1, <1>3, <2>3 DEF StoreInv, RecordsCount, LivingIn
  <2> QED BY <2>1, <2>2, <2>3 DEF RecordsCount
<1>7. UnmodifiedIsTrue'
  <2> SUFFICES ASSUME NEW d \in present', d \notin chunkModified', NEW e \in records'[d]
               PROVE  (e \in living' /\ bucketPos'[e] = d) \/ <<e, d>> \in fallen'
    BY DEF UnmodifiedIsTrue
  <2>1. d \in Places /\ d # c /\ d \in present /\ d \notin chunkModified /\ e \in records[d] /\ e \in Entities
    BY <1>1, <1>3 DEF StoreInv, EntityStoreTypeOK
  <2>2. (e \in living /\ bucketPos[e] = d) \/ <<e, d>> \in fallen
    BY <2>1 DEF StoreInv, UnmodifiedIsTrue
  <2> QED BY <1>1, <1>3, <2>1, <2>2 DEF LivingIn
<1> QED BY <1>4, <1>5, <1>6, <1>7 DEF StoreInv

LEMMA TakeKeeps ==
    ASSUME StoreInv, NEW c \in Places, TakeChunk(c)
    PROVE  StoreInv'
<1>1. /\ c \notin present /\ present' = present \cup {c} /\ living' = living \cup records[c]
      /\ bucketPos' = [e \in Entities |-> IF e \in records[c] THEN c ELSE bucketPos[e]]
      /\ UNCHANGED <<fallen, husks, chunkModified, records, running, frozen, born, gone, strayed>>
  BY DEF TakeChunk
<1>2. records[c] \subseteq Entities /\ records[c] \cap gone = {} /\ records[c] \cap living = {}
  BY <1>1 DEF StoreInv, EntityStoreTypeOK, RecordsCount
<1>3. EntityStoreTypeOK'
  BY <1>1, <1>2 DEF StoreInv, EntityStoreTypeOK
<1>4. IsSomewhere'
  BY <1>1 DEF StoreInv, IsSomewhere
<1>5. RecordsCount'
  BY <1>1, <1>2 DEF StoreInv, RecordsCount
<1>6. UnmodifiedIsTrue'
  <2> SUFFICES ASSUME NEW d \in present', d \notin chunkModified', NEW e \in records'[d]
               PROVE  (e \in living' /\ bucketPos'[e] = d) \/ <<e, d>> \in fallen'
    BY DEF UnmodifiedIsTrue
  <2>1. e \in Entities
    BY <1>1 DEF StoreInv, EntityStoreTypeOK
  <2>2. CASE d = c
    BY <1>1, <2>1, <2>2
  <2>3. CASE d # c
    <3>1. (e \in living /\ bucketPos[e] = d) \/ <<e, d>> \in fallen
      BY <1>1, <2>3 DEF StoreInv, UnmodifiedIsTrue
    <3> QED BY <1>1, <1>2, <2>1, <3>1
  <2> QED BY <2>2, <2>3
<1> QED BY <1>3, <1>4, <1>5, <1>6 DEF StoreInv

(* What is loaded when the server stops ends in the records, nothing twice. *)
LEMMA StopKeeps ==
    ASSUME StoreInv, StopWorld
    PROVE  StoreInv'
<1>1. /\ records' = [c \in Places |-> IF c \in LastSaved THEN LivingIn(c) ELSE records[c]]
      /\ strayed' = strayed \cup {e \in living : bucketPos[e] \notin present}
      /\ living' = {} /\ fallen' = {} /\ husks' = {} /\ present' = {} /\ chunkModified' = {}
      /\ running' = FALSE /\ UNCHANGED <<bucketPos, frozen, born, gone>>
  BY DEF StopWorld
<1>2. ASSUME NEW c \in Places, c \in present PROVE records'[c] = LivingIn(c)
  <2>1. CASE c \in LastSaved
    BY <1>1, <2>1
  <2>2. CASE c \notin LastSaved
    <3>1. records[c] = {} /\ LivingIn(c) = {}
      BY <1>2, <2>2, UnsavedIsEmpty DEF LastSaved, ChunkHasEntities
    <3> QED BY <1>1, <2>2, <3>1
  <2> QED BY <2>1, <2>2
<1>3. ASSUME NEW c \in Places, c \notin present PROVE records'[c] = records[c]
  BY <1>1, <1>3 DEF LastSaved
<1>4. EntityStoreTypeOK'
  BY <1>1 DEF StoreInv, EntityStoreTypeOK, LivingIn, RecordsCount
<1>5. IsSomewhere'
  <2> SUFFICES ASSUME NEW e \in born, e \notin gone, e \notin strayed'
               PROVE  \E c \in Places : e \in records'[c]
    BY <1>1 DEF IsSomewhere
  <2>1. CASE e \in living
    <3>1. bucketPos[e] \in present /\ bucketPos[e] \in Places /\ e \in LivingIn(bucketPos[e])
      BY <1>1, <2>1 DEF StoreInv, EntityStoreTypeOK, LivingIn
    <3> QED BY <1>2, <3>1
  <2>2. CASE e \notin living
    <3>1. PICK c \in Places : c \notin present /\ e \in records[c]
      BY <1>1, <2>2 DEF StoreInv, IsSomewhere
    <3> QED BY <1>3, <3>1
  <2> QED BY <2>1, <2>2
<1>6. RecordsCount'
  <2>1. ASSUME NEW c \in Places, NEW e \in records'[c]
        PROVE  /\ e \in born /\ e \notin gone
               /\ \A d \in Places : e \in records'[d] => d = c
    <3>1. CASE c \in present
      BY <1>2, <1>3, <2>1, <3>1 DEF StoreInv, RecordsCount, LivingIn
    <3>2. CASE c \notin present
      BY <1>2, <1>3, <2>1, <3>2 DEF StoreInv, RecordsCount, LivingIn
    <3> QED BY <3>1, <3>2
  <2> QED BY <1>1, <2>1 DEF RecordsCount
<1>7. UnmodifiedIsTrue'
  BY <1>1 DEF UnmodifiedIsTrue
<1> QED BY <1>4, <1>5, <1>6, <1>7 DEF StoreInv

-----------------------------------------------------------------------------

THEOREM StoreHolds == EntityStoreSpec => []StoreInv
<1>1. StoreInv /\ UNCHANGED storeVars => StoreInv'
  BY DEF StoreInv, storeVars, EntityStoreTypeOK, IsSomewhere, RecordsCount, UnmodifiedIsTrue
<1>2. StoreInv /\ (ToggleFreeze \/ StartWorld) => StoreInv'
  BY DEF ToggleFreeze, StartWorld, StoreInv, EntityStoreTypeOK, IsSomewhere, RecordsCount, UnmodifiedIsTrue
<1>3. StoreInv /\ [EntityStoreNext]_storeVars => StoreInv'
  BY <1>1, <1>2, AddKeeps, KillKeeps, TickKeeps, SaveKeeps, DropKeeps, TakeKeeps, StopKeeps
  DEF EntityStoreNext
<1> QED BY <1>3, InitStore, PTL DEF EntityStoreSpec

(* An entity that was neither killed nor left behind is in one place: the
   saves of SaveChunks, UpdateLoadRadius and Shutdown and the reads of
   DrainLoadQueue neither lose nor double it. *)
THEOREM EntitiesAreKept == EntityStoreSpec => []OneOfEach
<1>1. ASSUME StoreInv, NEW e \in born \ (gone \cup strayed)
      PROVE  IF e \in living THEN Homes(e) = {} ELSE Cardinality(Homes(e)) = 1
  <2>1. CASE e \in living
    BY <1>1, <2>1 DEF StoreInv, RecordsCount, Homes
  <2>2. CASE e \notin living
    <3>1. PICK c \in Places : c \notin present /\ e \in records[c]
      BY <1>1, <2>2 DEF StoreInv, IsSomewhere
    <3>2. Homes(e) = {c}
      BY <1>1, <3>1 DEF StoreInv, RecordsCount, Homes
    <3> QED BY <2>2, <3>2, FS_Singleton
  <2> QED BY <2>1, <2>2
<1>2. StoreInv => OneOfEach
  BY <1>1 DEF OneOfEach
<1> QED BY <1>2, StoreHolds, PTL

(* What was killed comes back with no chunk, whether it was cleaned up before
   the chunk was saved or not. *)
THEOREM TheDeadStayDead == EntityStoreSpec => []DeadStayDead
<1>1. StoreInv => DeadStayDead
  BY DEF StoreInv, RecordsCount, DeadStayDead, Homes
<1> QED BY <1>1, StoreHolds, PTL

(* Every entity has the place it should have, the dead none. *)
THEOREM EntitiesInPlace == EntityStoreSpec => []EachHasItsPlace
BY EntitiesAreKept, TheDeadStayDead, PTL DEF EachHasItsPlace

-----------------------------------------------------------------------------
(* Who is shown which entity *)

\* What an entry says of its viewers: they are tracked players with a session.
EntriesTrue ==
    /\ \A e \in Ids \ tracked : visibleTo[e] = {}
    /\ \A e \in Ids : visibleTo[e] \subseteq sessions /\ e \notin visibleTo[e]
    /\ \A e \in tracked : being[e] # "none"
    /\ \A p \in Watchers : being[p] # "dead"
    /\ tracked \cap Watchers \subseteq sessions

\* Who has no session is shown nothing.
NothingWithoutSession == \A p \in Watchers \ sessions : \A e \in Ids : client[p][e] = NotShown

\* A client shows an entity, and where it was last said to be.
ShowsExactly(p, e) ==
    /\ client[p][e] # NotShown => p \in visibleTo[e]
    /\ p \in visibleTo[e] /\ e \notin Bobbers => client[p][e] # NotShown
    /\ p \in visibleTo[e] /\ client[p][e] # NotShown /\ <<p, e>> \notin lateViewers
         => client[p][e] = encoded[e]

TrackInv ==
    /\ EntityTrackingTypeOK
    /\ EntriesTrue
    /\ NothingWithoutSession
    /\ \A p \in sessions : \A e \in Ids : ShowsExactly(p, e)

LEMMA InitTracking == EntityTrackingInit => TrackInv
<1> SUFFICES ASSUME EntityTrackingInit PROVE TrackInv
  OBVIOUS
<1>1. encoded \in [Ids -> Spots]
  <2>1. ASSUME NEW e \in Ids PROVE Origin \in Spots
    BY DEF EntityTrackingInit, Origin
  <2> QED BY <2>1 DEF EntityTrackingInit
<1>2. EntityTrackingTypeOK
  <2>1. /\ being \in [Ids -> {"none", "live", "dead"}] /\ at \in [Ids -> Spots]
        /\ counters \in [Ids -> [update : Nat, teleport : Nat]]
    BY DEF EntityTrackingInit
  <2>2. /\ tracked \subseteq Ids /\ sessions \subseteq Watchers /\ lateViewers \subseteq Watchers \X Ids
        /\ visibleTo \in [Ids -> SUBSET (tracked \cap Watchers)]
    BY DEF EntityTrackingInit
  <2>3. client \in [Watchers -> [Ids -> Int \cup {NotShown}]]
    BY DEF EntityTrackingInit, NothingShown
  <2> QED BY <1>1, <2>1, <2>2, <2>3 DEF EntityTrackingTypeOK
<1> QED BY <1>2 DEF EntityTrackingInit, NothingShown, TrackInv, EntriesTrue, NothingWithoutSession, Ids

(* The pairs that see each other from now on. *)
LEMMA PairsOf ==
    ASSUME NEW e \in Ids, NEW p, NEW t
    PROVE  <<p, t>> \in NewPairs(e) <=>
              \/ t = e /\ p \in (tracked \ {e}) \cap Watchers /\ InRange(e, p) /\ p \in sessions
              \/ p = e /\ e \in Watchers /\ e \in sessions /\ t \in tracked \ {e} /\ InRange(t, e)
BY DEF NewPairs

(* Positions are integers, never what stands for none. *)
LEMMA SpotsAreShown == Spots \subseteq Int /\ NotShown \notin Int
BY TrackingAssumption

LEMMA PlacesTyped ==
    ASSUME EntityTrackingTypeOK, NEW p \in Watchers, NEW e \in Ids
    PROVE  client[p][e] \in Int \cup {NotShown} /\ at[e] \in Int /\ encoded[e] \in Int
<1>1. client[p] \in [Ids -> Int \cup {NotShown}]
  BY DEF EntityTrackingTypeOK
<1>2. client[p][e] \in Int \cup {NotShown}
  BY <1>1
<1>3. at[e] \in Spots /\ encoded[e] \in Spots
  BY DEF EntityTrackingTypeOK
<1> QED BY <1>2, <1>3, SpotsAreShown

(* A new entry: everyone in range sees it, and who came sees everything in his. *)
LEMMA AddStep ==
    ASSUME TrackInv, NEW e \in Ids, AddEntity(e)
    PROVE  TrackInv'
<1>1. EntityTrackingTypeOK /\ EntriesTrue /\ NothingWithoutSession
  BY DEF TrackInv
<1>2. /\ being[e] = "none" /\ e \notin tracked /\ visibleTo[e] = {}
      /\ \A t \in Ids : e \notin visibleTo[t]
      /\ e \in Watchers => e \in sessions
  BY <1>1 DEF AddEntity, EntriesTrue, EntityTrackingTypeOK
<1>3. PICK pairs : pairs = NewPairs(e)
  OBVIOUS
<1>4. \A p, t : <<p, t>> \in pairs <=>
         \/ t = e /\ p \in tracked \cap Watchers /\ InRange(e, p) /\ p \in sessions
         \/ p = e /\ e \in Watchers /\ t \in tracked /\ InRange(t, e)
  BY <1>2, <1>3, PairsOf
<1>5. \A p \in Watchers, t \in Ids : <<p, t>> \in pairs =>
         p \in sessions /\ p \in tracked' /\ t \in tracked' /\ p # t /\ p \notin visibleTo[t]
  BY <1>1, <1>2, <1>4 DEF AddEntity, AddToTracker, EntityTrackingTypeOK
<1>6. /\ being' = [being EXCEPT ![e] = "live"] /\ tracked' = tracked \cup {e}
      /\ encoded' = [encoded EXCEPT ![e] = at[e]]
      /\ client' = AfterSpawns(client, pairs)
      /\ lateViewers' = (lateViewers \ pairs) \cup {pair \in pairs : encoded'[pair[2]] # at[pair[2]]}
      /\ UNCHANGED <<at, sessions>>
  BY <1>3 DEF AddEntity, AddToTracker, NewlyLate
<1>7. /\ visibleTo' = [t \in Ids |-> (IF t = e THEN {} ELSE visibleTo[t])
                                        \cup {p \in Watchers : <<p, t>> \in pairs}]
  BY <1>3 DEF AddEntity, AddToTracker
<1>8. \A p, t : t \in Ids => (p \in visibleTo'[t] <=>
         p \in visibleTo[t] \/ (p \in Watchers /\ <<p, t>> \in pairs))
  BY <1>2, <1>7
<1>9. \A p \in Watchers, t \in Ids :
         client'[p][t] = IF <<p, t>> \in pairs /\ IsShowable(t) THEN at[t] ELSE client[p][t]
  BY <1>6 DEF AfterSpawns
<1>10. EntityTrackingTypeOK'
  <2>1. /\ being' \in [Ids -> {"none", "live", "dead"}] /\ at' \in [Ids -> Spots]
        /\ encoded' \in [Ids -> Spots] /\ tracked' \subseteq Ids /\ sessions' \subseteq Watchers
    BY <1>1, <1>6 DEF EntityTrackingTypeOK
  <2>2. visibleTo' \in [Ids -> SUBSET (tracked' \cap Watchers)]
    <3>1. \A t \in Ids : visibleTo'[t] \subseteq tracked' \cap Watchers
      BY <1>1, <1>5, <1>6, <1>8 DEF EntityTrackingTypeOK
    <3> QED BY <1>7, <3>1
  <2>3. counters' \in [Ids -> [update : Nat, teleport : Nat]]
    <3>1. PICK start \in 0..(IF UpdateEvery[e] = 0 THEN 0 ELSE UpdateEvery[e] - 1) :
               counters' = [counters EXCEPT ![e] = [update |-> start, teleport |-> 1]]
      BY DEF AddEntity, AddToTracker
    <3>2. start \in Nat
      BY TrackingAssumption
    <3> QED BY <1>1, <3>1, <3>2 DEF EntityTrackingTypeOK
  <2>4. client' \in [Watchers -> [Ids -> Int \cup {NotShown}]]
    <3>1. \A p \in Watchers, t \in Ids :
             (IF <<p, t>> \in pairs /\ IsShowable(t) THEN at[t] ELSE client[p][t]) \in Int \cup {NotShown}
      BY <1>1, PlacesTyped
    <3> QED BY <1>6, <3>1 DEF AfterSpawns
  <2>5. lateViewers' \subseteq Watchers \X Ids
    <3>1. \A pair \in pairs : pair \in Watchers \X Ids
      <4>1. NewPairs(e) \subseteq Watchers \X Ids
        BY <1>1 DEF NewPairs, EntityTrackingTypeOK
      <4> QED BY <1>3, <4>1
    <3> QED BY <1>1, <1>6, <3>1 DEF EntityTrackingTypeOK
  <2> QED BY <2>1, <2>2, <2>3, <2>4, <2>5 DEF EntityTrackingTypeOK
<1>11. EntriesTrue'
  <2>1. /\ \A t \in Ids \ tracked' : visibleTo'[t] = {}
        /\ \A t \in Ids : visibleTo'[t] \subseteq sessions' /\ t \notin visibleTo'[t]
    BY <1>1, <1>5, <1>6, <1>8 DEF EntriesTrue
  <2>2. /\ \A t \in tracked' : being'[t] # "none"
        /\ \A p \in Watchers : being'[p] # "dead"
    BY <1>1, <1>6 DEF EntriesTrue, EntityTrackingTypeOK, Ids
  <2>3. tracked' \cap Watchers \subseteq sessions'
    BY <1>1, <1>2, <1>6 DEF EntriesTrue
  <2> QED BY <2>1, <2>2, <2>3 DEF EntriesTrue
<1>12. NothingWithoutSession'
  <2> SUFFICES ASSUME NEW p \in Watchers \ sessions, NEW t \in Ids PROVE client'[p][t] = NotShown
    BY <1>6 DEF NothingWithoutSession
  <2>1. <<p, t>> \notin pairs
    BY <1>5
  <2>2. client'[p][t] = client[p][t]
    BY <1>9, <2>1
  <2> QED BY <1>1, <2>2 DEF NothingWithoutSession
<1>13. ASSUME NEW p \in sessions', NEW t \in Ids PROVE ShowsExactly(p, t)'
  <2>1. p \in Watchers /\ p \in sessions /\ ShowsExactly(p, t) /\ at[t] \in Int
    BY <1>1, <1>6, SpotsAreShown DEF EntityTrackingTypeOK, TrackInv
  <2>2. CASE <<p, t>> \in pairs
    <3>1. p \in visibleTo'[t] /\ client[p][t] = NotShown
      BY <1>5, <1>8, <2>1, <2>2 DEF ShowsExactly
    <3>2. client'[p][t] = IF IsShowable(t) THEN at[t] ELSE NotShown
      BY <1>9, <2>1, <2>2, <3>1
    <3>3. t \notin Bobbers => IsShowable(t)
      BY DEF IsShowable
    <3>4. <<p, t>> \notin lateViewers' => encoded'[t] = at[t]
      BY <1>6, <2>2
    <3> QED BY <2>1, <3>1, <3>2, <3>3, <3>4, SpotsAreShown DEF ShowsExactly
  <2>3. CASE <<p, t>> \notin pairs
    <3>1. client'[p][t] = client[p][t] /\ (p \in visibleTo'[t] <=> p \in visibleTo[t])
      BY <1>8, <1>9, <2>1, <2>3
    <3>2. <<p, t>> \notin lateViewers' => <<p, t>> \notin lateViewers
      BY <1>6, <2>3
    <3>3. p \in visibleTo[t] => encoded'[t] = encoded[t]
      BY <1>1, <1>2, <1>6 DEF EntityTrackingTypeOK
    <3> QED BY <2>1, <3>1, <3>2, <3>3 DEF ShowsExactly
  <2> QED BY <2>2, <2>3
<1> QED BY <1>10, <1>11, <1>12, <1>13 DEF TrackInv

(* What lives, dies or moves without an entry that comes or goes. *)
LEMMA QuietTracking ==
    ASSUME TrackInv,
           UNCHANGED <<tracked, visibleTo, encoded, counters, sessions, client, lateViewers>>,
           being' \in [Ids -> {"none", "live", "dead"}], at' \in [Ids -> Spots],
           \A e \in tracked : being'[e] # "none",
           \A p \in Watchers : being'[p] # "dead"
    PROVE  TrackInv'
<1>1. EntityTrackingTypeOK' /\ EntriesTrue' /\ NothingWithoutSession'
  BY DEF TrackInv, EntityTrackingTypeOK, EntriesTrue, NothingWithoutSession
<1>2. \A p \in sessions' : \A e \in Ids : ShowsExactly(p, e)'
  BY DEF TrackInv, ShowsExactly
<1> QED BY <1>1, <1>2 DEF TrackInv

(* An entry goes, and every client with a session that showed what it is about,
   or was the one of the player who goes, was told. *)
LEMMA DropStep ==
    ASSUME TrackInv, NEW e \in Ids, DropEntry(e),
           being' \in [Ids -> {"none", "live", "dead"}], at' \in [Ids -> Spots],
           \A t \in Ids : being'[t] = being[t] \/ (t = e /\ being'[t] = "none"),
           sessions' \subseteq sessions, sessions \ {e} \subseteq sessions',
           client' \in [Watchers -> [Ids -> Int \cup {NotShown}]],
           \A p \in Watchers \ sessions' : \A t \in Ids : client'[p][t] = NotShown,
           \A p \in sessions', t \in Ids :
              IF p = e \/ t = e THEN client'[p][t] = NotShown ELSE client'[p][t] = client[p][t]
    PROVE  TrackInv'
<1>1. EntityTrackingTypeOK /\ EntriesTrue
  BY DEF TrackInv
<1>2. /\ tracked' = tracked \ {e}
      /\ visibleTo' = [t \in Ids |-> IF t = e THEN {} ELSE visibleTo[t] \ {e}]
      /\ lateViewers' = {pair \in lateViewers : pair[1] # e /\ pair[2] # e}
      /\ encoded' = [encoded EXCEPT ![e] = Origin]
      /\ counters' = [counters EXCEPT ![e] = [update |-> 0, teleport |-> 0]]
  BY DEF DropEntry, Forgotten
<1>3. \A t \in Ids : /\ visibleTo'[t] \subseteq tracked' \cap Watchers
                     /\ visibleTo'[t] \subseteq visibleTo[t] \ {e}
                     /\ visibleTo[t] \ {e} \subseteq visibleTo'[t] \/ t = e
                     /\ t = e => visibleTo'[t] = {}
  BY <1>1, <1>2 DEF EntityTrackingTypeOK
<1>4. EntityTrackingTypeOK'
  <2>1. Origin \in Spots
    BY <1>1 DEF EntityTrackingTypeOK, Origin
  <2>2. encoded' \in [Ids -> Spots] /\ counters' \in [Ids -> [update : Nat, teleport : Nat]]
    BY <1>1, <1>2, <2>1 DEF EntityTrackingTypeOK
  <2>3. visibleTo' \in [Ids -> SUBSET (tracked' \cap Watchers)]
    BY <1>2, <1>3
  <2>4. /\ tracked' \subseteq Ids /\ sessions' \subseteq Watchers /\ lateViewers' \subseteq Watchers \X Ids
    BY <1>1, <1>2 DEF EntityTrackingTypeOK
  <2> QED BY <2>2, <2>3, <2>4 DEF EntityTrackingTypeOK
<1>5. EntriesTrue'
  <2>1. \A t \in Ids : visibleTo'[t] \subseteq sessions' /\ t \notin visibleTo'[t]
    BY <1>1, <1>3 DEF EntriesTrue
  <2>2. \A t \in Ids \ tracked' : visibleTo'[t] = {}
    BY <1>1, <1>2, <1>3 DEF EntriesTrue
  <2>3. \A t \in tracked' : t \in Ids /\ t \in tracked /\ t # e
    BY <1>1, <1>2 DEF EntityTrackingTypeOK
  <2>4. \A t \in tracked' : being'[t] # "none"
    BY <1>1, <2>3 DEF EntriesTrue
  <2>5. \A p \in Watchers : being'[p] # "dead"
    BY <1>1 DEF EntriesTrue, Ids
  <2>6. tracked' \cap Watchers \subseteq sessions'
    BY <1>1, <2>3 DEF EntriesTrue
  <2> QED BY <2>1, <2>2, <2>4, <2>5, <2>6 DEF EntriesTrue
<1>6. NothingWithoutSession'
  BY DEF NothingWithoutSession
<1>7. ASSUME NEW p \in sessions', NEW t \in Ids PROVE ShowsExactly(p, t)'
  <2>1. CASE p = e \/ t = e
    <3>1. client'[p][t] = NotShown /\ p \notin visibleTo'[t]
      BY <1>3, <2>1
    <3> QED BY <3>1 DEF ShowsExactly
  <2>2. CASE p # e /\ t # e
    <3>1. client'[p][t] = client[p][t] /\ (p \in visibleTo'[t] <=> p \in visibleTo[t])
      BY <1>3, <2>2
    <3>2. encoded'[t] = encoded[t]
      BY <1>1, <1>2, <2>2 DEF EntityTrackingTypeOK
    <3>3. <<p, t>> \in lateViewers => <<p, t>> \in lateViewers'
      BY <1>2, <2>2
    <3>4. ShowsExactly(p, t)
      BY DEF TrackInv
    <3> QED BY <3>1, <3>2, <3>3, <3>4 DEF ShowsExactly
  <2> QED BY <2>1, <2>2
<1> QED BY <1>4, <1>5, <1>6, <1>7 DEF TrackInv

(* The clients after those who see it were told. *)
LEMMA ToldThatGone ==
    ASSUME TrackInv, NEW e \in Ids, NEW told, NEW p \in Watchers, NEW t \in Ids,
           told = AfterDespawns(client, TakenFromClients(e))
    PROVE  /\ told \in [Watchers -> [Ids -> Int \cup {NotShown}]]
           /\ IF p = e \/ t = e THEN told[p][t] = NotShown ELSE told[p][t] = client[p][t]
<1>1. EntityTrackingTypeOK /\ EntriesTrue /\ NothingWithoutSession
  BY DEF TrackInv
<1>2. PICK taken : taken = TakenFromClients(e)
  OBVIOUS
<1>3. \A q, u : <<q, u>> \in taken <=>
         \/ u = e /\ q \in visibleTo[e]
         \/ q = e /\ e \in Watchers /\ u \in tracked /\ e \in visibleTo[u]
  BY <1>2 DEF TakenFromClients
<1>4. told = [q \in Watchers |-> [u \in Ids |->
                 IF <<q, u>> \in taken /\ q \in sessions THEN NotShown ELSE client[q][u]]]
  BY <1>2 DEF AfterDespawns
<1>5. told \in [Watchers -> [Ids -> Int \cup {NotShown}]]
  BY <1>1, <1>4 DEF EntityTrackingTypeOK
<1>6. told[p][t] = IF <<p, t>> \in taken /\ p \in sessions THEN NotShown ELSE client[p][t]
  BY <1>4
<1>7. CASE p \notin sessions
  BY <1>1, <1>5, <1>6, <1>7 DEF NothingWithoutSession
<1>8. CASE p \in sessions /\ (p = e \/ t = e)
  <2>1. client[p][t] # NotShown => p \in visibleTo[t]
    BY <1>8 DEF TrackInv, ShowsExactly
  <2>2. p \in visibleTo[t] => t \in tracked
    BY <1>1 DEF EntriesTrue
  <2>3. p \in visibleTo[t] => <<p, t>> \in taken
    BY <1>3, <1>8, <2>2
  <2> QED BY <1>5, <1>6, <1>8, <2>1, <2>3
<1>9. CASE p \in sessions /\ p # e /\ t # e
  BY <1>3, <1>5, <1>6, <1>9
<1> QED BY <1>7, <1>8, <1>9

(* EntityManager::RemoveEntity, and the death of a player. *)
LEMMA RemoveStep ==
    ASSUME TrackInv, NEW e \in Ids,
           RemoveEntity(e) \/ (e \in Watchers /\ PlayerDies(e))
    PROVE  TrackInv'
<1>1. EntityTrackingTypeOK /\ EntriesTrue /\ NothingWithoutSession
  BY DEF TrackInv
<1>2. /\ being' \in [Ids -> {"none", "live", "dead"}] /\ at' \in [Ids -> Spots]
      /\ \A t \in Ids : being'[t] = being[t] \/ (t = e /\ being'[t] = "none")
      /\ RemoveFromTracker(e) /\ sessions' = sessions
  BY <1>1 DEF RemoveEntity, PlayerDies, ComesBackAt, EntityTrackingTypeOK
<1>3. CASE e \in tracked
  <2>1. DropEntry(e) /\ client' = AfterDespawns(client, TakenFromClients(e))
    BY <1>2, <1>3 DEF RemoveFromTracker
  <2>2. client' \in [Watchers -> [Ids -> Int \cup {NotShown}]]
    BY <1>1, <2>1 DEF AfterDespawns, EntityTrackingTypeOK
  <2>3. \A p \in Watchers, t \in Ids :
           IF p = e \/ t = e THEN client'[p][t] = NotShown ELSE client'[p][t] = client[p][t]
    BY <2>1, ToldThatGone
  <2>4. sessions \subseteq Watchers
    BY <1>1 DEF EntityTrackingTypeOK
  <2>5. \A p \in Watchers \ sessions' : \A t \in Ids : client'[p][t] = NotShown
    BY <1>1, <1>2, <2>3 DEF NothingWithoutSession
  <2>6. \A p \in sessions', t \in Ids :
           IF p = e \/ t = e THEN client'[p][t] = NotShown ELSE client'[p][t] = client[p][t]
    BY <1>2, <2>3, <2>4
  <2> QED BY <1>2, <2>1, <2>2, <2>5, <2>6, DropStep
<1>4. CASE e \notin tracked
  <2>1. UNCHANGED <<tracked, visibleTo, encoded, counters, sessions, client, lateViewers>>
    BY <1>2, <1>4 DEF RemoveFromTracker
  <2>2. \A t \in tracked : t \in Ids /\ being'[t] # "none"
    BY <1>1, <1>2, <1>4 DEF EntriesTrue, EntityTrackingTypeOK
  <2>3. \A p \in Watchers : being'[p] # "dead"
    BY <1>1, <1>2 DEF EntriesTrue, Ids
  <2> QED BY <1>2, <2>1, <2>2, <2>3, QuietTracking
<1> QED BY <1>3, <1>4

(* A player leaves the server or the world. *)
LEMMA GoesAwayStep ==
    ASSUME TrackInv, NEW e \in Watchers, Leave(e) \/ LeaveWorld(e)
    PROVE  TrackInv'
<1>1. EntityTrackingTypeOK /\ EntriesTrue /\ NothingWithoutSession /\ e \in Ids
  BY DEF TrackInv, Ids
<1>2. /\ being' = [being EXCEPT ![e] = "none"] /\ ComesBackAt(e) /\ DropEntry(e)
      /\ client' = [ToldOthers(e) EXCEPT ![e] = NothingShown]
      /\ sessions' \subseteq sessions /\ sessions \ {e} \subseteq sessions'
  BY DEF Leave, LeaveWorld, GoesAway
<1>3. /\ being' \in [Ids -> {"none", "live", "dead"}] /\ at' \in [Ids -> Spots]
      /\ \A t \in Ids : being'[t] = being[t] \/ (t = e /\ being'[t] = "none")
  BY <1>1, <1>2 DEF ComesBackAt, EntityTrackingTypeOK
<1>4. PICK told : told = ToldOthers(e)
  OBVIOUS
<1>5. /\ told \in [Watchers -> [Ids -> Int \cup {NotShown}]]
      /\ \A p \in Watchers \ {e}, t \in Ids :
            IF t = e THEN told[p][t] = NotShown ELSE told[p][t] = client[p][t]
  <2>1. CASE e \notin tracked
    <3>1. told = client
      BY <1>4, <2>1 DEF ToldOthers
    <3>2. ASSUME NEW p \in Watchers PROVE client[p][e] = NotShown
      <4>1. visibleTo[e] = {}
        BY <1>1, <2>1 DEF EntriesTrue
      <4>2. p \in sessions => client[p][e] = NotShown
        BY <1>1, <4>1 DEF TrackInv, ShowsExactly
      <4> QED BY <1>1, <4>2 DEF NothingWithoutSession
    <3> QED BY <1>1, <3>1, <3>2 DEF EntityTrackingTypeOK
  <2>2. CASE e \in tracked
    <3> DEFINE others == TakenFromClients(e) \ {<<e, t>> : t \in Ids}
    <3>1. told = AfterDespawns(client, others)
      BY <1>4, <2>2 DEF ToldOthers
    <3>2. \A q, u : q # e => (<<q, u>> \in others <=> u = e /\ q \in visibleTo[e])
      BY DEF TakenFromClients
    <3> HIDE DEF others
    <3>3. told = [q \in Watchers |-> [u \in Ids |->
                     IF <<q, u>> \in others /\ q \in sessions THEN NotShown ELSE client[q][u]]]
      BY <3>1 DEF AfterDespawns
    <3>4. told \in [Watchers -> [Ids -> Int \cup {NotShown}]]
      BY <1>1, <3>3 DEF EntityTrackingTypeOK
    <3>5. ASSUME NEW p \in Watchers \ {e}, NEW t \in Ids
          PROVE  IF t = e THEN told[p][t] = NotShown ELSE told[p][t] = client[p][t]
      <4>1. told[p][t] = IF t = e /\ p \in visibleTo[e] /\ p \in sessions THEN NotShown ELSE client[p][t]
        BY <3>2, <3>3
      <4>2. CASE t # e
        BY <3>4, <4>1, <4>2
      <4>3. CASE t = e /\ p \in sessions
        <5>1. client[p][t] # NotShown => p \in visibleTo[t]
          BY <4>3 DEF TrackInv, ShowsExactly
        <5> QED BY <4>1, <4>3, <5>1
      <4>4. CASE t = e /\ p \notin sessions
        BY <1>1, <4>1, <4>4 DEF NothingWithoutSession
      <4> QED BY <4>2, <4>3, <4>4
    <3> QED BY <3>4, <3>5
  <2> QED BY <2>1, <2>2
<1>6. client' = [told EXCEPT ![e] = NothingShown] /\ NothingShown \in [Ids -> Int \cup {NotShown}]
  BY <1>2, <1>4 DEF NothingShown
<1>7. /\ client' \in [Watchers -> [Ids -> Int \cup {NotShown}]]
      /\ \A t \in Ids : client'[e][t] = NotShown
      /\ \A p \in Watchers \ {e} : client'[p] = told[p]
  BY <1>5, <1>6 DEF NothingShown
<1>8. \A p \in Watchers \ sessions' : \A t \in Ids : client'[p][t] = NotShown
  BY <1>1, <1>2, <1>5, <1>7 DEF NothingWithoutSession
<1>9. ASSUME NEW p \in sessions', NEW t \in Ids
      PROVE  IF p = e \/ t = e THEN client'[p][t] = NotShown ELSE client'[p][t] = client[p][t]
  <2>1. p \in Watchers
    BY <1>1, <1>2 DEF EntityTrackingTypeOK
  <2>2. CASE p = e
    BY <1>7, <2>2
  <2>3. CASE p # e
    <3>1. client'[p] = told[p]
      BY <1>7, <2>1, <2>3
    <3>2. IF t = e THEN told[p][t] = NotShown ELSE told[p][t] = client[p][t]
      BY <1>5, <2>1, <2>3
    <3> QED BY <2>3, <3>1, <3>2
  <2> QED BY <2>2, <2>3
<1> QED BY <1>1, <1>2, <1>3, <1>7, <1>8, <1>9, DropStep

(* A session comes: nothing knows of it yet. *)
LEMMA LoginStep ==
    ASSUME TrackInv, NEW p \in Watchers, Login(p)
    PROVE  TrackInv'
<1>1. EntityTrackingTypeOK /\ EntriesTrue /\ NothingWithoutSession
  BY DEF TrackInv
<1>2. /\ p \notin sessions /\ sessions' = sessions \cup {p}
      /\ UNCHANGED <<being, at, tracked, visibleTo, encoded, counters, client, lateViewers>>
  BY DEF Login
<1>3. EntityTrackingTypeOK' /\ EntriesTrue' /\ NothingWithoutSession'
  BY <1>1, <1>2 DEF EntityTrackingTypeOK, EntriesTrue, NothingWithoutSession
<1>4. ASSUME NEW q \in sessions', NEW e \in Ids PROVE ShowsExactly(q, e)'
  <2>1. CASE q = p
    <3>1. client[q][e] = NotShown /\ q \notin visibleTo[e]
      BY <1>1, <1>2, <2>1 DEF EntriesTrue, NothingWithoutSession
    <3> QED BY <1>2, <3>1 DEF ShowsExactly
  <2>2. CASE q # p
    BY <1>2, <2>2 DEF TrackInv, ShowsExactly
  <2> QED BY <2>1, <2>2
<1> QED BY <1>3, <1>4 DEF TrackInv

(* Who sees what after EntityTracker::Tick. *)
LEMMA TickViewers ==
    ASSUME TrackInv, TrackerTick, NEW e \in Ids
    PROVE  /\ e \in tracked' => visibleTo'[e] = {p \in tracked' \cap Watchers : p # e /\ InRange(e, p)}
           /\ e \notin tracked' => visibleTo'[e] = {}
<1>1. EntityTrackingTypeOK /\ EntriesTrue
  BY DEF TrackInv
<1>2. /\ tracked' = Surviving
      /\ visibleTo' = [t \in Ids |-> IF t \in Surviving THEN Staying(t) \cup Arriving(t) ELSE {}]
  BY DEF TrackerTick
<1>3. visibleTo'[e] = IF e \in Surviving THEN Staying(e) \cup Arriving(e) ELSE {}
  BY <1>2
<1>4. Staying(e) \subseteq {p \in Surviving \cap Watchers : p # e /\ InRange(e, p)}
  BY <1>1 DEF Staying, EntityTrackingTypeOK, EntriesTrue
<1>5. Arriving(e) = {p \in Surviving \cap Watchers : p # e /\ InRange(e, p)} \ Staying(e)
  BY <1>1 DEF Arriving, Surviving, EntriesTrue
<1> QED BY <1>2, <1>3, <1>4, <1>5

LEMMA TickStep ==
    ASSUME TrackInv, TrackerTick
    PROVE  TrackInv'
<1>1. EntityTrackingTypeOK /\ EntriesTrue /\ NothingWithoutSession
  BY DEF TrackInv
<1>2. /\ tracked' = Surviving
      /\ encoded' = [e \in Ids |-> IF e \in Surviving THEN EncodedAfter(e) ELSE Origin]
      /\ counters' = [e \in Ids |-> IF e \in Surviving THEN CountersAfter(e) ELSE [update |-> 0, teleport |-> 0]]
      /\ visibleTo' = [e \in Ids |-> IF e \in Surviving THEN Staying(e) \cup Arriving(e) ELSE {}]
      /\ UNCHANGED <<being, at, sessions>>
  BY DEF TrackerTick
<1>3. PICK come : come = {pair \in Watchers \X Surviving : pair[1] \in Arriving(pair[2])}
  OBVIOUS
<1>4. lateViewers' = {pair \in lateViewers : /\ pair[2] \in Surviving /\ pair[1] \in Staying(pair[2])
                                             /\ ~Teleports(pair[2])}
                       \cup {pair \in come : encoded'[pair[2]] # at[pair[2]]}
  BY <1>3 DEF TrackerTick, NewlyLate
<1>5. PICK lost : lost = {pair \in Watchers \X tracked : pair[1] \in Lost(pair[2])}
  OBVIOUS
<1>6. PICK updated : updated = [p \in Watchers |-> [e \in Ids |->
                        IF e \in Surviving /\ p \in visibleTo[e] \ Dead THEN ShownAfter(p, e) ELSE client[p][e]]]
  OBVIOUS
<1>7. client' = AfterSpawns(AfterDespawns(updated, lost), come)
  BY <1>3, <1>5, <1>6 DEF TrackerTick
<1>8. \A p \in Watchers, e \in Ids :
        /\ <<p, e>> \in come <=> e \in Surviving /\ p \in Arriving(e)
        /\ <<p, e>> \in lost <=> e \in tracked /\ p \in Lost(e)
  BY <1>3, <1>5
<1>9. \A p \in Watchers, e \in Ids : client'[p][e] =
         IF <<p, e>> \in come /\ IsShowable(e) THEN at[e]
         ELSE IF <<p, e>> \in lost /\ p \in sessions THEN NotShown
         ELSE updated[p][e]
  BY <1>7 DEF AfterSpawns, AfterDespawns
<1>10. \A p \in Watchers : p \notin Dead
  BY <1>1 DEF Dead, EntriesTrue
<1>11. Surviving \subseteq tracked /\ tracked \subseteq Ids /\ Surviving \cap Dead = {}
       /\ \A e \in tracked : e \notin Surviving => e \in Dead
  BY <1>1 DEF Surviving, EntityTrackingTypeOK
<1>12. \A p \in Watchers, e \in Ids : ShownAfter(p, e) \in Int \cup {NotShown}
  <2> SUFFICES ASSUME NEW p \in Watchers, NEW e \in Ids PROVE ShownAfter(p, e) \in Int \cup {NotShown}
    OBVIOUS
  <2>1. client[p][e] \in Int \cup {NotShown} /\ at[e] \in Int /\ encoded[e] \in Int
    BY <1>1, PlacesTyped
  <2> QED BY <2>1 DEF ShownAfter, Delta
<1>13. EntityTrackingTypeOK'
  <2>1. Origin \in Spots \/ Ids = {}
    BY <1>1 DEF EntityTrackingTypeOK, Origin
  <2>2. encoded' \in [Ids -> Spots]
    BY <1>1, <1>2, <2>1 DEF EncodedAfter, EntityTrackingTypeOK
  <2>3. counters' \in [Ids -> [update : Nat, teleport : Nat]]
    <3>1. ASSUME NEW e \in Ids PROVE CountersAfter(e) \in [update : Nat, teleport : Nat]
      <4>1. counters[e] \in [update : Nat, teleport : Nat]
        BY <1>1 DEF EntityTrackingTypeOK
      <4>2. counters[e].update \in Nat /\ counters[e].teleport \in Nat
        BY <4>1
      <4> QED BY <4>2 DEF CountersAfter
    <3>2. [update |-> 0, teleport |-> 0] \in [update : Nat, teleport : Nat]
      OBVIOUS
    <3> QED BY <1>2, <3>1, <3>2
  <2>4. visibleTo' \in [Ids -> SUBSET (tracked' \cap Watchers)]
    <3>1. \A e \in Ids : visibleTo'[e] \subseteq tracked' \cap Watchers
      BY TickViewers
    <3> QED BY <1>2, <3>1
  <2>5. client' \in [Watchers -> [Ids -> Int \cup {NotShown}]]
    <3>1. ASSUME NEW p \in Watchers, NEW e \in Ids PROVE client'[p][e] \in Int \cup {NotShown}
      <4>1. updated[p][e] \in Int \cup {NotShown}
        BY <1>1, <1>6, <1>12 DEF EntityTrackingTypeOK
      <4> QED BY <1>1, <1>9, <4>1, SpotsAreShown DEF EntityTrackingTypeOK
    <3>2. PICK f : f = [p \in Watchers |-> [e \in Ids |-> client'[p][e]]]
      OBVIOUS
    <3>3. client' = f
      BY <1>7, <3>2 DEF AfterSpawns
    <3> QED BY <3>1, <3>2, <3>3
  <2>6. lateViewers' \subseteq Watchers \X Ids
    BY <1>1, <1>3, <1>4, <1>11 DEF EntityTrackingTypeOK
  <2>7. tracked' \subseteq Ids /\ sessions' \subseteq Watchers
    BY <1>1, <1>2, <1>11 DEF EntityTrackingTypeOK
  <2> QED BY <1>1, <1>2, <2>2, <2>3, <2>4, <2>5, <2>6, <2>7 DEF EntityTrackingTypeOK
<1>14. EntriesTrue'
  <2>1. \A e \in Ids : visibleTo'[e] \subseteq sessions' /\ e \notin visibleTo'[e]
    BY <1>1, <1>2, <1>11, TickViewers DEF EntriesTrue
  <2>2. \A e \in Ids \ tracked' : visibleTo'[e] = {}
    BY TickViewers
  <2> QED BY <1>1, <1>2, <1>11, <2>1, <2>2 DEF EntriesTrue
<1>15. NothingWithoutSession'
  <2> SUFFICES ASSUME NEW p \in Watchers \ sessions, NEW e \in Ids PROVE client'[p][e] = NotShown
    BY <1>2 DEF NothingWithoutSession
  <2>1. p \notin visibleTo[e] /\ <<p, e>> \notin come
    BY <1>1, <1>8 DEF EntriesTrue, Arriving
  <2> QED BY <1>1, <1>6, <1>9, <2>1 DEF NothingWithoutSession
<1>16. ASSUME NEW p \in sessions', NEW e \in Ids PROVE ShowsExactly(p, e)'
  <2>1. p \in Watchers /\ p \in sessions /\ ShowsExactly(p, e) /\ p \notin Dead
    BY <1>1, <1>2, <1>10 DEF EntityTrackingTypeOK, TrackInv
  <2>2. visibleTo'[e] = IF e \in Surviving THEN Staying(e) \cup Arriving(e) ELSE {}
    BY <1>2
  <2>3. at[e] \in Int /\ encoded[e] \in Int /\ client[p][e] \in Int \cup {NotShown}
    <3>1. at[e] \in Spots /\ encoded[e] \in Spots
      BY <1>1 DEF EntityTrackingTypeOK
    <3>2. client[p][e] \in Int \cup {NotShown}
      BY <1>1, <2>1 DEF EntityTrackingTypeOK
    <3> QED BY <3>1, <3>2, SpotsAreShown
  <2>4. CASE e \notin Surviving
    <3>1. p \notin visibleTo'[e] /\ <<p, e>> \notin come
      BY <1>8, <2>1, <2>2, <2>4
    <3>2. p \in visibleTo[e] => <<p, e>> \in lost
      BY <1>1, <1>8, <1>11, <2>1, <2>4 DEF Lost, EntriesTrue
    <3>3. client'[p][e] = NotShown
      BY <1>6, <1>9, <2>1, <2>4, <3>1, <3>2 DEF ShowsExactly
    <3> QED BY <3>1, <3>3 DEF ShowsExactly
  <2>5. CASE e \in Surviving /\ p \in visibleTo[e] /\ p \notin Staying(e)
    <3>1. p \in Surviving /\ ~InRange(e, p)
      BY <1>1, <1>11, <2>1, <2>5 DEF Staying, EntityTrackingTypeOK
    <3>2. p \notin visibleTo'[e] /\ <<p, e>> \notin come
      BY <1>8, <2>1, <2>2, <2>5, <3>1 DEF Arriving
    <3>3. <<p, e>> \in lost
      BY <1>8, <1>11, <2>1, <2>5 DEF Lost
    <3>4. client'[p][e] = NotShown
      BY <1>9, <2>1, <3>2, <3>3
    <3> QED BY <3>2, <3>4 DEF ShowsExactly
  <2>6. CASE e \in Surviving /\ p \in Staying(e)
    <3>1. p \in visibleTo[e] /\ p \in visibleTo'[e] /\ <<p, e>> \notin come /\ <<p, e>> \notin lost
      BY <1>8, <1>11, <2>1, <2>2, <2>6 DEF Staying, Arriving, Lost
    <3>2. client'[p][e] = ShownAfter(p, e)
      BY <1>6, <1>9, <2>1, <2>6, <3>1
    <3>3. encoded'[e] = EncodedAfter(e)
      BY <1>2, <2>6
    <3>4. ShownAfter(p, e) # NotShown <=> client[p][e] # NotShown
      BY <2>3, SpotsAreShown DEF ShownAfter, Delta
    <3>5. ASSUME client'[p][e] # NotShown, <<p, e>> \notin lateViewers'
          PROVE  client'[p][e] = encoded'[e]
      <4>1. <<p, e>> \notin lateViewers \/ Teleports(e)
        BY <1>4, <2>6, <3>5
      <4>2. ShownAfter(p, e) # NotShown /\ client[p][e] # NotShown
        BY <3>2, <3>4, <3>5
      <4>3. CASE Teleports(e)
        BY <3>2, <3>3, <4>2, <4>3 DEF ShownAfter, EncodedAfter
      <4>4. CASE ~Teleports(e)
        <5>1. client[p][e] = encoded[e]
          BY <2>1, <3>1, <4>1, <4>2, <4>4 DEF ShowsExactly
        <5>2. CASE Steps(e)
          BY <2>3, <3>2, <3>3, <4>2, <4>4, <5>1, <5>2 DEF ShownAfter, EncodedAfter, Delta
        <5>3. CASE ~Steps(e)
          BY <3>2, <3>3, <4>2, <4>4, <5>1, <5>3 DEF ShownAfter, EncodedAfter
        <5> QED BY <5>2, <5>3
      <4> QED BY <4>3, <4>4
    <3> QED BY <2>1, <3>1, <3>2, <3>4, <3>5 DEF ShowsExactly
  <2>7. CASE e \in Surviving /\ p \notin visibleTo[e]
    <3>1. client[p][e] = NotShown /\ p \notin Staying(e) /\ <<p, e>> \notin lost
      BY <1>8, <2>1, <2>7 DEF ShowsExactly, Staying, Lost
    <3>2. client'[p][e] = IF <<p, e>> \in come /\ IsShowable(e) THEN at[e] ELSE NotShown
      BY <1>6, <1>9, <2>1, <2>7, <3>1
    <3>3. p \in visibleTo'[e] <=> <<p, e>> \in come
      BY <1>8, <2>1, <2>2, <2>7, <3>1
    <3>4. <<p, e>> \in come /\ <<p, e>> \notin lateViewers' => encoded'[e] = at[e]
      BY <1>4
    <3>5. e \notin Bobbers => IsShowable(e)
      BY DEF IsShowable
    <3> QED BY <2>3, <3>2, <3>3, <3>4, <3>5, SpotsAreShown DEF ShowsExactly
  <2> QED BY <2>4, <2>5, <2>6, <2>7
<1> QED BY <1>13, <1>14, <1>15, <1>16 DEF TrackInv

LEMMA TrackingNextInv == TrackInv /\ [EntityTrackingNext]_trackVars => TrackInv'
<1> SUFFICES ASSUME TrackInv, [EntityTrackingNext]_trackVars PROVE TrackInv'
  OBVIOUS
<1>1. EntityTrackingTypeOK /\ EntriesTrue
  BY DEF TrackInv
<1>2. CASE \E e \in Ids : AddEntity(e)
  BY <1>2, AddStep
<1>3. CASE (\E e \in Ids : RemoveEntity(e)) \/ (\E p \in Watchers : PlayerDies(p))
  BY <1>3, RemoveStep DEF Ids
<1>4. CASE \E p \in Watchers : Leave(p) \/ LeaveWorld(p)
  BY <1>4, GoesAwayStep
<1>5. CASE \E p \in Watchers : Login(p)
  BY <1>5, LoginStep
<1>6. CASE TrackerTick
  BY <1>6, TickStep
<1>7. CASE (\E e \in Ids : Move(e)) \/ (\E e \in Things : MarkDead(e)) \/ UNCHANGED trackVars
  <2>1. UNCHANGED <<tracked, visibleTo, encoded, counters, sessions, client, lateViewers>>
    BY <1>7 DEF Move, MarkDead, trackVars
  <2>2. at' \in [Ids -> Spots]
    BY <1>1, <1>7 DEF Move, MarkDead, trackVars, EntityTrackingTypeOK
  <2>3. PICK e : being' = being \/ (e \in Things /\ being' = [being EXCEPT ![e] = "dead"])
    BY <1>7 DEF Move, MarkDead, trackVars
  <2>4. being' \in [Ids -> {"none", "live", "dead"}]
    BY <1>1, <2>3 DEF EntityTrackingTypeOK
  <2>5. \A t \in tracked : being'[t] # "none"
    BY <1>1, <2>3 DEF EntriesTrue, EntityTrackingTypeOK
  <2>6. \A p \in Watchers : being'[p] # "dead"
    BY <1>1, <2>3, TrackingAssumption DEF EntriesTrue, EntityTrackingTypeOK, Ids
  <2> QED BY <2>1, <2>2, <2>4, <2>5, <2>6, QuietTracking
<1> QED BY <1>2, <1>3, <1>4, <1>5, <1>6, <1>7 DEF EntityTrackingNext

LEMMA TrackingHolds == EntityTrackingSpec => []TrackInv
BY InitTracking, TrackingNextInv, PTL DEF EntityTrackingSpec

(* What the tracker and the clients hold has its type. *)
THEOREM TrackingTyped == EntityTrackingSpec => []EntityTrackingTypeOK
<1>1. TrackInv => EntityTrackingTypeOK
  BY DEF TrackInv
<1> QED BY <1>1, TrackingHolds, PTL

(* No client shows an entity that its entry does not count it a viewer of, and
   none misses one it is counted for: however many come, die, leave, change
   worlds or are spawned again under the same id. *)
THEOREM ViewersStayExact == EntityTrackingSpec => []ViewersAreExact
<1>1. TrackInv => ViewersAreExact
  BY DEF TrackInv, ViewersAreExact, ShowsExactly
<1> QED BY <1>1, TrackingHolds, PTL

(* Relative moves lead a client to where the entity is, except one who came
   between two updates. *)
THEOREM RelativeMovesAddUp == EntityTrackingSpec => []MovesAddUp
<1>1. TrackInv => MovesAddUp
  BY DEF TrackInv, MovesAddUp, ShowsExactly, EntityTrackingTypeOK
<1> QED BY <1>1, TrackingHolds, PTL

(* After a tick everybody who is tracked sees exactly what is in range. *)
THEOREM TicksSeeRange == EntityTrackingSpec => TickSeesRange
<1>1. ASSUME TrackInv, TrackerTick, NEW e \in tracked'
      PROVE  visibleTo'[e] = {p \in tracked' \cap Watchers : p # e /\ InRange(e, p)}
  <2>1. e \in Ids
    BY <1>1 DEF TrackerTick, Surviving, TrackInv, EntityTrackingTypeOK
  <2> QED BY <1>1, <2>1, TickViewers
<1>2. TrackInv => [TrackerTick => \A e \in tracked' :
         visibleTo'[e] = {p \in tracked' \cap Watchers : p # e /\ InRange(e, p)}]_trackVars
  BY <1>1
<1> QED BY <1>2, TrackingHolds, PTL DEF TickSeesRange

-----------------------------------------------------------------------------
(* Sand and scheduled ticks *)

(* A column has a lowest cell from which it is free up to a given one. *)
LEMMA LandingIsFree ==
    ASSUME NEW c \in Column
    PROVE  /\ Landing(c) \in 1..c
           /\ \A d \in Landing(c)..(c - 1) : blockAt[d] = "air"
           /\ Landing(c) = 1 \/ blockAt[Landing(c) - 1] # "air"
<1> DEFINE Free == {l \in 1..c : \A d \in l..(c - 1) : blockAt[d] = "air"}
           Least(l) == /\ \A d \in l..(c - 1) : blockAt[d] = "air"
                       /\ l = 1 \/ blockAt[l - 1] # "air"
<1>1. c \in Nat /\ c \in 1..c
  BY BlockTicksAssumption DEF Column
<1>2. Free \subseteq Nat /\ Free # {}
  <2>1. c \in Free
    BY <1>1
  <2> QED BY <2>1, <1>1
<1> DEFINE Smaller == {pair \in Nat \X Nat : pair[1] < pair[2]}
<1>3. PICK l \in Free : \A k \in Free : ~ (<<k, l>> \in Smaller)
  <2>1. IsWellFoundedOn(Smaller, Nat)
    BY NatLessThanWellFounded DEF OpToRel
  <2> HIDE DEF Free, Smaller
  <2> QED BY <1>2, <2>1, WFMin
<1>4. \A k \in Free : ~ (k < l)
  <2> SUFFICES ASSUME NEW k \in Free, k < l PROVE FALSE
    OBVIOUS
  <2>1. k \in Nat /\ l \in Nat
    BY <1>2
  <2>2. <<k, l>> \in Nat \X Nat /\ <<k, l>>[1] < <<k, l>>[2]
    BY <2>1
  <2> QED BY <1>3, <2>2
<1>5. Least(l)
  <2>1. CASE l = 1
    BY <2>1
  <2>2. CASE l # 1
    <3>1. l \in 1..c /\ l - 1 \in 1..c /\ l - 1 < l
      BY <2>2, <1>1
    <3>2. l - 1 \notin Free
      BY <3>1, <1>4
    <3>3. PICK d \in (l - 1)..(c - 1) : blockAt[d] # "air"
      BY <3>1, <3>2
    <3>4. d = l - 1 \/ d \in l..(c - 1)
      BY <3>1, <3>3, <1>1
    <3> QED BY <3>3, <3>4
  <2> QED BY <2>1, <2>2
<1>6. \E x \in 1..c : Least(x)
  BY <1>5
<1> QED BY <1>6 DEF Landing

\* The entries that are nobody's: each block has one, none overdue.
EntriesOf(queue) ==
    /\ queue \in Seq(Entry)
    /\ \A i, j : i \in DOMAIN queue /\ j \in DOMAIN queue /\ queue[i].cell = queue[j].cell => i = j
    /\ \A i \in DOMAIN queue : queue[i].wait >= 0

(* The entries of the new queue are the old ones and the one for the block. *)
LEMMA ScheduleKeeps ==
    ASSUME NEW queue, EntriesOf(queue), NEW c \in TickCells, NEW delay \in Nat
    PROVE  LET new == ScheduleUpdateTick(queue, c, delay)
           IN  /\ EntriesOf(new)
               /\ \A x : IsScheduled(new, x) <=> x = c \/ IsScheduled(queue, x)
               /\ \A i \in DOMAIN new : \/ new[i] = [cell |-> c, wait |-> delay]
                                        \/ \E j \in DOMAIN queue : new[i] = queue[j]
<1> DEFINE new == ScheduleUpdateTick(queue, c, delay)
           ahead == Cardinality({i \in DOMAIN queue : queue[i].wait <= delay})
           entry == [cell |-> c, wait |-> delay]
<1>1. CASE IsScheduled(queue, c)
  BY <1>1 DEF ScheduleUpdateTick
<1>2. CASE ~IsScheduled(queue, c)
  <2>1. /\ queue \in Seq(Entry) /\ Len(queue) \in Nat /\ DOMAIN queue = 1..Len(queue)
        /\ \A i \in 1..Len(queue) : queue[i] \in Entry
    BY DEF EntriesOf
  <2>2. ahead \in 0..Len(queue)
    <3>1. IsFiniteSet(1..Len(queue)) /\ Cardinality(1..Len(queue)) = Len(queue)
      <4>1. PICK n \in Nat : n = Len(queue)
        BY <2>1
      <4>2. IsFiniteSet(1..n) /\ Cardinality(1..n) = IF 1 > n THEN 0 ELSE n - 1 + 1
        BY FS_Interval
      <4>3. Cardinality(1..n) = n
        BY <4>2
      <4> QED BY <4>1, <4>2, <4>3
    <3>2. {i \in DOMAIN queue : queue[i].wait <= delay} \in SUBSET (1..Len(queue))
      BY <2>1
    <3>3. IsFiniteSet({i \in DOMAIN queue : queue[i].wait <= delay}) /\ ahead <= Len(queue)
      BY <3>1, <3>2, FS_Subset
    <3>4. ahead \in Nat
      BY <3>3, FS_CardinalityType
    <3> QED BY <3>3, <3>4, <2>1
  <2>3. PICK a \in 0..Len(queue) : a = ahead
    BY <2>2
  <2>4. new = [i \in 1..(Len(queue) + 1) |->
                  IF i <= a THEN queue[i] ELSE IF i = a + 1 THEN entry ELSE queue[i - 1]]
    BY <1>2, <2>3 DEF ScheduleUpdateTick
  <2>5. entry \in Entry /\ entry.cell = c /\ entry.wait = delay
    BY DEF Entry
  <2> HIDE DEF new, ahead, entry
  <2>6. /\ DOMAIN new = 1..(Len(queue) + 1)
        /\ \A i \in 1..(Len(queue) + 1) : i <= a => i \in 1..Len(queue) /\ new[i] = queue[i]
        /\ a + 1 \in 1..(Len(queue) + 1) /\ new[a + 1] = entry
        /\ \A i \in 1..(Len(queue) + 1) : i > a + 1 => i - 1 \in 1..Len(queue) /\ new[i] = queue[i - 1]
        /\ \A j \in 1..Len(queue) : IF j <= a THEN new[j] = queue[j] ELSE new[j + 1] = queue[j]
    BY <2>1, <2>3, <2>4
  <2>7. \A i \in DOMAIN new : i = a + 1 \/ \E j \in 1..Len(queue) : new[i] = queue[j]
    <3> SUFFICES ASSUME NEW i \in DOMAIN new, i # a + 1 PROVE \E j \in 1..Len(queue) : new[i] = queue[j]
      OBVIOUS
    <3>1. i <= a \/ i > a + 1
      BY <2>1, <2>3, <2>6
    <3> QED BY <3>1, <2>6
  <2>8. new \in Seq(Entry)
    <3>1. \A i \in 1..(Len(queue) + 1) : new[i] \in Entry
      BY <2>1, <2>5, <2>6, <2>7
    <3>2. new \in [1..(Len(queue) + 1) -> Entry]
      BY <2>4, <3>1
    <3>3. Len(queue) + 1 \in Nat
      BY <2>1
    <3> QED BY <3>2, <3>3, SeqDef
  <2>9. \A x : IsScheduled(new, x) <=> x = c \/ IsScheduled(queue, x)
    <3>1. ASSUME NEW x, IsScheduled(new, x) PROVE x = c \/ IsScheduled(queue, x)
      BY <3>1, <2>1, <2>5, <2>6, <2>7 DEF IsScheduled
    <3>2. IsScheduled(new, c)
      BY <2>5, <2>6 DEF IsScheduled
    <3>3. ASSUME NEW x, IsScheduled(queue, x) PROVE IsScheduled(new, x)
      <4>1. PICK j \in 1..Len(queue) : queue[j].cell = x
        BY <3>3, <2>1 DEF IsScheduled
      <4>2. j \in 1..(Len(queue) + 1) /\ j + 1 \in 1..(Len(queue) + 1)
        BY <2>1
      <4> QED BY <4>1, <4>2, <2>6 DEF IsScheduled
    <3> QED BY <3>1, <3>2, <3>3
  <2>10. \A i \in DOMAIN new : new[i] = entry \/ \E j \in DOMAIN queue : new[i] = queue[j]
    BY <2>1, <2>6, <2>7
  <2>11. \A j \in 1..Len(queue) : queue[j].cell # c
    BY <1>2, <2>1 DEF IsScheduled
  <2>12. ASSUME NEW i \in DOMAIN new, NEW j \in DOMAIN new, new[i].cell = new[j].cell PROVE i = j
    <3> DEFINE Old(k) == IF k <= a THEN k ELSE k - 1
    <3>1. \A k \in DOMAIN new : k # a + 1 => /\ Old(k) \in 1..Len(queue)
                                             /\ new[k] = queue[Old(k)]
                                             /\ new[k].cell # c
      <4> SUFFICES ASSUME NEW k \in DOMAIN new, k # a + 1
                   PROVE  Old(k) \in 1..Len(queue) /\ new[k] = queue[Old(k)] /\ new[k].cell # c
        OBVIOUS
      <4>1. k <= a \/ k > a + 1
        BY <2>1, <2>3, <2>6
      <4>2. Old(k) \in 1..Len(queue) /\ new[k] = queue[Old(k)]
        BY <4>1, <2>1, <2>3, <2>6
      <4> QED BY <4>2, <2>11
    <3>2. i = a + 1 <=> j = a + 1
      BY <2>12, <2>5, <2>6, <3>1
    <3>3. CASE i # a + 1 /\ j # a + 1
      <4>1. Old(i) = Old(j)
        BY <2>12, <3>1, <3>3, <2>1 DEF EntriesOf
      <4>2. i \in Int /\ j \in Int /\ a \in Int
        BY <2>1, <2>3, <2>6
      <4> QED BY <4>1, <4>2, <3>3
    <3> QED BY <3>2, <3>3
  <2>13. \A i \in DOMAIN new : new[i].wait >= 0
    BY <2>5, <2>10 DEF EntriesOf
  <2>14. EntriesOf(new)
    BY <2>8, <2>12, <2>13 DEF EntriesOf
  <2> QED BY <2>9, <2>10, <2>14 DEF new, entry
<1> QED BY <1>1, <1>2

\* A queue in which nothing was lost, and in which what is new is not yet due.
Grows(old, new) ==
    /\ EntriesOf(new)
    /\ \A x : IsScheduled(old, x) => IsScheduled(new, x)
    /\ \A i \in DOMAIN new : new[i].wait > 0 \/ \E j \in DOMAIN old : new[i] = old[j]

LEMMA GrowsOn ==
    ASSUME NEW a, NEW b, NEW c, Grows(a, b), Grows(b, c)
    PROVE  Grows(a, c)
BY DEF Grows

LEMMA ScheduleGrows ==
    ASSUME NEW queue, EntriesOf(queue), NEW c \in TickCells, NEW delay \in Nat \ {0}
    PROVE  /\ Grows(queue, ScheduleUpdateTick(queue, c, delay))
           /\ IsScheduled(ScheduleUpdateTick(queue, c, delay), c)
<1> DEFINE new == ScheduleUpdateTick(queue, c, delay)
<1>1. /\ EntriesOf(new)
      /\ \A x : IsScheduled(new, x) <=> x = c \/ IsScheduled(queue, x)
      /\ \A i \in DOMAIN new : \/ new[i] = [cell |-> c, wait |-> delay]
                               \/ \E j \in DOMAIN queue : new[i] = queue[j]
  BY ScheduleKeeps
<1> HIDE DEF new
<1>2. [cell |-> c, wait |-> delay].wait > 0
  OBVIOUS
<1>3. Grows(queue, new) /\ IsScheduled(new, c)
  BY <1>1, <1>2 DEF Grows
<1> QED BY <1>3 DEF new

LEMMA AlertGrows ==
    ASSUME NEW queue, EntriesOf(queue), NEW b, NEW c
    PROVE  /\ Grows(queue, Alert(queue, b, c))
           /\ c \in Column /\ b[c] = "sand" => IsScheduled(Alert(queue, b, c), c)
<1>1. CASE c \in Column /\ b[c] = "sand"
  <2>1. c \in TickCells /\ SandDelay \in Nat \ {0}
    BY <1>1, BlockTicksAssumption DEF TickCells
  <2> QED BY <1>1, <2>1, ScheduleGrows DEF Alert
<1>2. CASE ~(c \in Column /\ b[c] = "sand")
  BY <1>2 DEF Alert, Grows
<1> QED BY <1>1, <1>2

LEMMA NeighborsGrow ==
    ASSUME NEW queue, EntriesOf(queue), NEW b, NEW c
    PROVE  /\ Grows(queue, AlertNeighbors(queue, b, c))
           /\ \A d \in Column : d \in {c - 1, c + 1} /\ b[d] = "sand"
                 => IsScheduled(AlertNeighbors(queue, b, c), d)
<1> DEFINE one == Alert(queue, b, c - 1)
           two == Alert(one, b, c + 1)
<1>1. Grows(queue, one) /\ (c - 1 \in Column /\ b[c - 1] = "sand" => IsScheduled(one, c - 1))
  BY AlertGrows
<1>2. Grows(one, two) /\ (c + 1 \in Column /\ b[c + 1] = "sand" => IsScheduled(two, c + 1))
  BY <1>1, AlertGrows DEF Grows
<1>3. Grows(queue, two)
  BY <1>1, <1>2, GrowsOn
<1>4. two = AlertNeighbors(queue, b, c)
  BY DEF AlertNeighbors
<1> HIDE DEF one, two
<1> QED BY <1>1, <1>2, <1>3, <1>4 DEF Grows

\* A cell is among those that are remembered.
Remembers(cells, c) == \E i \in DOMAIN cells : cells[i] = c

HangsIn(b, c) == b[c] = "sand" /\ c > 1 /\ b[c - 1] = "air"

SandCovered(b, new, queue, cells) ==
    \A d \in Column : HangsIn(new, d) =>
        \/ HangsIn(b, d)
        \/ IsScheduled(queue, d)
        \/ \E x \in {d - 1, d + 1} : Remembers(cells, x)

(* After a block has changed and its neighbours were told, or will be, sand
   that hangs did so before, or is scheduled, or has a neighbour that is
   remembered. *)
LEMMA TellCovers ==
    ASSUME NEW queue, EntriesOf(queue), NEW b, NEW new, NEW c \in TickCells, NEW cells,
           \A d \in TickCells : d # c => new[d] = b[d],
           PutsOff => Remembers(cells, c)
    PROVE  /\ Grows(queue, Tell(queue, new, c))
           /\ SandCovered(b, new, Tell(queue, new, c), cells)
<1> DEFINE one == Alert(queue, new, c)
           all == AlertNeighbors(one, new, c)
           told == Tell(queue, new, c)
<1>1. Grows(queue, one) /\ (c \in Column /\ new[c] = "sand" => IsScheduled(one, c))
  BY AlertGrows
<1>2. /\ Grows(one, all)
      /\ \A d \in Column : d \in {c - 1, c + 1} /\ new[d] = "sand" => IsScheduled(all, d)
  BY <1>1, NeighborsGrow DEF Grows
<1>3. told = IF PutsOff THEN one ELSE all
  BY DEF Tell
<1> HIDE DEF one, all, told
<1>4. Grows(queue, told)
  BY <1>1, <1>2, <1>3, GrowsOn
<1>5. c \in Column /\ new[c] = "sand" => IsScheduled(told, c)
  BY <1>1, <1>2, <1>3 DEF Grows
<1>6. \A d \in Column : d > 1 => d \in Int /\ d - 1 \in Column /\ d \in TickCells /\ d - 1 \in TickCells
  BY BlockTicksAssumption DEF Column, TickCells
<1>7. ASSUME NEW d \in Column, HangsIn(new, d)
      PROVE  \/ HangsIn(b, d)
             \/ IsScheduled(told, d)
             \/ \E x \in {d - 1, d + 1} : Remembers(cells, x)
  <2>1. CASE c = d
    BY <1>5, <1>7, <2>1 DEF HangsIn
  <2>2. CASE c = d - 1
    <3>1. d \in {c - 1, c + 1}
      BY <2>2, <1>6, <1>7 DEF HangsIn
    <3> QED BY <3>1, <2>2, <1>2, <1>3, <1>7 DEF HangsIn
  <2>3. CASE c # d /\ c # d - 1
    BY <2>3, <1>6, <1>7 DEF HangsIn
  <2> QED BY <2>1, <2>2, <2>3
<1> QED BY <1>4, <1>7 DEF told, SandCovered

(* Without its first entry a queue has the others, of other blocks. *)
LEMMA TailOfEntries ==
    ASSUME NEW queue, EntriesOf(queue), queue # <<>>
    PROVE  /\ EntriesOf(Tail(queue)) /\ Head(queue) \in Entry
           /\ Head(queue).wait >= 0
           /\ \A x : IsScheduled(Tail(queue), x) <=> x # Head(queue).cell /\ IsScheduled(queue, x)
           /\ \A i \in DOMAIN Tail(queue) : \E j \in DOMAIN queue : Tail(queue)[i] = queue[j]
<1> DEFINE rest == Tail(queue)
<1>1. /\ queue \in Seq(Entry) /\ Len(queue) \in Nat \ {0} /\ DOMAIN queue = 1..Len(queue)
      /\ \A i \in 1..Len(queue) : queue[i] \in Entry
      /\ Head(queue) = queue[1] /\ rest \in Seq(Entry)
      /\ DOMAIN rest = 1..(Len(queue) - 1)
      /\ \A i \in 1..(Len(queue) - 1) : i + 1 \in 1..Len(queue) /\ rest[i] = queue[i + 1]
  BY DEF EntriesOf
<1> HIDE DEF rest
<1>2. 1 \in DOMAIN queue
  BY <1>1
<1>3. /\ Head(queue) \in Entry /\ Head(queue).wait >= 0
      /\ \A i \in DOMAIN rest : i \in Int /\ i # 0 /\ i + 1 \in DOMAIN queue /\ rest[i] = queue[i + 1]
  BY <1>1, <1>2 DEF EntriesOf
<1>4. \A i, j : i \in DOMAIN rest /\ j \in DOMAIN rest /\ rest[i].cell = rest[j].cell => i = j
  <2> SUFFICES ASSUME NEW i \in DOMAIN rest, NEW j \in DOMAIN rest, rest[i].cell = rest[j].cell PROVE i = j
    OBVIOUS
  <2>1. i + 1 = j + 1
    BY <1>3 DEF EntriesOf
  <2> QED BY <2>1, <1>3
<1>5. EntriesOf(rest)
  BY <1>1, <1>3, <1>4 DEF EntriesOf
<1>6. \A i \in DOMAIN rest : rest[i].cell # Head(queue).cell
  <2> SUFFICES ASSUME NEW i \in DOMAIN rest, rest[i].cell = Head(queue).cell PROVE FALSE
    OBVIOUS
  <2>1. i + 1 = 1
    BY <1>1, <1>2, <1>3 DEF EntriesOf
  <2> QED BY <2>1, <1>3
<1>7. ASSUME NEW x PROVE IsScheduled(rest, x) <=> x # Head(queue).cell /\ IsScheduled(queue, x)
  <2>1. ASSUME IsScheduled(rest, x) PROVE x # Head(queue).cell /\ IsScheduled(queue, x)
    BY <2>1, <1>3, <1>6 DEF IsScheduled
  <2>2. ASSUME x # Head(queue).cell, IsScheduled(queue, x) PROVE IsScheduled(rest, x)
    <3>1. PICK j \in 1..Len(queue) : queue[j].cell = x
      BY <2>2, <1>1 DEF IsScheduled
    <3>2. j # 1
      BY <3>1, <2>2, <1>1
    <3>3. j - 1 \in 1..(Len(queue) - 1) /\ (j - 1) + 1 = j
      BY <3>2, <1>1
    <3>4. j - 1 \in DOMAIN rest /\ rest[j - 1] = queue[j]
      BY <3>3, <1>1
    <3> QED BY <3>1, <3>4 DEF IsScheduled
  <2> QED BY <2>1, <2>2
<1> QED BY <1>3, <1>5, <1>7 DEF rest

(* Two sets that differ at most in one element. *)
LEMMA OneApart ==
    ASSUME NEW S, IsFiniteSet(S), NEW T, NEW x, \A y : y # x => (y \in T <=> y \in S)
    PROVE  /\ IsFiniteSet(T) /\ Cardinality(S) \in Nat /\ Cardinality(T) \in Nat
           /\ x \in T /\ x \notin S => Cardinality(T) = Cardinality(S) + 1
           /\ x \notin T /\ x \in S => Cardinality(T) = Cardinality(S) - 1
           /\ (x \in T <=> x \in S) => Cardinality(T) = Cardinality(S)
<1>1. Cardinality(S) \in Nat
  BY FS_CardinalityType
<1>2. CASE x \in T /\ x \notin S
  <2>1. T = S \cup {x}
    BY <1>2
  <2> QED BY <2>1, <1>1, <1>2, FS_AddElement, FS_CardinalityType
<1>3. CASE x \notin T /\ x \in S
  <2>1. T = S \ {x}
    BY <1>3
  <2> QED BY <2>1, <1>1, <1>3, FS_RemoveElement, FS_CardinalityType
<1>4. CASE x \in T <=> x \in S
  <2>1. T = S
    BY <1>4
  <2> QED BY <2>1, <1>1, <1>4
<1> QED BY <1>2, <1>3, <1>4

SandIn(b) == {c \in Column : b[c] = "sand"}
FallingIn(f) == {s \in Sands : f[s] # 0}

LEMMA FiniteSand ==
    ASSUME NEW b, NEW f
    PROVE  /\ IsFiniteSet(Column) /\ IsFiniteSet(SandIn(b)) /\ IsFiniteSet(FallingIn(f))
           /\ Cardinality(SandIn(b)) \in Nat /\ Cardinality(FallingIn(f)) \in Nat
<1>1. IsFiniteSet(Column)
  BY FS_Interval, BlockTicksAssumption DEF Column
<1>2. SandIn(b) \in SUBSET Column /\ FallingIn(f) \in SUBSET Sands
  BY DEF SandIn, FallingIn
<1>3. IsFiniteSet(SandIn(b)) /\ IsFiniteSet(FallingIn(f))
  BY <1>1, <1>2, FS_Subset, BlockTicksAssumption
<1> QED BY <1>1, <1>3, FS_CardinalityType

LEMMA SandChange ==
    ASSUME NEW b, NEW new, NEW c \in Column, \A d \in Column : d # c => new[d] = b[d]
    PROVE  /\ new[c] = "sand" /\ b[c] # "sand" => Cardinality(SandIn(new)) = Cardinality(SandIn(b)) + 1
           /\ new[c] # "sand" /\ b[c] = "sand" => Cardinality(SandIn(new)) = Cardinality(SandIn(b)) - 1
           /\ (new[c] = "sand" <=> b[c] = "sand") => Cardinality(SandIn(new)) = Cardinality(SandIn(b))
<1>1. IsFiniteSet(SandIn(b))
  BY FiniteSand
<1>2. \A y : y # c => (y \in SandIn(new) <=> y \in SandIn(b))
  BY DEF SandIn
<1>3. (c \in SandIn(new) <=> new[c] = "sand") /\ (c \in SandIn(b) <=> b[c] = "sand")
  BY DEF SandIn
<1> HIDE DEF SandIn
<1> QED BY <1>1, <1>2, <1>3, OneApart

LEMMA FallingChange ==
    ASSUME NEW f, NEW new, NEW s \in Sands, \A t \in Sands : t # s => new[t] = f[t]
    PROVE  /\ new[s] # 0 /\ f[s] = 0 => Cardinality(FallingIn(new)) = Cardinality(FallingIn(f)) + 1
           /\ new[s] = 0 /\ f[s] # 0 => Cardinality(FallingIn(new)) = Cardinality(FallingIn(f)) - 1
           /\ (new[s] = 0 <=> f[s] = 0) => Cardinality(FallingIn(new)) = Cardinality(FallingIn(f))
<1>1. IsFiniteSet(FallingIn(f))
  BY FiniteSand
<1>2. \A y : y # s => (y \in FallingIn(new) <=> y \in FallingIn(f))
  BY DEF FallingIn
<1>3. (s \in FallingIn(new) <=> new[s] # 0) /\ (s \in FallingIn(f) <=> f[s] # 0)
  BY DEF FallingIn
<1> HIDE DEF FallingIn
<1> QED BY <1>1, <1>2, <1>3, OneApart

-----------------------------------------------------------------------------
(* The inductive invariant *)

OwnBlocks == fresh \ bare

\* A step of frozen ticks is queued only while they are frozen; no block is scheduled twice.
TicksTyped ==
    /\ BlockTicksTypeOK
    /\ EntriesOf(scheduled)
    /\ pendingTickSteps > 0 => tickFrozen
    /\ blockAt[Plate] # "sand"

\* Sand that is fresh has its first tick in the same tick of the world, in a chunk that is loaded.
FreshIsBrief ==
    /\ phase \in {"packets", "replay"} => fresh = {}
    /\ phase = "ticks" => bare = {}
    /\ phase = "entities" => fresh \subseteq toMove
    /\ fresh # {} => loaded
    /\ \A t \in fresh : falling[t] # 0

\* Until then its own block is in its place, and nothing else makes it fall a second time.
OwnersTrue ==
    /\ \A t \in OwnBlocks : blockAt[falling[t]] = "sand"
    /\ \A t, u : t \in OwnBlocks /\ u \in OwnBlocks /\ falling[t] = falling[u] => t = u
    /\ phase = "ticks" =>
          \A t, i : t \in OwnBlocks /\ i \in DOMAIN scheduled /\ scheduled[i].cell = falling[t]
              => scheduled[i].wait > 0

\* Sand that has just begun to fall is counted twice, as a block and as an entity.
SandAddsUp ==
    held + Cardinality(SandIn(blockAt)) + Cardinality(FallingIn(falling)) + crushed
        = Cardinality(Sands) + Cardinality(OwnBlocks)

TicksInv == TicksTyped /\ FreshIsBrief /\ OwnersTrue /\ SandAddsUp /\ NoTickIsForgotten

LEMMA TicksFacts ==
    ASSUME TicksInv
    PROVE  /\ ColumnTop \in Nat \ {0} /\ IsFiniteSet(Sands) /\ Cardinality(Sands) \in Nat
           /\ OwnBlocks \subseteq fresh /\ fresh \subseteq Sands /\ IsFiniteSet(OwnBlocks)
           /\ Cardinality(OwnBlocks) \in Nat
           /\ \A t \in fresh : falling[t] \in Column
           /\ \A c \in Column : c \in TickCells /\ c # Plate /\ c \in Int
           /\ Plate \in TickCells /\ 0 \notin Column
<1>1. OwnBlocks \in SUBSET Sands /\ OwnBlocks \subseteq fresh /\ fresh \subseteq Sands
  BY DEF TicksInv, TicksTyped, BlockTicksTypeOK, OwnBlocks
<1>2. \A c \in Column : c \in TickCells /\ c # Plate /\ c \in Int
  BY BlockTicksAssumption DEF Column, TickCells, Plate
<1>3. \A t \in fresh : falling[t] \in Column
  BY <1>1 DEF TicksInv, TicksTyped, BlockTicksTypeOK, FreshIsBrief
<1>4. Plate \in TickCells /\ 0 \notin Column
  BY BlockTicksAssumption DEF TickCells, Column
<1> QED BY <1>1, <1>2, <1>3, <1>4, FS_Subset, FS_CardinalityType, BlockTicksAssumption

LEMMA InitTicks == BlockTicksInit => TicksInv
<1> SUFFICES ASSUME BlockTicksInit PROVE TicksInv
  OBVIOUS
<1>1. Cardinality(Sands) \in Nat
  BY BlockTicksAssumption, FS_CardinalityType
<1>2. TicksTyped
  <2>1. blockAt \in [TickCells -> {"air", "sand", "stone", "released", "pressed"}]
    BY DEF BlockTicksInit
  <2>2. scheduled = <<>> /\ deferred = <<>> /\ pendingTickSteps = 0
    BY DEF BlockTicksInit
  <2>3. EntriesOf(scheduled) /\ scheduled \in Seq(Entry) /\ deferred \in Seq(TickCells)
    BY <2>2 DEF EntriesOf
  <2>4. falling \in [Sands -> Column \cup {0}]
    BY DEF BlockTicksInit
  <2>5. BlockTicksTypeOK
    <3>1. /\ tickFrozen \in BOOLEAN /\ loaded \in BOOLEAN /\ trodden \in BOOLEAN
          /\ fresh \subseteq Sands /\ bare \subseteq fresh /\ toMove \subseteq Sands
          /\ held \in Nat /\ budget \in Nat /\ dropped \in BOOLEAN /\ crushed \in Nat
          /\ phase \in {"packets", "replay", "ticks", "entities"}
      BY <1>1 DEF BlockTicksInit
    <3> QED BY <2>1, <2>2, <2>3, <2>4, <3>1 DEF BlockTicksTypeOK
  <2>6. blockAt[Plate] = "released"
    BY DEF BlockTicksInit, TickCells
  <2> QED BY <2>2, <2>3, <2>5, <2>6 DEF TicksTyped
<1>3. \A c \in Column : c # Plate /\ c \in TickCells
  BY BlockTicksAssumption DEF Column, Plate, TickCells
<1>4. SandIn(blockAt) = {} /\ FallingIn(falling) = {} /\ OwnBlocks = {}
  BY <1>3 DEF BlockTicksInit, SandIn, FallingIn, OwnBlocks
<1>5. SandAddsUp
  <2>1. held = Cardinality(Sands) /\ crushed = 0
    BY DEF BlockTicksInit
  <2> QED BY <1>1, <1>4, <2>1, FS_EmptySet DEF SandAddsUp
<1>6. NoTickIsForgotten
  BY <1>3 DEF BlockTicksInit, NoTickIsForgotten, SandIsWatched, Hangs, PressedIsWatched, TickCells
<1> QED BY <1>2, <1>4, <1>5, <1>6 DEF BlockTicksInit, TicksInv, FreshIsBrief, OwnersTrue

(* What is remembered is remembered. *)
LEMMA PutOffKeeps ==
    ASSUME deferred \in Seq(TickCells), NEW cells \in Seq(TickCells)
    PROVE  /\ PutOff(cells) \in Seq(TickCells)
           /\ \A x : Remembers(deferred, x) => Remembers(PutOff(cells), x)
           /\ PutsOff => \A i \in DOMAIN cells : Remembers(PutOff(cells), cells[i])
<1>1. CASE ~PutsOff
  BY <1>1 DEF PutOff
<1>2. CASE PutsOff
  <2> DEFINE new == deferred \o cells
  <2>1. /\ new \in Seq(TickCells) /\ PutOff(cells) = new
        /\ \A i \in DOMAIN deferred : i \in DOMAIN new /\ new[i] = deferred[i]
        /\ \A i \in DOMAIN cells : Len(deferred) + i \in DOMAIN new /\ new[Len(deferred) + i] = cells[i]
    BY <1>2 DEF PutOff
  <2> HIDE DEF new
  <2> QED BY <2>1, <1>2 DEF Remembers
<1> QED BY <1>1, <1>2

Watched(c) ==
    \/ IsScheduled(scheduled, c)
    \/ \E x \in {c - 1, c + 1} : Remembers(deferred, x)
    \/ \E s \in fresh : falling[s] = c

LEMMA WatchedSand ==
    SandIsWatched <=> (~dropped => \A c \in Column : HangsIn(blockAt, c) => Watched(c))
BY DEF SandIsWatched, Hangs, HangsIn, Watched, Remembers

LEMMA WatchedSandNext ==
    SandIsWatched' <=> (~dropped' => \A c \in Column : HangsIn(blockAt', c) => Watched(c)')
BY DEF SandIsWatched, Hangs, HangsIn, Watched, Remembers

(* A block changes: what waits for its tick is told, and what was told still
   is. *)
LEMMA PutWatched ==
    ASSUME TicksInv, NEW c \in TickCells, NEW kind \in {"air", "sand", "stone", "released"},
           PutBlock(c, kind), dropped' = dropped, fresh' \subseteq fresh,
           \A s \in fresh' : falling'[s] = falling[s],
           \A s \in fresh \ fresh' : blockAt'[falling[s]] # "sand"
    PROVE  /\ Grows(scheduled, scheduled')
           /\ blockAt' \in [TickCells -> {"air", "sand", "stone", "released", "pressed"}]
           /\ deferred' \in Seq(TickCells)
           /\ NoTickIsForgotten'
<1>1. /\ blockAt \in [TickCells -> {"air", "sand", "stone", "released", "pressed"}]
      /\ deferred \in Seq(TickCells) /\ EntriesOf(scheduled)
  BY DEF TicksInv, TicksTyped, BlockTicksTypeOK
<1>2. /\ blockAt' \in [TickCells -> {"air", "sand", "stone", "released", "pressed"}]
      /\ blockAt'[c] = kind /\ \A d \in TickCells : d # c => blockAt'[d] = blockAt[d]
  BY <1>1 DEF PutBlock
<1>3. scheduled' = Tell(scheduled, blockAt', c) /\ deferred' = PutOff(<<c>>)
  BY DEF PutBlock
<1>4. /\ deferred' \in Seq(TickCells) /\ (PutsOff => Remembers(deferred', c))
      /\ \A x : Remembers(deferred, x) => Remembers(deferred', x)
  <2>1. <<c>> \in Seq(TickCells) /\ 1 \in DOMAIN <<c>> /\ <<c>>[1] = c
    OBVIOUS
  <2> QED BY <1>1, <1>3, <2>1, PutOffKeeps
<1> DEFINE told == Tell(scheduled, blockAt', c)
<1>5. /\ Grows(scheduled, told)
      /\ \A d \in Column : HangsIn(blockAt', d) =>
            \/ HangsIn(blockAt, d)
            \/ IsScheduled(told, d)
            \/ \E x \in {d - 1, d + 1} : Remembers(deferred', x)
  <2>1. Grows(scheduled, told) /\ SandCovered(blockAt, blockAt', told, deferred')
    BY <1>1, <1>2, <1>4, TellCovers
  <2> HIDE DEF told
  <2> QED BY <2>1 DEF SandCovered
<1>6. told = scheduled'
  BY <1>3
<1> HIDE DEF told
<1>7. ASSUME ~dropped', NEW d \in Column, HangsIn(blockAt', d) PROVE Watched(d)'
  <2>1. CASE ~HangsIn(blockAt, d)
    BY <1>5, <1>6, <1>7, <2>1 DEF Watched
  <2>2. CASE HangsIn(blockAt, d)
    <3>1. Watched(d)
      BY <1>7, <2>2, WatchedSand DEF TicksInv, NoTickIsForgotten
    <3>2. CASE IsScheduled(scheduled, d)
      BY <3>2, <1>5, <1>6 DEF Grows, Watched
    <3>3. CASE \E x \in {d - 1, d + 1} : Remembers(deferred, x)
      BY <3>3, <1>4 DEF Watched
    <3>4. CASE \E s \in fresh : falling[s] = d
      <4>1. PICK s \in fresh : falling[s] = d
        BY <3>4
      <4>2. s \in fresh'
        BY <4>1, <1>7 DEF HangsIn
      <4> QED BY <4>1, <4>2 DEF Watched
    <3> QED BY <3>1, <3>2, <3>3, <3>4 DEF Watched
  <2> QED BY <2>1, <2>2
<1>8. SandIsWatched'
  BY <1>7, WatchedSandNext
<1>9. PressedIsWatched'
  <2> SUFFICES ASSUME blockAt'[Plate] = "pressed", ~dropped' PROVE IsScheduled(scheduled', Plate)
    BY DEF PressedIsWatched
  <2>1. blockAt[Plate] = "pressed"
    BY <1>2, TicksFacts
  <2>2. IsScheduled(scheduled, Plate)
    BY <2>1 DEF TicksInv, NoTickIsForgotten, PressedIsWatched
  <2> QED BY <2>2, <1>5, <1>6 DEF Grows
<1> QED BY <1>2, <1>4, <1>5, <1>6, <1>8, <1>9 DEF NoTickIsForgotten

(* Players place and break blocks while no sand is fresh. *)
LEMMA PlaceStep ==
    ASSUME TicksInv, NEW c \in TickCells, NEW kind \in {"sand", "stone", "released"},
           c \in Column \/ kind = "released", PlaceBlock(c, kind)
    PROVE  TicksInv'
<1>1. /\ phase = "packets" /\ phase' = phase /\ fresh = {} /\ fresh' = {} /\ bare' = bare
      /\ blockAt[c] = "air" /\ falling' = falling /\ crushed' = crushed /\ dropped' = dropped
      /\ PutBlock(c, kind) /\ loaded' = loaded
  <2>1. phase = "packets" /\ PutBlock(c, kind) /\ blockAt[c] = "air"
    BY DEF PlaceBlock, InPackets
  <2>2. /\ phase' = phase /\ fresh' = fresh /\ bare' = bare /\ falling' = falling
        /\ crushed' = crushed /\ dropped' = dropped /\ loaded' = loaded
    BY DEF PlaceBlock, controlVars
  <2> QED BY <2>1, <2>2 DEF TicksInv, FreshIsBrief
<1>2. /\ Grows(scheduled, scheduled') /\ deferred' \in Seq(TickCells) /\ NoTickIsForgotten'
      /\ blockAt' \in [TickCells -> {"air", "sand", "stone", "released", "pressed"}]
  BY <1>1, PutWatched
<1>3. held \in Nat /\ held' \in Nat /\ held' = IF kind = "sand" THEN held - 1 ELSE held
  BY DEF PlaceBlock, TicksInv, TicksTyped, BlockTicksTypeOK
<1>4. scheduled' \in Seq(Entry) /\ EntriesOf(scheduled')
  BY <1>2 DEF Grows, EntriesOf
<1>5. TicksTyped'
  <2>1. BlockTicksTypeOK'
    BY <1>2, <1>3, <1>4 DEF PlaceBlock, controlVars, TicksInv, TicksTyped, BlockTicksTypeOK
  <2>2. blockAt'[Plate] # "sand"
    BY <1>1, TicksFacts DEF PutBlock, TicksInv, TicksTyped, BlockTicksTypeOK
  <2> QED BY <1>4, <2>1, <2>2 DEF PlaceBlock, controlVars, TicksInv, TicksTyped
<1>6. FreshIsBrief' /\ OwnersTrue'
  BY <1>1 DEF FreshIsBrief, OwnersTrue, OwnBlocks
<1>7. SandAddsUp'
  <2>1. OwnBlocks' = OwnBlocks /\ crushed' = crushed /\ falling' = falling
    BY <1>1 DEF OwnBlocks
  <2>2. /\ blockAt'[c] = kind /\ (c = Plate => kind # "sand")
        /\ \A d \in Column : d # c => blockAt'[d] = blockAt[d]
    BY <1>1, TicksFacts DEF PutBlock, TicksInv, TicksTyped, BlockTicksTypeOK
  <2>3. /\ kind = "sand" => Cardinality(SandIn(blockAt')) = Cardinality(SandIn(blockAt)) + 1
        /\ kind # "sand" => Cardinality(SandIn(blockAt')) = Cardinality(SandIn(blockAt))
    <3>1. CASE c \in Column
      BY <1>1, <2>2, <3>1, SandChange
    <3>2. CASE c \notin Column
      <4>1. SandIn(blockAt') = SandIn(blockAt)
        BY <2>2, <3>2 DEF SandIn
      <4> QED BY <3>2, <4>1
    <3> QED BY <3>1, <3>2
  <2>4. Cardinality(SandIn(blockAt)) \in Nat /\ Cardinality(FallingIn(falling)) \in Nat /\ crushed \in Nat
    BY FiniteSand DEF TicksInv, TicksTyped, BlockTicksTypeOK
  <2>5. SandAddsUp
    BY DEF TicksInv
  <2> QED BY <1>3, <2>1, <2>3, <2>4, <2>5, TicksFacts DEF SandAddsUp
<1> QED BY <1>2, <1>5, <1>6, <1>7 DEF TicksInv

LEMMA BreakStep ==
    ASSUME TicksInv, NEW c \in TickCells, BreakBlock(c)
    PROVE  TicksInv'
<1>1. /\ phase = "packets" /\ phase' = phase /\ fresh = {} /\ fresh' = {} /\ bare' = bare
      /\ falling' = falling /\ crushed' = crushed /\ dropped' = dropped
      /\ PutBlock(c, "air") /\ loaded' = loaded
  <2>1. phase = "packets" /\ PutBlock(c, "air")
    BY DEF BreakBlock, InPackets
  <2>2. /\ phase' = phase /\ fresh' = fresh /\ bare' = bare /\ falling' = falling
        /\ crushed' = crushed /\ dropped' = dropped /\ loaded' = loaded
    BY DEF BreakBlock, controlVars
  <2> QED BY <2>1, <2>2 DEF TicksInv, FreshIsBrief
<1>2. /\ Grows(scheduled, scheduled') /\ deferred' \in Seq(TickCells) /\ NoTickIsForgotten'
      /\ blockAt' \in [TickCells -> {"air", "sand", "stone", "released", "pressed"}]
  BY <1>1, PutWatched
<1>3. held \in Nat /\ held' \in Nat /\ held' = IF blockAt[c] = "sand" THEN held + 1 ELSE held
  BY DEF BreakBlock, TicksInv, TicksTyped, BlockTicksTypeOK
<1>4. scheduled' \in Seq(Entry) /\ EntriesOf(scheduled')
  BY <1>2 DEF Grows, EntriesOf
<1>5. TicksTyped'
  <2>1. BlockTicksTypeOK'
    BY <1>2, <1>3, <1>4 DEF BreakBlock, controlVars, TicksInv, TicksTyped, BlockTicksTypeOK
  <2>2. blockAt'[Plate] # "sand"
    BY <1>1, TicksFacts DEF PutBlock, TicksInv, TicksTyped, BlockTicksTypeOK
  <2> QED BY <1>4, <2>1, <2>2 DEF BreakBlock, controlVars, TicksInv, TicksTyped
<1>6. FreshIsBrief' /\ OwnersTrue'
  BY <1>1 DEF FreshIsBrief, OwnersTrue, OwnBlocks
<1>7. SandAddsUp'
  <2>1. OwnBlocks' = OwnBlocks
    BY <1>1 DEF OwnBlocks
  <2>2. /\ blockAt'[c] = "air" /\ \A d \in Column : d # c => blockAt'[d] = blockAt[d]
    BY <1>1, TicksFacts DEF PutBlock, TicksInv, TicksTyped, BlockTicksTypeOK
  <2>3. /\ blockAt[c] = "sand" => Cardinality(SandIn(blockAt')) = Cardinality(SandIn(blockAt)) - 1
        /\ blockAt[c] # "sand" => Cardinality(SandIn(blockAt')) = Cardinality(SandIn(blockAt))
    <3>1. CASE c \in Column
      BY <1>1, <2>2, <3>1, SandChange
    <3>2. CASE c \notin Column
      <4>1. c = Plate /\ blockAt[c] # "sand"
        BY <3>2 DEF TickCells, TicksInv, TicksTyped, BlockTicksTypeOK
      <4>2. SandIn(blockAt') = SandIn(blockAt)
        BY <2>2, <3>2 DEF SandIn
      <4> QED BY <4>1, <4>2
    <3> QED BY <3>1, <3>2
  <2>4. Cardinality(SandIn(blockAt)) \in Nat /\ Cardinality(FallingIn(falling)) \in Nat /\ crushed \in Nat
    BY FiniteSand DEF TicksInv, TicksTyped, BlockTicksTypeOK
  <2>5. SandAddsUp
    BY DEF TicksInv
  <2> QED BY <1>1, <1>3, <2>1, <2>3, <2>4, <2>5, TicksFacts DEF SandAddsUp
<1> QED BY <1>2, <1>5, <1>6, <1>7 DEF TicksInv

(* Steps that change no block, queue or entity. *)
LEMMA IdleStep ==
    ASSUME TicksInv,
           UNCHANGED <<blockAt, scheduled, deferred, falling, fresh, bare, held, dropped, crushed>>,
           BlockTicksTypeOK', FreshIsBrief', pendingTickSteps' > 0 => tickFrozen',
           phase' = "ticks" => phase = "ticks"
    PROVE  TicksInv'
<1>1. TicksTyped'
  BY DEF TicksInv, TicksTyped
<1>2. OwnersTrue'
  BY DEF TicksInv, OwnersTrue, OwnBlocks
<1>3. SandAddsUp'
  BY DEF TicksInv, SandAddsUp, OwnBlocks
<1>4. NoTickIsForgotten'
  BY DEF TicksInv, NoTickIsForgotten, SandIsWatched, PressedIsWatched, Hangs
<1> QED BY <1>1, <1>2, <1>3, <1>4 DEF TicksInv

LEMMA ControlSteps ==
    ASSUME TicksInv, ToggleTickFreeze \/ QueueTickSteps \/ LoadOrUnload \/ StartSimulation
                     \/ StartEntities \/ EndSimulation
    PROVE  TicksInv'
<1> USE DEF TicksInv, TicksTyped, BlockTicksTypeOK, FreshIsBrief
<1>1. CASE ToggleTickFreeze
  BY <1>1, IdleStep DEF ToggleTickFreeze, InPackets
<1>2. CASE QueueTickSteps
  <2>1. pendingTickSteps' \in Nat /\ tickFrozen
    BY <1>2, BlockTicksAssumption DEF QueueTickSteps
  <2> QED BY <1>2, <2>1, IdleStep DEF QueueTickSteps, InPackets
<1>3. CASE LoadOrUnload
  BY <1>3, IdleStep DEF LoadOrUnload, InPackets
<1>4. CASE StartSimulation
  BY <1>4, IdleStep DEF StartSimulation, InPackets, controlVars
<1>5. CASE StartEntities
  <2>1. toMove' \subseteq Sands /\ fresh \subseteq toMove'
    BY <1>5 DEF StartEntities
  <2> QED BY <1>5, <2>1, IdleStep DEF StartEntities, controlVars
<1>6. CASE EndSimulation
  <2>1. pendingTickSteps' \in Nat /\ (pendingTickSteps' > 0 => tickFrozen)
    BY <1>6 DEF EndSimulation
  <2>2. fresh = {}
    BY <1>6 DEF EndSimulation
  <2> QED BY <1>6, <2>1, <2>2, IdleStep DEF EndSimulation
<1> QED BY <1>1, <1>2, <1>3, <1>4, <1>5, <1>6

(* A queue that only grew, by what is not yet due, leaves the owners alone. *)
LEMMA OwnersStay ==
    ASSUME TicksInv, Grows(scheduled, scheduled'), OwnBlocks' \subseteq OwnBlocks,
           \A t \in OwnBlocks' : falling'[t] = falling[t] /\ blockAt'[falling[t]] = "sand",
           phase' = "ticks" => phase = "ticks"
    PROVE  OwnersTrue'
<1>1. \A t \in OwnBlocks' : blockAt'[falling'[t]] = "sand"
  OBVIOUS
<1>2. \A t, u : t \in OwnBlocks' /\ u \in OwnBlocks' /\ falling'[t] = falling'[u] => t = u
  BY DEF TicksInv, OwnersTrue
<1>3. ASSUME phase' = "ticks", NEW t \in OwnBlocks', NEW i \in DOMAIN scheduled',
             scheduled'[i].cell = falling'[t]
      PROVE  scheduled'[i].wait > 0
  <2>1. CASE \E j \in DOMAIN scheduled : scheduled'[i] = scheduled[j]
    BY <1>3, <2>1 DEF TicksInv, OwnersTrue
  <2> QED BY <2>1 DEF Grows
<1> QED BY <1>1, <1>2, <1>3 DEF OwnersTrue

LEMMA ReplayStep ==
    ASSUME TicksInv, ReplayDeferred
    PROVE  TicksInv'
<1> DEFINE c == Head(deferred)
<1>1. /\ phase = "replay" /\ phase' = phase /\ blockAt' = blockAt /\ falling' = falling
      /\ fresh' = fresh /\ bare' = bare /\ fresh = {} /\ held' = held /\ crushed' = crushed
      /\ toMove' = toMove /\ loaded' = loaded /\ tickFrozen' = tickFrozen
      /\ pendingTickSteps' = pendingTickSteps /\ trodden' = trodden /\ budget' = budget
  BY DEF ReplayDeferred, controlVars, TicksInv, FreshIsBrief
<1>2. /\ deferred' \in Seq(TickCells) /\ c \in TickCells
      /\ \A x : Remembers(deferred, x) => x = c \/ Remembers(deferred', x)
  <2>1. /\ deferred \in Seq(TickCells) /\ Len(deferred) \in Nat \ {0} /\ DOMAIN deferred = 1..Len(deferred)
        /\ deferred' = Tail(deferred) /\ deferred' \in Seq(TickCells) /\ c = deferred[1] /\ c \in TickCells
        /\ DOMAIN deferred' = 1..(Len(deferred) - 1)
        /\ \A i \in 1..(Len(deferred) - 1) : deferred'[i] = deferred[i + 1]
    BY DEF ReplayDeferred, TicksInv, TicksTyped, BlockTicksTypeOK
  <2> HIDE DEF c
  <2>2. ASSUME NEW x, Remembers(deferred, x), x # c PROVE Remembers(deferred', x)
    <3>1. PICK i \in 1..Len(deferred) : deferred[i] = x
      BY <2>1, <2>2 DEF Remembers
    <3>2. i # 1
      BY <3>1, <2>1, <2>2
    <3>3. i - 1 \in 1..(Len(deferred) - 1) /\ (i - 1) + 1 = i
      BY <3>2, <2>1
    <3> QED BY <3>1, <3>3, <2>1 DEF Remembers
  <2> QED BY <2>1, <2>2
<1>3. IF loaded THEN scheduled' = AlertNeighbors(scheduled, blockAt, c) /\ dropped' = dropped
                ELSE dropped' = TRUE /\ scheduled' = scheduled
  BY DEF ReplayDeferred
<1> HIDE DEF c
<1>4. EntriesOf(scheduled)
  BY DEF TicksInv, TicksTyped
<1>5. /\ Grows(scheduled, AlertNeighbors(scheduled, blockAt, c))
      /\ \A d \in Column : d \in {c - 1, c + 1} /\ blockAt[d] = "sand"
             => IsScheduled(AlertNeighbors(scheduled, blockAt, c), d)
  BY <1>4, NeighborsGrow
<1>6. /\ Grows(scheduled, scheduled') /\ dropped' \in BOOLEAN
      /\ ~dropped' => /\ ~dropped
                      /\ \A d \in Column : d \in {c - 1, c + 1} /\ blockAt[d] = "sand" => IsScheduled(scheduled', d)
  <2>1. CASE loaded
    BY <1>3, <1>5, <2>1 DEF TicksInv, TicksTyped, BlockTicksTypeOK
  <2>2. CASE ~loaded
    BY <1>3, <1>4, <2>2 DEF Grows
  <2> QED BY <2>1, <2>2
<1>7. TicksTyped'
  <2>1. EntriesOf(scheduled') /\ scheduled' \in Seq(Entry)
    BY <1>6 DEF Grows, EntriesOf
  <2>2. BlockTicksTypeOK'
    BY <1>1, <1>2, <1>6, <2>1 DEF TicksInv, TicksTyped, BlockTicksTypeOK
  <2> QED BY <1>1, <2>1, <2>2 DEF TicksInv, TicksTyped
<1>8. FreshIsBrief'
  BY <1>1 DEF FreshIsBrief
<1>9. OwnersTrue'
  BY <1>1 DEF OwnersTrue, OwnBlocks
<1>10. SandAddsUp'
  BY <1>1 DEF TicksInv, SandAddsUp, OwnBlocks
<1>11. SandIsWatched'
  <2> SUFFICES ASSUME ~dropped', NEW d \in Column, HangsIn(blockAt, d) PROVE Watched(d)'
    BY <1>1, WatchedSandNext
  <2>1. Watched(d)
    BY <1>6, WatchedSand DEF TicksInv, NoTickIsForgotten
  <2>2. CASE IsScheduled(scheduled, d)
    BY <2>2, <1>6 DEF Grows, Watched
  <2>3. CASE \E x \in {d - 1, d + 1} : Remembers(deferred, x)
    <3>1. PICK x \in {d - 1, d + 1} : Remembers(deferred, x)
      BY <2>3
    <3>2. CASE x = c
      <4>1. d \in {c - 1, c + 1}
        BY <3>1, <3>2, TicksFacts
      <4> QED BY <4>1, <1>6 DEF HangsIn, Watched
    <3>3. CASE Remembers(deferred', x)
      BY <3>1, <3>3 DEF Watched
    <3> QED BY <3>1, <3>2, <3>3, <1>2
  <2> QED BY <2>1, <2>2, <2>3, <1>1 DEF Watched
<1>12. PressedIsWatched'
  BY <1>1, <1>6 DEF TicksInv, NoTickIsForgotten, PressedIsWatched, Grows
<1> QED BY <1>7, <1>8, <1>9, <1>10, <1>11, <1>12 DEF TicksInv, NoTickIsForgotten

(* A tick of the scheduler brings every entry nearer, and keeps it. *)
LEMMA StartTicksStep ==
    ASSUME TicksInv, StartTicks
    PROVE  TicksInv'
<1>1. /\ phase = "replay" /\ phase' = "ticks" /\ blockAt' = blockAt /\ falling' = falling
      /\ fresh' = fresh /\ bare' = bare /\ fresh = {} /\ held' = held /\ crushed' = crushed
      /\ toMove' = toMove /\ loaded' = loaded /\ tickFrozen' = tickFrozen /\ dropped' = dropped
      /\ pendingTickSteps' = pendingTickSteps /\ trodden' = trodden /\ deferred' = deferred
  BY DEF StartTicks, controlVars, TicksInv, FreshIsBrief
<1>2. scheduled \in Seq(Entry) /\ EntriesOf(scheduled)
  BY DEF TicksInv, TicksTyped, BlockTicksTypeOK
<1>3. /\ DOMAIN scheduled' = DOMAIN scheduled
      /\ \A i \in DOMAIN scheduled :
            /\ scheduled'[i] \in Entry /\ scheduled'[i].cell = scheduled[i].cell
            /\ scheduled'[i].wait >= 0
  <2>1. scheduled' = [i \in DOMAIN scheduled |->
          [scheduled[i] EXCEPT !.wait = IF @ > 0 THEN @ - 1 ELSE 0]]
    BY DEF StartTicks
  <2>2. ASSUME NEW i \in DOMAIN scheduled
        PROVE  /\ scheduled'[i] \in Entry /\ scheduled'[i].cell = scheduled[i].cell
               /\ scheduled'[i].wait >= 0
    <3>1. scheduled[i] \in Entry
      BY <1>2
    <3>2. PICK e \in Entry : e = scheduled[i]
      BY <3>1
    <3>3. scheduled'[i] = [e EXCEPT !.wait = IF e.wait > 0 THEN e.wait - 1 ELSE 0]
      BY <2>1, <3>2
    <3> QED BY <3>2, <3>3 DEF Entry
  <2> QED BY <2>1, <2>2
<1>4. scheduled' \in Seq(Entry)
  <2>1. DOMAIN scheduled = 1..Len(scheduled) /\ Len(scheduled) \in Nat
    BY <1>2
  <2>2. scheduled' \in [1..Len(scheduled) -> Entry]
    <3>1. scheduled' = [i \in DOMAIN scheduled |->
            [scheduled[i] EXCEPT !.wait = IF @ > 0 THEN @ - 1 ELSE 0]]
      BY DEF StartTicks
    <3> QED BY <3>1, <1>3, <2>1
  <2> QED BY <2>1, <2>2, SeqDef
<1>5. EntriesOf(scheduled')
  BY <1>2, <1>3, <1>4 DEF EntriesOf
<1>6. \A x : IsScheduled(scheduled, x) => IsScheduled(scheduled', x)
  BY <1>3 DEF IsScheduled
<1>7. budget' \in Nat
  <2>1. Len(scheduled) \in Nat
    BY <1>2
  <2> QED BY <2>1, BlockTicksAssumption DEF StartTicks
<1>8. TicksTyped'
  <2>1. BlockTicksTypeOK'
    BY <1>1, <1>4, <1>7 DEF TicksInv, TicksTyped, BlockTicksTypeOK
  <2> QED BY <1>1, <1>5, <2>1 DEF TicksInv, TicksTyped
<1>9. FreshIsBrief' /\ OwnersTrue'
  <2>1. bare' = {} /\ fresh' = {}
    BY <1>1 DEF TicksInv, TicksTyped, BlockTicksTypeOK
  <2> QED BY <1>1, <2>1 DEF FreshIsBrief, OwnersTrue, OwnBlocks
<1>10. SandAddsUp'
  BY <1>1 DEF TicksInv, SandAddsUp, OwnBlocks
<1>11. NoTickIsForgotten'
  <2>1. \A d : Watched(d) => Watched(d)'
    BY <1>1, <1>6 DEF Watched
  <2> QED BY <1>1, <1>6, <2>1, WatchedSand, WatchedSandNext DEF TicksInv, NoTickIsForgotten, PressedIsWatched
<1> QED BY <1>8, <1>9, <1>10, <1>11 DEF TicksInv

(* What is taken off the queue is due, and nobody's own block is. *)
LEMMA PopFacts ==
    ASSUME TicksInv, NEW c \in TickCells, Pop(c)
    PROVE  /\ phase = "ticks" /\ bare = {} /\ OwnBlocks = fresh
           /\ EntriesOf(Tail(scheduled)) /\ Tail(scheduled) \in Seq(Entry)
           /\ \A x : IsScheduled(Tail(scheduled), x) <=> x # c /\ IsScheduled(scheduled, x)
           /\ \A i \in DOMAIN Tail(scheduled) : \E j \in DOMAIN scheduled : Tail(scheduled)[i] = scheduled[j]
           /\ \A t \in OwnBlocks : falling[t] # c
           /\ budget' \in Nat
<1>1. phase = "ticks" /\ scheduled # <<>> /\ Head(scheduled).cell = c /\ Head(scheduled).wait = 0
  BY DEF Pop, IsDue
<1>2. budget' \in Nat
  BY DEF Pop, IsDue, TicksInv, TicksTyped, BlockTicksTypeOK
<1>3. EntriesOf(scheduled) /\ scheduled \in Seq(Entry)
  BY DEF TicksInv, TicksTyped, BlockTicksTypeOK
<1>4. /\ EntriesOf(Tail(scheduled))
      /\ \A x : IsScheduled(Tail(scheduled), x) <=> x # c /\ IsScheduled(scheduled, x)
      /\ \A i \in DOMAIN Tail(scheduled) : \E j \in DOMAIN scheduled : Tail(scheduled)[i] = scheduled[j]
  BY <1>1, <1>3, TailOfEntries
<1>5. 1 \in DOMAIN scheduled /\ Head(scheduled) = scheduled[1]
  BY <1>1, <1>3
<1>6. \A t \in OwnBlocks : falling[t] # c
  BY <1>1, <1>5 DEF TicksInv, OwnersTrue
<1>7. bare = {} /\ OwnBlocks = fresh
  BY <1>1 DEF TicksInv, FreshIsBrief, OwnBlocks
<1> QED BY <1>1, <1>2, <1>4, <1>6, <1>7 DEF EntriesOf

LEMMA DropTickStep ==
    ASSUME TicksInv, NEW c \in TickCells, DropTick(c)
    PROVE  TicksInv'
<1>1. /\ Pop(c) /\ ~HasWork(c) /\ scheduled' = Tail(scheduled) /\ dropped' = (dropped \/ ~loaded)
      /\ phase' = phase /\ blockAt' = blockAt /\ falling' = falling
      /\ fresh' = fresh /\ bare' = bare /\ held' = held /\ crushed' = crushed
      /\ toMove' = toMove /\ loaded' = loaded /\ tickFrozen' = tickFrozen
      /\ pendingTickSteps' = pendingTickSteps /\ trodden' = trodden /\ deferred' = deferred
  BY DEF DropTick, controlVars
<1>2. /\ phase = "ticks" /\ EntriesOf(scheduled') /\ scheduled' \in Seq(Entry) /\ budget' \in Nat
      /\ \A x : x # c /\ IsScheduled(scheduled, x) => IsScheduled(scheduled', x)
      /\ \A i \in DOMAIN scheduled' : \E j \in DOMAIN scheduled : scheduled'[i] = scheduled[j]
  BY <1>1, PopFacts
<1>3. dropped' \in BOOLEAN /\ (~dropped' => ~dropped /\ loaded)
  BY <1>1 DEF TicksInv, TicksTyped, BlockTicksTypeOK
<1>4. TicksTyped'
  <2>1. BlockTicksTypeOK'
    BY <1>1, <1>2, <1>3 DEF TicksInv, TicksTyped, BlockTicksTypeOK
  <2> QED BY <1>1, <1>2, <2>1 DEF TicksInv, TicksTyped
<1>5. FreshIsBrief'
  BY <1>1 DEF TicksInv, FreshIsBrief
<1>6. OwnersTrue'
  <2>1. ASSUME NEW t \in OwnBlocks, NEW i \in DOMAIN scheduled', scheduled'[i].cell = falling[t]
        PROVE  scheduled'[i].wait > 0
    BY <2>1, <1>2 DEF TicksInv, OwnersTrue
  <2> QED BY <1>1, <2>1 DEF TicksInv, OwnersTrue, OwnBlocks
<1>7. SandAddsUp'
  BY <1>1 DEF TicksInv, SandAddsUp, OwnBlocks
<1>8. SandIsWatched'
  <2> SUFFICES ASSUME ~dropped', NEW d \in Column, HangsIn(blockAt, d) PROVE Watched(d)'
    BY <1>1, WatchedSandNext
  <2>1. Watched(d)
    BY <1>3, WatchedSand DEF TicksInv, NoTickIsForgotten
  <2>2. d # c
    BY <1>1, <1>3, TicksFacts DEF HasWork, Hangs, HangsIn
  <2> QED BY <2>1, <2>2, <1>1, <1>2 DEF Watched
<1>9. PressedIsWatched'
  <2> SUFFICES ASSUME blockAt[Plate] = "pressed", ~dropped' PROVE IsScheduled(scheduled', Plate)
    BY <1>1 DEF PressedIsWatched
  <2>1. Plate # c
    BY <1>1, <1>3 DEF HasWork
  <2> QED BY <2>1, <1>2, <1>3 DEF TicksInv, NoTickIsForgotten, PressedIsWatched
<1> QED BY <1>4, <1>5, <1>6, <1>7, <1>8, <1>9 DEF TicksInv, NoTickIsForgotten

(* Sand that hangs and is nobody's own block was not counted among the
   entities: one of them does not fall. *)
LEMMA SomeSandIsFree ==
    ASSUME TicksInv, NEW c \in Column, blockAt[c] = "sand", \A t \in OwnBlocks : falling[t] # c
    PROVE  \E s \in Sands : falling[s] = 0
<1> SUFFICES ASSUME \A s \in Sands : falling[s] # 0 PROVE FALSE
  OBVIOUS
<1>1. FallingIn(falling) = Sands
  BY DEF FallingIn
<1>2. IsFiniteSet(SandIn(blockAt)) /\ Cardinality(SandIn(blockAt)) \in Nat
  BY FiniteSand
<1>3. c \in SandIn(blockAt)
  BY DEF SandIn
<1> DEFINE Rest == SandIn(blockAt) \ {c}
           place == [t \in OwnBlocks |-> falling[t]]
<1>4. IsFiniteSet(Rest) /\ Cardinality(Rest) = Cardinality(SandIn(blockAt)) - 1
  BY <1>2, <1>3, FS_RemoveElement
<1>5. place \in Injection(OwnBlocks, Rest)
  <2>1. \A t \in OwnBlocks : falling[t] \in Rest
    BY TicksFacts DEF TicksInv, OwnersTrue, SandIn
  <2>2. \A t, u : t \in OwnBlocks /\ u \in OwnBlocks /\ falling[t] = falling[u] => t = u
    BY DEF TicksInv, OwnersTrue
  <2> HIDE DEF Rest
  <2>3. place \in [OwnBlocks -> Rest]
    BY <2>1
  <2> QED BY <2>2, <2>3 DEF Injection, IsInjective
<1>6. Cardinality(OwnBlocks) <= Cardinality(Rest)
  <2> HIDE DEF Rest, place
  <2> QED BY <1>4, <1>5, FS_Injection
<1> HIDE DEF Rest, place
<1>7. held \in Nat /\ crushed \in Nat /\ SandAddsUp
  BY DEF TicksInv, TicksTyped, BlockTicksTypeOK
<1> QED BY <1>1, <1>2, <1>4, <1>6, <1>7, TicksFacts DEF SandAddsUp

LEMMA SpawnStep ==
    ASSUME TicksInv, NEW c \in TickCells, SpawnFalling(c)
    PROVE  TicksInv'
<1> DEFINE s == CHOOSE s \in Sands : falling[s] = 0
<1>1. /\ Pop(c) /\ c \in Column /\ HasWork(c) /\ scheduled' = Tail(scheduled)
      /\ falling' = [falling EXCEPT ![s] = c] /\ fresh' = fresh \cup {s}
      /\ phase' = phase /\ blockAt' = blockAt /\ bare' = bare /\ held' = held /\ crushed' = crushed
      /\ toMove' = toMove /\ loaded' = loaded /\ tickFrozen' = tickFrozen /\ dropped' = dropped
      /\ pendingTickSteps' = pendingTickSteps /\ trodden' = trodden /\ deferred' = deferred
  BY DEF SpawnFalling, controlVars
<1>2. /\ phase = "ticks" /\ EntriesOf(scheduled') /\ scheduled' \in Seq(Entry) /\ budget' \in Nat
      /\ \A x : IsScheduled(scheduled', x) <=> x # c /\ IsScheduled(scheduled, x)
      /\ \A i \in DOMAIN scheduled' : \E j \in DOMAIN scheduled : scheduled'[i] = scheduled[j]
      /\ bare = {} /\ OwnBlocks = fresh /\ \A t \in OwnBlocks : falling[t] # c
  BY <1>1, PopFacts
<1>3. blockAt[c] = "sand" /\ loaded /\ c # 0 /\ c # Plate
  BY <1>1, TicksFacts DEF HasWork, Hangs
<1>4. s \in Sands /\ falling[s] = 0
  BY <1>1, <1>2, <1>3, SomeSandIsFree
<1> HIDE DEF s
<1>5. s \notin fresh /\ falling \in [Sands -> Column \cup {0}] /\ fresh \subseteq Sands
  BY <1>4 DEF TicksInv, FreshIsBrief, TicksTyped, BlockTicksTypeOK
<1>6. falling'[s] = c /\ \A t \in Sands : t # s => falling'[t] = falling[t]
  BY <1>1, <1>4, <1>5
<1>7. OwnBlocks' = OwnBlocks \cup {s} /\ s \notin OwnBlocks
  BY <1>1, <1>2, <1>5 DEF OwnBlocks
<1>8. TicksTyped'
  <2>1. falling' \in [Sands -> Column \cup {0}]
    BY <1>1, <1>4, <1>5
  <2>2. BlockTicksTypeOK'
    BY <1>1, <1>2, <1>4, <2>1 DEF TicksInv, TicksTyped, BlockTicksTypeOK
  <2> QED BY <1>1, <1>2, <2>2 DEF TicksInv, TicksTyped
<1>9. FreshIsBrief'
  BY <1>1, <1>2, <1>3, <1>5, <1>6 DEF TicksInv, FreshIsBrief
<1>10. OwnersTrue'
  <2>1. \A t \in OwnBlocks' : blockAt'[falling'[t]] = "sand"
    BY <1>1, <1>2, <1>3, <1>5, <1>6, <1>7 DEF TicksInv, OwnersTrue
  <2>2. \A t, u : t \in OwnBlocks' /\ u \in OwnBlocks' /\ falling'[t] = falling'[u] => t = u
    BY <1>1, <1>2, <1>5, <1>6, <1>7 DEF TicksInv, OwnersTrue
  <2>3. ASSUME NEW t \in OwnBlocks', NEW i \in DOMAIN scheduled', scheduled'[i].cell = falling'[t]
        PROVE  scheduled'[i].wait > 0
    <3>1. scheduled'[i].cell # c
      BY <1>2 DEF IsScheduled
    <3>2. t \in OwnBlocks /\ falling'[t] = falling[t]
      BY <1>2, <1>5, <1>6, <1>7, <2>3, <3>1
    <3>3. PICK j \in DOMAIN scheduled : scheduled'[i] = scheduled[j]
      BY <1>2
    <3>4. scheduled[j].cell = falling[t]
      BY <2>3, <3>2, <3>3
    <3>5. scheduled[j].wait > 0
      BY <3>2, <3>4, <1>2 DEF TicksInv, OwnersTrue
    <3> QED BY <3>3, <3>5
  <2> QED BY <2>1, <2>2, <2>3 DEF OwnersTrue
<1>11. SandAddsUp'
  <2>1. Cardinality(OwnBlocks') = Cardinality(OwnBlocks) + 1
    BY <1>7, TicksFacts, FS_AddElement
  <2>2. Cardinality(FallingIn(falling')) = Cardinality(FallingIn(falling)) + 1
    BY <1>3, <1>4, <1>6, FallingChange
  <2>3. SandAddsUp /\ held \in Nat /\ crushed \in Nat
    BY DEF TicksInv, TicksTyped, BlockTicksTypeOK
  <2>4. Cardinality(SandIn(blockAt)) \in Nat /\ Cardinality(FallingIn(falling)) \in Nat
    BY FiniteSand
  <2> QED BY <1>1, <2>1, <2>2, <2>3, <2>4, TicksFacts, SMTT(30) DEF SandAddsUp
<1>12. SandIsWatched'
  <2> SUFFICES ASSUME ~dropped', NEW d \in Column, HangsIn(blockAt, d) PROVE Watched(d)'
    BY <1>1, WatchedSandNext
  <2>1. Watched(d)
    BY <1>1, WatchedSand DEF TicksInv, NoTickIsForgotten
  <2>2. CASE d = c
    BY <2>2, <1>1, <1>6 DEF Watched
  <2>3. CASE d # c
    <3>1. \A t \in fresh : t \in fresh' /\ falling'[t] = falling[t]
      BY <1>1, <1>5, <1>6
    <3> QED BY <2>1, <2>3, <3>1, <1>1, <1>2 DEF Watched
  <2> QED BY <2>2, <2>3
<1>13. PressedIsWatched'
  BY <1>1, <1>2, <1>3 DEF TicksInv, NoTickIsForgotten, PressedIsWatched
<1> QED BY <1>8, <1>9, <1>10, <1>11, <1>12, <1>13 DEF TicksInv, NoTickIsForgotten

(* Sand that goes down at once: its cell is told, then the one it lands in. *)
LEMMA FallAtOnceStep ==
    ASSUME TicksInv, NEW c \in TickCells, FallAtOnce(c)
    PROVE  TicksInv'
<1> DEFINE without == [blockAt EXCEPT ![c] = "air"]
           l == Landing(c)
           rest == Tail(scheduled)
           one == Tell(rest, without, c)
<1>1. /\ Pop(c) /\ c \in Column /\ HasWork(c)
      /\ blockAt' = [without EXCEPT ![l] = "sand"]
      /\ scheduled' = Tell(one, blockAt', l)
      /\ deferred' = PutOff(<<c, l>>)
      /\ phase' = phase /\ falling' = falling /\ fresh' = fresh
      /\ bare' = bare /\ held' = held /\ crushed' = crushed
      /\ toMove' = toMove /\ loaded' = loaded /\ tickFrozen' = tickFrozen /\ dropped' = dropped
      /\ pendingTickSteps' = pendingTickSteps /\ trodden' = trodden
  BY DEF FallAtOnce, controlVars
<1>2. /\ phase = "ticks" /\ EntriesOf(rest) /\ budget' \in Nat
      /\ \A x : IsScheduled(rest, x) <=> x # c /\ IsScheduled(scheduled, x)
      /\ \A i \in DOMAIN rest : \E j \in DOMAIN scheduled : rest[i] = scheduled[j]
      /\ bare = {} /\ OwnBlocks = fresh /\ \A t \in OwnBlocks : falling[t] # c
  BY <1>1, PopFacts
<1>3. /\ l \in Column /\ l \in TickCells /\ l # Plate /\ c # Plate
      /\ l = c \/ blockAt[l] = "air"
  <2>1. c \in Int /\ c >= 1 /\ c <= ColumnTop /\ ColumnTop \in Nat
    BY <1>1, BlockTicksAssumption DEF Column
  <2>2. l \in 1..c /\ \A d \in l..(c - 1) : blockAt[d] = "air"
    BY <1>1, LandingIsFree
  <2> HIDE DEF l
  <2>3. l \in Column /\ (l = c \/ l \in l..(c - 1))
    BY <2>1, <2>2 DEF Column
  <2> QED BY <1>1, <2>2, <2>3, TicksFacts
<1>4. /\ blockAt \in [TickCells -> {"air", "sand", "stone", "released", "pressed"}]
      /\ deferred \in Seq(TickCells) /\ blockAt[c] = "sand" /\ loaded
  BY <1>1, TicksFacts DEF TicksInv, TicksTyped, BlockTicksTypeOK, HasWork, Hangs
<1> HIDE DEF l
<1>5. /\ blockAt' \in [TickCells -> {"air", "sand", "stone", "released", "pressed"}]
      /\ blockAt'[l] = "sand" /\ (l # c => blockAt'[c] = "air")
      /\ \A d \in TickCells : d # c /\ d # l => blockAt'[d] = blockAt[d]
      /\ without[c] = "air" /\ (\A d \in TickCells : d # c => without[d] = blockAt[d])
      /\ \A d \in TickCells : d # l => blockAt'[d] = without[d]
  BY <1>1, <1>3, <1>4
<1>6. /\ deferred' \in Seq(TickCells) /\ (PutsOff => Remembers(deferred', c) /\ Remembers(deferred', l))
      /\ \A x : Remembers(deferred, x) => Remembers(deferred', x)
  <2>1. /\ <<c, l>> \in Seq(TickCells) /\ 1 \in DOMAIN <<c, l>> /\ 2 \in DOMAIN <<c, l>>
        /\ <<c, l>>[1] = c /\ <<c, l>>[2] = l
    BY <1>3
  <2>2. PutsOff => \A i \in DOMAIN <<c, l>> : Remembers(deferred', <<c, l>>[i])
    BY <1>1, <1>4, <2>1, PutOffKeeps
  <2> QED BY <1>1, <1>4, <2>1, <2>2, PutOffKeeps
<1> HIDE DEF without, rest
<1>7. /\ Grows(rest, one)
      /\ \A d \in Column : HangsIn(without, d) =>
            HangsIn(blockAt, d) \/ IsScheduled(one, d) \/ \E x \in {d - 1, d + 1} : Remembers(deferred', x)
  <2>1. Grows(rest, one) /\ SandCovered(blockAt, without, one, deferred')
    BY <1>2, <1>5, <1>6, TellCovers
  <2> HIDE DEF one
  <2> QED BY <2>1 DEF SandCovered
<1> HIDE DEF one
<1>8. /\ Grows(one, scheduled')
      /\ \A d \in Column : HangsIn(blockAt', d) =>
            HangsIn(without, d) \/ IsScheduled(scheduled', d) \/ \E x \in {d - 1, d + 1} : Remembers(deferred', x)
  <2>1. EntriesOf(one)
    BY <1>7 DEF Grows
  <2>2. Grows(one, Tell(one, blockAt', l)) /\ SandCovered(without, blockAt', Tell(one, blockAt', l), deferred')
    BY <1>3, <1>5, <1>6, <2>1, TellCovers
  <2>3. Grows(one, scheduled') /\ SandCovered(without, blockAt', scheduled', deferred')
    BY <1>1, <2>2
  <2> QED BY <2>3 DEF SandCovered
<1>9. Grows(rest, scheduled')
  BY <1>7, <1>8, GrowsOn
<1>10. TicksTyped'
  <2>1. EntriesOf(scheduled') /\ scheduled' \in Seq(Entry)
    BY <1>9 DEF Grows, EntriesOf
  <2>2. BlockTicksTypeOK'
    BY <1>1, <1>2, <1>5, <1>6, <2>1 DEF TicksInv, TicksTyped, BlockTicksTypeOK
  <2>3. blockAt'[Plate] # "sand"
    BY <1>3, <1>5, TicksFacts DEF TicksInv, TicksTyped
  <2> QED BY <1>1, <2>1, <2>2, <2>3 DEF TicksInv, TicksTyped
<1>11. FreshIsBrief'
  BY <1>1 DEF TicksInv, FreshIsBrief
<1>12. OwnersTrue'
  <2>1. OwnBlocks' = OwnBlocks
    BY <1>1 DEF OwnBlocks
  <2>2. \A t \in OwnBlocks : blockAt'[falling[t]] = "sand"
    BY <1>2, <1>3, <1>5, TicksFacts DEF TicksInv, OwnersTrue
  <2>3. ASSUME NEW t \in OwnBlocks, NEW i \in DOMAIN scheduled', scheduled'[i].cell = falling[t]
        PROVE  scheduled'[i].wait > 0
    <3>1. CASE \E j \in DOMAIN rest : scheduled'[i] = rest[j]
      <4>1. PICK j \in DOMAIN scheduled : scheduled'[i] = scheduled[j]
        BY <3>1, <1>2
      <4>2. scheduled[j].wait > 0
        BY <2>3, <4>1, <1>2 DEF TicksInv, OwnersTrue
      <4> QED BY <4>1, <4>2
    <3> QED BY <3>1, <1>9 DEF Grows
  <2> QED BY <1>1, <2>1, <2>2, <2>3 DEF TicksInv, OwnersTrue
<1>13. SandAddsUp'
  <2>1. OwnBlocks' = OwnBlocks
    BY <1>1 DEF OwnBlocks
  <2>2. \A d \in Column : d # c => without[d] = blockAt[d]
    BY <1>5, TicksFacts
  <2>3. Cardinality(SandIn(without)) = Cardinality(SandIn(blockAt)) - 1
    BY <1>1, <1>4, <1>5, <2>2, SandChange
  <2>4. \A d \in Column : d # l => blockAt'[d] = without[d]
    BY <1>5, TicksFacts
  <2>5. without[l] # "sand"
    BY <1>3, <1>5
  <2>6. Cardinality(SandIn(blockAt')) = Cardinality(SandIn(without)) + 1
    BY <1>3, <1>5, <2>4, <2>5, SandChange
  <2>7. Cardinality(SandIn(blockAt)) \in Nat /\ Cardinality(SandIn(blockAt')) = Cardinality(SandIn(blockAt))
    BY <2>3, <2>6, FiniteSand
  <2> QED BY <1>1, <2>1, <2>7 DEF TicksInv, SandAddsUp
<1>14. SandIsWatched'
  <2> SUFFICES ASSUME ~dropped', NEW d \in Column, HangsIn(blockAt', d) PROVE Watched(d)'
    BY WatchedSandNext
  <2>1. HangsIn(without, d) => HangsIn(blockAt, d) \/ Watched(d)'
    BY <1>7, <1>8 DEF Watched, Grows
  <2>2. HangsIn(without, d) \/ Watched(d)'
    BY <1>8 DEF Watched
  <2>3. CASE HangsIn(blockAt, d) /\ HangsIn(without, d)
    <3>1. Watched(d) /\ d # c
      BY <1>1, <1>5, <2>3, WatchedSand DEF TicksInv, NoTickIsForgotten, HangsIn
    <3>2. IsScheduled(scheduled, d) => IsScheduled(scheduled', d)
      BY <3>1, <1>2, <1>9 DEF Grows
    <3> QED BY <3>1, <3>2, <1>1, <1>6 DEF Watched
  <2> QED BY <2>1, <2>2, <2>3
<1>15. PressedIsWatched'
  <2> SUFFICES ASSUME blockAt'[Plate] = "pressed", ~dropped' PROVE IsScheduled(scheduled', Plate)
    BY DEF PressedIsWatched
  <2>1. blockAt[Plate] = "pressed"
    BY <1>3, <1>5, TicksFacts
  <2>2. IsScheduled(rest, Plate)
    BY <2>1, <1>1, <1>2, <1>3 DEF TicksInv, NoTickIsForgotten, PressedIsWatched
  <2> QED BY <2>2, <1>9 DEF Grows
<1> QED BY <1>10, <1>11, <1>12, <1>13, <1>14, <1>15 DEF TicksInv, NoTickIsForgotten

(* The plate is looked at: pressed, it is to be looked at again. *)
LEMMA PlateKeeps ==
    ASSUME TicksInv, NEW queue, EntriesOf(queue),
           \A i \in DOMAIN queue : \E j \in DOMAIN scheduled : queue[i] = scheduled[j],
           \A x : x # Plate /\ IsScheduled(scheduled, x) => IsScheduled(queue, x),
           PlateState(queue), trodden' \in BOOLEAN, budget' \in Nat,
           UNCHANGED <<deferred, tickFrozen, pendingTickSteps, loaded, falling, fresh, bare, held, phase,
                       toMove, dropped, crushed>>
    PROVE  TicksInv'
<1>1. /\ Plate \in TickCells /\ PlateDelay \in Nat \ {0}
      /\ blockAt \in [TickCells -> {"air", "sand", "stone", "released", "pressed"}]
      /\ \A d \in Column : d \in TickCells /\ d # Plate
  BY TicksFacts, BlockTicksAssumption DEF TicksInv, TicksTyped, BlockTicksTypeOK
<1>2. /\ blockAt' \in [TickCells -> {"air", "sand", "stone", "released", "pressed"}]
      /\ blockAt'[Plate] = (IF trodden' THEN "pressed" ELSE "released")
      /\ \A d \in Column : blockAt'[d] = blockAt[d]
  BY <1>1 DEF PlateState
<1>3. Grows(queue, scheduled') /\ (trodden' => IsScheduled(scheduled', Plate))
  <2>1. /\ Grows(queue, ScheduleUpdateTick(queue, Plate, PlateDelay))
        /\ IsScheduled(ScheduleUpdateTick(queue, Plate, PlateDelay), Plate)
    BY <1>1, ScheduleGrows
  <2>2. Grows(queue, queue)
    BY DEF Grows
  <2> QED BY <2>1, <2>2 DEF PlateState
<1>4. TicksTyped'
  <2>1. EntriesOf(scheduled') /\ scheduled' \in Seq(Entry)
    BY <1>3 DEF Grows, EntriesOf
  <2>2. BlockTicksTypeOK'
    BY <1>2, <2>1 DEF TicksInv, TicksTyped, BlockTicksTypeOK
  <2> QED BY <1>2, <2>1, <2>2 DEF TicksInv, TicksTyped
<1>5. FreshIsBrief'
  BY DEF TicksInv, FreshIsBrief
<1>6. OwnBlocks' = OwnBlocks
  BY DEF OwnBlocks
<1>7. OwnersTrue'
  <2>1. \A t \in OwnBlocks : blockAt'[falling[t]] = "sand"
    BY <1>2, TicksFacts DEF TicksInv, OwnersTrue
  <2>2. ASSUME phase = "ticks", NEW t \in OwnBlocks, NEW i \in DOMAIN scheduled', scheduled'[i].cell = falling[t]
        PROVE  scheduled'[i].wait > 0
    <3>1. CASE \E j \in DOMAIN queue : scheduled'[i] = queue[j]
      <4>1. PICK j \in DOMAIN scheduled : scheduled'[i] = scheduled[j]
        BY <3>1
      <4>2. scheduled[j].wait > 0
        BY <2>2, <4>1 DEF TicksInv, OwnersTrue
      <4> QED BY <4>1, <4>2
    <3> QED BY <3>1, <1>3 DEF Grows
  <2> QED BY <1>6, <2>1, <2>2 DEF TicksInv, OwnersTrue
<1>8. SandAddsUp'
  <2>1. SandIn(blockAt') = SandIn(blockAt)
    BY <1>2 DEF SandIn
  <2> QED BY <1>6, <2>1 DEF TicksInv, SandAddsUp
<1>9. SandIsWatched'
  <2> SUFFICES ASSUME ~dropped', NEW d \in Column, HangsIn(blockAt', d) PROVE Watched(d)'
    BY WatchedSandNext
  <2>1. HangsIn(blockAt, d)
    <3>1. d > 1 => d - 1 \in Column
      BY BlockTicksAssumption DEF Column
    <3> QED BY <3>1, <1>2 DEF HangsIn
  <2>2. Watched(d)
    BY <2>1, WatchedSand DEF TicksInv, NoTickIsForgotten
  <2>3. IsScheduled(scheduled, d) => IsScheduled(scheduled', d)
    BY <1>1, <1>3 DEF Grows
  <2> QED BY <2>2, <2>3 DEF Watched
<1>10. PressedIsWatched'
  BY <1>2, <1>3 DEF PressedIsWatched
<1> QED BY <1>4, <1>5, <1>7, <1>8, <1>9, <1>10 DEF TicksInv, NoTickIsForgotten

LEMMA PlateSteps ==
    ASSUME TicksInv, TickPlate \/ Walk
    PROVE  TicksInv'
<1>1. CASE TickPlate
  <2>1. /\ Pop(Plate) /\ PlateState(Tail(scheduled)) /\ trodden' = trodden
        /\ UNCHANGED <<deferred, tickFrozen, pendingTickSteps, loaded, falling, fresh, bare, held, phase,
                       toMove, dropped, crushed>>
    BY <1>1 DEF TickPlate, controlVars
  <2>2. /\ EntriesOf(Tail(scheduled)) /\ budget' \in Nat
        /\ \A x : IsScheduled(Tail(scheduled), x) <=> x # Plate /\ IsScheduled(scheduled, x)
        /\ \A i \in DOMAIN Tail(scheduled) : \E j \in DOMAIN scheduled : Tail(scheduled)[i] = scheduled[j]
    BY <2>1, TicksFacts, PopFacts
  <2>3. trodden' \in BOOLEAN
    BY <2>1 DEF TicksInv, TicksTyped, BlockTicksTypeOK
  <2> QED BY <2>1, <2>2, <2>3, PlateKeeps
<1>2. CASE Walk
  <2>1. /\ trodden' \in BOOLEAN
        /\ UNCHANGED <<deferred, tickFrozen, pendingTickSteps, loaded, falling, fresh, bare, held, phase,
                       toMove, dropped, crushed>>
        /\ budget' = budget
    BY <1>2 DEF Walk
  <2>2. budget' \in Nat /\ EntriesOf(scheduled)
    BY <2>1 DEF TicksInv, TicksTyped, BlockTicksTypeOK
  <2>3. CASE PlateState(scheduled)
    BY <2>1, <2>2, <2>3, PlateKeeps
  <2>4. CASE UNCHANGED <<blockAt, scheduled>>
    <3>1. BlockTicksTypeOK' /\ FreshIsBrief' /\ pendingTickSteps' = pendingTickSteps /\ tickFrozen' = tickFrozen
      BY <2>1, <2>2, <2>4 DEF TicksInv, TicksTyped, BlockTicksTypeOK, FreshIsBrief
    <3>2. pendingTickSteps' > 0 => tickFrozen'
      BY <3>1 DEF TicksInv, TicksTyped
    <3> QED BY <2>1, <2>4, <3>1, <3>2, IdleStep
  <2> QED BY <2>3, <2>4, <1>2 DEF Walk
<1> QED BY <1>1, <1>2

(* A tick of falling sand takes away a block that is its own, or another's,
   or was counted for itself and is counted as crushed. *)
LEMMA FallingTickFacts ==
    ASSUME TicksInv, NEW s \in Sands, NEW h \in Column, FallingTick(s, h)
    PROVE  /\ phase = "entities" /\ toMove' = toMove \ {s} /\ fresh' = fresh \ {s} /\ bare' \subseteq fresh'
           /\ UNCHANGED <<controlVars, phase, budget, dropped>>
           /\ falling[s] # 0 /\ (s \in fresh => h = falling[s])
           /\ OwnBlocks' \subseteq OwnBlocks /\ s \notin OwnBlocks' /\ crushed' \in Nat
           /\ \A t \in OwnBlocks' : falling[t] # h
           /\ Cardinality(OwnBlocks') \in Nat
           /\ blockAt[h] = "sand" => crushed' + Cardinality(OwnBlocks) = crushed + Cardinality(OwnBlocks') + 1
           /\ blockAt[h] # "sand" => crushed' + Cardinality(OwnBlocks) = crushed + Cardinality(OwnBlocks')
<1>1. /\ phase = "entities" /\ toMove' = toMove \ {s} /\ fresh' = fresh \ {s}
      /\ UNCHANGED <<controlVars, phase, budget, dropped>>
      /\ IF blockAt[h] = "sand"
         THEN /\ bare' = (bare \cup Owners(h)) \ {s}
              /\ crushed' = IF Owners(h) = {} THEN crushed + 1 ELSE crushed
         ELSE bare' = bare \ {s} /\ crushed' = crushed
      /\ h \in {falling[s], falling[s] - 1} /\ (h # falling[s] => s \notin fresh)
  BY DEF FallingTick, Falls
<1>2. falling[s] # 0 /\ (s \in fresh => h = falling[s])
  <2>1. h \in Nat /\ h >= 1
    BY BlockTicksAssumption DEF Column
  <2> QED BY <1>1, <2>1
<1>3. crushed \in Nat /\ bare \subseteq fresh /\ fresh \subseteq Sands
  BY DEF TicksInv, TicksTyped, BlockTicksTypeOK
<1>4. Owners(h) = {t \in OwnBlocks : falling[t] = h}
  BY DEF Owners, OwnBlocks
<1>5. IsFiniteSet(OwnBlocks) /\ Cardinality(OwnBlocks) \in Nat
  BY TicksFacts
<1>6. CASE blockAt[h] = "sand"
  <2>1. OwnBlocks' = OwnBlocks \ Owners(h)
    <3>1. s \in OwnBlocks => s \in Owners(h)
      BY <1>2, <1>4 DEF OwnBlocks
    <3>2. OwnBlocks' = (fresh \ {s}) \ ((bare \cup Owners(h)) \ {s})
      BY <1>1, <1>6 DEF OwnBlocks
    <3>3. (fresh \ {s}) \ ((bare \cup Owners(h)) \ {s}) = ((fresh \ bare) \ Owners(h)) \ {s}
      OBVIOUS
    <3> QED BY <3>1, <3>2, <3>3 DEF OwnBlocks
  <2>2. bare' \subseteq fresh'
    BY <1>1, <1>3, <1>4, <1>6 DEF OwnBlocks
  <2>3. s \notin OwnBlocks'
    BY <1>1 DEF OwnBlocks
  <2>4. CASE Owners(h) = {}
    <3>1. OwnBlocks' = OwnBlocks /\ crushed' = crushed + 1
      BY <1>1, <1>6, <2>1, <2>4
    <3> QED BY <1>1, <1>2, <1>3, <1>4, <1>5, <1>6, <2>2, <2>3, <2>4, <3>1
  <2>5. CASE Owners(h) # {}
    <3>1. PICK t \in OwnBlocks : falling[t] = h
      BY <1>4, <2>5
    <3>2. Owners(h) = {t}
      BY <1>4, <3>1 DEF TicksInv, OwnersTrue
    <3>3. OwnBlocks' = OwnBlocks \ {t} /\ crushed' = crushed
      BY <1>1, <1>6, <2>1, <2>5, <3>2
    <3>4. Cardinality(OwnBlocks') = Cardinality(OwnBlocks) - 1 /\ Cardinality(OwnBlocks') \in Nat
      BY <1>5, <3>1, <3>3, FS_RemoveElement, FS_CardinalityType
    <3>5. \A u \in OwnBlocks' : falling[u] # h
      BY <1>4, <2>1
    <3> QED BY <1>1, <1>2, <1>3, <1>5, <1>6, <2>2, <2>3, <3>3, <3>4, <3>5
  <2> QED BY <2>4, <2>5
<1>7. CASE blockAt[h] # "sand"
  <2>1. \A t \in OwnBlocks : falling[t] # h
    BY <1>7 DEF TicksInv, OwnersTrue
  <2>2. s \notin OwnBlocks
    BY <1>2, <2>1 DEF OwnBlocks
  <2>3. OwnBlocks' = OwnBlocks
    BY <1>1, <1>7, <2>2 DEF OwnBlocks
  <2>4. bare' \subseteq fresh'
    BY <1>1, <1>3, <1>7
  <2> QED BY <1>1, <1>2, <1>3, <1>5, <1>7, <2>1, <2>2, <2>3, <2>4
<1> QED BY <1>6, <1>7

(* What the three ends of such a tick have in common. *)
LEMMA FallingTickEnds ==
    ASSUME TicksInv, NEW s \in Sands, NEW h \in Column, FallingTick(s, h),
           Grows(scheduled, scheduled'), deferred' \in Seq(TickCells),
           blockAt' \in [TickCells -> {"air", "sand", "stone", "released", "pressed"}],
           \A d \in TickCells : d # h => blockAt'[d] = blockAt[d],
           held' \in Nat, falling' \in [Sands -> Column \cup {0}],
           \A t \in Sands : t # s => falling'[t] = falling[t],
           SandAddsUp', NoTickIsForgotten'
    PROVE  TicksInv'
<1>1. /\ phase = "entities" /\ phase' = phase /\ toMove' = toMove \ {s} /\ fresh' = fresh \ {s}
      /\ bare' \subseteq fresh' /\ loaded' = loaded /\ tickFrozen' = tickFrozen /\ trodden' = trodden
      /\ pendingTickSteps' = pendingTickSteps /\ budget' = budget /\ dropped' = dropped
      /\ OwnBlocks' \subseteq OwnBlocks /\ s \notin OwnBlocks' /\ crushed' \in Nat
      /\ \A t \in OwnBlocks' : falling[t] # h
  BY FallingTickFacts DEF controlVars
<1>2. EntriesOf(scheduled') /\ scheduled' \in Seq(Entry)
  BY DEF Grows, EntriesOf
<1>3. TicksTyped'
  <2>1. BlockTicksTypeOK'
    BY <1>1, <1>2 DEF TicksInv, TicksTyped, BlockTicksTypeOK
  <2>2. blockAt'[Plate] # "sand"
    BY TicksFacts DEF TicksInv, TicksTyped
  <2> QED BY <1>1, <1>2, <2>1, <2>2 DEF TicksInv, TicksTyped
<1>4. FreshIsBrief'
  <2>1. fresh \subseteq toMove /\ fresh \subseteq Sands
    BY <1>1 DEF TicksInv, FreshIsBrief, TicksTyped, BlockTicksTypeOK
  <2>2. \A t \in fresh' : falling'[t] # 0
    BY <1>1, <2>1 DEF TicksInv, FreshIsBrief
  <2>3. fresh' # {} => loaded'
    BY <1>1 DEF TicksInv, FreshIsBrief
  <2> QED BY <1>1, <2>1, <2>2, <2>3 DEF FreshIsBrief
<1>5. OwnersTrue'
  <2>1. \A t \in OwnBlocks' : t \in Sands /\ t # s /\ falling[t] \in TickCells
    BY <1>1, TicksFacts
  <2>2. \A t \in OwnBlocks' : falling'[t] = falling[t] /\ blockAt'[falling[t]] = "sand"
    BY <1>1, <2>1 DEF TicksInv, OwnersTrue
  <2> QED BY <1>1, <2>2, OwnersStay
<1> QED BY <1>3, <1>4, <1>5 DEF TicksInv

(* The block goes, if it is there. *)
LEMMA ClearKeeps ==
    ASSUME TicksInv, NEW s \in Sands, NEW h \in Column, FallingTick(s, h), ClearOnly(h),
           \A t \in Sands : t # s => falling'[t] = falling[t]
    PROVE  /\ Grows(scheduled, scheduled') /\ deferred' \in Seq(TickCells) /\ NoTickIsForgotten'
           /\ blockAt' \in [TickCells -> {"air", "sand", "stone", "released", "pressed"}]
           /\ \A d \in TickCells : d # h => blockAt'[d] = blockAt[d]
           /\ blockAt[h] = "sand" => Cardinality(SandIn(blockAt')) = Cardinality(SandIn(blockAt)) - 1
           /\ blockAt[h] # "sand" => Cardinality(SandIn(blockAt')) = Cardinality(SandIn(blockAt))
<1>1. /\ dropped' = dropped /\ fresh' = fresh \ {s} /\ (s \in fresh => h = falling[s])
      /\ fresh \subseteq Sands /\ h \in TickCells
  BY FallingTickFacts, TicksFacts
<1>2. \A t \in fresh' : falling'[t] = falling[t]
  BY <1>1
<1>3. /\ blockAt \in [TickCells -> {"air", "sand", "stone", "released", "pressed"}]
      /\ deferred \in Seq(TickCells) /\ EntriesOf(scheduled)
  BY DEF TicksInv, TicksTyped, BlockTicksTypeOK
<1>4. CASE blockAt[h] = "sand"
  <2>1. PutBlock(h, "air")
    BY <1>4 DEF ClearOnly
  <2>2. blockAt'[h] = "air" /\ \A d \in TickCells : d # h => blockAt'[d] = blockAt[d]
    BY <1>1, <1>3, <2>1 DEF PutBlock
  <2>3. \A t \in fresh \ fresh' : blockAt'[falling[t]] # "sand"
    BY <1>1, <2>2
  <2>4. /\ Grows(scheduled, scheduled') /\ deferred' \in Seq(TickCells) /\ NoTickIsForgotten'
        /\ blockAt' \in [TickCells -> {"air", "sand", "stone", "released", "pressed"}]
    BY <1>1, <1>2, <2>1, <2>3, PutWatched
  <2>5. Cardinality(SandIn(blockAt')) = Cardinality(SandIn(blockAt)) - 1
    BY <1>4, <2>2, SandChange, TicksFacts
  <2> QED BY <1>4, <2>2, <2>4, <2>5
<1>5. CASE blockAt[h] # "sand"
  <2>1. blockAt' = blockAt /\ scheduled' = scheduled /\ deferred' = deferred
    BY <1>5 DEF ClearOnly
  <2>2. Grows(scheduled, scheduled')
    BY <1>3, <2>1 DEF Grows
  <2>3. SandIsWatched'
    <3> SUFFICES ASSUME ~dropped', NEW d \in Column, HangsIn(blockAt, d) PROVE Watched(d)'
      BY <2>1, WatchedSandNext
    <3>1. Watched(d)
      BY <1>1, WatchedSand DEF TicksInv, NoTickIsForgotten
    <3>2. ASSUME NEW t \in fresh, falling[t] = d PROVE t \in fresh' /\ falling'[t] = d
      <4>1. t # s
        BY <1>1, <1>5, <3>2 DEF HangsIn
      <4> QED BY <1>1, <3>2, <4>1
    <3> QED BY <2>1, <3>1, <3>2 DEF Watched
  <2>4. NoTickIsForgotten'
    BY <1>1, <2>1, <2>3 DEF TicksInv, NoTickIsForgotten, PressedIsWatched
  <2> QED BY <1>3, <1>5, <2>1, <2>2, <2>4
<1> QED BY <1>4, <1>5

LEMMA FallSteps ==
    ASSUME TicksInv, NEW s \in Sands, NEW h \in Column, Fall(s, h) \/ FallTooLong(s, h)
    PROVE  TicksInv'
<1>1. /\ FallingTick(s, h) /\ ClearOnly(h)
      /\ \/ falling' = [falling EXCEPT ![s] = h] /\ held' = held
         \/ falling' = [falling EXCEPT ![s] = 0] /\ held' = held + 1
  BY DEF Fall, FallTooLong
<1>2. falling \in [Sands -> Column \cup {0}] /\ held \in Nat /\ crushed \in Nat /\ SandAddsUp
  BY DEF TicksInv, TicksTyped, BlockTicksTypeOK
<1>3. /\ falling' \in [Sands -> Column \cup {0}] /\ held' \in Nat
      /\ \A t \in Sands : t # s => falling'[t] = falling[t]
      /\ (falling'[s] # 0 /\ held' = held) \/ (falling'[s] = 0 /\ held' = held + 1)
  <2>1. h # 0
    BY TicksFacts
  <2>2. CASE falling' = [falling EXCEPT ![s] = h] /\ held' = held
    <3>1. falling' \in [Sands -> Column \cup {0}] /\ falling'[s] = h
      BY <1>2, <2>2
    <3>2. \A t \in Sands : t # s => falling'[t] = falling[t]
      BY <1>2, <2>2
    <3>3. held \in Nat /\ held' = held /\ falling'[s] # 0
      BY <1>2, <2>1, <2>2, <3>1
    <3> QED BY <3>1, <3>2, <3>3
  <2>3. CASE falling' = [falling EXCEPT ![s] = 0] /\ held' = held + 1
    BY <1>2, <2>3
  <2> QED BY <1>1, <2>2, <2>3
<1>4. /\ Grows(scheduled, scheduled') /\ deferred' \in Seq(TickCells) /\ NoTickIsForgotten'
      /\ blockAt' \in [TickCells -> {"air", "sand", "stone", "released", "pressed"}]
      /\ \A d \in TickCells : d # h => blockAt'[d] = blockAt[d]
      /\ blockAt[h] = "sand" => Cardinality(SandIn(blockAt')) = Cardinality(SandIn(blockAt)) - 1
      /\ blockAt[h] # "sand" => Cardinality(SandIn(blockAt')) = Cardinality(SandIn(blockAt))
  BY <1>1, <1>3, ClearKeeps
<1>5. SandAddsUp'
  <2>1. /\ falling[s] # 0 /\ crushed' \in Nat /\ Cardinality(OwnBlocks') \in Nat
        /\ blockAt[h] = "sand" => crushed' + Cardinality(OwnBlocks) = crushed + Cardinality(OwnBlocks') + 1
        /\ blockAt[h] # "sand" => crushed' + Cardinality(OwnBlocks) = crushed + Cardinality(OwnBlocks')
    BY <1>1, FallingTickFacts
  <2>2. /\ falling'[s] = 0 => Cardinality(FallingIn(falling')) = Cardinality(FallingIn(falling)) - 1
        /\ falling'[s] # 0 => Cardinality(FallingIn(falling')) = Cardinality(FallingIn(falling))
    BY <1>3, <2>1, FallingChange
  <2>3. /\ Cardinality(SandIn(blockAt)) \in Nat /\ Cardinality(FallingIn(falling)) \in Nat
        /\ Cardinality(SandIn(blockAt')) \in Nat /\ Cardinality(FallingIn(falling')) \in Nat
    BY FiniteSand
  <2>4. Cardinality(Sands) \in Nat /\ Cardinality(OwnBlocks) \in Nat
    BY TicksFacts
  <2>5. held + Cardinality(SandIn(blockAt)) + Cardinality(FallingIn(falling)) + crushed
          = Cardinality(Sands) + Cardinality(OwnBlocks)
    BY <1>2 DEF SandAddsUp
  <2>6. held' + Cardinality(FallingIn(falling')) = held + Cardinality(FallingIn(falling))
    BY <1>2, <1>3, <2>2, <2>3
  <2>7. Cardinality(SandIn(blockAt')) + crushed' + Cardinality(OwnBlocks)
          = Cardinality(SandIn(blockAt)) + crushed + Cardinality(OwnBlocks')
    <3>1. /\ blockAt[h] = "sand" => Cardinality(SandIn(blockAt')) = Cardinality(SandIn(blockAt)) - 1
          /\ blockAt[h] # "sand" => Cardinality(SandIn(blockAt')) = Cardinality(SandIn(blockAt))
      BY <1>4
    <3>2. CASE blockAt[h] = "sand"
      <4>1. /\ Cardinality(SandIn(blockAt')) = Cardinality(SandIn(blockAt)) - 1
            /\ crushed' + Cardinality(OwnBlocks) = crushed + Cardinality(OwnBlocks') + 1
        BY <2>1, <3>1, <3>2
      <4> QED BY <1>2, <2>1, <2>3, <2>4, <4>1
    <3>3. CASE blockAt[h] # "sand"
      <4>1. /\ Cardinality(SandIn(blockAt')) = Cardinality(SandIn(blockAt))
            /\ crushed' + Cardinality(OwnBlocks) = crushed + Cardinality(OwnBlocks')
        BY <2>1, <3>1, <3>3
      <4> QED BY <1>2, <2>1, <2>3, <2>4, <4>1
    <3> QED BY <3>2, <3>3
  <2>8. held' + Cardinality(SandIn(blockAt')) + Cardinality(FallingIn(falling')) + crushed'
          = Cardinality(Sands) + Cardinality(OwnBlocks')
    BY <1>2, <1>3, <2>1, <2>3, <2>4, <2>5, <2>6, <2>7
  <2> QED BY <2>8 DEF SandAddsUp
<1> QED BY <1>1, <1>3, <1>4, <1>5, FallingTickEnds

(* It becomes a block again, or an item. *)
LEMMA LandStep ==
    ASSUME TicksInv, NEW s \in Sands, NEW h \in Column, Land(s, h)
    PROVE  TicksInv'
<1>1. FallingTick(s, h) /\ OnGround(h) /\ falling' = [falling EXCEPT ![s] = 0]
  BY DEF Land
<1>2. /\ falling \in [Sands -> Column \cup {0}] /\ held \in Nat /\ crushed \in Nat /\ SandAddsUp
      /\ blockAt \in [TickCells -> {"air", "sand", "stone", "released", "pressed"}]
      /\ deferred \in Seq(TickCells) /\ EntriesOf(scheduled) /\ h \in TickCells /\ fresh \subseteq Sands
  BY TicksFacts DEF TicksInv, TicksTyped, BlockTicksTypeOK
<1>3. /\ falling' \in [Sands -> Column \cup {0}] /\ falling'[s] = 0
      /\ \A t \in Sands : t # s => falling'[t] = falling[t]
  BY <1>1, <1>2
<1>4. /\ phase = "entities" /\ fresh' = fresh \ {s} /\ dropped' = dropped
      /\ falling[s] # 0 /\ (s \in fresh => h = falling[s])
      /\ crushed' \in Nat /\ Cardinality(OwnBlocks') \in Nat
      /\ blockAt[h] = "sand" => crushed' + Cardinality(OwnBlocks) = crushed + Cardinality(OwnBlocks') + 1
      /\ blockAt[h] # "sand" => crushed' + Cardinality(OwnBlocks) = crushed + Cardinality(OwnBlocks')
  BY <1>1, FallingTickFacts
<1>5. Cardinality(FallingIn(falling')) = Cardinality(FallingIn(falling)) - 1
  BY <1>3, <1>4, FallingChange
<1>6. /\ Cardinality(SandIn(blockAt)) \in Nat /\ Cardinality(FallingIn(falling)) \in Nat
      /\ Cardinality(Sands) \in Nat /\ Cardinality(OwnBlocks) \in Nat
  BY FiniteSand, TicksFacts
<1>7. held + Cardinality(SandIn(blockAt)) + Cardinality(FallingIn(falling)) + crushed
        = Cardinality(Sands) + Cardinality(OwnBlocks)
  BY <1>2 DEF SandAddsUp
<1>counts. held \in Nat /\ crushed \in Nat /\ crushed' \in Nat /\ Cardinality(OwnBlocks') \in Nat
  BY <1>2, <1>4
\* Whoever waited for its own entity no longer hangs.
<1>8. \A d \in Column : (\E t \in fresh : falling[t] = d) => d = h \/ \E t \in fresh' : falling'[t] = d
  BY <1>2, <1>3, <1>4
<1>9. CASE Cleared(h)[h] = "air"
  <2> DEFINE cleared == blockAt[h] = "sand"
             first == IF cleared THEN Tell(scheduled, Cleared(h), h) ELSE scheduled
             cells == IF cleared THEN <<h, h>> ELSE <<h>>
  <2>1. /\ blockAt' = [blockAt EXCEPT ![h] = "sand"] /\ held' = held
        /\ scheduled' = Tell(first, blockAt', h) /\ deferred' = PutOff(cells)
        /\ blockAt[h] \in {"sand", "air"}
    BY <1>2, <1>9 DEF Land, Cleared
  <2>2. /\ blockAt' \in [TickCells -> {"air", "sand", "stone", "released", "pressed"}]
        /\ blockAt'[h] = "sand" /\ \A d \in TickCells : d # h => blockAt'[d] = blockAt[d]
    BY <1>2, <2>1
  <2>3. /\ deferred' \in Seq(TickCells) /\ (PutsOff => Remembers(deferred', h))
        /\ \A x : Remembers(deferred, x) => Remembers(deferred', x)
    <3>1. cells \in Seq(TickCells) /\ 1 \in DOMAIN cells /\ cells[1] = h
      BY <1>2
    <3> HIDE DEF cells
    <3> QED BY <1>2, <2>1, <3>1, PutOffKeeps
  <2>4. Grows(scheduled, first)
    <3>1. CASE cleared
      <4> DEFINE cl == Cleared(h)
      <4>1. cl = [blockAt EXCEPT ![h] = "air"]
        BY <3>1 DEF Cleared
      <4>2. \A d \in TickCells : d # h => cl[d] = blockAt[d]
        BY <1>2, <4>1
      <4> HIDE DEF cl
      <4>3. Grows(scheduled, Tell(scheduled, cl, h))
        BY <1>2, <2>3, <4>2, TellCovers
      <4> QED BY <3>1, <4>3 DEF cl
    <3>2. CASE ~cleared
      BY <1>2, <3>2 DEF Grows
    <3> QED BY <3>1, <3>2
  <2> HIDE DEF first, cells
  <2>5. /\ Grows(first, scheduled')
        /\ \A d \in Column : HangsIn(blockAt', d) =>
              HangsIn(blockAt, d) \/ IsScheduled(scheduled', d) \/ \E x \in {d - 1, d + 1} : Remembers(deferred', x)
    <3>1. EntriesOf(first) /\ h \in TickCells /\ \A d \in TickCells : d # h => blockAt'[d] = blockAt[d]
      BY <1>2, <2>2, <2>4 DEF Grows
    <3>2. /\ Grows(first, Tell(first, blockAt', h))
          /\ SandCovered(blockAt, blockAt', Tell(first, blockAt', h), deferred')
      BY <2>3, <3>1, TellCovers
    <3>3. Grows(first, scheduled') /\ SandCovered(blockAt, blockAt', scheduled', deferred')
      BY <2>1, <3>2
    <3> QED BY <3>3 DEF SandCovered
  <2>6. Grows(scheduled, scheduled')
    BY <2>4, <2>5, GrowsOn
  <2>7. SandAddsUp'
    <3>1. /\ blockAt[h] = "sand" => Cardinality(SandIn(blockAt')) = Cardinality(SandIn(blockAt))
          /\ blockAt[h] # "sand" => Cardinality(SandIn(blockAt')) = Cardinality(SandIn(blockAt)) + 1
      BY <2>2, SandChange, TicksFacts
    <3>2. held' = held
      BY <2>1
    <3>3. CASE blockAt[h] = "sand"
      <4>1. /\ Cardinality(SandIn(blockAt')) = Cardinality(SandIn(blockAt))
            /\ crushed' + Cardinality(OwnBlocks) = crushed + Cardinality(OwnBlocks') + 1
        BY <1>4, <3>1, <3>3
      <4>2. held' + Cardinality(SandIn(blockAt')) + Cardinality(FallingIn(falling')) + crushed'
              = Cardinality(Sands) + Cardinality(OwnBlocks')
        BY <1>5, <1>6, <1>7, <1>counts, <3>2, <4>1, SMTT(30)
      <4> QED BY <4>2 DEF SandAddsUp
    <3>4. CASE blockAt[h] # "sand"
      <4>1. /\ Cardinality(SandIn(blockAt')) = Cardinality(SandIn(blockAt)) + 1
            /\ crushed' + Cardinality(OwnBlocks) = crushed + Cardinality(OwnBlocks')
        BY <1>4, <3>1, <3>4
      <4>2. held' + Cardinality(SandIn(blockAt')) + Cardinality(FallingIn(falling')) + crushed'
              = Cardinality(Sands) + Cardinality(OwnBlocks')
        BY <1>5, <1>6, <1>7, <1>counts, <3>2, <4>1, SMTT(30)
      <4> QED BY <4>2 DEF SandAddsUp
    <3> QED BY <3>3, <3>4
  <2>8. SandIsWatched'
    <3> SUFFICES ASSUME ~dropped', NEW d \in Column, HangsIn(blockAt', d) PROVE Watched(d)'
      BY WatchedSandNext
    <3>1. d # h
      <4>1. h > 1 => blockAt[h - 1] # "air" /\ h - 1 \in TickCells /\ h - 1 # h
        BY <1>1, BlockTicksAssumption DEF OnGround, Column, TickCells
      <4> QED BY <2>2, <4>1 DEF HangsIn
    <3>2. HangsIn(blockAt, d) \/ Watched(d)'
      BY <2>5 DEF Watched
    <3>3. CASE HangsIn(blockAt, d)
      <4>1. Watched(d)
        BY <1>4, <3>3, WatchedSand DEF TicksInv, NoTickIsForgotten
      <4>2. IsScheduled(scheduled, d) => IsScheduled(scheduled', d)
        BY <2>6 DEF Grows
      <4> QED BY <1>8, <2>3, <3>1, <4>1, <4>2 DEF Watched
    <3> QED BY <3>2, <3>3
  <2>9. PressedIsWatched'
    <3> SUFFICES ASSUME blockAt'[Plate] = "pressed", ~dropped' PROVE IsScheduled(scheduled', Plate)
      BY DEF PressedIsWatched
    <3>1. blockAt[Plate] = "pressed"
      BY <2>2, TicksFacts
    <3> QED BY <1>4, <2>6, <3>1 DEF TicksInv, NoTickIsForgotten, PressedIsWatched, Grows
  <2> QED BY <1>1, <1>2, <1>3, <2>1, <2>2, <2>3, <2>6, <2>7, <2>8, <2>9, FallingTickEnds
          DEF NoTickIsForgotten
<1>10. CASE Cleared(h)[h] # "air"
  <2>1. /\ held' = held + 1 /\ blockAt' = blockAt /\ scheduled' = scheduled /\ deferred' = deferred
        /\ blockAt[h] # "sand"
    BY <1>2, <1>10 DEF Land, Cleared
  <2>2. Grows(scheduled, scheduled')
    BY <1>2, <2>1 DEF Grows
  <2>3. SandAddsUp'
    <3>1. held' + Cardinality(SandIn(blockAt')) + Cardinality(FallingIn(falling')) + crushed'
            = Cardinality(Sands) + Cardinality(OwnBlocks')
      <4>1. held' = held + 1 /\ Cardinality(SandIn(blockAt')) = Cardinality(SandIn(blockAt))
        BY <2>1
      <4>2. crushed' + Cardinality(OwnBlocks) = crushed + Cardinality(OwnBlocks')
        BY <1>4, <2>1
      <4> QED BY <1>5, <1>6, <1>7, <1>counts, <4>1, <4>2
    <3> QED BY <3>1 DEF SandAddsUp
  <2>4. SandIsWatched'
    <3> SUFFICES ASSUME ~dropped', NEW d \in Column, HangsIn(blockAt, d) PROVE Watched(d)'
      BY <2>1, WatchedSandNext
    <3>1. Watched(d) /\ d # h
      BY <1>4, <2>1, WatchedSand DEF TicksInv, NoTickIsForgotten, HangsIn
    <3> QED BY <1>8, <2>1, <3>1 DEF Watched
  <2>5. PressedIsWatched'
    BY <1>4, <2>1 DEF TicksInv, NoTickIsForgotten, PressedIsWatched
  <2>6. held' \in Nat
    BY <1>2, <2>1
  <2> QED BY <1>1, <1>2, <1>3, <2>1, <2>2, <2>3, <2>4, <2>5, <2>6, FallingTickEnds
          DEF NoTickIsForgotten
<1> QED BY <1>9, <1>10

LEMMA TicksNextInv == TicksInv /\ [BlockTicksNext]_blockTickVars => TicksInv'
<1> SUFFICES ASSUME TicksInv, [BlockTicksNext]_blockTickVars PROVE TicksInv'
  OBVIOUS
<1>1. CASE \E c \in Column, kind \in {"sand", "stone"} : PlaceBlock(c, kind)
  BY <1>1, PlaceStep, TicksFacts
<1>2. CASE PlaceBlock(Plate, "released")
  BY <1>2, PlaceStep, TicksFacts
<1>3. CASE \E c \in TickCells : BreakBlock(c)
  BY <1>3, BreakStep
<1>4. CASE ToggleTickFreeze \/ QueueTickSteps \/ LoadOrUnload \/ StartSimulation
             \/ StartEntities \/ EndSimulation
  BY <1>4, ControlSteps
<1>5. CASE ReplayDeferred
  BY <1>5, ReplayStep
<1>6. CASE StartTicks
  BY <1>6, StartTicksStep
<1>7. CASE \E c \in TickCells : DropTick(c) \/ SpawnFalling(c) \/ FallAtOnce(c)
  BY <1>7, DropTickStep, SpawnStep, FallAtOnceStep
<1>8. CASE TickPlate \/ Walk
  BY <1>8, PlateSteps
<1>9. CASE \E s \in Sands, h \in Column : Fall(s, h) \/ Land(s, h) \/ FallTooLong(s, h)
  BY <1>9, FallSteps, LandStep
<1>10. CASE UNCHANGED blockTickVars
  <2>1. /\ UNCHANGED <<blockAt, scheduled, deferred, falling, fresh, bare, held, dropped, crushed>>
        /\ UNCHANGED <<tickFrozen, pendingTickSteps, loaded, trodden, phase, budget, toMove>>
    BY <1>10 DEF blockTickVars
  <2>2. BlockTicksTypeOK' /\ FreshIsBrief' /\ (pendingTickSteps' > 0 => tickFrozen')
    BY <2>1 DEF TicksInv, TicksTyped, BlockTicksTypeOK, FreshIsBrief
  <2> QED BY <2>1, <2>2, IdleStep
<1> QED BY <1>1, <1>2, <1>3, <1>4, <1>5, <1>6, <1>7, <1>8, <1>9, <1>10 DEF BlockTicksNext

LEMMA TicksHold == BlockTicksSpec => []TicksInv
BY InitTicks, TicksNextInv, PTL DEF BlockTicksSpec

\* The blocks that wait, and the sand that falls, are always what they are typed to be; so are the steps
\* queued for frozen ticks, which do not outlive the freeze.
THEOREM TicksTypes == BlockTicksSpec => []BlockTicksTypeOK
<1>1. TicksInv => BlockTicksTypeOK
  BY DEF TicksInv, TicksTyped
<1> QED BY <1>1, TicksHold, PTL

\* Sand that hangs and a plate that is pressed get their tick, whatever is frozen, stepped, put off or
\* over the limit (TickScheduler, SandBlock and PressurePlateBlock).
THEOREM TicksAreKept == BlockTicksSpec => []NoTickIsForgotten
<1>1. TicksInv => NoTickIsForgotten
  BY DEF TicksInv
<1> QED BY <1>1, TicksHold, PTL

\* Between ticks there is as much sand as ever, as blocks, entities and items, but for what falling sand
\* took away that was nobody's own block (EntityFallingBlock::Tick).
THEOREM SandAlwaysKept == BlockTicksSpec => []SandIsKept
<1>1. TicksInv => SandIsKept
  <2> SUFFICES ASSUME TicksInv, phase = "packets"
               PROVE  /\ fresh = {}
                      /\ held + Cardinality({c \in Column : blockAt[c] = "sand"})
                              + Cardinality({s \in Sands : falling[s] # 0})
                              + crushed = Cardinality(Sands)
    BY DEF SandIsKept
  <2>1. fresh = {} /\ OwnBlocks = {}
    BY DEF TicksInv, FreshIsBrief, OwnBlocks
  <2>2. Cardinality(OwnBlocks) = 0 /\ Cardinality(Sands) \in Nat
    BY <2>1, FS_EmptySet, TicksFacts
  <2>3. held + Cardinality(SandIn(blockAt)) + Cardinality(FallingIn(falling)) + crushed = Cardinality(Sands)
    BY <2>2 DEF TicksInv, SandAddsUp
  <2> QED BY <2>1, <2>3 DEF SandIn, FallingIn
<1> QED BY <1>1, TicksHold, PTL

-----------------------------------------------------------------------------
(* The dimension *)

(* A step of the dimension is one of a part, which leaves the others alone. *)
LEMMA WorldParts ==
    WorldSpec => Spec /\ BlockTicksSpec /\ LightSpec /\ EntityTrackingSpec /\ EntityStoreSpec
<1>1. WorldInit => Init /\ BlockTicksInit /\ LightInit /\ EntityTrackingInit /\ EntityStoreInit
  BY DEF WorldInit
<1>2. [WorldNext]_dimensionVars =>
         /\ [Next]_vars /\ [BlockTicksNext]_blockTickVars /\ [LightNext]_lightVars
         /\ [EntityTrackingNext]_trackVars /\ [EntityStoreNext]_storeVars
  BY DEF WorldNext, dimensionVars
<1> QED BY <1>1, <1>2, PTL DEF WorldSpec, Spec, BlockTicksSpec, LightSpec, EntityTrackingSpec, EntityStoreSpec

\* Chunks, waiting blocks, light, viewers and entities are always what they are typed to be, with the
\* bounds on the edits that wait and on the height map.
THEOREM WorldTypes == WorldSpec => []WorldTypeOK
<1>1. StoreInv => EntityStoreTypeOK
  BY DEF StoreInv
<1> QED BY <1>1, WorldParts, PipelineTyped, TicksTypes, LightTyped, TrackingTyped, StoreHolds, PTL DEF WorldTypeOK

\* What holds of the parts of a dimension holds of the dimension.
THEOREM WorldKeeps ==
    WorldSpec => []( /\ NothingIsStuck /\ EditsKept
                     /\ NoTickIsForgotten /\ SandIsKept
                     /\ LightIsRight
                     /\ ViewersAreExact /\ MovesAddUp
                     /\ EachHasItsPlace )
BY WorldParts, NothingStuck, EditsAreKept, TicksAreKept, SandAlwaysKept, LightRight, ViewersStayExact,
   RelativeMovesAddUp, EntitiesInPlace, PTL

=============================================================================
