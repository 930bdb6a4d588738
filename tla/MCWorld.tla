-------------------------------- MODULE MCWorld --------------------------------
(***************************************************************************)
(* A dimension: the life of its chunks (ChunkPipeline), what a block that  *)
(* changes tells its neighbours and when (BlockTicks), the light around it *)
(* (Light), entities that move, are saved with their chunks and come back  *)
(* (EntityStore), and who is shown which entity (EntityTracking).  The     *)
(* modules have no variable in common, so that one run checks them side by *)
(* side: part tells which of them moves in a behaviour.                    *)
(***************************************************************************)
EXTENDS MCChunkPipeline, BlockTicks, Light, EntityTracking, EntityStore

CONSTANTS
    fallenTree,
    Parts,       \* which of the modules take part in a run
    MaxSolid     \* bound: cells that are not air at once

VARIABLE part

dimensionVars == <<part, vars, blockTickVars, lightVars, trackVars, storeVars>>

-----------------------------------------------------------------------------
(* The instances *)

\* The falling tree is updated in every second tick, players in every one.
MCUpdateEvery == [e \in Ids |-> IF e = fallenTree THEN 2 ELSE 1]

MCRangeOf == [e \in Ids |-> 1]

MCOwnerOf == [b \in Bobbers |-> CHOOSE p \in Watchers : TRUE]

\* A slice of the world that is two columns wide.
MCColumns == {1, 2}
MCBeside  == [x \in MCColumns |-> MCColumns \ {x}]
MCAround  == [x \in MCColumns |-> MCColumns]

MCKinds    == {"air", "stone", "water", "lava"}
MCOpacity  == [k \in MCKinds |-> CASE k = "air" -> 0 [] k = "water" -> 2 [] OTHER -> 255]
MCEmission == [k \in MCKinds |-> IF k = "lava" THEN Full ELSE 0]

-----------------------------------------------------------------------------

WorldInit ==
    /\ part \in Parts
    /\ Init /\ BlockTicksInit /\ LightInit /\ EntityTrackingInit /\ EntityStoreInit
    /\ part # "tracking" => \A e \in Ids : at[e] = CHOOSE s \in Spots : TRUE

WorldNext ==
    /\ UNCHANGED part
    /\ \/ part = "chunks" /\ Next /\ UNCHANGED <<blockTickVars, lightVars, trackVars, storeVars>>
       \/ part = "ticks" /\ BlockTicksNext /\ UNCHANGED <<vars, lightVars, trackVars, storeVars>>
       \/ part = "light" /\ LightNext /\ UNCHANGED <<vars, blockTickVars, trackVars, storeVars>>
       \/ part = "tracking" /\ EntityTrackingNext /\ UNCHANGED <<vars, blockTickVars, lightVars, storeVars>>
       \/ part = "store" /\ EntityStoreNext /\ UNCHANGED <<vars, blockTickVars, lightVars, trackVars>>

WorldSpec == WorldInit /\ [][WorldNext]_dimensionVars

-----------------------------------------------------------------------------
(* Properties and bounds *)

\* The types of the five modules; with them the bounds of the waiting edits and of the height map.
WorldTypeOK ==
    TypeOK /\ BlockTicksTypeOK /\ LightTypeOK /\ EntityTrackingTypeOK /\ EntityStoreTypeOK

\* Entries of the two types of light do not touch each other: those of blocks are taken first.
BlockFirst ==
    draining /\ (\E c \in Cells : <<"block", c>> \in lightQueue) =>
        {e \in lightQueue' : e[1] = "sky"} = {e \in lightQueue : e[1] = "sky"}

\* A behaviour is followed until an update is lost in a way the properties excuse, and while little
\* is scheduled and little is not air.
Followed ==
    /\ ~dropped /\ crushed = 0
    /\ Len(scheduled) <= 2 /\ Len(deferred) <= 1
    /\ Cardinality({c \in Cells : cellBlocks[c] # Air}) <= MaxSolid
=============================================================================
