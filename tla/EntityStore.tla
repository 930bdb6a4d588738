----------------------------- MODULE EntityStore -----------------------------
(***************************************************************************)
(* Where an entity lives: in the list and the chunk buckets of             *)
(* EntityManager, or in the record of a chunk that is not loaded.  Chunks  *)
(* are saved as they are changed, dropped when nobody is near, and read    *)
(* again; entities walk from one to the other meanwhile, and die.          *)
(* bpp_shared/entities/entity_manager.cpp with SaveChunks, UpdateLoadRadius*)
(* and DrainLoadQueue of bpp_shared/world/world.cpp.                       *)
(***************************************************************************)
EXTENDS Integers, FiniteSets

CONSTANTS Entities, Places   \* Places: the positions of chunks

ASSUME EntityStoreAssumption == Places # {}

VARIABLES
    living,     \* the entities in EntityManager::entities that are not dead
    bucketPos,  \* the chunk whose bucket holds each of them
    fallen,     \* <<entity, chunk>>: isDead, still in its bucket and in the list
    husks,      \* <<entity, chunk>>: isDead because it was saved; its bucket is gone
    present,    \* the chunks that are loaded
    chunkModified,
    records,    \* the entities in the last save of each chunk
    running,    \* the server runs
    frozen,     \* ticks are frozen
    born,       \* history: the entities that came into the world
    gone,       \* history: those that died
    strayed     \* history: those that were in a chunk that was not loaded when the server stopped

storeVars == <<living, bucketPos, fallen, husks, present, chunkModified, records, running, frozen,
               born, gone, strayed>>

EntityStoreTypeOK ==
    /\ living \subseteq Entities
    /\ bucketPos \in [Entities -> Places]
    /\ fallen \subseteq Entities \X Places /\ husks \subseteq Entities \X Places
    /\ present \subseteq Places /\ chunkModified \subseteq present
    /\ records \in [Places -> SUBSET Entities]
    /\ running \in BOOLEAN /\ frozen \in BOOLEAN
    /\ born \subseteq Entities /\ gone \subseteq born /\ strayed \subseteq born

EntityStoreInit ==
    /\ living = {} /\ fallen = {} /\ husks = {}
    /\ bucketPos = [e \in Entities |-> CHOOSE c \in Places : TRUE]
    /\ present = {} /\ chunkModified = {}
    /\ records = [c \in Places |-> {}]
    /\ running = TRUE /\ frozen = FALSE
    /\ born = {} /\ gone = {} /\ strayed = {}

-----------------------------------------------------------------------------
(* Entities *)

AddNewEntity(e, c) ==
    /\ running
    /\ e \notin born /\ c \in present
    /\ born' = born \cup {e}
    /\ living' = living \cup {e}
    /\ bucketPos' = [bucketPos EXCEPT ![e] = c]
    /\ UNCHANGED <<fallen, husks, present, chunkModified, records, running, frozen, gone, strayed>>

\* A packet or another entity kills it; it stays in the list until the next tick.
Kill(e) ==
    /\ running /\ e \in living
    /\ living' = living \ {e}
    /\ fallen' = fallen \cup {<<e, bucketPos[e]>>}
    /\ gone' = gone \cup {e}
    /\ UNCHANGED <<bucketPos, husks, present, chunkModified, records, running, frozen, born, strayed>>

\* Slip: an entity that walks over the border leaves its old chunk as it was.
LeftUnmodified(e) == {}

\* TickEntityAndPassenger: the chunk an entity leaves has to be saved again.
LeftModified(e) == {bucketPos[e]} \cap present

\* RemoveEntity marks the chunk of each dead entity.
DeathModified == {pair[2] : pair \in fallen \cup husks} \cap present

\* EntityManager::Tick: at most one entity changes its bucket, the dead go.
EntityManagerTick ==
    /\ running /\ ~frozen
    /\ \/ /\ chunkModified' = chunkModified \cup DeathModified
          /\ UNCHANGED bucketPos
       \/ \E e \in living, c \in Places :
              /\ c # bucketPos[e]
              /\ bucketPos' = [bucketPos EXCEPT ![e] = c]
              /\ chunkModified' = chunkModified \cup LeftModified(e) \cup DeathModified
    /\ fallen' = {} /\ husks' = {}
    /\ UNCHANGED <<living, present, records, running, frozen, born, gone, strayed>>

-----------------------------------------------------------------------------
(* Chunks *)

LivingIn(c) == {e \in living : bucketPos[e] = c}

ChunkHasEntities(c) == LivingIn(c) # {} \/ \E pair \in fallen : pair[2] = c

\* SaveChunks, every 40 ticks, with the entities every 600.
SaveChunks ==
    /\ running /\ ~frozen
    /\ \E saveIfEntities \in BOOLEAN :
           LET saved == {c \in present : c \in chunkModified \/ (saveIfEntities /\ ChunkHasEntities(c))}
           IN  /\ saved # {}
               /\ records' = [c \in Places |-> IF c \in saved THEN LivingIn(c) ELSE records[c]]
    /\ chunkModified' = {}
    /\ UNCHANGED <<living, bucketPos, fallen, husks, present, running, frozen, born, gone, strayed>>

\* CollectEntitiesForSave with clearing: what is saved is dead, and the bucket erased.
Collected(chunks) ==
    /\ records' = [c \in Places |-> IF c \in chunks THEN LivingIn(c) ELSE records[c]]
    /\ living' = {e \in living : bucketPos[e] \notin chunks}
    /\ husks' = husks \cup {<<e, bucketPos[e]>> : e \in {x \in living : bucketPos[x] \in chunks}}
                      \cup {pair \in fallen : pair[2] \in chunks}
    /\ fallen' = {pair \in fallen : pair[2] \notin chunks}

\* UpdateLoadRadius: nobody wants the chunk any more; also while ticks are frozen.
DropChunk(c) ==
    /\ running /\ c \in present
    /\ IF c \in chunkModified \/ ChunkHasEntities(c)
       THEN Collected({c})
       ELSE UNCHANGED <<records, living, husks, fallen>>
    /\ present' = present \ {c}
    /\ chunkModified' = chunkModified \ {c}
    /\ UNCHANGED <<bucketPos, running, frozen, born, gone, strayed>>

\* DrainLoadQueue: the entities of the record are made anew.
TakeChunk(c) ==
    /\ running /\ c \notin present
    /\ present' = present \cup {c}
    /\ living' = living \cup records[c]
    /\ bucketPos' = [e \in Entities |-> IF e \in records[c] THEN c ELSE bucketPos[e]]
    /\ UNCHANGED <<fallen, husks, chunkModified, records, running, frozen, born, gone, strayed>>

-----------------------------------------------------------------------------
(* The server *)

ToggleFreeze ==
    /\ running
    /\ frozen' = ~frozen
    /\ UNCHANGED <<living, bucketPos, fallen, husks, present, chunkModified, records, running, born, gone, strayed>>

LastSaved == {c \in present : c \in chunkModified \/ ChunkHasEntities(c)}

\* Shutdown saves what is loaded; the process ends and is started again.
StopWorld ==
    /\ running
    /\ running' = FALSE
    /\ records' = [c \in Places |-> IF c \in LastSaved THEN LivingIn(c) ELSE records[c]]
    /\ strayed' = strayed \cup {e \in living : bucketPos[e] \notin present}
    /\ living' = {} /\ fallen' = {} /\ husks' = {}
    /\ present' = {} /\ chunkModified' = {}
    /\ UNCHANGED <<bucketPos, frozen, born, gone>>

StartWorld ==
    /\ ~running
    /\ running' = TRUE /\ frozen' = FALSE
    /\ UNCHANGED <<living, bucketPos, fallen, husks, present, chunkModified, records, born, gone, strayed>>

EntityStoreNext ==
    \/ \E e \in Entities, c \in Places : AddNewEntity(e, c)
    \/ \E e \in Entities : Kill(e)
    \/ EntityManagerTick \/ SaveChunks
    \/ \E c \in Places : DropChunk(c) \/ TakeChunk(c)
    \/ ToggleFreeze \/ StopWorld \/ StartWorld

EntityStoreSpec == EntityStoreInit /\ [][EntityStoreNext]_storeVars

-----------------------------------------------------------------------------
(* Properties *)

\* The copies of an entity that count: in the world, or in a record that is
\* read when its chunk is loaded next.
Homes(e) == {c \in Places : c \notin present /\ e \in records[c]}

\* An entity that was not killed is in one place, however it walks and whatever
\* is saved, dropped, loaded and shut down in between; unless it stood in a
\* chunk that was not loaded when the server stopped.
OneOfEach ==
    \A e \in born \ (gone \cup strayed) :
        IF e \in living THEN Homes(e) = {} ELSE Cardinality(Homes(e)) = 1

\* What was killed does not come back with a chunk.
DeadStayDead == \A e \in gone : e \notin living /\ Homes(e) = {}

\* The two together: what lives is somewhere, once, and what died is nowhere.
EachHasItsPlace == OneOfEach /\ DeadStayDead

=============================================================================
