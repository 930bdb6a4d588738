----------------------------- MODULE RegionManager -----------------------------
(***************************************************************************)
(* The chunk store of one dimension (bpp_shared/world/storage): the save   *)
(* queue, the two-thread IO pool, the eight-slot cache of open Region      *)
(* objects with its overflow list, and the two mailboxes in which loads    *)
(* answer (outChunks, failedLoads).                                        *)
(*                                                                         *)
(* A Region object is a handle: several objects may be opened on one file  *)
(* over time, and what must never happen is that two of them are alive at  *)
(* once, since each works from its own copy of the file's header.          *)
(*                                                                         *)
(* A chunk's payload is an element of Contents, a header entry is the      *)
(* content it leads to (NoContent when the entry is empty).  The order     *)
(* inside saveQueue and pendingRegions is abstracted to "any order"; the   *)
(* order of the IO pool's queue is kept.                                   *)
(***************************************************************************)
EXTENDS Naturals, Sequences, FiniteSets

CONSTANTS
    Chunks,      \* chunk positions
    Regions,     \* region positions, one file each
    RegionOf,    \* the region a chunk belongs to (cpos >> 5)
    Contents,    \* what a chunk can hold
    NoContent,   \* "no such chunk" in a header, a queue or a mailbox
    Handles,     \* identities of Region objects
    NoRegion,    \* a null shared_ptr<Region>
    NSlots,      \* length of regionCache
    MaxPending,  \* MAX_PENDING_REGIONS
    Workers,     \* threads of iopool
    ReadsMayFail, \* a chunk's bytes may be unreadable
    NoTask       \* an idle thread

Slots == 1..NSlots

OptContents == Contents \cup {NoContent}

\* A lambda given to iopool.detach_task with what it captures.
Tasks == [kind : {"save", "load"}, chunk : Chunks, region : Handles,
          content : OptContents]

ASSUME RegionOfType == RegionOf \in [Chunks -> Regions]
ASSUME NSlotsType == NSlots \in Nat
ASSUME MaxPendingType == MaxPending \in Nat
ASSUME ReadsMayFailType == ReadsMayFail \in BOOLEAN
ASSUME NullsDistinct ==
    /\ NoRegion \notin Handles \cup Regions
    /\ NoContent \notin Contents
    /\ NoTask \notin Tasks

VARIABLES
    regionCache,    \* [Slots -> Handles or NoRegion]
    pendingRegions, \* opened Region objects that found no slot
    rpos,           \* the file a Region object was opened on, NoRegion before
    regionHeader,   \* the header copy of each Region object
    regionFile,     \* the header of each file, by chunk
    regionExists,   \* files present on disk
    saveQueue,      \* snapshot waiting for each chunk, or NoContent
    toSave,         \* PumpPipeline's local batch
    merging,        \* pending regions PumpPipeline has still to try
    pumpPc,         \* where PumpPipeline or FlushAll stands
    flushing,       \* PumpPipeline was called by FlushAll
    ioQueue,        \* tasks waiting in iopool
    ioRunning,      \* the task each thread holds
    outChunks,      \* loaded chunks not yet fetched
    failedLoads     \* positions whose load gave nothing

cacheVars == <<regionCache, pendingRegions, rpos, regionHeader>>
diskVars  == <<regionFile, regionExists>>
pumpVars  == <<toSave, merging, pumpPc, flushing>>
ioVars    == <<ioQueue, ioRunning>>
mailVars  == <<outChunks, failedLoads>>
rmVars    == <<cacheVars, diskVars, saveQueue, pumpVars, ioVars, mailVars>>

RegionManagerTypeOK ==
    /\ regionCache \in [Slots -> Handles \cup {NoRegion}]
    /\ pendingRegions \subseteq Handles
    /\ rpos \in [Handles -> Regions \cup {NoRegion}]
    /\ regionHeader \in [Handles -> [Chunks -> OptContents]]
    /\ regionFile \in [Chunks -> OptContents]
    /\ regionExists \subseteq Regions
    /\ saveQueue \in [Chunks -> OptContents]
    /\ toSave \in [Chunks -> OptContents]
    /\ merging \subseteq pendingRegions
    /\ pumpPc \in {"idle", "save", "merge", "wait", "flushed"}
    /\ pumpPc # "save" => toSave = [c \in Chunks |-> NoContent]
    /\ pumpPc # "merge" => merging = {}
    /\ flushing \in BOOLEAN
    /\ ioQueue \in Seq(Tasks)
    /\ ioRunning \in [Workers -> Tasks \cup {NoTask}]
    /\ outChunks \in [Chunks -> OptContents]
    /\ failedLoads \subseteq Chunks

-----------------------------------------------------------------------------
(* References to Region objects.                                           *)

Cached == {regionCache[i] : i \in Slots} \ {NoRegion}

TasksInFlight ==
    {ioQueue[i] : i \in 1..Len(ioQueue)}
        \cup {ioRunning[w] : w \in {v \in Workers : ioRunning[v] # NoTask}}

\* Every detached task captures the shared_ptr it works with.
Held == {t.region : t \in TasksInFlight}

Live == Cached \cup pendingRegions \cup Held

\* Slip: the references held by the IO threads' tasks are forgotten.
UseCountIgnoresTasks(i) ==
    /\ regionCache[i] \notin pendingRegions
    /\ \A j \in Slots \ {i} : regionCache[j] # regionCache[i]

\* regionCache[i].use_count() == 1: no task, no pending entry, no other slot.
UseCountIsOne(i) ==
    /\ regionCache[i] \notin Held \cup pendingRegions
    /\ \A j \in Slots \ {i} : regionCache[j] # regionCache[i]

SlotUsable(i) == regionCache[i] = NoRegion \/ UseCountIsOne(i)

\* TryMergePendingRegion takes the first slot that is empty or idle.
FirstUsable(i) == SlotUsable(i) /\ \A j \in 1..(i - 1) : ~SlotUsable(j)

\* Slip: the regions awaiting a merge are not looked through.
OpenRegionsInCache(r) == {h \in Cached : rpos[h] = r}

\* What LoadRegion finds already open, in the cache or awaiting a merge.
OpenRegions(r) == {h \in Cached \cup pendingRegions : rpos[h] = r}

\* make_shared<Region>: a new object that reads the header of its file.
OpenFile(h, r) ==
    /\ h \in Handles \ Live
    /\ rpos' = [rpos EXCEPT ![h] = r]
    /\ regionHeader' = [regionHeader EXCEPT ![h] =
            [c \in Chunks |-> IF RegionOf[c] = r THEN regionFile[c] ELSE NoContent]]

LoadRegionOpen(r, result) ==
    /\ result \in OpenRegions(r)
    /\ UNCHANGED <<cacheVars, regionExists>>

LoadRegionIntoSlot(r, result) ==
    /\ OpenRegions(r) = {}
    /\ result \in Handles
    /\ OpenFile(result, r)
    /\ \E i \in Slots : /\ FirstUsable(i)
                        /\ regionCache' = [regionCache EXCEPT ![i] = result]
    /\ regionExists' = regionExists \cup {r}
    /\ UNCHANGED pendingRegions

\* Every slot is busy: the object goes to the overflow list, or is dropped
\* when that list is full, and the caller gets a null pointer either way.
LoadRegionNoSlot(r, result) ==
    /\ OpenRegions(r) = {}
    /\ \A i \in Slots : ~SlotUsable(i)
    /\ result = NoRegion
    /\ regionExists' = regionExists \cup {r}
    /\ UNCHANGED regionCache
    /\ IF Cardinality(pendingRegions) < MaxPending
       THEN \E h \in Handles : /\ OpenFile(h, r)
                               /\ pendingRegions' = pendingRegions \cup {h}
       ELSE UNCHANGED <<pendingRegions, rpos, regionHeader>>

LoadRegion(r, result) ==
    \/ LoadRegionOpen(r, result)
    \/ LoadRegionIntoSlot(r, result)
    \/ LoadRegionNoSlot(r, result)

-----------------------------------------------------------------------------
(* Operations the world's tick calls, all on the server's main thread.     *)

RegionManagerInit ==
    /\ regionCache = [i \in Slots |-> NoRegion]
    /\ pendingRegions = {}
    /\ rpos = [h \in Handles |-> NoRegion]
    /\ regionHeader = [h \in Handles |-> [c \in Chunks |-> NoContent]]
    /\ regionFile = [c \in Chunks |-> NoContent]
    /\ regionExists = {}
    /\ saveQueue = [c \in Chunks |-> NoContent]
    /\ toSave = [c \in Chunks |-> NoContent]
    /\ merging = {}
    /\ pumpPc = "idle"
    /\ flushing = FALSE
    /\ ioQueue = <<>>
    /\ ioRunning = [w \in Workers |-> NoTask]
    /\ outChunks = [c \in Chunks |-> NoContent]
    /\ failedLoads = {}

\* The snapshot replaces one still queued for the same chunk, and a result
\* of an older load is dropped.
SaveChunk(c, content) ==
    /\ outChunks' = [outChunks EXCEPT ![c] = NoContent]
    /\ saveQueue' = [saveQueue EXCEPT ![c] = content]
    /\ UNCHANGED <<cacheVars, diskVars, pumpVars, ioVars, failedLoads>>

Detach(kind, c, region, content) ==
    ioQueue' = Append(ioQueue, [kind |-> kind, chunk |-> c,
                                region |-> region, content |-> content])

LoadChunk(c) ==
    /\ \/ /\ RegionOf[c] \notin regionExists
          /\ failedLoads' = failedLoads \cup {c}
          /\ UNCHANGED <<cacheVars, regionExists, ioQueue>>
       \/ /\ RegionOf[c] \in regionExists
          /\ \/ /\ LoadRegion(RegionOf[c], NoRegion)
                /\ failedLoads' = failedLoads \cup {c}
                /\ UNCHANGED ioQueue
             \/ \E h \in Handles : /\ LoadRegion(RegionOf[c], h)
                                   /\ Detach("load", c, h, NoContent)
                                   /\ UNCHANGED failedLoads
    /\ UNCHANGED <<regionFile, saveQueue, pumpVars, ioRunning, outChunks>>

\* answer is what ChunkExists returns; the header is read without the mutex.
ChunkExists(c, answer) ==
    /\ \/ /\ RegionOf[c] \notin regionExists
          /\ ~answer
          /\ UNCHANGED <<cacheVars, regionExists>>
       \/ /\ RegionOf[c] \in regionExists
          /\ \/ LoadRegion(RegionOf[c], NoRegion) /\ ~answer
             \/ \E h \in Handles : /\ LoadRegion(RegionOf[c], h)
                                   /\ answer = (regionHeader'[h][c] # NoContent)
    /\ UNCHANGED <<regionFile, saveQueue, pumpVars, ioVars, mailVars>>

\* GetChunk on a position whose result has arrived: the caller takes it.
GetChunk(c) ==
    /\ outChunks[c] # NoContent
    /\ outChunks' = [outChunks EXCEPT ![c] = NoContent]
    /\ UNCHANGED <<cacheVars, diskVars, saveQueue, pumpVars, ioVars, failedLoads>>

TakeFailedLoads ==
    /\ failedLoads' = {}
    /\ UNCHANGED <<cacheVars, diskVars, saveQueue, pumpVars, ioVars, outChunks>>

DiscardChunk(c) ==
    /\ outChunks' = [outChunks EXCEPT ![c] = NoContent]
    /\ failedLoads' = failedLoads \ {c}
    /\ UNCHANGED <<cacheVars, diskVars, saveQueue, pumpVars, ioVars>>

-----------------------------------------------------------------------------
(* PumpPipeline, one loop iteration a step: the IO threads run meanwhile.  *)

\* PumpPipeline on its own, or as the first statement of FlushAll.
PumpBegin(flush) ==
    /\ pumpPc = "idle"
    /\ pumpPc' = "save"
    /\ flushing' = flush
    /\ toSave' = saveQueue
    /\ saveQueue' = [c \in Chunks |-> NoContent]
    /\ UNCHANGED <<cacheVars, diskVars, merging, ioVars, mailVars>>

\* A null region sends the snapshot back to saveQueue.
PumpSave(c) ==
    /\ pumpPc = "save"
    /\ toSave[c] # NoContent
    /\ toSave' = [toSave EXCEPT ![c] = NoContent]
    /\ \/ /\ LoadRegion(RegionOf[c], NoRegion)
          /\ saveQueue' = [saveQueue EXCEPT ![c] = toSave[c]]
          /\ UNCHANGED ioQueue
       \/ \E h \in Handles : /\ LoadRegion(RegionOf[c], h)
                             /\ Detach("save", c, h, toSave[c])
                             /\ UNCHANGED saveQueue
    /\ UNCHANGED <<regionFile, merging, pumpPc, flushing, ioRunning, mailVars>>

PumpSaved ==
    /\ pumpPc = "save"
    /\ \A c \in Chunks : toSave[c] = NoContent
    /\ pumpPc' = "merge"
    /\ merging' = pendingRegions
    /\ UNCHANGED <<cacheVars, diskVars, saveQueue, toSave, flushing, ioVars, mailVars>>

\* TryMergePendingRegion: TRUE when it is cached already or a slot took it.
PumpMerge(h) ==
    /\ pumpPc = "merge"
    /\ h \in merging
    /\ merging' = merging \ {h}
    /\ \/ /\ \E g \in Cached : rpos[g] = rpos[h]
          /\ pendingRegions' = pendingRegions \ {h}
          /\ UNCHANGED regionCache
       \/ /\ \A g \in Cached : rpos[g] # rpos[h]
          /\ \E i \in Slots : /\ FirstUsable(i)
                              /\ regionCache' = [regionCache EXCEPT ![i] = h]
          /\ pendingRegions' = pendingRegions \ {h}
       \/ /\ \A g \in Cached : rpos[g] # rpos[h]
          /\ \A i \in Slots : ~SlotUsable(i)
          /\ UNCHANGED <<regionCache, pendingRegions>>
    /\ UNCHANGED <<rpos, regionHeader, diskVars, saveQueue, toSave, pumpPc,
                   flushing, ioVars, mailVars>>

\* Slip: the merge loop is left before its end.
PumpEndEarly ==
    /\ pumpPc = "merge"
    /\ pumpPc' = IF flushing THEN "wait" ELSE "idle"
    /\ UNCHANGED <<cacheVars, diskVars, saveQueue, toSave, merging, flushing,
                   ioVars, mailVars>>

PumpEnd ==
    /\ pumpPc = "merge"
    /\ merging = {}
    /\ pumpPc' = IF flushing THEN "wait" ELSE "idle"
    /\ UNCHANGED <<cacheVars, diskVars, saveQueue, toSave, merging, flushing,
                   ioVars, mailVars>>

IoIdle == ioQueue = <<>> /\ \A w \in Workers : ioRunning[w] = NoTask

\* iopool.wait(), the second statement of FlushAll.
FlushWait ==
    /\ pumpPc = "wait"
    /\ IoIdle
    /\ pumpPc' = "flushed"
    /\ UNCHANGED <<cacheVars, diskVars, saveQueue, toSave, merging, flushing,
                   ioVars, mailVars>>

FlushReturn ==
    /\ pumpPc = "flushed"
    /\ pumpPc' = "idle"
    /\ UNCHANGED <<cacheVars, diskVars, saveQueue, toSave, merging, flushing,
                   ioVars, mailVars>>

\* What Release does once its FlushAll returned; the files stay, and the next
\* server run starts from them.
Release ==
    /\ pumpPc = "flushed"
    /\ pumpPc' = "idle"
    /\ regionCache' = [i \in Slots |-> NoRegion]
    /\ pendingRegions' = {}
    /\ outChunks' = [c \in Chunks |-> NoContent]
    /\ failedLoads' = {}
    /\ saveQueue' = [c \in Chunks |-> NoContent]
    /\ UNCHANGED <<rpos, regionHeader, diskVars, toSave, merging, flushing, ioVars>>

-----------------------------------------------------------------------------
(* The IO threads.                                                         *)

IoTake(w) ==
    /\ ioRunning[w] = NoTask
    /\ ioQueue # <<>>
    /\ ioRunning' = [ioRunning EXCEPT ![w] = Head(ioQueue)]
    /\ ioQueue' = Tail(ioQueue)
    /\ UNCHANGED <<cacheVars, diskVars, saveQueue, pumpVars, mailVars>>

\* Region::AddChunk, under the object's mutex: it works from the object's
\* header copy and writes the entry to the copy and to the file.
IoSave(w) ==
    /\ ioRunning[w] # NoTask
    /\ ioRunning[w].kind = "save"
    /\ LET t == ioRunning[w]
       IN  /\ regionHeader' = [regionHeader EXCEPT ![t.region][t.chunk] = t.content]
           /\ regionFile' = [regionFile EXCEPT ![t.chunk] = t.content]
    /\ ioRunning' = [ioRunning EXCEPT ![w] = NoTask]
    /\ UNCHANGED <<regionCache, pendingRegions, rpos, regionExists, saveQueue,
                   pumpVars, ioQueue, mailVars>>

\* Region::GetChunk, under the same mutex, and the answer to the mailboxes.  An
\* entry may lead to bytes that are no chunk.
IoLoad(w) ==
    /\ ioRunning[w] # NoTask
    /\ ioRunning[w].kind = "load"
    /\ LET t == ioRunning[w]
           found == regionHeader[t.region][t.chunk]
       IN  \/ /\ found # NoContent
              /\ outChunks' = [outChunks EXCEPT ![t.chunk] = found]
              /\ UNCHANGED failedLoads
           \/ /\ found = NoContent \/ ReadsMayFail
              /\ failedLoads' = failedLoads \cup {t.chunk}
              /\ UNCHANGED outChunks
    /\ ioRunning' = [ioRunning EXCEPT ![w] = NoTask]
    /\ UNCHANGED <<cacheVars, diskVars, saveQueue, pumpVars, ioQueue>>

IoThreads == \E w \in Workers : IoTake(w) \/ IoSave(w) \/ IoLoad(w)

PumpStep ==
    \/ \E c \in Chunks : PumpSave(c)
    \/ PumpSaved
    \/ \E h \in Handles : PumpMerge(h)
    \/ PumpEnd
    \/ FlushWait

-----------------------------------------------------------------------------
(* The store under a caller that may call anything at any time.            *)

\* The caller is the main thread: it is inside one operation at a time.
Call ==
    /\ pumpPc = "idle"
    /\ \E c \in Chunks :
        \/ \E content \in Contents : SaveChunk(c, content)
        \/ LoadChunk(c)
        \/ \E answer \in BOOLEAN : ChunkExists(c, answer)
        \/ GetChunk(c)
        \/ DiscardChunk(c)

StoreNext ==
    \/ Call
    \/ pumpPc = "idle" /\ TakeFailedLoads
    \/ \E flush \in BOOLEAN : PumpBegin(flush)
    \/ PumpStep
    \/ FlushReturn
    \/ Release
    \/ IoThreads

StoreSpec == RegionManagerInit /\ [][StoreNext]_rmVars

-----------------------------------------------------------------------------
(* Properties.                                                             *)

(* Two Region objects that can still be used never stand for the same file:
   LoadRegion finds the one in the cache or on the overflow list, and a slot
   whose object a task still holds is not reused (region_manager.cpp,
   LoadRegion and TryMergePendingRegion). *)
OneRegionPerFile ==
    \A g, h \in Live : rpos[g] = rpos[h] => g = h

(* The header copy a usable Region object allocates sectors from is the header
   of its file: a stale copy would overwrite the sectors of another chunk
   (region.cpp, AddChunk). *)
HeaderCoherent ==
    \A h \in Live : \A c \in Chunks :
        RegionOf[c] = rpos[h] => regionHeader[h][c] = regionFile[c]

(* FlushAll returns with nothing left to save, as region_manager.h:73 says:
   "Flush all pending saves synchronously". *)
FlushAllFlushes ==
    pumpPc = "flushed" => \A c \in Chunks : saveQueue[c] = NoContent

=============================================================================
