-------------------------- MODULE RegionManagerProofs --------------------------
(***************************************************************************)
(* Proofs about RegionManager: its type invariant, and that every usable   *)
(* Region object is the only one on its file and has the file's header.    *)
(*                                                                         *)
(* Neither fact is inductive alone.  A slot is reused when no task holds   *)
(* its object, and a file is opened when no slot and no pending entry has  *)
(* it; so what makes the two tests together sufficient is that every       *)
(* object a task holds is still in a slot or on the overflow list, where   *)
(* LoadRegion finds it (HeldAreOpen).  A save keeps the headers coherent   *)
(* only because its task works on the object of its chunk's own region     *)
(* (TasksOnOwnRegion).  Release may drop every object because FlushAll     *)
(* waited for the IO threads (FlushedIsIdle).                              *)
(*                                                                         *)
(* No object is in two places (OnePlaceEach), so with a slot for every     *)
(* region (RegionsFit) one is free or holds the region asked for: nothing  *)
(* is refused, and a flush leaves nothing to save (PumpEmpties).           *)
(***************************************************************************)
EXTENDS RegionManager, FiniteSetTheorems, TLAPS

OpenSet == Cached \cup pendingRegions

HeldAreOpen == \A t \in TasksInFlight : t.region \in OpenSet

TasksOnOwnRegion == \A t \in TasksInFlight : rpos[t.region] = RegionOf[t.chunk]

OneOpenPerFile == \A g, h \in OpenSet : rpos[g] = rpos[h] => g = h

OpenCoherent ==
    \A h \in OpenSet : \A c \in Chunks :
        RegionOf[c] = rpos[h] => regionHeader[h][c] = regionFile[c]

RegionInv ==
    /\ HeldAreOpen
    /\ TasksOnOwnRegion
    /\ OneOpenPerFile
    /\ OpenCoherent

\* iopool.wait() has returned and nobody detached a task since.
FlushedIsIdle == pumpPc = "flushed" => TasksInFlight = {}

IInv == RegionManagerTypeOK /\ RegionInv /\ FlushedIsIdle

\* No object is in two places, and each was opened on a file.
OnePlaceEach ==
    /\ \A i, j \in Slots : regionCache[i] = regionCache[j] /\ regionCache[i] # NoRegion => i = j
    /\ Cached \cap pendingRegions = {}
    /\ \A h \in OpenSet : rpos[h] \in Regions

\* What is open, and what has a chunk, is a file that exists.
FilesExist ==
    /\ \A h \in OpenSet : rpos[h] \in regionExists
    /\ \A c \in Chunks : regionFile[c] # NoContent => RegionOf[c] \in regionExists

\* There is a slot for every region there is.
RegionsFit == IsFiniteSet(Regions) /\ Cardinality(Regions) <= NSlots

\* Nothing comes back to the queue of a pump that refuses nothing.
PumpEmpties == pumpPc # "idle" => \A c \in Chunks : saveQueue[c] = NoContent

-----------------------------------------------------------------------------
(* Tasks in flight.                                                        *)

(* A queue or a thread holds only well-formed tasks. *)
LEMMA TasksInFlightType ==
    ASSUME RegionManagerTypeOK
    PROVE  TasksInFlight \subseteq Tasks
BY DEF RegionManagerTypeOK, TasksInFlight

(* detach_task adds the one task it is given. *)
LEMMA DetachTasks ==
    ASSUME RegionManagerTypeOK, NEW t \in Tasks,
           ioQueue' = Append(ioQueue, t), ioRunning' = ioRunning
    PROVE  /\ TasksInFlight' = TasksInFlight \cup {t}
           /\ ioQueue' \in Seq(Tasks)
<1>1. /\ ioQueue' \in Seq(Tasks)
      /\ Len(ioQueue') = Len(ioQueue) + 1
      /\ \A i \in 1..Len(ioQueue) : ioQueue'[i] = ioQueue[i]
      /\ ioQueue'[Len(ioQueue) + 1] = t
      /\ Len(ioQueue) \in Nat
  BY DEF RegionManagerTypeOK
<1>2. {ioQueue'[i] : i \in 1..Len(ioQueue')}
        = {ioQueue[i] : i \in 1..Len(ioQueue)} \cup {t}
  <2>1. 1..Len(ioQueue') = 1..Len(ioQueue) \cup {Len(ioQueue) + 1}
    BY <1>1
  <2> QED BY <1>1, <2>1
<1> QED BY <1>1, <1>2 DEF TasksInFlight

(* Taking a task from the queue moves it; nothing new is held. *)
LEMMA TakeTasks ==
    ASSUME RegionManagerTypeOK, NEW w \in Workers, IoTake(w)
    PROVE  /\ TasksInFlight' \subseteq TasksInFlight
           /\ ioQueue' \in Seq(Tasks)
           /\ ioRunning' \in [Workers -> Tasks \cup {NoTask}]
<1>1. /\ ioQueue \in Seq(Tasks)
      /\ ioQueue # <<>>
      /\ ioQueue' = Tail(ioQueue)
      /\ ioRunning' = [ioRunning EXCEPT ![w] = Head(ioQueue)]
      /\ ioRunning \in [Workers -> Tasks \cup {NoTask}]
  BY DEF RegionManagerTypeOK, IoTake
<1>2. /\ ioQueue' \in Seq(Tasks)
      /\ Len(ioQueue) \in Nat \ {0}
      /\ Len(ioQueue') = Len(ioQueue) - 1
      /\ \A i \in 1..Len(ioQueue') : ioQueue'[i] = ioQueue[i + 1]
      /\ Head(ioQueue) = ioQueue[1]
      /\ Head(ioQueue) \in Tasks
  BY <1>1
<1>3. {ioQueue'[i] : i \in 1..Len(ioQueue')} \subseteq TasksInFlight
  BY <1>2 DEF TasksInFlight
<1>4. ASSUME NEW v \in Workers, ioRunning'[v] # NoTask
      PROVE  ioRunning'[v] \in TasksInFlight
  <2>1. CASE v = w
    BY <2>1, <1>1, <1>2 DEF TasksInFlight
  <2>2. CASE v # w
    BY <2>2, <1>1, <1>4 DEF TasksInFlight
  <2> QED BY <2>1, <2>2
<1>5. ioRunning' \in [Workers -> Tasks \cup {NoTask}]
  BY <1>1, <1>2
<1> QED BY <1>2, <1>3, <1>4, <1>5 DEF TasksInFlight

(* A thread that finished holds nothing. *)
LEMMA DropTasks ==
    ASSUME RegionManagerTypeOK, NEW w \in Workers, ioQueue' = ioQueue,
           ioRunning' = [ioRunning EXCEPT ![w] = NoTask]
    PROVE  /\ TasksInFlight' \subseteq TasksInFlight
           /\ ioRunning' \in [Workers -> Tasks \cup {NoTask}]
BY DEF RegionManagerTypeOK, TasksInFlight

-----------------------------------------------------------------------------
(* LoadRegion, whatever it decides.                                        *)

(* An object that tasks hold, or that awaits a merge, is in no slot that
   TryMergePendingRegion may reuse. *)
LEMMA ReusedSlot ==
    ASSUME RegionManagerTypeOK, NEW i \in Slots, SlotUsable(i),
           NEW g \in Handles, regionCache' = [regionCache EXCEPT ![i] = g],
           NEW h \in Cached, h \in Held \cup pendingRegions \/ h # regionCache[i]
    PROVE  h \in Cached'
<1>1. PICK j \in Slots : regionCache[j] = h /\ h # NoRegion
  BY DEF Cached
<1>2. j # i
  BY <1>1 DEF SlotUsable, UseCountIsOne
<1>3. regionCache'[j] = h
  BY <1>1, <1>2 DEF RegionManagerTypeOK
<1> QED BY <1>1, <1>3 DEF Cached

(* What a reused slot holds afterwards. *)
LEMMA SlotTaken ==
    ASSUME RegionManagerTypeOK, NEW i \in Slots, NEW g \in Handles,
           regionCache' = [regionCache EXCEPT ![i] = g]
    PROVE  /\ regionCache' \in [Slots -> Handles \cup {NoRegion}]
           /\ g \in Cached'
           /\ Cached' \subseteq Cached \cup {g}
BY NullsDistinct DEF RegionManagerTypeOK, Cached

(* LoadRegion keeps the invariant, loses no object a task holds, and answers
   with an open object on the region asked for. *)
LEMMA LoadRegionInv ==
    ASSUME RegionManagerTypeOK, RegionInv,
           NEW r \in Regions, NEW result \in Handles \cup {NoRegion},
           LoadRegion(r, result), UNCHANGED regionFile
    PROVE  /\ regionCache' \in [Slots -> Handles \cup {NoRegion}]
           /\ pendingRegions \subseteq pendingRegions'
           /\ pendingRegions' \subseteq Handles
           /\ rpos' \in [Handles -> Regions \cup {NoRegion}]
           /\ regionHeader' \in [Handles -> [Chunks -> OptContents]]
           /\ regionExists' \subseteq Regions
           /\ \A t \in TasksInFlight : /\ t.region \in OpenSet'
                                       /\ rpos'[t.region] = RegionOf[t.chunk]
           /\ OneOpenPerFile'
           /\ OpenCoherent'
           /\ result # NoRegion => result \in OpenSet' /\ rpos'[result] = r
<1> USE DEF OpenSet
<1>0. OpenSet \subseteq Handles
  BY DEF RegionManagerTypeOK, Cached
<1>1. CASE LoadRegionOpen(r, result)
  BY <1>1 DEF LoadRegionOpen, OpenRegions, RegionManagerTypeOK, RegionInv,
       HeldAreOpen, TasksOnOwnRegion, OneOpenPerFile, OpenCoherent, Cached, cacheVars
\* Both remaining outcomes that open a file open a fresh object on it.
<1>2. ASSUME NEW h \in Handles, OpenFile(h, r), OpenRegions(r) = {},
             OpenSet' \subseteq OpenSet \cup {h}
      PROVE  /\ rpos' \in [Handles -> Regions \cup {NoRegion}]
             /\ regionHeader' \in [Handles -> [Chunks -> OptContents]]
             /\ rpos'[h] = r
             /\ \A t \in TasksInFlight : rpos'[t.region] = RegionOf[t.chunk]
             /\ OneOpenPerFile'
             /\ OpenCoherent'
  <2>1. /\ h \notin OpenSet
        /\ h \notin Held
        /\ rpos' = [rpos EXCEPT ![h] = r]
        /\ regionHeader' = [regionHeader EXCEPT ![h] =
              [c \in Chunks |-> IF RegionOf[c] = r THEN regionFile[c] ELSE NoContent]]
    BY <1>2 DEF OpenFile, Live
  <2>2. /\ rpos' \in [Handles -> Regions \cup {NoRegion}]
        /\ rpos'[h] = r
        /\ \A g \in Handles \ {h} : rpos'[g] = rpos[g]
    BY <2>1 DEF RegionManagerTypeOK
  <2>3. /\ regionHeader' \in [Handles -> [Chunks -> OptContents]]
        /\ \A c \in Chunks : RegionOf[c] = r => regionHeader'[h][c] = regionFile[c]
        /\ \A g \in Handles \ {h} : regionHeader'[g] = regionHeader[g]
    <3>1. [c \in Chunks |-> IF RegionOf[c] = r THEN regionFile[c] ELSE NoContent]
             \in [Chunks -> OptContents]
      BY DEF RegionManagerTypeOK, OptContents
    <3> QED BY <2>1, <3>1 DEF RegionManagerTypeOK
  <2>4. \A t \in TasksInFlight : rpos'[t.region] = RegionOf[t.chunk]
    BY <1>0, <2>1, <2>2 DEF RegionInv, TasksOnOwnRegion, HeldAreOpen, Held
  <2>5. \A g \in OpenSet : rpos[g] # r
    BY <1>2 DEF OpenRegions
  <2>6. OneOpenPerFile'
    BY <1>0, <1>2, <2>1, <2>2, <2>5 DEF RegionInv, OneOpenPerFile
  <2>7. OpenCoherent'
    BY <1>0, <1>2, <2>1, <2>2, <2>3 DEF RegionInv, OpenCoherent
  <2> QED BY <2>2, <2>3, <2>4, <2>6, <2>7
<1>3. CASE LoadRegionIntoSlot(r, result)
  <2>1. PICK i \in Slots : /\ SlotUsable(i)
                           /\ regionCache' = [regionCache EXCEPT ![i] = result]
    BY <1>3 DEF LoadRegionIntoSlot, FirstUsable
  <2>2. /\ result \in Handles
        /\ OpenRegions(r) = {}
        /\ OpenFile(result, r)
        /\ pendingRegions' = pendingRegions
        /\ regionExists' \subseteq Regions
    BY <1>3 DEF LoadRegionIntoSlot, RegionManagerTypeOK
  <2>3. /\ regionCache' \in [Slots -> Handles \cup {NoRegion}]
        /\ result \in Cached'
        /\ Cached' \subseteq Cached \cup {result}
    BY <2>1, <2>2, SlotTaken
  <2>4. \A t \in TasksInFlight : t.region \in OpenSet'
    <3> SUFFICES ASSUME NEW t \in TasksInFlight, t.region \in Cached
                 PROVE  t.region \in Cached'
      BY <2>2 DEF RegionInv, HeldAreOpen
    <3>1. t.region \in Held
      BY DEF Held
    <3> QED BY <2>1, <2>2, <3>1, ReusedSlot
  <2>5. OpenSet' \subseteq OpenSet \cup {result}
    BY <2>2, <2>3
  <2> QED BY <1>2, <2>2, <2>3, <2>4, <2>5 DEF RegionManagerTypeOK
<1>4. CASE LoadRegionNoSlot(r, result)
  <2>1. /\ result = NoRegion
        /\ OpenRegions(r) = {}
        /\ regionCache' = regionCache
        /\ Cached' = Cached
        /\ regionExists' \subseteq Regions
    BY <1>4 DEF LoadRegionNoSlot, RegionManagerTypeOK, Cached
  <2>2. CASE \E h \in Handles : /\ OpenFile(h, r)
                                /\ pendingRegions' = pendingRegions \cup {h}
    <3>1. PICK h \in Handles : /\ OpenFile(h, r)
                               /\ pendingRegions' = pendingRegions \cup {h}
      BY <2>2
    <3>2. OpenSet' \subseteq OpenSet \cup {h}
      BY <2>1, <3>1
    <3>3. \A t \in TasksInFlight : t.region \in OpenSet'
      BY <2>1, <3>1 DEF RegionInv, HeldAreOpen
    <3> QED BY <1>2, <2>1, <3>1, <3>2, <3>3 DEF RegionManagerTypeOK
  <2>3. CASE UNCHANGED <<pendingRegions, rpos, regionHeader>>
    BY <2>1, <2>3 DEF RegionManagerTypeOK, RegionInv, HeldAreOpen,
         TasksOnOwnRegion, OneOpenPerFile, OpenCoherent
  <2> QED BY <1>4, <2>2, <2>3 DEF LoadRegionNoSlot
<1> QED BY <1>1, <1>3, <1>4 DEF LoadRegion

-----------------------------------------------------------------------------
(* What a step that calls LoadRegion, or touches no Region object, keeps.   *)

(* The invariant depends on tasks only through what they hold. *)
LEMMA CacheUntouched ==
    ASSUME RegionInv, TasksInFlight' \subseteq TasksInFlight,
           UNCHANGED <<cacheVars, regionFile>>
    PROVE  RegionInv'
<1>1. Cached' = Cached /\ OpenSet' = OpenSet
  BY DEF Cached, OpenSet, cacheVars
<1> QED BY <1>1 DEF RegionInv, HeldAreOpen, TasksOnOwnRegion, OneOpenPerFile,
         OpenCoherent, cacheVars

(* LoadRegion followed by no task: a refusal, or ChunkExists. *)
LEMMA LoadRegionOnly ==
    ASSUME RegionManagerTypeOK, RegionInv,
           NEW r \in Regions, NEW result \in Handles \cup {NoRegion},
           LoadRegion(r, result), UNCHANGED <<regionFile, ioVars>>
    PROVE  RegionInv'
<1>1. TasksInFlight' = TasksInFlight
  BY DEF TasksInFlight, ioVars
<1> QED BY <1>1, LoadRegionInv DEF RegionInv, HeldAreOpen, TasksOnOwnRegion

(* LoadRegion followed by a task on the object it found. *)
LEMMA LoadRegionThenDetach ==
    ASSUME RegionManagerTypeOK, RegionInv,
           NEW c \in Chunks, NEW h \in Handles, NEW kind \in {"save", "load"},
           NEW content \in OptContents,
           LoadRegion(RegionOf[c], h), Detach(kind, c, h, content),
           UNCHANGED <<regionFile, ioRunning>>
    PROVE  RegionInv' /\ ioQueue' \in Seq(Tasks)
<1> DEFINE t == [kind |-> kind, chunk |-> c, region |-> h, content |-> content]
<1>1. t \in Tasks
  BY DEF Tasks
<1>2. /\ TasksInFlight' = TasksInFlight \cup {t}
      /\ ioQueue' \in Seq(Tasks)
  BY <1>1, DetachTasks DEF Detach
<1>3. RegionOf[c] \in Regions /\ h # NoRegion
  BY RegionOfType, NullsDistinct
<1>4. /\ h \in OpenSet' /\ rpos'[h] = RegionOf[c]
      /\ \A u \in TasksInFlight : /\ u.region \in OpenSet'
                                  /\ rpos'[u.region] = RegionOf[u.chunk]
      /\ OneOpenPerFile'
      /\ OpenCoherent'
  <2>1. UNCHANGED regionFile
    OBVIOUS
  <2> QED BY <1>3, <2>1, LoadRegionInv
<1>5. HeldAreOpen' /\ TasksOnOwnRegion'
  BY <1>2, <1>4 DEF HeldAreOpen, TasksOnOwnRegion
<1> QED BY <1>2, <1>4, <1>5 DEF RegionInv

-----------------------------------------------------------------------------
(* One lemma per operation.                                                *)

(* A store that was just constructed satisfies the invariant. *)
LEMMA InitInv == RegionManagerInit => IInv
<1> SUFFICES ASSUME RegionManagerInit PROVE IInv
  OBVIOUS
<1>1. RegionManagerTypeOK
  <2> DEFINE empty == [c \in Chunks |-> NoContent]
  <2>1. empty \in [Chunks -> OptContents]
    BY DEF OptContents
  <2>2. [h \in Handles |-> empty] \in [Handles -> [Chunks -> OptContents]]
    BY <2>1
  <2> HIDE DEF empty
  <2>3. /\ regionHeader = [h \in Handles |-> empty]
        /\ regionFile = empty /\ saveQueue = empty /\ toSave = empty
        /\ outChunks = empty
    BY DEF RegionManagerInit, empty
  <2>4. toSave = [c \in Chunks |-> NoContent]
    BY DEF RegionManagerInit
  <2>5. /\ regionCache \in [Slots -> Handles \cup {NoRegion}]
        /\ rpos \in [Handles -> Regions \cup {NoRegion}]
        /\ ioQueue \in Seq(Tasks)
        /\ ioRunning \in [Workers -> Tasks \cup {NoTask}]
    BY DEF RegionManagerInit
  <2> QED BY <2>1, <2>2, <2>3, <2>4, <2>5 DEF RegionManagerInit, RegionManagerTypeOK
<1>2. TasksInFlight = {} /\ OpenSet = {}
  BY DEF RegionManagerInit, TasksInFlight, OpenSet, Cached
<1> QED BY <1>1, <1>2 DEF IInv, RegionInv, HeldAreOpen, TasksOnOwnRegion,
         OneOpenPerFile, OpenCoherent, FlushedIsIdle

(* Operations on the queue and the mailboxes. *)
LEMMA MailStep ==
    ASSUME IInv,
           \/ \E c \in Chunks : \/ \E content \in Contents : SaveChunk(c, content)
                                \/ GetChunk(c)
                                \/ DiscardChunk(c)
           \/ TakeFailedLoads,
           pumpPc = "idle"
    PROVE  IInv'
<1>1. UNCHANGED <<cacheVars, regionFile, ioVars, pumpVars, regionExists>>
  BY DEF SaveChunk, GetChunk, DiscardChunk, TakeFailedLoads, diskVars
<1>2. TasksInFlight' = TasksInFlight
  BY <1>1 DEF TasksInFlight, ioVars
<1>3. RegionInv'
  BY <1>1, <1>2, CacheUntouched DEF IInv
<1>4. /\ saveQueue' \in [Chunks -> OptContents]
      /\ outChunks' \in [Chunks -> OptContents]
      /\ failedLoads' \subseteq Chunks
  BY ZenonT(40) DEF IInv, RegionManagerTypeOK, SaveChunk, GetChunk, DiscardChunk,
     TakeFailedLoads, OptContents, mailVars
<1>5. RegionManagerTypeOK'
  BY <1>1, <1>4 DEF IInv, RegionManagerTypeOK, cacheVars, ioVars, pumpVars
<1> QED BY <1>1, <1>3, <1>5 DEF IInv, FlushedIsIdle, pumpVars

(* LoadChunk queues a load on an open object, or records the failure. *)
LEMMA LoadChunkStep ==
    ASSUME IInv, NEW c \in Chunks, LoadChunk(c), pumpPc = "idle"
    PROVE  IInv'
<1>0. RegionOf[c] \in Regions /\ NoContent \in OptContents
  BY RegionOfType DEF OptContents
<1>a. /\ UNCHANGED <<regionFile, saveQueue, toSave, merging, pumpPc, flushing,
                     ioRunning, outChunks>>
      /\ RegionManagerTypeOK /\ RegionInv
  BY DEF IInv, LoadChunk, pumpVars
<1>b. failedLoads' \subseteq Chunks
  BY <1>a DEF LoadChunk, RegionManagerTypeOK
<1>1. CASE UNCHANGED <<cacheVars, regionExists, ioQueue>>
  <2>1. TasksInFlight' = TasksInFlight
    BY <1>1, <1>a DEF TasksInFlight
  <2>2. RegionInv'
    BY <1>1, <1>a, <2>1, CacheUntouched
  <2> QED BY <1>1, <1>a, <1>b, <2>2 DEF IInv, RegionManagerTypeOK, FlushedIsIdle, cacheVars
<1>2. CASE LoadRegion(RegionOf[c], NoRegion) /\ UNCHANGED ioQueue
  <2>1. RegionInv'
    BY <1>0, <1>2, <1>a, LoadRegionOnly DEF ioVars
  <2> QED BY <1>0, <1>2, <1>a, <1>b, <2>1, LoadRegionInv
         DEF IInv, RegionManagerTypeOK, FlushedIsIdle
<1>3. CASE \E h \in Handles : /\ LoadRegion(RegionOf[c], h)
                              /\ Detach("load", c, h, NoContent)
  <2>1. PICK h \in Handles : /\ LoadRegion(RegionOf[c], h)
                             /\ Detach("load", c, h, NoContent)
    BY <1>3
  <2>2. RegionInv' /\ ioQueue' \in Seq(Tasks)
    BY <1>0, <1>a, <2>1, LoadRegionThenDetach
  <2> QED BY <1>0, <1>a, <1>b, <2>1, <2>2, LoadRegionInv
         DEF IInv, RegionManagerTypeOK, FlushedIsIdle
<1> QED BY <1>1, <1>2, <1>3 DEF LoadChunk

(* ChunkExists may open the region's file, and queues nothing. *)
LEMMA ChunkExistsStep ==
    ASSUME IInv, NEW c \in Chunks, NEW answer \in BOOLEAN,
           ChunkExists(c, answer), pumpPc = "idle"
    PROVE  IInv'
<1>0. RegionOf[c] \in Regions
  BY RegionOfType
<1>a. /\ UNCHANGED <<regionFile, saveQueue, toSave, merging, pumpPc, flushing,
                     ioQueue, ioRunning, outChunks, failedLoads>>
      /\ RegionManagerTypeOK /\ RegionInv
  BY DEF IInv, ChunkExists, pumpVars, ioVars, mailVars
<1>1. CASE UNCHANGED <<cacheVars, regionExists>>
  <2>1. TasksInFlight' = TasksInFlight
    BY <1>a DEF TasksInFlight
  <2>2. RegionInv'
    BY <1>1, <1>a, <2>1, CacheUntouched
  <2> QED BY <1>1, <1>a, <2>2 DEF IInv, RegionManagerTypeOK, FlushedIsIdle, cacheVars
<1>2. CASE \E h \in Handles \cup {NoRegion} : LoadRegion(RegionOf[c], h)
  <2>1. PICK h \in Handles \cup {NoRegion} : LoadRegion(RegionOf[c], h)
    BY <1>2
  <2>2. RegionInv'
    BY <1>0, <1>a, <2>1, LoadRegionOnly DEF ioVars
  <2> QED BY <1>0, <1>a, <2>1, <2>2, LoadRegionInv
         DEF IInv, RegionManagerTypeOK, FlushedIsIdle
<1> QED BY <1>1, <1>2 DEF ChunkExists

(* An iteration of PumpPipeline over its batch queues a save on an open object,
   or puts the save aside. *)
LEMMA PumpSaveStep ==
    ASSUME IInv, NEW c \in Chunks, PumpSave(c)
    PROVE  IInv'
<1>0. RegionOf[c] \in Regions
  BY RegionOfType
<1>a. /\ UNCHANGED <<regionFile, merging, pumpPc, flushing, ioRunning, outChunks,
                     failedLoads>>
      /\ pumpPc = "save"
      /\ toSave[c] \in OptContents
      /\ toSave' \in [Chunks -> OptContents]
      /\ saveQueue' \in [Chunks -> OptContents]
      /\ RegionManagerTypeOK /\ RegionInv
  BY DEF IInv, PumpSave, mailVars, RegionManagerTypeOK, OptContents
<1>1. CASE LoadRegion(RegionOf[c], NoRegion) /\ UNCHANGED ioQueue
  <2>1. RegionInv'
    BY <1>0, <1>1, <1>a, LoadRegionOnly DEF ioVars
  <2> QED BY <1>0, <1>1, <1>a, <2>1, LoadRegionInv
         DEF IInv, RegionManagerTypeOK, FlushedIsIdle
<1>2. CASE \E h \in Handles : /\ LoadRegion(RegionOf[c], h)
                              /\ Detach("save", c, h, toSave[c])
  <2>1. PICK h \in Handles : /\ LoadRegion(RegionOf[c], h)
                             /\ Detach("save", c, h, toSave[c])
    BY <1>2
  <2>2. RegionInv' /\ ioQueue' \in Seq(Tasks)
    BY <1>0, <1>a, <2>1, LoadRegionThenDetach
  <2> QED BY <1>0, <1>a, <2>1, <2>2, LoadRegionInv
         DEF IInv, RegionManagerTypeOK, FlushedIsIdle
<1> QED BY <1>1, <1>2 DEF PumpSave

(* A merge only moves an object from the overflow list to a slot, or drops
   one that the cache already has. *)
LEMMA PumpMergeStep ==
    ASSUME IInv, NEW h \in Handles, PumpMerge(h)
    PROVE  IInv'
<1> USE DEF OpenSet
<1>1. /\ h \in merging /\ h \in pendingRegions
      /\ merging' = merging \ {h}
      /\ UNCHANGED <<rpos, regionHeader, regionFile, regionExists, saveQueue, toSave,
                     pumpPc, flushing, ioQueue, ioRunning, outChunks, failedLoads>>
      /\ RegionManagerTypeOK /\ RegionInv
      /\ pumpPc = "merge"
  BY DEF IInv, PumpMerge, RegionManagerTypeOK, diskVars, ioVars, mailVars
<1>2. TasksInFlight' = TasksInFlight /\ Held' = Held
  BY <1>1 DEF TasksInFlight, Held
<1>3. /\ regionCache' \in [Slots -> Handles \cup {NoRegion}]
      /\ pendingRegions' \in {pendingRegions, pendingRegions \ {h}}
      /\ merging' \subseteq pendingRegions'
      /\ OpenSet' \subseteq OpenSet
      /\ \A t \in TasksInFlight : t.region \in OpenSet'
  <2>1. CASE /\ \E g \in Cached : rpos[g] = rpos[h]
             /\ pendingRegions' = pendingRegions \ {h}
             /\ UNCHANGED regionCache
    <3>1. PICK g \in Cached : rpos[g] = rpos[h]
      BY <2>1
    <3>2. g = h
      BY <1>1, <3>1 DEF RegionInv, OneOpenPerFile
    <3>3. Cached' = Cached
      BY <2>1 DEF Cached
    <3> QED BY <1>1, <2>1, <3>1, <3>2, <3>3 DEF RegionInv, HeldAreOpen, RegionManagerTypeOK
  <2>2. CASE /\ \E i \in Slots : /\ FirstUsable(i)
                                 /\ regionCache' = [regionCache EXCEPT ![i] = h]
             /\ pendingRegions' = pendingRegions \ {h}
    <3>1. PICK i \in Slots : /\ SlotUsable(i)
                             /\ regionCache' = [regionCache EXCEPT ![i] = h]
      BY <2>2 DEF FirstUsable
    <3>2. /\ regionCache' \in [Slots -> Handles \cup {NoRegion}]
          /\ h \in Cached'
          /\ Cached' \subseteq Cached \cup {h}
      BY <1>1, <3>1, SlotTaken
    <3>3. ASSUME NEW t \in TasksInFlight
          PROVE  t.region \in OpenSet'
      <4>1. t.region \in Held /\ t.region \in OpenSet
        BY <1>1 DEF Held, RegionInv, HeldAreOpen
      <4>2. CASE t.region \in pendingRegions
        BY <2>2, <3>2, <4>2
      <4>3. CASE t.region \in Cached
        BY <1>1, <3>1, <4>1, <4>3, ReusedSlot
      <4> QED BY <4>1, <4>2, <4>3
    <3> QED BY <1>1, <2>2, <3>2, <3>3 DEF RegionManagerTypeOK
  <2>3. CASE UNCHANGED <<regionCache, pendingRegions>>
    BY <1>1, <2>3 DEF Cached, RegionInv, HeldAreOpen, RegionManagerTypeOK
  <2> QED BY <2>1, <2>2, <2>3 DEF PumpMerge
<1>4. RegionManagerTypeOK'
  BY <1>1, <1>3 DEF RegionManagerTypeOK
<1>5. RegionInv'
  BY <1>1, <1>2, <1>3 DEF RegionInv, HeldAreOpen, TasksOnOwnRegion,
     OneOpenPerFile, OpenCoherent
<1> QED BY <1>1, <1>4, <1>5 DEF IInv, FlushedIsIdle

(* The bookkeeping of PumpPipeline and FlushAll around their loops. *)
LEMMA PumpControlStep ==
    ASSUME IInv, \/ \E flush \in BOOLEAN : PumpBegin(flush)
                 \/ PumpSaved \/ PumpEnd \/ FlushWait \/ FlushReturn
    PROVE  IInv'
<1>1. UNCHANGED <<cacheVars, diskVars, ioVars, mailVars>>
  BY DEF PumpBegin, PumpSaved, PumpEnd, FlushWait, FlushReturn
<1>2. TasksInFlight' = TasksInFlight
  BY <1>1 DEF TasksInFlight, ioVars
<1>3. RegionInv'
  BY <1>1, <1>2, CacheUntouched DEF IInv, diskVars
<1>4. /\ saveQueue' \in [Chunks -> OptContents]
      /\ toSave' \in [Chunks -> OptContents]
      /\ pumpPc' \in {"idle", "save", "merge", "wait", "flushed"}
      /\ flushing' \in BOOLEAN
      /\ pumpPc' # "save" => toSave' = [c \in Chunks |-> NoContent]
      /\ merging' \subseteq pendingRegions'
      /\ pumpPc' # "merge" => merging' = {}
  <2> USE DEF IInv, RegionManagerTypeOK
  <2>1. ASSUME NEW flush \in BOOLEAN, PumpBegin(flush)
        PROVE  <1>4!:
    <3>1. [c \in Chunks |-> NoContent] \in [Chunks -> OptContents]
      BY DEF OptContents
    <3> QED BY <2>1, <3>1 DEF PumpBegin, cacheVars
  <2>2. CASE PumpSaved
    <3>1. toSave \in [Chunks -> OptContents]
      OBVIOUS
    <3>2. toSave = [c \in Chunks |-> NoContent]
      BY <2>2, <3>1 DEF PumpSaved
    <3> QED BY <2>2, <3>2 DEF PumpSaved, cacheVars
  <2>3. CASE PumpEnd \/ FlushWait \/ FlushReturn
    BY <2>3 DEF PumpEnd, FlushWait, FlushReturn, cacheVars
  <2> QED BY <2>1, <2>2, <2>3
<1>5. RegionManagerTypeOK'
  BY <1>1, <1>4 DEF IInv, RegionManagerTypeOK, cacheVars, diskVars, ioVars, mailVars
<1>6. FlushedIsIdle'
  <2>1. CASE FlushWait
    <3>1. TasksInFlight = {}
      BY <2>1 DEF FlushWait, IoIdle, TasksInFlight
    <3> QED BY <1>2, <3>1 DEF FlushedIsIdle
  <2>2. CASE ~FlushWait
    BY <2>2 DEF FlushedIsIdle, PumpBegin, PumpSaved, PumpEnd, FlushReturn
  <2> QED BY <2>1, <2>2
<1> QED BY <1>3, <1>5, <1>6 DEF IInv

(* FlushAll waited for the threads, so no task loses its object. *)
LEMMA ReleaseStep ==
    ASSUME IInv, Release
    PROVE  IInv'
<1>1. TasksInFlight = {} /\ TasksInFlight' = TasksInFlight
  BY DEF IInv, FlushedIsIdle, Release, TasksInFlight, ioVars
<1>2. OpenSet' = {}
  BY DEF Release, OpenSet, Cached
<1>3. RegionManagerTypeOK'
  <2>1. [c \in Chunks |-> NoContent] \in [Chunks -> OptContents]
    BY DEF OptContents
  <2> QED BY <2>1 DEF IInv, Release, RegionManagerTypeOK, diskVars, ioVars
<1> QED BY <1>1, <1>2, <1>3 DEF IInv, RegionInv, HeldAreOpen, TasksOnOwnRegion,
         OneOpenPerFile, OpenCoherent, FlushedIsIdle

(* A thread that takes a task keeps the object that the task refers to. *)
LEMMA IoTakeStep ==
    ASSUME IInv, NEW w \in Workers, IoTake(w)
    PROVE  IInv'
<1>1. /\ TasksInFlight' \subseteq TasksInFlight
      /\ ioQueue' \in Seq(Tasks)
      /\ ioRunning' \in [Workers -> Tasks \cup {NoTask}]
  BY TakeTasks DEF IInv
<1>2. UNCHANGED <<cacheVars, diskVars, saveQueue, pumpVars, mailVars>>
  BY DEF IoTake
<1>3. RegionInv'
  BY <1>1, <1>2, CacheUntouched DEF IInv, diskVars
<1> QED BY <1>1, <1>2, <1>3 DEF IInv, RegionManagerTypeOK, FlushedIsIdle,
         cacheVars, diskVars, pumpVars, mailVars

(* A load only reads the file, and then drops its object. *)
LEMMA IoLoadStep ==
    ASSUME IInv, NEW w \in Workers, IoLoad(w)
    PROVE  IInv'
<1>1. /\ TasksInFlight' \subseteq TasksInFlight
      /\ ioRunning' \in [Workers -> Tasks \cup {NoTask}]
  BY DropTasks DEF IInv, IoLoad
<1>2. UNCHANGED <<cacheVars, diskVars, saveQueue, pumpVars, ioQueue>>
  BY DEF IoLoad
<1>3. RegionInv'
  BY <1>1, <1>2, CacheUntouched DEF IInv, diskVars
<1>4. /\ ioRunning[w].chunk \in Chunks
      /\ ioRunning[w].region \in Handles
  BY DEF IInv, RegionManagerTypeOK, IoLoad, Tasks
<1>5. regionHeader[ioRunning[w].region][ioRunning[w].chunk] \in OptContents
  BY <1>4 DEF IInv, RegionManagerTypeOK
<1>6. outChunks' \in [Chunks -> OptContents] /\ failedLoads' \subseteq Chunks
  BY <1>4, <1>5 DEF IInv, RegionManagerTypeOK, IoLoad
<1> QED BY <1>1, <1>2, <1>3, <1>6 DEF IInv, RegionManagerTypeOK, FlushedIsIdle,
         cacheVars, diskVars, pumpVars

(* The object written through is the only open one on its file. *)
LEMMA IoSaveStep ==
    ASSUME IInv, NEW w \in Workers, IoSave(w)
    PROVE  IInv'
<1> DEFINE t == ioRunning[w]
<1>1. /\ TasksInFlight' \subseteq TasksInFlight
      /\ ioRunning' \in [Workers -> Tasks \cup {NoTask}]
  BY DropTasks DEF IInv, IoSave
<1>2. UNCHANGED <<regionCache, pendingRegions, rpos, regionExists, saveQueue,
                  pumpVars, ioQueue, mailVars>>
  BY DEF IoSave
<1>3. t \in TasksInFlight /\ t \in Tasks
  BY DEF IInv, RegionManagerTypeOK, IoSave, TasksInFlight
<1>4. /\ t.chunk \in Chunks /\ t.region \in Handles /\ t.content \in OptContents
      /\ t.region \in OpenSet
      /\ rpos[t.region] = RegionOf[t.chunk]
  BY <1>3 DEF Tasks, IInv, RegionInv, HeldAreOpen, TasksOnOwnRegion
<1>5. /\ regionHeader' = [regionHeader EXCEPT ![t.region][t.chunk] = t.content]
      /\ regionFile' = [regionFile EXCEPT ![t.chunk] = t.content]
  BY DEF IoSave
<1> HIDE DEF t
<1>6. /\ regionHeader' \in [Handles -> [Chunks -> OptContents]]
      /\ regionFile' \in [Chunks -> OptContents]
      /\ regionHeader'[t.region][t.chunk] = t.content
      /\ regionFile'[t.chunk] = t.content
      /\ \A c \in Chunks \ {t.chunk} : regionFile'[c] = regionFile[c]
      /\ \A c \in Chunks \ {t.chunk} :
            regionHeader'[t.region][c] = regionHeader[t.region][c]
      /\ \A h \in Handles \ {t.region} : regionHeader'[h] = regionHeader[h]
  BY <1>4, <1>5 DEF IInv, RegionManagerTypeOK
<1>7. OpenSet' = OpenSet /\ OpenSet \subseteq Handles
  BY <1>2 DEF OpenSet, Cached, IInv, RegionManagerTypeOK
<1>8. OpenCoherent'
  <2> SUFFICES ASSUME NEW h \in OpenSet, NEW c \in Chunks, RegionOf[c] = rpos[h]
               PROVE  regionHeader'[h][c] = regionFile'[c]
    BY <1>2, <1>7 DEF OpenCoherent
  <2>1. regionHeader[h][c] = regionFile[c]
    BY DEF IInv, RegionInv, OpenCoherent
  <2>2. CASE c = t.chunk
    <3>1. h = t.region
      BY <1>4, <2>2 DEF IInv, RegionInv, OneOpenPerFile
    <3> QED BY <1>6, <2>2, <3>1
  <2>3. CASE c # t.chunk
    BY <1>6, <1>7, <2>1, <2>3
  <2> QED BY <2>2, <2>3
<1>9. RegionInv'
  BY <1>1, <1>2, <1>7, <1>8 DEF IInv, RegionInv, HeldAreOpen, TasksOnOwnRegion,
     OneOpenPerFile
<1> QED BY <1>1, <1>2, <1>6, <1>9 DEF IInv, RegionManagerTypeOK, FlushedIsIdle,
         pumpVars, mailVars

-----------------------------------------------------------------------------
(* Theorems.                                                               *)

(* Every step of the store, and a stutter, keeps the inductive invariant. *)
THEOREM NextInv == IInv /\ [StoreNext]_rmVars => IInv'
<1> SUFFICES ASSUME IInv, [StoreNext]_rmVars PROVE IInv'
  OBVIOUS
<1>1. CASE UNCHANGED rmVars
  <2>1. UNCHANGED <<cacheVars, diskVars, saveQueue, pumpVars, ioVars, mailVars>>
    BY <1>1 DEF rmVars
  <2>2. TasksInFlight' = TasksInFlight
    BY <2>1 DEF TasksInFlight, ioVars
  <2>3. RegionInv'
    BY <2>1, <2>2, CacheUntouched DEF IInv, diskVars
  <2> QED BY <2>1, <2>2, <2>3 DEF IInv, RegionManagerTypeOK, FlushedIsIdle,
           cacheVars, diskVars, pumpVars, ioVars, mailVars
<1>2. CASE Call
  BY <1>2, MailStep, LoadChunkStep, ChunkExistsStep DEF Call
<1>3. CASE pumpPc = "idle" /\ TakeFailedLoads
  BY <1>3, MailStep
<1>4. CASE (\E flush \in BOOLEAN : PumpBegin(flush)) \/ FlushReturn
  BY <1>4, PumpControlStep
<1>5. CASE PumpStep
  BY <1>5, PumpSaveStep, PumpMergeStep, PumpControlStep DEF PumpStep
<1>6. CASE Release
  BY <1>6, ReleaseStep
<1>7. CASE IoThreads
  BY <1>7, IoTakeStep, IoSaveStep, IoLoadStep DEF IoThreads
<1> QED BY <1>1, <1>2, <1>3, <1>4, <1>5, <1>6, <1>7 DEF StoreNext

(* The inductive invariant holds in every behaviour of the store, for any
   number of chunks, regions, slots, pending entries and IO threads. *)
THEOREM RegionManagerInvariant == StoreSpec => []IInv
BY InitInv, NextInv, PTL DEF StoreSpec

(* Type correctness, with PumpPipeline's batch and merge list empty outside
   their loops. *)
THEOREM TypeCorrect == StoreSpec => []RegionManagerTypeOK
<1>1. IInv => RegionManagerTypeOK
  BY DEF IInv
<1> QED BY <1>1, RegionManagerInvariant, PTL

(* There is never more than one usable Region object on a file, so the mutex
   in it excludes every other access to the file. *)
THEOREM RegionUnique == StoreSpec => []OneRegionPerFile
<1>1. IInv => OneRegionPerFile
  <2>1. IInv => Live \subseteq OpenSet
    BY DEF IInv, RegionInv, HeldAreOpen, Live, OpenSet, Held
  <2> QED BY <2>1 DEF IInv, RegionInv, OneOpenPerFile, OneRegionPerFile
<1> QED BY <1>1, RegionManagerInvariant, PTL

(* An object that is in use is in a slot or on the overflow list. *)
LEMMA UsableCoherent == IInv => HeaderCoherent
<1>1. IInv => Live \subseteq OpenSet
  BY DEF IInv, RegionInv, HeldAreOpen, Live, OpenSet, Held
<1> QED BY <1>1 DEF IInv, RegionInv, OpenCoherent, HeaderCoherent

(* Every usable Region object allocates sectors from its file's own header. *)
THEOREM HeadersCoherent == StoreSpec => []HeaderCoherent
BY UsableCoherent, RegionManagerInvariant, PTL

-----------------------------------------------------------------------------
(* When no region is refused.                                              *)

(* LoadRegion puts a fresh object in one place. *)
LEMMA LoadRegionPlaces ==
    ASSUME RegionManagerTypeOK, OnePlaceEach, NEW r \in Regions,
           NEW result \in Handles \cup {NoRegion}, LoadRegion(r, result)
    PROVE  OnePlaceEach'
<1> USE DEF OpenSet
<1>0. OpenSet \subseteq Handles /\ \A i \in Slots : regionCache[i] \in Cached \cup {NoRegion}
  BY DEF RegionManagerTypeOK, Cached
<1>1. CASE LoadRegionOpen(r, result)
  BY <1>1 DEF LoadRegionOpen, OnePlaceEach, Cached, cacheVars
<1>2. CASE LoadRegionIntoSlot(r, result)
  <2>1. PICK i \in Slots : regionCache' = [regionCache EXCEPT ![i] = result]
    BY <1>2 DEF LoadRegionIntoSlot
  <2>2. /\ result \in Handles /\ result \notin OpenSet
        /\ rpos' = [rpos EXCEPT ![result] = r]
        /\ pendingRegions' = pendingRegions
    BY <1>2 DEF LoadRegionIntoSlot, OpenFile, Live
  <2>3. /\ Cached' \subseteq Cached \cup {result}
        /\ regionCache'[i] = result
        /\ \A j \in Slots \ {i} : regionCache'[j] = regionCache[j]
    BY <2>1, <2>2, SlotTaken DEF RegionManagerTypeOK
  <2>4. \A j, k \in Slots : regionCache'[j] = regionCache'[k] /\ regionCache'[j] # NoRegion
                               => j = k
    BY <1>0, <2>2, <2>3, NullsDistinct DEF OnePlaceEach
  <2>5. \A h \in OpenSet' : rpos'[h] \in Regions
    BY <1>0, <2>2, <2>3 DEF OnePlaceEach, RegionManagerTypeOK
  <2> QED BY <2>2, <2>3, <2>4, <2>5 DEF OnePlaceEach
<1>3. CASE LoadRegionNoSlot(r, result)
  <2>1. Cached' = Cached /\ UNCHANGED regionCache
    BY <1>3 DEF LoadRegionNoSlot, Cached
  <2>2. CASE UNCHANGED <<pendingRegions, rpos>>
    BY <2>1, <2>2 DEF OnePlaceEach
  <2>3. CASE \E h \in Handles : OpenFile(h, r) /\ pendingRegions' = pendingRegions \cup {h}
    <3>1. PICK h \in Handles : OpenFile(h, r) /\ pendingRegions' = pendingRegions \cup {h}
      BY <2>3
    <3>2. h \notin OpenSet /\ rpos' = [rpos EXCEPT ![h] = r]
      BY <3>1 DEF OpenFile, Live
    <3> QED BY <1>0, <2>1, <3>1, <3>2 DEF OnePlaceEach, RegionManagerTypeOK
  <2> QED BY <1>3, <2>2, <2>3 DEF LoadRegionNoSlot
<1> QED BY <1>1, <1>2, <1>3 DEF LoadRegion

(* A merge moves an object from the overflow list to one slot. *)
LEMMA MergePlaces ==
    ASSUME RegionManagerTypeOK, OnePlaceEach, NEW h \in Handles, PumpMerge(h)
    PROVE  OnePlaceEach'
<1> USE DEF OpenSet
<1>1. h \in pendingRegions /\ UNCHANGED rpos
  BY DEF PumpMerge, RegionManagerTypeOK
<1>2. CASE UNCHANGED regionCache /\ pendingRegions' \subseteq pendingRegions
  BY <1>1, <1>2 DEF OnePlaceEach, Cached
<1>3. CASE /\ \E i \in Slots : regionCache' = [regionCache EXCEPT ![i] = h]
           /\ pendingRegions' = pendingRegions \ {h}
  <2>1. PICK i \in Slots : regionCache' = [regionCache EXCEPT ![i] = h]
    BY <1>3
  <2>2. /\ Cached' \subseteq Cached \cup {h}
        /\ regionCache'[i] = h
        /\ \A j \in Slots \ {i} : regionCache'[j] = regionCache[j]
    BY <2>1, SlotTaken DEF RegionManagerTypeOK
  <2>3. \A j \in Slots : regionCache[j] # h
    BY <1>1, NullsDistinct DEF OnePlaceEach, Cached, RegionManagerTypeOK
  <2> QED BY <1>1, <1>3, <2>2, <2>3 DEF OnePlaceEach
<1> QED BY <1>2, <1>3 DEF PumpMerge, FirstUsable

LEMMA PlacesStep ==
    ASSUME IInv, OnePlaceEach, [StoreNext]_rmVars
    PROVE  OnePlaceEach'
<1>0. RegionManagerTypeOK /\ \A c \in Chunks : RegionOf[c] \in Regions
  BY RegionOfType DEF IInv
<1>1. CASE UNCHANGED <<regionCache, pendingRegions, rpos>>
  BY <1>1 DEF OnePlaceEach, OpenSet, Cached
<1>2. CASE \E c \in Chunks, h \in Handles \cup {NoRegion} : LoadRegion(RegionOf[c], h)
  BY <1>0, <1>2, LoadRegionPlaces
<1>3. CASE \E h \in Handles : PumpMerge(h)
  BY <1>0, <1>3, MergePlaces
<1>4. CASE Release
  BY <1>4 DEF Release, OnePlaceEach, OpenSet, Cached
<1>5. CASE Call
  <2>1. PICK c \in Chunks :
          \/ \E content \in Contents : SaveChunk(c, content)
          \/ LoadChunk(c)
          \/ \E answer \in BOOLEAN : ChunkExists(c, answer)
          \/ GetChunk(c)
          \/ DiscardChunk(c)
    BY <1>5 DEF Call
  <2>2. \/ UNCHANGED cacheVars
        \/ \E h \in Handles \cup {NoRegion} : LoadRegion(RegionOf[c], h)
    BY <2>1 DEF SaveChunk, LoadChunk, ChunkExists, GetChunk, DiscardChunk
  <2> QED BY <1>1, <1>2, <2>2 DEF cacheVars
<1>6. CASE PumpStep
  BY <1>1, <1>2, <1>3, <1>6 DEF PumpStep, PumpSave, PumpSaved, PumpEnd, FlushWait, cacheVars
<1>7. CASE \/ UNCHANGED rmVars \/ TakeFailedLoads \/ FlushReturn \/ IoThreads
           \/ \E flush \in BOOLEAN : PumpBegin(flush)
  BY <1>1, <1>7 DEF rmVars, TakeFailedLoads, FlushReturn, IoThreads, IoTake, IoSave, IoLoad,
     PumpBegin, cacheVars
<1> QED BY <1>4, <1>5, <1>6, <1>7 DEF StoreNext

(* A region is refused only when every slot holds an object on another one; with
   a slot for every region there is none left to refuse. *)
LEMMA NeverRefused ==
    ASSUME IInv, OnePlaceEach, RegionsFit, NEW r \in Regions
    PROVE  ~LoadRegion(r, NoRegion)
<1> SUFFICES ASSUME LoadRegion(r, NoRegion) PROVE FALSE
  OBVIOUS
<1>1. NoRegion \notin Cached /\ NoRegion \notin pendingRegions /\ NoRegion \notin Handles
  BY NullsDistinct DEF Cached, IInv, RegionManagerTypeOK
<1>2. LoadRegionNoSlot(r, NoRegion)
  BY <1>1 DEF LoadRegion, LoadRegionOpen, OpenRegions, LoadRegionIntoSlot
<1>3. \A i \in Slots : regionCache[i] \in Cached /\ rpos[regionCache[i]] # r
  BY <1>2 DEF LoadRegionNoSlot, SlotUsable, Cached, OpenRegions
<1> DEFINE file == [i \in Slots |-> rpos[regionCache[i]]]
<1>4. file \in [Slots -> Regions \ {r}]
  BY <1>3 DEF OnePlaceEach, OpenSet
<1>5. \A i, j \in Slots : file[i] = file[j] => i = j
  BY <1>1, <1>3 DEF OnePlaceEach, IInv, RegionInv, OneOpenPerFile, OpenSet
<1>6. IsFiniteSet(Slots) /\ Cardinality(Slots) = NSlots
  BY NSlotsType, FS_Interval DEF Slots
<1>7. IsFiniteSet(Regions \ {r}) /\ Cardinality(Regions \ {r}) = Cardinality(Regions) - 1
  BY FS_RemoveElement DEF RegionsFit
<1>8. Cardinality(Regions) \in Nat
  BY FS_CardinalityType DEF RegionsFit
<1>9. Cardinality(Regions \ {r}) < Cardinality(Slots)
  BY <1>6, <1>7, <1>8, NSlotsType DEF RegionsFit
<1> HIDE DEF file
<1>10. \E i, j \in Slots : i # j /\ file[i] = file[j]
  BY <1>4, <1>6, <1>7, <1>9, FS_PigeonHole
<1> QED BY <1>5, <1>10

LEMMA EmptiesStep ==
    ASSUME IInv, OnePlaceEach, RegionsFit, PumpEmpties, [StoreNext]_rmVars
    PROVE  PumpEmpties'
<1> USE DEF PumpEmpties
<1>1. CASE \/ UNCHANGED rmVars \/ Call \/ TakeFailedLoads \/ FlushReturn \/ Release
           \/ IoThreads \/ \E flush \in BOOLEAN : PumpBegin(flush)
  BY <1>1 DEF rmVars, Call, SaveChunk, LoadChunk, ChunkExists, GetChunk, DiscardChunk,
     TakeFailedLoads, FlushReturn, Release, IoThreads, IoTake, IoSave, IoLoad, PumpBegin, pumpVars
<1>2. CASE PumpStep
  <2>1. ASSUME NEW c \in Chunks, PumpSave(c) PROVE UNCHANGED saveQueue
    BY <2>1, NeverRefused, RegionOfType DEF PumpSave
  <2> QED BY <1>2, <2>1 DEF PumpStep, PumpSave, PumpSaved, PumpMerge, PumpEnd, FlushWait
<1> QED BY <1>1, <1>2 DEF StoreNext

(* Every object is in one place: in one slot, or on the overflow list. *)
THEOREM OnePlaceInvariant == StoreSpec => []OnePlaceEach
<1>1. RegionManagerInit => OnePlaceEach
  BY DEF RegionManagerInit, OnePlaceEach, OpenSet, Cached
<1>2. IInv /\ OnePlaceEach /\ [StoreNext]_rmVars => OnePlaceEach'
  BY PlacesStep
<1> QED BY <1>1, <1>2, RegionManagerInvariant, PTL DEF StoreSpec

(* FlushAll does leave nothing to save as long as there is a slot for every
   region: region_manager.h:73 holds of a world of at most eight regions. *)
THEOREM FlushesIfRegionsFit == RegionsFit => (StoreSpec => []FlushAllFlushes)
<1> SUFFICES ASSUME RegionsFit PROVE StoreSpec => []FlushAllFlushes
  OBVIOUS
<1>1. RegionManagerInit => PumpEmpties
  BY DEF RegionManagerInit, PumpEmpties
<1>2. IInv /\ OnePlaceEach /\ PumpEmpties /\ [StoreNext]_rmVars => PumpEmpties'
  BY EmptiesStep
<1>3. PumpEmpties => FlushAllFlushes
  BY DEF PumpEmpties, FlushAllFlushes
<1> QED BY <1>1, <1>2, <1>3, RegionManagerInvariant, OnePlaceInvariant, PTL DEF StoreSpec

(* A file with a chunk in it exists, and so does the file of each object that
   is open: LoadRegion creates it, and nothing removes one. *)
LEMMA ExistStep ==
    ASSUME IInv, FilesExist, [StoreNext]_rmVars
    PROVE  FilesExist'
<1> USE DEF OpenSet
<1>0. /\ RegionManagerTypeOK /\ HeldAreOpen /\ TasksOnOwnRegion
      /\ \A c \in Chunks : RegionOf[c] \in Regions
      /\ OpenSet \subseteq Handles
      /\ \A i \in Slots : regionCache[i] \in Cached \cup {NoRegion}
  BY RegionOfType DEF IInv, RegionInv, RegionManagerTypeOK, Cached
<1>1. CASE UNCHANGED <<cacheVars, regionExists, regionFile>>
  BY <1>1 DEF FilesExist, Cached, cacheVars
<1>2. CASE Release
  BY <1>2 DEF Release, FilesExist, Cached, diskVars
<1>3. ASSUME NEW c \in Chunks, NEW h \in Handles \cup {NoRegion}, LoadRegion(RegionOf[c], h),
             UNCHANGED regionFile
      PROVE  FilesExist'
  <2> DEFINE r == RegionOf[c]
  <2>1. CASE LoadRegionOpen(r, h)
    BY <1>1, <1>3, <2>1 DEF LoadRegionOpen
  <2>2. CASE LoadRegionIntoSlot(r, h)
    <3>1. PICK i \in Slots : regionCache' = [regionCache EXCEPT ![i] = h]
      BY <2>2 DEF LoadRegionIntoSlot
    <3>2. /\ OpenSet' \subseteq OpenSet \cup {h} /\ h \in Handles
          /\ rpos' = [rpos EXCEPT ![h] = r] /\ regionExists' = regionExists \cup {r}
      BY <1>0, <2>2, <3>1, SlotTaken DEF LoadRegionIntoSlot, OpenFile
    <3> QED BY <1>0, <1>3, <3>2 DEF FilesExist, RegionManagerTypeOK
  <2>3. CASE LoadRegionNoSlot(r, h)
    <3>1. UNCHANGED regionCache /\ regionExists' = regionExists \cup {r}
      BY <2>3 DEF LoadRegionNoSlot
    <3>2. CASE UNCHANGED <<pendingRegions, rpos>>
      BY <1>3, <3>1, <3>2 DEF FilesExist, Cached
    <3>3. CASE \E g \in Handles : OpenFile(g, r) /\ pendingRegions' = pendingRegions \cup {g}
      <4>1. PICK g \in Handles : OpenFile(g, r) /\ pendingRegions' = pendingRegions \cup {g}
        BY <3>3
      <4>2. OpenSet' = OpenSet \cup {g} /\ rpos' = [rpos EXCEPT ![g] = r]
        BY <3>1, <4>1 DEF OpenFile, Cached
      <4> QED BY <1>0, <1>3, <3>1, <4>2 DEF FilesExist, RegionManagerTypeOK
    <3> QED BY <2>3, <3>2, <3>3 DEF LoadRegionNoSlot
  <2> QED BY <1>3, <2>1, <2>2, <2>3 DEF LoadRegion
<1>4. CASE \E h \in Handles : PumpMerge(h)
  <2>1. PICK h \in Handles : PumpMerge(h)
    BY <1>4
  <2>2. h \in pendingRegions
    BY <1>0, <2>1 DEF PumpMerge, RegionManagerTypeOK
  <2>4. UNCHANGED <<rpos, regionExists, regionFile>> /\ pendingRegions' \subseteq pendingRegions
    BY <2>1 DEF PumpMerge, diskVars
  <2>3. Cached' \subseteq Cached \cup {h}
    BY <1>0, <2>1, SlotTaken DEF PumpMerge, Cached
  <2> QED BY <2>2, <2>3, <2>4 DEF FilesExist
<1>5. CASE \E w \in Workers : IoSave(w)
  <2>1. PICK w \in Workers : IoSave(w)
    BY <1>5
  <2> DEFINE t == ioRunning[w]
  <2>2. t \in TasksInFlight /\ t.chunk \in Chunks
    BY <1>0, <2>1, NullsDistinct DEF IoSave, TasksInFlight, RegionManagerTypeOK, Tasks
  <2>3. RegionOf[t.chunk] \in regionExists
    BY <1>0, <2>2 DEF FilesExist, HeldAreOpen, TasksOnOwnRegion
  <2>4. /\ UNCHANGED <<regionCache, pendingRegions, rpos, regionExists>>
        /\ regionFile' = [regionFile EXCEPT ![t.chunk] = t.content]
    BY <2>1 DEF IoSave
  <2> QED BY <1>0, <2>2, <2>3, <2>4 DEF FilesExist, Cached, RegionManagerTypeOK
<1>6. CASE Call
  <2>1. PICK c \in Chunks :
          \/ \E content \in Contents : SaveChunk(c, content)
          \/ LoadChunk(c)
          \/ \E answer \in BOOLEAN : ChunkExists(c, answer)
          \/ GetChunk(c)
          \/ DiscardChunk(c)
    BY <1>6 DEF Call
  <2>2. /\ UNCHANGED regionFile
        /\ \/ UNCHANGED <<cacheVars, regionExists>>
           \/ \E h \in Handles \cup {NoRegion} : LoadRegion(RegionOf[c], h)
    BY <2>1 DEF SaveChunk, LoadChunk, ChunkExists, GetChunk, DiscardChunk, diskVars
  <2> QED BY <1>1, <1>3, <2>2
<1>7. CASE \E c \in Chunks : PumpSave(c)
  <2>1. PICK c \in Chunks : PumpSave(c)
    BY <1>7
  <2>2. UNCHANGED regionFile /\ \E h \in Handles \cup {NoRegion} : LoadRegion(RegionOf[c], h)
    BY <2>1 DEF PumpSave
  <2> QED BY <1>3, <2>2
<1>8. CASE \/ UNCHANGED rmVars \/ TakeFailedLoads \/ FlushReturn
           \/ (\E flush \in BOOLEAN : PumpBegin(flush)) \/ PumpSaved \/ PumpEnd \/ FlushWait
           \/ \E w \in Workers : IoTake(w) \/ IoLoad(w)
  BY <1>1, <1>8 DEF rmVars, TakeFailedLoads, FlushReturn, IoTake, IoLoad, PumpBegin, PumpSaved,
     PumpEnd, FlushWait, cacheVars, diskVars
<1> QED BY <1>2, <1>4, <1>5, <1>6, <1>7, <1>8 DEF StoreNext, PumpStep, IoThreads

THEOREM FilesExistInvariant == StoreSpec => []FilesExist
<1>1. RegionManagerInit => FilesExist
  BY DEF RegionManagerInit, FilesExist, OpenSet, Cached
<1>2. IInv /\ FilesExist /\ [StoreNext]_rmVars => FilesExist'
  BY ExistStep
<1> QED BY <1>1, <1>2, RegionManagerInvariant, PTL DEF StoreSpec

(* ChunkExists denies a chunk that its file has only when it cannot look into
   the file: the region is not open and no slot can be had for it. *)
LEMMA DeniedOnlyUnseen ==
    ASSUME IInv, FilesExist, NEW c \in Chunks, ChunkExists(c, FALSE), regionFile[c] # NoContent
    PROVE  OpenRegions(RegionOf[c]) = {} /\ \A i \in Slots : ~SlotUsable(i)
<1> USE DEF OpenSet
<1>0. RegionManagerTypeOK /\ OpenCoherent /\ RegionOf[c] \in Regions
  BY RegionOfType DEF IInv, RegionInv
<1>1. RegionOf[c] \in regionExists
  BY DEF FilesExist
<1>2. CASE LoadRegion(RegionOf[c], NoRegion)
  <2>1. NoRegion \notin Cached /\ NoRegion \notin pendingRegions /\ NoRegion \notin Handles
    BY <1>0, NullsDistinct DEF Cached, RegionManagerTypeOK
  <2> QED BY <1>2, <2>1 DEF LoadRegion, LoadRegionOpen, OpenRegions, LoadRegionIntoSlot, LoadRegionNoSlot
<1>3. ASSUME NEW h \in Handles, LoadRegion(RegionOf[c], h), regionHeader'[h][c] = NoContent
      PROVE  FALSE
  <2>1. CASE LoadRegionOpen(RegionOf[c], h)
    BY <1>0, <1>3, <2>1 DEF LoadRegionOpen, OpenRegions, OpenCoherent, cacheVars
  <2>2. CASE LoadRegionIntoSlot(RegionOf[c], h)
    BY <1>0, <1>3, <2>2 DEF LoadRegionIntoSlot, OpenFile, RegionManagerTypeOK
  <2>3. ~LoadRegionNoSlot(RegionOf[c], h)
    BY NullsDistinct DEF LoadRegionNoSlot
  <2> QED BY <1>3, <2>1, <2>2, <2>3 DEF LoadRegion
<1> QED BY <1>1, <1>2, <1>3 DEF ChunkExists

=============================================================================
