-------------------------- MODULE ChunkPipelineProofs --------------------------
(***************************************************************************)
(* Proofs about ChunkPipeline: that the world uses the chunk store as      *)
(* RegionManager allows, so that the store's theorems hold of the whole;   *)
(* and that no slot waits for an answer that nobody owes it.               *)
(*                                                                         *)
(* Three facts about the main thread make it work.  Outside the phases     *)
(* that run PumpPipeline or FlushAll the store's pump is idle (PumpIdle),  *)
(* so the calls of the other phases find the store between operations.     *)
(* The candidates of WorldManager::PumpPipeline stay Unloaded until the    *)
(* loop reaches them, because only the main thread changes a slot          *)
(* (CandidatesUnloaded).  And between ChunkExists and LoadChunk exactly    *)
(* one slot is Loading with no load under way (OneToLoad).                 *)
(***************************************************************************)
EXTENDS ChunkPipeline, RegionManagerProofs

PumpIdle == pc \notin {"regionPump", "flush", "release"} => pumpPc = "idle"

CandidatesUnloaded ==
    pc = "worldPump" => \A c \in todo : chunkState[c] = "Unloaded"

OneToLoad ==
    pc = "startLoading" =>
        \E d \in todo : /\ chunkState[d] = "Loading"
                        /\ \A c \in todo \ {d} : chunkState[c] = "Unloaded"

SavesAreReady == pc \in {"autosave", "shutdownSave"} => todo \subseteq ValidChunks

\* A load is on its way, or has answered one way or the other.
LoadOwed(c) == InFlight(c, "load") \/ outChunks[c] # NoContent \/ c \in failedLoads

LoadsOwed ==
    \A c \in Loading : LoadOwed(c) \/ (pc = "startLoading" /\ c \in todo)

PhaseInv == PumpIdle /\ CandidatesUnloaded /\ OneToLoad /\ SavesAreReady

WInv ==
    /\ IInv
    /\ TypeOK
    /\ PhaseInv
    /\ LoadsOwed
    /\ GeneratingIsOwedChunk
    /\ BleedOnlyWhileUnready

-----------------------------------------------------------------------------
(* Every step of the world is a step of the store, or none.                *)

(* What the world saves are sets of edits, the contents the store knows. *)
LEMMA BlocksAreContents ==
    ASSUME TypeOK, NEW c \in Chunks
    PROVE  /\ blocks[c] \in Contents
           /\ blocks[c] \cup ToSet(pendingBleedWrites[c]) \in Contents
<1>1. /\ blocks[c] \subseteq Edits
      /\ pendingBleedWrites[c] \in Seq(Edits)
  BY DEF TypeOK
<1>2. ToSet(pendingBleedWrites[c]) \subseteq Edits
  BY <1>1 DEF ToSet
<1> QED BY <1>1, <1>2, ContentsAreEdits

(* The tick's calls: they are made while the pump is idle. *)
LEMMA TickCalls ==
    ASSUME TypeOK, PhaseInv, TickThread
    PROVE  [StoreNext]_rmVars
<1>1. CASE BeginTick \/ DrainGenQueue \/ DrainLoadDone \/ SimulationDone \/ AutoSaveDone
           \/ AddPlaceholders \/ RegionPumpDone \/ PumpPipelineDone
  BY <1>1 DEF BeginTick, DrainGenQueue, DrainLoadDone, SimulationDone, AutoSaveDone,
     AddPlaceholders, RegionPumpDone, PumpPipelineDone
<1>2. CASE RecoverFailedLoads
  BY <1>2 DEF RecoverFailedLoads, PhaseInv, PumpIdle, StoreNext
<1>3. CASE \E c \in Chunks : DrainLoad(c)
  BY <1>3 DEF DrainLoad, PhaseInv, PumpIdle, StoreNext, Call
<1>4. CASE \E c \in Chunks : AutoSave(c)
  <2>1. PICK c \in Chunks : AutoSave(c)
    BY <1>4
  <2>2. pumpPc = "idle" /\ SaveChunk(c, blocks[c]) /\ blocks[c] \in Contents
    BY <2>1, BlocksAreContents DEF AutoSave, PhaseInv, PumpIdle
  <2> QED BY <2>2 DEF StoreNext, Call
<1>5. CASE \E c \in Chunks : UnloadUnready(c)
  BY <1>5 DEF UnloadUnready, PhaseInv, PumpIdle, StoreNext, Call
<1>6. CASE \E c \in Chunks : UnloadReady(c)
  <2>1. PICK c \in Chunks : UnloadReady(c)
    BY <1>6
  <2>2. pumpPc = "idle" /\ blocks[c] \in Contents
    BY <2>1, BlocksAreContents DEF UnloadReady, PhaseInv, PumpIdle
  <2>3. SaveChunk(c, blocks[c]) \/ UNCHANGED rmVars
    BY <2>1 DEF UnloadReady
  <2> QED BY <2>2, <2>3 DEF StoreNext, Call
<1>7. CASE UnloadDone
  BY <1>7 DEF UnloadDone, StoreNext
<1>8. CASE WorldRegionPump
  BY <1>8 DEF WorldRegionPump, WorldPumpSave, StoreNext, PumpStep
<1>9. CASE \E c \in Chunks : StartGeneration(c) \/ FindOnDisk(c) \/ StartLoading(c)
  BY <1>9 DEF StartGeneration, FindOnDisk, StartLoading, PhaseInv, PumpIdle, StoreNext, Call
<1> QED BY <1>1, <1>2, <1>3, <1>4, <1>5, <1>6, <1>7, <1>8, <1>9 DEF TickThread

(* Shutdown's calls. *)
LEMMA ShutdownCalls ==
    ASSUME TypeOK, PhaseInv, ShutdownThread
    PROVE  [StoreNext]_rmVars
<1>1. CASE (\E c \in Chunks : BleedNext(c)) \/ AwaitTarget \/ PoolWait \/ IoWait
  BY <1>1 DEF BleedNext, AwaitTarget, PoolWait, IoWait
<1>2. CASE ApplyBleed
  <2>1. target \in Chunks /\ pumpPc = "idle"
    BY <1>2 DEF ApplyBleed, TypeOK, PhaseInv, PumpIdle
  <2>2. blocks'[target] \in Contents
    BY <1>2, <2>1, BlocksAreContents DEF ApplyBleed
  <2>3. SaveChunk(target, blocks'[target]) \/ UNCHANGED rmVars
    BY <1>2 DEF ApplyBleed
  <2> QED BY <2>1, <2>2, <2>3 DEF StoreNext, Call
<1>3. CASE FlushWorld \/ ShutdownDone \/ ReleaseBegin \/ ProcessEnd
  BY <1>3 DEF FlushWorld, ShutdownDone, ReleaseBegin, ProcessEnd, StoreNext
<1> QED BY <1>1, <1>2, <1>3 DEF ShutdownThread

(* The world's other steps leave the store alone, except for its IO threads. *)
LEMMA StepUsesStore ==
    ASSUME TypeOK, PhaseInv, [Next]_vars
    PROVE  [StoreNext]_rmVars
<1>1. CASE Environment \/ ShutdownBegin \/ Restart \/ \E c \in Chunks : Generate(c)
  BY <1>1 DEF Environment, SetBlock, MovePlayers, ShutdownBegin, Restart, Generate
<1>2. CASE TickThread \/ ShutdownThread
  BY <1>2, TickCalls, ShutdownCalls
<1>3. CASE WorldIoThreads
  BY <1>3 DEF WorldIoThreads, StoreNext
<1>4. CASE UNCHANGED vars
  BY <1>4 DEF vars
<1> QED BY <1>1, <1>2, <1>3, <1>4 DEF Next

-----------------------------------------------------------------------------
(* The phases of the main thread.                                          *)

(* No phase is left before the pump it started is idle, and the candidates of
   PumpPipeline wait for their turn unchanged. *)
LEMMA PhaseStep ==
    ASSUME TypeOK, PhaseInv, [Next]_vars
    PROVE  PhaseInv'
<1> USE DEF PhaseInv, PumpIdle, CandidatesUnloaded, OneToLoad, SavesAreReady, ValidChunks, Valid,
        Goto, slotVars
<1>1. CASE Environment \/ ShutdownBegin \/ Restart \/ \E c \in Chunks : Generate(c)
  BY <1>1 DEF Environment, SetBlock, MovePlayers, ShutdownBegin, Restart, Generate,
     ChunksToSave, rmVars, pumpVars
<1>2. CASE BeginTick \/ DrainGenQueue \/ DrainLoadDone \/ SimulationDone \/ AutoSaveDone
           \/ AddPlaceholders \/ RecoverFailedLoads
  BY <1>2 DEF BeginTick, DrainGenQueue, DrainLoadDone, SimulationDone, AutoSaveDone,
     AddPlaceholders, RecoverFailedLoads, TakeFailedLoads, ChunksToSave, rmVars, pumpVars
<1>3. CASE \E c \in Chunks : DrainLoad(c) \/ AutoSave(c) \/ UnloadUnready(c) \/ UnloadReady(c)
  BY <1>3 DEF DrainLoad, AutoSave, UnloadUnready, UnloadReady, GetChunk, SaveChunk,
     DiscardChunk, rmVars, pumpVars
<1>4. CASE UnloadDone \/ WorldRegionPump
  BY <1>4 DEF UnloadDone, WorldRegionPump, WorldPumpSave, PumpSave, PumpSaved, PumpMerge,
     PumpEnd, FlushWait
<1>5. CASE RegionPumpDone \/ AwaitTarget
  <2>1. pumpPc' = "idle" /\ pc' \in {"applyBleed", "worldPump"}
    BY <1>5 DEF RegionPumpDone, AwaitTarget, rmVars, pumpVars
  <2>2. pc' = "worldPump" => todo' \subseteq Unloaded /\ chunkState' = chunkState
    BY <1>5 DEF RegionPumpDone, AwaitTarget, Candidates
  <2> QED BY <2>1, <2>2 DEF Unloaded
<1>6. CASE \E c \in Chunks : StartGeneration(c)
  BY <1>6 DEF StartGeneration, ChunkExists, TypeOK, pumpVars
<1>7. CASE \E c \in Chunks : FindOnDisk(c)
  BY <1>7 DEF FindOnDisk, ChunkExists, TypeOK, pumpVars
<1>8. CASE \E c \in Chunks : StartLoading(c)
  BY <1>8 DEF StartLoading, LoadChunk, pumpVars
<1>9. CASE PumpPipelineDone \/ (\E c \in Chunks : BleedNext(c)) \/ PoolWait \/ IoWait
  BY <1>9 DEF PumpPipelineDone, BleedNext, PoolWait, IoWait, rmVars, pumpVars
<1>10. CASE ApplyBleed \/ FlushWorld \/ ShutdownDone \/ ReleaseBegin \/ ProcessEnd
  BY <1>10 DEF ApplyBleed, FlushWorld, ShutdownDone, ReleaseBegin, ProcessEnd, SaveChunk,
     PumpBegin, Release, FlushReturn, rmVars, pumpVars
<1>11. CASE WorldIoThreads
  BY <1>11 DEF WorldIoThreads, IoThreads, IoTake, IoSave, IoLoad, worldVars, pumpVars
<1>12. CASE UNCHANGED vars
  BY <1>12 DEF vars, worldVars, rmVars, pumpVars
<1> QED BY <1>1, <1>2, <1>3, <1>4, <1>5, <1>6, <1>7, <1>8, <1>9, <1>10, <1>11, <1>12
        DEF Next, TickThread, ShutdownThread

-----------------------------------------------------------------------------
(* What slots in transition are owed.                                      *)

(* A chunk that is being generated has a task or a result in the queue until
   DrainGenQueue takes the result. *)
LEMMA GeneratingStep ==
    ASSUME TypeOK, GeneratingIsOwedChunk, [Next]_vars
    PROVE  GeneratingIsOwedChunk'
<1> USE DEF GeneratingIsOwedChunk, genVars, slotVars, ToSet
<1>0. DOMAIN chunkState = Chunks /\ chunkState = [d \in Chunks |-> chunkState[d]]
  BY DEF TypeOK
<1>1. CASE \E c \in Chunks : Generate(c)
  <2>1. PICK c \in Chunks : Generate(c)
    BY <1>1
  <2>2. /\ genDoneQueue' = Append(genDoneQueue, c)
        /\ genDoneQueue \in Seq(Chunks)
        /\ genTasks' = [genTasks EXCEPT ![c] = @ - 1]
        /\ chunkState' = chunkState
    BY <2>1 DEF Generate, TypeOK
  <2>3. ToSet(genDoneQueue') = ToSet(genDoneQueue) \cup {c}
    BY <2>2
  <2> QED BY <2>2, <2>3
<1>2. CASE DrainGenQueue
  BY <1>2 DEF DrainGenQueue, Install, GenResults
<1>3. CASE \E c \in Chunks : StartGeneration(c)
  BY <1>3 DEF StartGeneration, TypeOK
<1>4. CASE \/ Environment \/ ShutdownBegin \/ Restart \/ BeginTick \/ RecoverFailedLoads
           \/ DrainLoadDone \/ SimulationDone \/ AutoSaveDone \/ AddPlaceholders
           \/ UnloadDone \/ WorldRegionPump \/ RegionPumpDone \/ PumpPipelineDone
  BY <1>4 DEF Environment, SetBlock, MovePlayers, ShutdownBegin, Restart, BeginTick,
     RecoverFailedLoads, DrainLoadDone, SimulationDone, AutoSaveDone, AddPlaceholders,
     UnloadDone, WorldRegionPump, RegionPumpDone, PumpPipelineDone
<1>5. CASE \E c \in Chunks : DrainLoad(c)
  BY <1>5 DEF DrainLoad, Install
<1>6. CASE \E c \in Chunks : AutoSave(c) \/ UnloadUnready(c) \/ UnloadReady(c)
  <2>1. PICK c \in Chunks : AutoSave(c) \/ UnloadUnready(c) \/ UnloadReady(c)
    BY <1>6
  <2>2. /\ \/ chunkState' = chunkState
           \/ chunkState' = [chunkState EXCEPT ![c] = "Absent"]
        /\ UNCHANGED genVars
    BY <2>1 DEF AutoSave, UnloadUnready, UnloadReady, Erase
  <2> QED BY <1>0, <2>2
<1>7. CASE \E c \in Chunks : FindOnDisk(c) \/ StartLoading(c) \/ BleedNext(c)
  <2>1. PICK c \in Chunks : FindOnDisk(c) \/ StartLoading(c) \/ BleedNext(c)
    BY <1>7
  <2>2. /\ \/ chunkState' = chunkState
           \/ chunkState' = [chunkState EXCEPT ![c] = "Loading"]
           \/ chunkState' = [chunkState EXCEPT ![c] = IF @ = "Absent" THEN "Unloaded" ELSE @]
        /\ UNCHANGED genVars
    BY <2>1 DEF FindOnDisk, StartLoading, BleedNext
  <2> QED BY <1>0, <2>2
<1>8. CASE \/ AwaitTarget \/ PoolWait \/ IoWait \/ ApplyBleed \/ FlushWorld \/ ShutdownDone
           \/ ReleaseBegin \/ ProcessEnd
  BY <1>8 DEF AwaitTarget, PoolWait, IoWait, ApplyBleed, FlushWorld, ShutdownDone,
     ReleaseBegin, ProcessEnd
<1>9. CASE WorldIoThreads \/ UNCHANGED vars
  BY <1>9 DEF WorldIoThreads, vars, worldVars
<1> QED BY <1>1, <1>2, <1>3, <1>4, <1>5, <1>6, <1>7, <1>8, <1>9
        DEF Next, TickThread, ShutdownThread

(* Installing a chunk clears what waited for it, and SetBlock writes to a chunk
   that is ready. *)
LEMMA BleedStep ==
    ASSUME TypeOK, BleedOnlyWhileUnready, [Next]_vars
    PROVE  BleedOnlyWhileUnready'
<1> USE DEF BleedOnlyWhileUnready, Bleeding, Valid, genVars, slotVars
<1>1. CASE Environment
  BY <1>1 DEF Environment, SetBlock, MovePlayers, TypeOK
<1>2. CASE DrainGenQueue \/ \E c \in Chunks : DrainLoad(c)
  BY <1>2 DEF DrainGenQueue, DrainLoad, Install, BleedLeft
<1>3. CASE \/ ShutdownBegin \/ Restart \/ BeginTick \/ RecoverFailedLoads
           \/ DrainLoadDone \/ SimulationDone \/ AutoSaveDone \/ AddPlaceholders
           \/ UnloadDone \/ WorldRegionPump \/ RegionPumpDone \/ PumpPipelineDone
  BY <1>3 DEF ShutdownBegin, Restart, BeginTick, RecoverFailedLoads, DrainLoadDone,
     SimulationDone, AutoSaveDone, AddPlaceholders, UnloadDone, WorldRegionPump,
     RegionPumpDone, PumpPipelineDone
<1>4. CASE \E c \in Chunks : \/ AutoSave(c) \/ UnloadUnready(c) \/ UnloadReady(c)
                             \/ StartGeneration(c) \/ FindOnDisk(c) \/ StartLoading(c)
                             \/ BleedNext(c) \/ Generate(c)
  BY <1>4 DEF AutoSave, UnloadUnready, UnloadReady, Erase, StartGeneration, FindOnDisk,
     StartLoading, BleedNext, Generate, TypeOK
<1>5. CASE \/ AwaitTarget \/ PoolWait \/ IoWait \/ ApplyBleed \/ FlushWorld \/ ShutdownDone
           \/ ReleaseBegin \/ ProcessEnd
  BY <1>5 DEF AwaitTarget, PoolWait, IoWait, ApplyBleed, FlushWorld, ShutdownDone,
     ReleaseBegin, ProcessEnd
<1>6. CASE WorldIoThreads \/ UNCHANGED vars
  BY <1>6 DEF WorldIoThreads, vars, worldVars
<1> QED BY <1>1, <1>2, <1>3, <1>4, <1>5, <1>6 DEF Next, TickThread, ShutdownThread

-----------------------------------------------------------------------------
(* Loads: a task in flight stays in flight until it has answered.          *)

(* Taking a task from the queue loses none. *)
LEMMA TakeKeepsTasks ==
    ASSUME RegionManagerTypeOK, NEW w \in Workers, IoTake(w)
    PROVE  TasksInFlight \subseteq TasksInFlight'
<1>1. /\ ioQueue \in Seq(Tasks)
      /\ ioQueue # <<>>
      /\ ioQueue' = Tail(ioQueue)
      /\ ioRunning' = [ioRunning EXCEPT ![w] = Head(ioQueue)]
      /\ ioRunning \in [Workers -> Tasks \cup {NoTask}]
      /\ ioRunning[w] = NoTask
  BY DEF RegionManagerTypeOK, IoTake
<1>2. /\ Len(ioQueue) \in Nat \ {0}
      /\ Len(ioQueue') = Len(ioQueue) - 1
      /\ \A i \in 1..Len(ioQueue') : ioQueue'[i] = ioQueue[i + 1]
      /\ Head(ioQueue) = ioQueue[1]
      /\ Head(ioQueue) \in Tasks
  BY <1>1
<1>3. ASSUME NEW i \in 1..Len(ioQueue)
      PROVE  ioQueue[i] \in TasksInFlight'
  <2>1. CASE i = 1
    <3>1. ioRunning'[w] = ioQueue[i] /\ ioRunning'[w] # NoTask
      BY <2>1, <1>1, <1>2, NullsDistinct
    <3> QED BY <3>1 DEF TasksInFlight
  <2>2. CASE i # 1
    <3>1. i - 1 \in 1..Len(ioQueue') /\ ioQueue'[i - 1] = ioQueue[i]
      BY <2>2, <1>2
    <3> QED BY <3>1 DEF TasksInFlight
  <2> QED BY <2>1, <2>2
<1>4. ASSUME NEW v \in Workers, ioRunning[v] # NoTask
      PROVE  ioRunning[v] \in TasksInFlight'
  BY <1>1, <1>4 DEF TasksInFlight
<1> QED BY <1>3, <1>4 DEF TasksInFlight

(* A thread that finishes loses its own task only. *)
LEMMA FinishKeepsTasks ==
    ASSUME RegionManagerTypeOK, NEW w \in Workers, ioQueue' = ioQueue,
           ioRunning' = [ioRunning EXCEPT ![w] = NoTask],
           NEW t \in TasksInFlight, t # ioRunning[w]
    PROVE  t \in TasksInFlight'
BY DEF RegionManagerTypeOK, TasksInFlight

(* The IO threads give an answer for each load they finish. *)
LEMMA IoKeepsOwed ==
    ASSUME RegionManagerTypeOK, NEW c \in Chunks, LoadOwed(c), IoThreads
    PROVE  LoadOwed(c)'
<1>1. PICK w \in Workers : IoTake(w) \/ IoSave(w) \/ IoLoad(w)
  BY DEF IoThreads
<1>2. CASE IoTake(w)
  <2>1. TasksInFlight \subseteq TasksInFlight' /\ UNCHANGED mailVars
    BY <1>2, TakeKeepsTasks DEF IoTake
  <2> QED BY <2>1 DEF LoadOwed, InFlight, mailVars
<1>3. CASE IoSave(w)
  <2>1. /\ ioQueue' = ioQueue /\ ioRunning' = [ioRunning EXCEPT ![w] = NoTask]
        /\ ioRunning[w].kind = "save"
        /\ UNCHANGED mailVars
    BY <1>3 DEF IoSave
  <2>2. \A t \in TasksInFlight : t.kind = "load" => t \in TasksInFlight'
    BY <2>1, FinishKeepsTasks
  <2> QED BY <2>1, <2>2 DEF LoadOwed, InFlight, mailVars
<1>4. CASE IoLoad(w)
  <2> DEFINE t == ioRunning[w]
  <2>1. /\ ioQueue' = ioQueue /\ ioRunning' = [ioRunning EXCEPT ![w] = NoTask]
        /\ t \in Tasks
        /\ t.chunk \in Chunks
    BY <1>4 DEF IoLoad, RegionManagerTypeOK, Tasks
  <2>2. /\ outChunks[c] # NoContent => outChunks'[c] # NoContent
        /\ c \in failedLoads => c \in failedLoads'
        /\ outChunks'[t.chunk] # NoContent \/ t.chunk \in failedLoads'
    BY <1>4, <2>1 DEF IoLoad, RegionManagerTypeOK
  <2>3. \A u \in TasksInFlight : u # t => u \in TasksInFlight'
    BY <2>1, FinishKeepsTasks
  <2> HIDE DEF t
  <2> QED BY <2>2, <2>3 DEF LoadOwed, InFlight
<1> QED BY <1>1, <1>2, <1>3, <1>4

(* Detaching a task, and any step that leaves the IO threads alone, keeps the
   loads that are under way. *)
LEMMA DetachKeepsTasks ==
    ASSUME RegionManagerTypeOK, NEW c \in Chunks, NEW h \in Handles,
           NEW kind \in {"save", "load"}, NEW content \in OptContents,
           Detach(kind, c, h, content), UNCHANGED ioRunning
    PROVE  /\ TasksInFlight \subseteq TasksInFlight'
           /\ \E t \in TasksInFlight' : t.chunk = c /\ t.kind = kind
<1> DEFINE t == [kind |-> kind, chunk |-> c, region |-> h, content |-> content]
<1>1. t \in Tasks /\ t.chunk = c /\ t.kind = kind
  BY DEF Tasks
<1>2. TasksInFlight' = TasksInFlight \cup {t}
  BY <1>1, DetachTasks DEF Detach
<1> QED BY <1>1, <1>2

(* A step that leaves the mailboxes and the IO threads alone keeps the answer
   that a slot is owed. *)
LEMMA QuietKeepsOwed ==
    ASSUME NEW c \in Chunks, LoadOwed(c), UNCHANGED <<ioVars, failedLoads>>,
           outChunks'[c] = outChunks[c]
    PROVE  LoadOwed(c)'
BY DEF LoadOwed, InFlight, TasksInFlight, ioVars

(* No step leaves a slot Loading that is not owed an answer. *)
LEMMA LoadsStep ==
    ASSUME IInv, TypeOK, PhaseInv, LoadsOwed, [Next]_vars
    PROVE  LoadsOwed'
<1> USE DEF LoadsOwed, genVars, slotVars, Goto
<1>0. /\ RegionManagerTypeOK
      /\ DOMAIN chunkState = Chunks /\ chunkState = [d \in Chunks |-> chunkState[d]]
      /\ DOMAIN outChunks = Chunks /\ outChunks = [d \in Chunks |-> outChunks[d]]
  BY DEF TypeOK, RegionManagerTypeOK
\* Steps that start no load and touch none.
<1>1. ASSUME pc # "startLoading", UNCHANGED <<ioVars, mailVars>>, Loading' \subseteq Loading
      PROVE  LoadsOwed'
  BY <1>1, QuietKeepsOwed DEF mailVars, Loading
<1>2. CASE \/ BeginTick \/ DrainGenQueue \/ DrainLoadDone \/ SimulationDone \/ AutoSaveDone
           \/ AddPlaceholders \/ UnloadDone \/ RegionPumpDone \/ PumpPipelineDone
           \/ Environment \/ ShutdownBegin \/ Restart
  <2>1. Loading' \subseteq Loading /\ pc # "startLoading"
    BY <1>0, <1>2 DEF BeginTick, DrainGenQueue, Install, DrainLoadDone, SimulationDone,
       AutoSaveDone, AddPlaceholders, UnloadDone, RegionPumpDone, PumpPipelineDone,
       Environment, SetBlock, MovePlayers, ShutdownBegin, Restart, Loading
  <2>2. UNCHANGED <<ioVars, mailVars>>
    BY <1>2 DEF BeginTick, DrainGenQueue, DrainLoadDone, SimulationDone,
       AutoSaveDone, AddPlaceholders, UnloadDone, PumpBegin, RegionPumpDone, PumpPipelineDone,
       Environment, SetBlock, MovePlayers, ShutdownBegin, Restart, rmVars
  <2> QED BY <2>1, <2>2, <1>1
<1>3. CASE \/ AwaitTarget \/ PoolWait \/ IoWait \/ FlushWorld \/ ShutdownDone \/ ReleaseBegin
           \/ (\E c \in Chunks : BleedNext(c)) \/ \E c \in Chunks : StartGeneration(c)
  <2>1. pc # "startLoading" /\ UNCHANGED <<ioVars, mailVars>>
    BY <1>3 DEF AwaitTarget, PoolWait, IoWait, FlushWorld, ShutdownDone, ReleaseBegin,
       BleedNext, StartGeneration, ChunkExists, PumpBegin, FlushReturn, rmVars
  <2>2. Loading' \subseteq Loading
    BY <1>0, <1>3 DEF AwaitTarget, PoolWait, IoWait, FlushWorld, ShutdownDone, ReleaseBegin,
       BleedNext, StartGeneration, Loading
  <2> QED BY <2>1, <2>2, <1>1
\* A save drops the answer of an older load, of a chunk that is ready.
<1>4. ASSUME NEW c \in Chunks, NEW content, chunkState[c] # "Loading",
             SaveChunk(c, content), Loading' \subseteq Loading, pc # "startLoading"
      PROVE  LoadsOwed'
  BY <1>0, <1>4, QuietKeepsOwed DEF SaveChunk, Loading
<1>5. CASE \E c \in Chunks : AutoSave(c) \/ UnloadReady(c)
  <2>1. PICK c \in Chunks : AutoSave(c) \/ UnloadReady(c)
    BY <1>5
  <2>2. Valid(c) /\ pc # "startLoading"
    BY <2>1 DEF AutoSave, UnloadReady, PhaseInv, SavesAreReady, ValidChunks
  <2>3. SaveChunk(c, blocks[c]) \/ UNCHANGED <<ioVars, mailVars>>
    BY <2>1 DEF AutoSave, UnloadReady, rmVars
  <2>4. Loading' \subseteq Loading
    BY <1>0, <2>1 DEF AutoSave, UnloadReady, Erase, Loading
  <2> QED BY <2>2, <2>3, <2>4, <1>1, <1>4 DEF Valid
<1>6. CASE ApplyBleed
  <2>1. /\ pc # "startLoading" /\ Loading' = Loading
        /\ target \in Chunks
        /\ target \in isModified \cup ValidChunks => Valid(target)
    BY <1>6 DEF ApplyBleed, Loading, TypeOK, ValidChunks
  <2>2. \/ UNCHANGED <<ioVars, mailVars>>
        \/ SaveChunk(target, blocks'[target]) /\ Valid(target)
    BY <1>6, <2>1 DEF ApplyBleed, rmVars
  <2> QED BY <2>1, <2>2, <1>1, <1>4 DEF Valid
\* Answers that are taken, or given up with their slot.
<1>7. CASE RecoverFailedLoads
  <2>1. /\ pc # "startLoading" /\ UNCHANGED <<ioVars, outChunks>>
        /\ \A c \in Loading' : c \in Loading /\ c \notin failedLoads
    BY <1>7 DEF RecoverFailedLoads, TakeFailedLoads, Recovered, Loading
  <2> QED BY <2>1 DEF LoadOwed, InFlight, TasksInFlight, ioVars, Loading
<1>8. CASE \E c \in Chunks : DrainLoad(c) \/ UnloadUnready(c)
  <2>1. PICK c \in Chunks : DrainLoad(c) \/ UnloadUnready(c)
    BY <1>8
  <2>2. CASE UNCHANGED <<slotVars, rmVars>>
    BY <2>1, <2>2, <1>1 DEF DrainLoad, UnloadUnready, rmVars, Loading
  <2>3. CASE ~UNCHANGED <<slotVars, rmVars>>
    <3>1. /\ pc # "startLoading" /\ UNCHANGED ioVars
          /\ \A d \in Chunks \ {c} : /\ outChunks'[d] = outChunks[d]
                                     /\ d \in failedLoads => d \in failedLoads'
                                     /\ d \in Loading' => d \in Loading
          /\ c \notin Loading'
      BY <1>0, <2>1, <2>3 DEF DrainLoad, UnloadUnready, Install, GetChunk, DiscardChunk,
         Erase, Loading
    <3> QED BY <3>1 DEF LoadOwed, InFlight, TasksInFlight, ioVars, Loading
  <2> QED BY <2>2, <2>3
<1>9. CASE ProcessEnd
  BY <1>9 DEF ProcessEnd, Loading
\* Loads that are started.
<1>10. CASE \E c \in Chunks : FindOnDisk(c)
  <2>1. PICK c \in Chunks : FindOnDisk(c)
    BY <1>10
  <2>2. /\ pc # "startLoading" /\ pc' = "startLoading"
        /\ UNCHANGED <<ioVars, mailVars, todo>> /\ c \in todo
        /\ Loading' \subseteq Loading \cup {c}
    BY <1>0, <2>1 DEF FindOnDisk, ChunkExists, Loading
  <2> QED BY <2>2, QuietKeepsOwed DEF mailVars, Loading
<1>11. CASE \E c \in Chunks : StartLoading(c)
  <2>1. PICK c \in Chunks : StartLoading(c)
    BY <1>11
  <2>2. /\ pc = "startLoading" /\ c \in todo /\ chunkState[c] = "Loading"
        /\ chunkState' = chunkState
        /\ LoadChunk(c)
    BY <2>1 DEF StartLoading
  <2>3. \A d \in Loading : LoadOwed(d) \/ d = c
    BY <2>2 DEF PhaseInv, OneToLoad, Loading
  <2>4. /\ outChunks' = outChunks /\ ioRunning' = ioRunning
        /\ failedLoads \subseteq failedLoads'
        /\ \/ ioQueue' = ioQueue /\ c \in failedLoads'
           \/ \E h \in Handles : Detach("load", c, h, NoContent)
    BY <2>2 DEF LoadChunk
  <2>5. TasksInFlight \subseteq TasksInFlight' /\ LoadOwed(c)'
    <3>1. CASE ioQueue' = ioQueue /\ c \in failedLoads'
      BY <3>1, <2>4 DEF LoadOwed, TasksInFlight
    <3>2. CASE \E h \in Handles : Detach("load", c, h, NoContent)
      BY <3>2, <2>4, <1>0, DetachKeepsTasks DEF LoadOwed, InFlight, OptContents
    <3> QED BY <3>1, <3>2, <2>4
  <2> QED BY <2>2, <2>3, <2>4, <2>5 DEF LoadOwed, InFlight, Loading
\* The store's own work.
<1>12. CASE WorldRegionPump
  <2>1. /\ UNCHANGED <<chunkState, mailVars, ioRunning>>
        /\ pc # "startLoading"
    BY <1>12 DEF WorldRegionPump, WorldPumpSave, PumpSave, PumpSaved, PumpMerge, PumpEnd,
       FlushWait, ioVars, PhaseInv, PumpIdle
  <2>2. \/ ioQueue' = ioQueue
        \/ \E c \in Chunks, h \in Handles : Detach("save", c, h, toSave[c])
    BY <1>12 DEF WorldRegionPump, WorldPumpSave, PumpSave, PumpSaved, PumpMerge, PumpEnd,
       FlushWait, ioVars
  <2>3. TasksInFlight \subseteq TasksInFlight'
    <3>1. CASE ioQueue' = ioQueue
      BY <3>1, <2>1 DEF TasksInFlight
    <3>2. CASE \E c \in Chunks, h \in Handles : Detach("save", c, h, toSave[c])
      <4>1. \A c \in Chunks : toSave[c] \in OptContents
        BY <1>0 DEF RegionManagerTypeOK
      <4> QED BY <3>2, <4>1, <2>1, <1>0, DetachKeepsTasks
    <3> QED BY <3>1, <3>2, <2>2
  <2> QED BY <2>1, <2>3 DEF LoadOwed, InFlight, Loading, mailVars
<1>13. CASE WorldIoThreads
  <2>1. IoThreads /\ UNCHANGED <<chunkState, pc, todo>>
    BY <1>13 DEF WorldIoThreads, worldVars
  <2> QED BY <1>0, <2>1, IoKeepsOwed DEF Loading
<1>14. CASE (\E c \in Chunks : Generate(c)) \/ UNCHANGED vars
  <2>1. UNCHANGED <<chunkState, pc, todo, ioVars, mailVars>>
    BY <1>14 DEF Generate, vars, worldVars, rmVars
  <2> QED BY <2>1, QuietKeepsOwed DEF Loading, mailVars
<1> QED BY <1>2, <1>3, <1>5, <1>6, <1>7, <1>8, <1>9, <1>10, <1>11, <1>12, <1>13, <1>14
        DEF Next, TickThread, ShutdownThread

-----------------------------------------------------------------------------
(* Types.                                                                  *)

(* An edit for a chunk that is not ready takes the place of the oldest when the
   queue is full, so the queue never gets longer than its bound. *)
LEMMA SetBlockType ==
    ASSUME TypeOK, NEW c \in Chunks, NEW e \in Edits, SetBlock(c, e), IInv'
    PROVE  TypeOK'
<1>1. /\ UNCHANGED <<chunkState, genVars, wanted, pc, todo, target, stopping, raced, late>>
      /\ RegionManagerTypeOK'
  BY DEF SetBlock, IInv
<1>2. /\ blocks' \in [Chunks -> SUBSET Edits]
      /\ isModified' \subseteq ValidChunks'
      /\ edited' \in [Chunks -> SUBSET Edits]
  <2>1. CASE Valid(c)
    <3>1. /\ blocks' = [blocks EXCEPT ![c] = @ \cup {e}]
          /\ edited' = [edited EXCEPT ![c] = @ \cup {e}]
          /\ isModified' = isModified \cup {c}
          /\ ValidChunks' = ValidChunks
      BY <1>1, <2>1 DEF SetBlock, ValidChunks, Valid
    <3>2. c \in ValidChunks /\ isModified \subseteq ValidChunks
      BY <2>1 DEF TypeOK, ValidChunks
    <3>3. blocks \in [Chunks -> SUBSET Edits] /\ edited \in [Chunks -> SUBSET Edits]
      BY DEF TypeOK
    <3>4. isModified' \subseteq ValidChunks'
      BY <3>1, <3>2
    <3>5. blocks' \in [Chunks -> SUBSET Edits]
      BY <3>1, <3>3
    <3>6. edited' \in [Chunks -> SUBSET Edits]
      BY <3>1, <3>3
    <3> QED BY <3>4, <3>5, <3>6
  <2>2. CASE ~Valid(c)
    <3>1. edited' = [edited EXCEPT ![c] = edited'[c]] /\ edited'[c] \subseteq Edits
      BY <2>2 DEF SetBlock, TypeOK
    <3> QED BY <1>1, <2>2, <3>1 DEF SetBlock, TypeOK, ValidChunks, Valid
  <2> QED BY <2>1, <2>2
<1>3. /\ pendingBleedWrites' \in [Chunks -> Seq(Edits)]
      /\ \A d \in Chunks : Len(pendingBleedWrites'[d]) <= MaxBleed
  <2>1. CASE Valid(c)
    BY <2>1 DEF SetBlock, TypeOK
  <2>2. CASE ~Valid(c)
    <3> DEFINE queue == pendingBleedWrites[c]
               kept == IF BleedFull(queue) THEN Tail(queue) ELSE queue
    <3>1. queue \in Seq(Edits) /\ Len(queue) <= MaxBleed /\ Len(queue) \in Nat
      BY DEF TypeOK
    <3>2. pendingBleedWrites' = [pendingBleedWrites EXCEPT ![c] = Append(kept, e)]
      BY <2>2 DEF SetBlock
    <3>3. kept \in Seq(Edits) /\ Len(kept) <= MaxBleed - 1
      BY <3>1, MaxBleedType DEF BleedFull
    <3>4. Append(kept, e) \in Seq(Edits) /\ Len(Append(kept, e)) <= MaxBleed
      BY <3>3, MaxBleedType
    <3> HIDE DEF kept
    <3> QED BY <3>2, <3>4 DEF TypeOK
  <2> QED BY <2>1, <2>2
<1> QED BY <1>1, <1>2, <1>3 DEF TypeOK, genVars, ValidChunks, Valid

(* Installing the chunks of a drain. *)
LEMMA InstallType ==
    ASSUME TypeOK, NEW ready \in SUBSET Chunks, NEW loaded,
           \A c \in ready : loaded[c] \subseteq Edits, Install(ready, loaded)
    PROVE  /\ chunkState' \in [Chunks -> {"Absent", "Unloaded", "Generating", "Loading",
                                         "Generated"}]
           /\ blocks' \in [Chunks -> SUBSET Edits]
           /\ pendingBleedWrites' \in [Chunks -> Seq(Edits)]
           /\ \A c \in Chunks : Len(pendingBleedWrites'[c]) <= MaxBleed
           /\ ValidChunks \cup ready \subseteq ValidChunks'
<1>1. \A c \in Chunks : ToSet(pendingBleedWrites[c]) \subseteq Edits
  BY DEF TypeOK, ToSet
<1>2. blocks' \in [Chunks -> SUBSET Edits]
  BY <1>1 DEF Install, TypeOK
<1>3. /\ chunkState' \in [Chunks -> {"Absent", "Unloaded", "Generating", "Loading",
                                     "Generated"}]
      /\ ValidChunks \cup ready \subseteq ValidChunks'
  BY DEF Install, TypeOK, ValidChunks, Valid
<1>4. /\ pendingBleedWrites' \in [Chunks -> Seq(Edits)]
      /\ \A c \in Chunks : Len(pendingBleedWrites'[c]) <= MaxBleed
  <2>1. \A c \in Chunks : pendingBleedWrites'[c] \in {<<>>, pendingBleedWrites[c]}
    BY DEF Install, BleedLeft
  <2>2. DOMAIN pendingBleedWrites' = Chunks
        /\ pendingBleedWrites' = [c \in Chunks |-> pendingBleedWrites'[c]]
    BY DEF Install, BleedLeft
  <2>3. <<>> \in Seq(Edits) /\ Len(<<>>) <= MaxBleed
    BY MaxBleedType
  <2>4. \A c \in Chunks : /\ pendingBleedWrites'[c] \in Seq(Edits)
                          /\ Len(pendingBleedWrites'[c]) <= MaxBleed
    BY <2>1, <2>3 DEF TypeOK
  <2> QED BY <2>2, <2>4
<1> QED BY <1>2, <1>3, <1>4

(* What the phases of the main thread, the queues of the pools and the history
   may become, while the slots stay as they are. *)
ControlTyped ==
    /\ genTasks \in [Chunks -> Nat]
    /\ genDoneQueue \in Seq(Chunks)
    /\ wanted \subseteq Chunks
    /\ pc \in Phases
    /\ todo \subseteq Chunks
    /\ target \in Chunks
    /\ stopping \in BOOLEAN
    /\ edited \in [Chunks -> SUBSET Edits]
    /\ raced \subseteq Chunks
    /\ late \subseteq Chunks

(* A step that changes no slot keeps their types. *)
LEMMA QuietType ==
    ASSUME TypeOK, IInv', UNCHANGED slotVars, ControlTyped'
    PROVE  TypeOK'
BY DEF TypeOK, IInv, slotVars, ControlTyped, ValidChunks, Valid

(* A step that puts slots in a state where they hold no chunk, or were ready
   before. *)
LEMMA SlotType ==
    ASSUME TypeOK, IInv', ControlTyped', UNCHANGED pendingBleedWrites,
           NEW c \in Chunks, NEW state \in {"Absent", "Unloaded", "Generating", "Loading"},
           chunkState' = [chunkState EXCEPT ![c] = state],
           \/ UNCHANGED <<blocks, isModified>> /\ ~Valid(c)
           \/ blocks' = [blocks EXCEPT ![c] = {}] /\ isModified' = isModified \ {c}
    PROVE  TypeOK'
BY DEF TypeOK, IInv, ControlTyped, ValidChunks, Valid

(* Every step keeps the types of the world, the store's being kept. *)
LEMMA TypeStep ==
    ASSUME TypeOK, PhaseInv, [Next]_vars, IInv'
    PROVE  TypeOK'
<1> USE DEF genVars, slotVars, history, Goto
<1>0. ControlTyped /\ \A flag \in BOOLEAN : ChunksToSave(flag) \subseteq Chunks
  BY DEF ControlTyped, TypeOK, ChunksToSave, ValidChunks
<1>1. CASE Environment
  <2>1. CASE \E area \in SUBSET Chunks : MovePlayers(area)
    BY <2>1, <1>0, QuietType DEF MovePlayers, ControlTyped
  <2> QED BY <2>1, <1>1, SetBlockType DEF Environment
<1>2. CASE BeginTick \/ DrainLoadDone \/ AutoSaveDone \/ UnloadDone \/ PumpPipelineDone
  BY <1>2, <1>0, QuietType DEF BeginTick, DrainLoadDone, AutoSaveDone, UnloadDone,
     PumpPipelineDone, ControlTyped, Phases
<1>3. CASE SimulationDone \/ ShutdownBegin
  BY <1>3, <1>0, QuietType DEF SimulationDone, ShutdownBegin, ControlTyped, Phases, Bleeding
<1>4. CASE RegionPumpDone \/ AwaitTarget
  <2>1. \A batch \in Candidates : batch \subseteq Chunks
    BY DEF Candidates, Unloaded
  <2> QED BY <2>1, <1>4, <1>0, QuietType DEF RegionPumpDone, AwaitTarget, ControlTyped, Phases
<1>5. CASE WorldRegionPump
  BY <1>5, <1>0, QuietType DEF WorldRegionPump, WorldPumpSave, Race, ControlTyped
<1>6. CASE PoolWait \/ IoWait \/ FlushWorld \/ ShutdownDone \/ ReleaseBegin
  BY <1>6, <1>0, QuietType DEF PoolWait, IoWait, FlushWorld, ShutdownDone, ReleaseBegin,
     ControlTyped, Phases
<1>7. CASE Restart
  <2>1. \A c \in Chunks : OnDisk(c) \subseteq Edits
    BY ContentsAreEdits DEF OnDisk, TypeOK, RegionManagerTypeOK, OptContents
  <2> QED BY <2>1, <1>7, <1>0, QuietType DEF Restart, ControlTyped, Phases
<1>8. CASE \E c \in Chunks : Generate(c) \/ StartLoading(c)
  <2>1. PICK c \in Chunks : Generate(c) \/ StartLoading(c)
    BY <1>8
  <2>2. CASE Generate(c)
    <3>1. genTasks' \in [Chunks -> Nat] /\ genDoneQueue' \in Seq(Chunks)
      BY <2>2, <1>0 DEF Generate, ControlTyped
    <3> QED BY <3>1, <2>2, <1>0, QuietType DEF Generate, ControlTyped
  <2>3. CASE StartLoading(c)
    BY <2>3, <1>0, QuietType DEF StartLoading, Race, ControlTyped, Phases
  <2> QED BY <2>1, <2>2, <2>3
<1>9. CASE WorldIoThreads \/ UNCHANGED vars
  BY <1>9, <1>0, QuietType DEF WorldIoThreads, vars, worldVars, ControlTyped
<1>10. CASE DrainGenQueue
  <2>1. GenResults \subseteq Chunks
    BY DEF GenResults, ToSet, TypeOK
  <2>2. ControlTyped'
    BY <1>10, <1>0 DEF DrainGenQueue, ControlTyped, Phases
  <2>3. isModified' \subseteq ValidChunks \cup GenResults
    BY <1>10 DEF DrainGenQueue, TypeOK
  <2>4. Install(GenResults, [c \in Chunks |-> {}])
    BY <1>10 DEF DrainGenQueue
  <2> QED BY <2>1, <2>2, <2>3, <2>4, InstallType DEF ControlTyped, TypeOK, IInv
<1>11. CASE \E c \in Chunks : DrainLoad(c)
  <2>1. PICK c \in Chunks : DrainLoad(c)
    BY <1>11
  <2>2. ControlTyped'
    BY <2>1, <1>0 DEF DrainLoad, ControlTyped
  <2>3. CASE outChunks[c] = NoContent
    BY <2>1, <2>2, <2>3, QuietType DEF DrainLoad
  <2>4. CASE outChunks[c] # NoContent
    <3>1. outChunks[c] \subseteq Edits
      BY <2>4, ContentsAreEdits DEF TypeOK, RegionManagerTypeOK, OptContents
    <3>2. Install({c}, outChunks) /\ isModified' \subseteq ValidChunks \cup {c}
      BY <2>1, <2>4 DEF DrainLoad, TypeOK
    <3> QED BY <3>1, <3>2, <2>2, InstallType DEF ControlTyped, TypeOK, IInv
  <2> QED BY <2>3, <2>4
<1>12. CASE RecoverFailedLoads \/ AddPlaceholders
  <2>1. ControlTyped'
    BY <1>12, <1>0 DEF RecoverFailedLoads, AddPlaceholders, Loading, ControlTyped, Phases
  <2> QED BY <1>12, <2>1 DEF RecoverFailedLoads, AddPlaceholders, Recovered, Loading, TypeOK,
           ControlTyped, IInv, ValidChunks, Valid
<1>13. CASE \E c \in Chunks : AutoSave(c)
  BY <1>13, <1>0 DEF AutoSave, TypeOK, ControlTyped, IInv, ValidChunks, Valid
<1>14. CASE \E c \in Chunks : UnloadUnready(c) \/ UnloadReady(c)
  <2>1. PICK c \in Chunks : UnloadUnready(c) \/ UnloadReady(c)
    BY <1>14
  <2>2. ControlTyped'
    BY <2>1, <1>0 DEF UnloadUnready, UnloadReady, Race, ControlTyped
  <2> QED BY <2>1, <2>2, SlotType DEF UnloadUnready, UnloadReady, Erase
<1>15. CASE \E c \in Chunks : StartGeneration(c) \/ FindOnDisk(c) \/ BleedNext(c)
  <2>1. PICK c \in Chunks : StartGeneration(c) \/ FindOnDisk(c) \/ BleedNext(c)
    BY <1>15
  <2>2. ControlTyped'
    <3>1. CASE StartGeneration(c)
      BY <3>1, <1>0 DEF StartGeneration, Race, ControlTyped
    <3>2. CASE FindOnDisk(c) \/ BleedNext(c)
      BY <3>2, <1>0 DEF FindOnDisk, BleedNext, ControlTyped, Phases
    <3> QED BY <2>1, <3>1, <3>2
  <2>3. CASE BleedNext(c)
    BY <2>2, <2>3 DEF BleedNext, TypeOK, ControlTyped, IInv, ValidChunks, Valid
  <2>4. CASE StartGeneration(c) \/ FindOnDisk(c)
    BY <2>2, <2>4, SlotType DEF StartGeneration, FindOnDisk, PhaseInv, CandidatesUnloaded, Valid
  <2> QED BY <2>1, <2>3, <2>4
<1>16. CASE ApplyBleed
  <2>1. ControlTyped'
    BY <1>16, <1>0 DEF ApplyBleed, ControlTyped, Phases
  <2>2. \A c \in Chunks : ToSet(pendingBleedWrites[c]) \subseteq Edits
    BY DEF ToSet, TypeOK
  <2>3. blocks' \in [Chunks -> SUBSET Edits]
    BY <1>16, <2>2 DEF ApplyBleed, TypeOK
  <2>4. /\ pendingBleedWrites' \in [Chunks -> Seq(Edits)]
        /\ \A c \in Chunks : Len(pendingBleedWrites'[c]) <= MaxBleed
    <3>1. \A c \in Chunks : pendingBleedWrites'[c] \in {<<>>, pendingBleedWrites[c]}
      BY <1>16 DEF ApplyBleed
    <3>2. pendingBleedWrites' = [c \in Chunks |-> pendingBleedWrites'[c]]
      BY <1>16 DEF ApplyBleed
    <3>3. <<>> \in Seq(Edits) /\ Len(<<>>) <= MaxBleed
      BY MaxBleedType
    <3>4. \A c \in Chunks : /\ pendingBleedWrites'[c] \in Seq(Edits)
                            /\ Len(pendingBleedWrites'[c]) <= MaxBleed
      BY <3>1, <3>3 DEF TypeOK
    <3> QED BY <3>2, <3>4
  <2>5. isModified' \subseteq ValidChunks'
    BY <1>16 DEF ApplyBleed, TypeOK, ValidChunks, Valid
  <2>6. UNCHANGED chunkState
    BY <1>16 DEF ApplyBleed
  <2> QED BY <2>1, <2>3, <2>4, <2>5, <2>6 DEF TypeOK, ControlTyped, IInv
<1>17. CASE ProcessEnd
  <2>1. ControlTyped'
    BY <1>17, <1>0 DEF ProcessEnd, ControlTyped, Phases
  <2>2. /\ pendingBleedWrites' \in [Chunks -> Seq(Edits)]
        /\ \A c \in Chunks : Len(pendingBleedWrites'[c]) <= MaxBleed
    BY <1>17, MaxBleedType DEF ProcessEnd
  <2> QED BY <1>17, <2>1, <2>2 DEF ProcessEnd, TypeOK, ControlTyped, IInv
<1> QED BY <1>1, <1>2, <1>3, <1>4, <1>5, <1>6, <1>7, <1>8, <1>9, <1>10, <1>11, <1>12, <1>13,
           <1>14, <1>15, <1>16, <1>17 DEF Next, TickThread, ShutdownThread

-----------------------------------------------------------------------------
(* The theorems.                                                           *)

(* A server starts with no slots and a store with empty queues. *)
THEOREM PipelineInit == Init => WInv
<1> SUFFICES ASSUME Init PROVE WInv
  OBVIOUS
<1>1. IInv
  BY InitInv DEF Init
<1>2. /\ pendingBleedWrites \in [Chunks -> Seq(Edits)]
      /\ \A c \in Chunks : Len(pendingBleedWrites[c]) <= MaxBleed
      /\ genDoneQueue \in Seq(Chunks)
  BY MaxBleedType DEF Init
<1>3. TypeOK
  BY <1>1, <1>2 DEF Init, TypeOK, IInv, Phases
<1>4. PhaseInv
  BY DEF Init, RegionManagerInit, PhaseInv, PumpIdle, CandidatesUnloaded, OneToLoad,
     SavesAreReady
<1> QED BY <1>1, <1>3, <1>4 DEF Init, WInv, LoadsOwed, Loading, GeneratingIsOwedChunk,
         BleedOnlyWhileUnready, Bleeding

(* Every step of the tick, of shutdown and of the pools keeps the invariant. *)
THEOREM PipelineNext == WInv /\ [Next]_vars => WInv'
<1> SUFFICES ASSUME WInv, [Next]_vars PROVE WInv'
  OBVIOUS
<1> USE DEF WInv
<1>1. IInv'
  BY StepUsesStore, NextInv
<1> QED BY <1>1, TypeStep, PhaseStep, LoadsStep, GeneratingStep, BleedStep

(* The inductive invariant of the world and its store. *)
THEOREM PipelineInvariant == Spec => []WInv
BY PipelineInit, PipelineNext, PTL DEF Spec

(* The world implements a caller of the store: no phase of a tick or of
   Shutdown calls the store inside another of its operations, so all that is
   proved of the store holds in the running server. *)
THEOREM WorldUsesStore == Spec => UsesStore
<1>1. Init => RegionManagerInit
  BY DEF Init
<1>2. WInv /\ [Next]_vars => [StoreNext]_rmVars
  BY StepUsesStore DEF WInv
<1> QED BY <1>1, <1>2, PipelineInvariant, PTL DEF Spec, UsesStore, StoreSpec

(* In the running server, too, one file has one usable Region object with a
   current header. *)
THEOREM WorldRegionsSafe == Spec => [](OneRegionPerFile /\ HeaderCoherent)
BY WorldUsesStore, RegionUnique, HeadersCoherent, PTL DEF UsesStore

(* No slot stays Loading without a load under way, an answer, or the call that
   starts it. *)
THEOREM LoadingOwed == Spec => []LoadingIsOwedAnswer
<1>1. WInv => LoadingIsOwedAnswer
  BY DEF WInv, LoadsOwed, LoadOwed, LoadingIsOwedAnswer
<1> QED BY <1>1, PipelineInvariant, PTL

(* No slot stays Generating without a task or a result of the pool. *)
THEOREM GeneratingOwed == Spec => []GeneratingIsOwedChunk
<1>1. WInv => GeneratingIsOwedChunk
  BY DEF WInv
<1> QED BY <1>1, PipelineInvariant, PTL

(* Edits wait only for chunks that are not ready. *)
THEOREM BleedWaits == Spec => []BleedOnlyWhileUnready
<1>1. WInv => BleedOnlyWhileUnready
  BY DEF WInv
<1> QED BY <1>1, PipelineInvariant, PTL

(* The types of the world; with them the bound of pendingBleedWrites. *)
THEOREM PipelineTyped == Spec => []TypeOK
<1>1. WInv => TypeOK
  BY DEF WInv
<1> QED BY <1>1, PipelineInvariant, PTL

(* Whatever waits in the world, a slot or an edit, has something to wait for. *)
THEOREM NothingStuck == Spec => []NothingIsStuck
BY LoadingOwed, GeneratingOwed, BleedWaits, PTL DEF NothingIsStuck

-----------------------------------------------------------------------------
(***************************************************************************)
(* No edit is lost (EditsKept), and what was ready when Shutdown began is  *)
(* saved (ShutdownKeepsReady).                                             *)
(*                                                                         *)
(* An edit is in one of five places: with the edits that wait for the      *)
(* chunk, in the chunk itself, in a snapshot that waits to be saved, in    *)
(* the hands of an IO thread, or on disk.  What makes the newest of them   *)
(* the one the next visitor finds is, for a chunk on which no two          *)
(* operations of the store overlapped,                                     *)
(*   - that the saves under way overtake nothing: an older snapshot is     *)
(*     part of every younger one and of the chunk (SavesInOrder);          *)
(*   - that a load is alone: it is the only one, its slot waits for it,    *)
(*     no save is under way, and its answer is what is on disk             *)
(*     (LoadAlone), so an old answer never finds a slot to fill;           *)
(*   - that a chunk is generated only where nothing was saved              *)
(*     (GeneratedFresh);                                                   *)
(*   - and that a chunk the world need not save is the newest snapshot     *)
(*     already (CleanIsNewest).                                            *)
(* The eviction of the oldest waiting edit forgets that edit only because  *)
(* it is nowhere else (BleedIsNew).                                        *)
(*                                                                         *)
(* The end of a stopping server is the pump's: FlushAll leaves nothing     *)
(* queued when it lets the regions go (FlushEmpties), and until then a     *)
(* chunk that was ready is saved as it is or still to be saved             *)
(* (SavedWhileStopping).  Both need that a region can be had for every     *)
(* save: a refused one is lost with the process (RegionsFit).              *)
(***************************************************************************)

TasksOf(c) == {t \in TasksInFlight : t.chunk = c}

SaveTasksOf(c) == {t \in TasksOf(c) : t.kind = "save"}

\* What is saved of a chunk, or will be when the pump and the IO threads get to it.
Newest(c) ==
    IF saveQueue[c] # NoContent THEN saveQueue[c]
    ELSE IF toSave[c] # NoContent THEN toSave[c]
    ELSE IF SaveTasksOf(c) # {} THEN (CHOOSE t \in SaveTasksOf(c) : TRUE).content
    ELSE OnDisk(c)

SavesInOrder(c) ==
    /\ toSave[c] # NoContent => saveQueue[c] = NoContent
    /\ \A t \in SaveTasksOf(c) :
          /\ t.content # NoContent
          /\ saveQueue[c] # NoContent => t.content \subseteq saveQueue[c]
          /\ toSave[c] # NoContent => t.content \subseteq toSave[c]
          /\ Valid(c) => t.content \subseteq blocks[c]
    /\ Valid(c) /\ saveQueue[c] # NoContent => saveQueue[c] \subseteq blocks[c]
    /\ Valid(c) /\ toSave[c] # NoContent => toSave[c] \subseteq blocks[c]
    /\ \A t, u \in SaveTasksOf(c) : t = u

IsLoad(t, c) == t # NoTask /\ t.chunk = c /\ t.kind = "load"

\* One load at most, in the queue or in the hands of a thread.
LoadsOnce(c) ==
    /\ \A i, j \in 1..Len(ioQueue) : IsLoad(ioQueue[i], c) /\ IsLoad(ioQueue[j], c) => i = j
    /\ \A v, w \in Workers : IsLoad(ioRunning[v], c) /\ IsLoad(ioRunning[w], c) => v = w
    /\ \A i \in 1..Len(ioQueue), w \in Workers :
           ~(IsLoad(ioQueue[i], c) /\ IsLoad(ioRunning[w], c))

\* The slot for which LoadChunk is the next call.
AwaitsCall(c) == pc = "startLoading" /\ c \in todo /\ chunkState[c] = "Loading"

LoadAlone(c) ==
    /\ LoadsOnce(c)
    /\ InFlight(c, "load") => outChunks[c] = NoContent /\ c \notin failedLoads
    /\ outChunks[c] # NoContent => c \notin failedLoads /\ outChunks[c] = regionFile[c]
    /\ LoadOwed(c) => chunkState[c] = "Loading" /\ ~SaveUnderWay(c) /\ ~AwaitsCall(c)

GeneratedFresh(c) ==
    chunkState[c] = "Generating" => ~SaveUnderWay(c) /\ regionFile[c] = NoContent

CleanIsNewest(c) == Valid(c) /\ c \notin isModified => blocks[c] = Newest(c)

BleedIsNew(c) ==
    /\ IsInjective(pendingBleedWrites[c])
    /\ ToSet(pendingBleedWrites[c]) \cap Newest(c) = {}

Counted(c) ==
    edited[c] = ToSet(pendingBleedWrites[c])
                    \cup IF Valid(c) THEN blocks[c] ELSE Newest(c)

ChunkInv(c) ==
    /\ SavesInOrder(c)
    /\ LoadAlone(c)
    /\ GeneratedFresh(c)
    /\ CleanIsNewest(c)
    /\ BleedIsNew(c)
    /\ Counted(c)

\* The newest snapshot changes only when the chunk, being ready, is saved.
OnlySaved(c) == Newest(c)' = Newest(c) \/ (Valid(c) /\ Newest(c)' = blocks[c])

AllChunksInv == pc # "down" => \A c \in Chunks \ raced : ChunkInv(c)

\* A process that ended left nothing under way.
DownIsQuiet ==
    pc = "down" =>
        /\ TasksInFlight = {}
        /\ \A c \in Chunks : /\ saveQueue[c] = NoContent /\ toSave[c] = NoContent
                             /\ outChunks[c] = NoContent /\ c \notin failedLoads
                             /\ chunkState[c] = "Absent"
                             /\ pendingBleedWrites[c] = <<>>

\* What the phases of the main thread tell of Shutdown.
StopPhases ==
    /\ pc \in {"shutdownSave", "bleed", "await", "poolWait", "ioWait", "applyBleed", "flush",
              "release", "down"} => stopping
    /\ pc \in {"tick", "simulate", "autosave", "radius", "unload", "regionPump"} => ~stopping

EditsInv == WInv /\ AllChunksInv /\ DownIsQuiet /\ StopPhases

-----------------------------------------------------------------------------
(* The tasks of one chunk.                                                 *)

(* A task that is detached is one more for its chunk, and none for another. *)
LEMMA DetachOne ==
    ASSUME RegionManagerTypeOK, NEW d \in Chunks, NEW h \in Handles,
           NEW kind \in {"save", "load"}, NEW content \in OptContents,
           Detach(kind, d, h, content), UNCHANGED ioRunning,
           NEW c \in Chunks, LoadsOnce(c)
    PROVE  /\ c # d => TasksOf(c)' = TasksOf(c)
           /\ c = d => TasksOf(c)' = TasksOf(c) \cup
                  {[kind |-> kind, chunk |-> d, region |-> h, content |-> content]}
           /\ c # d \/ kind = "save" \/ ~InFlight(c, "load") => LoadsOnce(c)'
<1> DEFINE t == [kind |-> kind, chunk |-> d, region |-> h, content |-> content]
<1>1. t \in Tasks /\ t.chunk = d /\ t.kind = kind
  BY DEF Tasks
<1>2. TasksInFlight' = TasksInFlight \cup {t}
  BY <1>1, DetachTasks DEF Detach
<1>3. /\ ioQueue \in Seq(Tasks) /\ ioQueue' = Append(ioQueue, t)
      /\ ioRunning' = ioRunning
  BY DEF Detach, RegionManagerTypeOK
<1>4. /\ Len(ioQueue) \in Nat
      /\ Len(ioQueue') = Len(ioQueue) + 1
      /\ \A i \in 1..Len(ioQueue) : ioQueue'[i] = ioQueue[i]
      /\ ioQueue'[Len(ioQueue) + 1] = t
  BY <1>1, <1>3
<1>5. ASSUME c # d \/ kind = "save" \/ ~InFlight(c, "load") PROVE LoadsOnce(c)'
  <2>1. ASSUME ~InFlight(c, "load")
        PROVE  /\ \A i \in 1..Len(ioQueue) : ~IsLoad(ioQueue[i], c)
               /\ \A w \in Workers : ~IsLoad(ioRunning[w], c)
    BY <2>1 DEF InFlight, IsLoad, TasksInFlight
  <2>2. IsLoad(t, c) => ~InFlight(c, "load")
    BY <1>1, <1>5 DEF IsLoad
  <2>3. \A i \in 1..Len(ioQueue') : \/ i \in 1..Len(ioQueue) /\ ioQueue'[i] = ioQueue[i]
                                    \/ i = Len(ioQueue) + 1 /\ ioQueue'[i] = t
    BY <1>4
  <2>4. \A i, j \in 1..Len(ioQueue') :
            IsLoad(ioQueue'[i], c) /\ IsLoad(ioQueue'[j], c) => i = j
    BY <2>1, <2>2, <2>3 DEF LoadsOnce
  <2>5. \A i \in 1..Len(ioQueue'), w \in Workers :
            ~(IsLoad(ioQueue'[i], c) /\ IsLoad(ioRunning'[w], c))
    BY <1>3, <2>1, <2>2, <2>3 DEF LoadsOnce
  <2>6. \A v, w \in Workers : IsLoad(ioRunning'[v], c) /\ IsLoad(ioRunning'[w], c) => v = w
    BY <1>3 DEF LoadsOnce
  <2> QED BY <2>4, <2>5, <2>6 DEF LoadsOnce, IsLoad
<1> QED BY <1>1, <1>2, <1>5 DEF TasksOf

(* A task that a thread takes stays the task it was. *)
LEMMA TakeOne ==
    ASSUME RegionManagerTypeOK, NEW w \in Workers, IoTake(w), NEW c \in Chunks, LoadsOnce(c)
    PROVE  TasksOf(c)' = TasksOf(c) /\ LoadsOnce(c)'
<1>1. TasksInFlight' = TasksInFlight
  BY TakeTasks, TakeKeepsTasks
<1>2. /\ ioQueue \in Seq(Tasks) /\ ioQueue # <<>>
      /\ ioQueue' = Tail(ioQueue)
      /\ ioRunning' = [ioRunning EXCEPT ![w] = Head(ioQueue)]
      /\ ioRunning \in [Workers -> Tasks \cup {NoTask}]
      /\ ioRunning[w] = NoTask
  BY DEF RegionManagerTypeOK, IoTake
<1>3. /\ Len(ioQueue) \in Nat \ {0}
      /\ Len(ioQueue') = Len(ioQueue) - 1
      /\ \A i \in 1..Len(ioQueue') : i + 1 \in 1..Len(ioQueue) /\ ioQueue'[i] = ioQueue[i + 1]
      /\ ioRunning'[w] = ioQueue[1]
      /\ \A v \in Workers \ {w} : ioRunning'[v] = ioRunning[v]
  BY <1>2
<1>4. \A i, j \in 1..Len(ioQueue') : IsLoad(ioQueue'[i], c) /\ IsLoad(ioQueue'[j], c) => i = j
  <2>1. SUFFICES ASSUME NEW i \in 1..Len(ioQueue'), NEW j \in 1..Len(ioQueue'),
                        IsLoad(ioQueue'[i], c), IsLoad(ioQueue'[j], c)
                 PROVE  i = j
    OBVIOUS
  <2>2. i + 1 = j + 1
    BY <1>3, <2>1 DEF LoadsOnce
  <2> QED BY <1>3, <2>2
<1>5. \A u, v \in Workers : IsLoad(ioRunning'[u], c) /\ IsLoad(ioRunning'[v], c) => u = v
  BY <1>3 DEF LoadsOnce
<1>6. \A i \in 1..Len(ioQueue'), v \in Workers :
          ~(IsLoad(ioQueue'[i], c) /\ IsLoad(ioRunning'[v], c))
  <2>1. SUFFICES ASSUME NEW i \in 1..Len(ioQueue'), NEW v \in Workers,
                        IsLoad(ioQueue'[i], c), IsLoad(ioRunning'[v], c)
                 PROVE  FALSE
    OBVIOUS
  <2>2. IsLoad(ioQueue[i + 1], c) /\ i + 1 \in 1..Len(ioQueue) /\ i + 1 # 1
    BY <1>3, <2>1
  <2> QED BY <1>3, <2>1, <2>2 DEF LoadsOnce
<1> QED BY <1>1, <1>4, <1>5, <1>6 DEF TasksOf, LoadsOnce, IsLoad

(* A thread that finishes a task ends that one only.  The end of the only load
   of a chunk leaves none. *)
LEMMA FinishOne ==
    ASSUME RegionManagerTypeOK, NEW w \in Workers, ioRunning[w] # NoTask, ioQueue' = ioQueue,
           ioRunning' = [ioRunning EXCEPT ![w] = NoTask], NEW c \in Chunks, LoadsOnce(c)
    PROVE  /\ LoadsOnce(c)'
           /\ TasksOf(c)' \subseteq TasksOf(c)
           /\ \A t \in TasksOf(c) : t # ioRunning[w] => t \in TasksOf(c)'
           /\ IsLoad(ioRunning[w], c) => ~InFlight(c, "load")'
<1>1. /\ ioRunning \in [Workers -> Tasks \cup {NoTask}]
      /\ ioRunning'[w] = NoTask
      /\ \A v \in Workers \ {w} : ioRunning'[v] = ioRunning[v]
  BY DEF RegionManagerTypeOK
<1>2. LoadsOnce(c)'
  BY <1>1 DEF LoadsOnce, IsLoad
<1>3. TasksInFlight' \subseteq TasksInFlight
  BY DropTasks
<1>4. \A t \in TasksInFlight : t # ioRunning[w] => t \in TasksInFlight'
  BY FinishKeepsTasks
<1>5. ASSUME IsLoad(ioRunning[w], c), InFlight(c, "load")' PROVE FALSE
  <2>1. PICK t \in TasksInFlight' : t.chunk = c /\ t.kind = "load"
    BY <1>5 DEF InFlight
  <2>2. CASE \E i \in 1..Len(ioQueue) : t = ioQueue[i]
    <3>1. PICK i \in 1..Len(ioQueue) : t = ioQueue[i]
      BY <2>2
    <3>2. t \in Tasks
      BY <3>1 DEF RegionManagerTypeOK
    <3> QED BY <1>5, <2>1, <3>1, <3>2, NullsDistinct DEF LoadsOnce, IsLoad
  <2>3. CASE \E v \in Workers : t = ioRunning'[v] /\ t # NoTask
    BY <1>1, <1>5, <2>1, <2>3 DEF LoadsOnce, IsLoad
  <2> QED BY <2>1, <2>2, <2>3 DEF TasksInFlight
<1> QED BY <1>2, <1>3, <1>4, <1>5 DEF TasksOf

-----------------------------------------------------------------------------
(* What the invariant of a chunk depends on.                               *)

\* The slot of c and what is on disk of it, and the edits made to it.
SlotSame(c) ==
    /\ chunkState'[c] = chunkState[c]
    /\ blocks'[c] = blocks[c]
    /\ c \in isModified' <=> c \in isModified
    /\ pendingBleedWrites'[c] = pendingBleedWrites[c]
    /\ edited'[c] = edited[c]

SavesSame(c) ==
    /\ saveQueue'[c] = saveQueue[c]
    /\ toSave'[c] = toSave[c]
    /\ SaveTasksOf(c)' = SaveTasksOf(c)
    /\ regionFile'[c] = regionFile[c]

LoadsSame(c) ==
    /\ LoadsOnce(c) => LoadsOnce(c)'
    /\ InFlight(c, "load")' => InFlight(c, "load")
    /\ outChunks'[c] \in {outChunks[c], NoContent}
    /\ c \in failedLoads' => c \in failedLoads
    /\ AwaitsCall(c)' => AwaitsCall(c)

(* Saves that are the same make the same snapshot the newest. *)
LEMMA NewestSame ==
    ASSUME NEW c \in Chunks, SavesSame(c)
    PROVE  /\ Newest(c)' = Newest(c)
           /\ SaveUnderWay(c)' <=> SaveUnderWay(c)
<1>1. InFlight(c, "save") <=> SaveTasksOf(c) # {}
  BY DEF InFlight, SaveTasksOf, TasksOf
<1>2. InFlight(c, "save")' <=> SaveTasksOf(c)' # {}
  BY DEF InFlight, SaveTasksOf, TasksOf
<1> QED BY <1>1, <1>2 DEF SavesSame, Newest, SaveUnderWay, OnDisk

(* A save is under way when one of the three stages has one. *)
LEMMA SaveStages ==
    ASSUME NEW c \in Chunks
    PROVE  SaveUnderWay(c) <=>
               saveQueue[c] # NoContent \/ toSave[c] # NoContent \/ SaveTasksOf(c) # {}
BY DEF SaveUnderWay, InFlight, SaveTasksOf, TasksOf

(* A step that does nothing to a chunk keeps its invariant; an answer for it
   may be given up. *)
LEMMA ChunkSame ==
    ASSUME NEW c \in Chunks, ChunkInv(c), SlotSame(c), SavesSame(c), LoadsSame(c)
    PROVE  ChunkInv(c)' /\ OnlySaved(c)
<1>1. /\ Newest(c)' = Newest(c)
      /\ SaveUnderWay(c)' <=> SaveUnderWay(c)
      /\ Valid(c)' <=> Valid(c)
  BY NewestSame DEF SlotSame, Valid
<1>2. SavesInOrder(c)'
  BY <1>1 DEF ChunkInv, SlotSame, SavesSame, SavesInOrder
<1>3. LoadAlone(c)'
  BY <1>1 DEF ChunkInv, SlotSame, SavesSame, LoadsSame, LoadAlone, LoadOwed
<1>4. GeneratedFresh(c)'
  BY <1>1 DEF ChunkInv, SlotSame, SavesSame, GeneratedFresh
<1>5. CleanIsNewest(c)' /\ BleedIsNew(c)' /\ Counted(c)'
  BY <1>1 DEF ChunkInv, SlotSame, CleanIsNewest, BleedIsNew, Counted
<1> QED BY <1>1, <1>2, <1>3, <1>4, <1>5 DEF ChunkInv, OnlySaved

(* The IO threads and the store untouched: nothing of a chunk's saves and loads
   changes. *)
LEMMA StoreSame ==
    ASSUME UNCHANGED <<saveQueue, toSave, ioVars, regionFile>>, NEW c \in Chunks
    PROVE  /\ SavesSame(c)
           /\ LoadsOnce(c) => LoadsOnce(c)'
           /\ InFlight(c, "load")' <=> InFlight(c, "load")
BY DEF SavesSame, LoadsOnce, InFlight, SaveTasksOf, TasksOf, TasksInFlight, ioVars

(* A step that changes neither slots nor the store. *)
LEMMA QuietChunk ==
    ASSUME NEW c \in Chunks, ChunkInv(c), pc' # "startLoading",
           UNCHANGED <<slotVars, edited, saveQueue, toSave, ioVars, mailVars, regionFile>>
    PROVE  ChunkInv(c)' /\ OnlySaved(c)
<1>1. SlotSame(c)
  BY DEF SlotSame, slotVars
<1>2. SavesSame(c) /\ LoadsSame(c)
  BY StoreSame DEF LoadsSame, AwaitsCall, mailVars
<1> QED BY <1>1, <1>2, ChunkSame

-----------------------------------------------------------------------------
(* Edits.                                                                  *)

(* A queue of distinct edits that loses its oldest one. *)
LEMMA TailForgets ==
    ASSUME NEW queue \in Seq(Edits), queue # <<>>, IsInjective(queue)
    PROVE  /\ Tail(queue) \in Seq(Edits)
           /\ IsInjective(Tail(queue))
           /\ ToSet(Tail(queue)) = ToSet(queue) \ {Head(queue)}
<1>1. /\ Len(queue) \in Nat \ {0}
      /\ Tail(queue) \in Seq(Edits)
      /\ Len(Tail(queue)) = Len(queue) - 1
      /\ \A i \in 1..Len(Tail(queue)) : Tail(queue)[i] = queue[i + 1] /\ i + 1 \in 1..Len(queue)
      /\ Head(queue) = queue[1]
      /\ DOMAIN queue = 1..Len(queue) /\ DOMAIN Tail(queue) = 1..Len(Tail(queue))
  OBVIOUS
<1>2. IsInjective(Tail(queue))
  <2>1. SUFFICES ASSUME NEW i \in 1..Len(Tail(queue)), NEW j \in 1..Len(Tail(queue)),
                        Tail(queue)[i] = Tail(queue)[j]
                 PROVE  i = j
    BY <1>1 DEF IsInjective
  <2>2. i + 1 = j + 1
    BY <1>1, <2>1 DEF IsInjective
  <2> QED BY <1>1, <2>2
<1>3. ToSet(Tail(queue)) = ToSet(queue) \ {Head(queue)}
  <2>1. ASSUME NEW x \in ToSet(Tail(queue)) PROVE x \in ToSet(queue) \ {Head(queue)}
    <3>1. PICK i \in 1..Len(Tail(queue)) : x = Tail(queue)[i]
      BY <1>1 DEF ToSet
    <3>2. x = queue[i + 1] /\ i + 1 \in 1..Len(queue) /\ i + 1 # 1
      BY <1>1, <3>1
    <3> QED BY <1>1, <3>2 DEF ToSet, IsInjective
  <2>2. ASSUME NEW x \in ToSet(queue) \ {Head(queue)} PROVE x \in ToSet(Tail(queue))
    <3>1. PICK i \in 1..Len(queue) : x = queue[i]
      BY <1>1 DEF ToSet
    <3>2. i - 1 \in 1..Len(Tail(queue)) /\ Tail(queue)[i - 1] = x
      BY <1>1, <2>2, <3>1
    <3> QED BY <1>1, <3>2 DEF ToSet
  <2> QED BY <2>1, <2>2
<1> QED BY <1>1, <1>2, <1>3

(* A new edit that joins a queue of distinct edits. *)
LEMMA AppendCounts ==
    ASSUME NEW queue \in Seq(Edits), IsInjective(queue), NEW e \in Edits, e \notin ToSet(queue)
    PROVE  /\ IsInjective(Append(queue, e))
           /\ ToSet(Append(queue, e)) = ToSet(queue) \cup {e}
<1> DEFINE longer == Append(queue, e)
<1>1. /\ Len(queue) \in Nat
      /\ Len(longer) = Len(queue) + 1
      /\ \A i \in 1..Len(queue) : longer[i] = queue[i]
      /\ longer[Len(queue) + 1] = e
      /\ DOMAIN queue = 1..Len(queue) /\ DOMAIN longer = 1..Len(longer)
  OBVIOUS
<1> HIDE DEF longer
<1>2. \A i \in 1..Len(longer) : i \in 1..Len(queue) \/ i = Len(queue) + 1
  BY <1>1
<1>3. \A i \in 1..Len(queue) : longer[i] # e
  BY <1>1 DEF ToSet
<1>4. IsInjective(longer)
  BY <1>1, <1>2, <1>3 DEF IsInjective
<1>5. ToSet(longer) = ToSet(queue) \cup {e}
  BY <1>1, <1>2 DEF ToSet
<1> QED BY <1>4, <1>5 DEF longer

(* An edit is counted once, wherever it goes, and the eviction of the oldest
   waiting edit takes that edit out of the account. *)
LEMMA EditChunk ==
    ASSUME TypeOK, BleedOnlyWhileUnready, NEW c \in Chunks, ChunkInv(c),
           NEW d \in Chunks, NEW e \in Edits, SetBlock(d, e)
    PROVE  ChunkInv(c)' /\ OnlySaved(c)
<1>1. /\ UNCHANGED <<chunkState, pc, todo, saveQueue, toSave, ioVars, mailVars, regionFile>>
      /\ e \notin edited[d]
      /\ pc # "startLoading"
  BY DEF SetBlock, rmVars, diskVars, pumpVars
<1>2. SavesSame(c) /\ LoadsSame(c) /\ (Valid(c)' <=> Valid(c))
  BY <1>1, StoreSame DEF LoadsSame, AwaitsCall, mailVars, Valid
<1>3. CASE c # d
  <2>1. SlotSame(c)
    BY <1>1, <1>3 DEF SetBlock, SlotSame, TypeOK
  <2> QED BY <1>2, <2>1, ChunkSame
<1>4. CASE c = d
  <2>1. /\ Newest(c)' = Newest(c) /\ (SaveUnderWay(c)' <=> SaveUnderWay(c))
        /\ LoadAlone(c)' /\ GeneratedFresh(c)'
    BY <1>1, <1>2, NewestSame DEF ChunkInv, LoadAlone, LoadOwed, AwaitsCall, GeneratedFresh,
       SavesSame, LoadsSame, mailVars
  <2>2. CASE Valid(d)
    <3>1. /\ blocks'[c] = blocks[c] \cup {e} /\ c \in isModified'
          /\ edited'[c] = edited[c] \cup {e}
          /\ pendingBleedWrites' = pendingBleedWrites
      BY <1>4, <2>2 DEF SetBlock, TypeOK
    <3>2. SavesInOrder(c)' /\ CleanIsNewest(c)' /\ BleedIsNew(c)'
      BY <1>2, <2>1, <3>1 DEF ChunkInv, SavesInOrder, SavesSame, CleanIsNewest, BleedIsNew
    <3>3. Counted(c)'
      BY <1>2, <1>4, <2>2, <3>1 DEF ChunkInv, Counted
    <3> QED BY <2>1, <3>2, <3>3 DEF ChunkInv, OnlySaved
  <2>3. CASE ~Valid(d)
    <3> DEFINE queue == pendingBleedWrites[c]
               left == IF BleedFull(queue) THEN Tail(queue) ELSE queue
    <3>1. /\ queue \in Seq(Edits) /\ IsInjective(queue)
          /\ edited[c] = ToSet(queue) \cup Newest(c)
          /\ ToSet(queue) \cap Newest(c) = {}
      BY <1>4, <2>3 DEF ChunkInv, BleedIsNew, Counted, TypeOK
    <3>2. /\ pendingBleedWrites'[c] = Append(left, e)
          /\ edited'[c] = (IF BleedFull(queue) THEN edited[c] \ {Head(queue)} ELSE edited[c])
                             \cup {e}
          /\ UNCHANGED <<blocks, isModified>>
      BY <1>4, <2>3 DEF SetBlock, TypeOK
    <3>3. /\ left \in Seq(Edits) /\ IsInjective(left)
          /\ ToSet(left) = IF BleedFull(queue) THEN ToSet(queue) \ {Head(queue)}
                           ELSE ToSet(queue)
          /\ BleedFull(queue) => Head(queue) \in ToSet(queue)
      <4>1. CASE BleedFull(queue)
        <5>1. queue # <<>>
          BY <4>1, MaxBleedType DEF BleedFull
        <5>2. Head(queue) \in ToSet(queue)
          BY <3>1, <5>1 DEF ToSet
        <5> QED BY <3>1, <4>1, <5>1, <5>2, TailForgets
      <4>2. CASE ~BleedFull(queue)
        BY <3>1, <4>2
      <4> QED BY <4>1, <4>2
    <3> HIDE DEF left, queue
    <3>4. e \notin ToSet(left) /\ e \notin Newest(c)
      BY <1>1, <1>4, <3>1, <3>3
    <3>5. /\ IsInjective(pendingBleedWrites'[c])
          /\ ToSet(pendingBleedWrites'[c]) = ToSet(left) \cup {e}
      BY <3>2, <3>3, <3>4, AppendCounts
    <3>6. BleedIsNew(c)'
      BY <2>1, <3>1, <3>3, <3>4, <3>5 DEF BleedIsNew
    <3>7. Counted(c)'
      BY <1>2, <1>4, <2>1, <2>3, <3>1, <3>2, <3>3, <3>5 DEF Counted
    <3>8. SavesInOrder(c)' /\ CleanIsNewest(c)'
      BY <1>2, <1>4, <2>3 DEF SavesInOrder, CleanIsNewest, ChunkInv, SavesSame
    <3> QED BY <2>1, <3>6, <3>7, <3>8 DEF ChunkInv, OnlySaved
  <2> QED BY <2>2, <2>3
<1> QED BY <1>3, <1>4

-----------------------------------------------------------------------------
(* Results of the pools.                                                   *)

(* A slot that is filled with what is on disk, with the edits that waited
   replayed, holds all of its chunk's edits. *)
LEMMA InstallChunk ==
    ASSUME TypeOK, NEW c \in Chunks, ChunkInv(c), NEW ready \in SUBSET Chunks, NEW loaded,
           Install(ready, loaded), c \in ready,
           ~Valid(c), ~SaveUnderWay(c), loaded[c] = OnDisk(c),
           c \notin isModified' => ToSet(pendingBleedWrites[c]) \subseteq loaded[c],
           SavesSame(c), LoadsOnce(c) => LoadsOnce(c)', ~LoadOwed(c)', edited' = edited
    PROVE  ChunkInv(c)' /\ OnlySaved(c)
<1>1. /\ chunkState'[c] = "Generated"
      /\ blocks'[c] = loaded[c] \cup ToSet(pendingBleedWrites[c])
      /\ pendingBleedWrites'[c] = <<>>
  BY DEF Install, BleedLeft
<1>2. /\ Newest(c)' = Newest(c) /\ ~SaveUnderWay(c)'
      /\ SaveTasksOf(c)' = {} /\ saveQueue'[c] = NoContent /\ toSave'[c] = NoContent
      /\ Newest(c) = OnDisk(c)
  BY NewestSame, SaveStages DEF SavesSame, Newest
<1>3. SavesInOrder(c)' /\ GeneratedFresh(c)'
  BY <1>1, <1>2 DEF SavesInOrder, GeneratedFresh
<1>4. LoadAlone(c)'
  BY DEF LoadAlone, LoadOwed, ChunkInv
<1>5. ToSet(pendingBleedWrites'[c]) = {} /\ IsInjective(pendingBleedWrites'[c])
  BY <1>1 DEF ToSet, IsInjective
<1>6. CleanIsNewest(c)' /\ BleedIsNew(c)'
  BY <1>1, <1>2, <1>5 DEF CleanIsNewest, BleedIsNew
<1>7. Counted(c)'
  BY <1>1, <1>2, <1>5 DEF Counted, ChunkInv, Valid
<1> QED BY <1>2, <1>3, <1>4, <1>6, <1>7 DEF ChunkInv, OnlySaved

(* A chunk that a drain leaves out is as it was. *)
LEMMA NotInstalled ==
    ASSUME TypeOK, NEW c \in Chunks, NEW ready \in SUBSET Chunks, NEW loaded,
           Install(ready, loaded), c \notin ready, edited' = edited,
           c \in isModified' <=> c \in isModified
    PROVE  SlotSame(c)
BY DEF Install, BleedLeft, SlotSame

LEMMA DrainGenChunk ==
    ASSUME TypeOK, NEW c \in Chunks, ChunkInv(c), DrainGenQueue
    PROVE  ChunkInv(c)' /\ OnlySaved(c)
<1>1. /\ UNCHANGED <<saveQueue, toSave, ioVars, mailVars, regionFile, edited>>
      /\ pc' # "startLoading"
      /\ Install(GenResults, [d \in Chunks |-> {}])
      /\ isModified' = isModified \cup GenResults
      /\ GenResults \in SUBSET Chunks
  BY DEF DrainGenQueue, Goto, rmVars, diskVars, pumpVars, history, GenResults, ToSet, TypeOK
<1>2. SavesSame(c) /\ LoadsSame(c)
  BY <1>1, StoreSame DEF LoadsSame, AwaitsCall, mailVars
<1>3. CASE c \in GenResults
  <2>1. chunkState[c] = "Generating" /\ ~Valid(c)
    BY <1>3 DEF GenResults, Valid
  <2>2. ~SaveUnderWay(c) /\ OnDisk(c) = {} /\ ~LoadOwed(c)
    BY <2>1 DEF ChunkInv, GeneratedFresh, LoadAlone, OnDisk
  <2>3. ~LoadOwed(c)' /\ (LoadsOnce(c) => LoadsOnce(c)')
    BY <1>1, <2>2, StoreSame DEF LoadOwed, mailVars
  <2> DEFINE fresh == [d \in Chunks |-> {}]
  <2>4. fresh[c] = OnDisk(c) /\ c \in isModified' /\ edited' = edited
    BY <1>1, <1>3, <2>2
  <2>5. Install(GenResults, fresh)
    BY <1>1
  <2> HIDE DEF fresh
  <2> QED BY <1>1, <1>2, <1>3, <2>1, <2>2, <2>3, <2>4, <2>5, InstallChunk
<1>4. CASE c \notin GenResults
  <2>1. SlotSame(c)
    BY <1>1, <1>4, NotInstalled
  <2> QED BY <1>2, <2>1, ChunkSame
<1> QED BY <1>3, <1>4

LEMMA DrainLoadChunk ==
    ASSUME TypeOK, NEW c \in Chunks, ChunkInv(c), NEW d \in Chunks, DrainLoad(d)
    PROVE  ChunkInv(c)' /\ OnlySaved(c)
<1>1. CASE outChunks[d] = NoContent
  BY <1>1, QuietChunk DEF DrainLoad, rmVars, diskVars, pumpVars, history
<1>2. CASE outChunks[d] # NoContent
  <2>1. /\ GetChunk(d)
        /\ Install({d}, outChunks)
        /\ isModified' = IF ToSet(pendingBleedWrites[d]) \subseteq outChunks[d]
                         THEN isModified ELSE isModified \cup {d}
        /\ UNCHANGED <<pc, edited>> /\ pc # "startLoading"
    BY <1>2 DEF DrainLoad, history
  <2>2. /\ UNCHANGED <<saveQueue, toSave, ioVars, failedLoads, regionFile>>
        /\ outChunks' = [outChunks EXCEPT ![d] = NoContent]
    BY <2>1 DEF GetChunk, diskVars, pumpVars
  <2>3. SavesSame(c) /\ (LoadsOnce(c) => LoadsOnce(c)')
    BY <2>2, StoreSame
  <2>4. CASE c # d
    <3>1. SlotSame(c)
      BY <2>1, <2>4, NotInstalled
    <3>2. LoadsSame(c)
      BY <2>1, <2>2, <2>4, StoreSame DEF LoadsSame, AwaitsCall, TypeOK, RegionManagerTypeOK
    <3> QED BY <2>3, <3>1, <3>2, ChunkSame
  <2>5. CASE c = d
    <3>1. /\ chunkState[c] = "Loading" /\ ~Valid(c) /\ ~SaveUnderWay(c)
          /\ outChunks[c] = OnDisk(c)
          /\ ~InFlight(c, "load") /\ c \notin failedLoads
      BY <1>2, <2>5 DEF ChunkInv, LoadAlone, LoadOwed, OnDisk, Valid
    <3>2. outChunks'[c] = NoContent
      BY <2>2, <2>5 DEF TypeOK, RegionManagerTypeOK
    <3>3. ~LoadOwed(c)'
      BY <2>2, <3>1, <3>2, StoreSame DEF LoadOwed
    <3>4. c \notin isModified' => ToSet(pendingBleedWrites[c]) \subseteq outChunks[c]
      BY <2>1, <2>5
    <3> QED BY <2>1, <2>3, <2>5, <3>1, <3>3, <3>4, InstallChunk
  <2> QED BY <2>4, <2>5
<1> QED BY <1>1, <1>2

-----------------------------------------------------------------------------
(* Slots that are not ready.                                               *)

(* A slot that is not ready and neither loads nor generates may take any such
   state. *)
LEMMA UnreadyChunk ==
    ASSUME NEW c \in Chunks, ChunkInv(c), ~Valid(c),
           chunkState'[c] \in {"Absent", "Unloaded"},
           UNCHANGED <<pendingBleedWrites, edited>>,
           SavesSame(c), LoadsOnce(c) => LoadsOnce(c)', ~LoadOwed(c)'
    PROVE  ChunkInv(c)' /\ OnlySaved(c)
<1>1. /\ Newest(c)' = Newest(c)
      /\ ~Valid(c)'
  BY NewestSame DEF Valid
<1>2. SavesInOrder(c)'
  BY <1>1 DEF ChunkInv, SavesSame, SavesInOrder
<1>3. LoadAlone(c)'
  BY DEF ChunkInv, LoadAlone, LoadOwed
<1>4. GeneratedFresh(c)' /\ CleanIsNewest(c)' /\ BleedIsNew(c)' /\ Counted(c)'
  BY <1>1 DEF ChunkInv, GeneratedFresh, CleanIsNewest, BleedIsNew, Counted
<1> QED BY <1>1, <1>2, <1>3, <1>4 DEF ChunkInv, OnlySaved

LEMMA RecoverChunk ==
    ASSUME TypeOK, NEW c \in Chunks, ChunkInv(c), RecoverFailedLoads
    PROVE  ChunkInv(c)' /\ OnlySaved(c)
<1>1. /\ UNCHANGED <<saveQueue, toSave, ioVars, regionFile, outChunks, blocks, isModified,
                     pendingBleedWrites, edited>>
      /\ failedLoads' = {}
      /\ pc' # "startLoading"
      /\ chunkState'[c] = IF c \in Recovered THEN "Unloaded" ELSE chunkState[c]
  BY DEF RecoverFailedLoads, TakeFailedLoads, Goto, diskVars, pumpVars, history
<1>2. SavesSame(c) /\ LoadsSame(c)
  BY <1>1, StoreSame DEF LoadsSame, AwaitsCall
<1>3. CASE c \in Recovered
  <2>1. ~Valid(c) /\ ~InFlight(c, "load") /\ outChunks[c] = NoContent
    BY <1>3 DEF Recovered, Loading, Valid, ChunkInv, LoadAlone
  <2>2. ~LoadOwed(c)' /\ (LoadsOnce(c) => LoadsOnce(c)')
    BY <1>1, <2>1, StoreSame DEF LoadOwed
  <2> QED BY <1>1, <1>2, <1>3, <2>1, <2>2, UnreadyChunk
<1>4. CASE c \notin Recovered
  <2>1. SlotSame(c)
    BY <1>1, <1>4 DEF SlotSame
  <2> QED BY <1>2, <2>1, ChunkSame
<1> QED BY <1>3, <1>4

(* A position gets a slot, at the edge of the view or for Shutdown. *)
LEMMA PlaceholderChunk ==
    ASSUME TypeOK, NEW c \in Chunks, ChunkInv(c),
           AddPlaceholders \/ \E d \in Chunks : BleedNext(d)
    PROVE  ChunkInv(c)' /\ OnlySaved(c)
<1>1. /\ UNCHANGED <<saveQueue, toSave, ioVars, mailVars, regionFile, blocks, isModified,
                     pendingBleedWrites, edited>>
      /\ pc' # "startLoading"
      /\ \/ chunkState'[c] = chunkState[c]
         \/ chunkState[c] = "Absent" /\ chunkState'[c] = "Unloaded"
  BY DEF AddPlaceholders, BleedNext, Goto, rmVars, diskVars, pumpVars, history, TypeOK
<1>2. SavesSame(c) /\ LoadsSame(c)
  BY <1>1, StoreSame DEF LoadsSame, AwaitsCall, mailVars
<1>3. CASE chunkState'[c] = chunkState[c]
  BY <1>1, <1>2, <1>3, ChunkSame DEF SlotSame
<1>4. CASE chunkState[c] = "Absent" /\ chunkState'[c] = "Unloaded"
  <2>1. ~Valid(c) /\ ~LoadOwed(c)
    BY <1>4 DEF Valid, ChunkInv, LoadAlone
  <2>2. ~LoadOwed(c)' /\ (LoadsOnce(c) => LoadsOnce(c)')
    BY <1>1, <2>1, StoreSame DEF LoadOwed, mailVars
  <2> QED BY <1>1, <1>2, <1>4, <2>1, <2>2, UnreadyChunk
<1> QED BY <1>1, <1>3, <1>4

(* A slot that is dropped takes the answer it waits for with it; a load that
   still runs makes it a race. *)
LEMMA UnloadUnreadyChunk ==
    ASSUME TypeOK, NEW c \in Chunks \ raced', ChunkInv(c), NEW d \in Chunks, UnloadUnready(d)
    PROVE  ChunkInv(c)' /\ OnlySaved(c)
<1>1. /\ UNCHANGED <<saveQueue, toSave, ioVars, regionFile, pendingBleedWrites, edited>>
      /\ outChunks' = [outChunks EXCEPT ![d] = NoContent]
      /\ failedLoads' = failedLoads \ {d}
      /\ pc' # "startLoading"
      /\ Erase(d) /\ ~Valid(d)
      /\ InFlight(d, "load") => d \in raced'
  BY DEF UnloadUnready, DiscardChunk, Race, diskVars, pumpVars
<1>2. SavesSame(c) /\ (LoadsOnce(c) => LoadsOnce(c)')
  BY <1>1, StoreSame
<1>3. CASE c # d
  <2>1. SlotSame(c)
    BY <1>1, <1>3 DEF SlotSame, Erase, TypeOK
  <2>2. LoadsSame(c)
    BY <1>1, <1>3, StoreSame DEF LoadsSame, AwaitsCall, TypeOK, RegionManagerTypeOK
  <2> QED BY <1>2, <2>1, <2>2, ChunkSame
<1>4. CASE c = d
  <2>1. chunkState'[c] = "Absent" /\ outChunks'[c] = NoContent
    BY <1>1, <1>4 DEF Erase, TypeOK, RegionManagerTypeOK
  <2>2. ~LoadOwed(c)'
    BY <1>1, <1>4, <2>1, StoreSame DEF LoadOwed
  <2> QED BY <1>1, <1>2, <1>4, <2>1, <2>2, UnreadyChunk
<1> QED BY <1>3, <1>4

-----------------------------------------------------------------------------
(* Saving.                                                                 *)

(* The snapshot of a chunk that is ready is its newest, whether the chunk stays
   or is unloaded. *)
LEMMA SaveReadyChunk ==
    ASSUME WInv, NEW c \in Chunks, ChunkInv(c), Valid(c), pumpPc = "idle",
           SaveChunk(c, blocks[c]),
           UNCHANGED <<pendingBleedWrites, edited>>,
           \/ chunkState'[c] = "Absent"
           \/ chunkState'[c] = chunkState[c] /\ blocks'[c] = blocks[c]
    PROVE  ChunkInv(c)' /\ OnlySaved(c)
<1>1. /\ saveQueue'[c] = blocks[c] /\ outChunks'[c] = NoContent
      /\ UNCHANGED <<toSave, ioVars, failedLoads, regionFile>>
      /\ toSave[c] = NoContent
      /\ blocks[c] # NoContent
      /\ pendingBleedWrites[c] = <<>>
  <2>1. saveQueue \in [Chunks -> OptContents] /\ outChunks \in [Chunks -> OptContents]
        /\ toSave[c] = NoContent
    BY DEF WInv, IInv, RegionManagerTypeOK
  <2>2. blocks[c] # NoContent
    BY BlocksAreContents, NullsDistinct DEF WInv
  <2>3. pendingBleedWrites[c] = <<>>
    BY DEF WInv, BleedOnlyWhileUnready, Bleeding
  <2> QED BY <2>1, <2>2, <2>3 DEF SaveChunk, diskVars, pumpVars
<1>2. /\ SaveTasksOf(c)' = SaveTasksOf(c) /\ (LoadsOnce(c) => LoadsOnce(c)')
      /\ (InFlight(c, "load")' <=> InFlight(c, "load"))
  BY <1>1 DEF LoadsOnce, InFlight, SaveTasksOf, TasksOf, TasksInFlight, ioVars
<1>3. Newest(c)' = blocks[c]
  BY <1>1 DEF Newest
<1>4. chunkState[c] = "Generated" /\ ~LoadOwed(c)
  BY DEF Valid, ChunkInv, LoadAlone
<1>5. SavesInOrder(c)'
  BY <1>1, <1>2, <1>4 DEF SavesInOrder, ChunkInv, Valid
<1>6. LoadAlone(c)'
  BY <1>1, <1>2, <1>4 DEF LoadAlone, LoadOwed, ChunkInv
<1>7. ToSet(pendingBleedWrites'[c]) = {} /\ IsInjective(pendingBleedWrites'[c])
  BY <1>1 DEF ToSet, IsInjective
<1>8. ToSet(pendingBleedWrites[c]) = {}
  BY <1>1 DEF ToSet
<1>9. GeneratedFresh(c)' /\ CleanIsNewest(c)' /\ BleedIsNew(c)'
  BY <1>3, <1>4, <1>7 DEF GeneratedFresh, CleanIsNewest, BleedIsNew, Valid
<1>10. Counted(c)'
  BY <1>3, <1>4, <1>7, <1>8 DEF Counted, ChunkInv, Valid
<1> QED BY <1>3, <1>5, <1>6, <1>9, <1>10 DEF ChunkInv, OnlySaved

(* A save of another chunk. *)
LEMMA SaveOtherChunk ==
    ASSUME TypeOK, NEW c \in Chunks, ChunkInv(c), NEW d \in Chunks, c # d, NEW content,
           SaveChunk(d, content), SlotSame(c), pc' # "startLoading"
    PROVE  ChunkInv(c)' /\ OnlySaved(c)
<1>1. /\ UNCHANGED <<toSave, ioVars, failedLoads, regionFile>>
      /\ saveQueue'[c] = saveQueue[c] /\ outChunks'[c] = outChunks[c]
  BY DEF SaveChunk, diskVars, pumpVars, TypeOK, RegionManagerTypeOK
<1>2. SavesSame(c)
  BY <1>1 DEF SavesSame, SaveTasksOf, TasksOf, TasksInFlight, ioVars
<1>3. LoadsSame(c)
  BY <1>1 DEF LoadsSame, LoadsOnce, InFlight, TasksInFlight, ioVars, AwaitsCall
<1> QED BY <1>2, <1>3, ChunkSame

(* The periodic save and those of Shutdown. *)
LEMMA AutoSaveChunk ==
    ASSUME WInv, NEW c \in Chunks, ChunkInv(c), NEW d \in Chunks, AutoSave(d)
    PROVE  ChunkInv(c)' /\ OnlySaved(c)
<1>1. /\ UNCHANGED <<chunkState, blocks, pendingBleedWrites, edited, pc>>
      /\ pc \in {"autosave", "shutdownSave"}
      /\ SaveChunk(d, blocks[d]) /\ isModified' = isModified \ {d}
      /\ Valid(d) /\ pumpPc = "idle"
  BY DEF AutoSave, WInv, PhaseInv, SavesAreReady, PumpIdle, ValidChunks, history
<1>2. CASE c = d
  BY <1>1, <1>2, SaveReadyChunk
<1>3. CASE c # d
  BY <1>1, <1>3, SaveOtherChunk DEF SlotSame, WInv
<1> QED BY <1>2, <1>3

(* A chunk that leaves memory is saved if it must be; else the newest snapshot
   is what it holds already. *)
LEMMA UnloadReadyChunk ==
    ASSUME WInv, NEW c \in Chunks, ChunkInv(c), NEW d \in Chunks, UnloadReady(d)
    PROVE  ChunkInv(c)' /\ OnlySaved(c)
<1>1. /\ UNCHANGED <<pendingBleedWrites, edited, pc>>
      /\ pc' # "startLoading"
      /\ Erase(d) /\ Valid(d) /\ pumpPc = "idle"
      /\ IF MustSave(d) THEN SaveChunk(d, blocks[d]) ELSE UNCHANGED rmVars
  BY DEF UnloadReady, WInv, PhaseInv, PumpIdle, history
<1>2. /\ chunkState'[d] = "Absent"
      /\ c # d => SlotSame(c)
  BY <1>1 DEF Erase, SlotSame, WInv, TypeOK
<1>3. CASE MustSave(d)
  <2>1. CASE c = d
    BY <1>1, <1>2, <1>3, <2>1, SaveReadyChunk
  <2>2. CASE c # d
    BY <1>1, <1>2, <1>3, <2>2, SaveOtherChunk DEF WInv
  <2> QED BY <2>1, <2>2
<1>4. CASE ~MustSave(d)
  <2>1. UNCHANGED <<saveQueue, toSave, ioVars, mailVars, regionFile>>
    BY <1>1, <1>4 DEF rmVars, diskVars, pumpVars
  <2>2. SavesSame(c) /\ LoadsSame(c)
    BY <1>1, <2>1, StoreSame DEF LoadsSame, AwaitsCall, mailVars
  <2>3. CASE c = d
    <3>1. /\ blocks[c] = Newest(c) /\ chunkState[c] = "Generated"
          /\ ~LoadOwed(c)
      BY <1>1, <1>4, <2>3 DEF MustSave, ChunkInv, CleanIsNewest, Valid, LoadAlone
    <3>2. Newest(c)' = Newest(c)
      BY <2>2, NewestSame
    <3>3. ~LoadOwed(c)' /\ (LoadsOnce(c) => LoadsOnce(c)')
      BY <2>1, <3>1, StoreSame DEF LoadOwed, mailVars
    <3>4. SavesInOrder(c)' /\ LoadAlone(c)'
      BY <1>2, <2>2, <2>3, <3>3 DEF ChunkInv, SavesInOrder, SavesSame, LoadAlone, LoadOwed, Valid
    <3>5. GeneratedFresh(c)' /\ CleanIsNewest(c)' /\ BleedIsNew(c)' /\ Counted(c)'
      BY <1>1, <1>2, <2>3, <3>1, <3>2 DEF ChunkInv, GeneratedFresh, CleanIsNewest, BleedIsNew,
         Counted, Valid
    <3> QED BY <3>2, <3>4, <3>5 DEF ChunkInv, OnlySaved
  <2>4. CASE c # d
    BY <1>2, <2>2, <2>4, ChunkSame
  <2> QED BY <2>3, <2>4
<1> QED BY <1>3, <1>4

(* Shutdown has nothing left to replay into a chunk that is ready, and saves the
   chunk it waited for. *)
LEMMA ApplyBleedChunk ==
    ASSUME WInv, NEW c \in Chunks, ChunkInv(c), ApplyBleed
    PROVE  ChunkInv(c)' /\ OnlySaved(c)
<1>1. \A d \in Chunks : Valid(d) => pendingBleedWrites[d] = <<>>
  BY DEF WInv, BleedOnlyWhileUnready, Bleeding
<1>2. \A d \in Chunks : Valid(d) => ToSet(pendingBleedWrites[d]) = {}
  BY <1>1 DEF ToSet
<1>3. /\ \A d \in Chunks : blocks'[d] = blocks[d]
      /\ UNCHANGED <<chunkState, edited>> /\ pc' # "startLoading" /\ pumpPc = "idle"
      /\ target \in Chunks
  BY <1>2 DEF ApplyBleed, WInv, TypeOK, PhaseInv, PumpIdle, Goto, history
<1>4. UNCHANGED pendingBleedWrites
  <2>1. pendingBleedWrites = [d \in Chunks |-> pendingBleedWrites[d]]
    BY DEF WInv, TypeOK
  <2>2. pendingBleedWrites' = [d \in Chunks |-> IF Valid(d) THEN <<>> ELSE pendingBleedWrites[d]]
    BY DEF ApplyBleed
  <2> QED BY <1>1, <2>1, <2>2
<1>5. Bleeding \cap ValidChunks = {}
  BY <1>1 DEF Bleeding, ValidChunks
<1>6. /\ isModified' = isModified \ {target}
      /\ IF target \in isModified THEN SaveChunk(target, blocks[target]) ELSE UNCHANGED rmVars
  BY <1>3, <1>5 DEF ApplyBleed
<1>7. CASE target \in isModified
  <2>1. Valid(target)
    BY <1>7 DEF WInv, TypeOK, ValidChunks
  <2>2. CASE c = target
    BY <1>3, <1>4, <1>6, <1>7, <2>1, <2>2, SaveReadyChunk
  <2>3. CASE c # target
    BY <1>3, <1>4, <1>6, <1>7, <2>3, SaveOtherChunk DEF SlotSame, WInv
  <2> QED BY <2>2, <2>3
<1>8. CASE target \notin isModified
  <2>1. isModified' = isModified /\ UNCHANGED rmVars
    BY <1>6, <1>8
  <2>2. SlotSame(c)
    BY <1>3, <1>4, <2>1 DEF SlotSame
  <2>3. SavesSame(c) /\ LoadsSame(c)
    BY <1>3, <2>1, StoreSame DEF LoadsSame, AwaitsCall, mailVars, rmVars, diskVars, pumpVars
  <2> QED BY <2>2, <2>3, ChunkSame
<1> QED BY <1>7, <1>8

(* The pump takes every snapshot that waits into its batch. *)
LEMMA PumpBeginChunk ==
    ASSUME WInv, NEW c \in Chunks, ChunkInv(c), NEW flush, PumpBegin(flush),
           UNCHANGED <<slotVars, edited>>, pc' # "startLoading"
    PROVE  ChunkInv(c)' /\ OnlySaved(c)
<1>1. /\ UNCHANGED <<ioVars, mailVars, regionFile>>
      /\ toSave'[c] = saveQueue[c] /\ saveQueue'[c] = NoContent
      /\ toSave[c] = NoContent
  BY DEF PumpBegin, WInv, IInv, RegionManagerTypeOK, diskVars
<1>2. /\ SaveTasksOf(c)' = SaveTasksOf(c) /\ (LoadsOnce(c) => LoadsOnce(c)')
      /\ (InFlight(c, "load")' <=> InFlight(c, "load"))
      /\ Valid(c)' <=> Valid(c)
  BY <1>1 DEF LoadsOnce, InFlight, SaveTasksOf, TasksOf, TasksInFlight, ioVars, Valid, slotVars
<1>3. Newest(c)' = Newest(c)
  BY <1>1, <1>2 DEF Newest, OnDisk
<1>4. SaveUnderWay(c)' <=> SaveUnderWay(c)
  BY <1>1, <1>2, SaveStages DEF SaveUnderWay, InFlight, SaveTasksOf, TasksOf
<1>5. SavesInOrder(c)'
  BY <1>1, <1>2 DEF ChunkInv, SavesInOrder, slotVars
<1>6. LoadAlone(c)'
  BY <1>1, <1>2, <1>4 DEF ChunkInv, LoadAlone, LoadOwed, AwaitsCall, mailVars, slotVars
<1>7. GeneratedFresh(c)' /\ CleanIsNewest(c)' /\ BleedIsNew(c)' /\ Counted(c)'
  BY <1>1, <1>2, <1>3, <1>4 DEF ChunkInv, GeneratedFresh, CleanIsNewest, BleedIsNew, Counted,
     slotVars
<1> QED BY <1>3, <1>5, <1>6, <1>7 DEF ChunkInv, OnlySaved

(* A snapshot of the batch goes to the IO threads or back into the queue.  It
   is the only save under way of a chunk that does not race. *)
LEMMA PumpSaveChunk ==
    ASSUME WInv, NEW c \in Chunks \ raced', ChunkInv(c), NEW d \in Chunks, WorldPumpSave(d),
           UNCHANGED <<slotVars, pc, todo>>
    PROVE  ChunkInv(c)' /\ OnlySaved(c)
<1>1. /\ RegionManagerTypeOK /\ pc # "startLoading"
      /\ UNCHANGED <<edited, regionFile, ioRunning, mailVars>>
      /\ toSave[d] # NoContent /\ toSave' = [toSave EXCEPT ![d] = NoContent]
      /\ InFlight(d, "save") \/ InFlight(d, "load") => d \in raced'
      /\ \/ saveQueue' = [saveQueue EXCEPT ![d] = toSave[d]] /\ UNCHANGED ioQueue
         \/ \E h \in Handles : /\ Detach("save", d, h, toSave[d])
                               /\ UNCHANGED saveQueue
  BY DEF WorldPumpSave, PumpSave, Race, WInv, TypeOK, PhaseInv, PumpIdle
<1>2. /\ toSave \in [Chunks -> OptContents] /\ saveQueue \in [Chunks -> OptContents]
      /\ toSave[d] \in OptContents
  BY <1>1 DEF RegionManagerTypeOK
<1>3. LoadsOnce(c) /\ LoadsOnce(c)' /\ (c # d => TasksOf(c)' = TasksOf(c))
  <2>1. LoadsOnce(c)
    BY DEF ChunkInv, LoadAlone
  <2>2. CASE UNCHANGED ioQueue
    BY <1>1, <2>1, <2>2 DEF LoadsOnce, TasksOf, TasksInFlight
  <2>3. CASE \E h \in Handles : Detach("save", d, h, toSave[d])
    BY <1>1, <1>2, <2>1, <2>3, DetachOne
  <2> QED BY <1>1, <2>1, <2>2, <2>3
<1>4. CASE c # d
  <2>1. saveQueue'[c] = saveQueue[c] /\ toSave'[c] = toSave[c]
    BY <1>1, <1>2, <1>4
  <2>2. SavesSame(c) /\ LoadsSame(c)
    BY <1>1, <1>3, <1>4, <2>1 DEF SavesSame, LoadsSame, SaveTasksOf, AwaitsCall, mailVars,
       InFlight, TasksOf
  <2>3. SlotSame(c)
    BY <1>1 DEF SlotSame, slotVars
  <2> QED BY <2>2, <2>3, ChunkSame
<1>5. CASE c = d
  <2>1. /\ ~InFlight(c, "save") /\ ~InFlight(c, "load")
        /\ saveQueue[c] = NoContent /\ SaveTasksOf(c) = {}
        /\ Newest(c) = toSave[c]
        /\ SaveUnderWay(c) /\ ~LoadOwed(c)
        /\ Valid(c) => toSave[c] \subseteq blocks[c]
    BY <1>1, <1>5 DEF ChunkInv, SavesInOrder, SaveTasksOf, TasksOf, InFlight, SaveUnderWay,
       LoadAlone, Newest
  <2>2. /\ toSave'[c] = NoContent
        /\ ~InFlight(c, "load")'
        /\ Newest(c)' = toSave[c]
        /\ SavesInOrder(c)'
    <3>1. CASE saveQueue' = [saveQueue EXCEPT ![d] = toSave[d]] /\ UNCHANGED ioQueue
      <4>1. toSave'[c] = NoContent /\ saveQueue'[c] = toSave[c]
        BY <1>2, <1>1, <1>5, <3>1
      <4>2. SaveTasksOf(c)' = {} /\ ~InFlight(c, "load")'
        BY <1>1, <2>1, <3>1 DEF SaveTasksOf, TasksOf, TasksInFlight, InFlight
      <4> QED BY <1>1, <1>5, <2>1, <4>1, <4>2 DEF Newest, SavesInOrder, Valid, slotVars
    <3>2. CASE \E h \in Handles : /\ Detach("save", d, h, toSave[d])
                                  /\ UNCHANGED saveQueue
      <4>1. PICK h \in Handles : Detach("save", d, h, toSave[d]) /\ UNCHANGED saveQueue
        BY <3>2
      <4> DEFINE t == [kind |-> "save", chunk |-> d, region |-> h, content |-> toSave[d]]
      <4>2. TasksOf(c)' = TasksOf(c) \cup {t}
        BY <1>1, <1>2, <1>3, <1>5, <4>1, DetachOne
      <4>3. SaveTasksOf(c)' = {t} /\ t.content = toSave[c]
        BY <1>5, <2>1, <4>2 DEF SaveTasksOf
      <4>4. ~InFlight(c, "load")'
        BY <1>5, <2>1, <4>2 DEF InFlight, TasksOf
      <4>5. toSave'[c] = NoContent /\ saveQueue'[c] = NoContent
        BY <1>1, <1>2, <1>5, <2>1, <4>1
      <4> HIDE DEF t
      <4>6. Newest(c)' = toSave[c]
        BY <4>3, <4>5 DEF Newest
      <4>7. SavesInOrder(c)'
        BY <1>1, <1>5, <2>1, <4>3, <4>5 DEF SavesInOrder, Valid, slotVars
      <4> QED BY <4>4, <4>5, <4>6, <4>7
    <3> QED BY <1>1, <3>1, <3>2
  <2>3. LoadAlone(c)'
    BY <1>1, <1>3, <2>1, <2>2 DEF LoadAlone, LoadOwed, mailVars
  <2>4. GeneratedFresh(c)' /\ CleanIsNewest(c)' /\ BleedIsNew(c)' /\ Counted(c)'
    BY <1>1, <2>1, <2>2 DEF ChunkInv, GeneratedFresh, CleanIsNewest, BleedIsNew, Counted,
       slotVars, Valid
  <2> QED BY <2>1, <2>2, <2>3, <2>4 DEF ChunkInv, OnlySaved
<1> QED BY <1>4, <1>5

-----------------------------------------------------------------------------
(* Starting what makes a slot ready.                                       *)

(* The question to the disk touches nothing but the cache. *)
LEMMA ExistsTouches ==
    ASSUME NEW d, NEW answer, ChunkExists(d, answer)
    PROVE  UNCHANGED <<saveQueue, toSave, ioVars, mailVars, regionFile>>
BY DEF ChunkExists, pumpVars

LEMMA StartGenerationChunk ==
    ASSUME WInv, NEW c \in Chunks \ raced', ChunkInv(c), NEW d \in Chunks, StartGeneration(d)
    PROVE  ChunkInv(c)' /\ OnlySaved(c)
<1>1. /\ UNCHANGED <<saveQueue, toSave, ioVars, mailVars, regionFile, blocks, isModified,
                     pendingBleedWrites, edited>>
      /\ pc' # "startLoading"
      /\ chunkState[d] = "Unloaded"
      /\ chunkState' = [chunkState EXCEPT ![d] = "Generating"]
      /\ SaveUnderWay(d) \/ regionFile[d] # NoContent => d \in raced'
  BY ExistsTouches DEF StartGeneration, Race, WInv, PhaseInv, CandidatesUnloaded
<1>2. SavesSame(c) /\ LoadsSame(c) /\ (LoadsOnce(c) => LoadsOnce(c)')
  BY <1>1, StoreSame DEF LoadsSame, AwaitsCall, mailVars
<1>3. CASE c # d
  BY <1>1, <1>2, <1>3, ChunkSame DEF SlotSame, WInv, TypeOK
<1>4. CASE c = d
  <2>1. /\ chunkState'[c] = "Generating" /\ ~SaveUnderWay(c) /\ regionFile[c] = NoContent
        /\ ~LoadOwed(c) /\ ~Valid(c) /\ ~Valid(c)'
    BY <1>1, <1>4 DEF WInv, TypeOK, ChunkInv, LoadAlone, Valid
  <2>2. Newest(c)' = Newest(c) /\ ~SaveUnderWay(c)'
    BY <1>2, <2>1, NewestSame
  <2>3. ~LoadOwed(c)'
    BY <1>1, <2>1, StoreSame DEF LoadOwed, mailVars
  <2>4. SavesInOrder(c)' /\ LoadAlone(c)'
    BY <1>2, <2>1, <2>3 DEF ChunkInv, SavesInOrder, SavesSame, LoadAlone, LoadOwed
  <2>5. GeneratedFresh(c)' /\ CleanIsNewest(c)' /\ BleedIsNew(c)' /\ Counted(c)'
    BY <1>1, <2>1, <2>2 DEF ChunkInv, GeneratedFresh, CleanIsNewest, BleedIsNew, Counted
  <2> QED BY <2>2, <2>4, <2>5 DEF ChunkInv, OnlySaved
<1> QED BY <1>3, <1>4

LEMMA FindOnDiskChunk ==
    ASSUME WInv, NEW c \in Chunks, ChunkInv(c), NEW d \in Chunks, FindOnDisk(d)
    PROVE  ChunkInv(c)' /\ OnlySaved(c)
<1>1. /\ UNCHANGED <<saveQueue, toSave, ioVars, mailVars, regionFile, blocks, isModified,
                     pendingBleedWrites, edited, todo>>
      /\ \A e \in todo : chunkState[e] = "Unloaded"
      /\ d \in todo
      /\ chunkState' = [chunkState EXCEPT ![d] = "Loading"]
  BY ExistsTouches DEF FindOnDisk, WInv, PhaseInv, CandidatesUnloaded, history
<1>2. SavesSame(c) /\ (LoadsOnce(c) => LoadsOnce(c)')
  BY <1>1, StoreSame
<1>3. CASE c # d
  <2>1. SlotSame(c)
    BY <1>1, <1>3 DEF SlotSame, WInv, TypeOK
  <2>2. ~AwaitsCall(c)'
    BY <1>1, <1>3 DEF AwaitsCall, WInv, TypeOK
  <2>3. LoadsSame(c)
    BY <1>1, <2>2, StoreSame DEF LoadsSame, mailVars
  <2> QED BY <1>2, <2>1, <2>3, ChunkSame
<1>4. CASE c = d
  <2>1. /\ chunkState'[c] = "Loading"
        /\ ~LoadOwed(c) /\ ~Valid(c) /\ ~Valid(c)'
    BY <1>1, <1>4 DEF WInv, TypeOK, ChunkInv, LoadAlone, Valid
  <2>2. Newest(c)' = Newest(c)
    BY <1>2, NewestSame
  <2>3. ~LoadOwed(c)'
    BY <1>1, <2>1, StoreSame DEF LoadOwed, mailVars
  <2>4. SavesInOrder(c)' /\ LoadAlone(c)'
    BY <1>2, <2>1, <2>3 DEF ChunkInv, SavesInOrder, SavesSame, LoadAlone, LoadOwed
  <2>5. GeneratedFresh(c)' /\ CleanIsNewest(c)' /\ BleedIsNew(c)' /\ Counted(c)'
    BY <1>1, <2>1, <2>2 DEF ChunkInv, GeneratedFresh, CleanIsNewest, BleedIsNew, Counted
  <2> QED BY <2>2, <2>4, <2>5 DEF ChunkInv, OnlySaved
<1> QED BY <1>3, <1>4

(* A load is started for a slot that has none, and races when a save of the
   chunk is still under way. *)
LEMMA StartLoadingChunk ==
    ASSUME WInv, NEW c \in Chunks \ raced', ChunkInv(c), NEW d \in Chunks, StartLoading(d)
    PROVE  ChunkInv(c)' /\ OnlySaved(c)
<1>1. /\ UNCHANGED <<slotVars, edited, regionFile, saveQueue, toSave, ioRunning, outChunks>>
      /\ pc' # "startLoading" /\ pc = "startLoading" /\ d \in todo /\ chunkState[d] = "Loading"
      /\ SaveUnderWay(d) => d \in raced'
      /\ \/ failedLoads' = failedLoads \cup {d} /\ UNCHANGED ioQueue
         \/ /\ \E h \in Handles : Detach("load", d, h, NoContent)
            /\ UNCHANGED failedLoads
  BY DEF StartLoading, LoadChunk, Goto, Race, pumpVars
<1>2. RegionManagerTypeOK /\ LoadsOnce(c) /\ NoContent \in OptContents
  BY DEF WInv, IInv, ChunkInv, LoadAlone, OptContents
<1>3. SlotSame(c) /\ ~AwaitsCall(c)'
  BY <1>1 DEF SlotSame, AwaitsCall, slotVars
<1>4. c = d => ~LoadOwed(c) /\ ~SaveUnderWay(c)
  BY <1>1 DEF ChunkInv, LoadAlone, AwaitsCall
<1>5. /\ SaveTasksOf(c)' = SaveTasksOf(c)
      /\ LoadsOnce(c)'
      /\ c # d => (InFlight(c, "load")' => InFlight(c, "load"))
      /\ InFlight(c, "load")' => InFlight(c, "load") \/ UNCHANGED failedLoads
  <2>1. CASE UNCHANGED ioQueue
    BY <1>1, <1>2, <2>1 DEF SaveTasksOf, TasksOf, TasksInFlight, LoadsOnce, InFlight
  <2>2. CASE UNCHANGED failedLoads /\ \E h \in Handles : Detach("load", d, h, NoContent)
    <3>1. PICK h \in Handles : Detach("load", d, h, NoContent)
      BY <2>2
    <3> DEFINE t == [kind |-> "load", chunk |-> d, region |-> h, content |-> NoContent]
    <3>2. /\ c # d => TasksOf(c)' = TasksOf(c)
          /\ c = d => TasksOf(c)' = TasksOf(c) \cup {t}
          /\ LoadsOnce(c)'
      BY <1>1, <1>2, <1>4, <3>1, DetachOne DEF LoadOwed
    <3>3. t.kind # "save"
      OBVIOUS
    <3> HIDE DEF t
    <3> QED BY <2>2, <3>2, <3>3 DEF SaveTasksOf, InFlight, TasksOf
  <2> QED BY <1>1, <2>1, <2>2
<1>6. SavesSame(c)
  BY <1>1, <1>5 DEF SavesSame
<1>7. CASE c # d
  <2>1. LoadsSame(c)
    BY <1>1, <1>3, <1>5, <1>7 DEF LoadsSame
  <2> QED BY <1>3, <1>6, <2>1, ChunkSame
<1>8. CASE c = d
  <2>1. /\ Newest(c)' = Newest(c) /\ ~SaveUnderWay(c)'
        /\ outChunks'[c] = NoContent /\ c \notin failedLoads /\ ~InFlight(c, "load")
    BY <1>1, <1>4, <1>6, <1>8, NewestSame DEF LoadOwed
  <2>2. LoadAlone(c)'
    BY <1>1, <1>3, <1>5, <1>8, <2>1 DEF LoadAlone, SlotSame
  <2>3. SavesInOrder(c)'
    BY <1>3, <1>6 DEF ChunkInv, SavesInOrder, SavesSame, SlotSame, Valid
  <2>4. GeneratedFresh(c)' /\ CleanIsNewest(c)' /\ BleedIsNew(c)' /\ Counted(c)'
    BY <1>1, <1>3, <2>1 DEF ChunkInv, GeneratedFresh, CleanIsNewest, BleedIsNew, Counted,
       SlotSame, Valid
  <2> QED BY <2>1, <2>2, <2>3, <2>4 DEF ChunkInv, OnlySaved
<1> QED BY <1>7, <1>8

-----------------------------------------------------------------------------
(* The IO threads.                                                         *)

(* The save that ends leaves on disk what it carried. *)
LEMMA IoSaveChunk ==
    ASSUME WInv, NEW c \in Chunks, ChunkInv(c), NEW w \in Workers, IoSave(w),
           UNCHANGED worldVars
    PROVE  ChunkInv(c)' /\ OnlySaved(c)
<1> DEFINE t == ioRunning[w]
<1>1. /\ RegionManagerTypeOK /\ t \in Tasks /\ t # NoTask /\ t.kind = "save"
      /\ t.chunk \in Chunks
      /\ regionFile' = [regionFile EXCEPT ![t.chunk] = t.content]
      /\ ioQueue' = ioQueue /\ ioRunning' = [ioRunning EXCEPT ![w] = NoTask]
      /\ UNCHANGED <<saveQueue, toSave, mailVars>>
  BY DEF IoSave, WInv, IInv, RegionManagerTypeOK, Tasks, pumpVars
<1>2. t \in TasksInFlight
  BY <1>1 DEF TasksInFlight
<1>3. SlotSame(c) /\ AwaitsCall(c)' = AwaitsCall(c) /\ Valid(c)' = Valid(c)
  BY DEF SlotSame, AwaitsCall, Valid, worldVars
<1>4. /\ LoadsOnce(c)'
      /\ TasksOf(c)' \subseteq TasksOf(c)
      /\ \A u \in TasksOf(c) : u # t => u \in TasksOf(c)'
  BY <1>1, FinishOne DEF ChunkInv, LoadAlone
<1> HIDE DEF t
<1>5. InFlight(c, "load")' <=> InFlight(c, "load")
  BY <1>1, <1>4 DEF InFlight, TasksOf
<1>6. CASE c # t.chunk
  <2>1. TasksOf(c)' = TasksOf(c)
    BY <1>4, <1>6 DEF TasksOf
  <2>2. SavesSame(c)
    BY <1>1, <1>6, <2>1 DEF SavesSame, SaveTasksOf, RegionManagerTypeOK
  <2>3. LoadsSame(c)
    BY <1>1, <1>3, <1>4, <1>5 DEF LoadsSame, mailVars
  <2> QED BY <1>3, <2>2, <2>3, ChunkSame
<1>7. CASE c = t.chunk
  <2>1. t \in SaveTasksOf(c) /\ t.content # NoContent
    BY <1>1, <1>2, <1>7 DEF SaveTasksOf, TasksOf, ChunkInv, SavesInOrder
  <2>2. SaveTasksOf(c) = {t} /\ SaveTasksOf(c)' \subseteq {t}
    BY <1>4, <2>1 DEF SaveTasksOf, ChunkInv, SavesInOrder
  <2>3. regionFile'[c] = t.content
    BY <1>1, <1>7 DEF RegionManagerTypeOK
  <2>4. Newest(c)' = Newest(c)
    <3>1. CASE saveQueue[c] # NoContent \/ toSave[c] # NoContent
      BY <1>1, <3>1 DEF Newest
    <3>2. CASE saveQueue[c] = NoContent /\ toSave[c] = NoContent
      <4>1. Newest(c) = t.content
        BY <2>2, <3>2 DEF Newest
      <4>2. Newest(c)' = t.content
        BY <1>1, <2>1, <2>2, <2>3, <3>2 DEF Newest, OnDisk
      <4> QED BY <4>1, <4>2
    <3> QED BY <3>1, <3>2
  <2>5. SavesInOrder(c)'
    BY <1>1, <1>3, <2>2 DEF ChunkInv, SavesInOrder, SlotSame
  <2>6. SaveUnderWay(c) /\ ~LoadOwed(c) /\ chunkState[c] # "Generating"
    BY <2>1, SaveStages DEF ChunkInv, LoadAlone, GeneratedFresh
  <2>7. LoadAlone(c)'
    BY <1>1, <1>4, <1>5, <2>6 DEF LoadAlone, LoadOwed, mailVars
  <2>8. GeneratedFresh(c)' /\ CleanIsNewest(c)' /\ BleedIsNew(c)' /\ Counted(c)'
    BY <1>3, <2>4, <2>6 DEF ChunkInv, GeneratedFresh, CleanIsNewest, BleedIsNew, Counted,
       SlotSame
  <2> QED BY <2>4, <2>5, <2>7, <2>8 DEF ChunkInv, OnlySaved
<1> QED BY <1>6, <1>7

(* The answer of a load is what is on disk: the object it works with has the
   header of its file. *)
LEMMA IoLoadChunk ==
    ASSUME WInv, NEW c \in Chunks, ChunkInv(c), NEW w \in Workers, IoLoad(w),
           UNCHANGED worldVars
    PROVE  ChunkInv(c)' /\ OnlySaved(c)
<1> DEFINE t == ioRunning[w]
           found == regionHeader[t.region][t.chunk]
<1>1. /\ RegionManagerTypeOK /\ t \in Tasks /\ t # NoTask /\ t.kind = "load"
      /\ t.chunk \in Chunks
      /\ ioQueue' = ioQueue /\ ioRunning' = [ioRunning EXCEPT ![w] = NoTask]
      /\ UNCHANGED <<saveQueue, toSave, regionFile>>
      /\ \/ /\ found # NoContent
            /\ outChunks' = [outChunks EXCEPT ![t.chunk] = found]
            /\ UNCHANGED failedLoads
         \/ failedLoads' = failedLoads \cup {t.chunk} /\ UNCHANGED outChunks
  BY DEF IoLoad, WInv, IInv, RegionManagerTypeOK, Tasks, pumpVars, diskVars
<1>2. t \in TasksInFlight
  BY <1>1 DEF TasksInFlight
<1>3. SlotSame(c) /\ AwaitsCall(c)' = AwaitsCall(c) /\ Valid(c)' = Valid(c)
  BY DEF SlotSame, AwaitsCall, Valid, worldVars
<1>4. /\ LoadsOnce(c)'
      /\ TasksOf(c)' \subseteq TasksOf(c)
      /\ \A u \in TasksOf(c) : u # t => u \in TasksOf(c)'
      /\ IsLoad(t, c) => ~InFlight(c, "load")'
  BY <1>1, FinishOne DEF ChunkInv, LoadAlone
<1>5. found = regionFile[t.chunk]
  BY <1>1, <1>2 DEF WInv, IInv, RegionInv, HeldAreOpen, TasksOnOwnRegion, OpenCoherent
<1> HIDE DEF t, found
<1>6. SaveTasksOf(c)' = SaveTasksOf(c)
  BY <1>1, <1>4 DEF SaveTasksOf
<1>7. SavesSame(c)
  BY <1>1, <1>6 DEF SavesSame
<1>8. CASE c # t.chunk
  <2>1. InFlight(c, "load")' => InFlight(c, "load")
    BY <1>4 DEF InFlight, TasksOf
  <2>2. LoadsSame(c)
    BY <1>1, <1>3, <1>4, <1>8, <2>1 DEF LoadsSame, RegionManagerTypeOK
  <2> QED BY <1>3, <1>7, <2>2, ChunkSame
<1>9. CASE c = t.chunk
  <2>1. /\ InFlight(c, "load") /\ ~InFlight(c, "load")'
        /\ outChunks[c] = NoContent /\ c \notin failedLoads
        /\ chunkState[c] = "Loading" /\ ~SaveUnderWay(c) /\ ~AwaitsCall(c)
    BY <1>1, <1>2, <1>4, <1>9 DEF InFlight, IsLoad, ChunkInv, LoadAlone, LoadOwed
  <2>2. Newest(c)' = Newest(c) /\ ~SaveUnderWay(c)'
    BY <1>7, <2>1, NewestSame
  <2>3. /\ outChunks'[c] # NoContent => outChunks'[c] = regionFile'[c]
        /\ outChunks'[c] # NoContent => c \notin failedLoads'
    BY <1>1, <1>5, <1>9, <2>1 DEF RegionManagerTypeOK
  <2>4. LoadAlone(c)'
    BY <1>3, <1>4, <2>1, <2>2, <2>3 DEF LoadAlone, SlotSame
  <2>5. SavesInOrder(c)'
    BY <1>3, <1>7 DEF ChunkInv, SavesInOrder, SavesSame, SlotSame
  <2>6. GeneratedFresh(c)' /\ CleanIsNewest(c)' /\ BleedIsNew(c)' /\ Counted(c)'
    BY <1>3, <2>1, <2>2 DEF ChunkInv, GeneratedFresh, CleanIsNewest, BleedIsNew, Counted,
       SlotSame
  <2> QED BY <2>2, <2>4, <2>5, <2>6 DEF ChunkInv, OnlySaved
<1> QED BY <1>8, <1>9

LEMMA IoChunk ==
    ASSUME WInv, NEW c \in Chunks, ChunkInv(c), WorldIoThreads
    PROVE  ChunkInv(c)' /\ OnlySaved(c)
<1>1. UNCHANGED worldVars /\ RegionManagerTypeOK
  BY DEF WorldIoThreads, WInv, IInv
<1>2. PICK w \in Workers : IoTake(w) \/ IoSave(w) \/ IoLoad(w)
  BY DEF WorldIoThreads, IoThreads
<1>3. CASE IoTake(w)
  <2>1. TasksOf(c)' = TasksOf(c) /\ LoadsOnce(c)'
    BY <1>1, <1>3, TakeOne DEF ChunkInv, LoadAlone
  <2>2. SavesSame(c)
    BY <1>3, <2>1 DEF IoTake, SavesSame, SaveTasksOf, diskVars, pumpVars
  <2>3. LoadsSame(c)
    BY <1>1, <1>3, <2>1 DEF IoTake, LoadsSame, InFlight, TasksOf, AwaitsCall, worldVars, mailVars
  <2>4. SlotSame(c)
    BY <1>1 DEF SlotSame, worldVars
  <2> QED BY <2>2, <2>3, <2>4, ChunkSame
<1> QED BY <1>1, <1>2, <1>3, IoSaveChunk, IoLoadChunk

-----------------------------------------------------------------------------
(* The end of a process and the next start.                                *)

(* A new server finds what is on disk, and nothing else of the old one. *)
LEMMA RestartChunk ==
    ASSUME DownIsQuiet, NEW c \in Chunks, Restart
    PROVE  ChunkInv(c)'
<1>1. /\ TasksInFlight' = {} /\ saveQueue'[c] = NoContent /\ toSave'[c] = NoContent
      /\ outChunks'[c] = NoContent /\ c \notin failedLoads'
      /\ chunkState'[c] = "Absent"
      /\ pendingBleedWrites'[c] = <<>>
      /\ edited'[c] = OnDisk(c)' /\ pc' = "tick"
  BY DEF Restart, DownIsQuiet, slotVars, rmVars, pumpVars, mailVars, ioVars, diskVars,
     TasksInFlight, OnDisk
<1>2. /\ SaveTasksOf(c)' = {} /\ ~InFlight(c, "save")' /\ ~InFlight(c, "load")'
  BY <1>1 DEF SaveTasksOf, TasksOf, InFlight
<1>3. Newest(c)' = OnDisk(c)' /\ ~Valid(c)' /\ ~LoadOwed(c)'
  BY <1>1, <1>2 DEF Newest, Valid, LoadOwed
<1>4. LoadsOnce(c)'
  BY <1>1 DEF LoadsOnce, IsLoad, TasksInFlight
<1>5. SavesInOrder(c)' /\ LoadAlone(c)' /\ GeneratedFresh(c)' /\ CleanIsNewest(c)'
  BY <1>1, <1>2, <1>3, <1>4 DEF SavesInOrder, LoadAlone, LoadOwed, GeneratedFresh, CleanIsNewest
<1>6. ToSet(pendingBleedWrites'[c]) = {} /\ IsInjective(pendingBleedWrites'[c])
  BY <1>1 DEF ToSet, IsInjective
<1>7. BleedIsNew(c)' /\ Counted(c)'
  BY <1>1, <1>3, <1>6 DEF BleedIsNew, Counted
<1> QED BY <1>5, <1>7 DEF ChunkInv

(* A process that ended may only be started again: the pools have nothing left
   to tell it. *)
LEMMA DownSteps ==
    ASSUME WInv, DownIsQuiet, [Next]_vars, pc = "down"
    PROVE  Restart \/ (\E c \in Chunks : Generate(c)) \/ UNCHANGED vars
<1>1. pumpPc = "idle" /\ TasksInFlight = {}
  BY DEF WInv, PhaseInv, PumpIdle, DownIsQuiet
<1>2. ~WorldIoThreads
  <2>1. ASSUME NEW w \in Workers, ioRunning[w] # NoTask PROVE FALSE
    BY <1>1, <2>1 DEF TasksInFlight
  <2>2. ioQueue = <<>>
    <3>1. ioQueue \in Seq(Tasks)
      BY DEF WInv, IInv, RegionManagerTypeOK
    <3>2. ASSUME ioQueue # <<>> PROVE FALSE
      <4>1. 1 \in 1..Len(ioQueue)
        BY <3>1, <3>2
      <4> QED BY <1>1, <4>1 DEF TasksInFlight
    <3> QED BY <3>2
  <2> QED BY <2>1, <2>2 DEF WorldIoThreads, IoThreads, IoTake, IoSave, IoLoad
<1>3. ~WorldRegionPump
  BY <1>1 DEF WorldRegionPump, WorldPumpSave, PumpSave, PumpSaved, PumpMerge, PumpEnd, FlushWait
<1> QED BY <1>1, <1>2, <1>3 DEF Next, Environment, SetBlock, MovePlayers, TickThread, BeginTick,
        DrainGenQueue, RecoverFailedLoads, DrainLoad, DrainLoadDone, SimulationDone, AutoSave,
        AutoSaveDone, AddPlaceholders, UnloadUnready, UnloadReady, UnloadDone, RegionPumpDone,
        StartGeneration, FindOnDisk, StartLoading, PumpPipelineDone, ShutdownBegin,
        ShutdownThread, BleedNext, AwaitTarget, PoolWait, IoWait, ApplyBleed, FlushWorld,
        ShutdownDone, ReleaseBegin, ProcessEnd

(* The process ends when its IO threads are done. *)
LEMMA DownStep ==
    ASSUME WInv, DownIsQuiet, [Next]_vars
    PROVE  DownIsQuiet'
<1>1. CASE ProcessEnd
  <2>1. /\ TasksInFlight = {} /\ UNCHANGED <<ioVars, toSave>> /\ pumpPc' = "idle"
        /\ \A c \in Chunks : toSave[c] = NoContent
    BY <1>1 DEF ProcessEnd, Release, WInv, IInv, FlushedIsIdle, RegionManagerTypeOK, pumpVars
  <2>2. TasksInFlight' = {}
    BY <2>1 DEF TasksInFlight, ioVars
  <2> QED BY <1>1, <2>1, <2>2 DEF ProcessEnd, Release, DownIsQuiet
<1>2. CASE ~ProcessEnd
  <2>1. SUFFICES ASSUME pc' = "down" PROVE DownIsQuiet'
    BY DEF DownIsQuiet
  <2>2. pc = "down"
    BY <1>2, <2>1 DEF Next, Environment, SetBlock, MovePlayers, TickThread, BeginTick,
       DrainGenQueue, RecoverFailedLoads, DrainLoad, DrainLoadDone, SimulationDone, AutoSave,
       AutoSaveDone, AddPlaceholders, UnloadUnready, UnloadReady, UnloadDone, WorldRegionPump,
       RegionPumpDone, StartGeneration, FindOnDisk, StartLoading, PumpPipelineDone,
       ShutdownBegin, ShutdownThread, BleedNext, AwaitTarget, PoolWait, IoWait, ApplyBleed,
       FlushWorld, ShutdownDone, ReleaseBegin, ProcessEnd, Restart, Generate, WorldIoThreads,
       vars, worldVars, Goto
  <2>3. ~Restart
    BY <2>1 DEF Restart
  <2>4. UNCHANGED <<slotVars, rmVars>>
    BY <2>2, <2>3, DownSteps DEF Generate, vars, worldVars, slotVars
  <2> QED BY <2>2, <2>4 DEF DownIsQuiet, slotVars, rmVars, ioVars, mailVars, pumpVars,
           TasksInFlight
<1> QED BY <1>1, <1>2

-----------------------------------------------------------------------------
(* The inductive invariant.                                                *)

(* What raced stays known to have, until the process restarts. *)
LEMMA RacedGrows ==
    ASSUME [Next]_vars, ~Restart
    PROVE  raced \subseteq raced'
<1>1. CASE TickThread
  BY <1>1 DEF TickThread, BeginTick, DrainGenQueue, RecoverFailedLoads, DrainLoad,
     DrainLoadDone, SimulationDone, AutoSave, AutoSaveDone, AddPlaceholders, UnloadUnready,
     UnloadReady, UnloadDone, WorldRegionPump, WorldPumpSave, RegionPumpDone, StartGeneration,
     FindOnDisk, StartLoading, PumpPipelineDone, Race, history
<1>2. CASE ShutdownThread \/ ShutdownBegin
  BY <1>2 DEF ShutdownBegin, ShutdownThread, BleedNext, AwaitTarget, PoolWait, IoWait,
     ApplyBleed, FlushWorld, ShutdownDone, ReleaseBegin, ProcessEnd, history
<1>3. CASE Environment \/ (\E c \in Chunks : Generate(c)) \/ WorldIoThreads \/ UNCHANGED vars
  BY <1>3 DEF Environment, SetBlock, MovePlayers, Generate, WorldIoThreads, vars, worldVars,
     history
<1> QED BY <1>1, <1>2, <1>3 DEF Next

(* Steps of the tick that touch neither slots nor the store. *)
LEMMA ControlChunk ==
    ASSUME NEW c \in Chunks, ChunkInv(c),
           \/ \E area \in SUBSET Chunks : MovePlayers(area)
           \/ \E d \in Chunks : Generate(d) /\ pc # "startLoading"
           \/ BeginTick \/ DrainLoadDone \/ SimulationDone \/ AutoSaveDone \/ RegionPumpDone
           \/ PumpPipelineDone \/ ShutdownBegin \/ AwaitTarget \/ PoolWait \/ IoWait
           \/ ShutdownDone
    PROVE  ChunkInv(c)' /\ OnlySaved(c)
<1>1. /\ UNCHANGED <<slotVars, edited, saveQueue, toSave, ioVars, mailVars, regionFile>>
      /\ pc' # "startLoading"
  BY DEF MovePlayers, Generate, BeginTick, DrainLoadDone, SimulationDone, AutoSaveDone,
     RegionPumpDone, PumpPipelineDone, ShutdownBegin, AwaitTarget, PoolWait, IoWait,
     ShutdownDone, FlushReturn, Goto, history, rmVars, pumpVars, diskVars
<1> QED BY <1>1, QuietChunk

(* A generator that finishes, at any time. *)
LEMMA GenerateChunk ==
    ASSUME NEW c \in Chunks, ChunkInv(c), UNCHANGED <<slotVars, history, pc, todo, rmVars>>
    PROVE  ChunkInv(c)' /\ OnlySaved(c)
<1>1. SlotSame(c)
  BY DEF SlotSame, slotVars, history
<1>2. SavesSame(c) /\ LoadsSame(c)
  BY StoreSame DEF LoadsSame, AwaitsCall, rmVars, mailVars, pumpVars, diskVars, slotVars
<1> QED BY <1>1, <1>2, ChunkSame

(* The pump. *)
LEMMA PumpChunk ==
    ASSUME WInv, NEW c \in Chunks \ raced', ChunkInv(c), WorldRegionPump
    PROVE  ChunkInv(c)' /\ OnlySaved(c)
<1>1. CASE \E d \in Chunks : WorldPumpSave(d)
  BY <1>1, PumpSaveChunk DEF WorldRegionPump
<1>2. CASE ~\E d \in Chunks : WorldPumpSave(d)
  <2>1. /\ PumpSaved \/ (\E h \in Handles : PumpMerge(h)) \/ PumpEnd \/ FlushWait
        /\ UNCHANGED <<history, slotVars, pc, todo>>
    BY <1>2 DEF WorldRegionPump
  <2>2. pc # "startLoading"
    BY <2>1 DEF PumpSaved, PumpMerge, PumpEnd, FlushWait, WInv, PhaseInv, PumpIdle
  <2>3. UNCHANGED <<saveQueue, toSave, ioVars, mailVars, regionFile>>
    BY <2>1 DEF PumpSaved, PumpMerge, PumpEnd, FlushWait, diskVars
  <2> QED BY <2>1, <2>2, <2>3, QuietChunk DEF history
<1> QED BY <1>1, <1>2

(* Every step but the two ends of a process keeps the account of a chunk that
   does not race. *)
LEMMA ChunkStep ==
    ASSUME WInv, [Next]_vars, ~Restart, ~ProcessEnd, NEW c \in Chunks \ raced', ChunkInv(c)
    PROVE  ChunkInv(c)' /\ OnlySaved(c)
<1>1. TypeOK /\ BleedOnlyWhileUnready
  BY DEF WInv
<1>2. CASE Environment
  BY <1>1, <1>2, EditChunk, ControlChunk DEF Environment
<1>3. CASE \/ BeginTick \/ DrainGenQueue \/ RecoverFailedLoads \/ DrainLoadDone
           \/ SimulationDone \/ AutoSaveDone \/ AddPlaceholders \/ RegionPumpDone
           \/ PumpPipelineDone \/ \E d \in Chunks : DrainLoad(d)
  BY <1>1, <1>3, ControlChunk, DrainGenChunk, RecoverChunk, DrainLoadChunk, PlaceholderChunk
<1>4. CASE \E d \in Chunks : \/ AutoSave(d) \/ UnloadUnready(d) \/ UnloadReady(d)
                             \/ StartGeneration(d) \/ FindOnDisk(d) \/ StartLoading(d)
  BY <1>1, <1>4, AutoSaveChunk, UnloadUnreadyChunk, UnloadReadyChunk, StartGenerationChunk,
     FindOnDiskChunk, StartLoadingChunk
<1>5. CASE UnloadDone \/ FlushWorld \/ ReleaseBegin
  <2>1. /\ \E flush \in BOOLEAN : PumpBegin(flush)
        /\ UNCHANGED <<slotVars, edited>>
        /\ pc' # "startLoading"
    BY <1>5 DEF UnloadDone, FlushWorld, ReleaseBegin, Goto, history
  <2> QED BY <2>1, PumpBeginChunk
<1>6. CASE WorldRegionPump
  BY <1>6, PumpChunk
<1>7. CASE ShutdownBegin \/ AwaitTarget \/ PoolWait \/ IoWait \/ ShutdownDone
  BY <1>7, ControlChunk
<1>8. CASE ApplyBleed \/ \E d \in Chunks : BleedNext(d)
  BY <1>1, <1>8, ApplyBleedChunk, PlaceholderChunk
<1>9. CASE (\E d \in Chunks : Generate(d)) \/ UNCHANGED vars
  BY <1>9, GenerateChunk DEF Generate, vars, worldVars, slotVars, history
<1>10. CASE WorldIoThreads
  BY <1>10, IoChunk
<1> QED BY <1>2, <1>3, <1>4, <1>5, <1>6, <1>7, <1>8, <1>9, <1>10
        DEF Next, TickThread, ShutdownThread

LEMMA ChunksStep ==
    ASSUME WInv, AllChunksInv, DownIsQuiet, [Next]_vars
    PROVE  AllChunksInv'
<1>1. SUFFICES ASSUME pc' # "down", NEW c \in Chunks \ raced'
               PROVE  ChunkInv(c)'
  BY DEF AllChunksInv
<1>2. CASE Restart
  BY <1>2, RestartChunk
<1>3. CASE ~Restart
  <2>1. pc # "down"
    BY <1>1, <1>3, DownSteps DEF Generate, vars, worldVars
  <2>2. ChunkInv(c) /\ ~ProcessEnd
    BY <1>1, <1>3, <2>1, RacedGrows DEF AllChunksInv, ProcessEnd
  <2> QED BY <1>3, <2>2, ChunkStep
<1> QED BY <1>2, <1>3

(* The phases of a tick are not those of Shutdown, but for the ones they share. *)
LEMMA StopStep ==
    ASSUME WInv, StopPhases, [Next]_vars
    PROVE  StopPhases'
<1> USE DEF StopPhases, Goto
<1>0. stopping \in BOOLEAN
  BY DEF WInv, TypeOK
<1>1. CASE TickThread
  <2>1. CASE \/ BeginTick \/ DrainGenQueue \/ RecoverFailedLoads \/ DrainLoadDone
             \/ SimulationDone \/ AutoSaveDone \/ AddPlaceholders \/ UnloadDone
    <3>1. CASE BeginTick
      BY <1>0, <3>1 DEF BeginTick
    <3>2. CASE RecoverFailedLoads
      BY <1>0, <3>2 DEF RecoverFailedLoads
    <3>3. CASE SimulationDone
      BY <1>0, <3>3 DEF SimulationDone
    <3>4. CASE AutoSaveDone
      BY <1>0, <3>4 DEF AutoSaveDone
    <3>5. CASE AddPlaceholders
      BY <1>0, <3>5 DEF AddPlaceholders
    <3>6. CASE UnloadDone
      BY <1>0, <3>6 DEF UnloadDone
    <3>7. CASE DrainGenQueue
      BY <1>0, <3>7 DEF DrainGenQueue
    <3>8. CASE DrainLoadDone
      BY <1>0, <3>8 DEF DrainLoadDone
    <3> QED BY <2>1, <3>1, <3>2, <3>3, <3>4, <3>5, <3>6, <3>7, <3>8
  <2>2. CASE WorldRegionPump \/ RegionPumpDone \/ PumpPipelineDone
    BY <2>2 DEF WorldRegionPump, RegionPumpDone, PumpPipelineDone
  <2>3. CASE \E c \in Chunks : \/ DrainLoad(c) \/ AutoSave(c) \/ UnloadUnready(c)
                              \/ UnloadReady(c)
    BY <2>3 DEF DrainLoad, AutoSave, UnloadUnready, UnloadReady
  <2>4. CASE \E c \in Chunks : StartGeneration(c) \/ FindOnDisk(c) \/ StartLoading(c)
    BY <2>4 DEF StartGeneration, FindOnDisk, StartLoading
  <2> QED BY <1>1, <2>1, <2>2, <2>3, <2>4 DEF TickThread
<1>2. CASE ShutdownThread \/ ShutdownBegin \/ Restart
  BY <1>2 DEF ShutdownBegin, ShutdownThread, BleedNext, AwaitTarget, PoolWait, IoWait,
     ApplyBleed, FlushWorld, ShutdownDone, ReleaseBegin, ProcessEnd, Restart
<1>3. CASE Environment \/ (\E c \in Chunks : Generate(c)) \/ WorldIoThreads \/ UNCHANGED vars
  BY <1>3 DEF Environment, SetBlock, MovePlayers, Generate, WorldIoThreads, vars, worldVars
<1> QED BY <1>1, <1>2, <1>3 DEF Next

(* A server starts without edits. *)
THEOREM EditsInit == Init => EditsInv
<1> SUFFICES ASSUME Init PROVE EditsInv
  OBVIOUS
<1>1. WInv /\ DownIsQuiet
  BY PipelineInit DEF Init, DownIsQuiet
<1>2. ASSUME NEW c \in Chunks PROVE ChunkInv(c)
  <2>1. /\ TasksInFlight = {} /\ saveQueue[c] = NoContent /\ toSave[c] = NoContent
        /\ outChunks[c] = NoContent /\ c \notin failedLoads
        /\ chunkState[c] = "Absent"
        /\ pendingBleedWrites[c] = <<>>
        /\ edited[c] = {} /\ OnDisk(c) = {} /\ pc = "tick"
    BY DEF Init, RegionManagerInit, TasksInFlight, OnDisk
  <2>2. SaveTasksOf(c) = {} /\ ~InFlight(c, "save") /\ ~InFlight(c, "load")
    BY <2>1 DEF SaveTasksOf, TasksOf, InFlight
  <2>3. Newest(c) = {} /\ ~Valid(c) /\ ~LoadOwed(c) /\ LoadsOnce(c)
    BY <2>1, <2>2 DEF Newest, Valid, LoadOwed, LoadsOnce, IsLoad, TasksInFlight
  <2>4. SavesInOrder(c) /\ LoadAlone(c) /\ GeneratedFresh(c) /\ CleanIsNewest(c)
    BY <2>1, <2>2, <2>3 DEF SavesInOrder, LoadAlone, LoadOwed, GeneratedFresh, CleanIsNewest
  <2>5. ToSet(pendingBleedWrites[c]) = {} /\ IsInjective(pendingBleedWrites[c])
    BY <2>1 DEF ToSet, IsInjective
  <2> QED BY <2>1, <2>3, <2>4, <2>5 DEF ChunkInv, BleedIsNew, Counted
<1> QED BY <1>1, <1>2 DEF EditsInv, AllChunksInv, Init, StopPhases

(* Every step keeps the account of the edits. *)
THEOREM EditsNext == EditsInv /\ [Next]_vars => EditsInv'
BY PipelineNext, ChunksStep, DownStep, StopStep DEF EditsInv

THEOREM EditsInvariant == Spec => []EditsInv
BY EditsInit, EditsNext, PTL DEF Spec

-----------------------------------------------------------------------------
(* The theorems.                                                           *)

(* What the next visitor of a chunk finds is its newest content. *)
LEMMA KeptIsNewest ==
    ASSUME NEW c \in Chunks, SavesInOrder(c)
    PROVE  Kept(c) = ToSet(pendingBleedWrites[c])
                        \cup IF Valid(c) THEN blocks[c] ELSE Newest(c)
<1>1. SUFFICES ASSUME ~Valid(c), saveQueue[c] = NoContent
               PROVE  Newest(c) = IF SavesUnderWay(c) # {} THEN UNION SavesUnderWay(c)
                                  ELSE OnDisk(c)
  BY DEF Kept, Newest
<1>2. SavesUnderWay(c) = {content \in {toSave[c]} \cup {t.content : t \in SaveTasksOf(c)} :
                            content # NoContent}
  BY <1>1 DEF SavesUnderWay, SaveTasksOf, TasksOf
<1>3. CASE toSave[c] # NoContent
  <2>1. /\ toSave[c] \in SavesUnderWay(c)
        /\ \A content \in SavesUnderWay(c) : content \subseteq toSave[c]
    BY <1>2, <1>3 DEF SavesInOrder
  <2>2. UNION SavesUnderWay(c) = toSave[c]
    BY <2>1
  <2> QED BY <1>1, <1>3, <2>1, <2>2 DEF Newest
<1>4. CASE toSave[c] = NoContent /\ SaveTasksOf(c) # {}
  <2>1. PICK t \in SaveTasksOf(c) : SaveTasksOf(c) = {t} /\ t.content # NoContent
    BY <1>4 DEF SavesInOrder
  <2>2. SavesUnderWay(c) = {t.content}
    BY <1>2, <1>4, <2>1
  <2> QED BY <1>1, <1>4, <2>1, <2>2 DEF Newest
<1>5. CASE toSave[c] = NoContent /\ SaveTasksOf(c) = {}
  <2>1. SavesUnderWay(c) = {}
    BY <1>2, <1>5
  <2> QED BY <1>1, <1>5, <2>1 DEF Newest
<1> QED BY <1>3, <1>4, <1>5

(* No edit is lost while the server runs, for every chunk on which no two
   operations of the store overlapped, with any number of chunks, regions, slots
   and IO threads. *)
THEOREM EditsAreKept == Spec => []EditsKept
<1>1. EditsInv => EditsKept
  <2> SUFFICES ASSUME EditsInv, ~stopping, NEW c \in Chunks \ raced
               PROVE  Kept(c) = edited[c]
    BY DEF EditsKept
  <2>1. ChunkInv(c)
    BY DEF EditsInv, AllChunksInv, StopPhases
  <2> QED BY <2>1, KeptIsNewest DEF ChunkInv, Counted
<1> QED BY <1>1, EditsInvariant, PTL

-----------------------------------------------------------------------------
(* Shutdown.                                                               *)

\* A chunk that was ready has its newest content saved, or its turn comes.
ReadySaved(c) ==
    /\ pendingBleedWrites[c] = <<>>
    /\ (pc = "shutdownSave" /\ c \in todo) \/ edited[c] = Newest(c)

SavedWhileStopping ==
    stopping /\ pc # "down" => \A c \in Chunks \ (raced \cup late) : ReadySaved(c)

\* With FlushAll begun nothing comes back to the queue.
FlushEmpties == pc \in {"flush", "release"} => \A c \in Chunks : saveQueue[c] = NoContent

StopInv ==
    EditsInv /\ OnePlaceEach /\ FlushEmpties /\ SavedWhileStopping /\ ShutdownKeepsReady

(* No edit is made once Shutdown runs, and none waits for a chunk for which none
   waited. *)
LEMMA StoppingIsQuiet ==
    ASSUME WInv, StopPhases, [Next]_vars, stopping, ~Restart
    PROVE  /\ UNCHANGED <<edited, late, stopping>>
           /\ \A c \in Chunks : pendingBleedWrites[c] = <<>> => pendingBleedWrites'[c] = <<>>
<1> USE DEF Goto, history, slotVars
<1>1. CASE Environment \/ ShutdownBegin
  BY <1>1 DEF StopPhases, Environment, SetBlock, MovePlayers, ShutdownBegin
<1>2. CASE DrainGenQueue \/ \E c \in Chunks : DrainLoad(c)
  BY <1>2 DEF DrainGenQueue, DrainLoad, Install, BleedLeft
<1>3. CASE TickThread /\ ~DrainGenQueue /\ ~\E c \in Chunks : DrainLoad(c)
  BY <1>3 DEF TickThread, BeginTick, RecoverFailedLoads, DrainLoadDone, SimulationDone,
     AutoSave, AutoSaveDone, AddPlaceholders, UnloadUnready, UnloadReady, UnloadDone,
     WorldRegionPump, WorldPumpSave, RegionPumpDone, StartGeneration, FindOnDisk,
     StartLoading, PumpPipelineDone, Race
<1>4. CASE ApplyBleed \/ ProcessEnd
  BY <1>4 DEF ApplyBleed, ProcessEnd
<1>5. CASE ShutdownThread /\ ~ApplyBleed /\ ~ProcessEnd
  BY <1>5 DEF ShutdownThread, BleedNext, AwaitTarget, PoolWait, IoWait, FlushWorld,
     ShutdownDone, ReleaseBegin
<1>6. CASE (\E c \in Chunks : Generate(c)) \/ WorldIoThreads \/ UNCHANGED vars
  BY <1>6 DEF Generate, WorldIoThreads, vars, worldVars
<1> QED BY <1>1, <1>2, <1>3, <1>4, <1>5, <1>6 DEF Next

(* Only Shutdown makes the server stop. *)
LEMMA StopsOnce ==
    ASSUME [Next]_vars, stopping'
    PROVE  stopping \/ ShutdownBegin
<1> USE DEF Goto
<1>1. CASE TickThread
  BY <1>1 DEF TickThread, BeginTick, DrainGenQueue, RecoverFailedLoads, DrainLoad,
     DrainLoadDone, SimulationDone, AutoSave, AutoSaveDone, AddPlaceholders, UnloadUnready,
     UnloadReady, UnloadDone, WorldRegionPump, RegionPumpDone, StartGeneration, FindOnDisk,
     StartLoading, PumpPipelineDone
<1>2. CASE ShutdownThread \/ Restart
  BY <1>2 DEF ShutdownThread, BleedNext, AwaitTarget, PoolWait, IoWait, ApplyBleed,
     FlushWorld, ShutdownDone, ReleaseBegin, ProcessEnd, Restart
<1>3. CASE Environment \/ (\E c \in Chunks : Generate(c)) \/ WorldIoThreads \/ UNCHANGED vars
  BY <1>3 DEF Environment, SetBlock, MovePlayers, Generate, WorldIoThreads, vars, worldVars
<1> QED BY <1>1, <1>2, <1>3 DEF Next

(* A chunk leaves the loop of Shutdown's SaveChunks by being saved. *)
LEMMA TurnsOfSave ==
    ASSUME WInv, [Next]_vars, pc = "shutdownSave", NEW c \in todo
    PROVE  \/ pc' = "shutdownSave" /\ c \in todo'
           \/ Newest(c)' = blocks[c] /\ Valid(c)
<1>1. CASE \E d \in Chunks : AutoSave(d)
  <2>1. PICK d \in Chunks : AutoSave(d)
    BY <1>1
  <2>2. CASE d = c
    <3>1. saveQueue'[c] = blocks[c]
      BY <2>1, <2>2 DEF AutoSave, SaveChunk, WInv, TypeOK, RegionManagerTypeOK
    <3>2. blocks[c] # NoContent /\ Valid(c)
      BY <2>2, BlocksAreContents, NullsDistinct
         DEF WInv, PhaseInv, SavesAreReady, ValidChunks
    <3> QED BY <3>1, <3>2 DEF Newest
  <2>3. CASE d # c
    BY <2>1, <2>3 DEF AutoSave
  <2> QED BY <2>2, <2>3
<1>2. CASE ~\E d \in Chunks : AutoSave(d)
  BY <1>2 DEF Next, Environment, SetBlock, MovePlayers, TickThread, BeginTick, DrainGenQueue,
     RecoverFailedLoads, DrainLoad, DrainLoadDone, SimulationDone, AutoSaveDone,
     AddPlaceholders, UnloadUnready, UnloadReady, UnloadDone, WorldRegionPump, RegionPumpDone,
     StartGeneration, FindOnDisk, StartLoading, PumpPipelineDone, ShutdownBegin,
     ShutdownThread, BleedNext, AwaitTarget, PoolWait, IoWait, ApplyBleed, FlushWorld,
     ShutdownDone, ReleaseBegin, ProcessEnd, Restart, Generate, WorldIoThreads, vars, worldVars
<1> QED BY <1>1, <1>2

(* With a slot for every region, what FlushAll took from the queue stays taken. *)
LEMMA FlushStep ==
    ASSUME RegionsFit, WInv, OnePlaceEach, FlushEmpties, [Next]_vars
    PROVE  FlushEmpties'
<1>1. SUFFICES ASSUME pc' \in {"flush", "release"}, NEW c \in Chunks
               PROVE  saveQueue'[c] = NoContent
  BY DEF FlushEmpties
<1>2. CASE FlushWorld \/ ReleaseBegin
  BY <1>2 DEF FlushWorld, ReleaseBegin, PumpBegin
<1>3. CASE ~FlushWorld /\ ~ReleaseBegin
  <2>1. /\ pc \in {"flush", "release"}
        /\ \/ WorldRegionPump \/ ShutdownDone \/ WorldIoThreads \/ UNCHANGED vars
           \/ \E d \in Chunks : Generate(d)
    BY <1>1, <1>3 DEF Next, Environment, SetBlock, MovePlayers, TickThread, BeginTick,
       DrainGenQueue, RecoverFailedLoads, DrainLoad, DrainLoadDone, SimulationDone, AutoSave,
       AutoSaveDone, AddPlaceholders, UnloadUnready, UnloadReady, UnloadDone, WorldRegionPump,
       RegionPumpDone, StartGeneration, FindOnDisk, StartLoading, PumpPipelineDone,
       ShutdownBegin, ShutdownThread, BleedNext, AwaitTarget, PoolWait, IoWait, ApplyBleed,
       ShutdownDone, ProcessEnd, Restart, Generate, WorldIoThreads, vars, worldVars, Goto
  <2>2. saveQueue[c] = NoContent
    BY <2>1 DEF FlushEmpties
  <2>3. ASSUME NEW d \in Chunks, PumpSave(d) PROVE UNCHANGED saveQueue
    BY <2>3, NeverRefused, RegionOfType DEF PumpSave, WInv
  <2>4. UNCHANGED saveQueue
    <3>1. CASE WorldRegionPump
      BY <2>3, <3>1 DEF WorldRegionPump, WorldPumpSave, PumpSaved, PumpMerge, PumpEnd, FlushWait
    <3>2. CASE ShutdownDone \/ WorldIoThreads \/ UNCHANGED vars \/ \E d \in Chunks : Generate(d)
      BY <3>2 DEF ShutdownDone, FlushReturn, WorldIoThreads, IoThreads, IoTake, IoSave, IoLoad,
         vars, Generate, rmVars
    <3> QED BY <2>1, <3>1, <3>2
  <2> QED BY <2>2, <2>4
<1> QED BY <1>2, <1>3

(* As Shutdown begins, a chunk without waiting edits is either in the loop of
   SaveChunks or saved already. *)
LEMMA BeginSaves ==
    ASSUME EditsInv, ShutdownBegin
    PROVE  SavedWhileStopping'
<1> SUFFICES ASSUME NEW c \in Chunks \ (raced' \cup late') PROVE ReadySaved(c)'
  BY DEF SavedWhileStopping
<1>1. /\ c \notin raced /\ pc = "tick" /\ pc' = "shutdownSave"
      /\ todo' = ChunksToSave(TRUE)
      /\ pendingBleedWrites'[c] = <<>> /\ pendingBleedWrites[c] = <<>>
      /\ edited' = edited
  BY DEF ShutdownBegin, Bleeding, slotVars
<1>2. ChunkInv(c)
  BY <1>1 DEF EditsInv, AllChunksInv
<1>3. Newest(c)' = Newest(c)
  BY StoreSame, NewestSame DEF ShutdownBegin, rmVars, pumpVars, diskVars
<1>4. ToSet(pendingBleedWrites[c]) = {}
  BY <1>1 DEF ToSet
<1>5. edited[c] = IF Valid(c) THEN blocks[c] ELSE Newest(c)
  BY <1>2, <1>4 DEF ChunkInv, Counted
<1>6. CASE Valid(c) /\ c \in isModified
  BY <1>1, <1>6 DEF ReadySaved, ChunksToSave, ValidChunks
<1>7. CASE ~(Valid(c) /\ c \in isModified)
  <2>1. edited[c] = Newest(c)
    BY <1>2, <1>5, <1>7 DEF ChunkInv, CleanIsNewest
  <2> QED BY <1>1, <1>3, <2>1 DEF ReadySaved
<1> QED BY <1>6, <1>7

(* What is saved stays saved until the process ends. *)
LEMMA SavedStep ==
    ASSUME EditsInv, SavedWhileStopping, [Next]_vars
    PROVE  SavedWhileStopping'
<1> SUFFICES ASSUME stopping', pc' # "down", NEW c \in Chunks \ (raced' \cup late')
             PROVE  ReadySaved(c)'
  BY DEF SavedWhileStopping
<1>1. CASE ShutdownBegin
  BY <1>1, BeginSaves DEF SavedWhileStopping
<1>2. CASE ~ShutdownBegin
  <2>1. stopping /\ ~Restart
    BY <1>2, StopsOnce DEF Restart
  <2>2. /\ UNCHANGED <<edited, late>>
        /\ pendingBleedWrites[c] = <<>> => pendingBleedWrites'[c] = <<>>
    BY <2>1, StoppingIsQuiet DEF EditsInv
  <2>3. pc # "down"
    BY <2>1, DownSteps DEF EditsInv, Generate, vars, worldVars
  <2>4. c \in Chunks \ (raced \cup late) /\ ~ProcessEnd
    BY <2>1, <2>2, RacedGrows DEF ProcessEnd
  <2>5. ReadySaved(c) /\ ChunkInv(c)
    BY <2>1, <2>3, <2>4 DEF SavedWhileStopping, EditsInv, AllChunksInv
  <2>6. OnlySaved(c)
    BY <2>1, <2>4, <2>5, ChunkStep DEF EditsInv
  <2>7. Valid(c) => edited[c] = blocks[c]
    <3>1. ToSet(pendingBleedWrites[c]) = {}
      BY <2>5 DEF ReadySaved, ToSet
    <3> QED BY <2>5, <3>1 DEF ChunkInv, Counted
  <2>8. CASE edited[c] = Newest(c)
    <3>1. Newest(c)' = edited'[c]
      BY <2>2, <2>6, <2>7, <2>8 DEF OnlySaved
    <3> QED BY <2>2, <2>5, <3>1 DEF ReadySaved
  <2>9. CASE pc = "shutdownSave" /\ c \in todo
    <3>1. CASE pc' = "shutdownSave" /\ c \in todo'
      BY <2>2, <2>5, <3>1 DEF ReadySaved
    <3>2. CASE Newest(c)' = blocks[c] /\ Valid(c)
      <4>1. Newest(c)' = edited'[c]
        BY <2>2, <2>7, <3>2
      <4> QED BY <2>2, <2>5, <4>1 DEF ReadySaved
    <3> QED BY <2>9, <3>1, <3>2, TurnsOfSave DEF EditsInv
  <2> QED BY <2>5, <2>8, <2>9 DEF ReadySaved
<1> QED BY <1>1, <1>2

(* The process ends with the newest content of each chunk on disk. *)
LEMMA EndStep ==
    ASSUME StopInv, [Next]_vars
    PROVE  ShutdownKeepsReady'
<1> SUFFICES ASSUME pc' = "down", NEW c \in Chunks \ (raced' \cup late')
             PROVE  edited'[c] = OnDisk(c)'
  BY DEF ShutdownKeepsReady
<1>1. CASE pc = "down"
  <2>1. UNCHANGED <<history, regionFile>>
    BY <1>1, DownSteps DEF StopInv, EditsInv, Restart, Generate, vars, worldVars, history,
       rmVars, diskVars
  <2> QED BY <1>1, <2>1 DEF StopInv, ShutdownKeepsReady, OnDisk, history
<1>2. CASE pc # "down"
  <2>1. ProcessEnd
    BY <1>2 DEF Next, Environment, SetBlock, MovePlayers, TickThread, BeginTick,
       DrainGenQueue, RecoverFailedLoads, DrainLoad, DrainLoadDone, SimulationDone, AutoSave,
       AutoSaveDone, AddPlaceholders, UnloadUnready, UnloadReady, UnloadDone, WorldRegionPump,
       RegionPumpDone, StartGeneration, FindOnDisk, StartLoading, PumpPipelineDone,
       ShutdownBegin, ShutdownThread, BleedNext, AwaitTarget, PoolWait, IoWait, ApplyBleed,
       FlushWorld, ShutdownDone, ReleaseBegin, Restart, Generate, WorldIoThreads, vars,
       worldVars, Goto
  <2>2. /\ UNCHANGED <<history, regionFile>>
        /\ pc = "release" /\ pumpPc = "flushed" /\ stopping
    BY <2>1 DEF ProcessEnd, Release, diskVars, StopInv, EditsInv, StopPhases
  <2>3. saveQueue[c] = NoContent /\ toSave[c] = NoContent /\ TasksInFlight = {}
    BY <2>2 DEF StopInv, FlushEmpties, EditsInv, WInv, IInv, FlushedIsIdle,
       RegionManagerTypeOK
  <2>4. Newest(c) = OnDisk(c)
    BY <2>3 DEF Newest, SaveTasksOf, TasksOf
  <2>5. edited[c] = Newest(c)
    BY <2>2 DEF StopInv, SavedWhileStopping, ReadySaved, history
  <2> QED BY <2>2, <2>4, <2>5 DEF OnDisk, history
<1> QED BY <1>1, <1>2

(* What was ready when Shutdown began is on disk when the process ends, provided
   the regions of the world fit the cache: a save that FlushAll is refused is
   lost with the process. *)
THEOREM ShutdownSavesReady == RegionsFit => (Spec => []ShutdownKeepsReady)
<1> SUFFICES ASSUME RegionsFit PROVE Spec => []ShutdownKeepsReady
  OBVIOUS
<1>1. Init => StopInv
  BY EditsInit DEF StopInv, Init, RegionManagerInit, OnePlaceEach, OpenSet, Cached,
     FlushEmpties, SavedWhileStopping, ShutdownKeepsReady
<1>2. StopInv /\ [Next]_vars => StopInv'
  <2> SUFFICES ASSUME StopInv, [Next]_vars PROVE StopInv'
    OBVIOUS
  <2>1. EditsInv'
    BY EditsNext DEF StopInv
  <2>2. OnePlaceEach'
    BY StepUsesStore, PlacesStep DEF StopInv, EditsInv, WInv
  <2>3. FlushEmpties'
    BY FlushStep DEF StopInv, EditsInv
  <2>4. SavedWhileStopping'
    BY SavedStep DEF StopInv
  <2>5. ShutdownKeepsReady'
    BY EndStep
  <2> QED BY <2>1, <2>2, <2>3, <2>4, <2>5 DEF StopInv
<1>3. StopInv => ShutdownKeepsReady
  BY DEF StopInv
<1> QED BY <1>1, <1>2, <1>3, PTL DEF Spec

(* Only the pump of the world gives the pool a chunk to generate, after it has
   asked for it. *)
LEMMA OnlyAskedIsGenerated ==
    ASSUME WInv, [Next]_vars, NEW c \in Chunks, genTasks'[c] > genTasks[c]
    PROVE  ChunkExists(c, FALSE)
<1>0. genTasks \in [Chunks -> Nat]
  BY DEF WInv, TypeOK
<1>1. UNCHANGED genTasks => FALSE
  BY <1>0
<1>2. CASE \E d \in Chunks : StartGeneration(d)
  <2>1. PICK d \in Chunks : StartGeneration(d)
    BY <1>2
  <2>2. d = c
    BY <1>0, <2>1 DEF StartGeneration
  <2> QED BY <2>1, <2>2 DEF StartGeneration
<1>3. CASE \E d \in Chunks : Generate(d)
  <2>1. PICK d \in Chunks : Generate(d)
    BY <1>3
  <2>2. genTasks' = [genTasks EXCEPT ![d] = @ - 1]
    BY <2>1 DEF Generate
  <2>3. genTasks'[c] \in {genTasks[c], genTasks[c] - 1} /\ genTasks[c] \in Nat
    BY <1>0, <2>2
  <2> QED BY <2>3
<1>4. CASE ProcessEnd
  BY <1>0, <1>4 DEF ProcessEnd
<1>5. CASE ~(\E d \in Chunks : StartGeneration(d) \/ Generate(d)) /\ ~ProcessEnd
  BY <1>1, <1>5 DEF Next, Environment, SetBlock, MovePlayers, TickThread, BeginTick, DrainGenQueue,
     RecoverFailedLoads, DrainLoad, DrainLoadDone, SimulationDone, AutoSave, AutoSaveDone,
     AddPlaceholders, UnloadUnready, UnloadReady, UnloadDone, WorldRegionPump, RegionPumpDone,
     FindOnDisk, StartLoading, PumpPipelineDone, ShutdownBegin, ShutdownThread, BleedNext,
     AwaitTarget, PoolWait, IoWait, ApplyBleed, FlushWorld, ShutdownDone, ReleaseBegin,
     Restart, WorldIoThreads, vars, worldVars, slotVars, genVars
<1> QED BY <1>2, <1>3, <1>4, <1>5

(* No chunk is generated over the one its region file has, unless the file could
   not be looked into: tasks on other regions hold every slot. *)
THEOREM GeneratedIsNew == Spec => GeneratedOnlyIfNew
<1>1. WInv /\ FilesExist /\ [Next]_vars =>
        [\A c \in Chunks : genTasks'[c] > genTasks[c] =>
            \/ regionFile[c] = NoContent
            \/ OpenRegions(RegionOf[c]) = {} /\ \A i \in Slots : ~SlotUsable(i)]_vars
  BY OnlyAskedIsGenerated, DeniedOnlyUnseen DEF WInv
<1>2. Spec => []FilesExist
  BY WorldUsesStore, FilesExistInvariant, PTL DEF UsesStore
<1> QED BY <1>1, <1>2, PipelineInvariant, PTL DEF Spec, GeneratedOnlyIfNew

=============================================================================
