----------------------------- MODULE ChunkPipeline -----------------------------
(***************************************************************************)
(* The life of a chunk in one dimension: WorldManager::Tick and Update,    *)
(* the terrain-generation pool and WorldManager::Shutdown                  *)
(* (bpp_shared/world/world.cpp), on top of the chunk store of              *)
(* RegionManager.                                                          *)
(*                                                                         *)
(* What a chunk holds is the set of edits made to it: {} is a freshly      *)
(* generated chunk.  An edit is any SetBlock the main thread makes, by a   *)
(* packet, a block behaviour or the population of a neighbour; one that    *)
(* hits a chunk that is not ready waits in pendingBleedWrites.             *)
(*                                                                         *)
(* The main thread is a program counter over the phases of a tick, with    *)
(* one step for each chunk of a loop, so that generator and IO threads run *)
(* between any two of its accesses to the queues they share.               *)
(***************************************************************************)
EXTENDS RegionManager, SequencesExt

CONSTANTS
    Edits,        \* block changes the players and the world may make
    SpawnChunks,  \* chunks marked spawnChunk, which are never unloaded
    EntityChunks, \* chunks with an entity in them
    MaxBleed,     \* MAX_BLEED_WRITES_PER_CHUNK
    Budget,       \* slicePerPlayer * playerCount
    MaxBacklog    \* bound: with more work waiting for the pools, players stay put

ASSUME ContentsAreEdits == Contents = SUBSET Edits
ASSUME SpawnChunksType == SpawnChunks \subseteq Chunks
ASSUME EntityChunksType == EntityChunks \subseteq Chunks
ASSUME MaxBleedType == MaxBleed \in Nat \ {0}
ASSUME BudgetType == Budget \in Nat \ {0}

VARIABLES
    chunkState,         \* the ChunkState of each chunk, "Absent" if not in chunks
    blocks,             \* the edits a valid chunk in memory holds
    isModified,         \* chunks changed since they were last handed to SaveChunk
    pendingBleedWrites, \* edits waiting for a chunk to be ready
    genTasks,           \* how many generation tasks the pool has for a chunk
    genDoneQueue,       \* chunks whose generation finished
    wanted,             \* chunks within the view of some player
    pc,                 \* the phase the main thread is in
    todo,               \* chunks the current loop has still to visit
    target,             \* the chunk Shutdown waits for
    stopping,           \* Shutdown is running
    edited,             \* history: the edits made to each chunk
    raced,              \* history: chunks two operations on which overlapped
    late                \* history: chunks with edits waiting as Shutdown began

worldVars == <<chunkState, blocks, isModified, pendingBleedWrites, genTasks,
               genDoneQueue, wanted, pc, todo, target, stopping, edited, raced, late>>
slotVars  == <<chunkState, blocks, isModified, pendingBleedWrites>>
genVars   == <<genTasks, genDoneQueue>>
history   == <<edited, raced, late>>
vars      == <<worldVars, rmVars>>

Phases == {"tick", "drainGen", "takeFailed", "drainLoad", "simulate", "autosave",
           "radius", "unload", "regionPump", "worldPump", "startLoading",
           "shutdownSave", "bleed", "await", "poolWait", "ioWait", "applyBleed",
           "flush", "release", "down"}

\* state >= ChunkState::Generated
Valid(c) == chunkState[c] = "Generated"

Loading == {c \in Chunks : chunkState[c] = "Loading"}
Unloaded == {c \in Chunks : chunkState[c] = "Unloaded"}
ValidChunks == {c \in Chunks : Valid(c)}

Bleeding == {c \in Chunks : pendingBleedWrites[c] # <<>>}

TypeOK ==
    /\ RegionManagerTypeOK
    /\ chunkState \in [Chunks -> {"Absent", "Unloaded", "Generating", "Loading",
                                  "Generated"}]
    /\ blocks \in [Chunks -> SUBSET Edits]
    /\ isModified \subseteq ValidChunks
    /\ pendingBleedWrites \in [Chunks -> Seq(Edits)]
    /\ \A c \in Chunks : Len(pendingBleedWrites[c]) <= MaxBleed
    /\ genTasks \in [Chunks -> Nat]
    /\ genDoneQueue \in Seq(Chunks)
    /\ wanted \subseteq Chunks
    /\ pc \in Phases
    /\ todo \subseteq Chunks
    /\ target \in Chunks
    /\ stopping \in BOOLEAN
    /\ edited \in [Chunks -> SUBSET Edits]
    /\ raced \subseteq Chunks
    /\ late \subseteq Chunks

-----------------------------------------------------------------------------
(* What is under way for a chunk in the store.                             *)

InFlight(c, kind) == \E t \in TasksInFlight : t.chunk = c /\ t.kind = kind

SaveUnderWay(c) ==
    \/ saveQueue[c] # NoContent
    \/ toSave[c] # NoContent
    \/ InFlight(c, "save")

\* Operations that overlap another one on the same chunk are remembered: what
\* the two IO threads, or a question to the disk, make of them is a race.
Race(c, overlap) ==
    /\ raced' = IF overlap THEN raced \cup {c} ELSE raced
    /\ UNCHANGED late

Init ==
    /\ RegionManagerInit
    /\ chunkState = [c \in Chunks |-> "Absent"]
    /\ blocks = [c \in Chunks |-> {}]
    /\ isModified = {}
    /\ pendingBleedWrites = [c \in Chunks |-> <<>>]
    /\ genTasks = [c \in Chunks |-> 0]
    /\ genDoneQueue = <<>>
    /\ wanted = {}
    /\ pc = "tick"
    /\ todo = {}
    /\ target \in Chunks
    /\ stopping = FALSE
    /\ edited = [c \in Chunks |-> {}]
    /\ raced = {}
    /\ late = {}

-----------------------------------------------------------------------------
(* The simulation: everything on the main thread that changes blocks.      *)

\* Slip: the bound lets one write too many in.
BleedFullLate(queue) == Len(queue) > MaxBleed

BleedFull(queue) == Len(queue) >= MaxBleed

\* WorldManager::SetBlock.  A full bleed queue forgets its oldest write.
SetBlock(c, e) ==
    /\ pc \in {"tick", "simulate"}
    /\ e \notin edited[c]
    /\ IF Valid(c)
       THEN /\ blocks' = [blocks EXCEPT ![c] = @ \cup {e}]
            /\ isModified' = isModified \cup {c}
            /\ edited' = [edited EXCEPT ![c] = @ \cup {e}]
            /\ UNCHANGED pendingBleedWrites
       ELSE LET queue == pendingBleedWrites[c]
                full  == BleedFull(queue)
            IN  /\ pendingBleedWrites' = [pendingBleedWrites EXCEPT ![c] =
                       Append(IF full THEN Tail(queue) ELSE queue, e)]
                /\ edited' = [edited EXCEPT ![c] =
                       (IF full THEN @ \ {Head(queue)} ELSE @) \cup {e}]
                /\ UNCHANGED <<blocks, isModified>>
    /\ UNCHANGED <<chunkState, genVars, wanted, pc, todo, target, stopping, raced, late, rmVars>>

\* The bound on what waits for the IO and generator threads.
Backlogged ==
    \/ Len(ioQueue) + Len(genDoneQueue) > MaxBacklog
    \/ \E c \in Chunks : genTasks[c] > MaxBacklog

\* A player moves, joins or leaves.
MovePlayers(area) ==
    /\ pc = "tick"
    /\ ~Backlogged
    /\ wanted' = area
    /\ UNCHANGED <<slotVars, genVars, pc, todo, target, stopping, history, rmVars>>

Goto(phase) == pc' = phase /\ UNCHANGED <<target, stopping>>

BeginTick ==
    /\ pc = "tick"
    /\ Goto("drainGen")
    /\ UNCHANGED <<slotVars, genVars, wanted, todo, history, rmVars>>

-----------------------------------------------------------------------------
(* Results of the two pools.                                               *)

\* Slip: a result is dropped when edits wait for the chunk.
GenResultsWithoutBleed ==
    {c \in ToSet(genDoneQueue) :
        chunkState[c] = "Generating" /\ pendingBleedWrites[c] = <<>>}

\* A result is taken only by a slot that still waits for it: the chunk may
\* have been unloaded, loaded instead, or generated twice.
GenResults == {c \in ToSet(genDoneQueue) : chunkState[c] = "Generating"}

BleedLeft(ready) ==
    [c \in Chunks |-> IF c \in ready THEN <<>> ELSE pendingBleedWrites[c]]

\* Chunks in ready are installed and the edits that waited for them replayed.
Install(ready, loaded) ==
    /\ chunkState' = [c \in Chunks |-> IF c \in ready THEN "Generated"
                                       ELSE chunkState[c]]
    /\ blocks' = [c \in Chunks |->
                     IF c \in ready THEN loaded[c] \cup ToSet(pendingBleedWrites[c])
                     ELSE blocks[c]]
    /\ pendingBleedWrites' = BleedLeft(ready)

DrainGenQueue ==
    /\ pc = "drainGen"
    /\ Install(GenResults, [c \in Chunks |-> {}])
    /\ isModified' = isModified \cup GenResults
    /\ genDoneQueue' = <<>>
    /\ Goto(IF stopping THEN "ioWait" ELSE "takeFailed")
    /\ UNCHANGED <<genTasks, wanted, todo, history, rmVars>>

\* Slots whose load gave nothing and that go back to Unloaded.
Recovered == failedLoads \cap Loading

\* The first half of DrainLoadQueue.
RecoverFailedLoads ==
    /\ pc = "takeFailed"
    /\ TakeFailedLoads
    /\ chunkState' = [c \in Chunks |-> IF c \in Recovered THEN "Unloaded" ELSE chunkState[c]]
    /\ todo' = Loading \ Recovered
    /\ Goto("drainLoad")
    /\ UNCHANGED <<blocks, isModified, pendingBleedWrites, genVars, wanted, history>>

DrainLoad(c) ==
    /\ pc = "drainLoad"
    /\ c \in todo
    /\ todo' = todo \ {c}
    /\ IF outChunks[c] = NoContent
       THEN UNCHANGED <<slotVars, rmVars>>
       ELSE /\ GetChunk(c)
            /\ Install({c}, outChunks)
            /\ isModified' = IF ToSet(pendingBleedWrites[c]) \subseteq outChunks[c]
                             THEN isModified ELSE isModified \cup {c}
    /\ UNCHANGED <<genVars, wanted, pc, target, stopping, history>>

DrainLoadDone ==
    /\ pc = "drainLoad"
    /\ todo = {}
    /\ Goto(IF stopping THEN "await" ELSE "simulate")
    /\ UNCHANGED <<slotVars, genVars, wanted, todo, history, rmVars>>

-----------------------------------------------------------------------------
(* Saving.                                                                 *)

\* Slip: only chunks with entities are saved.
ChunksToSaveEntities(withEntities) ==
    {c \in ValidChunks : withEntities /\ c \in EntityChunks}

\* SaveChunks: every 40 ticks the modified chunks, every 600 ticks and on
\* shutdown also those with entities.
ChunksToSave(withEntities) ==
    {c \in ValidChunks : c \in isModified \/ (withEntities /\ c \in EntityChunks)}

SimulationDone ==
    /\ pc = "simulate"
    /\ \/ todo' = {}
       \/ todo' = ChunksToSave(FALSE)
       \/ ~Backlogged /\ todo' = ChunksToSave(TRUE)
    /\ Goto("autosave")
    /\ UNCHANGED <<slotVars, genVars, wanted, history, rmVars>>

\* One iteration of SaveChunks.
AutoSave(c) ==
    /\ pc \in {"autosave", "shutdownSave"}
    /\ c \in todo
    /\ todo' = todo \ {c}
    /\ SaveChunk(c, blocks[c])
    /\ isModified' = isModified \ {c}
    /\ UNCHANGED <<chunkState, blocks, pendingBleedWrites, genVars, wanted, pc,
                   target, stopping, history>>

AutoSaveDone ==
    /\ pc \in {"autosave", "shutdownSave"}
    /\ todo = {}
    /\ Goto(IF pc = "autosave" THEN "radius" ELSE "bleed")
    /\ UNCHANGED <<slotVars, genVars, wanted, todo, history, rmVars>>

-----------------------------------------------------------------------------
(* UpdateLoadRadius.                                                       *)

\* Every wanted position gets a slot; the others are then looked at in turn.
AddPlaceholders ==
    /\ pc = "radius"
    /\ chunkState' = [c \in Chunks |-> IF c \in wanted /\ chunkState[c] = "Absent"
                                       THEN "Unloaded" ELSE chunkState[c]]
    /\ todo' = {c \in Chunks : chunkState[c] # "Absent"} \ (wanted \cup SpawnChunks)
    /\ Goto("unload")
    /\ UNCHANGED <<blocks, isModified, pendingBleedWrites, genVars, wanted, history, rmVars>>

Erase(c) ==
    /\ chunkState' = [chunkState EXCEPT ![c] = "Absent"]
    /\ blocks' = [blocks EXCEPT ![c] = {}]
    /\ isModified' = isModified \ {c}

\* A chunk that never got ready is dropped with the answer it waits for.
UnloadUnready(c) ==
    /\ pc = "unload"
    /\ c \in todo
    /\ ~Valid(c)
    /\ DiscardChunk(c)
    /\ Erase(c)
    /\ Race(c, InFlight(c, "load"))
    /\ todo' = todo \ {c}
    /\ UNCHANGED <<pendingBleedWrites, genVars, wanted, pc, target, stopping, edited>>

\* Slip: a modified chunk without entities is not saved.
MustSaveEntitiesOnly(c) == c \in EntityChunks

MustSave(c) == c \in isModified \cup EntityChunks

UnloadReady(c) ==
    /\ pc = "unload"
    /\ c \in todo
    /\ Valid(c)
    /\ IF MustSave(c) THEN SaveChunk(c, blocks[c]) ELSE UNCHANGED rmVars
    /\ Erase(c)
    /\ todo' = todo \ {c}
    /\ UNCHANGED <<pendingBleedWrites, genVars, wanted, pc, target, stopping, history>>

UnloadDone ==
    /\ pc = "unload"
    /\ todo = {}
    /\ PumpBegin(FALSE)
    /\ Goto("regionPump")
    /\ UNCHANGED <<slotVars, genVars, wanted, todo, history>>

-----------------------------------------------------------------------------
(* RegionManager::PumpPipeline and FlushAll, called by the world.          *)

\* A save is handed to the IO threads.  It races when they already have a task
\* for the same chunk.
WorldPumpSave(c) ==
    /\ PumpSave(c)
    /\ Race(c, InFlight(c, "save") \/ InFlight(c, "load"))
    /\ UNCHANGED edited

WorldRegionPump ==
    /\ \/ \E c \in Chunks : WorldPumpSave(c)
       \/ /\ \/ PumpSaved
             \/ \E h \in Handles : PumpMerge(h)
             \/ PumpEnd
             \/ FlushWait
          /\ UNCHANGED history
    /\ UNCHANGED <<slotVars, genVars, wanted, pc, todo, target, stopping>>

\* The candidates one call of PumpPipeline starts: all, or as many as the budget
\* allows.
Candidates ==
    IF Cardinality(Unloaded) <= Budget THEN {Unloaded}
    ELSE {batch \in SUBSET Unloaded : Cardinality(batch) = Budget}

\* Slip: the tick goes on while PumpPipeline still runs.
RegionPumpLeft ==
    /\ pc = "regionPump"
    /\ todo' \in Candidates
    /\ Goto("worldPump")
    /\ UNCHANGED <<slotVars, genVars, wanted, history, rmVars>>

\* PopulateReady, whose edits are SetBlock steps, and then Update.
RegionPumpDone ==
    /\ pc = "regionPump"
    /\ pumpPc = "idle"
    /\ todo' \in Candidates
    /\ Goto("worldPump")
    /\ UNCHANGED <<slotVars, genVars, wanted, history, rmVars>>

-----------------------------------------------------------------------------
(* WorldManager::PumpPipeline.                                             *)

\* Slip: a chunk is generated without a question to the disk.
StartGenerationUnasked(c) ==
    /\ pc = "worldPump"
    /\ c \in todo
    /\ chunkState' = [chunkState EXCEPT ![c] = "Generating"]
    /\ genTasks' = [genTasks EXCEPT ![c] = @ + 1]
    /\ todo' = todo \ {c}
    /\ UNCHANGED <<blocks, isModified, pendingBleedWrites, genDoneQueue, wanted, pc,
                   target, stopping, history, rmVars>>

\* The disk is asked first.  The answer is a race when a save of the chunk is
\* still on its way, or when the region could not be opened to look.
StartGeneration(c) ==
    /\ pc = "worldPump"
    /\ c \in todo
    /\ ChunkExists(c, FALSE)
    /\ chunkState' = [chunkState EXCEPT ![c] = "Generating"]
    /\ genTasks' = [genTasks EXCEPT ![c] = @ + 1]
    /\ Race(c, SaveUnderWay(c) \/ regionFile[c] # NoContent)
    /\ todo' = todo \ {c}
    /\ UNCHANGED <<blocks, isModified, pendingBleedWrites, genDoneQueue, wanted, pc,
                   target, stopping, edited>>

\* ChunkExists said yes; todo keeps the chunk until its load is started.
FindOnDisk(c) ==
    /\ pc = "worldPump"
    /\ c \in todo
    /\ ChunkExists(c, TRUE)
    /\ chunkState' = [chunkState EXCEPT ![c] = "Loading"]
    /\ Goto("startLoading")
    /\ UNCHANGED <<blocks, isModified, pendingBleedWrites, genVars, wanted, todo, history>>

StartLoading(c) ==
    /\ pc = "startLoading"
    /\ c \in todo
    /\ chunkState[c] = "Loading"
    /\ LoadChunk(c)
    /\ Race(c, SaveUnderWay(c) \/ InFlight(c, "load"))
    /\ todo' = todo \ {c}
    /\ Goto("worldPump")
    /\ UNCHANGED <<slotVars, genVars, wanted, edited>>

PumpPipelineDone ==
    /\ pc = "worldPump"
    /\ todo = {}
    /\ Goto(IF stopping THEN "poolWait" ELSE "tick")
    /\ UNCHANGED <<slotVars, genVars, wanted, todo, history, rmVars>>

\* A generator thread finishes a chunk: PostGenResult.
Generate(c) ==
    /\ genTasks[c] > 0
    /\ genTasks' = [genTasks EXCEPT ![c] = @ - 1]
    /\ genDoneQueue' = Append(genDoneQueue, c)
    /\ UNCHANGED <<slotVars, wanted, pc, todo, target, stopping, history, rmVars>>

-----------------------------------------------------------------------------
(* Shutdown.                                                               *)

ShutdownBegin ==
    /\ pc = "tick"
    /\ pc' = "shutdownSave"
    /\ stopping' = TRUE
    /\ todo' = ChunksToSave(TRUE)
    /\ late' = Bleeding
    /\ UNCHANGED <<slotVars, genVars, wanted, target, edited, raced, rmVars>>

\* The next position with edits waiting; it gets a slot if it has none.
BleedNext(c) ==
    /\ pc = "bleed"
    /\ c \in Bleeding
    /\ target' = c
    /\ chunkState' = [chunkState EXCEPT ![c] = IF @ = "Absent" THEN "Unloaded" ELSE @]
    /\ pc' = "await"
    /\ UNCHANGED <<stopping, blocks, isModified, pendingBleedWrites, genVars, wanted, todo,
                   history, rmVars>>

\* while (state < Generated) PumpPipeline, wait for both pools, drain.
AwaitTarget ==
    /\ pc = "await"
    /\ IF Valid(target)
       THEN Goto("applyBleed") /\ UNCHANGED todo
       ELSE Goto("worldPump") /\ todo' \in Candidates
    /\ UNCHANGED <<slotVars, genVars, wanted, history, rmVars>>

PoolWait ==
    /\ pc = "poolWait"
    /\ \A c \in Chunks : genTasks[c] = 0
    /\ Goto("drainGen")
    /\ UNCHANGED <<slotVars, genVars, wanted, todo, history, rmVars>>

IoWait ==
    /\ pc = "ioWait"
    /\ IoIdle
    /\ Goto("takeFailed")
    /\ UNCHANGED <<slotVars, genVars, wanted, todo, history, rmVars>>

\* FlushBleedWrites, and the save of the chunk that was waited for.
ApplyBleed ==
    /\ pc = "applyBleed"
    /\ blocks' = [c \in Chunks |-> IF Valid(c)
                                   THEN blocks[c] \cup ToSet(pendingBleedWrites[c])
                                   ELSE blocks[c]]
    /\ pendingBleedWrites' = [c \in Chunks |-> IF Valid(c) THEN <<>>
                                               ELSE pendingBleedWrites[c]]
    /\ LET modified == isModified \cup (Bleeding \cap ValidChunks)
       IN  /\ isModified' = modified \ {target}
           /\ IF target \in modified THEN SaveChunk(target, blocks'[target])
                                     ELSE UNCHANGED rmVars
    /\ Goto("bleed")
    /\ UNCHANGED <<chunkState, genVars, wanted, todo, history>>

\* The FlushAll that ends Shutdown.
FlushWorld ==
    /\ pc = "bleed"
    /\ Bleeding = {}
    /\ PumpBegin(TRUE)
    /\ Goto("flush")
    /\ UNCHANGED <<slotVars, genVars, wanted, todo, history>>

ShutdownDone ==
    /\ pc = "flush"
    /\ FlushReturn
    /\ Goto("release")
    /\ UNCHANGED <<slotVars, genVars, wanted, todo, history>>

\* ~RegionManager flushes once more, and the memory of the process is gone.
ReleaseBegin ==
    /\ pc = "release"
    /\ PumpBegin(TRUE)
    /\ UNCHANGED <<slotVars, genVars, wanted, pc, todo, target, stopping, history>>

ProcessEnd ==
    /\ pc = "release"
    /\ Release
    /\ pc' = "down"
    /\ chunkState' = [c \in Chunks |-> "Absent"]
    /\ blocks' = [c \in Chunks |-> {}]
    /\ isModified' = {}
    /\ pendingBleedWrites' = [c \in Chunks |-> <<>>]
    /\ genTasks' = [c \in Chunks |-> 0]
    /\ genDoneQueue' = <<>>
    /\ wanted' = {}
    /\ UNCHANGED <<todo, target, stopping, history>>

OnDisk(c) == IF regionFile[c] = NoContent THEN {} ELSE regionFile[c]

\* The next run starts from what is on disk, and so do the history variables.
Restart ==
    /\ pc = "down"
    /\ pc' = "tick"
    /\ stopping' = FALSE
    /\ edited' = [c \in Chunks |-> OnDisk(c)]
    /\ raced' = {}
    /\ late' = {}
    /\ UNCHANGED <<slotVars, genVars, wanted, todo, target, rmVars>>

-----------------------------------------------------------------------------
(* The specification.                                                      *)

Environment ==
    \/ \E c \in Chunks, e \in Edits : SetBlock(c, e)
    \/ \E area \in SUBSET Chunks : MovePlayers(area)

TickThread ==
    \/ BeginTick
    \/ DrainGenQueue
    \/ RecoverFailedLoads
    \/ \E c \in Chunks : DrainLoad(c)
    \/ DrainLoadDone
    \/ SimulationDone
    \/ \E c \in Chunks : AutoSave(c)
    \/ AutoSaveDone
    \/ AddPlaceholders
    \/ \E c \in Chunks : UnloadUnready(c) \/ UnloadReady(c)
    \/ UnloadDone
    \/ WorldRegionPump
    \/ RegionPumpDone
    \/ \E c \in Chunks : StartGeneration(c) \/ FindOnDisk(c) \/ StartLoading(c)
    \/ PumpPipelineDone

ShutdownThread ==
    \/ \E c \in Chunks : BleedNext(c)
    \/ AwaitTarget
    \/ PoolWait
    \/ IoWait
    \/ ApplyBleed
    \/ FlushWorld
    \/ ShutdownDone
    \/ ReleaseBegin
    \/ ProcessEnd

WorldIoThreads == IoThreads /\ UNCHANGED worldVars

Next ==
    \/ Environment
    \/ TickThread
    \/ ShutdownBegin
    \/ ShutdownThread
    \/ Restart
    \/ \E c \in Chunks : Generate(c)
    \/ WorldIoThreads

Spec == Init /\ [][Next]_vars

\* The server ticks, and each pool thread gets on with its task.
Fairness ==
    /\ WF_vars(TickThread)
    /\ WF_vars(ShutdownThread)
    /\ \A c \in Chunks : WF_vars(Generate(c))
    /\ \A w \in Workers : WF_vars((IoTake(w) \/ IoSave(w) \/ IoLoad(w))
                                      /\ UNCHANGED worldVars)

FairSpec == Spec /\ Fairness

-----------------------------------------------------------------------------
(* Properties.                                                             *)

(* A slot in state Loading is owed an answer: a load task, a loaded chunk or a
   failure is on its way to DrainLoadQueue, or the slot's LoadChunk call is
   next.  A slot without one would stay Loading for ever, since PumpPipeline
   only starts Unloaded slots (world.cpp, DrainLoadQueue "stuck Loading"). *)
LoadingIsOwedAnswer ==
    \A c \in Loading :
        \/ InFlight(c, "load")
        \/ outChunks[c] # NoContent
        \/ c \in failedLoads
        \/ pc = "startLoading"

(* A slot in state Generating is owed a chunk by the generation pool. *)
GeneratingIsOwedChunk ==
    \A c \in Chunks : chunkState[c] = "Generating" =>
        genTasks[c] > 0 \/ c \in ToSet(genDoneQueue)

(* Edits wait in pendingBleedWrites only for a chunk that is not ready: none is
   left behind when a chunk is installed (world.cpp, DrainGenQueue and
   DrainLoadQueue). *)
BleedOnlyWhileUnready ==
    \A c \in Bleeding : ~Valid(c)

(* No slot and no edit is stuck: whatever waits has something to wait for. *)
NothingIsStuck == GeneratingIsOwedChunk /\ LoadingIsOwedAnswer /\ BleedOnlyWhileUnready

\* The saves of a chunk that are on their way, if no two overlap: its content.
SavesUnderWay(c) ==
    {content \in {saveQueue[c], toSave[c]}
         \cup {t.content : t \in {u \in TasksInFlight : u.chunk = c /\ u.kind = "save"}} :
     content # NoContent}

\* What the next visitor of the chunk will find in it.
Kept(c) ==
    ToSet(pendingBleedWrites[c]) \cup
        IF Valid(c) THEN blocks[c]
        ELSE IF saveQueue[c] # NoContent THEN saveQueue[c]
        ELSE IF SavesUnderWay(c) # {} THEN UNION SavesUnderWay(c)
        ELSE OnDisk(c)

(* No edit is lost while the server runs, whatever the order of unloading,
   reloading, saving and generating, for every chunk on which no two
   operations of the store overlapped: a save with an earlier task for the
   chunk, a load or a generation with a save still on its way, a discarded
   load still running; or a generation while its region found no slot, which
   GeneratedOnlyIfNew speaks of. *)
EditsKept ==
    ~stopping => \A c \in Chunks \ raced : Kept(c) = edited[c]

(* No chunk is generated over the one its region file has, unless tasks on
   other regions hold every slot, so that ChunkExists cannot look (world.cpp,
   PumpPipeline; region_manager.cpp, ChunkExists). *)
GeneratedOnlyIfNew ==
    [][\A c \in Chunks : genTasks'[c] > genTasks[c] =>
        \/ regionFile[c] = NoContent
        \/ OpenRegions(RegionOf[c]) = {} /\ \A i \in Slots : ~SlotUsable(i)]_vars

(* What was ready when Shutdown began is on disk when the process ends. *)
ShutdownKeepsReady ==
    pc = "down" => \A c \in Chunks \ (raced \cup late) :
        edited[c] = OnDisk(c)

(* Shutdown's promise for the edits still waiting, world.cpp:595: "For every
   position that still has pending bleed writes, forceload or forcegenerate the
   chunk, apply the writes, then save it." *)
ShutdownKeepsBleed ==
    pc = "down" => \A c \in late \ raced :
        edited[c] = OnDisk(c)

(* A chunk the players keep in view gets ready, unless the server stops. *)
WantedGetsReady ==
    \A c \in Chunks :
        <>[](c \in wanted /\ ~stopping) => <>[](Valid(c))

(* The world uses the store as RegionManager's own specification allows, so
   what is proved of the store holds here. *)
UsesStore == StoreSpec

=============================================================================
