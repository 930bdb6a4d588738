# Specifications of Betrock++

Betrock++ is a server for Minecraft Beta 1.7.3 in C++23. This directory holds TLA+
specifications of its core, the TLC configurations that check them on small instances, and
TLAPS proofs of what matters most for every instance. Paths are relative to the repository's
`src/`; "bpp_shared" and "bpp_server" are the two halves of the program.

## The system

One main thread runs `Server::Tick` twenty times a second. It reads and handles the packets
of every session, advances logins and streams terrain (`ProcessIncoming`,
`UpdatePlayerStates`), ticks the worlds (`WorldManager::Tick`), sends what changed, and removes
sessions that were disconnected (`DisconnectClients`). Around it run

* two IO threads for each dimension's region files (`RegionManager::iopool`),
* the terrain-generation pool (`WorldManager`),
* two compression threads for chunk packets (`ChunkSender`, `ChunkBroadcaster`),
* one detached thread for each name that is being verified (`online_auth.cpp`),
* the write pool, which flushes the send buffers that `Tick` hands to it, the console and the
  heartbeat.

The threads meet in a handful of queues and mailboxes, and the main thread polls these in
different phases of its tick. That is where the interesting orders come from.

### Inventory

| Component | State it keeps | Operations | Talks to | What is hard | What makes it correct |
|---|---|---|---|---|---|
| Region storage (`world/storage/region_manager.*`) | `saveQueue`, eight-slot `regionCache`, `pendingRegions`, `outChunks`, `failedLoads`, the pool's queue | `SaveChunk`, `LoadChunk`, `ChunkExists`, `GetChunk`, `TakeFailedLoads`, `DiscardChunk`, `PumpPipeline`, `FlushAll`, `Release` | region files; called by the world | slots are reused by reference count while IO threads hold references; a full cache refuses work | one usable object per file; its header copy is current; every load is answered; a flush flushes |
| Region file (`world/storage/region.*`) | header, free sectors | `AddChunk`, `GetChunk`, `HasChunk` | disk | sector reuse, crash between data and header, sticky stream errors | no two entries share a sector; a crash leaves old or new |
| Chunk life cycle (`world/world.cpp`) | `chunks` with their states, `pendingBleedWrites`, generation results, `isModified` | `Tick`, `Update`, `SetBlock`, `DrainGenQueue`, `DrainLoadQueue`, `SaveChunks`, `UpdateLoadRadius`, `PumpPipeline`, `Shutdown` | region storage, generation pool, players' positions | results for slots that are gone or have another state; edits for chunks that are not there yet; shutdown in the middle | no edit is lost; no slot is stuck; what players look at gets ready |
| Terrain streaming (`chunk_io/*`, `server.cpp`) | `sentChunks`, `flushedChunks`, in-flight jobs, `pendingBlockChanges`, the index `chunkSessions` | `Enqueue`, `Flush`, `Broadcast...`, `IndexAddChunk`, `IndexRemoveSession`, `ResetDimensionState` | world, sessions, compression pool, client | a job reads the live chunk while the tick changes it; a player changes world in the middle of a visit | the client shows the world or is owed an update; the index is exact |
| Sessions and players (`player_conn/*`, `server.*`, `command_ban.cpp`, `command_kick.cpp`) | `players`, each session's state and timers, player files, bans | accept, handshake, login, verification, leave, kick, ban, autosave, `DisconnectClients`, `Stop` | socket, verification thread, save manager, worlds | a verification that takes many ticks; lookup by name when a refused session has that name; lost connections | one player per name; a ban holds; files never get older; a login ends |
| Packets and framing (`networking/*`, `packet/packet_dispatcher.cpp`) | read and write buffers, the mark, the connection's state | `DrainToBuffer`, `Mark`, `Rollback`, `Dispatch`, `FlushWriteBuffer`, `FlushBlocking` | socket, sessions, write pool | packets that arrive in pieces; bytes that come outside the game; two threads on one write buffer at a kick and at shutdown | each packet is handled once, whole and in order; what was written arrives, the reason of a kick included |
| Inventories and windows (`inventory/*`, `handle_packet.cpp`, `inventory_tracker.cpp`) | slots, cursor, crafting grid, the copy a window works on, the transaction lock | clicks, crafting, open, close, smelting, pickup, drop | sessions, tile entities, entities | two players on copies of one chest; a window that outlives its box; clicks under way when another one is rejected | items are neither lost nor made; no click is carried out on a view known to be wrong |
| Entities (`entities/*`) | the list, the buckets by chunk, `isDead` | spawn, move, tick, save with a chunk, load with a chunk | world, tracking | an entity that walks out of a chunk that is being saved or unloaded | each entity is in one place; the dead stay dead |
| Entity tracking (`trackers/entity_tracker.*`) | who sees whom, the last position sent, two counters | `AddPlayer`, `TrackEntity`, `Tick`, `RemovePlayer` | entities, sessions, clients | ids that come back, death, a change of world, viewers that come between two updates | a client shows what is near and nothing else, where it is |
| Scheduled ticks (`tick_scheduler.*`), freeze and steps (`command_tick.cpp`, `world.cpp`) | scheduled entries, updates put off, steps to take | schedule, tick, freeze, step, replay | blocks, entities | updates while frozen; one entry for each block; a limit on entries a tick | what waits for its tick gets it |
| Light (`world/managers/light_manager.*`, `SetBlock`) | light of each cell, height map, queue | change a block, take an entry | blocks | light that has to be taken away before it can be given anew; a height that changes | light is what the blocks make it |
| Redstone, rails, fluids, plants, weather, furnace timers (`blocks/*`, `world/*`) | per-block data | block updates | scheduled ticks | order of updates | agreement with the original game |
| Crafting recipes, items, block tables, pathfinding, spawning, noise, generator | pure functions and tables | | | | agreement with a reference definition |
| Configuration, lists, commands, console, addons, heartbeat, NBT, logging, client stub | files, threads, glue | | | | persistence after a crash |

`PROJECT.json` lists every component with its status, and the places in the code where
something can go wrong that a test would hardly reach ("hazards").

## Modules

| Module | What it is |
|---|---|
| `RegionManager` | the chunk store: save queue, IO threads, region cache, mailboxes; with a specification of its own (`StoreSpec`) for a caller that may call anything |
| `RegionFile` | one region file: the sector allocator, records and header entries, a crash or a stream failure between two writes |
| `ChunkPipeline` | EXTENDS `RegionManager`; the life of the chunks of one dimension, tick and shutdown. Refines `StoreSpec` |
| `ChunkStream` | how terrain and its changes reach the clients |
| `PlayerSessions` | connections, logins, player files, bans, removal |
| `OrderedDelivery` | what one direction of a connection promises; abstract |
| `PacketReader`, `PacketWriter` | how a client's bytes become packets, and how what the server writes becomes bytes at the client. Each refines `OrderedDelivery` |
| `Stacks` | stacks of items and where they merge, as operators |
| `PlayerWindow` | a player's own window: grid, result, armor, inventory, cursor |
| `Windows` | the windows of chests and furnaces, several players at once |
| `ClickLock` | the transaction lock after a rejected click |
| `EntityStore` | entities between the manager's buckets and the records of chunks |
| `EntityTracking` | which player sees which entity, and where |
| `BlockTicks` | scheduled ticks, updates put off, freeze and steps, with sand and a pressure plate as their users |
| `Light` | the light of torches and of the sky |
| `RegionManagerProofs`, `StorageProofs`, `ChunkPipelineProofs`, `ChunkStreamProofs`, `PlayerSessionsProofs`, `ConnectionProofs`, `ItemsProofs`, `WorldProofs` | theorems |
| `MCRegionManager`, `MCChunkPipeline`, `MCChunkStream`, `MCPlayerSessions` | instances of one module for TLC |
| `MCStorage`, `MCWorld`, `MCPlayers`, `MCConnection` | instances of several modules for TLC, side by side |

Two kinds of putting modules together have to be told apart. `ChunkPipeline` over
`RegionManager`, `PacketReader` and `PacketWriter` under `OrderedDelivery`, and `PlayerWindow` and
`Windows` over `Stacks` are real: they share state or operators. The four modules of the last line
of the table are only a convenience. The modules that one of them joins have no variable in common;
the variable `part` is chosen at the start and tells which of them moves in a behaviour. Such a run
shows what one run of each would, and nothing of how they interact.

The specifications keep the names of the code. Every definition that stands for code is
in `PROJECT.json` "map" with its file and lines. Operators marked "Slip" are mutations: what
a plausible bug would do instead; no specification uses them.

### RegionManager

`Handles` are the identities of `Region` objects, so that "two objects on one file" can be
said. An object exists as long as something refers to it: a cache slot, the overflow list
`pendingRegions`, or a task that captured the `shared_ptr` (`Live`). `UseCountIsOne` is
`use_count() == 1` of `TryMergePendingRegion`. `LoadRegion` has three outcomes as in the code:
the file is open already, a slot could be taken, or none could, in which case the object
waits in `pendingRegions` (or is dropped when that is full) and the caller gets null.
`PumpPipeline` is split into one step per loop iteration, because the IO threads run
meanwhile; `FlushAll` is `PumpBegin(TRUE)`, the same steps, `FlushWait` and `FlushReturn`.
The IO pool's queue is a sequence, each thread takes its head and finishes in a step of its
own under the region's mutex. A header entry is the content it leads to; what is inside the
file (sectors, lengths, compression) is left out. `ReadsMayFail` lets an existing entry turn
out unreadable.

### RegionFile

`RegionManager` takes a header entry for the content it leads to; this module opens the file.
A sector holds one part of a chunk's record, so that a record half written, or written over by
another, can be told from a whole one. `AddChunk` is three kinds of steps: the search for the
first run of free sectors in the object's copy of the header, one `WriteSector` for each sector,
and `WriteEntry`; a crash or a failing stream (`StreamFails`; nothing clears the failbit, so it
stays) may come between any two. Sectors are counted modulo `CountLimit` in an entry, 2^8 in the
code. A region file that was left short when it was made counts as existing: reading its header
fails, and the entries are whatever an uninitialized word holds. `saved` is history: what each
entry in the file was written for. That one object works on a file at a time, with its mutex held
during an operation, is `OneRegionPerFile` of `RegionManager`, which is proved.

### ChunkPipeline

The content of a chunk is the set of edits made to it, {} being the generated chunk: enough
to tell a lost edit, a lost save and a chunk generated over a saved one apart. `pc` walks
through `WorldManager::Tick` (drain generated, recover failed loads, drain loaded, simulate,
autosave), `Update` (`UpdateLoadRadius`, the store's pump, `PumpPipeline`) and `Shutdown`
(save, then for each position with waiting edits pump, wait for both pools and drain until it
is ready, then flush); loops take one step an element. `SetBlock` may come between ticks (a
packet) or in the simulation (block behaviours, population). A `chunkState` "Generated" stands
for all states at or above `ChunkState::Generated`: `Valid` is what `IsChunkValid` asks.
`Restart` starts the next process from what is on disk.

Three variables are history. `edited` is the set of edits that have to survive. `raced` are
chunks for which two operations of the store overlapped: a save handed to the pool while the
pool has a task for the same chunk, a load or a question to the disk while a save is on its way, a
load discarded while it runs; and those that are generated although their file has them. Two IO
threads then decide the outcome, and `EditsKept` claims nothing of such a chunk until the next
start of the server. The last way is as narrow as it can be: `GeneratedOnlyIfNew` says that it
takes a region that is not open and finds each slot held. `late` are chunks with edits
waiting when `Shutdown` began.

### ChunkStream

A block is the number of times it was changed, so older contents compare smaller. A job of
the compression threads reads the live chunk block by block (`ReadBlock`) while the main
thread goes on. Jobs are shared between the players who ask for a chunk in one tick
(`tickPackets`). `view` is what a client shows after the packets written to its stream.
`missed` and `stale` are history: blocks changed in a tick while nobody had or awaited their
chunk, and blocks that may show an older content because a packet overtook a sub-region or a
joining player shared a job from before a missed change. `ViewCurrent` excuses exactly those;
the first kind is the finding of run `update_order`.

### PlayerSessions

What a player has is a counter that grows; the player file keeps one of its values. The
sessions are visited in the order of `players`, because `GetSessionByUsername` returns the
first one with a name, and a session refused as a duplicate carries the name of the player
in the game to the end of the tick (`FirstNamed`). A visit ends with the session's last packet
(`NoPacket`) or goes on with the next; a login in pieces leaves the stream out of step
(`ShortRead`, `garbled`). Timers count ticks up to their limit. A crash drops the sessions and
keeps the files, which are written to a temporary file and renamed. `kept` (sessions whose
state was in the file when they were disconnected and to whom nothing happened since) and
`misboots` (names whose ban hit a refused session instead of the player) are history.

### OrderedDelivery, PacketReader, PacketWriter

The bytes of a direction are numbered, so that what arrives can be compared with what was sent
without saying what is in it. In `PacketReader` the client cuts them into packets (`ends`) and the
socket hands over any number of them a tick. A packet that is not there as a whole is rolled back
and tried again (`Rollback`). The code has three ways to get out of step, and all are
modelled: outside the game `Dispatch` returns before it reads the body, so that each byte is taken
for a packet (`PassOverByte`); `HandleHandshake` and `HandleLogin` do not roll back, so that a login
that comes in pieces is read short (`ReadLoginPacket`); and the game may begin in the middle
of a packet (`EnterPlay`). From the last two on `misread` is set, and `Misparse` is what follows.
`PacketsInOrder` is the refinement of `OrderedDelivery`, whose promise ends with `misread`, and
whose taker is lenient while the player waits for chunks.

`PacketWriter` has the write buffer between the main thread, which fills it during a tick, and the
write thread, which sends between ticks (`writePool.wait()`). Either flush keeps a count of its own of what it
has sent and erases it at the end. At a kick and at the end of `Run` the main thread flushes
too. `Run` means to wait for the write thread, but `shutdownRequested` is set by then, so that it
gets 100 ms, once: `FlushesInTime` says whether that is enough, and the properties are claimed
only if it is.

### Stacks, PlayerWindow, Windows, ClickLock

A stack is a kind and a count; `Stacks` has the merging loops as operators over an order of slots.
`PlayerWindow` gives each kind a `Worth` that a recipe keeps, so that crafting can be checked
to conserve something. `lapses` is history, the four ways in which the code does not: the result
slot is not emptied with its grid, so whoever takes it later pays nothing (`FreeResult`); a part of
the result may move without anything being consumed (`PartialResult`); a stack of the hotbar is merged
into itself (`MergedIntoItself`, the finding of run `shift_click`); grid and cursor are in no player file
(`NotSaved`).

A window of `Windows` is a copy of the box's and the player's slots, taken when it opens and in every
tick of the inventory tracker, written back as a whole after a click. `phase` is where
`Server::Tick` is: packets, tracker, world. `slips` is history, the three ways in which items
may be lost or doubled: a copy is written that has become stale, since another player or
the furnace changed the box in the same tick; a window is used over a destroyed box before the
tracker closes it; and a window with something on its cursor is replaced by another.

`ClickLock` has both directions of one connection. A click carries, as history, how many
rejections its client had dealt with (`seen`). What the server applies must have been made by a client
that had dealt with all that were sent (`rejections`).

### EntityStore, EntityTracking

In `EntityStore` an entity is alive in a bucket, `fallen` (dead, still in its bucket), a `husk`
(marked dead because it was saved with a chunk that was dropped), or in the record of a chunk.
Records of loaded chunks do not count, because they will not be read: `Homes` are the others.
`strayed` is history: entities that stood in a chunk that was not loaded when the server
stopped, of which no record is written.

`EntityTracking` has positions on a line. `encoded` is the position last sent to all viewers of an
entity, `client` what each client shows; relative moves add to the latter. A viewer that comes
between two updates is sent the true position, to which the next move is then added as if he had
the old one: `lateViewers` are those, until the next teleport. `MovesAddUp` excuses them.

### BlockTicks

One column with sand in it and a pressure plate elsewhere. `scheduled` is the queue of
`TickScheduler`, one entry for each block; `deferred` are the updates put off while ticks are
frozen; `falling` is the sand that is an entity, `fresh` that whose first tick as an entity is
still to come, until which its block stays in place. `phase` walks through packets, replay,
scheduled ticks and entities. Three variables are history. `dropped` tells that an update came up
while the chunk was not loaded, which is lost because scheduled ticks are not saved. `bare` are fresh
entities whose block another one, falling into their cell before them, has taken for its own.
`crushed` counts blocks that were taken away by falling sand that is not theirs.

### Light

A kind of block is its opacity and its emission; any graph of columns is a world. `IsValue` says
what a cell should have, from its source and its neighbours. `ChangeBlock` is all that `SetBlock` does to
light: `Darkened` (the cells `UnlightAt` reaches, as the least set with the changed cells that
is closed under "darker neighbour"), the height map, `RelightColumn`, the queue. The
queue is a set, so that the properties hold for every order in which entries are taken. That the
surface of water, ice or leaves may stay dark (`IsSurface`) is the finding of run `sky_light`.

## Runs

| Run | Instance | Shows |
|---|---|---|
| `storage` | `RegionManager` under a caller that calls anything: 2 chunks in 2 regions, 1 slot, 1 overflow entry, 3 objects, 2 threads, at most 1 task waiting; `RegionFile`: 2 chunks, records of 1, 2 and 3 sectors, counts modulo 3 (so the longest record has count 0), 4 sectors behind the header's | `OneRegionPerFile`, `HeadersAreCurrent`, `EntriesDisjoint`, `RecordsSurvive` |
| `world` | `ChunkPipeline`: 1 chunk, 2 edits, bleed bound 1, 2 threads, unreadable chunks; `BlockTicks`: a column of 3 cells, 2 sands, 1 entry a tick, 1 step; `Light`: 2 columns of 3 cells, full light 3, air, stone, water, lava; `EntityTracking`: 2 players and a falling tree; `EntityStore`: 2 entities, 2 chunks | `NothingIsStuck`, `EditsKept`, `ShutdownKeepsReady`, `GeneratedOnlyIfNew`, the refinement `UsesStore`; `NoTickIsForgotten`, `SandIsKept`; `LightIsRight`; `ViewersAreExact`, `MovesAddUp`, `TickSeesRange`; `EachHasItsPlace` |
| `players` | `PlayerWindow`: 3 kinds, 2 grid slots, 1 armor slot, 3 inventory slots; `Windows`: 2 players, a chest and a furnace | `NothingIsLost` (`WorthIsKept` of the one, `ItemsAreKept` of the other), and in the type invariant that no slot holds more than a full stack |
| `pipeline_liveness` | 1 chunk with an entity | `WantedGetsReady` |
| `chunk_stream` | 2 players, 2 worlds, 1 chunk, 1 block | `IndexExact`, `SentIsOwed`, `ViewCurrent` |
| `connection_liveness` | `ChunkStream`: 1 player, 2 chunks, room for one job; `PacketReader`: up to 4 packets of 1 or 3 bytes, a buffer of 4; `PacketWriter`: 4 bytes; `ClickLock`: 2 windows, 4 clicks | `NearbyIsSent`; the refinements `PacketsInOrder` and `BytesInOrder`, `PacketsAreDealtWith`, `BytesArrive`, `GoodbyeArrives`; `AppliedOnResyncedView`, `LockIsReleased` |
| `player_sessions` | 2 connections that want one name, MaxHeld 1, verification on or off | `UniqueNames`, `BannedAreOut`, `FileNeverOlder`, `LeaverIsKept`, `LoginEnds` |
| `flush_all` | as the store of `storage` | violated: `FlushAllFlushes` |
| `shutdown_bleed` | 2 chunks in 1 region | violated: `ShutdownKeepsBleed` |
| `update_order` | 1 player, 1 chunk, 2 blocks, a sub-region from 2 changes on | violated: `UpdatesInOrder` |
| `shift_click` | as `players` | violated: `ShiftClickKeepsItems` |
| `sky_light` | `Light` alone, as in `world`, but with all of a column filled | violated: `LightingIsUpToDate` |

Each passing run checks a type invariant too, but for `pipeline_liveness`. The types of the
modules of a run are one invariant (`StorageTypeOK`, `WorldTypeOK`, `PlayersTypeOK`,
`ConnectionTypeOK`).

Bounds, and why they are enough:

* One slot against two regions makes every `LoadRegion` outcome happen, the full overflow
  list included; a third object lets a second one on a file appear while the first is held
  by a task and another waits for a merge. The proofs lift these bounds.
* `MaxTasks`, `MaxBacklog` bound what waits for the pools; with two threads and two tasks any
  two operations on one chunk overlap. `MaxBleed` 1 makes the bleed queue overflow with two
  edits.
* The chunks of a dimension meet only in the store's slots (`shutdown_bleed`;
  the refusals that come of it are in the proofs, for any number of chunks), in the budget and in
  the bleed loop of `Shutdown`; `EditsKept` speaks of each chunk alone, so one chunk with two edits
  suffices for it. What that instance leaves out is a store whose slots are all held by tasks of other regions:
  `ChunkExists` then answers no for a chunk that exists, and the chunk is generated over what was saved.
  The proofs of `EditsKept` and `GeneratedOnlyIfNew` hold with any number of regions and slots.
* Four sectors for two chunks: a record can stand before, between and behind the other chunk's
  records and move, and the gaps are at times too short for it. The proofs lift the bound.
* `MaxChanges` 1 or 2: an old and a new content. Two sessions, so that jobs are shared and one
  leaves while the other waits. `BatchSize` 1: a full queue with the first job. The proofs lift
  the bounds of the run `chunk_stream`.
* `Timeout` 3 and `AuthTimeout` 0 keep the order of the two timeouts of the code (60 s of
  silence, 20 s of verification): an answer can come before, between and after them.
  `SaveInterval` 2: ticks with and without autosave.
* Packets of 1 and 3 bytes against a buffer of 4: a packet can be cut at each place, be behind
  another one in the buffer, and be too much for it. Four written bytes: both threads have
  something to send when they meet. Four clicks: a second rejection while others are under way. The
  proofs lift these bounds.
* A full stack is 2: merging fills one stack and goes on with the next. A log gives two planks, two
  planks a table, which does not stack: a result that is a part of, all of or more than
  what there is room for. `Unexcused` ends a behaviour at the first named lapse or slip: no
  property speaks of what comes after it.
* Two spots for entities, in range of each other or not, so that a move is a step as long as one byte
  holds; `TeleportEvery` 3 and an entity updated every second tick, so that a viewer comes between
  two updates, with or without a teleport after it. Two entities and two chunks: each walks into and out of a chunk
  in any of its states. The proofs lift these bounds.
* A column of three cells: sand over sand over a support; the proofs lift this bound, too. `TickBudget` 1: what is due waits.
  `Followed` ends a behaviour when an update was lost in a way the properties excuse or when more
  than two entries are scheduled.
* Two columns of three cells, full light 3, water that takes 2: light goes around a corner, is
  dimmed at once or by and by, and ends before the border. At most `MaxSolid` cells that are not air and
  `MaxQueued` entries when a block changes. `BlockFirst` takes the entries of torches before
  those of the sky when both are queued; an entry of one never reads or writes the other's light, so no
  reachable light is left out. The proofs lift all of this.

`CHECK_DEADLOCK` is on in every run but five: a behaviour of `connection_liveness` may really end
(the packets, bytes and clicks are bounded, a connection goes), so may one of `world` and
`players` at the edge of what is followed or when the items are used up, and `sky_light` and
`shift_click` are parts of these.

## Fairness

Safety is checked without fairness. `WantedGetsReady` assumes that the tick thread (and, when it
runs, `Shutdown`) goes on, that each generation task ends and that each IO thread gets on:
`Server::Run` calls `Tick` for as long as the server lives and the pools' threads loop over
their queues. Players are not assumed to do anything, and the property speaks only of
chunks that stay in view.

`LoginEnds` assumes only `WF_vars(Tick)`: clients, the verification server and whoever types
commands may do nothing for ever.

`ConnectionSpec` assumes weak fairness of `MainThread` (the tick reads every session's packets,
streams terrain and hands out flushes in every round) and of `Others` (the compression pool, the
read from the socket, the write thread, a client that looks at what it was sent), and strong fairness
of `Slow`: a socket delivers and takes bytes again and again, not in every tick, and a verification
ends. `NearbyIsSent` needs the first two only. `PacketsAreDealtWith` and `BytesArrive` speak of connections
that last. `LockIsReleased` needs a client that confirms each rejection (`AnswersAlways`): the server has
no timeout for the lock, so that a client that closed the window and does not confirm stays
locked.

## Findings

Five statements of the repository's own comments do not hold; each has a run whose
counterexample is a behaviour of the code, and an entry in `PROJECT.json`.

* `flush_all`: `FlushAll` pumps once; a save refused a region slot goes back to `saveQueue`
  and stays there. `Release` then clears it.
* `shutdown_bleed`: `Shutdown` saves only the chunk it waited for, not others whose waiting
  edits were replayed in the same round.
* `update_order`: a late sub-region packet overwrites newer blocks at the client.
* `shift_click`: a shift-click on a stack of the hotbar merges the stack into itself, and what its own slot
  took is lost.
* `sky_light`: when a block over water, ice or leaves is taken away, their surface stays dark.

Other ways in which the code does less than one would like are named in the modules as
history variables, and the properties hold but for them: `raced` (operations of the store on one chunk
that overlap), `missed` and `stale`, `misboots`, `misread`, `lapses`, `slips`, `lateViewers`, `strayed`,
`dropped` and `crushed`. The section of each module says what they stand for.

## Proofs

All theorems hold for every value of the constants that meets the modules' `ASSUME`s, which
TLC also evaluates in the runs. Where a theorem has a hypothesis of its own, it is named here.

**RegionManagerProofs.** `OneRegionPerFile` and `HeaderCoherent` are not inductive. A slot is reused
when no task refers to its object, and a file is opened when neither a slot nor the overflow
list has it. These tests look at different places, so the invariant that links them is
`HeldAreOpen`: whatever a task holds is in a slot or in the overflow list. With
`TasksOnOwnRegion` (a task works on the object of its chunk's region), `OneOpenPerFile` and
`OpenCoherent` it is inductive; `FlushedIsIdle` lets `Release` drop everything. One lemma per
operation, `NextInv` collects them. Results: `TypeCorrect`, `RegionUnique`, `HeadersCoherent`.
`OnePlaceInvariant` adds that no object is in two places. By the pigeonhole principle a region then
always gets a slot when there are no more regions than slots (`RegionsFit`), and `FlushAll` does
leave nothing to save (`FlushesIfRegionsFit`); run `flush_all` shows that this hypothesis is needed.

**StorageProofs.** `SectorsNotShared`, `SavedReadsBack`, `HeaderCurrent`. The properties are
not inductive: what keeps a half-written record from harming anybody is that its run belongs to no
entry of the file, that the parts before the next one are in it (`JobPlaced`), and that an entry
counts the sectors of what it was written for (`EntryCounts`), because only then do the sectors
`AddChunk` sees as occupied cover the records. `Truncation` says what eight bits make of a count.
`StorageTyped` and `HeadersStayCurrent` put the file and the store side by side, as the run has them.

**ChunkPipelineProofs.** `WorldUsesStore` proves the refinement: every step of the world maps to a
step of the store or to a stutter, because outside the pumping phases the store's pump is
idle (`PumpIdle`) and what is saved is a set of edits. So the store's theorems hold in the running
world (`WorldRegionsSafe`). `LoadingOwed` needs that only the main thread takes a slot out of its
state between `ChunkExists` and `LoadChunk` (`CandidatesUnloaded`, `OneToLoad`), that saves drop
answers of ready chunks only (`SavesAreReady`), and that an IO thread answers each load it ends
(`IoKeepsOwed`). `GeneratingOwed`, `BleedWaits` and `PipelineTyped` complete the
invariant `WInv`; `NothingStuck` puts the three about slots and edits together.

`EditsAreKept` needs to know where the newest content of a chunk is (`Newest`: in the save queue, with
the pump, in a task, on disk) and that nothing older overtakes it, for a chunk that is not in
`raced`: one save task at most, with a part of what is queued behind it (`SavesInOrder`); one load at
most, alone, whose answer is what is on disk (`LoadAlone`); nothing saved where a chunk is
generated (`GeneratedFresh`); and a chunk that need not be saved is its newest snapshot
(`CleanIsNewest`). `GeneratedIsNew` says how narrow the excuse of a generation is: `FilesExist` and
the coherent headers make `ChunkExists` right unless it finds no slot. `ShutdownSavesReady` follows the chunks
through `Shutdown` (`SavedWhileStopping`, `FlushEmpties`) under `RegionsFit`: a save refused in the last flush is
lost with the process.

**ChunkStreamProofs.** `StreamTypes`, `IndexIsExact`, `SentIsAlwaysOwed`, `ViewIsCurrent`, from one invariant,
`StreamInv`. Between `Enqueue` and the update of the index the latter is behind by what `newlyFlushed` and
`newlyUnloaded` say (`IndexBehind`), also when the player changes world in between. A client can only be
current if everything on its way is, so the invariant follows a block: a change that is to be
broadcast (`ChangesCurrent`), what a job has read (`WaitingCurrent`, and `TickCurrent` for a job that others may still
share), what a sub-region has read (`SubRegionsCurrent`), what is shown (`ShownCurrent`). A job belongs to
one chunk of one world (`JobsApart`), and one that is used again has read nothing (`FreeIsFresh`).

**PlayerSessionsProofs.** `NamesUnique`, `BanHolds`, `FilesNeverOlder`, `LeaversKept`, `PlayerSessionsTyped`. The invariant
adds to the properties that only sessions in the game have an entity and a name that was
checked (`EntityInGame`), that a player's state is never behind his file (`FileCurrent`), and
that a kept session's state is its file (`KeptOnFile`). `FilesNeverOlder` rests on
`SavedIsCurrent`: whichever session the lookup by name finds, it has no entity, in which case
`SavePlayerNbt` writes nothing, or is the only player of that name. That the vector of the sessions has
each of them once after some were erased (`InOrderHolds`) is the pigeonhole principle: their places
in the new vector are as many as they are, and no two have the same.

**ConnectionProofs.** `PacketsAreInOrder` and `BytesAreInOrder` are refinements: every step of the
reader and of the writer is a step of `OrderedDelivery` or a stutter. For the reader it takes that in
the game the buffer begins with a packet (`AtStart`) until one is misread; for the writer that
the write thread has nothing while the main thread uses the buffer, so that what was received is what
was erased and what one of them has sent since. The latter is assumed of the 100 ms of `Run`
(`FlushesInTime`), as in `GoodbyesArrive` and `ConnectionTyped`: two flushes at a time would erase more than there is.

`ClicksOnResyncedView`: at most one rejection is under way. Until the client has it,
no confirmation is (`Undelivered`), so the lock holds and all clicks are ignored; once it has, the
clicks behind the confirmation were made on the view the rejection brought (`Delivered`); and
when the lock is open, all clicks under way were (`Unlocked`).

**ItemsProofs.** `PlayersTyped`, `NothingLost`. What a set of slots holds is a sum over them (`Load`), and what
lies on the ground one over the kinds (`Lying`), of weights: the `Worth` of an item in a player's window,
one for each item in boxes. The invariants `WindowInv` and `BoxesInv` say that all stacks are sound and
that the total is that of the start as long as `lapses` or `slips` is empty. There is one lemma per action,
and what they rest on is about the operators of `Stacks`: a click changes one slot and the cursor
(`Exchanges`); `Merges` and `PickupFacts`, for any order of the slots, that a merge moves items without making any and
leaves nothing over its maximum; `SpilledLies`, that what is spilled lies there afterwards. A
shift-click in the hotbar merges a stack into itself, which is why the total needs the excuse `MergedIntoItself`; a craft
keeps it because the result shown is that of the grid (`Paid`) and because a recipe keeps the worth of its ingredients, an
assumption on `Worth` that the run's recipes meet. The theorem tells apart what `Worth` tells apart:
of recipes that can be turned around at a gain it would say nothing. A window's copy counts nothing: what is written back is what the
box and the bag hold, or a slip (`WriteBackFacts`). That a window is not the null pointer is `NoWindowAssumption`.
The module has its own induction over numbers and over finite sets (`Induction`, `SetInduction`), with the set of what a
predicate holds of in place of the predicate, which no prover could instantiate.

**WorldProofs.** `LightRight`, `LightTyped`. A cell that is not queued is bright enough (`BlockEnough`,
`SkyEnough`), and none is too bright, because `Darkened` takes away all that may have come from the changed cell:
what is left has its light from elsewhere. `RelightColumn` brightens cells without
telling their neighbours; `Waiting` says why that does no harm.

`EntitiesInPlace`. A record of a chunk that is not loaded speaks for its entities
alone (`RecordsCount`). The record of a loaded chunk will count when the chunk is dropped unsaved: an
unmodified chunk has each entity of its record in its bucket (`UnmodifiedIsTrue`), so that a chunk
that is dropped unsaved has an empty record.

`ViewersStayExact`, `RelativeMovesAddUp`, `TicksSeeRange`. Whom an entry names has a session and is another entity
(`EntriesTrue`), nothing is shown without a session, and a client shows what it was told and not told
to forget, where it was last said to be (`ShowsExactly`), which a death, an id that comes back and a
change of world all have to keep.

`TicksAreKept`, `SandAlwaysKept`, for a column of any height and any number of sands. Sand that begins to
fall is counted twice until its first tick. `SandAddsUp` counts it so: blocks, entities, what
is held and what was crushed are the sands and those counted twice (`OwnBlocks`). It is inductive because a
fresh entity's block is in its place, one to each, and nothing makes it fall again
(`OwnersTrue`), and because first ticks come in the same tick of the world (`FreshIsBrief`).
Where sand that falls at once comes to rest is a least cell, by well-founded induction on the numbers.

`WorldTypes` and `WorldKeeps` state for the run `world` as a whole what is proved of its parts: a step of the
dimension is one of a part and leaves the others alone (`WorldParts`).

The proofs have corrected the models in three places that the runs did not show: with three sands
the history of `BlockTicks` took a block for crushed that had its owner, hence `bare`; two alternatives
of `EntityTracking` overlapped, which of them counts being left open; and `ChunkStream` did not say that
having no chunk differs from every content of one.

Only model-checked: liveness under fairness (`WantedGetsReady`, `NearbyIsSent`, `LoginEnds`, `PacketsAreDealtWith`,
`BytesArrive`, `LockIsReleased`), which is out of the prover's reach. Every other property of a passing run is stated by
a theorem.

## Not modelled

* Storage and chunks: population order, tile entities and entities as a part of a chunk's content
  (beyond "has an entity", which forces a save; `EntityStore` has them on their own); several dimensions
  in one `ChunkPipeline` (they share nothing but the main thread); the order in which chunks are chosen; a
  failed write of a region file as `RegionManager` sees it (inside the file it is in `RegionFile`);
  what a machine that loses power keeps of unsynced writes; a torn read of a header entry.
* Sessions and packets: the fields of packets, which are encodings; sign texts; the whitelist
  and address bans beyond "refused"; single ticks while frozen, as sessions see them; checks of movement, which are arithmetic on
  positions.
* Windows: large chests, the window of the crafting table, the slot packets that a tick's
  differences are sent as, fuel and the furnace's timers.
* Entities and tracking: riding, rotation, velocity, equipment, metadata, entities that are never
  updated; movement itself, which is floating-point arithmetic.
* Scheduled ticks and light: every other block that schedules a tick; cells whose neighbour chunk is
  not loaded, the seeding of light in a new chunk, the limit of the light queue.
* Redstone, rails, pistons, fluids, plants, crops: rules of a block and its neighbours without
  concurrency, hundreds of cases each of the size of a unit test, whose results depend on the
  order in which neighbours are told. The pressure plate stands for those that wait.
* World generation and noise: floating-point functions of the seed. Pathfinding, spawning, weather: random numbers
  and floating-point costs, for which the source states nothing to check against.
* Tables (`block_properties.cpp`, items, recipes), NBT, text, logging, numeric helpers: data
  and encodings without state.
* Configuration, lists, console, heartbeat, addons, the client stub: input and output of the process,
  and calls into code that is not in the repository.
* `include/sokol_gfx.h`, `include/BS_thread_pool.hpp` and other vendored code: not this project's. Of the
  thread pool, what the server relies on is in the modules: tasks begin in order, and each ends.
