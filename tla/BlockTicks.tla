------------------------------ MODULE BlockTicks ------------------------------
(***************************************************************************)
(* Blocks that wait for their time: TickScheduler, the block updates that  *)
(* WorldManager puts off while ticks are frozen, and the freeze and step   *)
(* commands, seen through two users of them.  Sand in a column over cell 0 *)
(* falls as an entity three ticks after it lost its support; a pressure    *)
(* plate somewhere else looks every twenty ticks whether anybody is still  *)
(* on it.  Scheduled ticks are not saved: those that come up while their   *)
(* chunk is not loaded are lost, and the properties excuse them.           *)
(***************************************************************************)
EXTENDS Integers, Sequences, FiniteSets

CONSTANTS
    ColumnTop,   \* bound: the highest cell of the column
    Sands,       \* the sand there is, as identities of falling entities
    SandDelay,
    PlateDelay,
    TickBudget,  \* MAX_TICKS_PER_TICK
    MaxDeferred, \* bound: updates put off
    MaxSteps     \* bound: steps queued

ASSUME BlockTicksAssumption ==
    /\ ColumnTop \in Nat \ {0} /\ IsFiniteSet(Sands) /\ TickBudget \in Nat \ {0}
    /\ SandDelay \in Nat \ {0} /\ PlateDelay \in Nat \ {0}
    /\ MaxDeferred \in Nat /\ MaxSteps \in Nat

Column == 1..ColumnTop
Plate == ColumnTop + 2   \* not a neighbour of any cell
TickCells == Column \cup {Plate}

VARIABLES
    blockAt,       \* Plate has a plate, released or pressed
    scheduled,     \* scheduledTicks, first due first; wait is tickDue - currentTick
    deferred,      \* deferredUpdates: the blocks whose neighbours are to be told
    tickFrozen,
    pendingTickSteps,
    loaded,        \* the chunk is
    falling,       \* where each falling sand is
    fresh,         \* falling sand whose own first tick is to come
    bare,          \* history: of them, those whose block another one has taken away
    trodden,       \* somebody stands on the plate
    held,          \* sand that players have
    phase,         \* where WorldManager::Tick is
    budget,        \* entries that may still fire in this tick
    toMove,        \* entities that EntityManager::Tick has still to visit
    dropped,       \* history: an update came up while the chunk was not loaded
    crushed        \* history: how much sand was taken away that was nobody's own block

blockTickVars == <<blockAt, scheduled, deferred, tickFrozen, pendingTickSteps, loaded, falling, fresh,
                   bare, trodden, held, phase, budget, toMove, dropped, crushed>>
\* What a change of a block leaves alone.
controlVars == <<tickFrozen, pendingTickSteps, loaded, trodden>>

Entry == [cell : TickCells, wait : Int]

BlockTicksTypeOK ==
    /\ blockAt \in [TickCells -> {"air", "sand", "stone", "released", "pressed"}]
    /\ scheduled \in Seq(Entry)
    /\ deferred \in Seq(TickCells)
    /\ tickFrozen \in BOOLEAN /\ loaded \in BOOLEAN /\ trodden \in BOOLEAN
    /\ pendingTickSteps \in Nat
    /\ falling \in [Sands -> Column \cup {0}]
    /\ fresh \subseteq Sands /\ bare \subseteq fresh /\ toMove \subseteq Sands
    /\ held \in Nat /\ budget \in Nat
    /\ phase \in {"packets", "replay", "ticks", "entities"}
    /\ dropped \in BOOLEAN /\ crushed \in Nat
    \* Steps that were not taken do not outlive the freeze they were queued in.
    /\ phase = "packets" /\ pendingTickSteps > 0 => tickFrozen

BlockTicksInit ==
    /\ blockAt = [c \in TickCells |-> IF c = Plate THEN "released" ELSE "air"]
    /\ scheduled = <<>> /\ deferred = <<>>
    /\ tickFrozen = FALSE /\ pendingTickSteps = 0
    /\ loaded = TRUE
    /\ falling = [s \in Sands |-> 0]   \* 0: it does not fall
    /\ fresh = {} /\ bare = {} /\ toMove = {} /\ dropped = FALSE
    /\ trodden = FALSE /\ crushed = 0
    /\ held = Cardinality(Sands)
    /\ phase = "packets" /\ budget = 0

-----------------------------------------------------------------------------
(* TickScheduler and the notification of neighbours *)

IsScheduled(queue, c) == \E i \in DOMAIN queue : queue[i].cell = c

\* ScheduleUpdateTick: one entry for each block, behind those that are due as early.
ScheduleUpdateTick(queue, c, delay) ==
    IF IsScheduled(queue, c) THEN queue
    ELSE LET ahead == Cardinality({i \in DOMAIN queue : queue[i].wait <= delay})
         IN  [i \in 1..(Len(queue) + 1) |->
                 IF i <= ahead THEN queue[i]
                 ELSE IF i = ahead + 1 THEN [cell |-> c, wait |-> delay] ELSE queue[i - 1]]

\* onBlockAdded and onNeighborBlockChange of sand.
Alert(queue, b, c) ==
    IF c \in Column /\ b[c] = "sand" THEN ScheduleUpdateTick(queue, c, SandDelay) ELSE queue

\* Below and above; the other neighbours are of no interest.
AlertNeighbors(queue, b, c) == Alert(Alert(queue, b, c - 1), b, c + 1)

PutsOff == tickFrozen /\ phase # "replay"

\* Slip: nothing is remembered while ticks are frozen.
ForgetWhenFrozen(cells) == deferred

\* NotifyNeighborsOfUpdate of blocks that changed: what is remembered, and what is told at once.
PutOff(cells) == IF PutsOff THEN deferred \o cells ELSE deferred

Tell(queue, b, c) == IF PutsOff THEN Alert(queue, b, c) ELSE AlertNeighbors(Alert(queue, b, c), b, c)

PutBlock(c, kind) ==
    /\ blockAt' = [blockAt EXCEPT ![c] = kind]
    /\ scheduled' = Tell(scheduled, blockAt', c)
    /\ deferred' = PutOff(<<c>>)

-----------------------------------------------------------------------------
(* Packets, commands and chunks, between ticks *)

InPackets == phase = "packets"
Bounded   == Len(deferred) < MaxDeferred

\* CanPlace refuses a cell in which an entity falls.
PlaceBlock(c, kind) ==
    /\ InPackets /\ loaded /\ Bounded
    /\ blockAt[c] = "air" /\ \A s \in Sands : falling[s] # c
    /\ kind = "sand" => held > 0
    /\ held' = IF kind = "sand" THEN held - 1 ELSE held
    /\ PutBlock(c, kind)
    /\ UNCHANGED <<controlVars, falling, fresh, bare, phase, budget, toMove, dropped, crushed>>

BreakBlock(c) ==
    /\ InPackets /\ loaded /\ Bounded
    /\ blockAt[c] # "air"
    /\ held' = IF blockAt[c] = "sand" THEN held + 1 ELSE held
    /\ PutBlock(c, "air")
    /\ UNCHANGED <<controlVars, falling, fresh, bare, phase, budget, toMove, dropped, crushed>>

ToggleTickFreeze ==
    /\ InPackets
    /\ tickFrozen' = ~tickFrozen
    /\ pendingTickSteps' = IF tickFrozen THEN 0 ELSE pendingTickSteps
    /\ UNCHANGED <<blockAt, scheduled, deferred, loaded, falling, fresh, bare, trodden, held, phase, budget,
                   toMove, dropped, crushed>>

QueueTickSteps ==
    /\ InPackets /\ tickFrozen
    /\ \E n \in 1..MaxSteps : /\ pendingTickSteps + n <= MaxSteps
                              /\ pendingTickSteps' = pendingTickSteps + n
    /\ UNCHANGED <<blockAt, scheduled, deferred, tickFrozen, loaded, falling, fresh, bare, trodden, held, phase,
                   budget, toMove, dropped, crushed>>

\* The chunk is unloaded with its blocks and entities, or loaded again.
LoadOrUnload ==
    /\ InPackets
    /\ loaded' = ~loaded
    /\ UNCHANGED <<blockAt, scheduled, deferred, tickFrozen, pendingTickSteps, falling, fresh, bare,
                   trodden, held,
                   phase, budget, toMove, dropped, crushed>>

-----------------------------------------------------------------------------
(* WorldManager::Tick *)

StartSimulation ==
    /\ InPackets
    /\ ~tickFrozen \/ pendingTickSteps > 0
    /\ phase' = "replay"
    /\ UNCHANGED <<blockAt, scheduled, deferred, controlVars, falling, fresh, bare, held, budget, toMove,
                   dropped, crushed>>

\* An unloaded chunk has air everywhere, and air is not interested.
ReplayDeferred ==
    /\ phase = "replay" /\ deferred # <<>>
    /\ deferred' = Tail(deferred)
    /\ UNCHANGED blockAt
    /\ LET c == Head(deferred)
       IN  IF loaded
           THEN scheduled' = AlertNeighbors(scheduled, blockAt, c) /\ UNCHANGED dropped
           ELSE dropped' = TRUE /\ UNCHANGED scheduled
    /\ UNCHANGED <<controlVars, falling, fresh, bare, held, phase, budget, toMove, crushed>>

\* TickScheduler::Tick begins: currentTick++ and the budget.
StartTicks ==
    /\ phase = "replay" /\ deferred = <<>>
    /\ phase' = "ticks"
    /\ scheduled' = [i \in DOMAIN scheduled |->
          [scheduled[i] EXCEPT !.wait = IF @ > 0 THEN @ - 1 ELSE 0]]
    /\ budget' = IF Len(scheduled) < TickBudget THEN Len(scheduled) ELSE TickBudget
    /\ UNCHANGED <<blockAt, deferred, controlVars, falling, fresh, bare, held, toMove, dropped, crushed>>

Hangs(c) == blockAt[c] = "sand" /\ c > 1 /\ blockAt[c - 1] = "air"

IsDue == budget > 0 /\ scheduled # <<>> /\ Head(scheduled).wait = 0

\* The next entry is taken off the queue, and with it what says that it is pending.
Pop(c) ==
    /\ phase = "ticks" /\ IsDue
    /\ Head(scheduled).cell = c
    /\ budget' = budget - 1

\* Else the block is not there, or is not the one that was meant, or rests on something.
HasWork(c) == loaded /\ IF c = Plate THEN blockAt[c] = "pressed" ELSE Hangs(c)

DropTick(c) ==
    /\ Pop(c) /\ ~HasWork(c)
    /\ scheduled' = Tail(scheduled)
    /\ dropped' = (dropped \/ ~loaded)
    /\ UNCHANGED <<blockAt, deferred, controlVars, falling, fresh, bare, held, phase, toMove, crushed>>

\* Chunks within 32 blocks are all loaded: an entity, whose own first tick takes the block away.
SpawnFalling(c) ==
    /\ Pop(c) /\ c \in Column /\ HasWork(c)
    /\ LET s == CHOOSE s \in Sands : falling[s] = 0
       IN  falling' = [falling EXCEPT ![s] = c] /\ fresh' = fresh \cup {s}
    /\ scheduled' = Tail(scheduled)
    /\ UNCHANGED <<blockAt, deferred, controlVars, bare, held, phase, toMove, dropped, crushed>>

\* Else the block goes down at once: two calls of SetBlock, with what they tell their neighbours.
Landing(c) == CHOOSE l \in 1..c : /\ \A d \in l..(c - 1) : blockAt[d] = "air"
                                  /\ l = 1 \/ blockAt[l - 1] # "air"

FallAtOnce(c) ==
    /\ Pop(c) /\ c \in Column /\ HasWork(c)
    /\ LET without == [blockAt EXCEPT ![c] = "air"]
           l       == Landing(c)
       IN  /\ blockAt' = [without EXCEPT ![l] = "sand"]
           /\ scheduled' = Tell(Tell(Tail(scheduled), without, c), blockAt', l)
           /\ deferred' = PutOff(<<c, l>>)
    /\ UNCHANGED <<controlVars, falling, fresh, bare, held, phase, toMove, dropped, crushed>>

\* SetPressurePlateState: it looks again as long as somebody is there.
PlateState(queue) ==
    /\ blockAt' = [blockAt EXCEPT ![Plate] = IF trodden' THEN "pressed" ELSE "released"]
    /\ scheduled' = IF trodden' THEN ScheduleUpdateTick(queue, Plate, PlateDelay) ELSE queue

TickPlate ==
    /\ Pop(Plate) /\ HasWork(Plate)
    /\ UNCHANGED <<deferred, controlVars, falling, fresh, bare, held, phase, toMove, dropped, crushed>>
    /\ PlateState(Tail(scheduled))

StartEntities ==
    /\ phase = "ticks"
    /\ ~IsDue
    /\ phase' = "entities"
    /\ toMove' = IF loaded THEN {s \in Sands : falling[s] # 0} ELSE {}
    /\ UNCHANGED <<blockAt, scheduled, deferred, controlVars, falling, fresh, bare, held, budget,
                   dropped, crushed>>

-----------------------------------------------------------------------------
(* EntityManager::Tick *)

OnGround(h) == h > 1 => blockAt[h - 1] # "air"

\* It may fall by a cell, after the first tick.  All fall alike, so that a later one never catches up.
Falls(s, h) ==
    /\ h \in {falling[s], falling[s] - 1} \cap Column
    /\ h # falling[s] => s \notin fresh /\ blockAt[h] = "air" /\ \A t \in Sands : falling[t] # h

\* A block of its kind where it is goes: its own, or one that fell at once into its place.
Cleared(h) == IF blockAt[h] = "sand" THEN [blockAt EXCEPT ![h] = "air"] ELSE blockAt

\* Whose own block is in that cell.
Owners(h) == {t \in fresh \ bare : falling[t] = h}

FallingTick(s, h) ==
    /\ phase = "entities" /\ s \in toMove /\ Falls(s, h)
    /\ toMove' = toMove \ {s}
    /\ fresh' = fresh \ {s}
    /\ IF blockAt[h] = "sand"
       THEN /\ bare' = (bare \cup Owners(h)) \ {s}
            /\ crushed' = IF Owners(h) = {} THEN crushed + 1 ELSE crushed
       ELSE bare' = bare \ {s} /\ UNCHANGED crushed
    /\ UNCHANGED <<controlVars, phase, budget, dropped>>

\* Slip: the block stays when its entity starts to fall.
KeepBlock(h) == UNCHANGED <<blockAt, scheduled, deferred>>

\* The block that goes is a change of its own.
ClearOnly(h) ==
    IF blockAt[h] = "sand" THEN PutBlock(h, "air") ELSE UNCHANGED <<blockAt, scheduled, deferred>>

Fall(s, h) ==
    /\ FallingTick(s, h) /\ ~OnGround(h)
    /\ ClearOnly(h)
    /\ falling' = [falling EXCEPT ![s] = h]
    /\ UNCHANGED held

\* It becomes a block again where there is air, else an item.
Land(s, h) ==
    /\ FallingTick(s, h) /\ OnGround(h)
    /\ falling' = [falling EXCEPT ![s] = 0]
    /\ IF Cleared(h)[h] = "air"
       THEN /\ blockAt' = [blockAt EXCEPT ![h] = "sand"]
            /\ LET cleared == blockAt[h] = "sand"
                   queue   == IF cleared THEN Tell(scheduled, Cleared(h), h) ELSE scheduled
               IN  /\ scheduled' = Tell(queue, blockAt', h)
                   /\ deferred' = PutOff(IF cleared THEN <<h, h>> ELSE <<h>>)
            /\ UNCHANGED held
       ELSE held' = held + 1 /\ UNCHANGED <<blockAt, scheduled, deferred>>

\* After a hundred ticks it is an item.
FallTooLong(s, h) ==
    /\ FallingTick(s, h) /\ ~OnGround(h) /\ s \notin fresh
    /\ ClearOnly(h)
    /\ falling' = [falling EXCEPT ![s] = 0]
    /\ held' = held + 1

\* Somebody comes, stays or leaves; who is on a released plate presses it.
Walk ==
    /\ phase = "entities" /\ loaded
    /\ trodden' \in BOOLEAN
    /\ IF trodden' /\ blockAt[Plate] = "released"
       THEN PlateState(scheduled)
       ELSE UNCHANGED <<blockAt, scheduled>>
    /\ UNCHANGED <<deferred, tickFrozen, pendingTickSteps, loaded, falling, fresh, bare, held, phase, budget,
                   toMove, dropped, crushed>>

\* Server::Tick: a step was taken.
EndSimulation ==
    /\ phase = "entities" /\ toMove = {}
    /\ phase' = "packets"
    /\ pendingTickSteps' = IF pendingTickSteps > 0 THEN pendingTickSteps - 1 ELSE 0
    /\ UNCHANGED <<blockAt, scheduled, deferred, tickFrozen, loaded, falling, fresh, bare, trodden, held,
                   budget,
                   toMove, dropped, crushed>>

BlockTicksNext ==
    \/ \E c \in Column, kind \in {"sand", "stone"} : PlaceBlock(c, kind)
    \/ PlaceBlock(Plate, "released")
    \/ \E c \in TickCells : BreakBlock(c)
    \/ ToggleTickFreeze \/ QueueTickSteps \/ LoadOrUnload
    \/ StartSimulation \/ ReplayDeferred \/ StartTicks
    \/ \E c \in TickCells : DropTick(c) \/ SpawnFalling(c) \/ FallAtOnce(c)
    \/ TickPlate \/ StartEntities
    \/ \E s \in Sands, h \in Column : Fall(s, h) \/ Land(s, h) \/ FallTooLong(s, h)
    \/ Walk \/ EndSimulation

BlockTicksSpec == BlockTicksInit /\ [][BlockTicksNext]_blockTickVars

-----------------------------------------------------------------------------
(* Properties *)

\* Sand with nothing below it will look down once more: a tick is scheduled for it, or a neighbour's
\* change is to be replayed, or its entity is about to take it away.  Frozen ticks, single steps, the
\* limit of entries and the one entry for each block make no difference; an unloaded chunk does.
SandIsWatched ==
    ~dropped => \A c \in Column : Hangs(c) =>
        \/ IsScheduled(scheduled, c)
        \/ \E i \in DOMAIN deferred : deferred[i] \in {c - 1, c + 1}
        \/ \E s \in fresh : falling[s] = c

\* A pressed plate looks again, also when it has just done so.
PressedIsWatched == blockAt[Plate] = "pressed" => IsScheduled(scheduled, Plate) \/ dropped

\* What waits for its tick gets it, in the column and on the plate.
NoTickIsForgotten == SandIsWatched /\ PressedIsWatched

\* Sand is a block, falls, or is somebody's: none is doubled or gone after a tick, except that falling
\* sand takes away a block that fell at once into its place.
SandIsKept ==
    phase = "packets" =>
        /\ fresh = {}
        /\ held + Cardinality({c \in Column : blockAt[c] = "sand"})
                + Cardinality({s \in Sands : falling[s] # 0})
                + crushed = Cardinality(Sands)
=============================================================================
