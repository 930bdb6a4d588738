--------------------------- MODULE EntityTracking ---------------------------
(***************************************************************************)
(* EntityTracker of one world: which players see which entity, what their  *)
(* clients were told of it, and where they believe it to be.  Positions    *)
(* are on a line; the packets of the spawn and of the movement reach the   *)
(* client in the order they are written, so they act on its view at once.  *)
(* bpp_server/trackers/entity_tracker.cpp.                                 *)
(***************************************************************************)
EXTENDS Integers, FiniteSets

CONSTANTS
    Watchers,        \* the ids of players
    Things,          \* the ids of the other entities
    Bobbers,         \* things shown only while their owner is there
    OwnerOf,
    Spots,
    RangeOf,         \* TrackingProfile::range
    UpdateEvery,     \* TrackingProfile::updateFrequency
    TeleportEvery,   \* forceTeleportTicks
    MinStep,         \* MINIMUM_POSITION_DELTA
    MaxStep,         \* what one byte of a relative move holds
    NotShown

Ids == Watchers \cup Things

ASSUME TrackingAssumption ==
    /\ Watchers \cap Things = {}
    /\ Bobbers \subseteq Things /\ OwnerOf \in [Bobbers -> Watchers]
    /\ Spots \subseteq Int /\ NotShown \notin Int
    /\ RangeOf \in [Ids -> Nat] /\ UpdateEvery \in [Ids -> Nat]
    /\ TeleportEvery \in Nat /\ MinStep \in Nat /\ MaxStep \in Nat

VARIABLES
    being,       \* of an entity: not in the world, alive, or isDead
    at,          \* its position; of one that is not in the world, where it will appear
    tracked,     \* the keys of trackedEntities
    visibleTo,   \* TrackedEntry::visibleTo
    encoded,     \* TrackedEntry::lastEncodedPos
    counters,    \* updateCounter and ticksSinceTeleport
    sessions,    \* the players GetSessionById finds
    client,      \* what each client shows: an entity and where
    lateViewers  \* history: <<player, entity>> spawned between two updates of the entity, no teleport since

trackVars == <<being, at, tracked, visibleTo, encoded, counters, sessions, client, lateViewers>>

EntityTrackingTypeOK ==
    /\ being \in [Ids -> {"none", "live", "dead"}]
    /\ at \in [Ids -> Spots] /\ encoded \in [Ids -> Spots]
    /\ tracked \subseteq Ids
    /\ visibleTo \in [Ids -> SUBSET (tracked \cap Watchers)]
    /\ counters \in [Ids -> [update : Nat, teleport : Nat]]
    /\ sessions \subseteq Watchers
    /\ client \in [Watchers -> [Ids -> Int \cup {NotShown}]]
    /\ lateViewers \subseteq Watchers \X Ids

Origin == CHOOSE s \in Spots : TRUE
NothingShown == [e \in Ids |-> NotShown]

EntityTrackingInit ==
    /\ being = [e \in Ids |-> "none"]
    /\ at \in [Ids -> Spots]
    /\ encoded = [e \in Ids |-> Origin]
    /\ tracked = {} /\ sessions = {} /\ lateViewers = {}
    /\ visibleTo = [e \in Ids |-> {}]
    /\ counters = [e \in Ids |-> [update |-> 0, teleport |-> 0]]
    /\ client = [p \in Watchers |-> NothingShown]

-----------------------------------------------------------------------------
(* Helpers *)

Distance(e, p) == IF at[e] < at[p] THEN at[p] - at[e] ELSE at[e] - at[p]
InRange(e, p)  == Distance(e, p) <= RangeOf[e]
Magnitude(n)   == IF n < 0 THEN -n ELSE n

\* SpawnEntityForPlayer writes no packet for a bobber without an owner, and
\* counts the player as a viewer all the same.
IsShowable(e) == e \in Bobbers => being[OwnerOf[e]] = "live" /\ OwnerOf[e] \in sessions

\* The clients after the pairs in `spawned' were sent a spawn packet.
AfterSpawns(view, spawned) ==
    [p \in Watchers |-> [e \in Ids |->
        IF <<p, e>> \in spawned /\ IsShowable(e) THEN at[e] ELSE view[p][e]]]

AfterDespawns(view, despawned) ==
    [p \in Watchers |-> [e \in Ids |->
        IF <<p, e>> \in despawned /\ p \in sessions THEN NotShown ELSE view[p][e]]]

-----------------------------------------------------------------------------
(* TrackEntity and AddPlayer: a new entry, and everyone in range sees it.  *)

\* The pairs that see each other from now on because `e' came.
NewPairs(e) ==
    LET others == tracked \ {e}
        seers  == {p \in others \cap Watchers : InRange(e, p) /\ p \in sessions}
        seen   == IF e \in Watchers /\ e \in sessions THEN {t \in others : InRange(t, e)} ELSE {}
    IN  {<<p, e>> : p \in seers} \cup {<<e, t>> : t \in seen}

\* The spawn packets carry the position, the entries what was last sent to all.
NewlyLate(pairs, newEncoded) == {pair \in pairs : newEncoded[pair[2]] # at[pair[2]]}

AddToTracker(e) ==
    LET pairs == NewPairs(e)
    IN  /\ tracked' = tracked \cup {e}
        /\ encoded' = [encoded EXCEPT ![e] = at[e]]
        /\ visibleTo' = [t \in Ids |-> (IF t = e THEN {} ELSE visibleTo[t])
                                           \cup {p \in Watchers : <<p, t>> \in pairs}]
        /\ client' = AfterSpawns(client, pairs)
        /\ lateViewers' = (lateViewers \ pairs) \cup NewlyLate(pairs, encoded')
        /\ \E start \in 0..(IF UpdateEvery[e] = 0 THEN 0 ELSE UpdateEvery[e] - 1) :
               counters' = [counters EXCEPT ![e] = [update |-> start, teleport |-> 1]]

\* EntityManager::AddEntity and onEntitySpawn; a player's session is there first.
AddEntity(e) ==
    /\ being[e] = "none"
    /\ e \in Watchers => e \in sessions
    /\ being' = [being EXCEPT ![e] = "live"]
    /\ AddToTracker(e)
    /\ UNCHANGED <<at, sessions>>

-----------------------------------------------------------------------------
(* UntrackEntity and RemovePlayer *)

\* Slip: the other entries keep the one that is gone as a viewer.
ForgottenKept(e) == [t \in Ids |-> IF t = e THEN {} ELSE visibleTo[t]]

Forgotten(e) == [t \in Ids |-> IF t = e THEN {} ELSE visibleTo[t] \ {e}]

\* A player who goes is told that all he sees is gone.
TakenFromClients(e) ==
    {<<p, e>> : p \in visibleTo[e]}
        \cup (IF e \in Watchers THEN {<<e, t>> : t \in {u \in tracked : e \in visibleTo[u]}} ELSE {})

\* Where it will be when it comes again.
ComesBackAt(e) == \E s \in Spots : at' = [at EXCEPT ![e] = s]

DropEntry(e) ==
    /\ visibleTo' = Forgotten(e)
    /\ tracked' = tracked \ {e}
    /\ lateViewers' = {pair \in lateViewers : pair[1] # e /\ pair[2] # e}
    /\ encoded' = [encoded EXCEPT ![e] = Origin]
    /\ counters' = [counters EXCEPT ![e] = [update |-> 0, teleport |-> 0]]

RemoveFromTracker(e) ==
    IF e \in tracked
    THEN /\ client' = AfterDespawns(client, TakenFromClients(e))
         /\ DropEntry(e)
    ELSE UNCHANGED <<client, visibleTo, tracked, lateViewers, encoded, counters>>

\* EntityManager::RemoveEntity and onEntityDespawn.
RemoveEntity(e) ==
    /\ being[e] # "none"
    /\ being' = [being EXCEPT ![e] = "none"]
    /\ ComesBackAt(e)
    /\ RemoveFromTracker(e)
    /\ UNCHANGED sessions

\* EntityMPPlayer::OnDeath: the tracker forgets the player, the world does not.
PlayerDies(p) ==
    /\ being[p] = "live"
    /\ RemoveFromTracker(p)
    /\ UNCHANGED <<being, at, sessions>>

\* Something else is marked: killed, saved with its chunk, picked up.
MarkDead(e) ==
    /\ being[e] = "live"
    /\ being' = [being EXCEPT ![e] = "dead"]
    /\ UNCHANGED <<at, tracked, visibleTo, encoded, counters, sessions, client, lateViewers>>

-----------------------------------------------------------------------------
(* Players come, go and change worlds *)

Login(p) ==
    /\ p \notin sessions /\ being[p] = "none"
    /\ sessions' = sessions \cup {p}
    /\ UNCHANGED <<being, at, tracked, visibleTo, encoded, counters, client, lateViewers>>

\* What the other clients are told when `p' goes.
ToldOthers(p) ==
    IF p \in tracked
    THEN AfterDespawns(client, TakenFromClients(p) \ {<<p, e>> : e \in Ids})
    ELSE client

\* His own client shows nothing from here on: it is gone, or it got a Respawn
\* packet for another world.
GoesAway(p) ==
    /\ being' = [being EXCEPT ![p] = "none"]
    /\ ComesBackAt(p)
    /\ client' = [ToldOthers(p) EXCEPT ![p] = NothingShown]
    /\ DropEntry(p)

\* DisconnectClients drops the session, then the entity.
Leave(p) ==
    /\ p \in sessions
    /\ sessions' = sessions \ {p}
    /\ GoesAway(p)

\* SendPlayerToDimension: the tracker of the other world takes over.
LeaveWorld(p) ==
    /\ p \in sessions /\ being[p] = "live"
    /\ GoesAway(p)
    /\ UNCHANGED sessions

Move(e) ==
    /\ being[e] = "live"
    /\ \E s \in Spots : s # at[e] /\ at' = [at EXCEPT ![e] = s]
    /\ UNCHANGED <<being, tracked, visibleTo, encoded, counters, sessions, client, lateViewers>>

-----------------------------------------------------------------------------
(* EntityTracker::Tick *)

Dead      == {e \in tracked : being[e] = "dead"}
Surviving == tracked \ Dead

\* What Update does with the position: nothing, a teleport, or a relative move.
Due(e)      == counters[e].update + 1 >= UpdateEvery[e] \/ counters[e].teleport + 1 >= TeleportEvery
Delta(e)    == at[e] - encoded[e]
Teleports(e) == Due(e) /\ (Magnitude(Delta(e)) > MaxStep \/ counters[e].teleport + 1 >= TeleportEvery)
Steps(e)     == Due(e) /\ ~Teleports(e) /\ Magnitude(Delta(e)) > MinStep

\* Slip: a relative move is sent and the position it leads to not kept.
EncodedAfterKept(e) == IF Teleports(e) THEN at[e] ELSE encoded[e]

EncodedAfter(e) == IF Teleports(e) \/ Steps(e) THEN at[e] ELSE encoded[e]

ShownAfter(p, e) ==
    IF client[p][e] = NotShown THEN NotShown
    ELSE IF Teleports(e) THEN at[e]
    ELSE IF Steps(e) THEN client[p][e] + Delta(e) ELSE client[p][e]

CountersAfter(e) ==
    [update   |-> IF Due(e) THEN 0 ELSE counters[e].update + 1,
     teleport |-> IF Teleports(e) THEN 0 ELSE counters[e].teleport + 1]

\* Slip: nobody is taken off for having walked away.
StayingFar(e) == {p \in visibleTo[e] \ Dead : p \in Surviving}

\* The viewers who stay, those who are told that it is gone, and those who are added by the spawn pass.
Staying(e) == {p \in visibleTo[e] \ Dead : p \in Surviving /\ InRange(e, p)}
Lost(e) == {p \in visibleTo[e] : e \in Dead \/ (p \notin Dead /\ p \notin Staying(e))}
Arriving(e) ==
    {p \in (Surviving \cap Watchers) \ {e} : InRange(e, p) /\ p \notin Staying(e) /\ p \in sessions}

TrackerTick ==
    LET updated == [p \in Watchers |-> [e \in Ids |->
                        IF e \in Surviving /\ p \in visibleTo[e] \ Dead THEN ShownAfter(p, e) ELSE client[p][e]]]
        lost    == {pair \in Watchers \X tracked : pair[1] \in Lost(pair[2])}
        come    == {pair \in Watchers \X Surviving : pair[1] \in Arriving(pair[2])}
    IN  /\ tracked # {}
        /\ tracked' = Surviving
        /\ encoded' = [e \in Ids |-> IF e \in Surviving THEN EncodedAfter(e) ELSE Origin]
        /\ counters' = [e \in Ids |-> IF e \in Surviving THEN CountersAfter(e) ELSE [update |-> 0, teleport |-> 0]]
        /\ visibleTo' = [e \in Ids |-> IF e \in Surviving THEN Staying(e) \cup Arriving(e) ELSE {}]
        /\ client' = AfterSpawns(AfterDespawns(updated, lost), come)
        /\ lateViewers' = {pair \in lateViewers : /\ pair[2] \in Surviving /\ pair[1] \in Staying(pair[2])
                                                 /\ ~Teleports(pair[2])}
                       \cup NewlyLate(come, encoded')
        /\ UNCHANGED <<being, at, sessions>>

EntityTrackingNext ==
    \/ \E e \in Ids : AddEntity(e) \/ RemoveEntity(e) \/ Move(e)
    \/ \E e \in Things : MarkDead(e)
    \/ \E p \in Watchers : PlayerDies(p) \/ Login(p) \/ Leave(p) \/ LeaveWorld(p)
    \/ TrackerTick

EntityTrackingSpec == EntityTrackingInit /\ [][EntityTrackingNext]_trackVars

-----------------------------------------------------------------------------
(* Properties *)

\* A client shows exactly the entities whose entries name the player as a
\* viewer, whatever dies, leaves, comes back under the same id or walks out of
\* range in between: no ghosts, and nobody invisible. (A bobber may be missing.)
ViewersAreExact ==
    \A p \in sessions : \A e \in Ids :
        /\ client[p][e] # NotShown => p \in visibleTo[e]
        /\ p \in visibleTo[e] /\ e \notin Bobbers => client[p][e] # NotShown

\* A tick leaves every player who is tracked with exactly the entities in range.
TickSeesRange ==
    [][TrackerTick => \A e \in tracked' : visibleTo'[e] = {p \in tracked' \cap Watchers : p # e /\ InRange(e, p)}]_trackVars

\* A viewer believes an entity to be where it was last said to be, so that the
\* next relative move leads to where it is, unless he came between two updates
\* and there was no teleport since.
MovesAddUp ==
    \A p \in sessions : \A e \in tracked :
        /\ p \in visibleTo[e] /\ client[p][e] # NotShown
        /\ <<p, e>> \notin lateViewers
        => client[p][e] = encoded[e]

=============================================================================
