------------------------------ MODULE ChunkStream ------------------------------
(***************************************************************************)
(* How the terrain reaches the clients: ChunkSender with its two           *)
(* compression threads, ChunkBroadcaster, the chunkSessions index of the   *)
(* server and the per-session bookkeeping of PlayerSession                 *)
(* (bpp_server/chunk_io, server.cpp, player_session.h).                    *)
(*                                                                         *)
(* A block's content is the number of times it was changed, so a smaller   *)
(* number is an older content.  A client shows what the packets written to *)
(* its stream say, in the order they were written; the stream itself       *)
(* neither loses nor reorders.                                             *)
(*                                                                         *)
(* The server's tick is a program counter: every session is visited        *)
(* (packets, Enqueue, Flush, index), then the worlds tick, then the        *)
(* changes of the tick are broadcast and closed sessions are removed.      *)
(***************************************************************************)
EXTENDS Naturals, Sequences, FiniteSets

CONSTANTS
    Sessions,     \* PlayerSession objects
    Dims,         \* dimensions, a world for each
    StreamChunks, \* chunk positions; the same positions exist in every world
    Blocks,       \* the blocks of a chunk, numbered along its axes
    Jobs,         \* identities of full-chunk compression jobs, reused when free
    NoJob,        \* no job
    NoSession,    \* no session is being visited
    NoChunk,      \* what a client shows of a chunk it has not got
    MaxChanges,   \* bound: how often one block changes
    BatchSize,    \* full-chunk jobs a session may have waiting
    SubRegionMin  \* changes of one chunk in one tick sent as a sub-region

ASSUME BlocksType == Blocks \subseteq Nat
ASSUME BoundsType == /\ MaxChanges \in Nat
                     /\ BatchSize \in Nat \ {0}
                     /\ SubRegionMin \in Nat \ {0}
ASSUME JobsType == Jobs \subseteq Nat /\ NoJob \notin Jobs
ASSUME NoChunkType == NoChunk \notin [Blocks -> 0..MaxChanges]

VARIABLES
    block,         \* the worlds: how often each block changed
    ready,         \* the generated chunks of each world
    chunkBlockChanges, \* blocks changed since the last broadcast, by chunk
    players,       \* the sessions the server has
    session,       \* their PlayerSession objects
    chunkSessions, \* index: the sessions that have a chunk of a world
    tickPackets,   \* full-chunk job already submitted in this tick, by chunk
    jobs,          \* what each full-chunk job has read
    inFlight,      \* the full-chunk job each session waits for, by chunk
    subRegionFlight, \* the sub-region jobs of each session, in order
    pc,            \* the phase of the tick
    cur,           \* the session being visited
    todo,          \* sessions still to visit in this tick
    view,          \* what each client shows of each chunk
    missed,        \* history: blocks changed in this tick while nobody had or
                   \* awaited their chunk
    stale          \* history: blocks of a session's chunks that may show an old
                   \* content: written while a sub-region that covers them was in
                   \* flight, or sent from before a missed change of the tick

worldVars  == <<block, ready, missed>>
senderVars == <<tickPackets, jobs, inFlight, subRegionFlight>>
tickVars   == <<pc, cur, todo>>
clientVars == <<view, stale>>
vars == <<worldVars, chunkBlockChanges, players, session, chunkSessions, senderVars,
          tickVars, clientVars>>

Content == 0..MaxChanges
Reads   == UNION {[read -> Content] : read \in SUBSET Blocks}
SubRegions == [chunk : StreamChunks, dim : Dims, box : SUBSET Blocks, read : Reads]
Nothing == [b \in {} |-> 0]

\* f with one more entry, or another value of it.
Put(f, x, value) == [y \in DOMAIN f \cup {x} |-> IF y = x THEN value ELSE f[y]]

\* What a chunk shows when the contents that were read are written over it.
Over(read, shown) ==
    [b \in DOMAIN read \cup DOMAIN shown |-> IF b \in DOMAIN read THEN read[b] ELSE shown[b]]

\* The fields of PlayerSession that matter here; range is what lies within the
\* view distance of its position.
SessionType ==
    [dimension : Dims, waiting : BOOLEAN, range : SUBSET StreamChunks, connected : BOOLEAN,
     sentChunks : SUBSET StreamChunks, flushedChunks : SUBSET StreamChunks,
     newlyFlushed : SUBSET StreamChunks, newlyUnloaded : SUBSET StreamChunks,
     pendingBlockChanges : [StreamChunks -> SUBSET Blocks]]

FreshSession(d, range) ==
    [dimension |-> d, waiting |-> TRUE, range |-> range, connected |-> TRUE,
     sentChunks |-> {}, flushedChunks |-> {}, newlyFlushed |-> {}, newlyUnloaded |-> {},
     pendingBlockChanges |-> [c \in StreamChunks |-> {}]]

Phases == {"visit", "packets", "enqueue", "flush", "drain", "world", "broadcast"}

TypeOK ==
    /\ block \in [Dims -> [StreamChunks -> [Blocks -> Content]]]
    /\ ready \in [Dims -> SUBSET StreamChunks]
    /\ chunkBlockChanges \in [Dims -> [StreamChunks -> Reads]]
    /\ players \subseteq Sessions
    /\ session \in [players -> SessionType]
    /\ chunkSessions \in [Dims -> [StreamChunks -> SUBSET Sessions]]
    /\ tickPackets \in [Dims -> [StreamChunks -> Jobs \cup {NoJob}]]
    /\ jobs \in [Jobs -> Reads]
    /\ inFlight \in [Sessions -> [StreamChunks -> Jobs \cup {NoJob}]]
    /\ \A s \in Sessions : Cardinality({c \in StreamChunks : inFlight[s][c] # NoJob}) <= BatchSize
    /\ subRegionFlight \in [Sessions -> Seq(SubRegions)]
    /\ pc \in Phases
    /\ cur \in players \cup {NoSession}
    /\ todo \subseteq players
    /\ view \in [Sessions -> [StreamChunks -> [Blocks -> Content] \cup {NoChunk}]]
    /\ missed \subseteq Dims \X StreamChunks \X Blocks
    /\ stale \subseteq Sessions \X StreamChunks \X Blocks

Init ==
    /\ block = [d \in Dims |-> [c \in StreamChunks |-> [b \in Blocks |-> 0]]]
    /\ ready = [d \in Dims |-> {}]
    /\ chunkBlockChanges = [d \in Dims |-> [c \in StreamChunks |-> Nothing]]
    /\ players = {}
    /\ session = << >>
    /\ chunkSessions = [d \in Dims |-> [c \in StreamChunks |-> {}]]
    /\ tickPackets = [d \in Dims |-> [c \in StreamChunks |-> NoJob]]
    /\ jobs = [j \in Jobs |-> Nothing]
    /\ inFlight = [s \in Sessions |-> [c \in StreamChunks |-> NoJob]]
    /\ subRegionFlight = [s \in Sessions |-> <<>>]
    /\ pc = "broadcast"
    /\ cur = NoSession
    /\ todo = {}
    /\ view = [s \in Sessions |-> [c \in StreamChunks |-> NoChunk]]
    /\ missed = {}
    /\ stale = {}

-----------------------------------------------------------------------------
(* The compression threads.  A job reads the live chunk block by block     *)
(* while the main thread may be changing it.                               *)

JobsOf(flight, packets) ==
    {flight[s][c] : s \in Sessions, c \in StreamChunks}
        \cup {packets[d][c] : d \in Dims, c \in StreamChunks}

\* A job nobody refers to any more has no effect; its identity is free again.
DropJobs(flight, packets) ==
    jobs' = [j \in Jobs |-> IF j \in JobsOf(flight, packets) THEN jobs[j] ELSE Nothing]

Done(read, box) == DOMAIN read = box

\* The world and chunk a job was submitted for.
IsJobFor(j, d, c) ==
    \/ tickPackets[d][c] = j
    \/ \E s \in players : session[s].dimension = d /\ inFlight[s][c] = j

ReadBlock(j, b) ==
    /\ b \notin DOMAIN jobs[j]
    /\ \E d \in Dims, c \in StreamChunks :
        /\ IsJobFor(j, d, c)
        /\ jobs' = [jobs EXCEPT ![j] = Put(@, b, block[d][c][b])]
    /\ UNCHANGED <<worldVars, chunkBlockChanges, players, session, chunkSessions,
                   tickPackets, inFlight, subRegionFlight, tickVars, clientVars>>

ReadSubRegion(s, i, b) ==
    /\ i \in DOMAIN subRegionFlight[s]
    /\ LET job == subRegionFlight[s][i]
       IN  /\ b \in job.box \ DOMAIN job.read
           /\ subRegionFlight' = [subRegionFlight EXCEPT ![s][i].read =
                                     Put(@, b, block[job.dim][job.chunk][b])]
    /\ UNCHANGED <<worldVars, chunkBlockChanges, players, session, chunkSessions,
                   tickPackets, jobs, inFlight, tickVars, clientVars>>

\* Slip: the upper corner is not clamped to the chunk.
BoundingBoxPast(changes) ==
    {b \in 0..Cardinality(Blocks) : \E low, high \in changes : low <= b /\ b <= high + 1}

\* The bounding box of a set of changes.
BoundingBox(changes) ==
    {b \in Blocks : \E low, high \in changes : low <= b /\ b <= high}

SubRegionJob(d, c, changes) ==
    [chunk |-> c, dim |-> d, box |-> BoundingBox(changes), read |-> Nothing]

\* Blocks of a chunk that a job still in flight for the session covers.
Covered(s, c) ==
    UNION {subRegionFlight[s][i].box :
              i \in {k \in DOMAIN subRegionFlight[s] : subRegionFlight[s][k].chunk = c}}

\* Blocks of these that a job still in flight for one of the sessions will
\* write once more.
Overtaken(to, c, blocks) == {t \in to \X {c} \X blocks : t[3] \in Covered(t[1], c)}

Missed(to, d, c) == {t \in to \X {c} \X Blocks : <<d, c, t[3]>> \in missed}

-----------------------------------------------------------------------------
(* The world.                                                              *)

\* onBlockUpdate: a change is remembered for the broadcast when someone has the
\* chunk or waits for it.
Interested(d, c) ==
    \/ chunkSessions[d][c] # {}
    \/ \E s \in players : session[s].dimension = d /\ c \in session[s].sentChunks

SetBlock(d, c, b) ==
    /\ pc \in {"packets", "world"}
    /\ c \in ready[d]
    /\ block[d][c][b] < MaxChanges
    /\ block' = [block EXCEPT ![d][c][b] = @ + 1]
    /\ chunkBlockChanges' =
           IF Interested(d, c)
           THEN [chunkBlockChanges EXCEPT ![d][c] = Put(@, b, block'[d][c][b])]
           ELSE chunkBlockChanges
    /\ missed' = IF Interested(d, c) THEN missed \ {<<d, c, b>>} ELSE missed \cup {<<d, c, b>>}
    /\ UNCHANGED <<ready, players, session, chunkSessions, senderVars, tickVars, clientVars>>

\* A chunk gets ready, or leaves the world when no player is near it.
ChunkReady(d, c) ==
    /\ pc = "world"
    /\ IF c \in ready[d]
       THEN /\ \A s \in players : session[s].dimension = d => c \notin session[s].range
            /\ ready' = [ready EXCEPT ![d] = @ \ {c}]
       ELSE ready' = [ready EXCEPT ![d] = @ \cup {c}]
    /\ UNCHANGED <<block, missed, chunkBlockChanges, players, session, chunkSessions, senderVars,
                   tickVars, clientVars>>

-----------------------------------------------------------------------------
(* Sessions.                                                               *)

IndexRemove(index, s, d, gone) ==
    [index EXCEPT ![d] = [c \in StreamChunks |-> IF c \in gone THEN @[c] \ {s} ELSE @[c]]]

\* Slip: the session is removed after it got its new dimension.
IndexRemoveSessionAfter(s, d) == IndexRemove(chunkSessions, s, d, session[s].flushedChunks)

\* The index after the session left its world for dimension d.
IndexRemoveSession(s, d) ==
    IndexRemove(chunkSessions, s, session[s].dimension, session[s].flushedChunks)

\* Accepted and logged in: the first visit finds it waiting for spawn chunks.
Join(s, d, range) ==
    /\ pc = "visit"
    /\ todo = players
    /\ s \notin players
    /\ players' = players \cup {s}
    /\ todo' = todo \cup {s}
    /\ session' = Put(session, s, FreshSession(d, range))
    /\ UNCHANGED <<worldVars, chunkBlockChanges, chunkSessions, senderVars, pc, cur,
                   clientVars>>

Goto(phase) == pc' = phase /\ UNCHANGED <<cur, todo>>

Visit(s) ==
    /\ pc = "visit"
    /\ s \in todo
    /\ cur' = s
    /\ todo' = todo \ {s}
    /\ pc' = "packets"
    /\ UNCHANGED <<worldVars, chunkBlockChanges, players, session, chunkSessions,
                   senderVars, clientVars>>

Move(range) ==
    /\ pc = "packets"
    /\ session' = [session EXCEPT ![cur].range = range]
    /\ Goto("enqueue")
    /\ UNCHANGED <<worldVars, chunkBlockChanges, players, chunkSessions, senderVars,
                   clientVars>>

\* A kick, a lost connection: writes are skipped from here on.
Disconnect(s) ==
    /\ pc \in {"packets", "world"}
    /\ s \in players
    /\ session[s].connected
    /\ session' = [session EXCEPT ![s].connected = FALSE]
    /\ UNCHANGED <<worldVars, chunkBlockChanges, players, chunkSessions, senderVars,
                   tickVars, clientVars>>

\* SendPlayerToDimension, Respawn: a command of the console or of the visited
\* session, which may name another one, or an entity in a portal; not for a
\* session that waits for its chunks.  The client forgets the world it showed.
ResetDimensionState(s, d, range) ==
    /\ \/ pc \in {"packets", "world"}
       \/ pc = "visit" /\ todo = players
    /\ s \in players
    /\ ~session[s].waiting
    /\ d # session[s].dimension
    /\ chunkSessions' = IndexRemoveSession(s, d)
    /\ session' = [session EXCEPT ![s] =
           [FreshSession(d, range) EXCEPT !.connected = session[s].connected]]
    /\ inFlight' = [inFlight EXCEPT ![s] = [c \in StreamChunks |-> NoJob]]
    /\ subRegionFlight' = [subRegionFlight EXCEPT ![s] = <<>>]
    /\ DropJobs(inFlight', tickPackets)
    /\ IF session[s].connected
       THEN view' = [view EXCEPT ![s] = [c \in StreamChunks |-> NoChunk]]
       ELSE UNCHANGED view
    /\ stale' = {t \in stale : t[1] # s}
    /\ UNCHANGED <<worldVars, chunkBlockChanges, players, tickPackets, tickVars>>

-----------------------------------------------------------------------------
(* ChunkSender.                                                            *)

\* Slip: a cancelled chunk still counts as sent.
SentInRangeOrWaiting(s) ==
    session[s].sentChunks \ (session[s].flushedChunks \ session[s].range)

SentInRange(s) == session[s].sentChunks \cap session[s].range

\* The first half of Enqueue: what is out of range is taken from the client and
\* from the queue.
UnloadFar ==
    /\ pc = "enqueue"
    /\ LET me   == session[cur]
           gone == me.sentChunks \ me.range
       IN  /\ session' = [session EXCEPT
                  ![cur].sentChunks = SentInRange(cur),
                  ![cur].flushedChunks = @ \ gone,
                  ![cur].newlyUnloaded = gone,
                  ![cur].pendingBlockChanges =
                      [c \in StreamChunks |-> IF c \in gone THEN {} ELSE @[c]]]
           /\ inFlight' = [inFlight EXCEPT ![cur] =
                  [c \in StreamChunks |-> IF c \in me.range THEN @[c] ELSE NoJob]]
           /\ IF me.connected
              THEN view' = [view EXCEPT ![cur] =
                       [c \in StreamChunks |-> IF c \in gone THEN NoChunk ELSE @[c]]]
              ELSE UNCHANGED view
           /\ stale' = {t \in stale : t[1] # cur \/ t[2] \notin gone}
    /\ DropJobs(inFlight', tickPackets)
    /\ Goto("flush")
    /\ UNCHANGED <<worldVars, chunkBlockChanges, players, chunkSessions, tickPackets,
                   subRegionFlight>>

Queued(s) == {c \in StreamChunks : inFlight[s][c] # NoJob}

CanSend(c) ==
    LET me == session[cur]
    IN  /\ c \in (me.range \cap ready[me.dimension]) \ me.sentChunks
        /\ Cardinality(Queued(cur)) < BatchSize

\* One chunk of the second half; a job of this tick for the same chunk is shared.
Enqueue(c) ==
    /\ pc = "flush"
    /\ CanSend(c)
    /\ LET d == session[cur].dimension
           free == Jobs \ JobsOf(inFlight, tickPackets)
       IN  \E j \in Jobs :
            /\ IF tickPackets[d][c] # NoJob
               THEN /\ j = tickPackets[d][c]
                    /\ UNCHANGED tickPackets
                    /\ stale' = stale \cup Missed({cur}, d, c)
               ELSE /\ j \in free /\ \A k \in free : j <= k
                    /\ tickPackets' = [tickPackets EXCEPT ![d][c] = j]
                    /\ UNCHANGED stale
            /\ inFlight' = [inFlight EXCEPT ![cur][c] = j]
    /\ session' = [session EXCEPT ![cur].sentChunks = @ \cup {c}]
    /\ UNCHANGED <<worldVars, chunkBlockChanges, players, chunkSessions, jobs,
                   subRegionFlight, tickVars, view>>

ChunkDone(c) == inFlight[cur][c] # NoJob /\ Done(jobs[inFlight[cur][c]], Blocks)

\* The updates that waited for the chunk become a sub-region job.
WaitingUpdates(s, c) ==
    IF session[s].pendingBlockChanges[c] = {} THEN subRegionFlight[s]
    ELSE Append(subRegionFlight[s],
                SubRegionJob(session[s].dimension, c, session[s].pendingBlockChanges[c]))

\* Flush: a compressed chunk is written to the stream.
FlushChunk(c) ==
    /\ pc = "flush"
    /\ \A e \in StreamChunks : ~CanSend(e)
    /\ ChunkDone(c)
    /\ subRegionFlight' = [subRegionFlight EXCEPT ![cur] = WaitingUpdates(cur, c)]
    /\ session' = [session EXCEPT
           ![cur].flushedChunks = @ \cup {c},
           ![cur].newlyFlushed = @ \cup {c},
           ![cur].pendingBlockChanges[c] = {}]
    /\ IF session[cur].connected
       THEN /\ view' = [view EXCEPT ![cur][c] = jobs[inFlight[cur][c]]]
            /\ stale' = stale \cup Overtaken({cur}, c, Blocks)
       ELSE UNCHANGED clientVars
    /\ inFlight' = [inFlight EXCEPT ![cur][c] = NoJob]
    /\ DropJobs(inFlight', tickPackets)
    /\ UNCHANGED <<worldVars, chunkBlockChanges, players, chunkSessions, tickPackets,
                   tickVars>>

FlushDone ==
    /\ pc = "flush"
    /\ \A c \in StreamChunks : ~CanSend(c) /\ ~ChunkDone(c)
    /\ Goto("drain")
    /\ UNCHANGED <<worldVars, chunkBlockChanges, players, session, chunkSessions,
                   senderVars, clientVars>>

SubRegionReady ==
    /\ subRegionFlight[cur] # <<>>
    /\ Done(Head(subRegionFlight[cur]).read, Head(subRegionFlight[cur]).box)

\* A compressed sub-region is written, in submission order; a client that has
\* not got the chunk ignores it.
FlushSubRegion ==
    /\ pc = "drain"
    /\ SubRegionReady
    /\ subRegionFlight' = [subRegionFlight EXCEPT ![cur] = Tail(@)]
    /\ LET job == Head(subRegionFlight[cur])
       IN  IF session[cur].connected /\ view[cur][job.chunk] # NoChunk
           THEN view' = [view EXCEPT ![cur][job.chunk] = Over(job.read, @)]
           ELSE UNCHANGED view
    /\ UNCHANGED <<worldVars, chunkBlockChanges, players, session, chunkSessions,
                   tickPackets, jobs, inFlight, tickVars, stale>>

\* WaitForSpawnChunks lets the player in once the chunks around are written, and
\* after a portal was found or built, which may take longer.
HasRange(s) == session[s].range \subseteq session[s].flushedChunks

\* Flush returns, and the tick brings the index up to date.
IndexUpdate ==
    /\ pc = "drain"
    /\ ~SubRegionReady
    /\ LET me == session[cur]
           d  == me.dimension
           added == [chunkSessions EXCEPT ![d] =
               [c \in StreamChunks |-> IF c \in me.newlyFlushed THEN @[c] \cup {cur} ELSE @[c]]]
       IN  chunkSessions' = IndexRemove(added, cur, d, me.newlyUnloaded)
    /\ \E waiting \in {session[cur].waiting, session[cur].waiting /\ ~HasRange(cur)} :
           session' = [session EXCEPT ![cur].waiting = waiting,
                           ![cur].newlyFlushed = {}, ![cur].newlyUnloaded = {}]
    /\ pc' = "visit"
    /\ cur' = NoSession
    /\ UNCHANGED <<todo, worldVars, chunkBlockChanges, players, senderVars, clientVars>>

WorldsTick ==
    /\ pc = "visit"
    /\ todo = {}
    /\ Goto("world")
    /\ UNCHANGED <<worldVars, chunkBlockChanges, players, session, chunkSessions,
                   senderVars, clientVars>>

WorldsDone ==
    /\ pc = "world"
    /\ Goto("broadcast")
    /\ UNCHANGED <<worldVars, chunkBlockChanges, players, session, chunkSessions,
                   senderVars, clientVars>>

-----------------------------------------------------------------------------
(* ChunkBroadcaster and the end of the tick.                               *)

\* Slip: sessions that wait for the chunk are not told.
SentOnlyNone(d, c) == {}

\* Sessions of the world that wait for the chunk.
SentOnly(d, c) ==
    {s \in players : /\ session[s].dimension = d
                     /\ c \in session[s].sentChunks \ session[s].flushedChunks}

\* The changes of one chunk: queued for the sessions that wait for it; for those
\* that have it, a packet with the new blocks or a job for the bounding box.
BroadcastBlockChanges(d, c) ==
    /\ pc = "broadcast"
    /\ LET changes == chunkBlockChanges[d][c]
           changed == DOMAIN changes
           has     == chunkSessions[d][c]
           told    == {s \in has : session[s].connected}
       IN  /\ changed # {}
           /\ session' = [s \in players |->
                  IF s \in SentOnly(d, c)
                  THEN [session[s] EXCEPT !.pendingBlockChanges[c] = @ \cup changed]
                  ELSE session[s]]
           /\ IF Cardinality(changed) < SubRegionMin
              THEN /\ view' = [s \in Sessions |->
                         IF s \in told THEN [view[s] EXCEPT ![c] = Over(changes, @)]
                         ELSE view[s]]
                   /\ stale' = (stale \ (told \X {c} \X changed))
                                    \cup Overtaken(told, c, changed) \cup Missed(told, d, c)
                   /\ UNCHANGED subRegionFlight
              ELSE /\ subRegionFlight' = [s \in Sessions |->
                         IF s \in has
                         THEN Append(subRegionFlight[s], SubRegionJob(d, c, changed))
                         ELSE subRegionFlight[s]]
                   /\ UNCHANGED clientVars
    /\ chunkBlockChanges' = [chunkBlockChanges EXCEPT ![d][c] = Nothing]
    /\ UNCHANGED <<worldVars, players, chunkSessions, tickPackets, jobs, inFlight, tickVars>>

\* The index without the sessions that are removed.
IndexOfPlayers(gone) ==
    [d \in Dims |-> [c \in StreamChunks |->
        {s \in chunkSessions[d][c] :
            ~(s \in gone /\ session[s].dimension = d /\ c \in session[s].flushedChunks)}]]

\* DisconnectClients, and the BeginTick of the next tick.
EndTick ==
    /\ pc = "broadcast"
    /\ \A d \in Dims, c \in StreamChunks : chunkBlockChanges[d][c] = Nothing
    /\ LET gone == {s \in players : ~session[s].connected}
       IN  /\ players' = players \ gone
           /\ chunkSessions' = IndexOfPlayers(gone)
           /\ inFlight' = [s \in Sessions |-> IF s \in gone THEN [c \in StreamChunks |-> NoJob]
                                              ELSE inFlight[s]]
           /\ subRegionFlight' = [s \in Sessions |-> IF s \in gone THEN <<>>
                                                     ELSE subRegionFlight[s]]
           /\ session' = [s \in players \ gone |-> session[s]]
           /\ view' = [s \in Sessions |-> IF s \in gone THEN [c \in StreamChunks |-> NoChunk]
                                          ELSE view[s]]
           /\ stale' = {t \in stale : t[1] \notin gone}
    /\ tickPackets' = [d \in Dims |-> [c \in StreamChunks |-> NoJob]]
    /\ DropJobs(inFlight', tickPackets')
    /\ missed' = {}
    /\ pc' = "visit"
    /\ todo' = players'
    /\ UNCHANGED <<block, ready, chunkBlockChanges, cur>>

-----------------------------------------------------------------------------
(* The specification.                                                      *)

Pool ==
    \/ \E j \in Jobs, b \in Blocks : ReadBlock(j, b)
    \/ \E s \in Sessions, b \in Blocks : \E i \in DOMAIN subRegionFlight[s] :
           ReadSubRegion(s, i, b)

Environment ==
    \/ \E d \in Dims, c \in StreamChunks, b \in Blocks : SetBlock(d, c, b)
    \/ \E d \in Dims, c \in StreamChunks : ChunkReady(d, c)
    \/ \E s \in Sessions, d \in Dims, range \in SUBSET StreamChunks : Join(s, d, range)
    \/ \E s \in Sessions : Disconnect(s)
    \/ \E s \in Sessions, d \in Dims, range \in SUBSET StreamChunks :
           ResetDimensionState(s, d, range)

Tick ==
    \/ \E s \in Sessions : Visit(s)
    \/ \E range \in SUBSET StreamChunks : Move(range)
    \/ UnloadFar
    \/ \E c \in StreamChunks : Enqueue(c) \/ FlushChunk(c)
    \/ FlushDone
    \/ FlushSubRegion
    \/ IndexUpdate
    \/ WorldsTick
    \/ WorldsDone
    \/ \E d \in Dims, c \in StreamChunks : BroadcastBlockChanges(d, c)
    \/ EndTick

Next == Pool \/ Environment \/ Tick

Spec == Init /\ [][Next]_vars

\* The server keeps ticking and the compression threads keep working.
Fairness == WF_vars(Tick) /\ WF_vars(Pool)

FairSpec == Spec /\ Fairness

-----------------------------------------------------------------------------
(* Properties.                                                             *)

\* The visited session is between Enqueue and the update of the index.
Settled(s) == ~(s = cur /\ pc \in {"flush", "drain"})

(* The index says exactly which sessions have a chunk of a world: one too many
   is a pointer to a session that is gone or a block of another world shown to
   a player, one too few a player who misses updates (server.cpp,
   IndexAddChunk, IndexRemoveSession, ResetDimensionState). *)
IndexExact ==
    \A d \in Dims, c \in StreamChunks, s \in Sessions : Settled(s) =>
        (s \in chunkSessions[d][c] <=>
            /\ s \in players
            /\ session[s].dimension = d
            /\ c \in session[s].flushedChunks)

(* A chunk is marked sent exactly while the client has it or a job for it is in
   the session's queue: otherwise it would never be sent, since Enqueue skips
   what is in sentChunks (chunk_sender.h). *)
SentIsOwed ==
    \A s \in players : \A c \in StreamChunks :
        /\ (c \in session[s].sentChunks \ session[s].flushedChunks) <=> (inFlight[s][c] # NoJob)
        /\ session[s].pendingBlockChanges[c] # {} => inFlight[s][c] # NoJob
        /\ c \in session[s].flushedChunks => c \in session[s].sentChunks

\* An update for the block is still on its way to the session.
UpdateDue(s, c, b) ==
    \/ b \in DOMAIN chunkBlockChanges[session[s].dimension][c]
    \/ b \in Covered(s, c)

(* A client that has a chunk shows every block of it as the world has it, or an
   update for the block is on its way, except for the blocks for which a later
   packet overtook a sub-region (chunk_broadcaster.cpp, chunk_sender.h). *)
ViewCurrent ==
    \A s \in players : session[s].connected =>
        \A c \in session[s].flushedChunks : \A b \in Blocks :
            \/ view[s][c][b] = block[session[s].dimension][c][b]
            \/ UpdateDue(s, c, b)
            \/ <<s, c, b>> \in stale

(* The updates of a chunk reach the client in order, chunk_sender.h:220 "data in
   the same Tick, so the client receives them in order": a block the client
   shows is never replaced by an older content of it. *)
UpdatesInOrder ==
    [][\A s \in Sessions, c \in StreamChunks : view[s][c] # NoChunk /\ view'[s][c] # NoChunk =>
          \A b \in Blocks : view'[s][c][b] >= view[s][c][b]]_vars

(* A player who stays near a generated chunk gets it. *)
NearbyIsSent ==
    \A s \in Sessions, c \in StreamChunks :
        <>[](/\ s \in players
             /\ c \in session[s].range \cap ready[session[s].dimension])
            => <>[](s \in players /\ c \in session[s].flushedChunks)

=============================================================================
