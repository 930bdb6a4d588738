--------------------------- MODULE ChunkStreamProofs ---------------------------
(***************************************************************************)
(* Proofs about ChunkStream: the index of the sessions that have a chunk   *)
(* is exact, a chunk that is marked sent is on its way or there, and what  *)
(* a client shows is current, or an update for it is on its way.           *)
(*                                                                         *)
(* A client can only be current if everything on its way to it is, so the  *)
(* invariant follows a block along its way:                                *)
(*   - a change that waits for the broadcast is the latest, unless a later *)
(*     one was missed because nobody had the chunk (ChangesCurrent);       *)
(*   - what a full-chunk job has read is current, or the change is to be   *)
(*     broadcast, or is with those that wait for the chunk                 *)
(*     (WaitingCurrent); what a job that later sessions may still share    *)
(*     has read, as long as the tick lasts (TickCurrent);                  *)
(*   - what a sub-region has read is current, or the change is to be       *)
(*     broadcast, or a later sub-region covers the block once more         *)
(*     (SubRegionsCurrent): sub-regions arrive in order;                   *)
(*   - what the client shows (ShownCurrent).                               *)
(* A job belongs to one chunk of one world (JobsApart), which needs that a *)
(* free job is nobody's, and a free job has read nothing (FreeIsFresh).    *)
(* A change is broadcast at all because the index, or a session's          *)
(* sentChunks, has everyone who has the chunk or waits for it (IndexInv,   *)
(* SentIsOwed).  Between Enqueue and the end of the visit the index is     *)
(* behind by what newlyFlushed and newlyUnloaded say (IndexBehind).        *)
(***************************************************************************)
EXTENDS ChunkStream, FiniteSetTheorems, TLAPS
-----------------------------------------------------------------------------
(* The invariant.                                                          *)

Flight(s) == 1..Len(subRegionFlight[s])

\* Each chunk counted in the queue of a session is one of finitely many.
QueuesFinite == \A s \in Sessions : IsFiniteSet(Queued(s))

\* A session is visited from its packets to the update of the index.
CurIsVisited ==
    /\ pc \in {"packets", "enqueue", "flush", "drain"} => cur \in players
    /\ pc \in {"visit", "world", "broadcast"} => cur = NoSession

\* What belongs to a session that the server has not: nothing.
OthersAreClean ==
    \A s \in Sessions \ players :
        /\ \A c \in StreamChunks : inFlight[s][c] = NoJob
        /\ subRegionFlight[s] = <<>>
        /\ \A d \in Dims, c \in StreamChunks : s \notin chunkSessions[d][c]

\* The index of a session that is settled, and of the one between its Flush and
\* the update of the index.
IndexSettled(s) ==
    /\ session[s].newlyFlushed = {} /\ session[s].newlyUnloaded = {}
    /\ \A d \in Dims, c \in StreamChunks :
          s \in chunkSessions[d][c] <=> session[s].dimension = d /\ c \in session[s].flushedChunks

IndexBehind(s) ==
    /\ session[s].sentChunks \subseteq session[s].range
    /\ session[s].newlyUnloaded \cap session[s].range = {}
    /\ \A d \in Dims, c \in StreamChunks : s \in chunkSessions[d][c] => session[s].dimension = d
    /\ \A c \in StreamChunks :
          c \in session[s].flushedChunks <=>
              /\ c \notin session[s].newlyUnloaded
              /\ \/ c \in session[s].newlyFlushed
                 \/ s \in chunkSessions[session[s].dimension][c]

IndexInv == \A s \in players : IF Settled(s) THEN IndexSettled(s) ELSE IndexBehind(s)

FlushedIsShown ==
    \A s \in players : session[s].connected =>
        \A c \in session[s].flushedChunks : view[s][c] # NoChunk

\* A job reads one chunk of one world, and a free one has read nothing.
JobsApart ==
    \A j \in Jobs : \A d, e \in Dims, c, k \in StreamChunks :
        IsJobFor(j, d, c) /\ IsJobFor(j, e, k) => d = e /\ c = k

FreeIsFresh == \A j \in Jobs : j \notin JobsOf(inFlight, tickPackets) => jobs[j] = Nothing

SubRegionsOwn ==
    \A s \in players : \A i \in Flight(s) :
        /\ subRegionFlight[s][i].dim = session[s].dimension
        /\ DOMAIN subRegionFlight[s][i].read \subseteq subRegionFlight[s][i].box

TypeInv ==
    /\ TypeOK
    /\ QueuesFinite
    /\ CurIsVisited
    /\ OthersAreClean
    /\ IndexInv
    /\ SentIsOwed
    /\ FlushedIsShown
    /\ SubRegionsOwn

\* The change of a block that waits for the broadcast is the latest one.
ChangesCurrent ==
    \A d \in Dims, c \in StreamChunks : \A b \in DOMAIN chunkBlockChanges[d][c] :
        chunkBlockChanges[d][c][b] = block[d][c][b] \/ <<d, c, b>> \in missed

Broadcast(d, c, b) == b \in DOMAIN chunkBlockChanges[d][c]

\* What the jobs of a tick read.
TickCurrent ==
    pc # "broadcast" => \A d \in Dims, c \in StreamChunks :
        tickPackets[d][c] # NoJob =>
            \A b \in DOMAIN jobs[tickPackets[d][c]] :
                \/ jobs[tickPackets[d][c]][b] = block[d][c][b]
                \/ Broadcast(d, c, b)
                \/ <<d, c, b>> \in missed

\* What the job a session waits for has read.
WaitingCurrent(s) ==
    \A c \in StreamChunks : inFlight[s][c] # NoJob =>
        \A b \in DOMAIN jobs[inFlight[s][c]] :
            \/ jobs[inFlight[s][c]][b] = block[session[s].dimension][c][b]
            \/ Broadcast(session[s].dimension, c, b)
            \/ b \in session[s].pendingBlockChanges[c]
            \/ <<s, c, b>> \in stale

\* A later sub-region of the chunk covers the block too.
CoveredAgain(s, i, b) ==
    \E k \in Flight(s) : /\ k > i
                         /\ subRegionFlight[s][k].chunk = subRegionFlight[s][i].chunk
                         /\ b \in subRegionFlight[s][k].box

\* What the sub-regions in flight have read of the chunks the client has.
ReadCurrent(s, job, b) ==
    \/ job.read[b] = block[job.dim][job.chunk][b]
    \/ Broadcast(job.dim, job.chunk, b)
    \/ <<s, job.chunk, b>> \in stale

SubRegionCurrent(s, i) ==
    subRegionFlight[s][i].chunk \in session[s].flushedChunks =>
        \A b \in DOMAIN subRegionFlight[s][i].read :
            ReadCurrent(s, subRegionFlight[s][i], b) \/ CoveredAgain(s, i, b)

SubRegionsCurrent(s) == \A i \in Flight(s) : SubRegionCurrent(s, i)

\* What the client shows.
ShownCurrent(s) ==
    \A c \in session[s].flushedChunks : \A b \in Blocks :
        \/ view[s][c][b] = block[session[s].dimension][c][b]
        \/ UpdateDue(s, c, b)
        \/ <<s, c, b>> \in stale

StreamInv ==
    /\ TypeInv
    /\ JobsApart
    /\ FreeIsFresh
    /\ ChangesCurrent
    /\ TickCurrent
    /\ \A s \in players : WaitingCurrent(s)
    /\ \A s \in players : session[s].connected => SubRegionsCurrent(s) /\ ShownCurrent(s)


-----------------------------------------------------------------------------
(* What is read of a chunk.                                                *)

LEMMA PutReads ==
    ASSUME NEW f \in Reads, NEW b \in Blocks, NEW n \in Content
    PROVE  /\ Put(f, b, n) \in Reads
           /\ DOMAIN Put(f, b, n) = DOMAIN f \cup {b}
           /\ Put(f, b, n)[b] = n
           /\ \A e \in DOMAIN f \ {b} : Put(f, b, n)[e] = f[e]
<1>1. PICK F \in SUBSET Blocks : f \in [F -> Content]
  BY DEF Reads
<1>2. F \cup {b} \in SUBSET Blocks
  OBVIOUS
<1>3. Put(f, b, n) \in [F \cup {b} -> Content]
  BY <1>1 DEF Put
<1>4. Put(f, b, n) \in Reads
  BY <1>2, <1>3 DEF Reads
<1> QED BY <1>1, <1>4 DEF Put

LEMMA ReadsDomain ==
    ASSUME NEW f \in Reads
    PROVE  /\ DOMAIN f \subseteq Blocks
           /\ \A b \in DOMAIN f : f[b] \in Content
           /\ DOMAIN f = Blocks => f \in [Blocks -> Content] /\ f # NoChunk
           /\ DOMAIN f = {} => f = Nothing
<1>1. PICK F \in SUBSET Blocks : f \in [F -> Content]
  BY DEF Reads
<1>2. DOMAIN f = Blocks => f \in [Blocks -> Content] /\ f # NoChunk
  BY <1>1, NoChunkType DEF Content
<1> QED BY <1>1, <1>2 DEF Nothing

LEMMA NothingRead == Nothing \in Reads /\ DOMAIN Nothing = {}
<1>1. Nothing \in [{} -> Content] /\ {} \in SUBSET Blocks /\ DOMAIN Nothing = {}
  BY DEF Nothing
<1> QED BY <1>1 DEF Reads

LEMMA OverShown ==
    ASSUME NEW f \in Reads, NEW g \in [Blocks -> Content]
    PROVE  /\ Over(f, g) \in [Blocks -> Content] /\ Over(f, g) # NoChunk
           /\ \A b \in Blocks : Over(f, g)[b] = IF b \in DOMAIN f THEN f[b] ELSE g[b]
<1>1. PICK F \in SUBSET Blocks : f \in [F -> Content]
  BY DEF Reads
<1>2. Over(f, g) \in [Blocks -> Content]
  BY <1>1 DEF Over
<1> QED BY <1>1, <1>2, NoChunkType DEF Over, Content

(* The box of some blocks has them all. *)
LEMMA BoxHasThem ==
    ASSUME NEW changes \in SUBSET Blocks
    PROVE  BoundingBox(changes) \subseteq Blocks /\ changes \subseteq BoundingBox(changes)
BY BlocksType DEF BoundingBox

LEMMA NewJobType ==
    ASSUME NEW d \in Dims, NEW c \in StreamChunks, NEW changes \in SUBSET Blocks
    PROVE  /\ SubRegionJob(d, c, changes) \in SubRegions
           /\ SubRegionJob(d, c, changes).dim = d
           /\ SubRegionJob(d, c, changes).chunk = c
           /\ SubRegionJob(d, c, changes).read = Nothing
           /\ changes \subseteq SubRegionJob(d, c, changes).box
BY BoxHasThem, NothingRead DEF SubRegionJob, SubRegions

LEMMA CoveredBy ==
    ASSUME NEW s \in Sessions, NEW c, subRegionFlight \in [Sessions -> Seq(SubRegions)]
    PROVE  /\ DOMAIN subRegionFlight[s] = Flight(s)
           /\ \A b : b \in Covered(s, c) <=>
                  \E i \in Flight(s) : /\ subRegionFlight[s][i].chunk = c
                                       /\ b \in subRegionFlight[s][i].box
<1>1. DOMAIN subRegionFlight[s] = Flight(s)
  BY DEF Flight
<1> QED BY <1>1 DEF Covered

(* The jobs in the queues, and those that threads may still read for. *)
LEMMA JobsReferred ==
    /\ \A s \in Sessions, c \in StreamChunks : inFlight[s][c] \in JobsOf(inFlight, tickPackets)
    /\ \A d \in Dims, c \in StreamChunks : tickPackets[d][c] \in JobsOf(inFlight, tickPackets)
BY DEF JobsOf

LEMMA SessionFields ==
    ASSUME TypeOK, NEW s \in players
    PROVE  /\ s \in Sessions /\ session[s] \in SessionType
           /\ session[s].dimension \in Dims /\ session[s].connected \in BOOLEAN
           /\ session[s].sentChunks \subseteq StreamChunks
           /\ session[s].flushedChunks \subseteq StreamChunks
           /\ session[s].range \subseteq StreamChunks
           /\ session[s].pendingBlockChanges \in [StreamChunks -> SUBSET Blocks]
BY DEF TypeOK, SessionType

\* A chunk's queue and its client, as far as the invariant looks at them.
SameSession(s) ==
    /\ session'[s].dimension = session[s].dimension
    /\ session'[s].sentChunks = session[s].sentChunks
    /\ session'[s].flushedChunks = session[s].flushedChunks
    /\ session'[s].pendingBlockChanges = session[s].pendingBlockChanges
    /\ session'[s].connected => session[s].connected

(* A step that neither reads, writes nor queues anything. *)
LEMMA QuietStep ==
    ASSUME StreamInv, TypeOK', CurIsVisited', OthersAreClean', IndexInv',
           UNCHANGED <<block, missed, chunkBlockChanges, players, senderVars, clientVars>>,
           \A s \in players : SameSession(s),
           pc' = "broadcast" \/ pc # "broadcast"
    PROVE  StreamInv'
<1> USE DEF senderVars, clientVars
<1>1. TypeInv'
  BY DEF StreamInv, TypeInv, QueuesFinite, Queued, SentIsOwed, FlushedIsShown, SubRegionsOwn,
     Flight, SameSession
<1>2. JobsApart' /\ FreeIsFresh'
  BY DEF StreamInv, JobsApart, IsJobFor, FreeIsFresh, JobsOf, SameSession
<1>3. ChangesCurrent' /\ TickCurrent'
  BY DEF StreamInv, ChangesCurrent, TickCurrent, Broadcast
<1>4. ASSUME NEW s \in players PROVE WaitingCurrent(s)'
  BY DEF StreamInv, WaitingCurrent, Broadcast, SameSession
<1>5. ASSUME NEW s \in players, session'[s].connected
      PROVE  SubRegionsCurrent(s)' /\ ShownCurrent(s)'
  <2>1. SameSession(s) /\ SubRegionsCurrent(s) /\ ShownCurrent(s)
    BY <1>5 DEF StreamInv, SameSession
  <2>2. SubRegionsCurrent(s)'
    BY <2>1 DEF SubRegionsCurrent, SubRegionCurrent, ReadCurrent, CoveredAgain, Broadcast, Flight,
       SameSession
  <2>3. ShownCurrent(s)'
    BY <2>1 DEF ShownCurrent, UpdateDue, Broadcast, Covered, SameSession
  <2> QED BY <2>2, <2>3
<1> QED BY <1>1, <1>2, <1>3, <1>4, <1>5 DEF StreamInv

(* The phases of the tick, and what changes of a session without a packet. *)
LEMMA ControlStep ==
    ASSUME StreamInv,
           \/ \E s \in Sessions : Visit(s)
           \/ FlushDone \/ WorldsTick \/ WorldsDone
           \/ \E d \in Dims, c \in StreamChunks : ChunkReady(d, c)
    PROVE  StreamInv'
<1> USE DEF Goto, worldVars, tickVars
<1>1. /\ UNCHANGED <<block, missed, chunkBlockChanges, players, session, chunkSessions,
                     senderVars, clientVars>>
      /\ \A s \in players : SameSession(s)
      /\ pc' = "broadcast" \/ pc # "broadcast"
  BY DEF Visit, FlushDone, WorldsTick, WorldsDone, ChunkReady, SameSession
<1>2. TypeOK /\ CurIsVisited /\ OthersAreClean /\ IndexInv
  BY DEF StreamInv, TypeInv
<1>3. OthersAreClean'
  BY <1>1, <1>2 DEF OthersAreClean, senderVars
<1>4. CASE \E s \in Sessions : Visit(s)
  <2>1. PICK s \in players : pc = "visit" /\ cur' = s /\ pc' = "packets" /\ todo' = todo \ {s}
                             /\ ready' = ready
    BY <1>2, <1>4 DEF Visit, TypeOK
  <2>2. TypeOK'
    BY <1>1, <1>2, <2>1 DEF TypeOK, senderVars, clientVars, Phases
  <2>3. CurIsVisited' /\ IndexInv'
    BY <1>1, <1>2, <2>1 DEF CurIsVisited, IndexInv, Settled, IndexSettled
  <2> QED BY <1>1, <1>3, <2>2, <2>3, QuietStep
<1>5. CASE FlushDone
  <2>1. pc = "flush" /\ pc' = "drain" /\ UNCHANGED <<ready, cur, todo>>
    BY <1>5 DEF FlushDone
  <2>2. TypeOK'
    BY <1>1, <1>2, <2>1 DEF TypeOK, senderVars, clientVars, Phases
  <2>3. CurIsVisited' /\ IndexInv'
    BY <1>1, <1>2, <2>1 DEF CurIsVisited, IndexInv, Settled, IndexSettled, IndexBehind
  <2> QED BY <1>1, <1>3, <2>2, <2>3, QuietStep
<1>6. CASE WorldsTick \/ WorldsDone
  <2>1. /\ pc \in {"visit", "world"} /\ pc' \in {"world", "broadcast"}
        /\ UNCHANGED <<ready, cur, todo>>
    BY <1>6 DEF WorldsTick, WorldsDone
  <2>2. TypeOK'
    BY <1>1, <1>2, <2>1 DEF TypeOK, senderVars, clientVars, Phases
  <2>3. CurIsVisited' /\ IndexInv'
    BY <1>1, <1>2, <2>1 DEF CurIsVisited, IndexInv, Settled, IndexSettled
  <2> QED BY <1>1, <1>3, <2>2, <2>3, QuietStep
<1>7. CASE \E d \in Dims, c \in StreamChunks : ChunkReady(d, c)
  <2>1. UNCHANGED <<pc, cur, todo>> /\ ready' \in [Dims -> SUBSET StreamChunks]
    <3>1. PICK d \in Dims, c \in StreamChunks :
            \/ ready' = [ready EXCEPT ![d] = @ \ {c}]
            \/ ready' = [ready EXCEPT ![d] = @ \cup {c}]
      BY <1>7 DEF ChunkReady
    <3>2. ready \in [Dims -> SUBSET StreamChunks]
      BY <1>2 DEF TypeOK
    <3> QED BY <1>7, <3>1, <3>2 DEF ChunkReady
  <2>2. TypeOK'
    BY <1>1, <1>2, <2>1 DEF TypeOK, senderVars, clientVars
  <2>3. CurIsVisited' /\ IndexInv'
    BY <1>1, <1>2, <2>1 DEF CurIsVisited, IndexInv, Settled, IndexSettled, IndexBehind
  <2> QED BY <1>1, <1>3, <2>2, <2>3, QuietStep
<1> QED BY <1>4, <1>5, <1>6, <1>7

LEMMA MoveStep ==
    ASSUME StreamInv, NEW range \in SUBSET StreamChunks, Move(range)
    PROVE  StreamInv'
<1>1. TypeOK /\ CurIsVisited /\ OthersAreClean /\ IndexInv
  BY DEF StreamInv, TypeInv
<1>2. /\ UNCHANGED <<block, ready, missed, chunkBlockChanges, players, chunkSessions,
                     senderVars, clientVars, cur, todo>>
      /\ pc = "packets" /\ pc' = "enqueue" /\ cur \in players
      /\ session' = [session EXCEPT ![cur].range = range]
  BY <1>1 DEF Move, Goto, worldVars, CurIsVisited
<1>3. /\ session' \in [players -> SessionType]
      /\ \A s \in players : /\ SameSession(s)
                            /\ session'[s].newlyFlushed = session[s].newlyFlushed
                            /\ session'[s].newlyUnloaded = session[s].newlyUnloaded
  <2>1. session \in [players -> SessionType] /\ session[cur] \in SessionType
    BY <1>1, <1>2 DEF TypeOK
  <2>2. session' \in [players -> SessionType]
    BY <1>2, <2>1 DEF SessionType
  <2>3. ASSUME NEW s \in players, s # cur PROVE session'[s] = session[s]
    BY <1>2, <2>1, <2>3
  <2>4. /\ SameSession(cur)
        /\ session'[cur].newlyFlushed = session[cur].newlyFlushed
        /\ session'[cur].newlyUnloaded = session[cur].newlyUnloaded
    BY <1>2, <2>1 DEF SessionType, SameSession
  <2> QED BY <2>2, <2>3, <2>4 DEF SameSession
<1>4. TypeOK'
  BY <1>1, <1>2, <1>3 DEF TypeOK, senderVars, clientVars, Phases
<1>5. CurIsVisited' /\ OthersAreClean'
  BY <1>1, <1>2 DEF CurIsVisited, OthersAreClean, senderVars
<1>6. IndexInv'
  BY <1>1, <1>2, <1>3 DEF IndexInv, Settled, IndexSettled, SameSession
<1> QED BY <1>2, <1>3, <1>4, <1>5, <1>6, QuietStep

LEMMA DisconnectStep ==
    ASSUME StreamInv, NEW s \in Sessions, Disconnect(s)
    PROVE  StreamInv'
<1>1. TypeOK /\ CurIsVisited /\ OthersAreClean /\ IndexInv
  BY DEF StreamInv, TypeInv
<1>2. /\ UNCHANGED <<block, ready, missed, chunkBlockChanges, players, chunkSessions,
                     senderVars, clientVars, pc, cur, todo>>
      /\ pc \in {"packets", "world"} /\ s \in players
      /\ session' = [session EXCEPT ![s].connected = FALSE]
  BY <1>1 DEF Disconnect, worldVars, tickVars
<1>3. /\ session' \in [players -> SessionType]
      /\ \A t \in players : /\ SameSession(t)
                            /\ session'[t].newlyFlushed = session[t].newlyFlushed
                            /\ session'[t].newlyUnloaded = session[t].newlyUnloaded
  <2>1. session \in [players -> SessionType] /\ session[s] \in SessionType
    BY <1>1, <1>2 DEF TypeOK
  <2>2. session' \in [players -> SessionType]
    BY <1>2, <2>1 DEF SessionType
  <2>3. ASSUME NEW t \in players, t # s PROVE session'[t] = session[t]
    BY <1>2, <2>1, <2>3
  <2>4. /\ SameSession(s)
        /\ session'[s].newlyFlushed = session[s].newlyFlushed
        /\ session'[s].newlyUnloaded = session[s].newlyUnloaded
    BY <1>2, <2>1 DEF SessionType, SameSession
  <2> QED BY <2>2, <2>3, <2>4 DEF SameSession
<1>4. TypeOK'
  BY <1>1, <1>2, <1>3 DEF TypeOK, senderVars, clientVars
<1>5. CurIsVisited' /\ OthersAreClean'
  BY <1>1, <1>2 DEF CurIsVisited, OthersAreClean, senderVars
<1>6. IndexInv'
  BY <1>1, <1>2, <1>3 DEF IndexInv, Settled, IndexSettled, SameSession
<1> QED BY <1>2, <1>3, <1>4, <1>5, <1>6, QuietStep

(* The index catches up with what Enqueue and Flush did. *)
LEMMA IndexUpdateStep ==
    ASSUME StreamInv, IndexUpdate
    PROVE  StreamInv'
<1> DEFINE me == session[cur]
           d  == me.dimension
           added == [chunkSessions EXCEPT ![d] =
               [c \in StreamChunks |-> IF c \in me.newlyFlushed THEN @[c] \cup {cur} ELSE @[c]]]
<1>1. TypeOK /\ CurIsVisited /\ OthersAreClean /\ IndexInv
  BY DEF StreamInv, TypeInv
<1>2. /\ UNCHANGED <<block, ready, missed, chunkBlockChanges, players,
                     senderVars, clientVars, todo>>
      /\ pc = "drain" /\ pc' = "visit" /\ cur \in players /\ cur' = NoSession
      /\ chunkSessions' = IndexRemove(added, cur, d, me.newlyUnloaded)
  BY <1>1 DEF IndexUpdate, worldVars, CurIsVisited
<1>3. PICK waiting \in BOOLEAN :
        session' = [session EXCEPT ![cur].waiting = waiting,
                        ![cur].newlyFlushed = {}, ![cur].newlyUnloaded = {}]
  <2>1. session[cur].waiting \in BOOLEAN
    BY <1>1, <1>2 DEF TypeOK, SessionType
  <2> QED BY <2>1 DEF IndexUpdate
<1>4. /\ session' \in [players -> SessionType]
      /\ \A t \in players : SameSession(t)
      /\ \A t \in players \ {cur} : session'[t] = session[t]
      /\ session'[cur].newlyFlushed = {} /\ session'[cur].newlyUnloaded = {}
  <2>1. session \in [players -> SessionType] /\ session[cur] \in SessionType
    BY <1>1, <1>2 DEF TypeOK
  <2>2. session' \in [players -> SessionType]
    BY <1>2, <1>3, <2>1 DEF SessionType
  <2>3. \A t \in players \ {cur} : session'[t] = session[t]
    BY <1>2, <1>3, <2>1
  <2>4. /\ SameSession(cur)
        /\ session'[cur].newlyFlushed = {} /\ session'[cur].newlyUnloaded = {}
    BY <1>2, <1>3, <2>1 DEF SessionType, SameSession
  <2> QED BY <2>2, <2>3, <2>4 DEF SameSession
<1>5. cur \in Sessions /\ d \in Dims
  BY <1>1, <1>2, SessionFields
<1>6. /\ chunkSessions' \in [Dims -> [StreamChunks -> SUBSET Sessions]]
      /\ \A e \in Dims, c \in StreamChunks, t \in Sessions :
            t \in chunkSessions'[e][c] <=>
                IF t = cur /\ e = d
                THEN (t \in chunkSessions[e][c] \/ c \in me.newlyFlushed) /\ c \notin me.newlyUnloaded
                ELSE t \in chunkSessions[e][c]
  <2>1. chunkSessions \in [Dims -> [StreamChunks -> SUBSET Sessions]]
    BY <1>1 DEF TypeOK
  <2>2. /\ added \in [Dims -> [StreamChunks -> SUBSET Sessions]]
        /\ \A e \in Dims \ {d} : added[e] = chunkSessions[e]
        /\ \A c \in StreamChunks : added[d][c] =
              IF c \in me.newlyFlushed THEN chunkSessions[d][c] \cup {cur} ELSE chunkSessions[d][c]
    BY <1>5, <2>1
  <2> HIDE DEF added
  <2> QED BY <1>2, <1>5, <2>1, <2>2 DEF IndexRemove
<1>7. TypeOK'
  BY <1>1, <1>2, <1>4, <1>6 DEF TypeOK, senderVars, clientVars, Phases
<1>8. CurIsVisited' /\ OthersAreClean'
  BY <1>1, <1>2, <1>6, ZenonT(40) DEF CurIsVisited, OthersAreClean, senderVars
<1>9. IndexInv'
  <2> SUFFICES ASSUME NEW s \in players PROVE IndexSettled(s)'
    BY <1>2 DEF IndexInv, Settled
  <2>0. s \in Sessions
    BY <1>1 DEF TypeOK
  <2>1. CASE s = cur
    <3>1. IndexBehind(s)
      BY <1>1, <1>2, <2>1 DEF IndexInv, Settled
    <3> QED BY <1>4, <1>5, <1>6, <2>0, <2>1, <3>1 DEF IndexSettled, IndexBehind, SameSession
  <2>2. CASE s # cur
    <3>1. IndexSettled(s)
      BY <1>1, <2>2 DEF IndexInv, Settled
    <3> QED BY <1>4, <1>6, <2>0, <2>2, <3>1 DEF IndexSettled
  <2> QED BY <2>1, <2>2
<1> QED BY <1>2, <1>4, <1>7, <1>8, <1>9, QuietStep

-----------------------------------------------------------------------------
(* The compression threads and the world.                                  *)

LEMMA ReadBlockStep ==
    ASSUME StreamInv, NEW j \in Jobs, NEW b \in Blocks, ReadBlock(j, b)
    PROVE  StreamInv'
<1>1. TypeOK /\ OthersAreClean
  BY DEF StreamInv, TypeInv
<1>2. PICK d \in Dims, c \in StreamChunks :
        IsJobFor(j, d, c) /\ jobs' = [jobs EXCEPT ![j] = Put(@, b, block[d][c][b])]
  BY DEF ReadBlock
<1>3. /\ UNCHANGED <<worldVars, chunkBlockChanges, players, session, chunkSessions,
                     tickPackets, inFlight, subRegionFlight, tickVars, clientVars>>
      /\ b \notin DOMAIN jobs[j]
  BY DEF ReadBlock
<1>4. /\ jobs' \in [Jobs -> Reads]
      /\ \A k \in Jobs \ {j} : jobs'[k] = jobs[k]
      /\ DOMAIN jobs'[j] = DOMAIN jobs[j] \cup {b}
      /\ jobs'[j][b] = block[d][c][b]
      /\ \A e \in DOMAIN jobs[j] : jobs'[j][e] = jobs[j][e]
  <2>1. jobs[j] \in Reads /\ block[d][c][b] \in Content /\ jobs \in [Jobs -> Reads]
    BY <1>1 DEF TypeOK
  <2> DEFINE now == block[d][c][b]
  <2>2. jobs'[j] = Put(jobs[j], b, now)
    BY <1>2, <2>1
  <2>3. /\ jobs'[j] \in Reads /\ DOMAIN jobs'[j] = DOMAIN jobs[j] \cup {b}
        /\ jobs'[j][b] = now
        /\ \A e \in DOMAIN jobs[j] \ {b} : jobs'[j][e] = jobs[j][e]
    <3>1. now \in Content
      BY <2>1
    <3> DEFINE old == jobs[j]
               new == jobs'[j]
    <3>2. old \in Reads /\ new = Put(old, b, now)
      BY <2>1, <2>2
    <3> HIDE DEF now, old, new
    <3>3. /\ new \in Reads /\ DOMAIN new = DOMAIN old \cup {b} /\ new[b] = now
          /\ \A e \in DOMAIN old \ {b} : new[e] = old[e]
      <4>1. /\ Put(old, b, now) \in Reads /\ DOMAIN Put(old, b, now) = DOMAIN old \cup {b}
            /\ Put(old, b, now)[b] = now
            /\ \A e \in DOMAIN old \ {b} : Put(old, b, now)[e] = old[e]
        BY <3>1, <3>2, PutReads, ZenonT(40)
      <4> QED BY <3>2, <4>1
    <3> QED BY <3>3 DEF old, new
  <2> QED BY <1>2, <1>3, <2>1, <2>3
<1>5. TypeOK'
  BY <1>1, <1>3, <1>4 DEF TypeOK, worldVars, tickVars, clientVars
<1>6. TypeInv'
  BY <1>3, <1>5 DEF StreamInv, TypeInv, QueuesFinite, Queued, CurIsVisited, OthersAreClean,
     IndexInv, Settled, IndexSettled, IndexBehind, SentIsOwed, FlushedIsShown, SubRegionsOwn,
     Flight, worldVars, tickVars, clientVars
<1>7. JobsApart /\ JobsApart'
  BY <1>3 DEF StreamInv, JobsApart, IsJobFor
<1>8. FreeIsFresh'
  <2>1. j \in JobsOf(inFlight, tickPackets)
    <3>1. players \subseteq Sessions
      BY <1>1 DEF TypeOK
    <3> QED BY <1>2, <3>1, JobsReferred DEF IsJobFor
  <2> QED BY <1>3, <1>4, <2>1 DEF StreamInv, FreeIsFresh
<1>9. ChangesCurrent'
  BY <1>3 DEF StreamInv, ChangesCurrent, worldVars
<1>10. TickCurrent'
  <2> SUFFICES ASSUME pc # "broadcast", NEW e \in Dims, NEW k \in StreamChunks,
                      tickPackets[e][k] # NoJob, NEW f \in DOMAIN jobs'[tickPackets[e][k]]
               PROVE  \/ jobs'[tickPackets[e][k]][f] = block[e][k][f]
                      \/ Broadcast(e, k, f)
                      \/ <<e, k, f>> \in missed
    BY <1>3 DEF TickCurrent, worldVars, tickVars, Broadcast
  <2>1. tickPackets[e][k] \in Jobs
    BY <1>1 DEF TypeOK
  <2>2. tickPackets[e][k] = j => e = d /\ k = c
    BY <1>2, <1>7 DEF JobsApart, IsJobFor
  <2> QED BY <1>4, <2>1, <2>2 DEF StreamInv, TickCurrent
<1>11. ASSUME NEW s \in players PROVE WaitingCurrent(s)'
  <2> SUFFICES ASSUME NEW k \in StreamChunks, inFlight[s][k] # NoJob,
                      NEW f \in DOMAIN jobs'[inFlight[s][k]]
               PROVE  \/ jobs'[inFlight[s][k]][f] = block[session[s].dimension][k][f]
                      \/ Broadcast(session[s].dimension, k, f)
                      \/ f \in session[s].pendingBlockChanges[k]
                      \/ <<s, k, f>> \in stale
    BY <1>3 DEF WaitingCurrent, worldVars, clientVars, Broadcast
  <2>1. inFlight[s][k] \in Jobs /\ session[s].dimension \in Dims
    BY <1>1, SessionFields DEF TypeOK
  <2>2. inFlight[s][k] = j => session[s].dimension = d /\ k = c
    BY <1>2, <1>7, <2>1 DEF JobsApart, IsJobFor
  <2> QED BY <1>4, <2>1, <2>2 DEF StreamInv, WaitingCurrent
<1>12. ASSUME NEW s \in players, session'[s].connected
       PROVE  SubRegionsCurrent(s)' /\ ShownCurrent(s)'
  BY <1>3, <1>12 DEF StreamInv, SubRegionsCurrent, SubRegionCurrent, ReadCurrent, CoveredAgain, ShownCurrent, Broadcast, UpdateDue, Covered,
     Flight, worldVars, clientVars
<1>13. players' = players
  BY <1>3
<1> QED BY <1>6, <1>7, <1>8, <1>9, <1>10, <1>11, <1>12, <1>13 DEF StreamInv

LEMMA ReadSubRegionStep ==
    ASSUME StreamInv, NEW s \in Sessions, NEW b \in Blocks, NEW i \in Flight(s),
           ReadSubRegion(s, i, b)
    PROVE  StreamInv'
<1> DEFINE job == subRegionFlight[s][i]
<1>1. TypeOK /\ OthersAreClean /\ SubRegionsOwn
  BY DEF StreamInv, TypeInv
<1>2. /\ UNCHANGED <<worldVars, chunkBlockChanges, players, session, chunkSessions,
                     tickPackets, jobs, inFlight, tickVars, clientVars>>
      /\ b \in job.box \ DOMAIN job.read
      /\ subRegionFlight' = [subRegionFlight EXCEPT ![s][i].read =
                                Put(@, b, block[job.dim][job.chunk][b])]
  BY DEF ReadSubRegion
<1>3. /\ subRegionFlight \in [Sessions -> Seq(SubRegions)]
      /\ subRegionFlight[s] \in Seq(SubRegions) /\ Len(subRegionFlight[s]) \in Nat
      /\ job \in SubRegions /\ job.read \in Reads
      /\ job.box \subseteq Blocks /\ job.dim \in Dims /\ job.chunk \in StreamChunks
  <2>1. /\ subRegionFlight \in [Sessions -> Seq(SubRegions)]
        /\ subRegionFlight[s] \in Seq(SubRegions) /\ Len(subRegionFlight[s]) \in Nat
    BY <1>1 DEF TypeOK
  <2>2. job \in SubRegions
    BY <2>1 DEF Flight
  <2> QED BY <2>1, <2>2 DEF SubRegions
<1> DEFINE read == Put(job.read, b, block[job.dim][job.chunk][b])
<1>4. /\ read \in Reads /\ DOMAIN read = DOMAIN job.read \cup {b}
      /\ read[b] = block[job.dim][job.chunk][b]
      /\ \A e \in DOMAIN job.read : read[e] = job.read[e]
  <2>1. block[job.dim][job.chunk][b] \in Content
    BY <1>1, <1>3 DEF TypeOK
  <2>2. /\ read \in Reads /\ DOMAIN read = DOMAIN job.read \cup {b}
        /\ read[b] = block[job.dim][job.chunk][b]
        /\ \A e \in DOMAIN job.read \ {b} : read[e] = job.read[e]
    BY <1>3, <2>1, PutReads, ZenonT(40)
  <2> QED BY <1>2, <2>2
<1> HIDE DEF read
<1> DEFINE next == [job EXCEPT !.read = read]
<1>5. /\ next \in SubRegions /\ next.chunk = job.chunk /\ next.dim = job.dim
      /\ next.box = job.box /\ next.read = read
  BY <1>3, <1>4 DEF SubRegions
<1> HIDE DEF next
<1>6. /\ subRegionFlight' \in [Sessions -> Seq(SubRegions)]
      /\ \A t \in Sessions \ {s} : subRegionFlight'[t] = subRegionFlight[t]
      /\ Flight(s)' = Flight(s)
      /\ subRegionFlight'[s][i] = next
      /\ \A k \in Flight(s) \ {i} : subRegionFlight'[s][k] = subRegionFlight[s][k]
  <2>1. subRegionFlight' = [subRegionFlight EXCEPT ![s] = [@ EXCEPT ![i] = next]]
    BY <1>2, <1>3 DEF next, read
  <2>2. [subRegionFlight[s] EXCEPT ![i] = next] \in Seq(SubRegions)
    BY <1>3, <1>5 DEF Flight
  <2> QED BY <1>3, <1>5, <2>1, <2>2 DEF Flight
<1>7. ASSUME NEW t \in Sessions
      PROVE  /\ Flight(t)' = Flight(t)
             /\ \A k \in Flight(t) :
                  /\ subRegionFlight'[t][k].chunk = subRegionFlight[t][k].chunk
                  /\ subRegionFlight'[t][k].dim = subRegionFlight[t][k].dim
                  /\ subRegionFlight'[t][k].box = subRegionFlight[t][k].box
                  /\ t # s \/ k # i => subRegionFlight'[t][k].read = subRegionFlight[t][k].read
  <2>1. CASE t = s
    BY <1>5, <1>6, <2>1
  <2>2. CASE t # s
    BY <1>6, <2>2 DEF Flight
  <2> QED BY <2>1, <2>2
<1>8. ASSUME NEW t \in Sessions, NEW c \in StreamChunks
      PROVE  \A e : e \in Covered(t, c)' <=> e \in Covered(t, c)
  <2>1. \A e : e \in Covered(t, c)' <=> \E k \in Flight(t)' :
            subRegionFlight'[t][k].chunk = c /\ e \in subRegionFlight'[t][k].box
    BY <1>6 DEF Covered, Flight
  <2>2. \A e : e \in Covered(t, c) <=> \E k \in Flight(t) :
            subRegionFlight[t][k].chunk = c /\ e \in subRegionFlight[t][k].box
    BY <1>3, CoveredBy
  <2>3. /\ Flight(t)' = Flight(t)
        /\ \A k \in Flight(t) : /\ subRegionFlight'[t][k].chunk = subRegionFlight[t][k].chunk
                               /\ subRegionFlight'[t][k].box = subRegionFlight[t][k].box
    BY <1>7
  <2> QED BY <2>1, <2>2, <2>3
<1>9. TypeOK'
  BY <1>1, <1>2, <1>6 DEF TypeOK, worldVars, tickVars, clientVars
<1>10. s \in players
  BY <1>1 DEF OthersAreClean, Flight
<1>11. OthersAreClean' /\ SubRegionsOwn'
  <2>1. OthersAreClean'
    BY <1>1, <1>2, <1>6, <1>10 DEF OthersAreClean
  <2>2. ASSUME NEW t \in players, NEW k \in Flight(t)
        PROVE  /\ subRegionFlight'[t][k].dim = session[t].dimension
               /\ DOMAIN subRegionFlight'[t][k].read \subseteq subRegionFlight'[t][k].box
    <3>1. t \in Sessions
      BY <1>1 DEF TypeOK
    <3>2. CASE t = s /\ k = i
      <4>1. job.dim = session[s].dimension /\ DOMAIN job.read \subseteq job.box
        BY <1>1, <1>10 DEF SubRegionsOwn
      <4> QED BY <1>2, <1>4, <1>5, <1>6, <3>2, <4>1
    <3> QED BY <1>1, <1>7, <3>1, <3>2 DEF SubRegionsOwn
  <2>3. players \subseteq Sessions
    BY <1>1 DEF TypeOK
  <2>4. players' = players /\ session' = session /\ \A t \in players : Flight(t)' = Flight(t)
    BY <1>2, <1>7, <2>3
  <2>5. SubRegionsOwn'
    <3> SUFFICES ASSUME NEW t \in players, NEW k \in Flight(t)
                 PROVE  /\ subRegionFlight'[t][k].dim = session[t].dimension
                        /\ DOMAIN subRegionFlight'[t][k].read \subseteq subRegionFlight'[t][k].box
      BY <2>4 DEF SubRegionsOwn
    <3> QED BY <2>2
  <2> QED BY <2>1, <2>5
<1>12. TypeInv'
  BY <1>2, <1>9, <1>11 DEF StreamInv, TypeInv, QueuesFinite, Queued, CurIsVisited,
     IndexInv, Settled, IndexSettled, IndexBehind, SentIsOwed, FlushedIsShown,
     worldVars, tickVars, clientVars
<1>13. JobsApart' /\ FreeIsFresh' /\ ChangesCurrent' /\ TickCurrent'
  BY <1>2 DEF StreamInv, JobsApart, IsJobFor, FreeIsFresh, ChangesCurrent, TickCurrent, Broadcast,
     worldVars, tickVars
<1>14. ASSUME NEW t \in players PROVE WaitingCurrent(t)'
  BY <1>2 DEF StreamInv, WaitingCurrent, Broadcast, worldVars, clientVars
<1>15. ASSUME NEW t \in players, session'[t].connected
       PROVE  SubRegionsCurrent(t)' /\ ShownCurrent(t)'
  <2>1. t \in Sessions /\ SubRegionsCurrent(t) /\ ShownCurrent(t)
    BY <1>1, <1>2, <1>15 DEF StreamInv, TypeOK
  <2>2. ShownCurrent(t)'
    <3>1. session[t].flushedChunks \subseteq StreamChunks
      BY <1>1, SessionFields
    <3> QED BY <1>2, <1>8, <2>1, <3>1 DEF ShownCurrent, UpdateDue, worldVars, clientVars
  <2>3. SubRegionsCurrent(t)'
    <3> SUFFICES ASSUME NEW k \in Flight(t),
                        subRegionFlight'[t][k].chunk \in session[t].flushedChunks,
                        NEW e \in DOMAIN subRegionFlight'[t][k].read
                 PROVE  ReadCurrent(t, subRegionFlight[t][k], e)' \/ CoveredAgain(t, k, e)'
      BY <1>2, <1>7, <2>1 DEF SubRegionsCurrent, SubRegionCurrent
    <3>1. CASE t = s /\ k = i /\ e = b
      BY <1>2, <1>4, <1>5, <1>6, <3>1 DEF ReadCurrent, worldVars
    <3>2. CASE ~(t = s /\ k = i /\ e = b)
      <4>1. /\ e \in DOMAIN subRegionFlight[t][k].read
            /\ subRegionFlight'[t][k].read[e] = subRegionFlight[t][k].read[e]
        BY <1>4, <1>5, <1>6, <1>7, <2>1, <3>2
      <4>2. ReadCurrent(t, subRegionFlight[t][k], e) \/ CoveredAgain(t, k, e)
        BY <1>7, <2>1, <4>1 DEF SubRegionsCurrent, SubRegionCurrent
      <4>3. CoveredAgain(t, k, e) => CoveredAgain(t, k, e)'
        BY <1>7, <2>1 DEF CoveredAgain
      <4>4. ReadCurrent(t, subRegionFlight[t][k], e) => ReadCurrent(t, subRegionFlight[t][k], e)'
        <5>1. /\ subRegionFlight'[t][k].chunk = subRegionFlight[t][k].chunk
              /\ subRegionFlight'[t][k].dim = subRegionFlight[t][k].dim
          BY <1>7, <2>1
        <5>2. UNCHANGED <<block, chunkBlockChanges, stale>>
          BY <1>2 DEF worldVars, clientVars
        <5> QED BY <4>1, <5>1, <5>2 DEF ReadCurrent, Broadcast
      <4> QED BY <4>2, <4>3, <4>4
    <3> QED BY <3>1, <3>2
  <2> QED BY <2>2, <2>3
<1> QED BY <1>2, <1>12, <1>13, <1>14, <1>15 DEF StreamInv

(* A change is remembered for the broadcast for every session that has the
   chunk or waits for it. *)
LEMMA SetBlockStep ==
    ASSUME StreamInv, NEW d \in Dims, NEW c \in StreamChunks, NEW b \in Blocks, SetBlock(d, c, b)
    PROVE  StreamInv'
<1>1. TypeOK /\ OthersAreClean /\ CurIsVisited /\ IndexInv /\ SentIsOwed /\ SubRegionsOwn
  BY DEF StreamInv, TypeInv
<1>2. /\ UNCHANGED <<ready, players, session, chunkSessions, senderVars, tickVars, clientVars>>
      /\ pc \in {"packets", "world"}
      /\ block[d][c][b] < MaxChanges
      /\ block' = [block EXCEPT ![d][c][b] = @ + 1]
  BY DEF SetBlock
<1>3. /\ block' \in [Dims -> [StreamChunks -> [Blocks -> Content]]]
      /\ \A e \in Dims, k \in StreamChunks, f \in Blocks :
            <<e, k, f>> # <<d, c, b>> => block'[e][k][f] = block[e][k][f]
  <2>1. /\ block \in [Dims -> [StreamChunks -> [Blocks -> Content]]]
        /\ block[d][c][b] + 1 \in Content
    <3>1. block \in [Dims -> [StreamChunks -> [Blocks -> Content]]]
      BY <1>1 DEF TypeOK
    <3>2. block[d][c][b] \in 0..MaxChanges
      BY <3>1 DEF Content
    <3> QED BY <1>2, <3>1, <3>2, BoundsType DEF Content
  <2> QED BY <1>2, <2>1
<1>4. /\ chunkBlockChanges' \in [Dims -> [StreamChunks -> Reads]]
      /\ \A e \in Dims, k \in StreamChunks, f \in Blocks : Broadcast(e, k, f) => Broadcast(e, k, f)'
      /\ \A e \in Dims, k \in StreamChunks, f \in Blocks :
            <<e, k, f>> # <<d, c, b>> /\ Broadcast(e, k, f)' =>
                /\ Broadcast(e, k, f)
                /\ chunkBlockChanges'[e][k][f] = chunkBlockChanges[e][k][f]
      /\ Interested(d, c) => Broadcast(d, c, b)' /\ chunkBlockChanges'[d][c][b] = block'[d][c][b]
  <2>1. /\ chunkBlockChanges \in [Dims -> [StreamChunks -> Reads]]
        /\ chunkBlockChanges[d][c] \in Reads
    BY <1>1 DEF TypeOK
  <2>2. CASE Interested(d, c)
    <3> DEFINE old == chunkBlockChanges[d][c]
               now == block'[d][c][b]
               new == Put(old, b, now)
    <3>1. now \in Content
      BY <1>3
    <3>2. chunkBlockChanges' = [chunkBlockChanges EXCEPT ![d][c] = new]
      BY <2>2 DEF SetBlock
    <3> HIDE DEF now
    <3>3. /\ new \in Reads /\ DOMAIN new = DOMAIN old \cup {b} /\ new[b] = now
          /\ \A e \in DOMAIN old \ {b} : new[e] = old[e]
      BY <2>1, <3>1, PutReads, ZenonT(40)
    <3> HIDE DEF new
    <3>4. /\ chunkBlockChanges' \in [Dims -> [StreamChunks -> Reads]]
          /\ chunkBlockChanges'[d][c] = new
          /\ \A e \in Dims, k \in StreamChunks : e # d \/ k # c =>
                 chunkBlockChanges'[e][k] = chunkBlockChanges[e][k]
      BY <2>1, <3>2, <3>3
    <3> QED BY <3>3, <3>4 DEF Broadcast, now
  <2>3. CASE ~Interested(d, c)
    <3>1. UNCHANGED chunkBlockChanges
      BY <2>3 DEF SetBlock
    <3> QED BY <2>1, <2>3, <3>1 DEF Broadcast
  <2> QED BY <2>2, <2>3
<1>5. /\ missed' \subseteq Dims \X StreamChunks \X Blocks
      /\ \A t : t # <<d, c, b>> => (t \in missed' <=> t \in missed)
      /\ ~Interested(d, c) => <<d, c, b>> \in missed'
  BY <1>1 DEF SetBlock, TypeOK
<1>6. TypeOK'
  BY <1>1, <1>2, <1>3, <1>4, <1>5 DEF TypeOK, senderVars, tickVars, clientVars
<1>7. TypeInv'
  BY <1>2, <1>6 DEF StreamInv, TypeInv, QueuesFinite, Queued, CurIsVisited, OthersAreClean,
     IndexInv, Settled, IndexSettled, IndexBehind, SentIsOwed, FlushedIsShown, SubRegionsOwn,
     Flight, senderVars, tickVars, clientVars
<1>8. JobsApart' /\ FreeIsFresh'
  BY <1>2 DEF StreamInv, JobsApart, IsJobFor, FreeIsFresh, senderVars
<1>9. ASSUME NEW s \in players, session[s].dimension = d, c \in session[s].sentChunks
      PROVE  Interested(d, c)
  BY <1>9 DEF Interested
<1>10. ChangesCurrent'
  <2> SUFFICES ASSUME NEW e \in Dims, NEW k \in StreamChunks, NEW f \in Blocks,
                      Broadcast(e, k, f)'
               PROVE  chunkBlockChanges'[e][k][f] = block'[e][k][f] \/ <<e, k, f>> \in missed'
    <3>1. \A e \in Dims, k \in StreamChunks : DOMAIN chunkBlockChanges'[e][k] \subseteq Blocks
      BY <1>4, ReadsDomain
    <3> QED BY <3>1 DEF ChangesCurrent, Broadcast
  <2>1. CASE <<e, k, f>> = <<d, c, b>>
    BY <1>4, <1>5, <2>1
  <2>2. CASE <<e, k, f>> # <<d, c, b>>
    BY <1>3, <1>4, <1>5, <2>2 DEF StreamInv, ChangesCurrent, Broadcast
  <2> QED BY <2>1, <2>2
<1>11. TickCurrent'
  <2> SUFFICES ASSUME pc # "broadcast", NEW e \in Dims, NEW k \in StreamChunks,
                      tickPackets[e][k] # NoJob, NEW f \in DOMAIN jobs[tickPackets[e][k]]
               PROVE  \/ jobs[tickPackets[e][k]][f] = block'[e][k][f]
                      \/ Broadcast(e, k, f)'
                      \/ <<e, k, f>> \in missed'
    BY <1>2 DEF TickCurrent, senderVars, tickVars
  <2>1. f \in Blocks
    <3>1. jobs[tickPackets[e][k]] \in Reads
      BY <1>1 DEF TypeOK
    <3> QED BY <3>1, ReadsDomain
  <2>2. \/ jobs[tickPackets[e][k]][f] = block[e][k][f]
        \/ Broadcast(e, k, f)
        \/ <<e, k, f>> \in missed
    BY DEF StreamInv, TickCurrent
  <2>3. CASE <<e, k, f>> = <<d, c, b>>
    BY <1>4, <1>5, <2>3
  <2>4. CASE <<e, k, f>> # <<d, c, b>>
    BY <1>3, <1>4, <1>5, <2>1, <2>2, <2>4
  <2> QED BY <2>3, <2>4
<1>12. ASSUME NEW s \in players PROVE WaitingCurrent(s)'
  <2>0. PICK e \in Dims : e = session[s].dimension /\ e = session'[s].dimension
    BY <1>1, <1>2, SessionFields
  <2> SUFFICES ASSUME NEW k \in StreamChunks, inFlight[s][k] # NoJob,
                      NEW f \in DOMAIN jobs[inFlight[s][k]]
               PROVE  \/ jobs[inFlight[s][k]][f] = block'[e][k][f]
                      \/ Broadcast(e, k, f)'
                      \/ f \in session[s].pendingBlockChanges[k]
                      \/ <<s, k, f>> \in stale
    BY <1>2, <2>0 DEF WaitingCurrent, senderVars, clientVars, Broadcast
  <2>1. f \in Blocks
    <3>1. jobs[inFlight[s][k]] \in Reads
      BY <1>1 DEF TypeOK
    <3> QED BY <3>1, ReadsDomain
  <2>2. \/ jobs[inFlight[s][k]][f] = block[e][k][f]
        \/ Broadcast(e, k, f)
        \/ f \in session[s].pendingBlockChanges[k]
        \/ <<s, k, f>> \in stale
    BY <2>0 DEF StreamInv, WaitingCurrent
  <2>3. CASE <<e, k, f>> = <<d, c, b>>
    <3>1. k \in session[s].sentChunks
      BY <1>1 DEF SentIsOwed
    <3> QED BY <1>4, <1>9, <2>0, <2>3, <3>1
  <2>4. CASE <<e, k, f>> # <<d, c, b>>
    BY <1>3, <1>4, <2>1, <2>2, <2>4
  <2> QED BY <2>3, <2>4
<1>13. ASSUME NEW s \in players, session'[s].connected
       PROVE  SubRegionsCurrent(s)' /\ ShownCurrent(s)'
  <2>0. PICK e \in Dims : e = session[s].dimension /\ e = session'[s].dimension
    BY <1>1, <1>2, SessionFields
  <2>1. /\ SubRegionsCurrent(s) /\ ShownCurrent(s) /\ s \in Sessions
        /\ session[s].flushedChunks \subseteq session[s].sentChunks
        /\ session[s].flushedChunks \subseteq StreamChunks
    BY <1>1, <1>2, <1>13, SessionFields DEF StreamInv, SentIsOwed
  <2>2. ASSUME NEW k \in session[s].flushedChunks, NEW f \in Blocks
        PROVE  block'[e][k][f] = block[e][k][f] \/ Broadcast(e, k, f)'
    <3>1. CASE <<e, k, f>> = <<d, c, b>>
      BY <1>4, <1>9, <2>0, <2>1, <3>1
    <3>2. CASE <<e, k, f>> # <<d, c, b>>
      BY <1>3, <2>1, <3>2
    <3> QED BY <3>1, <3>2
  <2>3. SubRegionsCurrent(s)'
    <3> SUFFICES ASSUME NEW i \in Flight(s),
                        subRegionFlight[s][i].chunk \in session[s].flushedChunks,
                        NEW f \in DOMAIN subRegionFlight[s][i].read
                 PROVE  ReadCurrent(s, subRegionFlight[s][i], f)' \/ CoveredAgain(s, i, f)'
      BY <1>2 DEF SubRegionsCurrent, SubRegionCurrent, Flight, senderVars
    <3>0. PICK job : job = subRegionFlight[s][i] /\ job = subRegionFlight'[s][i]
      BY <1>2 DEF senderVars
    <3>1. /\ job.dim = e /\ f \in Blocks
      <4>1. subRegionFlight[s] \in Seq(SubRegions)
        BY <1>1, <2>1 DEF TypeOK
      <4>2. subRegionFlight[s][i] \in SubRegions
        BY <4>1 DEF Flight
      <4> QED BY <1>1, <2>0, <3>0, <4>2, ReadsDomain DEF SubRegionsOwn, SubRegions
    <3>2. ReadCurrent(s, job, f) \/ CoveredAgain(s, i, f)
      BY <2>1, <3>0 DEF SubRegionsCurrent, SubRegionCurrent
    <3>3. CoveredAgain(s, i, f)' <=> CoveredAgain(s, i, f)
      BY <1>2 DEF CoveredAgain, Flight, senderVars
    <3>4. ReadCurrent(s, job, f) => ReadCurrent(s, job, f)'
      <4>1. Broadcast(e, job.chunk, f) => Broadcast(e, job.chunk, f)'
        BY <1>4, <2>1, <3>0, <3>1
      <4>2. stale' = stale
        BY <1>2 DEF clientVars
      <4> QED BY <2>2, <3>0, <3>1, <4>1, <4>2 DEF ReadCurrent
    <3> QED BY <3>0, <3>2, <3>3, <3>4
  <2>4. ShownCurrent(s)'
    <3> SUFFICES ASSUME NEW k \in session[s].flushedChunks, NEW f \in Blocks
                 PROVE  \/ view[s][k][f] = block'[e][k][f]
                        \/ Broadcast(e, k, f)'
                        \/ f \in Covered(s, k)
                        \/ <<s, k, f>> \in stale
      BY <1>2, <2>0 DEF ShownCurrent, UpdateDue, Broadcast, Covered, senderVars, clientVars
    <3>1. Broadcast(e, k, f) => Broadcast(e, k, f)'
      BY <1>4, <2>1
    <3> QED BY <2>0, <2>1, <2>2, <3>1 DEF ShownCurrent, UpdateDue, Broadcast
  <2> QED BY <2>3, <2>4
<1> QED BY <1>2, <1>7, <1>8, <1>10, <1>11, <1>12, <1>13 DEF StreamInv

-----------------------------------------------------------------------------
(* Sessions.                                                               *)

LEMMA FreshType ==
    ASSUME NEW d \in Dims, NEW range \in SUBSET StreamChunks
    PROVE  /\ FreshSession(d, range) \in SessionType
           /\ FreshSession(d, range).dimension = d
           /\ FreshSession(d, range).connected = TRUE
           /\ FreshSession(d, range).sentChunks = {}
           /\ FreshSession(d, range).flushedChunks = {}
           /\ FreshSession(d, range).newlyFlushed = {}
           /\ FreshSession(d, range).newlyUnloaded = {}
           /\ \A c \in StreamChunks : FreshSession(d, range).pendingBlockChanges[c] = {}
BY DEF FreshSession, SessionType

LEMMA JoinStep ==
    ASSUME StreamInv, NEW s \in Sessions, NEW d \in Dims, NEW range \in SUBSET StreamChunks,
           Join(s, d, range)
    PROVE  StreamInv'
<1>1. TypeOK /\ OthersAreClean /\ CurIsVisited /\ IndexInv /\ SentIsOwed /\ SubRegionsOwn
  BY DEF StreamInv, TypeInv
<1> DEFINE fresh == FreshSession(d, range)
<1>2. /\ UNCHANGED <<worldVars, chunkBlockChanges, chunkSessions, senderVars, pc, cur, clientVars>>
      /\ pc = "visit" /\ cur = NoSession
      /\ s \notin players /\ players' = players \cup {s} /\ todo' = todo \cup {s}
      /\ session' = Put(session, s, fresh)
  BY <1>1 DEF Join, CurIsVisited
<1>3. /\ fresh \in SessionType /\ fresh.dimension = d /\ fresh.sentChunks = {}
      /\ fresh.flushedChunks = {} /\ fresh.newlyFlushed = {} /\ fresh.newlyUnloaded = {}
      /\ \A c \in StreamChunks : fresh.pendingBlockChanges[c] = {}
  BY FreshType
<1> HIDE DEF fresh
<1>4. /\ session' \in [players' -> SessionType]
      /\ session'[s] = fresh
      /\ \A t \in players : session'[t] = session[t]
  BY <1>1, <1>2, <1>3 DEF Put, TypeOK
<1>5. TypeOK'
  BY <1>1, <1>2, <1>4 DEF TypeOK, worldVars, senderVars, clientVars
<1>6. /\ \A c \in StreamChunks : inFlight[s][c] = NoJob
      /\ subRegionFlight[s] = <<>>
      /\ \A e \in Dims, c \in StreamChunks : s \notin chunkSessions[e][c]
  BY <1>1, <1>2 DEF OthersAreClean
<1>7. Flight(s) = {}
  BY <1>6 DEF Flight
<1>8. OthersAreClean' /\ CurIsVisited'
  BY <1>1, <1>2 DEF OthersAreClean, CurIsVisited, senderVars
<1>9. IndexInv'
  <2> SUFFICES ASSUME NEW t \in players' PROVE IndexSettled(t)'
    BY <1>2 DEF IndexInv, Settled
  <2>1. CASE t = s
    BY <1>2, <1>3, <1>4, <1>6, <2>1 DEF IndexSettled
  <2>2. CASE t \in players
    <3>1. IndexSettled(t)
      BY <1>1, <1>2, <2>2 DEF IndexInv, Settled
    <3> QED BY <1>2, <1>4, <2>2, <3>1 DEF IndexSettled
  <2> QED BY <1>2, <2>1, <2>2
<1>10. SentIsOwed'
  BY <1>1, <1>2, <1>3, <1>4, <1>6 DEF SentIsOwed, senderVars
<1>11. FlushedIsShown' /\ SubRegionsOwn' /\ QueuesFinite'
  <2>1. FlushedIsShown'
    BY <1>2, <1>3, <1>4 DEF StreamInv, TypeInv, FlushedIsShown, clientVars
  <2>2. SubRegionsOwn'
    BY <1>1, <1>2, <1>4, <1>7 DEF SubRegionsOwn, Flight, senderVars
  <2> QED BY <1>2, <2>1, <2>2 DEF StreamInv, TypeInv, QueuesFinite, Queued, senderVars
<1>12. JobsApart' /\ FreeIsFresh'
  <2>1. ASSUME NEW j \in Jobs, NEW e \in Dims, NEW k \in StreamChunks, IsJobFor(j, e, k)'
        PROVE  IsJobFor(j, e, k)
    BY <1>2, <1>4, <1>6, <2>1, JobsType DEF IsJobFor, senderVars
  <2> QED BY <1>2, <2>1 DEF StreamInv, JobsApart, FreeIsFresh, senderVars
<1>13. ChangesCurrent' /\ TickCurrent'
  BY <1>2 DEF StreamInv, ChangesCurrent, TickCurrent, Broadcast, worldVars, senderVars
<1>14. ASSUME NEW t \in players' PROVE WaitingCurrent(t)'
  <2>1. CASE t = s
    BY <1>2, <1>6, <2>1 DEF WaitingCurrent, senderVars
  <2>2. CASE t \in players
    BY <1>2, <1>4, <2>2 DEF StreamInv, WaitingCurrent, Broadcast, worldVars, senderVars, clientVars
  <2> QED BY <1>2, <2>1, <2>2
<1>15. ASSUME NEW t \in players', session'[t].connected
       PROVE  SubRegionsCurrent(t)' /\ ShownCurrent(t)'
  <2>1. CASE t = s
    BY <1>2, <1>3, <1>4, <1>7, <2>1 DEF SubRegionsCurrent, ShownCurrent, Flight, senderVars
  <2>2. CASE t \in players
    BY <1>2, <1>4, <1>15, <2>2 DEF StreamInv, SubRegionsCurrent, SubRegionCurrent, ReadCurrent,
       CoveredAgain, ShownCurrent, UpdateDue, Covered, Broadcast, Flight, worldVars, senderVars,
       clientVars
  <2> QED BY <1>2, <2>1, <2>2
<1> QED BY <1>5, <1>8, <1>9, <1>10, <1>11, <1>12, <1>13, <1>14, <1>15 DEF StreamInv, TypeInv

(* A queue that loses chunks is no longer than it was. *)
LEMMA QueueShrinks ==
    ASSUME TypeOK, QueuesFinite, NEW s \in Sessions,
           \A c \in StreamChunks : inFlight'[s][c] \in {inFlight[s][c], NoJob}
    PROVE  /\ IsFiniteSet(Queued(s)')
           /\ Cardinality({c \in StreamChunks : inFlight'[s][c] # NoJob}) <= BatchSize
<1>1. IsFiniteSet(Queued(s)) /\ Cardinality(Queued(s)) <= BatchSize
  BY DEF TypeOK, QueuesFinite, Queued
<1>2. Queued(s)' \in SUBSET Queued(s)
  BY DEF Queued
<1>3. /\ IsFiniteSet(Queued(s)') /\ Cardinality(Queued(s)') <= Cardinality(Queued(s))
      /\ Cardinality(Queued(s)) \in Nat /\ Cardinality(Queued(s)') \in Nat
  BY <1>1, <1>2, FS_Subset, FS_CardinalityType
<1>4. Cardinality(Queued(s)') <= BatchSize
  BY <1>1, <1>3, BoundsType
<1> QED BY <1>3, <1>4 DEF Queued

(* Jobs that are given up are free and have read nothing; the others go on. *)
LEMMA JobsDropped ==
    ASSUME TypeOK, JobsApart, players' \subseteq players,
           \A s \in Sessions, c \in StreamChunks : inFlight'[s][c] \in {inFlight[s][c], NoJob},
           \A d \in Dims, c \in StreamChunks : tickPackets'[d][c] \in {tickPackets[d][c], NoJob},
           \A s \in players' : \/ session'[s].dimension = session[s].dimension
                               \/ \A c \in StreamChunks : inFlight'[s][c] = NoJob,
           DropJobs(inFlight', tickPackets')
    PROVE  /\ jobs' \in [Jobs -> Reads]
           /\ JobsApart' /\ FreeIsFresh'
           /\ \A s \in Sessions, c \in StreamChunks :
                inFlight'[s][c] # NoJob => jobs'[inFlight'[s][c]] = jobs[inFlight[s][c]]
           /\ \A d \in Dims, c \in StreamChunks :
                tickPackets'[d][c] # NoJob => jobs'[tickPackets'[d][c]] = jobs[tickPackets[d][c]]
<1>1. /\ jobs' = [j \in Jobs |-> IF j \in JobsOf(inFlight', tickPackets') THEN jobs[j] ELSE Nothing]
      /\ jobs \in [Jobs -> Reads] /\ players \subseteq Sessions
      /\ \A s \in Sessions, c \in StreamChunks : inFlight[s][c] \in Jobs \cup {NoJob}
      /\ \A d \in Dims, c \in StreamChunks : tickPackets[d][c] \in Jobs \cup {NoJob}
  BY DEF DropJobs, TypeOK
<1>2. jobs' \in [Jobs -> Reads] /\ FreeIsFresh'
  BY <1>1, NothingRead DEF FreeIsFresh
<1>3. JobsApart'
  <2>1. ASSUME NEW j \in Jobs, NEW e \in Dims, NEW k \in StreamChunks, IsJobFor(j, e, k)'
        PROVE  IsJobFor(j, e, k)
    BY <1>1, <2>1, JobsType DEF IsJobFor
  <2> QED BY <2>1 DEF JobsApart
<1>4. /\ \A s \in Sessions, c \in StreamChunks : inFlight'[s][c] \in JobsOf(inFlight', tickPackets')
      /\ \A d \in Dims, c \in StreamChunks : tickPackets'[d][c] \in JobsOf(inFlight', tickPackets')
  BY DEF JobsOf
<1> QED BY <1>1, <1>2, <1>3, <1>4

(* A session that a step does not touch sees the same jobs and the same packets. *)
LEMMA OtherSession ==
    ASSUME NEW t \in players, UNCHANGED <<block, chunkBlockChanges>>,
           session'[t] = session[t], subRegionFlight'[t] = subRegionFlight[t],
           view'[t] = view[t], inFlight'[t] = inFlight[t],
           \A c \in StreamChunks : inFlight[t][c] # NoJob =>
               jobs'[inFlight[t][c]] = jobs[inFlight[t][c]],
           \A c, b : <<t, c, b>> \in stale => <<t, c, b>> \in stale',
           WaitingCurrent(t),
           session[t].connected => SubRegionsCurrent(t) /\ ShownCurrent(t)
    PROVE  /\ WaitingCurrent(t)'
           /\ session'[t].connected => SubRegionsCurrent(t)' /\ ShownCurrent(t)'
<1>1. Flight(t)' = Flight(t) /\ \A c : Covered(t, c)' = Covered(t, c)
  BY DEF Flight, Covered
<1>2. WaitingCurrent(t)'
  BY DEF WaitingCurrent, Broadcast
<1>3. session[t].connected => SubRegionsCurrent(t)'
  BY <1>1 DEF SubRegionsCurrent, SubRegionCurrent, ReadCurrent, CoveredAgain, Broadcast
<1>4. session[t].connected => ShownCurrent(t)'
  BY <1>1 DEF ShownCurrent, UpdateDue, Broadcast
<1> QED BY <1>2, <1>3, <1>4

(* A session that leaves its world takes nothing along. *)
LEMMA ResetStep ==
    ASSUME StreamInv, NEW s \in Sessions, NEW d \in Dims, NEW range \in SUBSET StreamChunks,
           ResetDimensionState(s, d, range)
    PROVE  StreamInv'
<1>1. /\ TypeOK /\ OthersAreClean /\ CurIsVisited /\ IndexInv /\ SentIsOwed /\ SubRegionsOwn
      /\ QueuesFinite /\ FlushedIsShown /\ JobsApart
  BY DEF StreamInv, TypeInv
<1>2. /\ UNCHANGED <<block, ready, missed, chunkBlockChanges, players, tickPackets, pc, cur, todo>>
      /\ pc \in {"packets", "world", "visit"} /\ s \in players
      /\ chunkSessions' = IndexRemoveSession(s, d)
      /\ session' = [session EXCEPT ![s] =
             [FreshSession(d, range) EXCEPT !.connected = session[s].connected]]
      /\ inFlight' = [inFlight EXCEPT ![s] = [c \in StreamChunks |-> NoJob]]
      /\ subRegionFlight' = [subRegionFlight EXCEPT ![s] = <<>>]
      /\ DropJobs(inFlight', tickPackets)
      /\ view' \in {view, [view EXCEPT ![s] = [c \in StreamChunks |-> NoChunk]]}
      /\ stale' = {t \in stale : t[1] # s}
  BY DEF ResetDimensionState, worldVars, tickVars
<1>3. /\ session' \in [players -> SessionType]
      /\ \A t \in players \ {s} : session'[t] = session[t]
      /\ session'[s].sentChunks = {} /\ session'[s].flushedChunks = {}
      /\ session'[s].newlyFlushed = {} /\ session'[s].newlyUnloaded = {}
      /\ \A c \in StreamChunks : session'[s].pendingBlockChanges[c] = {}
  <2>1. session \in [players -> SessionType] /\ session[s].connected \in BOOLEAN
    BY <1>1, <1>2, SessionFields DEF TypeOK
  <2> DEFINE fresh == FreshSession(d, range)
             new == [fresh EXCEPT !.connected = session[s].connected]
  <2>2. /\ new \in SessionType
        /\ new.sentChunks = {} /\ new.flushedChunks = {}
        /\ new.newlyFlushed = {} /\ new.newlyUnloaded = {}
        /\ \A c \in StreamChunks : new.pendingBlockChanges[c] = {}
    BY <2>1 DEF FreshSession, SessionType
  <2>3. session' = [session EXCEPT ![s] = new]
    BY <1>2
  <2> HIDE DEF new
  <2> QED BY <1>2, <2>1, <2>2, <2>3
<1>4. /\ inFlight' \in [Sessions -> [StreamChunks -> Jobs \cup {NoJob}]]
      /\ \A t \in Sessions \ {s} : inFlight'[t] = inFlight[t]
      /\ \A c \in StreamChunks : inFlight'[s][c] = NoJob
  BY <1>1, <1>2 DEF TypeOK
<1>5. /\ jobs' \in [Jobs -> Reads] /\ JobsApart' /\ FreeIsFresh'
      /\ \A t \in Sessions, c \in StreamChunks :
           inFlight'[t][c] # NoJob => jobs'[inFlight'[t][c]] = jobs[inFlight[t][c]]
      /\ \A e \in Dims, c \in StreamChunks :
           tickPackets'[e][c] # NoJob => jobs'[tickPackets'[e][c]] = jobs[tickPackets[e][c]]
  <2>1. /\ players' \subseteq players
        /\ \A t \in Sessions, c \in StreamChunks : inFlight'[t][c] \in {inFlight[t][c], NoJob}
        /\ \A e \in Dims, c \in StreamChunks : tickPackets'[e][c] \in {tickPackets[e][c], NoJob}
        /\ \A t \in players' : \/ session'[t].dimension = session[t].dimension
                               \/ \A c \in StreamChunks : inFlight'[t][c] = NoJob
        /\ DropJobs(inFlight', tickPackets')
    BY <1>2, <1>3, <1>4
  <2> QED BY <1>1, <2>1, JobsDropped
<1>6. /\ chunkSessions' \in [Dims -> [StreamChunks -> SUBSET Sessions]]
      /\ \A e \in Dims, c \in StreamChunks, t \in Sessions :
            t \in chunkSessions'[e][c] <=>
                /\ t \in chunkSessions[e][c]
                /\ ~(t = s /\ e = session[s].dimension /\ c \in session[s].flushedChunks)
  <2>1. chunkSessions \in [Dims -> [StreamChunks -> SUBSET Sessions]] /\ session[s].dimension \in Dims
    BY <1>1, <1>2, SessionFields DEF TypeOK
  <2> QED BY <1>2, <2>1 DEF IndexRemoveSession, IndexRemove
<1>7. TypeOK' /\ QueuesFinite'
  <2>1. \A t \in Sessions : /\ IsFiniteSet(Queued(t)')
                            /\ Cardinality({c \in StreamChunks : inFlight'[t][c] # NoJob}) <= BatchSize
    BY <1>1, <1>4, QueueShrinks
  <2>2. subRegionFlight' \in [Sessions -> Seq(SubRegions)]
    BY <1>1, <1>2 DEF TypeOK
  <2>3. view' \in [Sessions -> [StreamChunks -> [Blocks -> Content] \cup {NoChunk}]]
    <3>1. view \in [Sessions -> [StreamChunks -> [Blocks -> Content] \cup {NoChunk}]]
      BY <1>1 DEF TypeOK
    <3>2. CASE view' = view
      BY <3>1, <3>2
    <3>3. CASE view' = [view EXCEPT ![s] = [c \in StreamChunks |-> NoChunk]]
      BY <3>1, <3>3
    <3> QED BY <1>2, <3>2, <3>3
  <2>4. stale' \subseteq Sessions \X StreamChunks \X Blocks
    BY <1>1, <1>2 DEF TypeOK
  <2> QED BY <1>1, <1>2, <1>3, <1>4, <1>5, <1>6, <2>1, <2>2, <2>3, <2>4 DEF TypeOK, QueuesFinite
<1>8. /\ \A t \in Sessions \ {s} : /\ subRegionFlight'[t] = subRegionFlight[t]
                                   /\ view'[t] = view[t]
      /\ subRegionFlight'[s] = <<>> /\ Flight(s)' = {}
  BY <1>1, <1>2 DEF TypeOK, Flight
<1>9. OthersAreClean' /\ CurIsVisited'
  BY <1>1, <1>2, <1>4, <1>6, <1>8 DEF OthersAreClean, CurIsVisited
<1>10. IndexInv'
  <2> SUFFICES ASSUME NEW t \in players PROVE IndexSettled(t)'
    BY <1>2 DEF IndexInv, Settled
  <2>1. IndexSettled(t) /\ t \in Sessions
    BY <1>1, <1>2 DEF IndexInv, Settled, TypeOK
  <2>2. CASE t = s
    BY <1>3, <1>6, <2>1, <2>2 DEF IndexSettled
  <2>3. CASE t # s
    BY <1>3, <1>6, <2>1, <2>3 DEF IndexSettled
  <2> QED BY <2>2, <2>3
<1>11. SentIsOwed' /\ SubRegionsOwn' /\ FlushedIsShown'
  <2>0. players \subseteq Sessions
    BY <1>1 DEF TypeOK
  <2>1. SentIsOwed'
    BY <1>1, <1>2, <1>3, <1>4, <2>0 DEF SentIsOwed
  <2>2. SubRegionsOwn'
    BY <1>1, <1>2, <1>3, <1>8, <2>0 DEF SubRegionsOwn, Flight
  <2>3. FlushedIsShown'
    BY <1>1, <1>2, <1>3, <1>8, <2>0 DEF FlushedIsShown
  <2> QED BY <2>1, <2>2, <2>3
<1>12. ChangesCurrent' /\ TickCurrent'
  BY <1>2, <1>5 DEF StreamInv, ChangesCurrent, TickCurrent, Broadcast
<1>13. ASSUME NEW t \in players
       PROVE  /\ WaitingCurrent(t)'
              /\ session'[t].connected => SubRegionsCurrent(t)' /\ ShownCurrent(t)'
  <2>1. CASE t = s
    BY <1>3, <1>4, <1>8, <2>1 DEF WaitingCurrent, SubRegionsCurrent, ShownCurrent
  <2>2. CASE t # s
    <3>1. t \in Sessions /\ WaitingCurrent(t)
          /\ (session[t].connected => SubRegionsCurrent(t) /\ ShownCurrent(t))
      BY <1>1 DEF StreamInv, TypeOK
    <3>2. \A c \in StreamChunks : inFlight[t][c] # NoJob =>
              jobs'[inFlight[t][c]] = jobs[inFlight[t][c]]
      BY <1>4, <1>5, <2>2, <3>1
    <3>3. \A c, b : <<t, c, b>> \in stale => <<t, c, b>> \in stale'
      BY <1>2, <2>2
    <3> QED BY <1>2, <1>3, <1>4, <1>8, <2>2, <3>1, <3>2, <3>3, OtherSession
  <2> QED BY <2>1, <2>2
<1> QED BY <1>2, <1>5, <1>7, <1>9, <1>10, <1>11, <1>12, <1>13 DEF StreamInv, TypeInv

-----------------------------------------------------------------------------
(* ChunkSender.                                                            *)

(* A session that lost chunks sees those it kept as before. *)
LEMMA NarrowedSession ==
    ASSUME NEW t \in players, UNCHANGED <<block, chunkBlockChanges, subRegionFlight>>,
           session'[t].dimension = session[t].dimension,
           session'[t].connected => session[t].connected,
           \A c \in session'[t].flushedChunks :
               c \in session[t].flushedChunks /\ view'[t][c] = view[t][c],
           \A c \in StreamChunks : inFlight'[t][c] # NoJob =>
               /\ inFlight'[t][c] = inFlight[t][c]
               /\ jobs'[inFlight'[t][c]] = jobs[inFlight[t][c]]
               /\ session'[t].pendingBlockChanges[c] = session[t].pendingBlockChanges[c],
           \A c, b : /\ <<t, c, b>> \in stale
                     /\ c \in session'[t].flushedChunks \/ inFlight'[t][c] # NoJob
                     => <<t, c, b>> \in stale',
           WaitingCurrent(t),
           session[t].connected => SubRegionsCurrent(t) /\ ShownCurrent(t)
    PROVE  /\ WaitingCurrent(t)'
           /\ session'[t].connected => SubRegionsCurrent(t)' /\ ShownCurrent(t)'
<1>1. Flight(t)' = Flight(t) /\ \A c : Covered(t, c)' = Covered(t, c)
  BY DEF Flight, Covered
<1>2. WaitingCurrent(t)'
  BY DEF WaitingCurrent, Broadcast
<1>3. session'[t].connected => SubRegionsCurrent(t)'
  BY <1>1 DEF SubRegionsCurrent, SubRegionCurrent, ReadCurrent, CoveredAgain, Broadcast
<1>4. session'[t].connected => ShownCurrent(t)'
  BY <1>1 DEF ShownCurrent, UpdateDue, Broadcast
<1> QED BY <1>2, <1>3, <1>4

(* What is out of range is neither sent, nor waited for, nor shown. *)
LEMMA UnloadStep ==
    ASSUME StreamInv, UnloadFar
    PROVE  StreamInv'
<1>1. /\ TypeOK /\ OthersAreClean /\ CurIsVisited /\ IndexInv /\ SentIsOwed /\ SubRegionsOwn
      /\ QueuesFinite /\ FlushedIsShown /\ JobsApart
  BY DEF StreamInv, TypeInv
<1>2. PICK me : me = session[cur]
  OBVIOUS
<1>3. PICK gone : gone = me.sentChunks \ me.range
  OBVIOUS
<1>4. PICK s : s = cur
  OBVIOUS
<1>5. /\ UNCHANGED <<block, ready, missed, chunkBlockChanges, players, chunkSessions, tickPackets,
                     subRegionFlight, cur, todo>>
      /\ pc = "enqueue" /\ pc' = "flush" /\ s \in players /\ s \in Sessions
      /\ session' = [session EXCEPT
             ![s].sentChunks = SentInRange(s),
             ![s].flushedChunks = @ \ gone,
             ![s].newlyUnloaded = gone,
             ![s].pendingBlockChanges = [c \in StreamChunks |-> IF c \in gone THEN {} ELSE @[c]]]
      /\ inFlight' = [inFlight EXCEPT ![s] =
             [c \in StreamChunks |-> IF c \in me.range THEN @[c] ELSE NoJob]]
      /\ DropJobs(inFlight', tickPackets)
      /\ stale' = {t \in stale : t[1] # s \/ t[2] \notin gone}
  BY <1>1, <1>2, <1>3, <1>4 DEF UnloadFar, Goto, worldVars, CurIsVisited, TypeOK
<1>6. \/ view' = view
      \/ view' = [view EXCEPT ![s] =
                      [c \in StreamChunks |-> IF c \in gone THEN NoChunk ELSE @[c]]]
  BY <1>2, <1>3, <1>4 DEF UnloadFar
<1>7. /\ me \in SessionType /\ me.sentChunks \subseteq StreamChunks
      /\ me.flushedChunks \subseteq me.sentChunks /\ gone \subseteq StreamChunks
      /\ me.pendingBlockChanges \in [StreamChunks -> SUBSET Blocks]
      /\ session \in [players -> SessionType]
  BY <1>1, <1>2, <1>3, <1>4, <1>5, SessionFields DEF SentIsOwed, TypeOK
<1>8. /\ session' \in [players -> SessionType]
      /\ \A t \in players \ {s} : session'[t] = session[t]
      /\ session'[s].dimension = me.dimension /\ session'[s].connected = me.connected
      /\ session'[s].range = me.range /\ session'[s].newlyFlushed = me.newlyFlushed
      /\ session'[s].newlyUnloaded = gone
      /\ session'[s].sentChunks = me.sentChunks \cap me.range
      /\ session'[s].flushedChunks = me.flushedChunks \ gone
      /\ \A c \in StreamChunks : session'[s].pendingBlockChanges[c] =
             IF c \in gone THEN {} ELSE me.pendingBlockChanges[c]
  <2> DEFINE pending == [c \in StreamChunks |-> IF c \in gone THEN {} ELSE me.pendingBlockChanges[c]]
             new == [me EXCEPT !.sentChunks = me.sentChunks \cap me.range,
                               !.flushedChunks = @ \ gone,
                               !.newlyUnloaded = gone,
                               !.pendingBlockChanges = pending]
  <2>1. session' = [session EXCEPT ![s] = new]
    BY <1>2, <1>4, <1>5 DEF SentInRange
  <2>2. pending \in [StreamChunks -> SUBSET Blocks]
    BY <1>7
  <2>3. \A c \in StreamChunks : pending[c] = IF c \in gone THEN {} ELSE me.pendingBlockChanges[c]
    OBVIOUS
  <2> HIDE DEF pending
  <2>4. /\ new \in SessionType
        /\ new.dimension = me.dimension /\ new.connected = me.connected
        /\ new.range = me.range /\ new.newlyFlushed = me.newlyFlushed
        /\ new.newlyUnloaded = gone
        /\ new.sentChunks = me.sentChunks \cap me.range
        /\ new.flushedChunks = me.flushedChunks \ gone
        /\ new.pendingBlockChanges = pending
    BY <1>7, <2>2 DEF SessionType
  <2> HIDE DEF new
  <2>5. /\ session' \in [players -> SessionType]
        /\ \A t \in players \ {s} : session'[t] = session[t]
        /\ session'[s] = new
    <3>1. s \in players /\ session \in [players -> SessionType] /\ new \in SessionType
      BY <1>5, <1>7, <2>4
    <3> QED BY <2>1, <3>1
  <2> QED BY <2>3, <2>4, <2>5
<1>9. /\ inFlight' \in [Sessions -> [StreamChunks -> Jobs \cup {NoJob}]]
      /\ \A t \in Sessions \ {s} : inFlight'[t] = inFlight[t]
      /\ \A c \in StreamChunks : inFlight'[s][c] = IF c \in me.range THEN inFlight[s][c] ELSE NoJob
  BY <1>1, <1>5 DEF TypeOK
<1>10. /\ jobs' \in [Jobs -> Reads] /\ JobsApart' /\ FreeIsFresh'
       /\ \A t \in Sessions, c \in StreamChunks :
            inFlight'[t][c] # NoJob => jobs'[inFlight'[t][c]] = jobs[inFlight[t][c]]
       /\ \A e \in Dims, c \in StreamChunks :
            tickPackets'[e][c] # NoJob => jobs'[tickPackets'[e][c]] = jobs[tickPackets[e][c]]
  <2>1. \A t \in Sessions, c \in StreamChunks : inFlight'[t][c] \in {inFlight[t][c], NoJob}
    BY <1>9
  <2>2. \A t \in players : session'[t].dimension = session[t].dimension
    BY <1>2, <1>4, <1>8
  <2>3. /\ players' \subseteq players
        /\ \A t \in Sessions, c \in StreamChunks : inFlight'[t][c] \in {inFlight[t][c], NoJob}
        /\ \A e \in Dims, c \in StreamChunks : tickPackets'[e][c] \in {tickPackets[e][c], NoJob}
        /\ \A t \in players' : \/ session'[t].dimension = session[t].dimension
                               \/ \A c \in StreamChunks : inFlight'[t][c] = NoJob
        /\ DropJobs(inFlight', tickPackets')
    BY <1>5, <2>1, <2>2
  <2> QED BY <1>1, <2>3, JobsDropped
<1>11. /\ view' \in [Sessions -> [StreamChunks -> [Blocks -> Content] \cup {NoChunk}]]
       /\ \A t \in Sessions \ {s} : view'[t] = view[t]
       /\ \A c \in StreamChunks \ gone : view'[s][c] = view[s][c]
  <2>1. view \in [Sessions -> [StreamChunks -> [Blocks -> Content] \cup {NoChunk}]]
    BY <1>1 DEF TypeOK
  <2>2. CASE view' = view
    BY <2>1, <2>2
  <2>3. CASE view' = [view EXCEPT ![s] =
                          [c \in StreamChunks |-> IF c \in gone THEN NoChunk ELSE @[c]]]
    BY <1>5, <2>1, <2>3
  <2> QED BY <1>6, <2>2, <2>3
<1>12. TypeOK' /\ QueuesFinite'
  <2>1. \A t \in Sessions : /\ IsFiniteSet(Queued(t)')
                            /\ Cardinality({c \in StreamChunks : inFlight'[t][c] # NoJob}) <= BatchSize
    BY <1>1, <1>9, QueueShrinks
  <2>2. stale' \subseteq Sessions \X StreamChunks \X Blocks
    BY <1>1, <1>5 DEF TypeOK
  <2> QED BY <1>1, <1>5, <1>8, <1>9, <1>10, <1>11, <2>1, <2>2 DEF TypeOK, QueuesFinite, Phases
<1>13. OthersAreClean' /\ CurIsVisited'
  BY <1>1, <1>4, <1>5, <1>9 DEF OthersAreClean, CurIsVisited
<1>14. IndexInv'
  <2> SUFFICES ASSUME NEW t \in players PROVE IF Settled(t)' THEN IndexSettled(t)' ELSE IndexBehind(t)'
    BY <1>5 DEF IndexInv
  <2>1. IndexSettled(t) /\ t \in Sessions
    BY <1>1, <1>5 DEF IndexInv, Settled, TypeOK
  <2>2. CASE t = s
    <3>1. ~Settled(t)'
      BY <1>4, <1>5, <2>2 DEF Settled
    <3>2. IndexBehind(t)'
      <4>1. me.dimension \in Dims
        BY <1>7 DEF SessionType
      <4>2. /\ me.newlyFlushed = {}
            /\ \A d \in Dims, c \in StreamChunks :
                  s \in chunkSessions[d][c] <=> me.dimension = d /\ c \in me.flushedChunks
        BY <1>2, <1>4, <2>1, <2>2 DEF IndexSettled
      <4>3. /\ session'[s].sentChunks \subseteq session'[s].range
            /\ session'[s].newlyUnloaded \cap session'[s].range = {}
        BY <1>3, <1>8
      <4>4. \A d \in Dims, c \in StreamChunks : s \in chunkSessions'[d][c] => session'[s].dimension = d
        BY <1>5, <1>8, <4>2
      <4>5. \A c \in StreamChunks :
               c \in session'[s].flushedChunks <=>
                  /\ c \notin session'[s].newlyUnloaded
                  /\ \/ c \in session'[s].newlyFlushed
                     \/ s \in chunkSessions'[session'[s].dimension][c]
        BY <1>5, <1>8, <4>1, <4>2
      <4> QED BY <2>2, <4>3, <4>4, <4>5 DEF IndexBehind
    <3> QED BY <3>1, <3>2
  <2>3. CASE t # s
    <3>1. Settled(t)'
      BY <1>4, <1>5, <2>3 DEF Settled
    <3>2. IndexSettled(t)'
      BY <1>5, <1>8, <2>1, <2>3 DEF IndexSettled
    <3> QED BY <3>1, <3>2
  <2> QED BY <2>2, <2>3
<1>15. SentIsOwed'
  <2> SUFFICES ASSUME NEW t \in players, NEW c \in StreamChunks
               PROVE  /\ (c \in session'[t].sentChunks \ session'[t].flushedChunks)
                             <=> (inFlight'[t][c] # NoJob)
                      /\ session'[t].pendingBlockChanges[c] # {} => inFlight'[t][c] # NoJob
                      /\ c \in session'[t].flushedChunks => c \in session'[t].sentChunks
    BY <1>5 DEF SentIsOwed
  <2>1. /\ (c \in session[t].sentChunks \ session[t].flushedChunks) <=> (inFlight[t][c] # NoJob)
        /\ session[t].pendingBlockChanges[c] # {} => inFlight[t][c] # NoJob
        /\ c \in session[t].flushedChunks => c \in session[t].sentChunks
    BY <1>1 DEF SentIsOwed
  <2>2. t \in Sessions
    BY <1>1 DEF TypeOK
  <2>3. CASE t = s
    BY <1>2, <1>3, <1>4, <1>8, <1>9, <2>1, <2>3
  <2>4. CASE t # s
    BY <1>8, <1>9, <2>1, <2>2, <2>4
  <2> QED BY <2>3, <2>4
<1>16. SubRegionsOwn' /\ FlushedIsShown'
  <2>1. SubRegionsOwn'
    BY <1>1, <1>2, <1>4, <1>5, <1>8 DEF SubRegionsOwn, Flight
  <2>2. FlushedIsShown'
    <3> SUFFICES ASSUME NEW t \in players, session'[t].connected, NEW c \in session'[t].flushedChunks
                 PROVE  view'[t][c] # NoChunk
      BY <1>5 DEF FlushedIsShown
    <3>1. t \in Sessions
      BY <1>1 DEF TypeOK
    <3>2. CASE t = s
      BY <1>1, <1>2, <1>4, <1>7, <1>8, <1>11, <3>2 DEF FlushedIsShown
    <3>3. CASE t # s
      BY <1>1, <1>8, <1>11, <3>1, <3>3 DEF FlushedIsShown
    <3> QED BY <3>2, <3>3
  <2> QED BY <2>1, <2>2
<1>17. ChangesCurrent' /\ TickCurrent'
  BY <1>5, <1>10 DEF StreamInv, ChangesCurrent, TickCurrent, Broadcast
<1>18. ASSUME NEW t \in players
       PROVE  /\ WaitingCurrent(t)'
              /\ session'[t].connected => SubRegionsCurrent(t)' /\ ShownCurrent(t)'
  <2>1. /\ t \in Sessions /\ WaitingCurrent(t)
        /\ session[t].connected => SubRegionsCurrent(t) /\ ShownCurrent(t)
    BY <1>1 DEF StreamInv, TypeOK
  <2>2. CASE t = s
    <3>1. \A c \in session'[t].flushedChunks :
               c \in session[t].flushedChunks /\ view'[t][c] = view[t][c]
      BY <1>2, <1>4, <1>7, <1>8, <1>11, <2>2
    <3>2. \A c \in StreamChunks : inFlight'[t][c] # NoJob =>
               /\ inFlight'[t][c] = inFlight[t][c]
               /\ jobs'[inFlight'[t][c]] = jobs[inFlight[t][c]]
               /\ session'[t].pendingBlockChanges[c] = session[t].pendingBlockChanges[c]
               /\ c \notin gone
      BY <1>2, <1>3, <1>4, <1>8, <1>9, <1>10, <2>1, <2>2
    <3>3. \A c, b : /\ <<t, c, b>> \in stale
                    /\ c \in session'[t].flushedChunks \/ inFlight'[t][c] # NoJob
                    => <<t, c, b>> \in stale'
      <4> SUFFICES ASSUME NEW c, NEW b, <<t, c, b>> \in stale,
                          c \in session'[t].flushedChunks \/ inFlight'[t][c] # NoJob
                   PROVE  <<t, c, b>> \in stale'
        OBVIOUS
      <4>1. c \in StreamChunks
        BY <1>1 DEF TypeOK
      <4> QED BY <1>5, <1>8, <2>2, <3>2, <4>1
    <3>4. /\ session'[t].dimension = session[t].dimension
          /\ session'[t].connected => session[t].connected
      BY <1>2, <1>4, <1>8, <2>2
    <3> QED BY <1>5, <2>1, <3>1, <3>2, <3>3, <3>4, NarrowedSession
  <2>3. CASE t # s
    <3>1. \A c \in StreamChunks : inFlight[t][c] # NoJob =>
              jobs'[inFlight[t][c]] = jobs[inFlight[t][c]]
      BY <1>9, <1>10, <2>1, <2>3
    <3>2. \A c, b : <<t, c, b>> \in stale => <<t, c, b>> \in stale'
      BY <1>5, <2>3
    <3> QED BY <1>5, <1>8, <1>9, <1>11, <2>1, <2>3, <3>1, <3>2, OtherSession
  <2> QED BY <2>2, <2>3
<1> QED BY <1>5, <1>10, <1>12, <1>13, <1>14, <1>15, <1>16, <1>17, <1>18 DEF StreamInv, TypeInv

(* A chunk is queued with a job of its own, or with the one that this tick made
   for the same chunk. *)
LEMMA EnqueueStep ==
    ASSUME StreamInv, NEW c \in StreamChunks, Enqueue(c)
    PROVE  StreamInv'
<1>1. /\ TypeOK /\ OthersAreClean /\ CurIsVisited /\ IndexInv /\ SentIsOwed /\ SubRegionsOwn
      /\ QueuesFinite /\ FlushedIsShown /\ JobsApart /\ FreeIsFresh
  BY DEF StreamInv, TypeInv
<1>2. PICK s : s = cur
  OBVIOUS
<1>3. PICK d : d = session[s].dimension
  OBVIOUS
<1>4. /\ UNCHANGED <<block, ready, missed, chunkBlockChanges, players, chunkSessions, jobs,
                     subRegionFlight, pc, cur, todo, view>>
      /\ pc = "flush" /\ s \in players /\ s \in Sessions
      /\ session' = [session EXCEPT ![s].sentChunks = @ \cup {c}]
      /\ c \in session[s].range /\ c \notin session[s].sentChunks
      /\ Cardinality(Queued(s)) < BatchSize
  BY <1>1, <1>2 DEF Enqueue, CanSend, worldVars, tickVars, CurIsVisited, TypeOK
<1>5. PICK j \in Jobs :
        /\ inFlight' = [inFlight EXCEPT ![s][c] = j]
        /\ \/ /\ tickPackets[d][c] # NoJob /\ j = tickPackets[d][c]
              /\ UNCHANGED tickPackets
              /\ stale' = stale \cup Missed({s}, d, c)
           \/ /\ tickPackets[d][c] = NoJob
              /\ j \notin JobsOf(inFlight, tickPackets)
              /\ tickPackets' = [tickPackets EXCEPT ![d][c] = j]
              /\ stale' = stale
  BY <1>2, <1>3 DEF Enqueue
<1>6. /\ session \in [players -> SessionType] /\ session[s] \in SessionType
      /\ d \in Dims
  BY <1>1, <1>3, <1>4, SessionFields DEF TypeOK
<1>7. /\ session' \in [players -> SessionType]
      /\ \A t \in players \ {s} : session'[t] = session[t]
      /\ session'[s].sentChunks = session[s].sentChunks \cup {c}
      /\ \A t \in players : /\ session'[t].dimension = session[t].dimension
                            /\ session'[t].connected = session[t].connected
                            /\ session'[t].range = session[t].range
                            /\ session'[t].flushedChunks = session[t].flushedChunks
                            /\ session'[t].newlyFlushed = session[t].newlyFlushed
                            /\ session'[t].newlyUnloaded = session[t].newlyUnloaded
                            /\ session'[t].pendingBlockChanges = session[t].pendingBlockChanges
  <2>1. session' \in [players -> SessionType]
    BY <1>4, <1>6 DEF SessionType
  <2>2. \A t \in players \ {s} : session'[t] = session[t]
    BY <1>4, <1>6
  <2>3. /\ session'[s].sentChunks = session[s].sentChunks \cup {c}
        /\ session'[s].dimension = session[s].dimension
        /\ session'[s].connected = session[s].connected
        /\ session'[s].range = session[s].range
        /\ session'[s].flushedChunks = session[s].flushedChunks
        /\ session'[s].newlyFlushed = session[s].newlyFlushed
        /\ session'[s].newlyUnloaded = session[s].newlyUnloaded
        /\ session'[s].pendingBlockChanges = session[s].pendingBlockChanges
    BY <1>4, <1>6 DEF SessionType
  <2> QED BY <2>1, <2>2, <2>3
<1>8. inFlight[s][c] = NoJob /\ c \notin session[s].flushedChunks
  BY <1>1, <1>4 DEF SentIsOwed
<1>9. /\ inFlight' \in [Sessions -> [StreamChunks -> Jobs \cup {NoJob}]]
      /\ \A t \in Sessions \ {s} : inFlight'[t] = inFlight[t]
      /\ \A k \in StreamChunks : inFlight'[s][k] = IF k = c THEN j ELSE inFlight[s][k]
      /\ j # NoJob
  BY <1>1, <1>4, <1>5, JobsType DEF TypeOK
<1>10. /\ tickPackets' \in [Dims -> [StreamChunks -> Jobs \cup {NoJob}]]
       /\ \A e \in Dims, k \in StreamChunks :
             tickPackets'[e][k] = IF e = d /\ k = c THEN j ELSE tickPackets[e][k]
       /\ tickPackets[d][c] \in {j, NoJob}
  <2>1. tickPackets \in [Dims -> [StreamChunks -> Jobs \cup {NoJob}]]
    BY <1>1 DEF TypeOK
  <2>2. CASE tickPackets' = tickPackets /\ j = tickPackets[d][c]
    BY <1>6, <2>1, <2>2
  <2>3. CASE tickPackets' = [tickPackets EXCEPT ![d][c] = j] /\ tickPackets[d][c] = NoJob
    BY <1>6, <2>1, <2>3
  <2> QED BY <1>5, <2>2, <2>3
<1>11. \A t : t \in stale => t \in stale'
  BY <1>5
<1>12. TypeOK' /\ QueuesFinite'
  <2>1. ASSUME NEW t \in Sessions
        PROVE  IsFiniteSet(Queued(t)') /\ Cardinality(Queued(t)') <= BatchSize
    <3>1. IsFiniteSet(Queued(t)) /\ Cardinality(Queued(t)) <= BatchSize
      BY <1>1 DEF QueuesFinite, TypeOK, Queued
    <3>2. CASE t = s
      <4>1. Queued(t)' = Queued(t) \cup {c} /\ c \notin Queued(t)
        BY <1>8, <1>9, <3>2 DEF Queued
      <4>2. /\ IsFiniteSet(Queued(t) \cup {c})
            /\ Cardinality(Queued(t) \cup {c}) = Cardinality(Queued(t)) + 1
        BY <3>1, <4>1, FS_AddElement
      <4>3. Cardinality(Queued(t)) \in Nat
        BY <3>1, FS_CardinalityType
      <4>4. Cardinality(Queued(t)) + 1 <= BatchSize
        BY <1>4, <3>2, <4>3, BoundsType
      <4> QED BY <4>1, <4>2, <4>4
    <3>3. CASE t # s
      <4>1. Queued(t)' = Queued(t)
        BY <1>9, <3>3 DEF Queued
      <4> QED BY <3>1, <4>1
    <3> QED BY <3>2, <3>3
  <2>2. \A t \in Sessions : Cardinality({k \in StreamChunks : inFlight'[t][k] # NoJob}) <= BatchSize
    BY <2>1 DEF Queued
  <2>3. stale' \subseteq Sessions \X StreamChunks \X Blocks
    <3>1. stale \subseteq Sessions \X StreamChunks \X Blocks
      BY <1>1 DEF TypeOK
    <3>2. Missed({s}, d, c) \subseteq Sessions \X StreamChunks \X Blocks
      BY <1>4 DEF Missed
    <3> QED BY <1>5, <3>1, <3>2
  <2> QED BY <1>1, <1>4, <1>7, <1>9, <1>10, <2>1, <2>2, <2>3 DEF TypeOK, QueuesFinite
<1>13. OthersAreClean' /\ CurIsVisited'
  BY <1>1, <1>2, <1>4, <1>9 DEF OthersAreClean, CurIsVisited
<1>14. IndexInv'
  <2> SUFFICES ASSUME NEW t \in players PROVE IF Settled(t)' THEN IndexSettled(t)' ELSE IndexBehind(t)'
    BY <1>4 DEF IndexInv
  <2>1. IF Settled(t) THEN IndexSettled(t) ELSE IndexBehind(t)
    BY <1>1 DEF IndexInv
  <2>2. Settled(t)' <=> Settled(t)
    BY <1>4 DEF Settled
  <2>3. IndexSettled(t) => IndexSettled(t)'
    BY <1>4, <1>7 DEF IndexSettled
  <2>4. IndexBehind(t) => IndexBehind(t)'
    BY <1>4, <1>7 DEF IndexBehind
  <2> QED BY <2>1, <2>2, <2>3, <2>4
<1>15. SentIsOwed'
  <2> SUFFICES ASSUME NEW t \in players, NEW k \in StreamChunks
               PROVE  /\ (k \in session'[t].sentChunks \ session'[t].flushedChunks)
                             <=> (inFlight'[t][k] # NoJob)
                      /\ session'[t].pendingBlockChanges[k] # {} => inFlight'[t][k] # NoJob
                      /\ k \in session'[t].flushedChunks => k \in session'[t].sentChunks
    BY <1>4 DEF SentIsOwed
  <2>1. /\ (k \in session[t].sentChunks \ session[t].flushedChunks) <=> (inFlight[t][k] # NoJob)
        /\ session[t].pendingBlockChanges[k] # {} => inFlight[t][k] # NoJob
        /\ k \in session[t].flushedChunks => k \in session[t].sentChunks
    BY <1>1 DEF SentIsOwed
  <2>2. t \in Sessions
    BY <1>1 DEF TypeOK
  <2>3. CASE t = s
    BY <1>7, <1>8, <1>9, <2>1, <2>3
  <2>4. CASE t # s
    BY <1>7, <1>9, <2>1, <2>2, <2>4
  <2> QED BY <2>3, <2>4
<1>16. SubRegionsOwn' /\ FlushedIsShown'
  BY <1>1, <1>4, <1>7 DEF SubRegionsOwn, FlushedIsShown, Flight
<1>17. JobsApart'
  <2>1. ASSUME NEW i \in Jobs, NEW e \in Dims, NEW k \in StreamChunks, IsJobFor(i, e, k)'
        PROVE  IsJobFor(i, e, k) \/ (i = j /\ e = d /\ k = c)
    <3>1. players \subseteq Sessions
      BY <1>1 DEF TypeOK
    <3>2. CASE tickPackets'[e][k] = i
      BY <1>10, <3>2 DEF IsJobFor
    <3>3. CASE \E t \in players : session[t].dimension = e /\ inFlight'[t][k] = i
      <4>1. PICK t \in players : session[t].dimension = e /\ inFlight'[t][k] = i
        BY <3>3
      <4>2. CASE t = s /\ k = c
        BY <1>3, <1>9, <4>1, <4>2
      <4>3. CASE ~(t = s /\ k = c)
        <5>1. inFlight[t][k] = i
          BY <1>9, <3>1, <4>1, <4>3
        <5> QED BY <4>1, <5>1 DEF IsJobFor
      <4> QED BY <4>2, <4>3
    <3> QED BY <1>4, <1>7, <2>1, <3>2, <3>3 DEF IsJobFor
  <2>2. ASSUME NEW e \in Dims, NEW k \in StreamChunks, IsJobFor(j, e, k)
        PROVE  e = d /\ k = c
    <3>1. CASE j = tickPackets[d][c]
      BY <1>1, <1>6, <2>2, <3>1 DEF JobsApart, IsJobFor
    <3>2. CASE j \notin JobsOf(inFlight, tickPackets)
      <4>1. players \subseteq Sessions
        BY <1>1 DEF TypeOK
      <4> QED BY <2>2, <3>2, <4>1, JobsReferred DEF IsJobFor
    <3> QED BY <1>5, <3>1, <3>2
  <2> QED BY <1>1, <2>1, <2>2 DEF JobsApart
<1>18. FreeIsFresh'
  <2> SUFFICES ASSUME NEW i \in Jobs, i \in JobsOf(inFlight, tickPackets)
               PROVE  i \in JobsOf(inFlight', tickPackets')
    BY <1>1, <1>4 DEF FreeIsFresh
  <2>0. i # NoJob
    BY JobsType
  <2>1. CASE \E t \in Sessions, k \in StreamChunks : i = inFlight[t][k]
    <3>1. PICK t \in Sessions, k \in StreamChunks : i = inFlight[t][k]
      BY <2>1
    <3>2. inFlight'[t][k] = i
      BY <1>8, <1>9, <2>0, <3>1
    <3> QED BY <3>2 DEF JobsOf
  <2>2. CASE \E e \in Dims, k \in StreamChunks : i = tickPackets[e][k]
    <3>1. PICK e \in Dims, k \in StreamChunks : i = tickPackets[e][k]
      BY <2>2
    <3>2. tickPackets'[e][k] = i
      BY <1>10, <2>0, <3>1
    <3> QED BY <3>2 DEF JobsOf
  <2> QED BY <2>1, <2>2 DEF JobsOf
<1>19. tickPackets[d][c] = NoJob => jobs[j] = Nothing
  BY <1>1, <1>5 DEF FreeIsFresh
<1>20. ChangesCurrent' /\ TickCurrent'
  <2>1. ChangesCurrent'
    BY <1>4 DEF StreamInv, ChangesCurrent
  <2>2. TickCurrent'
    <3> SUFFICES ASSUME NEW e \in Dims, NEW k \in StreamChunks, tickPackets'[e][k] # NoJob,
                        NEW b \in DOMAIN jobs[tickPackets'[e][k]]
                 PROVE  \/ jobs[tickPackets'[e][k]][b] = block[e][k][b]
                        \/ Broadcast(e, k, b)
                        \/ <<e, k, b>> \in missed
      BY <1>4 DEF TickCurrent, Broadcast
    <3>1. tickPackets[e][k] = tickPackets'[e][k]
      BY <1>10, <1>19, NothingRead
    <3> QED BY <1>4, <3>1 DEF StreamInv, TickCurrent
  <2> QED BY <2>1, <2>2
<1>21. ASSUME NEW t \in players
       PROVE  /\ WaitingCurrent(t)'
              /\ session'[t].connected => SubRegionsCurrent(t)' /\ ShownCurrent(t)'
  <2>1. /\ t \in Sessions /\ WaitingCurrent(t)
        /\ session[t].connected => SubRegionsCurrent(t) /\ ShownCurrent(t)
    BY <1>1 DEF StreamInv, TypeOK
  <2>2. CASE t = s
    <3>1. WaitingCurrent(t)'
      <4> SUFFICES ASSUME NEW k \in StreamChunks, inFlight'[s][k] # NoJob,
                          NEW b \in DOMAIN jobs[inFlight'[s][k]]
                   PROVE  \/ jobs[inFlight'[s][k]][b] = block[d][k][b]
                          \/ Broadcast(d, k, b)
                          \/ b \in session[s].pendingBlockChanges[k]
                          \/ <<s, k, b>> \in stale'
        BY <1>3, <1>4, <1>7, <2>2 DEF WaitingCurrent, Broadcast
      <4>1. CASE k = c
        <5>1. j = tickPackets[d][c] /\ j # NoJob /\ stale' = stale \cup Missed({s}, d, c)
          BY <1>5, <1>9, <1>19, <4>1, NothingRead
        <5>2. b \in DOMAIN jobs[j] /\ b \in Blocks
          <6>1. jobs[j] \in Reads
            BY <1>1 DEF TypeOK
          <6> QED BY <1>9, <4>1, <6>1, ReadsDomain
        <5>3. jobs[j][b] = block[d][c][b] \/ Broadcast(d, c, b) \/ <<d, c, b>> \in missed
          BY <1>4, <1>6, <5>1, <5>2 DEF StreamInv, TickCurrent
        <5>4. <<d, c, b>> \in missed => <<s, c, b>> \in stale'
          BY <5>1, <5>2 DEF Missed
        <5> QED BY <1>9, <4>1, <5>3, <5>4
      <4>2. CASE k # c
        <5>1. inFlight'[s][k] = inFlight[s][k]
          BY <1>9, <4>2
        <5> QED BY <1>3, <1>11, <2>1, <2>2, <5>1 DEF WaitingCurrent
      <4> QED BY <4>1, <4>2
    <3>2. session[t].connected => SubRegionsCurrent(t)'
      BY <1>4, <1>7, <1>11, <2>1 DEF SubRegionsCurrent, SubRegionCurrent, ReadCurrent, CoveredAgain,
         Broadcast, Flight
    <3>3. session[t].connected => ShownCurrent(t)'
      BY <1>4, <1>7, <1>11, <2>1 DEF ShownCurrent, UpdateDue, Covered
    <3> QED BY <1>7, <3>1, <3>2, <3>3
  <2>3. CASE t # s
    <3>1. \A k, b : <<t, k, b>> \in stale => <<t, k, b>> \in stale'
      BY <1>11
    <3> QED BY <1>4, <1>7, <1>9, <2>1, <2>3, <3>1, OtherSession
  <2> QED BY <2>2, <2>3
<1> QED BY <1>4, <1>12, <1>13, <1>14, <1>15, <1>16, <1>17, <1>18, <1>20, <1>21 DEF StreamInv, TypeInv

(* What a new sub-region job changes: nothing that was in flight. *)
LaterJobs(s) ==
    /\ subRegionFlight'[s] \in Seq(SubRegions)
    /\ Flight(s) \subseteq Flight(s)'
    /\ \A i \in Flight(s) : subRegionFlight'[s][i] = subRegionFlight[s][i]
    /\ \A i \in Flight(s)' \ Flight(s) : /\ subRegionFlight'[s][i].dim = session[s].dimension
                                        /\ subRegionFlight'[s][i].read = Nothing
    /\ \A c, b : b \in Covered(s, c) => b \in Covered(s, c)'
    /\ \A i, b : i \in Flight(s) /\ CoveredAgain(s, i, b) => CoveredAgain(s, i, b)'

LEMMA SameJobs ==
    ASSUME NEW s \in Sessions, subRegionFlight \in [Sessions -> Seq(SubRegions)],
           subRegionFlight'[s] = subRegionFlight[s]
    PROVE  LaterJobs(s)
BY DEF LaterJobs, Flight, Covered, CoveredAgain

LEMMA JobAppended ==
    ASSUME NEW s \in Sessions, subRegionFlight \in [Sessions -> Seq(SubRegions)],
           NEW job \in SubRegions, job.dim = session[s].dimension, job.read = Nothing,
           subRegionFlight'[s] = Append(subRegionFlight[s], job)
    PROVE  /\ LaterJobs(s)
           /\ \A b \in job.box :
                /\ b \in Covered(s, job.chunk)'
                /\ \A i \in Flight(s) :
                     subRegionFlight[s][i].chunk = job.chunk => CoveredAgain(s, i, b)'
<1>1. subRegionFlight[s] \in Seq(SubRegions) /\ Len(subRegionFlight[s]) \in Nat
  OBVIOUS
<1> DEFINE last == Len(subRegionFlight[s]) + 1
<1>2. /\ subRegionFlight'[s] \in Seq(SubRegions)
      /\ Flight(s)' = Flight(s) \cup {last} /\ \A i \in Flight(s) : i < last
      /\ \A i \in Flight(s) : subRegionFlight'[s][i] = subRegionFlight[s][i]
      /\ subRegionFlight'[s][last] = job
  BY <1>1 DEF Flight
<1> HIDE DEF last
<1>3. \A c, b : b \in Covered(s, c)' <=>
          \E i \in Flight(s)' : subRegionFlight'[s][i].chunk = c /\ b \in subRegionFlight'[s][i].box
  <2>1. DOMAIN subRegionFlight'[s] = Flight(s)'
    BY <1>2 DEF Flight
  <2> QED BY <2>1 DEF Covered
<1>4. \A c, b : b \in Covered(s, c) <=>
          \E i \in Flight(s) : subRegionFlight[s][i].chunk = c /\ b \in subRegionFlight[s][i].box
  BY CoveredBy
<1>5. ASSUME NEW c, NEW b, b \in Covered(s, c) PROVE b \in Covered(s, c)'
  <2>1. PICK i \in Flight(s) : subRegionFlight[s][i].chunk = c /\ b \in subRegionFlight[s][i].box
    BY <1>4, <1>5
  <2>2. i \in Flight(s)' /\ subRegionFlight'[s][i] = subRegionFlight[s][i]
    BY <1>2
  <2> QED BY <1>3, <2>1, <2>2
<1>6. \A b \in job.box : b \in Covered(s, job.chunk)'
  BY <1>2, <1>3
<1>7. \A i, b : i \in Flight(s) /\ CoveredAgain(s, i, b) => CoveredAgain(s, i, b)'
  BY <1>2 DEF CoveredAgain
<1>8. \A b \in job.box, i \in Flight(s) :
          subRegionFlight[s][i].chunk = job.chunk => CoveredAgain(s, i, b)'
  BY <1>2 DEF CoveredAgain
<1> QED BY <1>2, <1>5, <1>6, <1>7, <1>8 DEF LaterJobs

(* The chunk a client gets has what was read of it; what changed while it waited
   follows as a sub-region. *)
LEMMA FlushChunkStep ==
    ASSUME StreamInv, NEW c \in StreamChunks, FlushChunk(c)
    PROVE  StreamInv'
<1>1. /\ TypeOK /\ OthersAreClean /\ CurIsVisited /\ IndexInv /\ SentIsOwed /\ SubRegionsOwn
      /\ QueuesFinite /\ FlushedIsShown /\ JobsApart
  BY DEF StreamInv, TypeInv
<1>2. PICK s : s = cur
  OBVIOUS
<1>3. PICK d : d = session[s].dimension
  OBVIOUS
<1>4. PICK shown : shown = jobs[inFlight[s][c]]
  OBVIOUS
<1>5. /\ UNCHANGED <<block, ready, missed, chunkBlockChanges, players, chunkSessions, tickPackets,
                     pc, cur, todo>>
      /\ pc = "flush" /\ s \in players /\ s \in Sessions
      /\ inFlight[s][c] # NoJob /\ DOMAIN shown = Blocks
      /\ session' = [session EXCEPT ![s].flushedChunks = @ \cup {c},
                         ![s].newlyFlushed = @ \cup {c}, ![s].pendingBlockChanges[c] = {}]
      /\ inFlight' = [inFlight EXCEPT ![s][c] = NoJob]
      /\ DropJobs(inFlight', tickPackets)
  BY <1>1, <1>2, <1>4 DEF FlushChunk, ChunkDone, Done, worldVars, tickVars, CurIsVisited, TypeOK
<1>6. /\ session[s].connected => /\ view' = [view EXCEPT ![s][c] = shown]
                                 /\ stale' = stale \cup Overtaken({s}, c, Blocks)
      /\ ~session[s].connected => UNCHANGED clientVars
      /\ subRegionFlight' = [subRegionFlight EXCEPT ![s] = WaitingUpdates(s, c)]
  BY <1>2, <1>4 DEF FlushChunk
<1>7. /\ session \in [players -> SessionType] /\ session[s] \in SessionType
      /\ session[s].pendingBlockChanges \in [StreamChunks -> SUBSET Blocks]
      /\ d \in Dims /\ session[s].connected \in BOOLEAN
  BY <1>1, <1>3, <1>5, SessionFields DEF TypeOK
<1>8. /\ session' \in [players -> SessionType]
      /\ \A t \in players \ {s} : session'[t] = session[t]
      /\ session'[s].dimension = d /\ session'[s].connected = session[s].connected
      /\ session'[s].range = session[s].range
      /\ session'[s].sentChunks = session[s].sentChunks
      /\ session'[s].newlyUnloaded = session[s].newlyUnloaded
      /\ session'[s].newlyFlushed = session[s].newlyFlushed \cup {c}
      /\ session'[s].flushedChunks = session[s].flushedChunks \cup {c}
      /\ \A k \in StreamChunks : session'[s].pendingBlockChanges[k] =
             IF k = c THEN {} ELSE session[s].pendingBlockChanges[k]
  <2> DEFINE me == session[s]
             pending == [me.pendingBlockChanges EXCEPT ![c] = {}]
             new == [me EXCEPT !.flushedChunks = @ \cup {c}, !.newlyFlushed = @ \cup {c},
                               !.pendingBlockChanges = pending]
  <2>1. session' = [session EXCEPT ![s] = new]
    BY <1>5, <1>7
  <2>2. pending \in [StreamChunks -> SUBSET Blocks]
    BY <1>7
  <2>3. \A k \in StreamChunks : pending[k] = IF k = c THEN {} ELSE me.pendingBlockChanges[k]
    BY <1>7
  <2> HIDE DEF pending
  <2>4. /\ new \in SessionType
        /\ new.dimension = d /\ new.connected = me.connected /\ new.range = me.range
        /\ new.sentChunks = me.sentChunks /\ new.newlyUnloaded = me.newlyUnloaded
        /\ new.newlyFlushed = me.newlyFlushed \cup {c}
        /\ new.flushedChunks = me.flushedChunks \cup {c}
        /\ new.pendingBlockChanges = pending
    BY <1>3, <1>7, <2>2 DEF SessionType
  <2> HIDE DEF new
  <2>5. /\ session' \in [players -> SessionType]
        /\ \A t \in players \ {s} : session'[t] = session[t]
        /\ session'[s] = new
    <3>1. s \in players /\ session \in [players -> SessionType] /\ new \in SessionType
      BY <1>5, <1>7, <2>4
    <3> QED BY <2>1, <3>1
  <2> QED BY <2>3, <2>4, <2>5
<1>9. /\ inFlight' \in [Sessions -> [StreamChunks -> Jobs \cup {NoJob}]]
      /\ \A t \in Sessions \ {s} : inFlight'[t] = inFlight[t]
      /\ \A k \in StreamChunks : inFlight'[s][k] = IF k = c THEN NoJob ELSE inFlight[s][k]
  BY <1>1, <1>5 DEF TypeOK
<1>10. /\ jobs' \in [Jobs -> Reads] /\ JobsApart' /\ FreeIsFresh'
       /\ \A t \in Sessions, k \in StreamChunks :
            inFlight'[t][k] # NoJob => jobs'[inFlight'[t][k]] = jobs[inFlight[t][k]]
       /\ \A e \in Dims, k \in StreamChunks :
            tickPackets'[e][k] # NoJob => jobs'[tickPackets'[e][k]] = jobs[tickPackets[e][k]]
  <2>1. \A t \in Sessions, k \in StreamChunks : inFlight'[t][k] \in {inFlight[t][k], NoJob}
    BY <1>9
  <2>2. \A t \in players : session'[t].dimension = session[t].dimension
    BY <1>3, <1>8
  <2>3. /\ players' \subseteq players
        /\ \A t \in Sessions, k \in StreamChunks : inFlight'[t][k] \in {inFlight[t][k], NoJob}
        /\ \A e \in Dims, k \in StreamChunks : tickPackets'[e][k] \in {tickPackets[e][k], NoJob}
        /\ \A t \in players' : \/ session'[t].dimension = session[t].dimension
                               \/ \A k \in StreamChunks : inFlight'[t][k] = NoJob
        /\ DropJobs(inFlight', tickPackets')
    BY <1>5, <2>1, <2>2
  <2> QED BY <1>1, <2>3, JobsDropped
<1>11. shown \in [Blocks -> Content] /\ shown # NoChunk
  <2>1. shown \in Reads
    BY <1>1, <1>4, <1>5 DEF TypeOK
  <2> QED BY <1>5, <2>1, ReadsDomain
<1>12. /\ view' \in [Sessions -> [StreamChunks -> [Blocks -> Content] \cup {NoChunk}]]
       /\ \A t \in Sessions \ {s} : view'[t] = view[t]
       /\ \A k \in StreamChunks \ {c} : view'[s][k] = view[s][k]
       /\ session[s].connected => view'[s][c] = shown
       /\ \A t : t \in stale => t \in stale'
       /\ stale' \subseteq Sessions \X StreamChunks \X Blocks
       /\ session[s].connected =>
            \A b \in Blocks : b \in Covered(s, c) => <<s, c, b>> \in stale'
  <2>1. view \in [Sessions -> [StreamChunks -> [Blocks -> Content] \cup {NoChunk}]]
    BY <1>1 DEF TypeOK
  <2>2. stale \subseteq Sessions \X StreamChunks \X Blocks
    BY <1>1 DEF TypeOK
  <2>3. CASE session[s].connected
    <3>1. /\ view' \in [Sessions -> [StreamChunks -> [Blocks -> Content] \cup {NoChunk}]]
          /\ \A t \in Sessions \ {s} : view'[t] = view[t]
          /\ \A k \in StreamChunks \ {c} : view'[s][k] = view[s][k]
          /\ view'[s][c] = shown
      <4>1. view' = [view EXCEPT ![s] = [@ EXCEPT ![c] = shown]] /\ s \in Sessions
        BY <1>5, <1>6, <2>3
      <4>2. [view[s] EXCEPT ![c] = shown] \in [StreamChunks -> [Blocks -> Content] \cup {NoChunk}]
        BY <1>11, <2>1, <4>1
      <4> QED BY <2>1, <4>1, <4>2
    <3>2. /\ Overtaken({s}, c, Blocks) \subseteq Sessions \X StreamChunks \X Blocks
          /\ \A b \in Blocks : b \in Covered(s, c) => <<s, c, b>> \in Overtaken({s}, c, Blocks)
      BY <1>5 DEF Overtaken
    <3> QED BY <1>6, <2>2, <2>3, <3>1, <3>2
  <2>4. CASE ~session[s].connected
    BY <1>6, <2>1, <2>2, <2>4 DEF clientVars
  <2> QED BY <2>3, <2>4
<1>13. /\ subRegionFlight' \in [Sessions -> Seq(SubRegions)]
       /\ \A t \in Sessions \ {s} : subRegionFlight'[t] = subRegionFlight[t]
       /\ LaterJobs(s)
       /\ \A b \in session[s].pendingBlockChanges[c] : b \in Covered(s, c)'
  <2>1. subRegionFlight \in [Sessions -> Seq(SubRegions)]
    BY <1>1 DEF TypeOK
  <2>4. PICK changes : changes = session[s].pendingBlockChanges[c]
    OBVIOUS
  <2>5. PICK job : job = SubRegionJob(d, c, changes)
    OBVIOUS
  <2>2. CASE changes = {}
    <3>1. subRegionFlight' = subRegionFlight
      BY <1>5, <1>6, <2>1, <2>2, <2>4 DEF WaitingUpdates
    <3> QED BY <1>5, <2>1, <2>2, <2>4, <3>1, SameJobs
  <2>3. CASE changes # {}
    <3>1. subRegionFlight' = [subRegionFlight EXCEPT ![s] = Append(subRegionFlight[s], job)]
      BY <1>3, <1>6, <2>3, <2>4, <2>5 DEF WaitingUpdates
    <3>2. changes \in SUBSET Blocks
      BY <1>7, <2>4
    <3>3. /\ job \in SubRegions /\ job.dim = d /\ job.chunk = c /\ job.read = Nothing
          /\ changes \subseteq job.box
      BY <1>7, <2>5, <3>2, NewJobType
    <3>4. /\ \A t \in Sessions \ {s} : subRegionFlight'[t] = subRegionFlight[t]
          /\ subRegionFlight'[s] = Append(subRegionFlight[s], job)
          /\ subRegionFlight' \in [Sessions -> Seq(SubRegions)]
      BY <1>5, <2>1, <3>1, <3>3
    <3>5. /\ LaterJobs(s)
          /\ \A b \in job.box : b \in Covered(s, job.chunk)'
      <4>1. s \in Sessions /\ job.dim = session[s].dimension
        BY <1>3, <1>5, <3>3
      <4> QED BY <2>1, <3>3, <3>4, <4>1, JobAppended
    <3> QED BY <2>4, <3>3, <3>4, <3>5
  <2> QED BY <2>2, <2>3
<1>14. TypeOK' /\ QueuesFinite'
  <2>1. \A t \in Sessions : /\ IsFiniteSet(Queued(t)')
                            /\ Cardinality({k \in StreamChunks : inFlight'[t][k] # NoJob}) <= BatchSize
    BY <1>1, <1>9, QueueShrinks
  <2> QED BY <1>1, <1>5, <1>8, <1>9, <1>10, <1>12, <1>13, <2>1 DEF TypeOK, QueuesFinite
<1>15. OthersAreClean' /\ CurIsVisited'
  BY <1>1, <1>2, <1>5, <1>9, <1>13 DEF OthersAreClean, CurIsVisited
<1>16. c \in session[s].sentChunks /\ c \notin session[s].flushedChunks
  BY <1>1, <1>5 DEF SentIsOwed
<1>17. IndexInv'
  <2> SUFFICES ASSUME NEW t \in players PROVE IF Settled(t)' THEN IndexSettled(t)' ELSE IndexBehind(t)'
    BY <1>5 DEF IndexInv
  <2>1. IF Settled(t) THEN IndexSettled(t) ELSE IndexBehind(t)
    BY <1>1 DEF IndexInv
  <2>2. CASE t = s
    <3>1. ~Settled(t) /\ ~Settled(t)'
      BY <1>2, <1>5, <2>2 DEF Settled
    <3>2. IndexBehind(t)'
      BY <1>3, <1>5, <1>8, <1>16, <2>1, <2>2, <3>1 DEF IndexBehind
    <3> QED BY <3>1, <3>2
  <2>3. CASE t # s
    <3>1. Settled(t) /\ Settled(t)'
      BY <1>2, <1>5, <2>3 DEF Settled
    <3>2. IndexSettled(t)'
      BY <1>5, <1>8, <2>1, <2>3, <3>1 DEF IndexSettled
    <3> QED BY <3>1, <3>2
  <2> QED BY <2>2, <2>3
<1>18. SentIsOwed'
  <2> SUFFICES ASSUME NEW t \in players, NEW k \in StreamChunks
               PROVE  /\ (k \in session'[t].sentChunks \ session'[t].flushedChunks)
                             <=> (inFlight'[t][k] # NoJob)
                      /\ session'[t].pendingBlockChanges[k] # {} => inFlight'[t][k] # NoJob
                      /\ k \in session'[t].flushedChunks => k \in session'[t].sentChunks
    BY <1>5 DEF SentIsOwed
  <2>1. /\ (k \in session[t].sentChunks \ session[t].flushedChunks) <=> (inFlight[t][k] # NoJob)
        /\ session[t].pendingBlockChanges[k] # {} => inFlight[t][k] # NoJob
        /\ k \in session[t].flushedChunks => k \in session[t].sentChunks
    BY <1>1 DEF SentIsOwed
  <2>2. t \in Sessions
    BY <1>1 DEF TypeOK
  <2>3. CASE t = s
    BY <1>8, <1>9, <1>16, <2>1, <2>3
  <2>4. CASE t # s
    BY <1>8, <1>9, <2>1, <2>2, <2>4
  <2> QED BY <2>3, <2>4
<1>19. FlushedIsShown'
  <2> SUFFICES ASSUME NEW t \in players, session'[t].connected, NEW k \in session'[t].flushedChunks
               PROVE  view'[t][k] # NoChunk
    BY <1>5 DEF FlushedIsShown
  <2>1. t \in Sessions /\ session[t].flushedChunks \subseteq StreamChunks
    BY <1>1, SessionFields DEF TypeOK
  <2>2. CASE t = s /\ k = c
    BY <1>8, <1>11, <1>12, <2>2
  <2>3. CASE t = s /\ k # c
    BY <1>1, <1>8, <1>12, <2>1, <2>3 DEF FlushedIsShown
  <2>4. CASE t # s
    BY <1>1, <1>8, <1>12, <2>1, <2>4 DEF FlushedIsShown
  <2> QED BY <2>2, <2>3, <2>4
<1>20. SubRegionsOwn'
  <2> SUFFICES ASSUME NEW t \in players, NEW i \in Flight(t)'
               PROVE  /\ subRegionFlight'[t][i].dim = session'[t].dimension
                      /\ DOMAIN subRegionFlight'[t][i].read \subseteq subRegionFlight'[t][i].box
    BY <1>5 DEF SubRegionsOwn
  <2>1. CASE t = s
    BY <1>1, <1>3, <1>8, <1>13, <2>1, NothingRead DEF SubRegionsOwn, LaterJobs
  <2>2. CASE t # s
    <3>1. subRegionFlight'[t] = subRegionFlight[t] /\ session'[t] = session[t]
      BY <1>1, <1>8, <1>13, <2>2 DEF TypeOK
    <3> QED BY <1>1, <3>1 DEF SubRegionsOwn, Flight
  <2> QED BY <2>1, <2>2
<1>21. ChangesCurrent' /\ TickCurrent'
  BY <1>5, <1>10 DEF StreamInv, ChangesCurrent, TickCurrent, Broadcast
<1>22. ASSUME NEW t \in players
       PROVE  /\ WaitingCurrent(t)'
              /\ session'[t].connected => SubRegionsCurrent(t)' /\ ShownCurrent(t)'
  <2>1. /\ t \in Sessions /\ WaitingCurrent(t)
        /\ session[t].connected => SubRegionsCurrent(t) /\ ShownCurrent(t)
    BY <1>1 DEF StreamInv, TypeOK
  <2>2. CASE t = s
    <3>1. WaitingCurrent(t)'
      BY <1>3, <1>5, <1>8, <1>9, <1>10, <1>12, <2>1, <2>2 DEF WaitingCurrent, Broadcast
    <3>2. ASSUME session[s].connected PROVE SubRegionsCurrent(s)'
      <4> SUFFICES ASSUME NEW i \in Flight(s)',
                          subRegionFlight'[s][i].chunk \in session'[s].flushedChunks,
                          NEW b \in DOMAIN subRegionFlight'[s][i].read
                   PROVE  ReadCurrent(s, subRegionFlight[s][i], b)' \/ CoveredAgain(s, i, b)'
        BY DEF SubRegionsCurrent, SubRegionCurrent
      <4>1. i \in Flight(s)
        BY <1>13, NothingRead DEF LaterJobs
      <4>2. PICK job : job = subRegionFlight[s][i] /\ job = subRegionFlight'[s][i]
        BY <1>13, <4>1 DEF LaterJobs
      <4>3. CASE job.chunk = c
        <5>1. b \in job.box
          BY <1>1, <1>5, <4>1, <4>2 DEF SubRegionsOwn
        <5>2. b \in Covered(s, c) /\ b \in Blocks
          <6>1. subRegionFlight[s] \in Seq(SubRegions)
            BY <1>1, <1>5 DEF TypeOK
          <6>2. job \in SubRegions
            <7>1. subRegionFlight[s][i] \in SubRegions
              BY <4>1, <6>1 DEF Flight
            <7> QED BY <4>2, <7>1
          <6>3. subRegionFlight \in [Sessions -> Seq(SubRegions)]
            BY <1>1 DEF TypeOK
          <6>4. \A e : e \in Covered(s, c) <=>
                  \E k \in Flight(s) : /\ subRegionFlight[s][k].chunk = c
                                       /\ e \in subRegionFlight[s][k].box
            BY <1>5, <6>3, CoveredBy
          <6> QED BY <4>1, <4>2, <4>3, <5>1, <6>2, <6>4 DEF SubRegions
        <5>3. <<s, c, b>> \in stale'
          BY <1>12, <3>2, <5>2
        <5> QED BY <4>2, <4>3, <5>3 DEF ReadCurrent
      <4>4. CASE job.chunk # c
        <5>1. job.chunk \in session[s].flushedChunks
          BY <1>8, <4>2, <4>4
        <5>2. ReadCurrent(s, job, b) \/ CoveredAgain(s, i, b)
          BY <2>1, <2>2, <3>2, <4>1, <4>2, <5>1 DEF SubRegionsCurrent, SubRegionCurrent
        <5>3. ReadCurrent(s, job, b) => ReadCurrent(s, job, b)'
          BY <1>5, <1>12, <4>2 DEF ReadCurrent, Broadcast
        <5>4. CoveredAgain(s, i, b) => CoveredAgain(s, i, b)'
          BY <1>13, <4>1 DEF LaterJobs
        <5> QED BY <4>2, <5>2, <5>3, <5>4
      <4> QED BY <4>3, <4>4
    <3>3. ASSUME session[s].connected PROVE ShownCurrent(s)'
      <4> SUFFICES ASSUME NEW k \in session'[s].flushedChunks, NEW b \in Blocks
                   PROVE  \/ view'[s][k][b] = block[d][k][b]
                          \/ Broadcast(d, k, b)
                          \/ b \in Covered(s, k)'
                          \/ <<s, k, b>> \in stale'
        BY <1>3, <1>5, <1>8 DEF ShownCurrent, UpdateDue, Broadcast
      <4>1. CASE k = c
        <5>1. \/ shown[b] = block[d][c][b]
              \/ Broadcast(d, c, b)
              \/ b \in session[s].pendingBlockChanges[c]
              \/ <<s, c, b>> \in stale
          BY <1>3, <1>4, <1>5, <2>1, <2>2 DEF WaitingCurrent
        <5> QED BY <1>12, <1>13, <3>3, <4>1, <5>1
      <4>2. CASE k # c
        <5>1. k \in session[s].flushedChunks /\ k \in StreamChunks
          BY <1>1, <1>5, <1>8, <4>2, SessionFields
        <5>2. \/ view[s][k][b] = block[d][k][b]
              \/ Broadcast(d, k, b)
              \/ b \in Covered(s, k)
              \/ <<s, k, b>> \in stale
          BY <1>3, <2>1, <2>2, <3>3, <5>1 DEF ShownCurrent, UpdateDue, Broadcast
        <5>3. b \in Covered(s, k) => b \in Covered(s, k)'
          BY <1>13 DEF LaterJobs
        <5> QED BY <1>12, <4>2, <5>1, <5>2, <5>3
      <4> QED BY <4>1, <4>2
    <3> QED BY <1>8, <2>2, <3>1, <3>2, <3>3
  <2>3. CASE t # s
    <3>1. \A k \in StreamChunks : inFlight[t][k] # NoJob =>
              jobs'[inFlight[t][k]] = jobs[inFlight[t][k]]
      BY <1>9, <1>10, <2>1, <2>3
    <3>2. \A k, b : <<t, k, b>> \in stale => <<t, k, b>> \in stale'
      BY <1>12
    <3> QED BY <1>5, <1>8, <1>9, <1>12, <1>13, <2>1, <2>3, <3>1, <3>2, OtherSession
  <2> QED BY <2>2, <2>3
<1> QED BY <1>5, <1>10, <1>14, <1>15, <1>17, <1>18, <1>19, <1>20, <1>21, <1>22 DEF StreamInv, TypeInv

LEMMA HeadTaken ==
    ASSUME NEW s \in Sessions, subRegionFlight \in [Sessions -> Seq(SubRegions)],
           subRegionFlight[s] # <<>>, subRegionFlight'[s] = Tail(subRegionFlight[s]),
           NEW job, job = Head(subRegionFlight[s])
    PROVE  /\ subRegionFlight'[s] \in Seq(SubRegions)
           /\ 1 \in Flight(s) /\ subRegionFlight[s][1] = job
           /\ job \in SubRegions
           /\ \A i \in Flight(s)' : /\ i + 1 \in Flight(s)
                                    /\ subRegionFlight'[s][i] = subRegionFlight[s][i + 1]
           /\ \A i, b : i \in Flight(s)' /\ CoveredAgain(s, i + 1, b) => CoveredAgain(s, i, b)'
           /\ \A b : CoveredAgain(s, 1, b) => b \in Covered(s, job.chunk)'
           /\ \A c, b : b \in Covered(s, c) =>
                \/ b \in Covered(s, c)'
                \/ c = job.chunk /\ b \in job.box
<1>1. PICK old \in Seq(SubRegions) : old = subRegionFlight[s]
  OBVIOUS
<1>2. PICK new : new = subRegionFlight'[s]
  OBVIOUS
<1>3. PICK n \in Nat : n = Len(old)
  BY <1>1
<1>4. /\ new \in Seq(SubRegions) /\ Len(new) = n - 1 /\ n # 0 /\ job = old[1]
      /\ \A i \in 1..(n - 1) : new[i] = old[i + 1]
      /\ \A i \in 1..n : old[i] \in SubRegions
  BY <1>1, <1>2, <1>3
<1>5. Flight(s) = 1..n /\ Flight(s)' = 1..(n - 1) /\ DOMAIN new = 1..(n - 1)
  BY <1>1, <1>2, <1>3, <1>4 DEF Flight
<1>6. /\ 1 \in 1..n
      /\ \A i \in 1..(n - 1) : i + 1 \in 1..n
      /\ \A k \in 1..n : k # 1 => k - 1 \in 1..(n - 1) /\ new[k - 1] = old[k]
      /\ \A i \in 1..(n - 1), k \in 1..n : k > i + 1 => k # 1 /\ k - 1 > i
      /\ \A k \in 1..n : k > 1 => k # 1
  <2>1. \A k \in 1..n : k # 1 => k - 1 \in 1..(n - 1) /\ (k - 1) + 1 = k
    OBVIOUS
  <2>2. \A k \in 1..n : k # 1 => new[k - 1] = old[k]
    BY <1>4, <2>1
  <2>3. 1 \in 1..n
    BY <1>4
  <2> QED BY <2>1, <2>2, <2>3
<1>7. ASSUME NEW i \in Flight(s)', NEW b, CoveredAgain(s, i + 1, b)
      PROVE  CoveredAgain(s, i, b)'
  <2>1. PICK k \in 1..n : k > i + 1 /\ old[k].chunk = old[i + 1].chunk /\ b \in old[k].box
    BY <1>1, <1>5, <1>7 DEF CoveredAgain
  <2>2. /\ k - 1 \in 1..(n - 1) /\ k - 1 > i /\ new[k - 1] = old[k] /\ new[i] = old[i + 1]
    BY <1>4, <1>5, <1>6, <2>1
  <2>3. \E m \in 1..(n - 1) : m > i /\ new[m].chunk = new[i].chunk /\ b \in new[m].box
    BY <2>1, <2>2
  <2> QED BY <1>2, <1>5, <2>3 DEF CoveredAgain
<1>8. \A c, b : b \in Covered(s, c)' <=> \E i \in 1..(n - 1) : new[i].chunk = c /\ b \in new[i].box
  BY <1>2, <1>5 DEF Covered
<1>9. \A c, b : b \in Covered(s, c) <=> \E i \in 1..n : old[i].chunk = c /\ b \in old[i].box
  BY <1>1, <1>5, CoveredBy
<1>10. ASSUME NEW b, CoveredAgain(s, 1, b)
       PROVE  b \in Covered(s, job.chunk)'
  <2>1. PICK k \in 1..n : k > 1 /\ old[k].chunk = old[1].chunk /\ b \in old[k].box
    BY <1>1, <1>5, <1>10 DEF CoveredAgain
  <2>2. k - 1 \in 1..(n - 1) /\ new[k - 1] = old[k]
    BY <1>6, <2>1
  <2>3. old[1].chunk = job.chunk
    BY <1>4
  <2>4. b \in Covered(s, job.chunk)'
    BY <1>8, <2>1, <2>2, <2>3
  <2> QED BY <2>4
<1>11. ASSUME NEW c, NEW b, b \in Covered(s, c)
       PROVE  \/ b \in Covered(s, c)'
              \/ c = job.chunk /\ b \in job.box
  <2>1. PICK k \in 1..n : old[k].chunk = c /\ b \in old[k].box
    BY <1>9, <1>11
  <2>2. CASE k = 1
    BY <1>1, <1>4, <2>1, <2>2
  <2>3. CASE k # 1
    BY <1>6, <1>8, <2>1, <2>3
  <2> QED BY <2>2, <2>3
<1>12. /\ subRegionFlight'[s] \in Seq(SubRegions)
       /\ 1 \in Flight(s) /\ subRegionFlight[s][1] = job
       /\ job \in SubRegions
  BY <1>1, <1>2, <1>4, <1>5, <1>6
<1>13. \A i \in Flight(s)' : /\ i + 1 \in Flight(s)
                             /\ subRegionFlight'[s][i] = subRegionFlight[s][i + 1]
  BY <1>1, <1>2, <1>4, <1>5, <1>6
<1> QED BY <1>7, <1>10, <1>11, <1>12, <1>13

(* A sub-region that is written makes no block older than an update on its way. *)
LEMMA FlushSubRegionStep ==
    ASSUME StreamInv, FlushSubRegion
    PROVE  StreamInv'
<1>1. /\ TypeOK /\ OthersAreClean /\ CurIsVisited /\ IndexInv /\ SentIsOwed /\ SubRegionsOwn
      /\ QueuesFinite /\ FlushedIsShown /\ JobsApart
  BY DEF StreamInv, TypeInv
<1>2. PICK s : s = cur
  OBVIOUS
<1>3. PICK job : job = Head(subRegionFlight[s])
  OBVIOUS
<1>4. /\ UNCHANGED <<block, ready, missed, chunkBlockChanges, players, session, chunkSessions,
                     tickPackets, jobs, inFlight, pc, cur, todo, stale>>
      /\ pc = "drain" /\ s \in players /\ s \in Sessions
      /\ subRegionFlight[s] # <<>> /\ DOMAIN job.read = job.box
      /\ subRegionFlight' = [subRegionFlight EXCEPT ![s] = Tail(@)]
  BY <1>1, <1>2, <1>3 DEF FlushSubRegion, SubRegionReady, Done, worldVars, tickVars, CurIsVisited,
     TypeOK
<1>5. IF session[s].connected /\ view[s][job.chunk] # NoChunk
      THEN view' = [view EXCEPT ![s][job.chunk] = Over(job.read, @)]
      ELSE UNCHANGED view
  BY <1>2, <1>3 DEF FlushSubRegion
<1>6. /\ subRegionFlight' \in [Sessions -> Seq(SubRegions)]
      /\ \A t \in Sessions \ {s} : subRegionFlight'[t] = subRegionFlight[t]
      /\ subRegionFlight'[s] = Tail(subRegionFlight[s])
      /\ subRegionFlight \in [Sessions -> Seq(SubRegions)]
  <2>1. subRegionFlight \in [Sessions -> Seq(SubRegions)] /\ subRegionFlight[s] \in Seq(SubRegions)
    BY <1>1, <1>4 DEF TypeOK
  <2>2. Tail(subRegionFlight[s]) \in Seq(SubRegions)
    BY <1>4, <2>1
  <2> QED BY <1>4, <2>1, <2>2
<1>7. /\ 1 \in Flight(s) /\ subRegionFlight[s][1] = job /\ job \in SubRegions
      /\ \A i \in Flight(s)' : /\ i + 1 \in Flight(s)
                               /\ subRegionFlight'[s][i] = subRegionFlight[s][i + 1]
      /\ \A i, b : i \in Flight(s)' /\ CoveredAgain(s, i + 1, b) => CoveredAgain(s, i, b)'
      /\ \A b : CoveredAgain(s, 1, b) => b \in Covered(s, job.chunk)'
      /\ \A c, b : b \in Covered(s, c) =>
           b \in Covered(s, c)' \/ (c = job.chunk /\ b \in job.box)
  <2>1. s \in Sessions /\ subRegionFlight[s] # <<>>
    BY <1>4
  <2> QED BY <1>3, <1>6, <2>1, HeadTaken, ZenonT(40)
<1>8. job.read \in Reads /\ job.chunk \in StreamChunks /\ job.box \subseteq Blocks
  BY <1>7 DEF SubRegions
<1>9. /\ view' \in [Sessions -> [StreamChunks -> [Blocks -> Content] \cup {NoChunk}]]
      /\ \A t \in Sessions \ {s} : view'[t] = view[t]
      /\ \A c \in StreamChunks \ {job.chunk} : view'[s][c] = view[s][c]
      /\ \A t \in Sessions, c \in StreamChunks : view[t][c] # NoChunk => view'[t][c] # NoChunk
      /\ session[s].connected /\ view[s][job.chunk] # NoChunk =>
            \A b \in Blocks : view'[s][job.chunk][b] =
                IF b \in job.box THEN job.read[b] ELSE view[s][job.chunk][b]
  <2>1. view \in [Sessions -> [StreamChunks -> [Blocks -> Content] \cup {NoChunk}]]
    BY <1>1 DEF TypeOK
  <2>2. CASE session[s].connected /\ view[s][job.chunk] # NoChunk
    <3>1. PICK old : old = view[s][job.chunk]
      OBVIOUS
    <3>2. old \in [Blocks -> Content]
      BY <1>4, <1>8, <2>1, <2>2, <3>1
    <3>3. PICK new : new = Over(job.read, old)
      OBVIOUS
    <3>4. /\ new \in [Blocks -> Content] /\ new # NoChunk
          /\ \A b \in Blocks : new[b] = IF b \in job.box THEN job.read[b] ELSE old[b]
      BY <1>4, <1>8, <3>2, <3>3, OverShown
    <3>5. view' = [view EXCEPT ![s] = [@ EXCEPT ![job.chunk] = new]]
      BY <1>5, <2>2, <3>1, <3>3
    <3>6. [view[s] EXCEPT ![job.chunk] = new] \in [StreamChunks -> [Blocks -> Content] \cup {NoChunk}]
      BY <1>4, <2>1, <3>4
    <3>7. /\ view' \in [Sessions -> [StreamChunks -> [Blocks -> Content] \cup {NoChunk}]]
          /\ \A t \in Sessions \ {s} : view'[t] = view[t]
          /\ \A c \in StreamChunks \ {job.chunk} : view'[s][c] = view[s][c]
          /\ view'[s][job.chunk] = new
      <4>1. s \in Sessions
        BY <1>4
      <4> QED BY <1>8, <2>1, <3>5, <3>6, <4>1
    <3> QED BY <1>4, <1>8, <3>1, <3>4, <3>7
  <2>3. CASE ~(session[s].connected /\ view[s][job.chunk] # NoChunk)
    BY <1>5, <2>1, <2>3
  <2> QED BY <2>2, <2>3
<1>10. TypeOK' /\ QueuesFinite' /\ CurIsVisited' /\ IndexInv' /\ SentIsOwed'
  <2>1. TypeOK'
    BY <1>1, <1>4, <1>6, <1>9 DEF TypeOK
  <2> QED BY <1>1, <1>4, <2>1 DEF QueuesFinite, Queued, CurIsVisited, IndexInv, Settled, IndexSettled,
     IndexBehind, SentIsOwed
<1>11. OthersAreClean' /\ FlushedIsShown' /\ SubRegionsOwn'
  <2>1. OthersAreClean'
    BY <1>1, <1>4, <1>6 DEF OthersAreClean
  <2>2. FlushedIsShown'
    <3>1. \A t \in players : t \in Sessions /\ session[t].flushedChunks \subseteq StreamChunks
      BY <1>1, SessionFields
    <3> QED BY <1>1, <1>4, <1>9, <3>1 DEF FlushedIsShown
  <2>3. SubRegionsOwn'
    <3> SUFFICES ASSUME NEW t \in players, NEW i \in Flight(t)'
                 PROVE  /\ subRegionFlight'[t][i].dim = session[t].dimension
                        /\ DOMAIN subRegionFlight'[t][i].read \subseteq subRegionFlight'[t][i].box
      BY <1>4 DEF SubRegionsOwn
    <3>1. CASE t = s
      BY <1>1, <1>7, <3>1 DEF SubRegionsOwn
    <3>2. CASE t # s
      <4>1. subRegionFlight'[t] = subRegionFlight[t]
        BY <1>1, <1>6, <3>2 DEF TypeOK
      <4> QED BY <1>1, <4>1 DEF SubRegionsOwn, Flight
    <3> QED BY <3>1, <3>2
  <2> QED BY <2>1, <2>2, <2>3
<1>12. JobsApart' /\ FreeIsFresh' /\ ChangesCurrent' /\ TickCurrent'
  BY <1>4 DEF StreamInv, JobsApart, IsJobFor, FreeIsFresh, ChangesCurrent, TickCurrent, Broadcast
<1>13. ASSUME NEW t \in players
       PROVE  /\ WaitingCurrent(t)'
              /\ session'[t].connected => SubRegionsCurrent(t)' /\ ShownCurrent(t)'
  <2>1. /\ t \in Sessions /\ WaitingCurrent(t)
        /\ session[t].connected => SubRegionsCurrent(t) /\ ShownCurrent(t)
    BY <1>1 DEF StreamInv, TypeOK
  <2>2. CASE t = s
    <3>1. WaitingCurrent(t)'
      BY <1>4, <2>1 DEF WaitingCurrent, Broadcast
    <3>2. ASSUME session[s].connected PROVE SubRegionsCurrent(s)'
      <4> SUFFICES ASSUME NEW i \in Flight(s)',
                          subRegionFlight'[s][i].chunk \in session[s].flushedChunks,
                          NEW b \in DOMAIN subRegionFlight'[s][i].read
                   PROVE  ReadCurrent(s, subRegionFlight[s][i], b)' \/ CoveredAgain(s, i, b)'
        BY <1>4 DEF SubRegionsCurrent, SubRegionCurrent
      <4>1. PICK next : next = subRegionFlight'[s][i] /\ next = subRegionFlight[s][i + 1]
        BY <1>7
      <4>2. ReadCurrent(s, next, b) \/ CoveredAgain(s, i + 1, b)
        BY <1>7, <2>1, <2>2, <3>2, <4>1 DEF SubRegionsCurrent, SubRegionCurrent
      <4>3. ReadCurrent(s, next, b) => ReadCurrent(s, next, b)'
        BY <1>4 DEF ReadCurrent, Broadcast
      <4> QED BY <1>7, <4>1, <4>2, <4>3
    <3>3. ASSUME session[s].connected PROVE ShownCurrent(s)'
      <4>0. PICK d : d = session[s].dimension
        OBVIOUS
      <4> SUFFICES ASSUME NEW k \in session[s].flushedChunks, NEW b \in Blocks
                   PROVE  \/ view'[s][k][b] = block[d][k][b]
                          \/ Broadcast(d, k, b)
                          \/ b \in Covered(s, k)'
                          \/ <<s, k, b>> \in stale
        BY <1>4, <4>0 DEF ShownCurrent, UpdateDue, Broadcast
      <4>1. k \in StreamChunks /\ view[s][k] # NoChunk
        BY <1>1, <1>4, <3>3, SessionFields DEF FlushedIsShown
      <4>2. \/ view[s][k][b] = block[d][k][b]
            \/ Broadcast(d, k, b)
            \/ b \in Covered(s, k)
            \/ <<s, k, b>> \in stale
        BY <2>1, <2>2, <3>3, <4>0 DEF ShownCurrent, UpdateDue, Broadcast
      <4>3. CASE k = job.chunk /\ b \in job.box
        <5>1. ReadCurrent(s, job, b) \/ CoveredAgain(s, 1, b)
          BY <1>4, <1>7, <2>1, <2>2, <3>3, <4>3 DEF SubRegionsCurrent, SubRegionCurrent
        <5>2. job.dim = d
          BY <1>1, <1>4, <1>7, <4>0 DEF SubRegionsOwn
        <5>3. view'[s][k][b] = job.read[b]
          BY <1>9, <3>3, <4>1, <4>3
        <5>4. CoveredAgain(s, 1, b) => b \in Covered(s, k)'
          BY <1>7, <4>3
        <5> QED BY <4>3, <5>1, <5>2, <5>3, <5>4 DEF ReadCurrent
      <4>4. CASE ~(k = job.chunk /\ b \in job.box)
        <5>1. view'[s][k][b] = view[s][k][b]
          BY <1>9, <3>3, <4>1, <4>4
        <5>2. b \in Covered(s, k) => b \in Covered(s, k)'
          BY <1>7, <4>4
        <5> QED BY <4>2, <5>1, <5>2
      <4> QED BY <4>3, <4>4
    <3> QED BY <1>4, <2>2, <3>1, <3>2, <3>3
  <2>3. CASE t # s
    <3>1. \A k, b : <<t, k, b>> \in stale => <<t, k, b>> \in stale'
      BY <1>4
    <3> QED BY <1>4, <1>6, <1>9, <2>1, <2>3, <3>1, OtherSession
  <2> QED BY <2>2, <2>3
<1> QED BY <1>4, <1>10, <1>11, <1>12, <1>13 DEF StreamInv, TypeInv

-----------------------------------------------------------------------------
(* ChunkBroadcaster and the end of the tick.                               *)

(* What a broadcast does to the sessions that wait for the chunk. *)
LEMMA BroadcastWaiting ==
    ASSUME StreamInv, NEW d \in Dims, NEW c \in StreamChunks, BroadcastBlockChanges(d, c)
    PROVE  /\ session' \in [players -> SessionType]
           /\ \A t \in players :
                /\ session'[t].dimension = session[t].dimension
                /\ session'[t].connected = session[t].connected
                /\ session'[t].sentChunks = session[t].sentChunks
                /\ session'[t].flushedChunks = session[t].flushedChunks
                /\ session'[t].newlyFlushed = session[t].newlyFlushed
                /\ session'[t].newlyUnloaded = session[t].newlyUnloaded
                /\ \A k \in StreamChunks : session'[t].pendingBlockChanges[k] =
                     IF t \in SentOnly(d, c) /\ k = c
                     THEN session[t].pendingBlockChanges[k] \cup DOMAIN chunkBlockChanges[d][c]
                     ELSE session[t].pendingBlockChanges[k]
<1>1. TypeOK
  BY DEF StreamInv, TypeInv
<1>2. PICK changed : changed = DOMAIN chunkBlockChanges[d][c]
  OBVIOUS
<1>3. changed \subseteq Blocks
  <2>1. chunkBlockChanges[d][c] \in Reads
    BY <1>1 DEF TypeOK
  <2> QED BY <1>2, <2>1, ReadsDomain
<1>4. session' = [t \in players |->
                  IF t \in SentOnly(d, c)
                  THEN [session[t] EXCEPT !.pendingBlockChanges[c] = @ \cup changed]
                  ELSE session[t]]
  BY <1>2 DEF BroadcastBlockChanges
<1>5. ASSUME NEW t \in players
      PROVE  /\ session'[t] \in SessionType
             /\ session'[t].dimension = session[t].dimension
             /\ session'[t].connected = session[t].connected
             /\ session'[t].sentChunks = session[t].sentChunks
             /\ session'[t].flushedChunks = session[t].flushedChunks
             /\ session'[t].newlyFlushed = session[t].newlyFlushed
             /\ session'[t].newlyUnloaded = session[t].newlyUnloaded
             /\ \A k \in StreamChunks : session'[t].pendingBlockChanges[k] =
                  IF t \in SentOnly(d, c) /\ k = c
                  THEN session[t].pendingBlockChanges[k] \cup changed
                  ELSE session[t].pendingBlockChanges[k]
  <2>1. PICK me : me = session[t]
    OBVIOUS
  <2>2. me \in SessionType /\ me.pendingBlockChanges \in [StreamChunks -> SUBSET Blocks]
    BY <1>1, <2>1, SessionFields
  <2>3. CASE t \in SentOnly(d, c)
    <3>1. PICK pending : pending = [me.pendingBlockChanges EXCEPT ![c] = @ \cup changed]
      OBVIOUS
    <3>2. /\ pending \in [StreamChunks -> SUBSET Blocks]
          /\ \A k \in StreamChunks : pending[k] =
                IF k = c THEN me.pendingBlockChanges[k] \cup changed ELSE me.pendingBlockChanges[k]
      BY <1>3, <2>2, <3>1
    <3>3. session'[t] = [me EXCEPT !.pendingBlockChanges = pending]
      BY <1>4, <2>1, <2>3, <3>1
    <3>4. PICK new : new = [me EXCEPT !.pendingBlockChanges = pending]
      OBVIOUS
    <3>5. /\ new \in SessionType
          /\ new.dimension = me.dimension /\ new.connected = me.connected
          /\ new.sentChunks = me.sentChunks /\ new.flushedChunks = me.flushedChunks
          /\ new.newlyFlushed = me.newlyFlushed /\ new.newlyUnloaded = me.newlyUnloaded
          /\ new.pendingBlockChanges = pending
      BY <2>2, <3>2, <3>4 DEF SessionType
    <3> QED BY <2>1, <2>3, <3>2, <3>3, <3>4, <3>5
  <2>4. CASE t \notin SentOnly(d, c)
    <3>1. session'[t] = session[t]
      BY <1>4, <2>4
    <3> QED BY <2>1, <2>2, <2>4, <3>1
  <2> QED BY <2>3, <2>4
<1>6. session' \in [players -> SessionType]
  <2>1. DOMAIN session' = players /\ session' = [t \in players |-> session'[t]]
    BY <1>4
  <2> QED BY <1>5, <2>1
<1> QED BY <1>2, <1>5, <1>6

(* The sessions the index has for a chunk are those that have it. *)
LEMMA HasIsExact ==
    ASSUME StreamInv, pc = "broadcast", NEW d \in Dims, NEW c \in StreamChunks
    PROVE  /\ chunkSessions[d][c] \subseteq players
           /\ \A t \in players : t \in chunkSessions[d][c] <=>
                  session[t].dimension = d /\ c \in session[t].flushedChunks
<1>1. TypeOK /\ OthersAreClean /\ CurIsVisited /\ IndexInv
  BY DEF StreamInv, TypeInv
<1>2. chunkSessions[d][c] \subseteq players
  BY <1>1 DEF TypeOK, OthersAreClean
<1>3. \A t \in players : IndexSettled(t)
  BY <1>1 DEF IndexInv, Settled
<1> QED BY <1>2, <1>3 DEF IndexSettled

(* What holds of every broadcast, whether it is a packet or a job. *)
LEMMA BroadcastQuiet ==
    ASSUME StreamInv, NEW d \in Dims, NEW c \in StreamChunks, BroadcastBlockChanges(d, c),
           subRegionFlight' \in [Sessions -> Seq(SubRegions)],
           \A t \in Sessions \ players : subRegionFlight'[t] = <<>>,
           view' \in [Sessions -> [StreamChunks -> [Blocks -> Content] \cup {NoChunk}]],
           \A t \in Sessions, k \in StreamChunks : view[t][k] # NoChunk => view'[t][k] # NoChunk,
           stale' \subseteq Sessions \X StreamChunks \X Blocks,
           \A t \in players, k \in StreamChunks : \A b :
               /\ <<t, k, b>> \in stale
               /\ k = c => k \notin session[t].flushedChunks
               => <<t, k, b>> \in stale',
           SubRegionsOwn'
    PROVE  /\ TypeInv' /\ JobsApart' /\ FreeIsFresh' /\ ChangesCurrent' /\ TickCurrent'
           /\ \A t \in players : WaitingCurrent(t)'
<1>1. /\ TypeOK /\ OthersAreClean /\ CurIsVisited /\ IndexInv /\ SentIsOwed
      /\ QueuesFinite /\ FlushedIsShown /\ JobsApart
  BY DEF StreamInv, TypeInv
<1>2. /\ UNCHANGED <<block, ready, missed, players, chunkSessions, tickPackets, jobs, inFlight,
                     pc, cur, todo>>
      /\ pc = "broadcast"
      /\ chunkBlockChanges' = [chunkBlockChanges EXCEPT ![d][c] = Nothing]
  BY DEF BroadcastBlockChanges, worldVars, tickVars
<1>3. /\ chunkBlockChanges' \in [Dims -> [StreamChunks -> Reads]]
      /\ DOMAIN chunkBlockChanges'[d][c] = {}
      /\ \A e \in Dims, k \in StreamChunks : e # d \/ k # c =>
             chunkBlockChanges'[e][k] = chunkBlockChanges[e][k]
  <2>1. chunkBlockChanges \in [Dims -> [StreamChunks -> Reads]]
    BY <1>1 DEF TypeOK
  <2> QED BY <1>2, <2>1, NothingRead
<1>4. /\ session' \in [players -> SessionType]
      /\ \A t \in players :
           /\ session'[t].dimension = session[t].dimension
           /\ session'[t].connected = session[t].connected
           /\ session'[t].sentChunks = session[t].sentChunks
           /\ session'[t].flushedChunks = session[t].flushedChunks
           /\ session'[t].newlyFlushed = session[t].newlyFlushed
           /\ session'[t].newlyUnloaded = session[t].newlyUnloaded
           /\ \A k \in StreamChunks : session'[t].pendingBlockChanges[k] =
                IF t \in SentOnly(d, c) /\ k = c
                THEN session[t].pendingBlockChanges[k] \cup DOMAIN chunkBlockChanges[d][c]
                ELSE session[t].pendingBlockChanges[k]
  BY BroadcastWaiting
<1>5. TypeOK'
  BY <1>1, <1>2, <1>3, <1>4 DEF TypeOK
<1>6. QueuesFinite' /\ CurIsVisited' /\ OthersAreClean'
  BY <1>1, <1>2 DEF QueuesFinite, Queued, CurIsVisited, OthersAreClean
<1>7. IndexInv'
  <2> SUFFICES ASSUME NEW t \in players PROVE IndexSettled(t)'
    BY <1>1, <1>2 DEF IndexInv, Settled
  <2>1. IndexSettled(t)
    BY <1>1, <1>2 DEF IndexInv, Settled
  <2> QED BY <1>2, <1>4, <2>1 DEF IndexSettled
<1>8. ASSUME NEW t \in players, NEW k \in StreamChunks, t \in SentOnly(d, c), k = c
      PROVE  inFlight[t][k] # NoJob
  BY <1>1, <1>8 DEF SentOnly, SentIsOwed
<1>9. SentIsOwed'
  <2> SUFFICES ASSUME NEW t \in players, NEW k \in StreamChunks
               PROVE  /\ (k \in session'[t].sentChunks \ session'[t].flushedChunks)
                             <=> (inFlight'[t][k] # NoJob)
                      /\ session'[t].pendingBlockChanges[k] # {} => inFlight'[t][k] # NoJob
                      /\ k \in session'[t].flushedChunks => k \in session'[t].sentChunks
    BY <1>2 DEF SentIsOwed
  <2>1. /\ (k \in session[t].sentChunks \ session[t].flushedChunks) <=> (inFlight[t][k] # NoJob)
        /\ session[t].pendingBlockChanges[k] # {} => inFlight[t][k] # NoJob
        /\ k \in session[t].flushedChunks => k \in session[t].sentChunks
    BY <1>1 DEF SentIsOwed
  <2> QED BY <1>2, <1>4, <1>8, <2>1
<1>10. FlushedIsShown'
  <2>1. \A t \in players : t \in Sessions /\ session[t].flushedChunks \subseteq StreamChunks
    BY <1>1, SessionFields
  <2> QED BY <1>1, <1>2, <1>4, <2>1 DEF FlushedIsShown
<1>11. JobsApart' /\ FreeIsFresh'
  <2>1. ASSUME NEW j \in Jobs, NEW e \in Dims, NEW k \in StreamChunks, IsJobFor(j, e, k)'
        PROVE  IsJobFor(j, e, k)
    BY <1>2, <1>4, <2>1 DEF IsJobFor
  <2>2. JobsApart'
    BY <1>1, <2>1 DEF JobsApart
  <2> QED BY <1>2, <2>2 DEF StreamInv, FreeIsFresh
<1>12. ChangesCurrent' /\ TickCurrent'
  BY <1>2, <1>3 DEF StreamInv, ChangesCurrent, TickCurrent
<1>13. ASSUME NEW t \in players PROVE WaitingCurrent(t)'
  <2>0. PICK e \in Dims : e = session[t].dimension /\ e = session'[t].dimension
    BY <1>1, <1>4, SessionFields
  <2> SUFFICES ASSUME NEW k \in StreamChunks, inFlight[t][k] # NoJob,
                      NEW b \in DOMAIN jobs[inFlight[t][k]]
               PROVE  \/ jobs[inFlight[t][k]][b] = block[e][k][b]
                      \/ Broadcast(e, k, b)'
                      \/ b \in session'[t].pendingBlockChanges[k]
                      \/ <<t, k, b>> \in stale'
    BY <1>2, <2>0 DEF WaitingCurrent, Broadcast
  <2>1. \/ jobs[inFlight[t][k]][b] = block[e][k][b]
        \/ Broadcast(e, k, b)
        \/ b \in session[t].pendingBlockChanges[k]
        \/ <<t, k, b>> \in stale
    BY <2>0 DEF StreamInv, WaitingCurrent
  <2>2. k \in session[t].sentChunks \ session[t].flushedChunks
    BY <1>1 DEF SentIsOwed
  <2>3. Broadcast(e, k, b) => Broadcast(e, k, b)' \/ b \in session'[t].pendingBlockChanges[k]
    <3>1. CASE e = d /\ k = c
      <4>1. t \in SentOnly(d, c)
        BY <2>0, <2>2, <3>1 DEF SentOnly
      <4> QED BY <1>4, <3>1, <4>1 DEF Broadcast
    <3>2. CASE ~(e = d /\ k = c)
      BY <1>3, <3>2 DEF Broadcast
    <3> QED BY <3>1, <3>2
  <2>4. b \in session[t].pendingBlockChanges[k] => b \in session'[t].pendingBlockChanges[k]
    BY <1>4
  <2>5. <<t, k, b>> \in stale => <<t, k, b>> \in stale'
    BY <2>2
  <2> QED BY <2>1, <2>3, <2>4, <2>5
<1> QED BY <1>5, <1>6, <1>7, <1>9, <1>10, <1>11, <1>12, <1>13 DEF TypeInv

LEMMA BroadcastStep ==
    ASSUME StreamInv, NEW d \in Dims, NEW c \in StreamChunks, BroadcastBlockChanges(d, c)
    PROVE  StreamInv'
<1>1. TypeOK /\ OthersAreClean /\ SubRegionsOwn /\ FlushedIsShown
  BY DEF StreamInv, TypeInv
<1>2. PICK changes : changes = chunkBlockChanges[d][c]
  OBVIOUS
<1>3. PICK changed : changed = DOMAIN changes
  OBVIOUS
<1>4. PICK has : has = chunkSessions[d][c]
  OBVIOUS
<1>5. PICK told : told = {t \in has : session[t].connected}
  OBVIOUS
<1>6. /\ UNCHANGED <<block, missed, players>> /\ pc = "broadcast"
      /\ chunkBlockChanges' = [chunkBlockChanges EXCEPT ![d][c] = Nothing]
      /\ \/ /\ view' = [t \in Sessions |->
                    IF t \in told THEN [view[t] EXCEPT ![c] = Over(changes, @)] ELSE view[t]]
            /\ stale' = (stale \ (told \X {c} \X changed))
                            \cup Overtaken(told, c, changed) \cup Missed(told, d, c)
            /\ UNCHANGED subRegionFlight
         \/ /\ subRegionFlight' = [t \in Sessions |->
                    IF t \in has
                    THEN Append(subRegionFlight[t], SubRegionJob(d, c, changed))
                    ELSE subRegionFlight[t]]
            /\ UNCHANGED <<view, stale>>
  BY <1>2, <1>3, <1>4, <1>5 DEF BroadcastBlockChanges, worldVars, clientVars
<1>7. changes \in Reads /\ changed \subseteq Blocks /\ changed \in SUBSET Blocks
  <2>1. changes \in Reads
    BY <1>1, <1>2 DEF TypeOK
  <2> QED BY <1>3, <2>1, ReadsDomain
<1>8. /\ has \subseteq players /\ players \subseteq Sessions
      /\ \A t \in players : t \in has <=>
             session[t].dimension = d /\ c \in session[t].flushedChunks
  BY <1>1, <1>4, <1>6, HasIsExact DEF TypeOK
<1>9. /\ DOMAIN chunkBlockChanges'[d][c] = {}
      /\ \A e \in Dims, k \in StreamChunks : e # d \/ k # c =>
             chunkBlockChanges'[e][k] = chunkBlockChanges[e][k]
  <2>1. chunkBlockChanges \in [Dims -> [StreamChunks -> Reads]]
    BY <1>1 DEF TypeOK
  <2> QED BY <1>6, <2>1, NothingRead
<1>10. ASSUME NEW e \in Dims, NEW k \in StreamChunks, NEW b, Broadcast(e, k, b)
       PROVE  Broadcast(e, k, b)' \/ (e = d /\ k = c /\ b \in changed)
  BY <1>2, <1>3, <1>9, <1>10 DEF Broadcast
<1>11. ASSUME NEW t \in players
       PROVE  /\ t \in Sessions /\ session[t].dimension \in Dims
              /\ session'[t].dimension = session[t].dimension
              /\ session'[t].connected = session[t].connected
              /\ session'[t].flushedChunks = session[t].flushedChunks
              /\ session[t].flushedChunks \subseteq StreamChunks
  BY <1>1, SessionFields, BroadcastWaiting
<1>12. subRegionFlight \in [Sessions -> Seq(SubRegions)]
       /\ view \in [Sessions -> [StreamChunks -> [Blocks -> Content] \cup {NoChunk}]]
       /\ stale \subseteq Sessions \X StreamChunks \X Blocks
  BY <1>1 DEF TypeOK
<1>13. ASSUME NEW t \in players, NEW i \in Flight(t)
       PROVE  /\ subRegionFlight[t][i].dim = session[t].dimension
              /\ subRegionFlight[t][i].chunk \in StreamChunks
              /\ \A b \in DOMAIN subRegionFlight[t][i].read :
                   b \in Covered(t, subRegionFlight[t][i].chunk)
  <2>1. subRegionFlight[t] \in Seq(SubRegions)
    BY <1>11, <1>12
  <2>2. subRegionFlight[t][i] \in SubRegions
    BY <2>1 DEF Flight
  <2>3. /\ subRegionFlight[t][i].dim = session[t].dimension
        /\ DOMAIN subRegionFlight[t][i].read \subseteq subRegionFlight[t][i].box
    BY <1>1 DEF SubRegionsOwn
  <2>4. \A k, b : b \in Covered(t, k) <=>
            \E m \in Flight(t) : subRegionFlight[t][m].chunk = k /\ b \in subRegionFlight[t][m].box
    BY <1>11, <1>12, CoveredBy
  <2> QED BY <2>2, <2>3, <2>4 DEF SubRegions
<1>14. CASE /\ view' = [t \in Sessions |->
                   IF t \in told THEN [view[t] EXCEPT ![c] = Over(changes, @)] ELSE view[t]]
            /\ stale' = (stale \ (told \X {c} \X changed))
                            \cup Overtaken(told, c, changed) \cup Missed(told, d, c)
            /\ UNCHANGED subRegionFlight
  <2>1. ASSUME NEW t \in Sessions
        PROVE  /\ view'[t] \in [StreamChunks -> [Blocks -> Content] \cup {NoChunk}]
               /\ \A k \in StreamChunks : t \notin told \/ k # c => view'[t][k] = view[t][k]
               /\ \A k \in StreamChunks : view[t][k] # NoChunk => view'[t][k] # NoChunk
               /\ t \in told => \A b \in Blocks :
                     view'[t][c][b] = IF b \in changed THEN changes[b] ELSE view[t][c][b]
    <3>1. CASE t \in told
      <4>1. PICK old : old = view[t][c]
        OBVIOUS
      <4>2. old \in [Blocks -> Content]
        <5>1. old \in [Blocks -> Content] \cup {NoChunk}
          BY <1>12, <4>1
        <5>2. old # NoChunk
          BY <1>1, <1>5, <1>8, <3>1, <4>1 DEF FlushedIsShown
        <5> QED BY <5>1, <5>2
      <4>3. PICK new : new = Over(changes, old)
        OBVIOUS
      <4>4. /\ new \in [Blocks -> Content] /\ new # NoChunk
            /\ \A b \in Blocks : new[b] = IF b \in changed THEN changes[b] ELSE old[b]
        BY <1>3, <1>7, <4>2, <4>3, OverShown
      <4>5. view'[t] = [view[t] EXCEPT ![c] = new]
        BY <1>14, <3>1, <4>1, <4>3
      <4> QED BY <1>12, <3>1, <4>1, <4>4, <4>5
    <3>2. CASE t \notin told
      <4>1. view'[t] = view[t]
        BY <1>14, <3>2
      <4> QED BY <1>12, <3>2, <4>1
    <3> QED BY <3>1, <3>2
  <2>2. view' \in [Sessions -> [StreamChunks -> [Blocks -> Content] \cup {NoChunk}]]
    <3>1. view' = [t \in Sessions |-> view'[t]]
      BY <1>14
    <3> QED BY <2>1, <3>1
  <2>3. /\ stale' \subseteq Sessions \X StreamChunks \X Blocks
        /\ \A t, k, b : /\ <<t, k, b>> \in stale
                        /\ ~(t \in told /\ k = c /\ b \in changed)
                        => <<t, k, b>> \in stale'
        /\ \A t \in told, b \in changed : b \in Covered(t, c) => <<t, c, b>> \in stale'
        /\ \A t \in told, b \in Blocks : <<d, c, b>> \in missed => <<t, c, b>> \in stale'
    <3>1. told \subseteq Sessions
      BY <1>5, <1>8
    <3>2. /\ Overtaken(told, c, changed) \subseteq Sessions \X StreamChunks \X Blocks
          /\ Missed(told, d, c) \subseteq Sessions \X StreamChunks \X Blocks
      BY <1>7, <3>1 DEF Overtaken, Missed
    <3>3. \A t \in told, b \in changed :
              b \in Covered(t, c) => <<t, c, b>> \in Overtaken(told, c, changed)
      BY DEF Overtaken
    <3>4. \A t \in told, b \in Blocks : <<d, c, b>> \in missed => <<t, c, b>> \in Missed(told, d, c)
      BY DEF Missed
    <3>5. stale' \subseteq Sessions \X StreamChunks \X Blocks
      BY <1>12, <1>14, <3>2
    <3>6. \A t, k, b : /\ <<t, k, b>> \in stale
                       /\ ~(t \in told /\ k = c /\ b \in changed)
                       => <<t, k, b>> \in stale'
      BY <1>14
    <3> QED BY <1>14, <3>3, <3>4, <3>5, <3>6
  <2>4. ASSUME NEW t \in players
        PROVE  /\ Flight(t)' = Flight(t)
               /\ \A k : Covered(t, k)' = Covered(t, k)
               /\ \A i, b : CoveredAgain(t, i, b)' = CoveredAgain(t, i, b)
    BY <1>14 DEF Flight, Covered, CoveredAgain
  <2>5. SubRegionsOwn'
    BY <1>1, <1>6, <1>11, <1>14 DEF SubRegionsOwn, Flight
  <2>6. /\ TypeInv' /\ JobsApart' /\ FreeIsFresh' /\ ChangesCurrent' /\ TickCurrent'
        /\ \A t \in players : WaitingCurrent(t)'
    <3>1. \A t \in Sessions \ players : subRegionFlight'[t] = <<>>
      BY <1>1, <1>14 DEF OthersAreClean
    <3>2. \A t \in players, k \in StreamChunks : \A b :
               /\ <<t, k, b>> \in stale
               /\ k = c => k \notin session[t].flushedChunks
               => <<t, k, b>> \in stale'
      BY <1>5, <1>8, <2>3
    <3>3. \A t \in Sessions, k \in StreamChunks : view[t][k] # NoChunk => view'[t][k] # NoChunk
      BY <2>1
    <3>4. subRegionFlight' \in [Sessions -> Seq(SubRegions)]
      BY <1>12, <1>14
    <3>5. stale' \subseteq Sessions \X StreamChunks \X Blocks
      BY <2>3
    <3> QED BY <2>2, <2>5, <3>1, <3>2, <3>3, <3>4, <3>5, BroadcastQuiet
  <2>7. ASSUME NEW t \in players, session[t].connected
        PROVE  SubRegionsCurrent(t)' /\ ShownCurrent(t)'
    <3>1. SubRegionsCurrent(t) /\ ShownCurrent(t)
      BY <2>7 DEF StreamInv
    <3>2. PICK e \in Dims : e = session[t].dimension
      BY <1>11
    <3>3. ASSUME e = d, c \in session[t].flushedChunks PROVE t \in told
      BY <1>5, <1>8, <2>7, <3>2, <3>3
    <3>4. SubRegionsCurrent(t)'
      <4> SUFFICES ASSUME NEW i \in Flight(t),
                          subRegionFlight[t][i].chunk \in session[t].flushedChunks,
                          NEW b \in DOMAIN subRegionFlight[t][i].read
                   PROVE  ReadCurrent(t, subRegionFlight[t][i], b)' \/ CoveredAgain(t, i, b)'
        BY <1>11, <1>14, <2>4 DEF SubRegionsCurrent, SubRegionCurrent
      <4>1. PICK job : job = subRegionFlight[t][i] /\ job = subRegionFlight'[t][i]
        BY <1>14
      <4>2. job.dim = e /\ job.chunk \in StreamChunks /\ b \in Covered(t, job.chunk)
        BY <1>13, <3>2, <4>1
      <4>3. ReadCurrent(t, job, b) \/ CoveredAgain(t, i, b)
        BY <3>1, <4>1 DEF SubRegionsCurrent, SubRegionCurrent
      <4>4. ReadCurrent(t, job, b) => ReadCurrent(t, job, b)'
        <5>1. CASE e = d /\ job.chunk = c /\ b \in changed
          <6>1. <<t, job.chunk, b>> \in stale'
            BY <2>3, <3>3, <4>1, <4>2, <5>1
          <6> QED BY <6>1 DEF ReadCurrent
        <5>2. CASE ~(e = d /\ job.chunk = c /\ b \in changed)
          <6>1. Broadcast(e, job.chunk, b) => Broadcast(e, job.chunk, b)'
            BY <1>10, <4>2, <5>2
          <6>2. t \in told => e = d
            BY <1>5, <1>8, <3>2
          <6>3. <<t, job.chunk, b>> \in stale => <<t, job.chunk, b>> \in stale'
            BY <2>3, <5>2, <6>2
          <6> QED BY <1>6, <4>2, <6>1, <6>3 DEF ReadCurrent
        <5> QED BY <5>1, <5>2
      <4> QED BY <2>4, <4>1, <4>3, <4>4
    <3>5. ShownCurrent(t)'
      <4> SUFFICES ASSUME NEW k \in session[t].flushedChunks, NEW b \in Blocks
                   PROVE  \/ view'[t][k][b] = block[e][k][b]
                          \/ Broadcast(e, k, b)'
                          \/ b \in Covered(t, k)
                          \/ <<t, k, b>> \in stale'
        BY <1>6, <1>11, <2>4, <3>2 DEF ShownCurrent, UpdateDue, Broadcast
      <4>0. k \in StreamChunks
        BY <1>11
      <4>1. \/ view[t][k][b] = block[e][k][b]
            \/ Broadcast(e, k, b)
            \/ b \in Covered(t, k)
            \/ <<t, k, b>> \in stale
        BY <3>1, <3>2 DEF ShownCurrent, UpdateDue, Broadcast
      <4>2. CASE e = d /\ k = c /\ b \in changed
        <5>1. t \in told
          BY <3>3, <4>2
        <5>2. view'[t][k][b] = changes[b]
          BY <1>11, <2>1, <4>2, <5>1
        <5>3. changes[b] = block[d][c][b] \/ <<d, c, b>> \in missed
          BY <1>2, <1>3, <4>2 DEF StreamInv, ChangesCurrent
        <5> QED BY <2>3, <4>2, <5>1, <5>2, <5>3
      <4>3. CASE ~(e = d /\ k = c /\ b \in changed)
        <5>1. t \in told => e = d
          BY <1>5, <1>8, <3>2
        <5>2. Broadcast(e, k, b) => Broadcast(e, k, b)'
          BY <1>10, <4>0, <4>3
        <5>3. <<t, k, b>> \in stale => <<t, k, b>> \in stale'
          BY <2>3, <4>3, <5>1
        <5>4. view'[t][k][b] = view[t][k][b]
          BY <1>11, <2>1, <4>0, <4>3, <5>1
        <5> QED BY <4>1, <5>2, <5>3, <5>4
      <4> QED BY <4>2, <4>3
    <3> QED BY <3>4, <3>5
  <2> QED BY <1>6, <1>11, <2>6, <2>7 DEF StreamInv
<1>15. CASE /\ subRegionFlight' = [t \in Sessions |->
                    IF t \in has
                    THEN Append(subRegionFlight[t], SubRegionJob(d, c, changed))
                    ELSE subRegionFlight[t]]
            /\ UNCHANGED <<view, stale>>
  <2>1. PICK job : job = SubRegionJob(d, c, changed)
    OBVIOUS
  <2>2. /\ job \in SubRegions /\ job.dim = d /\ job.chunk = c /\ job.read = Nothing
        /\ changed \subseteq job.box
    BY <1>7, <2>1, NewJobType
  <2>3. ASSUME NEW t \in players
        PROVE  /\ LaterJobs(t)
               /\ t \in has => \A b \in changed :
                    /\ b \in Covered(t, c)'
                    /\ \A i \in Flight(t) :
                         subRegionFlight[t][i].chunk = c => CoveredAgain(t, i, b)'
    <3>1. t \in Sessions
      BY <1>11
    <3>2. CASE t \in has
      <4>1. subRegionFlight'[t] = Append(subRegionFlight[t], job)
        BY <1>15, <2>1, <3>1, <3>2
      <4>2. job.dim = session[t].dimension
        BY <1>8, <2>2, <3>2
      <4>3. /\ LaterJobs(t)
            /\ \A b \in job.box :
                 /\ b \in Covered(t, job.chunk)'
                 /\ \A i \in Flight(t) :
                      subRegionFlight[t][i].chunk = job.chunk => CoveredAgain(t, i, b)'
        BY <1>12, <2>2, <3>1, <4>1, <4>2, JobAppended
      <4> QED BY <2>2, <4>3
    <3>3. CASE t \notin has
      <4>1. subRegionFlight'[t] = subRegionFlight[t]
        BY <1>15, <3>1, <3>3
      <4> QED BY <1>12, <3>1, <3>3, <4>1, SameJobs
    <3> QED BY <3>2, <3>3
  <2>4. /\ subRegionFlight' \in [Sessions -> Seq(SubRegions)]
        /\ \A t \in Sessions \ players : subRegionFlight'[t] = <<>>
    <3>1. ASSUME NEW t \in Sessions PROVE subRegionFlight'[t] \in Seq(SubRegions)
      <4>1. CASE t \in has
        BY <1>8, <2>3, <4>1 DEF LaterJobs
      <4>2. CASE t \notin has
        BY <1>12, <1>15, <4>2
      <4> QED BY <4>1, <4>2
    <3>2. subRegionFlight' = [t \in Sessions |-> subRegionFlight'[t]]
      BY <1>15
    <3>3. ASSUME NEW t \in Sessions \ players PROVE subRegionFlight'[t] = <<>>
      <4>1. subRegionFlight[t] = <<>> /\ t \notin has
        BY <1>1, <1>8 DEF OthersAreClean
      <4> QED BY <1>15, <4>1
    <3>4. subRegionFlight' \in [Sessions -> Seq(SubRegions)]
      BY <3>1, <3>2
    <3> QED BY <3>3, <3>4
  <2>5. SubRegionsOwn'
    <3> SUFFICES ASSUME NEW t \in players, NEW i \in Flight(t)'
                 PROVE  /\ subRegionFlight'[t][i].dim = session[t].dimension
                        /\ DOMAIN subRegionFlight'[t][i].read \subseteq subRegionFlight'[t][i].box
      BY <1>6, <1>11 DEF SubRegionsOwn
    <3>1. LaterJobs(t)
      BY <2>3
    <3> QED BY <1>1, <3>1, NothingRead DEF SubRegionsOwn, LaterJobs
  <2>6. /\ TypeInv' /\ JobsApart' /\ FreeIsFresh' /\ ChangesCurrent' /\ TickCurrent'
        /\ \A t \in players : WaitingCurrent(t)'
    <3>1. view' \in [Sessions -> [StreamChunks -> [Blocks -> Content] \cup {NoChunk}]]
      BY <1>12, <1>15
    <3>2. stale' = stale /\ view' = view
      BY <1>15
    <3> QED BY <1>12, <2>4, <2>5, <3>1, <3>2, BroadcastQuiet
  <2>7. ASSUME NEW t \in players, session[t].connected
        PROVE  SubRegionsCurrent(t)' /\ ShownCurrent(t)'
    <3>1. SubRegionsCurrent(t) /\ ShownCurrent(t)
      BY <2>7 DEF StreamInv
    <3>2. PICK e \in Dims : e = session[t].dimension
      BY <1>11
    <3>3. LaterJobs(t)
      BY <2>3
    <3>4. SubRegionsCurrent(t)'
      <4> SUFFICES ASSUME NEW i \in Flight(t)',
                          subRegionFlight'[t][i].chunk \in session[t].flushedChunks,
                          NEW b \in DOMAIN subRegionFlight'[t][i].read
                   PROVE  ReadCurrent(t, subRegionFlight[t][i], b)' \/ CoveredAgain(t, i, b)'
        BY <1>11 DEF SubRegionsCurrent, SubRegionCurrent
      <4>1. i \in Flight(t)
        BY <3>3, NothingRead DEF LaterJobs
      <4>2. PICK old : old = subRegionFlight[t][i] /\ old = subRegionFlight'[t][i]
        BY <3>3, <4>1 DEF LaterJobs
      <4>3. old.dim = e /\ old.chunk \in StreamChunks
        BY <1>13, <3>2, <4>1, <4>2
      <4>4. ReadCurrent(t, old, b) \/ CoveredAgain(t, i, b)
        BY <3>1, <4>1, <4>2 DEF SubRegionsCurrent, SubRegionCurrent
      <4>5. CoveredAgain(t, i, b) => CoveredAgain(t, i, b)'
        BY <3>3, <4>1 DEF LaterJobs
      <4>6. CASE e = d /\ old.chunk = c /\ b \in changed
        <5>1. t \in has
          BY <1>8, <3>2, <4>2, <4>6
        <5> QED BY <2>3, <4>1, <4>2, <4>6, <5>1
      <4>7. CASE ~(e = d /\ old.chunk = c /\ b \in changed)
        <5>1. Broadcast(e, old.chunk, b) => Broadcast(e, old.chunk, b)'
          BY <1>10, <4>3, <4>7
        <5>2. ReadCurrent(t, old, b) => ReadCurrent(t, old, b)'
          BY <1>6, <1>15, <4>3, <5>1 DEF ReadCurrent
        <5> QED BY <4>2, <4>4, <4>5, <5>2
      <4> QED BY <4>6, <4>7
    <3>5. ShownCurrent(t)'
      <4> SUFFICES ASSUME NEW k \in session[t].flushedChunks, NEW b \in Blocks
                   PROVE  \/ view[t][k][b] = block[e][k][b]
                          \/ Broadcast(e, k, b)'
                          \/ b \in Covered(t, k)'
                          \/ <<t, k, b>> \in stale
        BY <1>6, <1>11, <1>15, <3>2 DEF ShownCurrent, UpdateDue, Broadcast
      <4>0. k \in StreamChunks
        BY <1>11
      <4>1. \/ view[t][k][b] = block[e][k][b]
            \/ Broadcast(e, k, b)
            \/ b \in Covered(t, k)
            \/ <<t, k, b>> \in stale
        BY <3>1, <3>2 DEF ShownCurrent, UpdateDue, Broadcast
      <4>2. b \in Covered(t, k) => b \in Covered(t, k)'
        BY <3>3 DEF LaterJobs
      <4>3. CASE e = d /\ k = c /\ b \in changed
        <5>1. t \in has
          BY <1>8, <3>2, <4>3
        <5> QED BY <2>3, <4>3, <5>1
      <4>4. CASE ~(e = d /\ k = c /\ b \in changed)
        BY <1>10, <4>0, <4>1, <4>2, <4>4
      <4> QED BY <4>3, <4>4
    <3> QED BY <3>4, <3>5
  <2> QED BY <1>6, <1>11, <2>6, <2>7 DEF StreamInv
<1> QED BY <1>6, <1>14, <1>15

(* The tick ends when all changes were broadcast; who is gone leaves nothing. *)
LEMMA EndTickStep ==
    ASSUME StreamInv, EndTick
    PROVE  StreamInv'
<1>1. /\ TypeOK /\ OthersAreClean /\ CurIsVisited /\ IndexInv /\ SentIsOwed /\ SubRegionsOwn
      /\ QueuesFinite /\ FlushedIsShown /\ JobsApart
  BY DEF StreamInv, TypeInv
<1>2. PICK gone : gone = {s \in players : ~session[s].connected}
  OBVIOUS
<1>3. /\ UNCHANGED <<block, ready, chunkBlockChanges, cur>>
      /\ pc = "broadcast" /\ pc' = "visit" /\ todo' = players' /\ missed' = {}
      /\ \A d \in Dims, c \in StreamChunks : chunkBlockChanges[d][c] = Nothing
      /\ players' = players \ gone
      /\ chunkSessions' = IndexOfPlayers(gone)
      /\ inFlight' = [s \in Sessions |-> IF s \in gone THEN [c \in StreamChunks |-> NoJob]
                                         ELSE inFlight[s]]
      /\ subRegionFlight' = [s \in Sessions |-> IF s \in gone THEN <<>> ELSE subRegionFlight[s]]
      /\ session' = [s \in players \ gone |-> session[s]]
      /\ view' = [s \in Sessions |-> IF s \in gone THEN [c \in StreamChunks |-> NoChunk]
                                     ELSE view[s]]
      /\ stale' = {t \in stale : t[1] \notin gone}
      /\ tickPackets' = [d \in Dims |-> [c \in StreamChunks |-> NoJob]]
      /\ DropJobs(inFlight', tickPackets')
  BY <1>2 DEF EndTick
<1>4. /\ session' \in [players' -> SessionType] /\ players' \subseteq players
      /\ players \subseteq Sessions
      /\ \A t \in players' : t \notin gone /\ session'[t] = session[t]
  BY <1>1, <1>3 DEF TypeOK
<1>5. /\ inFlight' \in [Sessions -> [StreamChunks -> Jobs \cup {NoJob}]]
      /\ \A t \in Sessions \ gone : inFlight'[t] = inFlight[t]
      /\ \A t \in gone, c \in StreamChunks : inFlight'[t][c] = NoJob
  BY <1>1, <1>2, <1>3, <1>4 DEF TypeOK
<1>6. /\ tickPackets' \in [Dims -> [StreamChunks -> Jobs \cup {NoJob}]]
      /\ \A d \in Dims, c \in StreamChunks : tickPackets'[d][c] = NoJob
  BY <1>3
<1>7. /\ jobs' \in [Jobs -> Reads] /\ JobsApart' /\ FreeIsFresh'
      /\ \A t \in Sessions, c \in StreamChunks :
           inFlight'[t][c] # NoJob => jobs'[inFlight'[t][c]] = jobs[inFlight[t][c]]
  <2>1. /\ players' \subseteq players
        /\ \A t \in Sessions, c \in StreamChunks : inFlight'[t][c] \in {inFlight[t][c], NoJob}
        /\ \A e \in Dims, c \in StreamChunks : tickPackets'[e][c] \in {tickPackets[e][c], NoJob}
        /\ \A t \in players' : \/ session'[t].dimension = session[t].dimension
                               \/ \A c \in StreamChunks : inFlight'[t][c] = NoJob
    BY <1>4, <1>5, <1>6
  <2>2. DropJobs(inFlight', tickPackets')
    BY <1>3
  <2> QED BY <1>1, <2>1, <2>2, JobsDropped
<1>8. /\ chunkSessions' \in [Dims -> [StreamChunks -> SUBSET Sessions]]
      /\ \A d \in Dims, c \in StreamChunks, t \in Sessions :
            t \in chunkSessions'[d][c] <=>
                /\ t \in chunkSessions[d][c]
                /\ ~(t \in gone /\ session[t].dimension = d /\ c \in session[t].flushedChunks)
  <2>1. chunkSessions \in [Dims -> [StreamChunks -> SUBSET Sessions]]
    BY <1>1 DEF TypeOK
  <2> QED BY <1>3, <2>1 DEF IndexOfPlayers
<1>9. /\ subRegionFlight' \in [Sessions -> Seq(SubRegions)]
      /\ view' \in [Sessions -> [StreamChunks -> [Blocks -> Content] \cup {NoChunk}]]
      /\ stale' \subseteq Sessions \X StreamChunks \X Blocks
      /\ \A t \in Sessions \ gone : subRegionFlight'[t] = subRegionFlight[t] /\ view'[t] = view[t]
      /\ \A t \in gone : subRegionFlight'[t] = <<>>
  <2>1. /\ subRegionFlight \in [Sessions -> Seq(SubRegions)]
        /\ view \in [Sessions -> [StreamChunks -> [Blocks -> Content] \cup {NoChunk}]]
        /\ stale \subseteq Sessions \X StreamChunks \X Blocks
        /\ gone \subseteq Sessions
    BY <1>1, <1>2, <1>4 DEF TypeOK
  <2>2. subRegionFlight' \in [Sessions -> Seq(SubRegions)]
    BY <1>3, <2>1
  <2>3. view' \in [Sessions -> [StreamChunks -> [Blocks -> Content] \cup {NoChunk}]]
    BY <1>3, <2>1
  <2> QED BY <1>3, <2>1, <2>2, <2>3
<1>10. TypeOK' /\ QueuesFinite' /\ CurIsVisited'
  <2>1. \A t \in Sessions : /\ IsFiniteSet(Queued(t)')
                            /\ Cardinality({c \in StreamChunks : inFlight'[t][c] # NoJob}) <= BatchSize
    <3>1. \A t \in Sessions, c \in StreamChunks : inFlight'[t][c] \in {inFlight[t][c], NoJob}
      BY <1>5
    <3> QED BY <1>1, <3>1, QueueShrinks
  <2>2. cur = NoSession
    BY <1>1, <1>3 DEF CurIsVisited
  <2>3. CurIsVisited'
    BY <1>3, <2>2 DEF CurIsVisited
  <2> QED BY <1>1, <1>3, <1>4, <1>5, <1>6, <1>7, <1>8, <1>9, <2>1, <2>2, <2>3
      DEF TypeOK, QueuesFinite, Phases
<1>11. ASSUME NEW t \in players PROVE IndexSettled(t)
  BY <1>1, <1>3 DEF IndexInv, Settled
<1>12. OthersAreClean'
  <2> SUFFICES ASSUME NEW t \in Sessions \ players'
               PROVE  /\ \A c \in StreamChunks : inFlight'[t][c] = NoJob
                      /\ subRegionFlight'[t] = <<>>
                      /\ \A d \in Dims, c \in StreamChunks : t \notin chunkSessions'[d][c]
    BY DEF OthersAreClean
  <2>1. CASE t \in gone
    <3>1. t \in players
      BY <1>2, <2>1
    <3> QED BY <1>5, <1>8, <1>9, <1>11, <2>1, <3>1 DEF IndexSettled
  <2>2. CASE t \notin gone
    <3>1. t \in Sessions \ players
      BY <1>3, <2>2
    <3>2. /\ \A c \in StreamChunks : inFlight[t][c] = NoJob
          /\ subRegionFlight[t] = <<>>
          /\ \A d \in Dims, c \in StreamChunks : t \notin chunkSessions[d][c]
      BY <1>1, <3>1 DEF OthersAreClean
    <3>3. inFlight'[t] = inFlight[t] /\ subRegionFlight'[t] = subRegionFlight[t]
      BY <1>5, <1>9, <2>2
    <3>4. \A d \in Dims, c \in StreamChunks : t \notin chunkSessions'[d][c]
      BY <1>8, <3>1, <3>2
    <3> QED BY <3>2, <3>3, <3>4
  <2> QED BY <2>1, <2>2
<1>13. IndexInv'
  <2> SUFFICES ASSUME NEW t \in players' PROVE IndexSettled(t)'
    BY <1>3 DEF IndexInv, Settled
  <2> QED BY <1>4, <1>8, <1>11 DEF IndexSettled
<1>14. SentIsOwed' /\ SubRegionsOwn' /\ FlushedIsShown'
  <2>1. ASSUME NEW t \in players'
        PROVE  /\ t \in players /\ session'[t] = session[t] /\ inFlight'[t] = inFlight[t]
               /\ subRegionFlight'[t] = subRegionFlight[t] /\ view'[t] = view[t]
    BY <1>4, <1>5, <1>9
  <2>2. SentIsOwed'
    BY <1>1, <2>1 DEF SentIsOwed
  <2>3. SubRegionsOwn'
    BY <1>1, <2>1 DEF SubRegionsOwn, Flight
  <2>4. FlushedIsShown'
    BY <1>1, <2>1 DEF FlushedIsShown
  <2> QED BY <2>2, <2>3, <2>4
<1>15. ChangesCurrent' /\ TickCurrent'
  BY <1>3, <1>6, NothingRead DEF ChangesCurrent, TickCurrent
<1>16. ASSUME NEW t \in players'
       PROVE  /\ WaitingCurrent(t)'
              /\ session'[t].connected => SubRegionsCurrent(t)' /\ ShownCurrent(t)'
  <2>1. /\ t \in Sessions \ gone /\ t \in players /\ WaitingCurrent(t)
        /\ session[t].connected => SubRegionsCurrent(t) /\ ShownCurrent(t)
    BY <1>4 DEF StreamInv
  <2>2. \A c \in StreamChunks : inFlight[t][c] # NoJob =>
            jobs'[inFlight[t][c]] = jobs[inFlight[t][c]]
    BY <1>5, <1>7, <2>1
  <2>3. \A k, b : <<t, k, b>> \in stale => <<t, k, b>> \in stale'
    BY <1>3, <2>1
  <2>4. /\ UNCHANGED <<block, chunkBlockChanges>> /\ session'[t] = session[t]
        /\ subRegionFlight'[t] = subRegionFlight[t] /\ view'[t] = view[t]
        /\ inFlight'[t] = inFlight[t]
    BY <1>3, <1>4, <1>5, <1>9, <2>1
  <2> QED BY <2>1, <2>2, <2>3, <2>4, OtherSession
<1> QED BY <1>7, <1>10, <1>12, <1>13, <1>14, <1>15, <1>16 DEF StreamInv, TypeInv

-----------------------------------------------------------------------------
(* The theorems.                                                           *)

LEMMA StreamInit == Init => StreamInv
<1> SUFFICES ASSUME Init PROVE StreamInv
  OBVIOUS
<1>1. TypeOK /\ QueuesFinite
  <2>1. \A s \in Sessions : Queued(s) = {}
    BY DEF Init, Queued
  <2>2. \A s \in Sessions : {c \in StreamChunks : inFlight[s][c] # NoJob} = {}
    BY DEF Init
  <2>3. IsFiniteSet({}) /\ Cardinality({}) = 0
    BY FS_EmptySet
  <2>4. QueuesFinite
    BY <2>1, <2>3 DEF QueuesFinite
  <2>5. \A s \in Sessions : Cardinality({c \in StreamChunks : inFlight[s][c] # NoJob}) <= BatchSize
    BY <2>2, <2>3, BoundsType
  <2>6. session \in [players -> SessionType]
    BY DEF Init
  <2>7. /\ block \in [Dims -> [StreamChunks -> [Blocks -> Content]]]
        /\ chunkBlockChanges \in [Dims -> [StreamChunks -> Reads]]
        /\ jobs \in [Jobs -> Reads]
    BY NothingRead, BoundsType DEF Init, Content
  <2>8. subRegionFlight \in [Sessions -> Seq(SubRegions)]
    BY DEF Init
  <2> QED BY <2>4, <2>5, <2>6, <2>7, <2>8 DEF Init, TypeOK, Phases
<1>2. /\ CurIsVisited /\ OthersAreClean /\ IndexInv /\ SentIsOwed /\ FlushedIsShown
      /\ SubRegionsOwn
  BY DEF Init, CurIsVisited, OthersAreClean, IndexInv, SentIsOwed, FlushedIsShown, SubRegionsOwn
<1>3. JobsApart /\ FreeIsFresh /\ ChangesCurrent /\ TickCurrent
  BY JobsType, NothingRead DEF Init, JobsApart, IsJobFor, FreeIsFresh, ChangesCurrent, TickCurrent
<1>4. players = {}
  BY DEF Init
<1> QED BY <1>1, <1>2, <1>3, <1>4 DEF StreamInv, TypeInv

LEMMA StreamStep == StreamInv /\ [Next]_vars => StreamInv'
<1> SUFFICES ASSUME StreamInv, [Next]_vars PROVE StreamInv'
  OBVIOUS
<1>1. CASE \E j \in Jobs, b \in Blocks : ReadBlock(j, b)
  BY <1>1, ReadBlockStep
<1>2. CASE \E s \in Sessions, b \in Blocks : \E i \in DOMAIN subRegionFlight[s] :
               ReadSubRegion(s, i, b)
  <2>1. PICK s \in Sessions, b \in Blocks : \E i \in DOMAIN subRegionFlight[s] :
               ReadSubRegion(s, i, b)
    BY <1>2
  <2>2. DOMAIN subRegionFlight[s] = Flight(s)
    BY CoveredBy DEF StreamInv, TypeInv, TypeOK
  <2> QED BY <2>1, <2>2, ReadSubRegionStep
<1>3. CASE \E d \in Dims, c \in StreamChunks, b \in Blocks : SetBlock(d, c, b)
  BY <1>3, SetBlockStep
<1>4. CASE \E s \in Sessions, d \in Dims, range \in SUBSET StreamChunks : Join(s, d, range)
  BY <1>4, JoinStep
<1>5. CASE \E s \in Sessions : Disconnect(s)
  BY <1>5, DisconnectStep
<1>6. CASE \E s \in Sessions, d \in Dims, range \in SUBSET StreamChunks :
               ResetDimensionState(s, d, range)
  BY <1>6, ResetStep
<1>7. CASE \/ \E s \in Sessions : Visit(s)
           \/ FlushDone \/ WorldsTick \/ WorldsDone
           \/ \E d \in Dims, c \in StreamChunks : ChunkReady(d, c)
  BY <1>7, ControlStep
<1>8. CASE \E range \in SUBSET StreamChunks : Move(range)
  BY <1>8, MoveStep
<1>9. CASE UnloadFar
  BY <1>9, UnloadStep
<1>10. CASE \E c \in StreamChunks : Enqueue(c)
  BY <1>10, EnqueueStep
<1>11. CASE \E c \in StreamChunks : FlushChunk(c)
  BY <1>11, FlushChunkStep
<1>12. CASE FlushSubRegion
  BY <1>12, FlushSubRegionStep
<1>13. CASE IndexUpdate
  BY <1>13, IndexUpdateStep
<1>14. CASE \E d \in Dims, c \in StreamChunks : BroadcastBlockChanges(d, c)
  BY <1>14, BroadcastStep
<1>15. CASE EndTick
  BY <1>15, EndTickStep
<1>16. CASE UNCHANGED vars
  <2>1. /\ UNCHANGED <<block, missed, chunkBlockChanges, players, senderVars, clientVars>>
        /\ UNCHANGED <<ready, session, chunkSessions, pc, cur, todo>>
    BY <1>16 DEF vars, worldVars, tickVars
  <2>2. TypeOK /\ CurIsVisited /\ OthersAreClean /\ IndexInv
    BY DEF StreamInv, TypeInv
  <2>3. \A s \in players : SameSession(s)
    BY <2>1 DEF SameSession
  <2>4. TypeOK'
    BY <2>1, <2>2 DEF TypeOK, senderVars, clientVars
  <2>5. CurIsVisited' /\ OthersAreClean' /\ IndexInv'
    BY <2>1, <2>2 DEF CurIsVisited, OthersAreClean, IndexInv, Settled, IndexSettled, IndexBehind,
       senderVars
  <2> QED BY <2>1, <2>3, <2>4, <2>5, QuietStep
<1> QED BY <1>1, <1>2, <1>3, <1>4, <1>5, <1>6, <1>7, <1>8, <1>9, <1>10, <1>11, <1>12, <1>13,
           <1>14, <1>15, <1>16 DEF Next, Pool, Environment, Tick

(* The invariant of the terrain streaming holds for every number of sessions,
   worlds, chunks, blocks, jobs and changes. *)
THEOREM StreamInvariant == Spec => []StreamInv
BY StreamInit, StreamStep, PTL DEF Spec

(* Every variable of the streaming has its type; in particular no session ever
   has more than BatchSize chunks in its queue (chunk_sender.h, Enqueue). *)
THEOREM StreamTypes == Spec => []TypeOK
<1>1. StreamInv => TypeOK
  BY DEF StreamInv, TypeInv
<1> QED BY <1>1, StreamInvariant, PTL

(* The index has exactly the sessions that have a chunk of a world, between two
   visits: ResetDimensionState, Enqueue, Flush and the removal of closed sessions
   keep it (server.cpp). *)
THEOREM IndexIsExact == Spec => []IndexExact
<1>1. ASSUME StreamInv PROVE IndexExact
  <2>1. TypeOK /\ OthersAreClean /\ IndexInv
    BY <1>1 DEF StreamInv, TypeInv
  <2> SUFFICES ASSUME NEW d \in Dims, NEW c \in StreamChunks, NEW s \in Sessions, Settled(s)
               PROVE  s \in chunkSessions[d][c] <=> /\ s \in players
                                                    /\ session[s].dimension = d
                                                    /\ c \in session[s].flushedChunks
    BY DEF IndexExact
  <2>2. CASE s \in players
    BY <2>1, <2>2 DEF IndexInv, IndexSettled
  <2>3. CASE s \notin players
    BY <2>1, <2>3 DEF OthersAreClean
  <2> QED BY <2>2, <2>3
<1> QED BY <1>1, StreamInvariant, PTL

(* A chunk is marked sent exactly while the client has it or a job for it is in
   the queue, so that Enqueue never skips one that nobody will send
   (chunk_sender.h). *)
THEOREM SentIsAlwaysOwed == Spec => []SentIsOwed
<1>1. StreamInv => SentIsOwed
  BY DEF StreamInv, TypeInv
<1> QED BY <1>1, StreamInvariant, PTL

(* A client that has a chunk shows the world's blocks or has an update on its
   way, except where a later packet overtook a sub-region or a change was missed
   (chunk_broadcaster.cpp, chunk_sender.h). *)
THEOREM ViewIsCurrent == Spec => []ViewCurrent
<1>1. StreamInv => ViewCurrent
  BY DEF StreamInv, ShownCurrent, ViewCurrent
<1> QED BY <1>1, StreamInvariant, PTL

=============================================================================
