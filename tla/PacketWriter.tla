---------------------------- MODULE PacketWriter ----------------------------
(***************************************************************************)
(* How what the server writes for one client gets to it: NetworkStream's   *)
(* write buffer, which the main thread fills during a tick and the write   *)
(* thread sends between ticks, the last words to a client that is sent     *)
(* away, and Server::Run's shutdown.  The bytes are numbered from 1.       *)
(***************************************************************************)
EXTENDS Integers, Sequences

CONSTANTS
    MaxBytes,        \* bound: how many bytes the server writes
    FlushesInTime    \* the write thread needs less than the 100 ms that Run waits for it

ASSUME PacketWriterAssumption == MaxBytes \in Nat /\ FlushesInTime \in BOOLEAN

VARIABLES
    written,     \* bytes put into writeBuffer so far
    erased,      \* bytes taken out of it again: it holds erased + 1 .. written
    task,        \* the flush given to writePool
    taskSent,    \* its local: bytes sent and not erased yet
    main,        \* what the main thread is doing
    mainSent,    \* the same local, of a flush on the main thread
    online,      \* NetworkStream::connected
    stopping,    \* Run left its loop
    received,    \* what came out at the other end of the socket, in order
    refused      \* history: a last flush could not send everything

writerVars == <<written, erased, task, taskSent, main, mainSent, online, stopping, received, refused>>

PacketWriterTypeOK ==
    /\ written \in Nat /\ erased \in Nat /\ taskSent \in Nat /\ mainSent \in Nat
    /\ erased + taskSent <= written /\ erased + mainSent <= written
    /\ task \in {"none", "queued", "running"}
    /\ main \in {"tick", "kick", "last", "between", "blocking", "gone"}
    /\ online \in BOOLEAN /\ stopping \in BOOLEAN /\ refused \in BOOLEAN
    /\ received \in Seq(Nat)

PacketWriterInit ==
    /\ written = 0 /\ erased = 0 /\ taskSent = 0 /\ mainSent = 0
    /\ task = "none" /\ main = "tick"
    /\ online = TRUE /\ stopping = FALSE /\ refused = FALSE
    /\ received = <<>>

-----------------------------------------------------------------------------
(* The main thread *)

WriteBytes ==
    /\ main = "tick" /\ online
    /\ written < MaxBytes
    /\ written' = written + 1
    /\ UNCHANGED <<erased, task, taskSent, main, mainSent, online, stopping, received, refused>>

\* DisconnectPlayer: the reason is written and flushed at once.
SayGoodbye ==
    /\ written' = IF online THEN written + 1 ELSE written
    /\ main' = "kick"
    /\ mainSent' = 0

DisconnectPlayer ==
    /\ main = "tick" /\ online
    /\ SayGoodbye
    /\ UNCHANGED <<erased, task, taskSent, online, stopping, received, refused>>

\* Slip: a session that is removed gets no last flush.
SubmitWithoutLast ==
    /\ main = "tick"
    /\ main' = IF online THEN "between" ELSE "gone"
    /\ task' = IF online /\ erased < written THEN "queued" ELSE task
    /\ UNCHANGED <<written, erased, taskSent, mainSent, online, stopping, received, refused>>

\* Slip: only a buffer that holds more than one byte is flushed.
SubmitLarge ==
    /\ main = "tick"
    /\ main' = IF online THEN "between" ELSE "last"
    /\ task' = IF online /\ erased + 1 < written THEN "queued" ELSE task
    /\ UNCHANGED <<written, erased, taskSent, mainSent, online, stopping, received, refused>>

\* The end of the tick: a flush is given to the write thread, and a session
\* that is no longer connected gets its last one here.
SubmitFlush ==
    /\ main = "tick"
    /\ IF online
       THEN /\ main' = "between"
            /\ task' = IF erased < written THEN "queued" ELSE "none"
       ELSE /\ main' = "last"
            /\ UNCHANGED task
    /\ UNCHANGED <<written, erased, taskSent, mainSent, online, stopping, received, refused>>

\* writePool.wait().
StartTick ==
    /\ main = "between" /\ task = "none"
    /\ main' = "tick"
    /\ UNCHANGED <<written, erased, task, taskSent, mainSent, online, stopping, received, refused>>

\* Run gives the write thread 100 ms once: shutdownRequested is set, so that
\* the loop around the wait ends after its first turn.
WaitedForFlush == task = "none" \/ ~FlushesInTime

Stop ==
    /\ main = "between" /\ ~stopping
    /\ WaitedForFlush
    /\ stopping' = TRUE
    /\ SayGoodbye
    /\ UNCHANGED <<erased, task, taskSent, online, received, refused>>

\* One byte of a flush on the main thread, blocking or not.
MainSends ==
    /\ main \in {"kick", "last", "blocking"}
    /\ erased + mainSent < written
    /\ received' = Append(received, erased + mainSent + 1)
    /\ mainSent' = mainSent + 1
    /\ UNCHANGED <<written, erased, task, taskSent, main, online, stopping, refused>>

\* Slip: the buffer keeps what was sent.
KickFlushedUnerased ==
    /\ main = "kick"
    /\ erased' = erased /\ mainSent' = 0
    /\ online' = FALSE
    /\ main' = IF stopping THEN "blocking" ELSE "tick"
    /\ UNCHANGED <<written, task, taskSent, stopping, received, refused>>

\* All is sent, the socket takes no more, or the connection failed.
KickFlushed ==
    /\ main = "kick"
    /\ erased' = erased + mainSent /\ mainSent' = 0
    /\ online' = FALSE
    /\ main' = IF stopping THEN "blocking" ELSE "tick"
    /\ UNCHANGED <<written, task, taskSent, stopping, received, refused>>

\* The stream closes the socket: at shutdown after the blocking flush, else
\* when the session is destroyed.
LastFlushed ==
    /\ main \in {"last", "blocking"}
    /\ erased' = written /\ mainSent' = 0
    /\ \/ erased + mainSent < written /\ refused' = TRUE
       \/ erased + mainSent = written /\ UNCHANGED refused
    /\ main' = "gone"
    /\ UNCHANGED <<written, task, taskSent, online, stopping, received>>

-----------------------------------------------------------------------------
(* The write thread: FlushWriteBuffer *)

StartFlush ==
    /\ task = "queued"
    /\ task' = "running" /\ taskSent' = 0
    /\ UNCHANGED <<written, erased, main, mainSent, online, stopping, received, refused>>

TaskSends ==
    /\ task = "running"
    /\ erased + taskSent < written
    /\ received' = Append(received, erased + taskSent + 1)
    /\ taskSent' = taskSent + 1
    /\ UNCHANGED <<written, erased, task, main, mainSent, online, stopping, refused>>

\* All is sent, the socket takes no more, or the connection failed.
TaskFlushed ==
    /\ task = "running"
    /\ task' = "none"
    /\ erased' = erased + taskSent /\ taskSent' = 0
    /\ \/ UNCHANGED online
       \/ erased' < written /\ online' = FALSE
    /\ UNCHANGED <<written, main, mainSent, stopping, received, refused>>

MainGoesOn == SubmitFlush \/ StartTick \/ Stop \/ MainSends \/ KickFlushed \/ LastFlushed

PacketWriterNext ==
    \/ WriteBytes \/ DisconnectPlayer \/ MainGoesOn
    \/ StartFlush \/ TaskSends \/ TaskFlushed

\* The client keeps reading, so that the socket takes bytes again and again.
PacketWriterFairness ==
    /\ WF_writerVars(MainGoesOn)
    /\ WF_writerVars(StartFlush \/ TaskFlushed)
    /\ SF_writerVars(TaskSends)

PacketWriterSpec == PacketWriterInit /\ [][PacketWriterNext]_writerVars

-----------------------------------------------------------------------------
(* Properties *)

Outgoing == INSTANCE OrderedDelivery WITH
    given   <- written,
    upto    <- Len(received),
    taken   <- received,
    lenient <- FALSE,
    open    <- TRUE

\* The client receives the bytes the server wrote, in order, none twice and none
\* left out in between, although two threads send from one buffer, a flush may
\* end anywhere, and the last ones are made by the other thread.
BytesInOrder == Outgoing!DeliverySpec

\* A client that is sent away, or that is there when the server stops, gets
\* everything that was written, the reason last, unless its socket takes no more.
GoodbyeArrives == main = "gone" /\ ~refused => Len(received) = written

\* What is written reaches a client that keeps reading, unless the connection
\* ends.
BytesArrive ==
    \A n \in 1..MaxBytes : written >= n ~> (Len(received) >= n \/ ~online \/ main = "gone")

=============================================================================
