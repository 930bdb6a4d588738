----------------------------- MODULE MCConnection -----------------------------
(***************************************************************************)
(* What must eventually happen on a connection: terrain that is near is    *)
(* sent (ChunkStream), packets that arrive are handled (PacketReader),     *)
(* bytes that are written go out (PacketWriter), a player whose click was  *)
(* rejected can click again (ClickLock).  The four have no variable in     *)
(* common, so that one run checks them side by side: part tells which of   *)
(* them moves in a behaviour.                                              *)
(***************************************************************************)
EXTENDS ChunkStream, PacketReader, PacketWriter, ClickLock

VARIABLE part

connectionVars == <<part, vars, readerVars, writerVars, lockVars>>

Terrain(A) == part = "terrain" /\ A /\ UNCHANGED <<part, readerVars, writerVars, lockVars>>
Reader(A)  == part = "reader" /\ A /\ UNCHANGED <<part, vars, writerVars, lockVars>>
Writer(A)  == part = "writer" /\ A /\ UNCHANGED <<part, vars, readerVars, lockVars>>
Lock(A)    == part = "lock" /\ A /\ UNCHANGED <<part, vars, readerVars, writerVars>>

ConnectionInit ==
    /\ part \in {"terrain", "reader", "writer", "lock"}
    /\ Init /\ PacketReaderInit /\ PacketWriterInit /\ ClickLockInit

ConnectionNext ==
    Terrain(Next) \/ Reader(PacketReaderNext) \/ Writer(PacketWriterNext) \/ Lock(ClickLockNext)

\* The fairness of the four modules, an action of each at a time.
MainThread == Terrain(Tick) \/ Reader(ServerReads) \/ Writer(MainGoesOn) \/ Lock(ServerStep)

Others ==
    Terrain(Pool) \/ Reader(DrainToBuffer) \/ Writer(StartFlush \/ TaskFlushed) \/ Lock(GetRejection)

\* What may be put off, not for ever: the socket, and the service that verifies names.
Slow == Reader(Deliver \/ Verified) \/ Writer(TaskSends)

ConnectionSpec ==
    /\ ConnectionInit
    /\ [][ConnectionNext]_connectionVars
    /\ WF_connectionVars(MainThread) /\ WF_connectionVars(Others) /\ SF_connectionVars(Slow)

\* The types of the four modules; with them the limit of the read buffer.
ConnectionTypeOK == TypeOK /\ PacketReaderTypeOK /\ PacketWriterTypeOK /\ ClickLockTypeOK
=============================================================================
