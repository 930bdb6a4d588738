--------------------------- MODULE ConnectionProofs ---------------------------
(***************************************************************************)
(* Proofs about the connection of one client, part by part and then side   *)
(* by side.                                                                *)
(*                                                                         *)
(* Both directions implement OrderedDelivery, for packets of any lengths,  *)
(* any buffer and any number of bytes.  Incoming: while nothing is         *)
(* misread, all of the packets dealt with are consumed, and reading in     *)
(* play stands at the first byte of the next one (ReaderInv).  Outgoing:   *)
(* the write thread works only while the main thread waits between two     *)
(* ticks, so that what the socket took is what was erased and what the     *)
(* flush under way has sent (WriterInv).                                   *)
(*                                                                         *)
(* No click that was made on a view the server found wrong is carried out, *)
(* for any windows, any number of clicks and whatever the client answers.  *)
(* At most one rejection is under way.  Until the client has it, no        *)
(* confirmation is (Undelivered); then the clicks behind the confirmation  *)
(* were made on the view that the rejection brought (Delivered); and when  *)
(* the lock is open, all clicks were (Unlocked).                           *)
(*                                                                         *)
(* The four parts have no variable in common: a step of one leaves the     *)
(* invariants of the others as they are (ConnectionInv).                   *)
(***************************************************************************)
EXTENDS MCConnection, ChunkStreamProofs

-----------------------------------------------------------------------------
(* Incoming *)

Increasing == \A n \in 1..Len(ends) : Start(n - 1) <= ends[n]

ReaderInv ==
    /\ PacketReaderTypeOK
    /\ Increasing
    /\ reading = "process" => ReadsPackets
    /\ ~misread => Start(dealt) <= readPos
    /\ ~misread /\ connected /\ connState = "Playing" => AtStart

LEMMA EndsFacts ==
    ASSUME PacketReaderTypeOK, NEW n \in 0..Len(ends)
    PROVE  /\ Len(ends) \in Nat /\ Start(n) \in Nat /\ Sent \in Nat
           /\ n < Len(ends) => n + 1 \in 1..Len(ends) /\ ends[n + 1] \in Nat /\ Start(n + 1) = ends[n + 1]
<1>1. Len(ends) \in Nat /\ \A k \in 1..Len(ends) : ends[k] \in Nat
  BY DEF PacketReaderTypeOK
<1>2. Len(ends) # 0 => Len(ends) \in 1..Len(ends)
  BY <1>1
<1> QED BY <1>1, <1>2 DEF Start, Sent

(* While bytes are left and nothing is misread, there is a packet they belong to. *)
LEMMA NextPacket ==
    ASSUME ReaderInv, ~misread, HasData
    PROVE  /\ dealt < Len(ends) /\ dealt + 1 \in 1..Len(ends) /\ ends[dealt + 1] \in Nat
           /\ Start(dealt + 1) = ends[dealt + 1]
<1>1. /\ dealt \in 0..Len(ends) /\ arrived \in Nat /\ readPos \in Nat /\ arrived <= Sent
      /\ Start(dealt) \in Nat /\ Sent \in Nat /\ Len(ends) \in Nat
  <2>1. dealt \in 0..Len(ends) /\ arrived \in 0..Sent /\ readPos \in 0..arrived
    BY DEF ReaderInv, PacketReaderTypeOK
  <2> QED BY <2>1, EndsFacts DEF ReaderInv
<1>2. dealt # Len(ends)
  BY <1>1 DEF ReaderInv, HasData, Sent
<1> QED BY <1>1, <1>2, EndsFacts DEF ReaderInv

LEMMA InitReader == PacketReaderInit => ReaderInv
<1> SUFFICES ASSUME PacketReaderInit PROVE ReaderInv
  OBVIOUS
<1>1. ends = <<>> /\ handled = <<>> /\ Len(ends) = 0 /\ ends \in Seq(Nat) /\ handled \in Seq(Nat)
  BY DEF PacketReaderInit
<1>2. Sent = 0 /\ Start(0) = 0 /\ Increasing
  BY <1>1 DEF Sent, Start, Increasing
<1>3. /\ arrived = 0 /\ readPos = 0 /\ dealt = 0 /\ arrived - readPos <= MaxReadBuffer
      /\ connState \in ConnectionState /\ reading = "drain"
      /\ connected \in BOOLEAN /\ misread \in BOOLEAN
  <2>1. /\ arrived = 0 /\ readPos = 0 /\ dealt = 0 /\ reading = "drain"
        /\ connState = "Handshaking" /\ connected = TRUE /\ misread = FALSE
    BY DEF PacketReaderInit
  <2>2. arrived - readPos <= MaxReadBuffer
    BY <2>1, PacketReaderAssumption
  <2> QED BY <2>1, <2>2 DEF ConnectionState
<1>4. PacketReaderTypeOK
  <2>1. arrived \in 0..Sent /\ readPos \in 0..arrived /\ dealt \in 0..Len(ends)
    BY <1>1, <1>2, <1>3
  <2> QED BY <1>1, <1>3, <2>1 DEF PacketReaderTypeOK
<1> QED
  BY <1>1, <1>2, <1>4
  DEF PacketReaderInit, ReaderInv, ReadsPackets, AtStart

(* A step either deals with nothing, or handles the next packet, or passes it
   over while the player waits or is gone, or goes on where a packet was
   misread. *)
LEMMA ReaderStep ==
    ASSUME ReaderInv, [PacketReaderNext]_readerVars
    PROVE  /\ ReaderInv'
           /\ misread => misread'
           /\ \/ misread'
              \/ UNCHANGED <<dealt, handled>> /\ Len(ends') >= Len(ends)
              \/ /\ dealt < Len(ends) /\ dealt' = dealt + 1 /\ handled' = Append(handled, dealt')
                 /\ UNCHANGED ends
              \/ /\ dealt < Len(ends) /\ dealt' = dealt + 1 /\ UNCHANGED <<ends, handled>>
                 /\ connState = "WaitingForSpawnChunks" \/ ~connected
<1> USE DEF ReadsPackets, AtStart, HasData
<1>t. /\ PacketReaderTypeOK /\ ends \in Seq(Nat) /\ Len(ends) \in Nat /\ Sent \in Nat
      /\ dealt \in 0..Len(ends) /\ dealt \in Nat /\ arrived \in Nat /\ arrived <= Sent
      /\ readPos \in Nat /\ readPos <= arrived
      /\ handled \in Seq(Nat) /\ MaxReadBuffer \in Nat /\ arrived - readPos <= MaxReadBuffer
  <2>1. /\ PacketReaderTypeOK /\ dealt \in 0..Len(ends) /\ arrived \in 0..Sent /\ readPos \in 0..arrived
        /\ ends \in Seq(Nat) /\ handled \in Seq(Nat) /\ arrived - readPos <= MaxReadBuffer
    BY DEF ReaderInv, PacketReaderTypeOK
  <2> QED BY <2>1, EndsFacts, PacketReaderAssumption
<1>s. ASSUME UNCHANGED ends
      PROVE  UNCHANGED Sent /\ Increasing' /\ \A n \in Nat : Start(n)' = Start(n)
  BY <1>s DEF Sent, Start, ReaderInv, Increasing
<1>1. CASE Send
  <2>1. PICK length \in Lengths : ends' = Append(ends, Sent + length)
    BY <1>1 DEF Send
  <2>2. /\ ends' \in Seq(Nat) /\ Len(ends') = Len(ends) + 1 /\ ends'[Len(ends')] = Sent + length
        /\ \A k \in 1..Len(ends) : ends'[k] = ends[k]
        /\ length \in Nat
    BY <1>t, <2>1, PacketReaderAssumption
  <2>3. Sent' = Sent + length /\ Start(dealt)' = Start(dealt)
    BY <1>1, <1>t, <2>2 DEF Send, Sent, Start
  <2>4. PacketReaderTypeOK'
    BY <1>1, <1>t, <2>2, <2>3 DEF Send, PacketReaderTypeOK
  <2>5. Increasing'
    <3> SUFFICES ASSUME NEW n \in 1..Len(ends') PROVE Start(n - 1)' <= ends'[n]
      BY DEF Increasing
    <3>1. CASE n = Len(ends')
      <4>1. n - 1 = Len(ends) /\ (Len(ends) # 0 => Len(ends) \in 1..Len(ends))
        BY <1>t, <2>2, <3>1
      <4>2. Start(n - 1)' = Sent
        BY <1>t, <2>2, <4>1 DEF Sent, Start
      <4> QED BY <1>t, <2>2, <3>1, <4>2
    <3>2. CASE n # Len(ends')
      <4>1. n \in 1..Len(ends) /\ (n - 1 # 0 => n - 1 \in 1..Len(ends))
        BY <1>t, <2>2, <3>2
      <4>2. Start(n - 1)' = Start(n - 1)
        BY <2>2, <4>1 DEF Start
      <4> QED BY <2>2, <4>1, <4>2 DEF ReaderInv, Increasing
    <3> QED BY <3>1, <3>2
  <2> QED BY <1>1, <1>t, <2>2, <2>3, <2>4, <2>5 DEF Send, ReaderInv
<1>2. CASE DrainToBuffer
  <2>1. UNCHANGED Sent /\ Increasing' /\ \A n \in Nat : Start(n)' = Start(n)
    BY <1>2, <1>s DEF DrainToBuffer
  <2>2. arrived' \in 0..Sent /\ arrived <= arrived' /\ arrived' - readPos <= MaxReadBuffer
    <3>1. CASE UNCHANGED arrived
      BY <1>t, <3>1
    <3>2. ASSUME NEW bytes \in 0..(Sent - arrived), HasRoom(bytes), arrived' = arrived + bytes
          PROVE  arrived' \in 0..Sent /\ arrived <= arrived' /\ arrived' - readPos <= MaxReadBuffer
      BY <1>t, <3>2 DEF HasRoom
    <3> QED BY <1>2, <3>1, <3>2 DEF DrainToBuffer
  <2>3. /\ UNCHANGED <<ends, readPos, connState, handled, dealt, misread>>
        /\ reading' = IF ReadsPackets THEN "process" ELSE "connection"
        /\ connected' \in BOOLEAN /\ (connected' => connected)
    BY <1>2, <1>t DEF DrainToBuffer, PacketReaderTypeOK
  <2>4. PacketReaderTypeOK'
    <3>1. readPos' \in 0..arrived' /\ reading' \in {"drain", "process", "connection", "gone"}
      BY <1>t, <2>2, <2>3
    <3> QED BY <1>t, <2>1, <2>2, <2>3, <3>1 DEF PacketReaderTypeOK
  <2> QED BY <1>t, <2>1, <2>2, <2>3, <2>4 DEF ReaderInv
<1>3. CASE NoMoreData \/ Rollback \/ FinishLogin \/ NothingToDo \/ Remove
  <2>1. /\ UNCHANGED <<ends, arrived, readPos, handled, dealt, misread>>
        /\ connected' => connected
        /\ reading' # "process"
        /\ reading' \in {"connection", "drain", "gone"}
        /\ connState' \in ConnectionState /\ connected' \in BOOLEAN
        /\ connState' = "Playing" => connState = "Playing"
    <3>1. connState \in ConnectionState /\ connected \in BOOLEAN
      BY <1>t DEF PacketReaderTypeOK
    <3>2. CASE FinishLogin
      BY <3>1, <3>2 DEF FinishLogin, ConnectionState
    <3>3. CASE NoMoreData \/ Rollback \/ NothingToDo \/ Remove
      BY <3>1, <3>3 DEF NoMoreData, Rollback, NothingToDo, Remove
    <3> QED BY <1>3, <3>2, <3>3
  <2>2. UNCHANGED Sent /\ Increasing' /\ \A n \in Nat : Start(n)' = Start(n)
    BY <1>s, <2>1
  <2> QED BY <1>t, <2>1, <2>2 DEF ReaderInv, PacketReaderTypeOK
<1>4. CASE PassOverByte
  <2>1. UNCHANGED Sent /\ Increasing' /\ \A n \in Nat : Start(n)' = Start(n)
    BY <1>4, <1>s DEF PassOverByte
  <2>2. readPos' = readPos + 1 /\ readPos' <= arrived
    BY <1>4, <1>t DEF PassOverByte
  <2>3. /\ connState = "WaitingForSpawnChunks" \/ ~connected
        /\ UNCHANGED <<ends, arrived, connState, connected, reading, handled, misread>>
    BY <1>4 DEF PassOverByte, ReaderInv
  <2>4. CASE ~misread /\ readPos' = ends[dealt + 1]
    <3>1. dealt' = dealt + 1 /\ dealt < Len(ends) /\ Start(dealt + 1) = readPos'
      BY <1>4, <2>4, NextPacket DEF PassOverByte
    <3>2. dealt + 1 \in Nat /\ dealt + 1 \in 0..Len(ends)
      BY <1>t, <3>1
    <3>3. Start(dealt)' = readPos' /\ dealt' \in 0..Len(ends)
      BY <2>1, <3>1, <3>2
    <3> QED BY <1>t, <2>1, <2>2, <2>3, <3>1, <3>3 DEF ReaderInv, PacketReaderTypeOK
  <2>5. CASE ~(~misread /\ readPos' = ends[dealt + 1])
    <3>1. dealt' = dealt /\ Start(dealt)' = Start(dealt) /\ Start(dealt) \in Nat
      <4>1. dealt' = dealt
        BY <1>4, <2>5 DEF PassOverByte
      <4> QED BY <1>t, <2>1, <4>1, EndsFacts
    <3> QED BY <1>t, <2>1, <2>2, <2>3, <3>1 DEF ReaderInv, PacketReaderTypeOK
  <2> QED BY <2>4, <2>5
<1>5. CASE HandlePacket \/ (ReadLoginPacket /\ AtStart /\ Complete)
  <2>1. /\ AtStart /\ HasData /\ ends[dealt + 1] <= arrived
        /\ readPos' = ends[dealt + 1] /\ dealt' = dealt + 1 /\ handled' = Append(handled, dealt')
        /\ UNCHANGED <<ends, arrived, misread>>
    BY <1>5 DEF HandlePacket, ReadLoginPacket, Dispatching, Complete
  <2>2. UNCHANGED Sent /\ Increasing' /\ \A n \in Nat : Start(n)' = Start(n)
    BY <1>s, <2>1
  <2>3. dealt < Len(ends)
    BY <1>t, <2>1 DEF Sent
  <2>4. ends[dealt + 1] \in Nat /\ Start(dealt + 1) = ends[dealt + 1] /\ readPos <= ends[dealt + 1]
    <3>1. dealt + 1 \in 1..Len(ends) /\ (dealt + 1) - 1 = dealt
      BY <1>t, <2>3
    <3> QED BY <1>t, <2>1, <3>1 DEF ReaderInv, Increasing, Start
  <2>5. AtStart' /\ dealt' \in 0..Len(ends') /\ handled' \in Seq(Nat)
    BY <1>t, <2>1, <2>2, <2>3, <2>4
  <2>6. /\ connState' \in ConnectionState /\ connected' \in BOOLEAN
        /\ reading' \in {"drain", "process", "connection"}
        /\ reading' = "process" => ReadsPackets'
    BY <1>5 DEF HandlePacket, Dispatching, Outcome, ReadLoginPacket, AfterLoginPacket, ReaderInv,
       PacketReaderTypeOK, ConnectionState
  <2>7. readPos' \in 0..arrived /\ arrived - readPos' <= MaxReadBuffer
    BY <1>t, <2>1, <2>4
  <2>8. PacketReaderTypeOK'
    BY <1>t, <2>1, <2>2, <2>5, <2>6, <2>7 DEF PacketReaderTypeOK
  <2>9. ReaderInv'
    <3>1. readPos' \in Nat /\ Start(dealt)' = readPos'
      BY <1>t, <2>5, <2>7
    <3> QED BY <2>1, <2>2, <2>5, <2>6, <2>8, <3>1 DEF ReaderInv
  <2> QED BY <2>1, <2>3, <2>9
<1>6. CASE ReadLoginPacket /\ ~(AtStart /\ Complete)
  <2>1. /\ misread' /\ UNCHANGED <<ends, arrived, dealt, handled, connState, connected>>
        /\ reading' \in {"drain", "connection"}
    BY <1>6 DEF ReadLoginPacket
  <2>2. PICK bytes \in 1..(arrived - readPos) : readPos' = readPos + bytes
    BY <1>6 DEF ReadLoginPacket
  <2>3. UNCHANGED Sent /\ Increasing' /\ \A n \in Nat : Start(n)' = Start(n)
    BY <1>s, <2>1
  <2>4. readPos' \in 0..arrived /\ arrived - readPos' <= MaxReadBuffer
    BY <1>t, <2>2
  <2>5. PacketReaderTypeOK'
    BY <1>t, <2>1, <2>3, <2>4 DEF PacketReaderTypeOK
  <2> QED BY <2>1, <2>3, <2>5 DEF ReaderInv
<1>7. CASE Misparse
  <2>1. misread /\ misread' /\ UNCHANGED <<ends, arrived, dealt>>
    BY <1>7 DEF Misparse, Dispatching, ReaderInv
  <2>2. /\ connState' \in ConnectionState /\ connected' \in BOOLEAN
        /\ reading' \in {"process", "connection"}
        /\ reading' = "process" => ReadsPackets'
    BY <1>7 DEF Misparse, Dispatching, Outcome, ReaderInv, PacketReaderTypeOK, ConnectionState
  <2>3. UNCHANGED Sent /\ Increasing' /\ \A n \in Nat : Start(n)' = Start(n)
    BY <1>s, <2>1
  <2>4. readPos' \in 0..arrived /\ arrived - readPos' <= MaxReadBuffer /\ handled' \in Seq(Nat)
    <3>1. CASE UNCHANGED <<readPos, handled>>
      BY <1>t, <3>1
    <3>2. ASSUME NEW length \in Lengths, readPos + length <= arrived, readPos' = readPos + length,
                 handled' = Append(handled, 0)
          PROVE  readPos' \in 0..arrived /\ arrived - readPos' <= MaxReadBuffer /\ handled' \in Seq(Nat)
      <4>1. length \in Nat
        BY PacketReaderAssumption
      <4> QED BY <1>t, <3>2, <4>1
    <3> QED BY <1>7, <3>1, <3>2 DEF Misparse
  <2>5. PacketReaderTypeOK'
    BY <1>t, <2>1, <2>2, <2>3, <2>4 DEF PacketReaderTypeOK
  <2> QED BY <2>1, <2>2, <2>3, <2>5 DEF ReaderInv
<1>8. CASE EnterPlay
  <2>1. /\ UNCHANGED <<ends, arrived, readPos, connected, handled, dealt>>
        /\ misread' = (misread \/ ~AtStart) /\ connState' = "Playing" /\ reading' = "drain"
    BY <1>8 DEF EnterPlay
  <2>2. UNCHANGED Sent /\ Increasing' /\ \A n \in Nat : Start(n)' = Start(n)
    BY <1>s, <2>1
  <2>3. PacketReaderTypeOK'
    BY <1>t, <2>1, <2>2 DEF PacketReaderTypeOK, ConnectionState
  <2>4. Start(dealt)' = Start(dealt) /\ dealt' = dealt /\ Increasing'
    BY <1>t, <2>1, <2>2
  <2>5. ReaderInv'
    <3>1. ~misread' => ~misread /\ readPos = Start(dealt)
      BY <2>1
    <3> QED BY <2>1, <2>3, <2>4, <3>1 DEF ReaderInv
  <2>6. misread => misread'
    BY <2>1
  <2>7. UNCHANGED <<dealt, handled>> /\ Len(ends') >= Len(ends)
    BY <1>t, <2>1
  <2> QED BY <2>5, <2>6, <2>7
<1>9. CASE UNCHANGED readerVars
  <2>1. UNCHANGED <<ends, arrived, readPos, connState, connected, reading, handled, dealt, misread>>
    BY <1>9 DEF readerVars
  <2>2. UNCHANGED Sent /\ Increasing' /\ \A n \in Nat : Start(n)' = Start(n)
    BY <1>s, <2>1
  <2> QED BY <1>t, <2>1, <2>2 DEF ReaderInv, PacketReaderTypeOK
<1>10. \/ Send \/ DrainToBuffer \/ (NoMoreData \/ Rollback \/ FinishLogin \/ NothingToDo \/ Remove)
       \/ PassOverByte \/ HandlePacket \/ (ReadLoginPacket /\ AtStart /\ Complete)
       \/ (ReadLoginPacket /\ ~(AtStart /\ Complete)) \/ Misparse \/ EnterPlay \/ UNCHANGED readerVars
  BY DEF PacketReaderNext, ServerReads
<1> QED BY <1>1, <1>2, <1>3, <1>4, <1>5, <1>6, <1>7, <1>8, <1>9, <1>10

LEMMA ReaderHolds == PacketReaderSpec => []ReaderInv
BY InitReader, ReaderStep, PTL DEF PacketReaderSpec

(* What PacketReader's buffer, position and states always are.             *)
THEOREM ReaderTyped == PacketReaderSpec => []PacketReaderTypeOK
<1>1. ReaderInv => PacketReaderTypeOK
  BY DEF ReaderInv
<1> QED BY <1>1, ReaderHolds, PTL

(* Packets are handled in the order they were sent, each at most once, and
   passed over only while the player waits or is gone, until one is misread:
   ProcessIncoming and the login implement OrderedDelivery.                 *)
THEOREM PacketsAreInOrder == PacketReaderSpec => PacketsInOrder
<1>1. PacketReaderInit => Incoming!DeliveryInit
  BY DEF PacketReaderInit, Incoming!DeliveryInit
<1>2. ReaderInv /\ [PacketReaderNext]_readerVars => [Incoming!DeliveryNext]_(Incoming!deliveryVars)
  <2> SUFFICES ASSUME ReaderInv, [PacketReaderNext]_readerVars PROVE Incoming!DeliveryNext
    OBVIOUS
  <2>1. Len(ends) \in Nat /\ Len(ends') \in Nat /\ dealt \in Nat
    BY ReaderStep, EndsFacts DEF ReaderInv, PacketReaderTypeOK
  <2> QED BY <2>1, ReaderStep
      DEF Incoming!DeliveryNext, Incoming!Give, Incoming!Take, Incoming!PassOver, Incoming!BreakOff
<1> QED BY <1>1, <1>2, ReaderHolds, PTL DEF PacketsInOrder, Incoming!DeliverySpec, PacketReaderSpec

-----------------------------------------------------------------------------
(* Outgoing *)

WriterInv ==
    /\ PacketWriterTypeOK
    /\ main # "between" => task = "none"
    /\ task # "running" => taskSent = 0
    /\ main \notin {"kick", "last", "blocking"} => mainSent = 0
    /\ main # "gone" => Len(received) = erased + mainSent + taskSent
    /\ GoodbyeArrives

LEMMA InitWriter == PacketWriterInit => WriterInv
<1> SUFFICES ASSUME PacketWriterInit PROVE WriterInv
  OBVIOUS
<1>1. received = <<>> /\ received \in Seq(Nat) /\ Len(received) = 0
  BY DEF PacketWriterInit
<1>2. /\ written = 0 /\ erased = 0 /\ taskSent = 0 /\ mainSent = 0 /\ task = "none" /\ main = "tick"
      /\ online \in BOOLEAN /\ stopping \in BOOLEAN /\ refused \in BOOLEAN
  BY DEF PacketWriterInit
<1>3. erased + taskSent <= written /\ erased + mainSent <= written /\ Len(received) = erased + mainSent + taskSent
  BY <1>1, <1>2
<1> QED BY <1>1, <1>2, <1>3 DEF WriterInv, PacketWriterTypeOK, GoodbyeArrives

(* A step either sends nothing, or sends the byte that comes next. *)
LEMMA WriterStep ==
    ASSUME FlushesInTime, WriterInv, [PacketWriterNext]_writerVars
    PROVE  /\ WriterInv'
           /\ \/ written' >= written /\ UNCHANGED received
              \/ /\ Len(received) < written
                 /\ received' = Append(received, Len(received) + 1)
                 /\ Len(received') = Len(received) + 1
                 /\ UNCHANGED written
<1>t. /\ written \in Nat /\ erased \in Nat /\ taskSent \in Nat /\ mainSent \in Nat
      /\ received \in Seq(Nat) /\ Len(received) \in Nat /\ PacketWriterTypeOK
  BY DEF WriterInv, PacketWriterTypeOK
<1> USE DEF WriterInv, PacketWriterTypeOK, GoodbyeArrives
<1>1. CASE WriteBytes
  BY <1>1, <1>t DEF WriteBytes
<1>2. CASE DisconnectPlayer
  BY <1>2, <1>t DEF DisconnectPlayer, SayGoodbye
<1>3. CASE SubmitFlush
  BY <1>3, <1>t DEF SubmitFlush
<1>4. CASE StartTick
  BY <1>4, <1>t DEF StartTick
<1>5. CASE Stop
  BY <1>5, <1>t DEF Stop, SayGoodbye, WaitedForFlush
<1>6. CASE MainSends
  <2>1. erased + mainSent = Len(received) /\ erased + mainSent < written
    BY <1>6, <1>t DEF MainSends
  <2>2. received' = Append(received, Len(received) + 1) /\ mainSent' = mainSent + 1
    BY <1>6, <2>1 DEF MainSends
  <2>3. received' \in Seq(Nat) /\ Len(received') = Len(received) + 1
    BY <1>t, <2>2
  <2> QED BY <1>6, <1>t, <2>1, <2>2, <2>3 DEF MainSends
<1>7. CASE KickFlushed
  <2>1. /\ erased' = erased + mainSent /\ mainSent' = 0 /\ main' \in {"tick", "blocking"}
        /\ online' \in BOOLEAN /\ UNCHANGED <<written, task, taskSent, stopping, received, refused>>
    BY <1>7 DEF KickFlushed
  <2>2. main = "kick" /\ task = "none" /\ taskSent = 0 /\ Len(received) = erased + mainSent + taskSent
    BY <1>7 DEF KickFlushed
  <2> QED BY <1>t, <2>1, <2>2
<1>8. CASE LastFlushed
  <2>1. /\ erased' = written /\ mainSent' = 0 /\ main' = "gone"
        /\ UNCHANGED <<written, task, taskSent, online, stopping, received>>
    BY <1>8 DEF LastFlushed
  <2>2. /\ task = "none" /\ taskSent = 0 /\ Len(received) = erased + mainSent + taskSent
        /\ erased + mainSent <= written
    BY <1>8 DEF LastFlushed
  <2>3. refused' \in BOOLEAN /\ (~refused' => erased + mainSent >= written)
    <3>1. CASE erased + mainSent < written /\ refused' = TRUE
      BY <3>1
    <3>2. CASE erased + mainSent = written /\ UNCHANGED refused
      BY <1>t, <3>2
    <3> QED BY <1>8, <3>1, <3>2 DEF LastFlushed
  <2>4. ~refused' => Len(received) = written
    BY <1>t, <2>2, <2>3
  <2> QED BY <1>t, <2>1, <2>2, <2>3, <2>4
<1>9. CASE StartFlush
  BY <1>9, <1>t DEF StartFlush
<1>10. CASE TaskSends
  <2>1. erased + taskSent = Len(received) /\ erased + taskSent < written
    BY <1>10, <1>t DEF TaskSends
  <2>2. received' = Append(received, Len(received) + 1) /\ taskSent' = taskSent + 1
    BY <1>10, <2>1 DEF TaskSends
  <2>3. received' \in Seq(Nat) /\ Len(received') = Len(received) + 1
    BY <1>t, <2>2
  <2> QED BY <1>10, <1>t, <2>1, <2>2, <2>3 DEF TaskSends
<1>11. CASE TaskFlushed
  <2>1. /\ task' = "none" /\ erased' = erased + taskSent /\ taskSent' = 0
        /\ UNCHANGED <<written, main, mainSent, stopping, received, refused>>
    BY <1>11 DEF TaskFlushed
  <2>2. online' \in BOOLEAN
    BY <1>11 DEF TaskFlushed
  <2>3. main = "between" /\ mainSent = 0 /\ Len(received) = erased + mainSent + taskSent
    BY <1>11 DEF TaskFlushed
  <2> QED BY <1>t, <2>1, <2>2, <2>3
<1>12. CASE UNCHANGED writerVars
  BY <1>12, <1>t DEF writerVars
<1> QED
  BY <1>1, <1>2, <1>3, <1>4, <1>5, <1>6, <1>7, <1>8, <1>9, <1>10, <1>11, <1>12 DEF PacketWriterNext, MainGoesOn

LEMMA WriterHolds == ASSUME FlushesInTime PROVE PacketWriterSpec => []WriterInv
BY InitWriter, WriterStep, PTL DEF PacketWriterSpec

(* The client gets the bytes that were written, each once and in order, when
   the write thread is done before Run stops waiting for it: the two threads
   that send from one buffer implement OrderedDelivery.                     *)
THEOREM BytesAreInOrder == ASSUME FlushesInTime PROVE PacketWriterSpec => BytesInOrder
<1>1. PacketWriterInit => Outgoing!DeliveryInit
  BY DEF PacketWriterInit, Outgoing!DeliveryInit
<1>2. WriterInv /\ [PacketWriterNext]_writerVars => [Outgoing!DeliveryNext]_(Outgoing!deliveryVars)
  <2> SUFFICES ASSUME WriterInv, [PacketWriterNext]_writerVars PROVE Outgoing!DeliveryNext
    OBVIOUS
  <2>1. Len(received) \in Nat
    BY DEF WriterInv, PacketWriterTypeOK
  <2> QED BY <2>1, WriterStep DEF Outgoing!DeliveryNext, Outgoing!Give, Outgoing!Take
<1> QED BY <1>1, <1>2, WriterHolds, PTL DEF BytesInOrder, Outgoing!DeliverySpec, PacketWriterSpec

(* Under the same assumption a client that is sent away gets every byte, the
   reason last, unless its socket takes no more.                            *)
THEOREM GoodbyesArrive == ASSUME FlushesInTime PROVE PacketWriterSpec => []GoodbyeArrives
<1>1. WriterInv => GoodbyeArrives
  BY DEF WriterInv
<1> QED BY <1>1, WriterHolds, PTL

-----------------------------------------------------------------------------
(* The transaction lock *)

Packets == 1..Len(toServer)

IsFresh(i) == toServer[i].type = "click" /\ toServer[i].seen = rejections

Unlocked ==
    /\ toClient = <<>> /\ resynced = rejections
    /\ \A i \in Packets : IsFresh(i)

Undelivered ==
    /\ toClient = <<pending>> /\ rejections = resynced + 1
    /\ \A i \in Packets : toServer[i].type = "click"

Delivered ==
    /\ toClient = <<>> /\ resynced = rejections
    /\ \A i \in Packets : toServer[i].type = "confirm" =>
           /\ toServer[i].transaction = pending
           /\ \A j \in Packets : i < j => IsFresh(j)

LockInv ==
    /\ ClickLockTypeOK
    /\ AppliedOnResyncedView
    /\ inventoryLocked \/ Unlocked
    /\ ~inventoryLocked \/ Undelivered \/ Delivered

-----------------------------------------------------------------------------

(* The server takes the first packet, and the others move up. *)
LEMMA TailOfPackets ==
    ASSUME ClickLockTypeOK, toServer # <<>>, toServer' = Tail(toServer)
    PROVE  /\ toServer' \in Seq(ClickPacket \cup ConfirmPacket)
           /\ Len(toServer) \in Nat /\ Len(toServer') = Len(toServer) - 1
           /\ Head(toServer) = toServer[1]
           /\ \A i \in 1..Len(toServer') : toServer'[i] = toServer[i + 1]
           /\ \A i \in 1..Len(toServer') : i + 1 \in Packets
           /\ 1 \in Packets
BY DEF ClickLockTypeOK, Packets

(* A packet that is sent is the last one. *)
LEMMA AppendedPacket ==
    ASSUME ClickLockTypeOK, NEW p \in ClickPacket \cup ConfirmPacket, toServer' = Append(toServer, p)
    PROVE  /\ toServer' \in Seq(ClickPacket \cup ConfirmPacket)
           /\ Len(toServer) \in Nat /\ Len(toServer') = Len(toServer) + 1
           /\ toServer'[Len(toServer')] = p
           /\ \A i \in Packets : toServer'[i] = toServer[i]
BY DEF ClickLockTypeOK, Packets

(* A packet in the stream is a click or a confirmation, never both. *)
LEMMA PacketsTyped ==
    ASSUME ClickLockTypeOK, NEW i \in Packets
    PROVE  /\ toServer[i] \in ClickPacket \cup ConfirmPacket
           /\ toServer[i].type \in {"click", "confirm"}
           /\ toServer[i].transaction \in Transaction
           /\ toServer[i].type = "click" => toServer[i].seen \in Nat
<1>1. toServer[i] \in ClickPacket \cup ConfirmPacket
  BY DEF ClickLockTypeOK, Packets
<1> QED BY <1>1 DEF ClickPacket, ConfirmPacket

LEMMA LockInitInv == ClickLockInit => LockInv
<1> SUFFICES ASSUME ClickLockInit PROVE LockInv
  OBVIOUS
<1>1. /\ [window |-> 0, id |-> 0] \in Transaction
      /\ [seen |-> 0, sent |-> 0] \in [seen : Nat, sent : Nat]
  BY ClickLockAssumption DEF Transaction
<1>2. toServer \in Seq(ClickPacket \cup ConfirmPacket) /\ toClient \in Seq(Transaction)
  BY DEF ClickLockInit
<1>3. clicks \in Nat /\ resynced \in Nat /\ rejections \in Nat /\ inventoryLocked \in BOOLEAN
  BY DEF ClickLockInit
<1>4. ClickLockTypeOK
  BY <1>1, <1>2, <1>3, ClickLockAssumption, Zenon DEF ClickLockInit, ClickLockTypeOK
<1> QED
  BY <1>4 DEF ClickLockInit, LockInv, AppliedOnResyncedView, Unlocked, Packets

(* What the client sends leaves the invariant true. *)
LEMMA ClientStep == LockInv /\ (MakeClick \/ SwitchWindow \/ GetRejection) => LockInv'
<1> SUFFICES ASSUME LockInv, MakeClick \/ SwitchWindow \/ GetRejection PROVE LockInv'
  OBVIOUS
<1>t. ClickLockTypeOK
  BY DEF LockInv
<1>1. CASE MakeClick
  <2> DEFINE click == [type |-> "click",
                       transaction |-> [window |-> clientWindow, id |-> clicks + 1], seen |-> resynced]
  <2>1. click \in ClickPacket /\ toServer' = Append(toServer, click)
    BY <1>1, <1>t DEF MakeClick, ClickPacket, Transaction, ClickLockTypeOK
  <2>2. click.type = "click" /\ click.seen = resynced
    OBVIOUS
  <2> HIDE DEF click
  <2>3. /\ toServer' \in Seq(ClickPacket \cup ConfirmPacket)
        /\ Len(toServer) \in Nat /\ Len(toServer') = Len(toServer) + 1
        /\ toServer'[Len(toServer')] = click
        /\ \A i \in Packets : toServer'[i] = toServer[i]
    BY <2>1, <1>t, AppendedPacket
  <2>4. Packets' = Packets \cup {Len(toServer')} /\ Len(toServer') \notin Packets
    BY <2>3 DEF Packets
  <2>5. ClickLockTypeOK'
    BY <1>1, <1>t, <2>3 DEF MakeClick, ClickLockTypeOK
  <2>6. CASE Unlocked
    BY <1>1, <2>2, <2>3, <2>4, <2>5, <2>6
    DEF MakeClick, LockInv, Unlocked, IsFresh, AppliedOnResyncedView, Undelivered, Delivered
  <2>7. CASE inventoryLocked /\ Undelivered
    BY <1>1, <2>2, <2>3, <2>4, <2>5, <2>7
    DEF MakeClick, LockInv, IsFresh, AppliedOnResyncedView, Undelivered
  <2>8. CASE inventoryLocked /\ Delivered
    <3>1. Delivered'
      <4>1. \A i \in Packets' : toServer'[i].type = "confirm" => i \in Packets
        BY <2>2, <2>3, <2>4
      <4>2. ASSUME NEW i \in Packets, NEW j \in Packets', toServer[i].type = "confirm", i < j
            PROVE  IsFresh(j)'
        BY <1>1, <2>2, <2>3, <2>4, <2>8, <4>2 DEF MakeClick, Delivered, IsFresh
      <4> QED BY <1>1, <2>3, <2>8, <4>1, <4>2 DEF MakeClick, Delivered
    <3> QED BY <1>1, <2>5, <2>8, <3>1 DEF MakeClick, LockInv, AppliedOnResyncedView
  <2> QED BY <2>6, <2>7, <2>8 DEF LockInv
<1>2. CASE SwitchWindow
  BY <1>2, <1>t DEF SwitchWindow, LockInv, ClickLockTypeOK, AppliedOnResyncedView,
     Unlocked, Undelivered, Delivered, Packets, IsFresh
<1>3. CASE GetRejection
  <2>1. inventoryLocked /\ Undelivered
    BY <1>3 DEF GetRejection, Answered, LockInv, Unlocked, Delivered
  <2>2. /\ toClient # <<>> /\ Head(toClient) = pending /\ toClient' = <<>>
        /\ resynced' = rejections /\ rejections' = rejections /\ pending' = pending /\ inventoryLocked'
    BY <1>3, <1>t, <2>1 DEF GetRejection, Answered, Undelivered, ClickLockTypeOK
  <2>3. CASE UNCHANGED toServer
    BY <1>3, <1>t, <2>1, <2>2, <2>3
    DEF GetRejection, Answered, LockInv, ClickLockTypeOK, AppliedOnResyncedView, Undelivered, Delivered, Packets
  <2>4. CASE ~UNCHANGED toServer
    <3> DEFINE confirm == [type |-> "confirm", transaction |-> pending]
    <3>1. confirm \in ConfirmPacket /\ toServer' = Append(toServer, confirm)
      BY <1>3, <1>t, <2>2, <2>4 DEF GetRejection, Answered, ConfirmPacket, ClickLockTypeOK
    <3>2. confirm.type = "confirm" /\ confirm.transaction = pending
      OBVIOUS
    <3> HIDE DEF confirm
    <3>3. /\ toServer' \in Seq(ClickPacket \cup ConfirmPacket)
          /\ Len(toServer) \in Nat /\ Len(toServer') = Len(toServer) + 1
          /\ toServer'[Len(toServer')] = confirm
          /\ \A i \in Packets : toServer'[i] = toServer[i]
      BY <3>1, <1>t, AppendedPacket
    <3>4. Packets' = Packets \cup {Len(toServer')} /\ Len(toServer') \notin Packets
      BY <3>3 DEF Packets
    <3>5. ClickLockTypeOK'
      BY <1>3, <1>t, <2>2, <3>3 DEF GetRejection, Answered, ClickLockTypeOK
    <3>6. ASSUME NEW i \in Packets', toServer'[i].type = "confirm"
          PROVE  i = Len(toServer')
      BY <2>1, <3>3, <3>4, <3>6 DEF Undelivered
    <3>7. Delivered'
      BY <2>2, <3>2, <3>3, <3>4, <3>6 DEF Delivered, Packets
    <3> QED BY <1>3, <2>2, <3>5, <3>7 DEF GetRejection, Answered, LockInv, AppliedOnResyncedView
  <2> QED BY <2>3, <2>4
<1> QED BY <1>1, <1>2, <1>3

(* So does what the server makes of a packet. *)
LEMMA ServerKeepsLock == LockInv /\ ServerStep => LockInv'
<1> SUFFICES ASSUME LockInv, ServerStep PROVE LockInv'
  OBVIOUS
<1>t. ClickLockTypeOK
  BY DEF LockInv
<1>1. toServer # <<>> /\ toServer' = Tail(toServer)
  BY DEF ServerStep, IgnoreClick, ApplyClick, RejectClick, ContainerTransaction, Received
<1>2. /\ toServer' \in Seq(ClickPacket \cup ConfirmPacket)
      /\ Len(toServer) \in Nat /\ Len(toServer') = Len(toServer) - 1
      /\ Head(toServer) = toServer[1]
      /\ \A i \in Packets' : toServer'[i] = toServer[i + 1]
      /\ \A i \in Packets' : i \in Nat /\ i > 0 /\ i + 1 \in Packets
      /\ 1 \in Packets
  BY <1>1, <1>t, TailOfPackets DEF Packets
<1>3. CASE IgnoreClick
  <2>1. ClickLockTypeOK'
    BY <1>2, <1>3, <1>t DEF IgnoreClick, ClickLockTypeOK
  <2>2. CASE Undelivered
    BY <1>2, <1>3, <2>1, <2>2 DEF IgnoreClick, LockInv, Undelivered, AppliedOnResyncedView
  <2>3. CASE Delivered
    <3>1. Delivered'
      <4> SUFFICES ASSUME NEW i \in Packets', toServer'[i].type = "confirm"
                   PROVE  /\ toServer'[i].transaction = pending'
                          /\ \A j \in Packets' : i < j => IsFresh(j)'
        BY <1>3, <2>3 DEF IgnoreClick, Delivered
      <4>1. /\ i + 1 \in Packets /\ toServer[i + 1].type = "confirm"
            /\ toServer[i + 1].transaction = pending
            /\ \A k \in Packets : i + 1 < k => IsFresh(k)
        BY <1>2, <2>3 DEF Delivered
      <4>2. ASSUME NEW j \in Packets', i < j PROVE IsFresh(j)'
        <5>1. j + 1 \in Packets /\ i + 1 < j + 1 /\ toServer'[j] = toServer[j + 1]
          BY <1>2, <4>2
        <5> QED BY <1>3, <4>1, <5>1 DEF IgnoreClick, IsFresh
      <4> QED BY <1>2, <1>3, <4>1, <4>2 DEF IgnoreClick
    <3> QED BY <1>3, <2>1, <3>1 DEF IgnoreClick, LockInv, AppliedOnResyncedView
  <2> QED BY <1>3, <2>2, <2>3 DEF IgnoreClick, LockInv
<1>4. CASE ApplyClick
  <2>1. Unlocked /\ IsFresh(1)
    BY <1>2, <1>4 DEF ApplyClick, LockInv, Unlocked
  <2>2. toServer[1].transaction \in Transaction /\ toServer[1].seen = rejections
    BY <1>2, <1>t, <2>1, PacketsTyped DEF IsFresh
  <2>3. ClickLockTypeOK'
    BY <1>2, <1>4, <1>t, <2>2 DEF ApplyClick, ClickLockTypeOK
  <2>4. AppliedOnResyncedView'
    BY <1>2, <1>4, <2>2 DEF ApplyClick, AppliedOnResyncedView
  <2>5. Unlocked' /\ ~inventoryLocked'
    BY <1>2, <1>4, <2>1 DEF ApplyClick, Unlocked, IsFresh
  <2> QED BY <2>3, <2>4, <2>5 DEF LockInv
<1>5. CASE RejectClick
  <2>1. Unlocked
    BY <1>5 DEF RejectClick, LockInv
  <2>2. toServer[1].transaction \in Transaction
    BY <1>2, <1>t, PacketsTyped
  <2>3. toClient' = <<toServer[1].transaction>> /\ pending' = toServer[1].transaction
    BY <1>2, <1>5, <2>1 DEF RejectClick, Unlocked
  <2>4. ClickLockTypeOK'
    BY <1>2, <1>5, <1>t, <2>2, <2>3 DEF RejectClick, ClickLockTypeOK
  <2>5. Undelivered' /\ inventoryLocked'
    BY <1>2, <1>5, <1>t, <2>1, <2>3 DEF RejectClick, Unlocked, Undelivered, IsFresh, ClickLockTypeOK
  <2> QED BY <1>5, <2>4, <2>5 DEF RejectClick, LockInv, AppliedOnResyncedView
<1>6. CASE ContainerTransaction
  <2>1. toServer[1].type = "confirm"
    BY <1>2, <1>6 DEF ContainerTransaction, Received
  <2>2. inventoryLocked /\ Delivered
    BY <1>2, <2>1 DEF LockInv, Unlocked, Undelivered, IsFresh
  <2>3. toServer[1].transaction = pending /\ \A j \in Packets : 1 < j => IsFresh(j)
    BY <1>2, <2>1, <2>2 DEF Delivered
  <2>4. ClickLockTypeOK'
    BY <1>2, <1>6, <1>t DEF ContainerTransaction, ClickLockTypeOK
  <2>5. ~inventoryLocked'
    BY <1>2, <1>6, <2>3 DEF ContainerTransaction
  <2>6. ASSUME NEW i \in Packets' PROVE IsFresh(i)'
    <3>1. i + 1 \in Packets /\ 1 < i + 1 /\ toServer'[i] = toServer[i + 1]
      BY <1>2
    <3> QED BY <1>6, <2>3, <3>1 DEF ContainerTransaction, IsFresh
  <2>7. Unlocked'
    BY <1>6, <2>2, <2>6 DEF ContainerTransaction, Delivered, Unlocked
  <2> QED BY <1>6, <2>4, <2>5, <2>7 DEF ContainerTransaction, LockInv, AppliedOnResyncedView
<1> QED BY <1>3, <1>4, <1>5, <1>6 DEF ServerStep

LEMMA ClickLockStep == LockInv /\ [ClickLockNext]_lockVars => LockInv'
<1>1. LockInv /\ UNCHANGED lockVars => LockInv'
  BY DEF LockInv, lockVars, ClickLockTypeOK, AppliedOnResyncedView, Unlocked, Undelivered, Delivered,
     Packets, IsFresh
<1> QED BY <1>1, ClientStep, ServerKeepsLock DEF ClickLockNext

(* Nothing of it depends on how often clicks are made or answered: the
   invariant holds along every behaviour. *)
THEOREM LockHolds == ClickLockSpec => []LockInv
BY LockInitInv, ClickLockStep, PTL DEF ClickLockSpec

(* A click that is carried out was made on a view with every rejection dealt
   with: handle_packet.cpp, ClickSlot under inventoryLocked. *)
THEOREM ClicksOnResyncedView == ClickLockSpec => []AppliedOnResyncedView
<1>1. LockInv => AppliedOnResyncedView
  BY DEF LockInv
<1> QED BY <1>1, LockHolds, PTL

-----------------------------------------------------------------------------
(* The four parts side by side *)

ConnectionInv == StreamInv /\ ReaderInv /\ WriterInv /\ LockInv

(* A step of the whole is one of each part, three of which do nothing. *)
LEMMA PartsStep ==
    ASSUME [ConnectionNext]_connectionVars
    PROVE  /\ [Next]_vars
           /\ [PacketReaderNext]_readerVars
           /\ [PacketWriterNext]_writerVars
           /\ [ClickLockNext]_lockVars
BY DEF ConnectionNext, connectionVars, Terrain, Reader, Writer, Lock

LEMMA ConnectionHolds == ASSUME FlushesInTime PROVE ConnectionSpec => []ConnectionInv
<1>1. ConnectionInit => ConnectionInv
  BY StreamInit, InitReader, InitWriter, LockInitInv DEF ConnectionInit, ConnectionInv
<1>2. ConnectionInv /\ [ConnectionNext]_connectionVars => ConnectionInv'
  BY PartsStep, StreamStep, ReaderStep, WriterStep, ClickLockStep DEF ConnectionInv
<1>3. ConnectionSpec => ConnectionInit /\ [][ConnectionNext]_connectionVars
  BY PTL DEF ConnectionSpec
<1> QED BY <1>1, <1>2, <1>3, PTL

(* The variables of the whole connection have their types, the read buffer its
   limit, and neither thread sends past what was written. *)
THEOREM ConnectionTyped == ASSUME FlushesInTime PROVE ConnectionSpec => []ConnectionTypeOK
<1>1. ASSUME ConnectionInv PROVE ConnectionTypeOK
  <2>1. TypeOK
    BY <1>1 DEF ConnectionInv, StreamInv, TypeInv
  <2>2. PacketReaderTypeOK /\ PacketWriterTypeOK /\ ClickLockTypeOK
    BY <1>1 DEF ConnectionInv, ReaderInv, WriterInv, LockInv
  <2> QED BY <2>1, <2>2 DEF ConnectionTypeOK
<1> QED BY <1>1, ConnectionHolds, PTL
=============================================================================
