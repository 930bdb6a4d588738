---------------------------- MODULE PacketReader ----------------------------
(***************************************************************************)
(* How the bytes of one client become packets: NetworkStream's read        *)
(* buffer, Server::ProcessIncoming, PacketDispatcher::Dispatch and the two *)
(* packets of the login, which PlayerConnStateManager reads on its own.    *)
(* The bytes of a connection are numbered from 1 and keep their order; the *)
(* socket hands over any number of them each tick.                         *)
(***************************************************************************)
EXTENDS Integers, Sequences

CONSTANTS
    Lengths,        \* how many bytes a packet may have, its id among them
    MaxPackets,     \* bound: how many packets the client sends
    MaxReadBuffer

ASSUME PacketReaderAssumption ==
    /\ Lengths \subseteq Nat \ {0}
    /\ MaxPackets \in Nat /\ MaxReadBuffer \in Nat

VARIABLES
    ends,        \* ends[n] is the last byte of the client's n-th packet
    arrived,     \* bytes taken from the socket so far: readBuffer ends here
    readPos,     \* the last byte that was consumed
    connState,
    connected,
    reading,     \* where the tick is: before DrainToBuffer, in ProcessIncoming, or in HandleConnectionState
    handled,     \* history: the packets that were handled, 0 for one nobody sent
    dealt,       \* history: the packets all of whose bytes are consumed
    misread      \* history: reading goes on, or went on, in the middle of a packet

readerVars == <<ends, arrived, readPos, connState, connected, reading, handled, dealt, misread>>

ConnectionState == {"Handshaking", "LoggingIn", "VerifyingUsername", "WaitingForSpawnChunks", "Playing"}

\* The byte before the first of packet n + 1.
Start(n) == IF n = 0 THEN 0 ELSE ends[n]
Sent     == Start(Len(ends))

PacketReaderTypeOK ==
    /\ ends \in Seq(Nat)
    /\ arrived \in 0..Sent /\ readPos \in 0..arrived /\ dealt \in 0..Len(ends)
    /\ arrived - readPos <= MaxReadBuffer
    /\ connState \in ConnectionState
    /\ connected \in BOOLEAN /\ misread \in BOOLEAN
    /\ reading \in {"drain", "process", "connection", "gone"}
    /\ handled \in Seq(Nat)

PacketReaderInit ==
    /\ ends = <<>> /\ handled = <<>>
    /\ arrived = 0 /\ readPos = 0 /\ dealt = 0
    /\ connState = "Handshaking"
    /\ connected = TRUE
    /\ reading = "drain"
    /\ misread = FALSE

-----------------------------------------------------------------------------
(* The client and the socket *)

Send ==
    /\ Len(ends) < MaxPackets
    /\ \E length \in Lengths : ends' = Append(ends, Sent + length)
    /\ UNCHANGED <<arrived, readPos, connState, connected, reading, handled, dealt, misread>>

ReadsPackets == connState \in {"WaitingForSpawnChunks", "Playing"}

\* Slip: what is in the buffer already is not counted.
HasRoomForMore(bytes) == bytes <= MaxReadBuffer

\* What is consumed goes first, so only the rest counts against the limit.
HasRoom(bytes) == (arrived - readPos) + bytes <= MaxReadBuffer

DrainToBuffer ==
    /\ reading = "drain"
    /\ reading' = IF ReadsPackets THEN "process" ELSE "connection"
    /\ \/ /\ connected
          /\ \E bytes \in 0..(Sent - arrived) :
                 /\ HasRoom(bytes)
                 /\ arrived' = arrived + bytes
          /\ UNCHANGED connected
       \/ \* too much at once, the end of the stream, an error, or too long a silence
          /\ connected' = FALSE
          /\ UNCHANGED arrived
    /\ UNCHANGED <<ends, readPos, connState, handled, dealt, misread>>

-----------------------------------------------------------------------------
(* ProcessIncoming: one action per packet *)

HasData  == readPos < arrived
AtStart  == readPos = Start(dealt)

\* Slip: a packet whose last byte has just come is taken for short.
CompleteLate == ends[dealt + 1] < arrived

Complete == ends[dealt + 1] <= arrived   \* ReadBytes: _len <= available
Dispatching == reading = "process" /\ HasData /\ connState = "Playing" /\ connected

NoMoreData ==
    /\ reading = "process" /\ ~HasData
    /\ reading' = "connection"
    /\ UNCHANGED <<ends, arrived, readPos, connState, connected, handled, dealt, misread>>

\* Dispatch returns before it reads the body: the id byte was the packet.
PassOverByte ==
    /\ reading = "process" /\ HasData
    /\ connState # "Playing" \/ ~connected
    /\ readPos' = readPos + 1
    /\ dealt' = IF ~misread /\ readPos' = ends[dealt + 1] THEN dealt + 1 ELSE dealt
    /\ UNCHANGED <<ends, arrived, connState, connected, reading, handled, misread>>

\* The handler may send the player to another world or end the connection.
Outcome ==
    \/ UNCHANGED <<connState, connected, reading>>
    \/ /\ connState' = "WaitingForSpawnChunks"
       /\ UNCHANGED <<connected, reading>>
    \/ /\ connected' = FALSE
       /\ reading' \in {"process", "connection"}
       /\ UNCHANGED connState

HandlePacket ==
    /\ Dispatching /\ AtStart /\ Complete
    /\ readPos' = ends[dealt + 1]
    /\ dealt' = dealt + 1
    /\ handled' = Append(handled, dealt')
    /\ Outcome
    /\ UNCHANGED <<ends, arrived, misread>>

\* Slip: what was read of a short packet is not given back.
NoRollback ==
    /\ Dispatching /\ AtStart /\ ~Complete
    /\ readPos' = arrived
    /\ reading' = "connection"
    /\ UNCHANGED <<ends, arrived, connState, connected, handled, dealt, misread>>

Rollback ==
    /\ Dispatching /\ AtStart /\ ~Complete
    /\ reading' = "connection"
    /\ UNCHANGED <<ends, arrived, readPos, connState, connected, handled, dealt, misread>>

\* A byte from the middle of a packet is taken for an id, and what follows for
\* its body: it may be no id, be short, or be a packet that nobody sent.
Misparse ==
    /\ Dispatching /\ ~AtStart
    /\ \/ /\ reading' = "connection"
          /\ connected' \in BOOLEAN
          /\ UNCHANGED <<readPos, connState, handled>>
       \/ /\ \E length \in Lengths :
                 /\ readPos + length <= arrived
                 /\ readPos' = readPos + length
          /\ handled' = Append(handled, 0)
          /\ Outcome
    /\ UNCHANGED <<ends, arrived, dealt, misread>>

-----------------------------------------------------------------------------
(* HandleConnectionState *)

AfterLoginPacket ==
    IF connState = "Handshaking" THEN {"LoggingIn"} ELSE {"VerifyingUsername", "WaitingForSpawnChunks"}

\* HandleHandshake and HandleLogin keep what they could read of a short packet; a login may be refused.
ReadLoginPacket ==
    /\ reading = "connection" /\ connected
    /\ connState \in {"Handshaking", "LoggingIn"}
    /\ HasData
    /\ IF AtStart /\ Complete
       THEN /\ readPos' = ends[dealt + 1]
            /\ dealt' = dealt + 1
            /\ handled' = Append(handled, dealt')
            /\ \/ connState' \in AfterLoginPacket /\ UNCHANGED connected
               \/ connState = "LoggingIn" /\ connected' = FALSE /\ UNCHANGED connState
            /\ UNCHANGED misread
       ELSE /\ \E bytes \in 1..(arrived - readPos) : readPos' = readPos + bytes
            /\ misread' = TRUE
            /\ UNCHANGED <<dealt, handled, connState, connected>>
    /\ reading' = IF connected' THEN "drain" ELSE "connection"
    /\ UNCHANGED <<ends, arrived>>

\* HandleVerifyingUsername: the verification goes on, or FinishLogin is called, or the name is
\* refused, or the 20 seconds are over.
FinishLogin ==
    /\ reading = "connection" /\ connected
    /\ connState = "VerifyingUsername"
    /\ \/ reading' = "drain" /\ connState' \in {connState, "WaitingForSpawnChunks"} /\ UNCHANGED connected
       \/ connected' = FALSE /\ UNCHANGED <<connState, reading>>
    /\ UNCHANGED <<ends, arrived, readPos, handled, dealt, misread>>

\* The last spawn chunk was sent: from now on packets are read.
EnterPlay ==
    /\ reading = "connection" /\ connected
    /\ connState = "WaitingForSpawnChunks"
    /\ connState' = "Playing"
    /\ misread' = (misread \/ ~AtStart)
    /\ reading' = "drain"
    /\ UNCHANGED <<ends, arrived, readPos, connected, handled, dealt>>

NothingToDo ==
    /\ reading = "connection" /\ connected
    /\ \/ connState \in {"Handshaking", "LoggingIn"} /\ ~HasData
       \/ connState \in {"WaitingForSpawnChunks", "Playing"}
    /\ reading' = "drain"
    /\ UNCHANGED <<ends, arrived, readPos, connState, connected, handled, dealt, misread>>

\* Server::DisconnectClients removes the session.
Remove ==
    /\ reading = "connection" /\ ~connected
    /\ reading' = "gone"
    /\ UNCHANGED <<ends, arrived, readPos, connState, connected, handled, dealt, misread>>

ServerReads ==
    \/ NoMoreData \/ PassOverByte \/ HandlePacket \/ Rollback \/ Misparse
    \/ ReadLoginPacket \/ FinishLogin \/ EnterPlay \/ NothingToDo \/ Remove

PacketReaderNext == Send \/ DrainToBuffer \/ ServerReads

\* The socket hands over what was sent, sooner or later; the buffer overflows when it has no room.
Deliver == DrainToBuffer /\ Sent > arrived /\ (arrived' > arrived \/ (~HasRoom(1) /\ ~connected'))

\* A verification ends, at the latest when its time is over.
Verified == FinishLogin /\ <<connState, connected>>' # <<connState, connected>>

PacketReaderFairness ==
    /\ WF_readerVars(DrainToBuffer) /\ SF_readerVars(Deliver)
    /\ WF_readerVars(ServerReads) /\ SF_readerVars(Verified)

PacketReaderSpec == PacketReaderInit /\ [][PacketReaderNext]_readerVars

-----------------------------------------------------------------------------
(* Properties *)

Incoming == INSTANCE OrderedDelivery WITH
    given   <- Len(ends),
    upto    <- dealt,
    taken   <- handled,
    lenient <- (connState = "WaitingForSpawnChunks" \/ ~connected),
    open    <- ~misread

\* However the bytes of packets are cut into reads, the packets are handled one
\* by one in the order they were sent, and passed over only while the player
\* waits for chunks or after the connection ended; until a packet is misread.
PacketsInOrder == Incoming!DeliverySpec

\* Every packet that is sent is sooner or later handled or passed over, unless
\* the connection ends or a packet is misread: a short packet is tried again
\* when its rest is there, and none is left in the buffer.
PacketsAreDealtWith ==
    \A n \in 1..MaxPackets : Len(ends) >= n ~> (dealt >= n \/ ~connected \/ misread)

=============================================================================
