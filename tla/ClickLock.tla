----------------------------- MODULE ClickLock -----------------------------
(***************************************************************************)
(* The transaction lock of one session: a click whose item is not what the *)
(* server has in the slot is rejected, the client is sent everything, and  *)
(* until it confirms that transaction the server ignores its clicks, which *)
(* were made on a view that is wrong.  Both directions of the connection   *)
(* keep their order.  ClickSlot and ContainerTransaction of                *)
(* bpp_server/packet/handle_packet.cpp.                                    *)
(***************************************************************************)
EXTENDS Integers, Sequences

CONSTANTS
    WindowIds,
    MaxClicks,      \* bound: how many clicks the client makes
    AnswersAlways   \* the client confirms a rejection even of a window it has closed since

ASSUME ClickLockAssumption == 0 \in WindowIds /\ MaxClicks \in Nat /\ AnswersAlways \in BOOLEAN

VARIABLES
    inventoryLocked,   \* PlayerSession::inventoryLocked
    pending,           \* pendingWindowId and pendingTransactionId
    toServer,          \* packets on their way to ProcessIncoming
    toClient,          \* rejections on their way to the client
    clientWindow,      \* the window the client has open
    clicks,            \* clicks made so far: the client's transaction counter
    resynced,          \* how many rejections the client has dealt with
    rejections,        \* history: how many the server has sent
    lastApplied        \* history: the last click that moved items, and the rejections before it

lockVars == <<inventoryLocked, pending, toServer, toClient, clientWindow, clicks, resynced,
              rejections, lastApplied>>

Transaction == [window : WindowIds, id : Nat]
\* `seen' is history: the rejections that the client had dealt with when it clicked.
ClickPacket   == [type : {"click"}, transaction : Transaction, seen : Nat]
ConfirmPacket == [type : {"confirm"}, transaction : Transaction]

ClickLockTypeOK ==
    /\ inventoryLocked \in BOOLEAN
    /\ pending \in Transaction
    /\ toServer \in Seq(ClickPacket \cup ConfirmPacket)
    /\ toClient \in Seq(Transaction)
    /\ clientWindow \in WindowIds
    /\ clicks \in Nat /\ resynced \in Nat /\ rejections \in Nat
    /\ lastApplied \in [seen : Nat, sent : Nat]

ClickLockInit ==
    /\ inventoryLocked = FALSE
    /\ clientWindow = 0   \* his own inventory
    /\ pending = [window |-> 0, id |-> 0]
    /\ toServer = <<>> /\ toClient = <<>>
    /\ clicks = 0 /\ resynced = 0 /\ rejections = 0
    /\ lastApplied = [seen |-> 0, sent |-> 0]

-----------------------------------------------------------------------------
(* The client *)

\* A click in the window that is open; it does not wait for an answer.
MakeClick ==
    /\ clicks < MaxClicks
    /\ clicks' = clicks + 1
    /\ toServer' = Append(toServer,
          [type |-> "click", transaction |-> [window |-> clientWindow, id |-> clicks + 1], seen |-> resynced])
    /\ UNCHANGED <<inventoryLocked, pending, toClient, clientWindow, resynced, rejections, lastApplied>>

SwitchWindow ==
    /\ \E w \in WindowIds : clientWindow' = w
    /\ UNCHANGED <<inventoryLocked, pending, toServer, toClient, clicks, resynced, rejections, lastApplied>>

\* What may be on its way after a rejection came: its confirmation behind the rest, or, of a window the
\* client has closed since, none.
Answered(rejected) ==
    {Append(toServer, [type |-> "confirm", transaction |-> rejected])}
       \cup (IF AnswersAlways \/ rejected.window = clientWindow THEN {} ELSE {toServer})

\* The client takes over what it was sent and confirms.
GetRejection ==
    /\ toClient # <<>>
    /\ toServer' \in Answered(Head(toClient))
    /\ toClient' = Tail(toClient)
    /\ resynced' = resynced + 1
    /\ UNCHANGED <<inventoryLocked, pending, clientWindow, clicks, rejections, lastApplied>>

-----------------------------------------------------------------------------
(* The server *)

Received(type) == toServer # <<>> /\ Head(toServer).type = type

\* ClickSlot: ignored under the lock; else it is applied if the client's item is the one in the
\* slot, and rejected if not.
IgnoreClick ==
    /\ Received("click") /\ inventoryLocked
    /\ toServer' = Tail(toServer)
    /\ UNCHANGED <<inventoryLocked, pending, toClient, clientWindow, clicks, resynced, rejections, lastApplied>>

ApplyClick ==
    /\ Received("click") /\ ~inventoryLocked
    /\ toServer' = Tail(toServer)
    /\ pending' = Head(toServer).transaction
    /\ lastApplied' = [seen |-> Head(toServer).seen, sent |-> rejections]
    /\ UNCHANGED <<inventoryLocked, toClient, clientWindow, clicks, resynced, rejections>>

\* A slip: the rejection is sent and the lock forgotten.
RejectClickSlip ==
    /\ Received("click") /\ ~inventoryLocked
    /\ toServer' = Tail(toServer)
    /\ pending' = Head(toServer).transaction
    /\ toClient' = Append(toClient, Head(toServer).transaction)
    /\ rejections' = rejections + 1
    /\ UNCHANGED <<inventoryLocked, clientWindow, clicks, resynced, lastApplied>>

RejectClick ==
    /\ Received("click") /\ ~inventoryLocked
    /\ toServer' = Tail(toServer)
    /\ pending' = Head(toServer).transaction
    /\ inventoryLocked' = TRUE
    /\ toClient' = Append(toClient, Head(toServer).transaction)
    /\ rejections' = rejections + 1
    /\ UNCHANGED <<clientWindow, clicks, resynced, lastApplied>>

\* A slip: the lock is released for a transaction of the window it is no more about.
ContainerTransactionSlip ==
    /\ Received("confirm")
    /\ toServer' = Tail(toServer)
    /\ inventoryLocked' =
          (inventoryLocked /\ ~(Head(toServer).transaction = pending /\ pending.window = clientWindow))
    /\ UNCHANGED <<pending, toClient, clientWindow, clicks, resynced, rejections, lastApplied>>

\* ContainerTransaction: only the rejected transaction of that window releases the lock.
ContainerTransaction ==
    /\ Received("confirm")
    /\ toServer' = Tail(toServer)
    /\ inventoryLocked' = (inventoryLocked /\ Head(toServer).transaction # pending)
    /\ UNCHANGED <<pending, toClient, clientWindow, clicks, resynced, rejections, lastApplied>>

ServerStep == IgnoreClick \/ ApplyClick \/ RejectClick \/ ContainerTransaction

ClickLockNext == MakeClick \/ SwitchWindow \/ GetRejection \/ ServerStep

ClickLockSpec == ClickLockInit /\ [][ClickLockNext]_lockVars

\* The main thread handles the packets of a session in every tick, and the client reads what it is sent.
ClickLockFairness == WF_lockVars(ServerStep) /\ WF_lockVars(GetRejection)

-----------------------------------------------------------------------------
(* Properties *)

\* A click that moves items was made by a client that had dealt with every rejection sent before:
\* no click made on a view the server found wrong is ever carried out.
AppliedOnResyncedView == lastApplied.seen = lastApplied.sent

\* A player whose click was rejected can click again, if the client answers.
LockIsReleased == inventoryLocked ~> ~inventoryLocked
=============================================================================
