-------------------------- MODULE OrderedDelivery --------------------------
(***************************************************************************)
(* What one direction of a connection promises, without bytes, buffers or  *)
(* threads: things are given one after the other and taken in that order,  *)
(* each at most once; only while the taker is lenient is one passed over.  *)
(* The promise ends for good when it is broken off.  PacketReader and      *)
(* PacketWriter implement it.                                              *)
(***************************************************************************)
EXTENDS Integers, Sequences

VARIABLES
    given,     \* how many things were given: they are 1..given
    upto,      \* how many of them were taken or passed over
    taken,     \* those taken, in the order they were
    lenient,   \* the taker may pass over what comes next
    open       \* the promise stands

deliveryVars == <<given, upto, taken, lenient, open>>

DeliveryInit ==
    /\ given = 0 /\ upto = 0
    /\ taken = <<>>
    /\ open = TRUE

Give  == given' >= given /\ UNCHANGED <<upto, taken>>

Take ==
    /\ upto < given
    /\ upto' = upto + 1
    /\ taken' = Append(taken, upto')
    /\ UNCHANGED given

PassOver ==
    /\ lenient
    /\ upto < given
    /\ upto' = upto + 1
    /\ UNCHANGED <<given, taken>>

BreakOff == ~open'

DeliveryNext ==
    /\ open' => open
    /\ Give \/ Take \/ PassOver \/ BreakOff

DeliverySpec == DeliveryInit /\ [][DeliveryNext]_deliveryVars
=============================================================================
