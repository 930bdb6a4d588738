------------------------------- MODULE MCPlayers -------------------------------
(***************************************************************************)
(* What players do with items: in their own window (PlayerWindow), and in  *)
(* chests and furnaces that several look into (Windows).  The modules have *)
(* no variable in common, so that one run checks them side by side: part   *)
(* tells which of them moves in a behaviour.                               *)
(***************************************************************************)
EXTENDS PlayerWindow, Windows, TLC

CONSTANTS log, plank, table, chest, oven

VARIABLE part

playersVars == <<part, windowVars, boxVars>>

-----------------------------------------------------------------------------
(* The instances *)

MCMaxStackOf == [k \in Kinds |-> IF k = table THEN 1 ELSE 2]

\* A log gives two planks, planks in every slot of the grid give a table.
MCRecipe == [g \in [GridSlots -> Kinds \cup {NoKind}] |->
    CASE \E s \in GridSlots : g[s] = log /\ \A t \in GridSlots \ {s} : g[t] = NoKind -> StackOf(plank, 2)
      [] \A s \in GridSlots : g[s] = plank -> StackOf(table, 1)
      [] OTHER -> Empty]

\* What a recipe makes is worth what it takes.
MCWorth == [k \in Kinds |-> IF k = plank THEN 1 ELSE 2]

MCStartSlots == [s \in Slots |-> IF s = BarFirst THEN StackOf(log, 2) ELSE Empty]

MCSmelts == [k \in {log} |-> plank]

MCStartBoxes == [b \in Boxes |-> [s \in BoxSlots |->
    IF b = oven /\ s = 1 THEN StackOf(log, 2) ELSE Empty]]

MCStartBags == [p \in Players |-> [s \in BagSlots |-> Empty]]

-----------------------------------------------------------------------------

PlayersInit ==
    /\ part \in {"window", "boxes"}
    /\ PlayerWindowInit /\ WindowsInit

PlayersNext ==
    /\ UNCHANGED part
    /\ \/ part = "window" /\ PlayerWindowNext /\ UNCHANGED boxVars
       \/ part = "boxes" /\ WindowsNext /\ UNCHANGED windowVars

PlayersSpec == PlayersInit /\ [][PlayersNext]_playersVars

-----------------------------------------------------------------------------
(* Properties and bounds *)

\* The types of the two modules; and no sequence of clicks leaves more than a full stack, or an item
\* without a count, in a player's slots.
PlayersTypeOK == PlayerWindowTypeOK /\ StacksAreSound /\ WindowsTypeOK

\* Crafts, clicks, closes, deaths, pickups and logins neither make nor destroy items, in the player's
\* own window and in those of boxes, but in the ways that lapses and slips name.
NothingIsLost == WorthIsKept /\ ItemsAreKept

\* A behaviour is followed until items are lost in a way the properties excuse.
Unexcused == lapses = {} /\ slips = {}

PlayersSymmetry == Permutations(Players)
=============================================================================
