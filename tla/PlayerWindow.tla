---------------------------- MODULE PlayerWindow ----------------------------
(***************************************************************************)
(* Window 0, a player's own: the crafting grid and its result, armor, main *)
(* inventory and hotbar, the cursor, and the items that lie around him.    *)
(* bpp_shared/inventory/interactions/player.cpp and crafting.cpp, and the  *)
(* handlers of bpp_server/packet/handle_packet.cpp that touch them.        *)
(***************************************************************************)
EXTENDS Stacks

CONSTANTS
    GridSize, ArmorSize, MainSize, BarSize,  \* 4, 4, 27 and 9 in the code
    ArmorKinds,   \* what goes into an armor slot
    Recipe,       \* RecipeManager::MatchGrid, by the kinds in the grid
    Worth,        \* what an item is worth, so that a craft keeps the worth of its ingredients
    StartSlots    \* the inventory at login

ResultSlot == 0
GridSlots  == 1 .. GridSize
ArmorSlots == GridSize + 1 .. GridSize + ArmorSize
MainFirst  == GridSize + ArmorSize + 1
MainSlots  == MainFirst .. MainFirst + MainSize - 1
BarFirst   == MainFirst + MainSize
BarSlots   == BarFirst .. BarFirst + BarSize - 1
Slots      == 0 .. BarFirst + BarSize - 1

MainUpwards   == Upwards(MainFirst, BarFirst - 1)
BarUpwards    == Upwards(BarFirst, BarFirst + BarSize - 1)
AllDownwards  == Downwards(MainFirst, BarFirst + BarSize - 1)

KindsOf(inv) == [s \in GridSlots |-> inv[s].kind]

WorthOf(stack) == IF stack = Empty THEN 0 ELSE stack.count * Worth[stack.kind]
WorthIn(inv, where) == SumFunction([s \in where |-> WorthOf(inv[s])])

ASSUME PlayerWindowAssumption ==
    /\ \A n \in {GridSize, ArmorSize, MainSize, BarSize} : n \in Nat \ {0}
    /\ ArmorKinds \subseteq Kinds
    /\ Recipe \in [[GridSlots -> Kinds \cup {NoKind}] -> {stack \in Stack : Sound(stack)}]
    /\ Worth \in [Kinds -> Nat]
    \* A recipe neither makes nor destroys worth.
    /\ \A grid \in DOMAIN Recipe :
          Recipe[grid] # Empty =>
             WorthOf(Recipe[grid]) =
                SumFunction([s \in GridSlots |-> IF grid[s] = NoKind THEN 0 ELSE Worth[grid[s]]])
    /\ StartSlots \in [Slots -> {stack \in Stack : Sound(stack)}]
    /\ \A s \in GridSlots \cup {ResultSlot} : StartSlots[s] = Empty

VARIABLES
    slots,     \* InventoryPlayer::slots
    cursor,    \* inventoryInteraction.carried
    ground,    \* the item entities around the player
    lapses     \* history: the ways in which the worth of all items changed

windowVars == <<slots, cursor, ground, lapses>>

\* The result stands for a grid that is not there, so whoever takes it pays nothing or too little.
FreeResult == "free result"
\* A part of the result moved and nothing was consumed.
PartialResult == "partial result"
\* A stack of the hotbar was merged into itself and then cleared.
MergedIntoItself == "merged into itself"
\* What lay in the grid or on the cursor is in no player file.
NotSaved == "not saved"

Lapses == {FreeResult, PartialResult, MergedIntoItself, NotSaved}

PlayerWindowTypeOK ==
    /\ slots \in [Slots -> Stack]
    /\ cursor \in Stack
    /\ ground \in [Kinds -> Nat]
    /\ lapses \subseteq Lapses

PlayerWindowInit ==
    /\ slots = StartSlots
    /\ cursor = Empty
    /\ ground = [k \in Kinds |-> 0]
    /\ lapses = {}

-----------------------------------------------------------------------------
(* Crafting *)

\* CraftingInventoryInteraction::UpdateResult
UpdateResult(inv) == [inv EXCEPT ![ResultSlot] = Recipe[KindsOf(inv)]]

\* CraftingInventoryInteraction::FinishCraft: one of each ingredient is consumed.
FinishCraft(inv) ==
    UpdateResult([s \in Slots |-> IF s \in GridSlots THEN Less(inv[s], 1) ELSE inv[s]])

Paid(inv) == inv[ResultSlot] = Recipe[KindsOf(inv)]

\* HandleCrafting, after a click on `slot'.
HandleCrafting(inv, slot) == IF slot \in GridSlots THEN UpdateResult(inv) ELSE inv

\* A click on the result puts all of it onto the cursor, or does nothing.
TakeResult ==
    LET result == slots[ResultSlot]
    IN  /\ result # Empty
        /\ \/ cursor = Empty
           \/ cursor.kind = result.kind /\ cursor.count + result.count <= MaxStackOf[result.kind]
        /\ cursor' = StackOf(result.kind, cursor.count + result.count)
        /\ slots' = FinishCraft(slots)
        /\ lapses' = lapses \cup (IF Paid(slots) THEN {} ELSE {FreeResult})
        /\ UNCHANGED ground

\* ShiftClickResult: the result goes into the inventory, from the far end.
ShiftClickResult ==
    LET merge == MergeItemStack(slots, slots[ResultSlot], AllDownwards)
    IN  /\ slots[ResultSlot] # Empty
        /\ slots' = IF merge.ok THEN FinishCraft(merge.slots)
                    ELSE [merge.slots EXCEPT ![ResultSlot] = merge.left]
        /\ lapses' = lapses \cup (IF Paid(slots) THEN {} ELSE {FreeResult})
                            \cup (IF merge.ok \/ merge.left = slots[ResultSlot] THEN {} ELSE {PartialResult})
        /\ UNCHANGED <<cursor, ground>>

-----------------------------------------------------------------------------
(* Clicks: Packet::ClickSlot on window 0, with the item the client names being *)
(* the one in the slot.                                                        *)

\* PlayerInventoryInteraction::OnLeftClick and OnRightClick look at what goes into an armor slot.
ArmorAllows(slot) == slot \in ArmorSlots /\ cursor # Empty => cursor.kind \in ArmorKinds

Click(slot) ==
    /\ slot # ResultSlot
    /\ ArmorAllows(slot)
    /\ \E after \in {OnLeftClick(slots, cursor, slot), OnRightClick(slots, cursor, slot)} :
          /\ slots' = HandleCrafting(after.slots, slot)
          /\ cursor' = after.cursor
    /\ UNCHANGED <<ground, lapses>>

\* PlayerInventoryInteraction::ShiftClickOther: a copy of the stack is merged into other slots, and
\* what is left of the copy is what the slot keeps.  From the hotbar, the second choice is the hotbar.
ShiftClickOther(slot) ==
    LET inMain == MergeItemStack(slots, slots[slot], MainUpwards)
        merge  == CASE slot \in MainSlots  -> MergeItemStack(slots, slots[slot], BarUpwards)
                    [] slot \notin MainSlots /\ inMain.ok  -> inMain
                    [] slot \notin MainSlots /\ ~inMain.ok ->
                         MergeItemStack(inMain.slots, inMain.left, BarUpwards)
    IN  /\ slot # ResultSlot
        /\ slots[slot] # Empty
        /\ slots' = HandleCrafting([merge.slots EXCEPT ![slot] = merge.left], slot)
        /\ lapses' = IF slot \in BarSlots /\ merge.slots[slot] # slots[slot]
                     THEN lapses \cup {MergedIntoItself} ELSE lapses
        /\ UNCHANGED <<cursor, ground>>

Dropped(onGround, stack) ==
    IF stack = Empty THEN onGround ELSE [onGround EXCEPT ![stack.kind] = @ + stack.count]

\* A click outside the window drops the cursor, or one item of it.
ClickOutside ==
    /\ cursor # Empty
    /\ \E n \in {1, cursor.count} :
          /\ ground' = Dropped(ground, StackOf(cursor.kind, n))
          /\ cursor' = Less(cursor, n)
    /\ UNCHANGED <<slots, lapses>>

\* MineStatus::DROPPED_ITEM: one item of the held stack.
DropHeldItem ==
    \E held \in BarSlots :
       /\ slots[held] # Empty
       /\ slots' = [slots EXCEPT ![held] = Less(@, 1)]
       /\ ground' = Dropped(ground, StackOf(slots[held].kind, 1))
       /\ UNCHANGED <<cursor, lapses>>

DroppedFrom(onGround, where) == Spilled(onGround, [s \in where |-> slots[s]])

\* Packet::CloseContainer for window 0: grid and cursor are dropped.  The result stays.
CloseWindow ==
    /\ ground' = Dropped(DroppedFrom(ground, GridSlots), cursor)
    /\ slots' = [s \in Slots |-> IF s \in GridSlots THEN Empty ELSE slots[s]]
    /\ cursor' = Empty
    /\ UNCHANGED lapses

\* EntityMPPlayer::PickupItem of one item entity.
Pickup ==
    \E k \in Kinds : \E n \in 1 .. Smaller(ground[k], MaxStackOf[k]) :
       LET picked == PickupItem(slots, StackOf(k, n), MainUpwards, BarUpwards)
       IN  /\ slots' = picked.slots
           /\ ground' = [ground EXCEPT ![k] = @ - n + picked.left.count]
           /\ UNCHANGED <<cursor, lapses>>

\* EntityMPPlayer::DropInventory, at death: everything but the result and the cursor.
DropInventory ==
    /\ ground' = DroppedFrom(ground, Slots \ {ResultSlot})
    /\ slots' = [s \in Slots |-> IF s = ResultSlot THEN slots[s] ELSE Empty]
    /\ UNCHANGED <<cursor, lapses>>

\* The player leaves and comes back: SerializeToNbt and LoadPlayerNbt have no slot numbers
\* for the grid, and the cursor of window 0 is not dropped by DisconnectPlayer.
Rejoin ==
    LET saved == ArmorSlots \cup MainSlots \cup BarSlots
    IN  /\ slots' = [s \in Slots |-> IF s \in saved THEN slots[s] ELSE Empty]
        /\ cursor' = Empty
        /\ lapses' = IF cursor = Empty /\ \A s \in GridSlots : slots[s] = Empty
                     THEN lapses ELSE lapses \cup {NotSaved}
        /\ UNCHANGED ground

PlayerWindowNext ==
    \/ TakeResult
    \/ ShiftClickResult
    \/ \E slot \in Slots : Click(slot)
    \/ \E slot \in Slots : ShiftClickOther(slot)
    \/ ClickOutside
    \/ DropHeldItem
    \/ CloseWindow
    \/ Pickup
    \/ DropInventory
    \/ Rejoin

PlayerWindowSpec == PlayerWindowInit /\ [][PlayerWindowNext]_windowVars

-----------------------------------------------------------------------------
(* Properties *)

TotalWorth ==
    WorthIn(slots, Slots \ {ResultSlot}) + WorthOf(cursor)
       + SumFunction([k \in Kinds |-> ground[k] * Worth[k]])

\* However clicks, crafts, drops, deaths, pickups and logins follow each other, the worth of what
\* the player has and of what lies around him changes in no other way than the four named ones.
WorthIsKept == lapses = {} => TotalWorth = WorthIn(StartSlots, Slots \ {ResultSlot})

\* No sequence of clicks leaves more than a full stack, or an item without a count, anywhere.
StacksAreSound == \A stack \in {slots[s] : s \in Slots} \cup {cursor} : Sound(stack)

\* player.cpp: "Update the source slot to whatever count is left".  A shift-click on a stack of the
\* hotbar moves items, it does not destroy them.
ShiftClickKeepsItems ==
    [][\A slot \in BarSlots : ShiftClickOther(slot) => TotalWorth' = TotalWorth]_windowVars
=============================================================================
