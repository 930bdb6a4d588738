------------------------------- MODULE Stacks -------------------------------
(***************************************************************************)
(* Item stacks and what the clicks of a window do to them:                 *)
(* bpp_shared/inventory/item_stack.h, inventory.h and                      *)
(* inventory_interaction.cpp.  Id and damage of a stack are one value, its *)
(* kind.  An inventory is a function from slot numbers to stacks.          *)
(***************************************************************************)
EXTENDS Integers, Sequences, FiniteSets, FiniteSetsExt, Functions

CONSTANTS
    Kinds,      \* the kinds of items
    NoKind,     \* Items::Id::INVALID
    MaxStackOf  \* Items::GetMaxStack, for each kind

ASSUME StacksAssumption ==
    /\ IsFiniteSet(Kinds)
    /\ NoKind \notin Kinds
    /\ MaxStackOf \in [Kinds -> Nat \ {0}]

Stack == [kind : Kinds \cup {NoKind}, count : Nat]

\* A default-constructed ItemStack: an empty slot or an empty cursor.
Empty == [kind |-> NoKind, count |-> 0]

StackOf(kind, count) == [kind |-> kind, count |-> count]

IsStackable(kind) == MaxStackOf[kind] > 1

\* `stack' with n items fewer; the last one taken leaves an empty slot.
Less(stack, n) ==
    IF stack.count <= n THEN Empty ELSE [stack EXCEPT !.count = @ - n]

Smaller(a, b) == IF a <= b THEN a ELSE b

\* What a slot or a cursor may hold: nothing, or between one item and a full stack.
Sound(stack) ==
    \/ stack = Empty
    \/ stack.kind \in Kinds /\ stack.count \in 1 .. MaxStackOf[stack.kind]

\* What lies on the ground when these stacks have been dropped there as well.
Spilled(ground, stacks) ==
    [k \in Kinds |-> ground[k] +
        SumFunction([i \in DOMAIN stacks |-> IF stacks[i].kind = k THEN stacks[i].count ELSE 0])]

-----------------------------------------------------------------------------
(* A click gives the slots and the cursor it leaves. *)

After(slots, cursor) == [slots |-> slots, cursor |-> cursor]

\* As much of the cursor as fits, at most n items, goes onto the stack in the slot.
PutOnto(slots, cursor, slot, n) ==
    LET target == slots[slot]
        moved  == Smaller(n, Smaller(MaxStackOf[target.kind] - target.count, cursor.count))
    IN  After([slots EXCEPT ![slot].count = @ + moved], Less(cursor, moved))

Swap(slots, cursor, slot) == After([slots EXCEPT ![slot] = cursor], slots[slot])

\* InventoryInteraction::OnLeftClick: put down, pick up, merge or swap.
OnLeftClick(slots, cursor, slot) ==
    IF slots[slot] # Empty /\ slots[slot].kind = cursor.kind
    THEN PutOnto(slots, cursor, slot, cursor.count)
    ELSE Swap(slots, cursor, slot)

\* InventoryInteraction::OnRightClick: put down one, swap, or pick up the larger half.
OnRightClick(slots, cursor, slot) ==
    LET target == slots[slot]
        taken  == (target.count + 1) \div 2
    IN  CASE cursor # Empty /\ target = Empty ->
               After([slots EXCEPT ![slot] = StackOf(cursor.kind, 1)], Less(cursor, 1))
          [] cursor # Empty /\ target # Empty /\ target.kind = cursor.kind ->
               PutOnto(slots, cursor, slot, 1)
          [] cursor # Empty /\ target # Empty /\ target.kind # cursor.kind ->
               Swap(slots, cursor, slot)
          [] cursor = Empty ->
               After([slots EXCEPT ![slot] = Less(target, taken)],
                     IF target = Empty THEN Empty ELSE StackOf(target.kind, taken))

-----------------------------------------------------------------------------
(* Inventory::MergeItemStackInInventory visits the slots of `order' one after *)
(* the other: first it fills up stacks of the same kind, then it takes the    *)
(* first empty slot for the rest.                                             *)

\* A slip: stacks are filled without a look at the room in them.
FillUpSlip(slots, stack, order) ==
    LET Takes(i) == slots[order[i]].kind = stack.kind /\ IsStackable(stack.kind)
        left[i \in 0 .. Len(order)] ==
            CASE i = 0               -> stack.count
              [] i > 0 /\ Takes(i)   -> 0
              [] i > 0 /\ ~Takes(i)  -> left[i - 1]
    IN  left

\* How much of `stack' is left when the first i slots of `order' have been filled up.
FillUp(slots, stack, order) ==
    LET Room(i) == IF slots[order[i]].kind = stack.kind /\ IsStackable(stack.kind)
                   THEN MaxStackOf[stack.kind] - slots[order[i]].count ELSE 0
        left[i \in 0 .. Len(order)] ==
            IF i = 0 THEN stack.count ELSE left[i - 1] - Smaller(Room(i), left[i - 1])
    IN  left

\* The slots afterwards, what is left of `stack', and the result of the call.
MergeItemStack(slots, stack, order) ==
    LET left   == FillUp(slots, stack, order)
        rest   == left[Len(order)]
        At(s)  == CHOOSE i \in 1 .. Len(order) : order[i] = s
        filled == [s \in DOMAIN slots |->
                     IF s \in {order[i] : i \in 1 .. Len(order)}
                     THEN [slots[s] EXCEPT !.count = @ + left[At(s) - 1] - left[At(s)]]
                     ELSE slots[s]]
        free   == {i \in 1 .. Len(order) : slots[order[i]] = Empty}
        Merged(result, remains, ok) == [slots |-> result, left |-> remains, ok |-> ok]
    IN  CASE rest = 0                -> Merged(filled, Empty, TRUE)
          [] rest > 0 /\ free # {}   -> Merged([filled EXCEPT ![order[Min(free)]] = StackOf(stack.kind, rest)],
                                               Empty, TRUE)
          [] rest > 0 /\ free = {}   -> Merged(filled, StackOf(stack.kind, rest), FALSE)

\* The slots from a to b, forwards and backwards.
Upwards(a, b) == [i \in 1 .. b - a + 1 |-> a + i - 1]
Downwards(a, b) == [i \in 1 .. b - a + 1 |-> b - i + 1]

\* Inventory::CanMergeItemStackInInventory: some slot takes at least one item.
CanMerge(slots, stack, order) ==
    /\ IsStackable(stack.kind)
    /\ \E i \in 1 .. Len(order) :
          slots[order[i]].kind = stack.kind /\ slots[order[i]].count < MaxStackOf[stack.kind]

\* InventoryPlayer::PickupItem, with the main inventory and the hotbar as orders.
PickupItem(slots, stack, main, bar) ==
    LET inBar == MergeItemStack(slots, stack, bar)
    IN  IF CanMerge(slots, stack, main) THEN MergeItemStack(slots, stack, main)
        ELSE IF inBar.ok THEN inBar
        ELSE MergeItemStack(inBar.slots, inBar.left, main)
=============================================================================
