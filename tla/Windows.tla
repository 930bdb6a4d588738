------------------------------ MODULE Windows ------------------------------
(***************************************************************************)
(* The windows of chests and furnaces, several players at once.  A window  *)
(* works on a copy of the box's slots and the player's slots, which it     *)
(* takes (MergeInventories) when it opens and in every tick of the         *)
(* inventory tracker, and which it writes back as a whole after a click    *)
(* and when it closes.  bpp_shared/inventory/interactions/chest.cpp and    *)
(* furnace.cpp, handle_packet.cpp, inventory_tracker.cpp.                  *)
(***************************************************************************)
EXTENDS Stacks

CONSTANTS
    Players,
    Boxes,       \* tile entities with an inventory
    Furnaces,    \* those whose last slot is a result
    BoxSize,
    BagMainSize, BagBarSize,  \* of a player's slots, main inventory and hotbar: 27 and 9 in the code
    Smelts,      \* GetSmeltingResult: from what can be smelted to what it becomes
    NoWindow,
    StartBoxes, StartBags

BoxSlots   == 1 .. BoxSize
BagMain    == BoxSize + 1 .. BoxSize + BagMainSize
BagBar     == BoxSize + BagMainSize + 1 .. BoxSize + BagMainSize + BagBarSize
BagSlots   == BagMain \cup BagBar
SharedSlots == BoxSlots \cup BagSlots
Result == BoxSize

MainOrder == Upwards(BoxSize + 1, BoxSize + BagMainSize)
BarOrder  == Upwards(BoxSize + BagMainSize + 1, BoxSize + BagMainSize + BagBarSize)

ASSUME WindowsAssumption ==
    /\ IsFiniteSet(Players) /\ IsFiniteSet(Boxes)
    /\ BoxSize \in Nat \ {0, 1}   \* 3 of a furnace, 27 of a chest
    /\ Furnaces \subseteq Boxes
    /\ BagMainSize \in Nat \ {0} /\ BagBarSize \in Nat \ {0}
    /\ DOMAIN Smelts \subseteq Kinds
    /\ Smelts \in [DOMAIN Smelts -> Kinds]
    /\ StartBoxes \in [Boxes -> [BoxSlots -> {stack \in Stack : Sound(stack)}]]
    /\ StartBags \in [Players -> [BagSlots -> {stack \in Stack : Sound(stack)}]]

VARIABLES
    boxes,    \* the inventories of the tile entities
    alive,    \* tile entities that exist
    bags,     \* the players' own slots
    near,     \* players within reach of the box they look into
    windows,  \* PlayerSession::activeInteraction
    litter,   \* how many items of each kind lie around
    phase,    \* where Server::Tick is
    toTrack,  \* sessions that InventoryTracker::Tick has still to visit
    slips     \* history: how the number of items came to change

boxVars == <<boxes, alive, bags, near, windows, litter, phase, toTrack, slips>>

\* A window: its box, the copy, and the cursor.
Window == [box : Boxes, shared : [SharedSlots -> Stack], cursor : Stack]

\* The null pointer.
ASSUME NoWindowAssumption == NoWindow \notin Window

\* A window wrote over, or moved away, what had changed since it took its copy.
StaleCopy == "stale copy"
\* A window was used after its box had been destroyed.
DeadBox == "dead box"
\* A new window took the place of one with something on its cursor.
CursorLost == "cursor lost"

WindowsTypeOK ==
    /\ boxes \in [Boxes -> [BoxSlots -> Stack]]
    /\ alive \subseteq Boxes
    /\ bags \in [Players -> [BagSlots -> Stack]]
    /\ near \subseteq Players
    /\ windows \in [Players -> Window \cup {NoWindow}]
    /\ litter \in [Kinds -> Nat]
    /\ phase \in {"packets", "tracker", "world"}
    /\ toTrack \subseteq Players
    /\ slips \subseteq {StaleCopy, DeadBox, CursorLost}

WindowsInit ==
    /\ boxes = StartBoxes
    /\ alive = Boxes
    /\ bags = StartBags
    /\ near = Players
    /\ windows = [p \in Players |-> NoWindow]
    /\ litter = [k \in Kinds |-> 0]
    /\ phase = "packets"
    /\ toTrack = {}
    /\ slips = {}

Littered(stacks) == Spilled(litter, stacks)

-----------------------------------------------------------------------------
(* The copy *)

\* MergeInventories: the slots of the box, then the player's.
Merged(box, bag) == [s \in SharedSlots |-> IF s \in BoxSlots THEN box[s] ELSE bag[s]]

BoxPart(all) == [s \in BoxSlots |-> all[s]]
BagPart(all) == [s \in BagSlots |-> all[s]]

Opened(b, all) == [box |-> b, shared |-> all, cursor |-> Empty]

\* Somebody else changed the box or the player's slots since the window took its copy.
IsStale(p, w) == Merged(boxes[w.box], bags[p]) # w.shared

SlipsOfWrite(p, w) ==
    CASE w.box \notin alive                   -> {DeadBox}
      [] w.box \in alive /\ IsStale(p, w)     -> {StaleCopy}
      [] w.box \in alive /\ ~IsStale(p, w)    -> {}

\* WriteBack: the whole copy goes into the box and into the player's slots.  A destroyed box is
\* memory that nobody else looks at.
WriteBack(p, w, shared) ==
    /\ boxes' = IF w.box \in alive THEN [boxes EXCEPT ![w.box] = BoxPart(shared)] ELSE boxes
    /\ bags' = [bags EXCEPT ![p] = BagPart(shared)]
    /\ slips' = slips \cup SlipsOfWrite(p, w)

\* The destructor writes back once more, unless the box is gone.
Destroy(p, w) ==
    IF w # NoWindow /\ w.box \in alive
    THEN WriteBack(p, w, w.shared) ELSE UNCHANGED <<boxes, bags, slips>>

-----------------------------------------------------------------------------
(* Packets *)

\* onBlockActivated of a chest or furnace.  The new window is made before the old one is destroyed,
\* and takes its copy again afterwards (InitSnapshot).
Open(p, b) ==
    /\ phase = "packets" /\ b \in alive /\ p \in near
    /\ LET old == windows[p]
       IN  /\ \/ /\ old # NoWindow /\ old.box \in alive
                 /\ boxes' = [boxes EXCEPT ![old.box] = BoxPart(old.shared)]
                 /\ bags' = [bags EXCEPT ![p] = BagPart(old.shared)]
                 /\ slips' = slips \cup SlipsOfWrite(p, old)
                                  \cup (IF old.cursor = Empty THEN {} ELSE {CursorLost})
              \/ /\ old # NoWindow /\ old.box \notin alive
                 /\ slips' = IF old.cursor = Empty THEN slips ELSE slips \cup {CursorLost}
                 /\ UNCHANGED <<boxes, bags>>
              \/ old = NoWindow /\ UNCHANGED <<boxes, bags, slips>>
           /\ windows' = [windows EXCEPT ![p] = Opened(b, Merged(boxes'[b], bags'[p]))]
    /\ UNCHANGED <<alive, near, litter, phase, toTrack>>

IsResult(w, slot) == w.box \in Furnaces /\ slot = Result

\* A click on a slot of the copy, which is then written back.  A left click writes back even when
\* it moved nothing, a right click only when it moved something.
ClickShared(p, slot) ==
    LET w     == windows[p]
        left  == OnLeftClick(w.shared, w.cursor, slot)
        right == OnRightClick(w.shared, w.cursor, slot)
        Done(after) ==
            /\ WriteBack(p, w, after.slots)
            /\ windows' = [windows EXCEPT ![p].shared = after.slots, ![p].cursor = after.cursor]
    IN  /\ phase = "packets" /\ w # NoWindow
        /\ ~IsResult(w, slot)
        /\ \/ Done(left)
           \/ right # After(w.shared, w.cursor) /\ Done(right)
        /\ UNCHANGED <<alive, near, litter, phase, toTrack>>

\* Where a shift-click on `slot' sends the stack, in the order of the code.
Moved(w, all, slot, stack) ==
    LET both   == Downwards(BoxSize + 1, BoxSize + BagMainSize + BagBarSize)
        inMain == MergeItemStack(all, stack, MainOrder)
    IN  CASE w.box \notin Furnaces /\ slot \in BoxSlots -> MergeItemStack(all, stack, both)
          [] w.box \notin Furnaces /\ slot \in BagSlots -> MergeItemStack(all, stack, Upwards(1, BoxSize))
          [] IsResult(w, slot)                          -> MergeItemStack(all, stack, both)
          [] w.box \in Furnaces /\ slot \in BagMain   -> MergeItemStack(all, stack, BarOrder)
          [] w.box \in Furnaces /\ slot \in BagBar    -> MergeItemStack(all, stack, MainOrder)
          [] w.box \in Furnaces /\ slot \in BoxSlots \ {Result} ->
               IF inMain.ok THEN inMain ELSE MergeItemStack(inMain.slots, inMain.left, BarOrder)

\* What a read of box b may give: nothing is known of a destroyed one.
Reads(b) ==
    IF b \in alive THEN {boxes[b]}
    ELSE [BoxSlots -> {Empty} \cup {StackOf(k, n) : k \in Kinds, n \in {1}}]

\* OnShiftClick: the stack as the copy shows it (for a furnace's result: as it is) is merged into
\* the real slots, and the real slot gets what is left.  Then the copy is taken anew.
ShiftClick(p, slot) ==
    LET w == windows[p]
    IN  /\ phase = "packets" /\ w # NoWindow
        /\ \E box \in Reads(w.box) :
              LET real  == Merged(box, bags[p])
                  stack == IF IsResult(w, slot) THEN real[slot] ELSE w.shared[slot]
                  moved == Moved(w, real, slot, stack)
                  after == [moved.slots EXCEPT ![slot] = moved.left]
              IN  /\ stack # Empty
                  /\ boxes' = IF w.box \in alive THEN [boxes EXCEPT ![w.box] = BoxPart(after)] ELSE boxes
                  /\ bags' = [bags EXCEPT ![p] = BagPart(after)]
                  /\ windows' = [windows EXCEPT ![p].shared = after]
                  /\ slips' = slips \cup (IF w.box \notin alive THEN {DeadBox} ELSE {})
                                    \cup (IF stack = real[slot] THEN {} ELSE {StaleCopy})
        /\ UNCHANGED <<alive, near, litter, phase, toTrack>>

\* FurnaceInventoryInteraction::TakeResult works on the furnace itself.
TakeFromFurnace(p) ==
    LET w == windows[p]
    IN  /\ phase = "packets" /\ w # NoWindow /\ w.box \in Furnaces
        /\ \E box \in Reads(w.box) :
              LET result == box[Result]
                  taken  == [box EXCEPT ![Result] = Empty]
                  all    == Merged(taken, bags[p])
              IN  /\ result # Empty
                  /\ \/ w.cursor = Empty
                     \/ /\ w.cursor.kind = result.kind
                        /\ w.cursor.count + result.count <= MaxStackOf[result.kind]
                  /\ boxes' = IF w.box \in alive THEN [boxes EXCEPT ![w.box] = taken] ELSE boxes
                  /\ windows' = [windows EXCEPT ![p].cursor = StackOf(result.kind, w.cursor.count + result.count),
                                                ![p].shared = all]
                  /\ slips' = IF w.box \in alive THEN slips ELSE slips \cup {DeadBox}
        /\ UNCHANGED <<alive, bags, near, litter, phase, toTrack>>

\* A click outside of the window.
ClickOutsideBox(p) ==
    LET w == windows[p]
    IN  /\ phase = "packets" /\ w # NoWindow /\ w.cursor # Empty
        /\ \E n \in {1, w.cursor.count} :
              /\ litter' = [litter EXCEPT ![w.cursor.kind] = @ + n]
              /\ windows' = [windows EXCEPT ![p].cursor = Less(@, n)]
        /\ UNCHANGED <<boxes, alive, bags, near, phase, toTrack, slips>>

\* A slip: the window is destroyed, and its cursor with it.
CloseBoxSlip(p) ==
    /\ litter' = litter
    /\ windows' = [windows EXCEPT ![p] = NoWindow]
    /\ Destroy(p, windows[p])

\* OnInteractionClosed drops the cursor; then the window is destroyed.
CloseBox(p) ==
    /\ litter' = Littered(<<windows[p].cursor>>)
    /\ windows' = [windows EXCEPT ![p] = NoWindow]
    /\ Destroy(p, windows[p])

CloseContainer(p) ==
    /\ phase = "packets" /\ windows[p] # NoWindow
    /\ CloseBox(p)
    /\ UNCHANGED <<alive, near, phase, toTrack>>

\* Packets that change a player's slots behind the window: an item thrown away, a block placed.
ThrowItem(p, slot) ==
    /\ phase = "packets" /\ slot \in BagBar /\ bags[p][slot] # Empty
    /\ bags' = [bags EXCEPT ![p][slot] = Less(@, 1)]
    /\ litter' = [litter EXCEPT ![bags[p][slot].kind] = @ + 1]
    /\ UNCHANGED <<boxes, alive, near, windows, phase, toTrack, slips>>

\* The box is broken, by a player's packet or in the world's tick; its contents are spilled.
BreakBox(b) ==
    /\ phase \in {"packets", "world"} /\ b \in alive
    /\ alive' = alive \ {b}
    /\ litter' = Littered(boxes[b])
    /\ boxes' = [boxes EXCEPT ![b] = [s \in BoxSlots |-> Empty]]
    /\ UNCHANGED <<bags, near, windows, phase, toTrack, slips>>

Walk(p) ==
    /\ phase = "packets"
    /\ near' = IF p \in near THEN near \ {p} ELSE near \cup {p}
    /\ UNCHANGED <<boxes, alive, bags, windows, litter, phase, toTrack, slips>>

-----------------------------------------------------------------------------
(* The rest of the tick *)

StartTracker ==
    /\ phase = "packets"
    /\ phase' = "tracker" /\ toTrack' = Players
    /\ UNCHANGED <<boxes, alive, bags, near, windows, litter, slips>>

\* InventoryTracker::Tick for one session: a window that cannot exist is closed, another takes
\* its copy anew (TickDiff).
Track(p) ==
    /\ phase = "tracker" /\ p \in toTrack
    /\ toTrack' = toTrack \ {p}
    /\ phase' = IF toTrack = {p} THEN "world" ELSE phase
    /\ LET w   == windows[p]
           all == Merged(boxes[w.box], bags[p])
       IN  \/ w # NoWindow /\ (w.box \notin alive \/ p \notin near) /\ CloseBox(p)
           \/ /\ w # NoWindow /\ w.box \in alive /\ p \in near
              /\ windows' = [windows EXCEPT ![p].shared = all]
              /\ UNCHANGED <<boxes, bags, litter, slips>>
           \/ w = NoWindow /\ UNCHANGED <<boxes, bags, litter, windows, slips>>
    /\ UNCHANGED <<alive, near>>

\* TileEntityFurnace::Tick at the end of a smelting.
Smelt(b) ==
    LET input == boxes[b][1]
        made  == StackOf(Smelts[input.kind], 1)
        out   == boxes[b][Result]
    IN  /\ phase = "world" /\ b \in alive \cap Furnaces
        /\ input # Empty /\ input.kind \in DOMAIN Smelts
        /\ \/ out = Empty
           \/ out.kind = made.kind /\ out.count < MaxStackOf[out.kind]
        /\ boxes' = [boxes EXCEPT ![b][1] = Less(@, 1), ![b][Result] = StackOf(made.kind, out.count + 1)]
        /\ UNCHANGED <<alive, bags, near, windows, litter, phase, toTrack, slips>>

\* A player walks over an item.
PickupLitter(p) ==
    /\ phase = "world"
    /\ \E k \in Kinds : \E n \in 1 .. Smaller(litter[k], MaxStackOf[k]) :
          LET picked == PickupItem(bags[p], StackOf(k, n), MainOrder, BarOrder)
          IN  /\ bags' = [bags EXCEPT ![p] = picked.slots]
              /\ litter' = [litter EXCEPT ![k] = @ - n + picked.left.count]
    /\ UNCHANGED <<boxes, alive, near, windows, phase, toTrack, slips>>

EndTick ==
    /\ phase = "world"
    /\ phase' = "packets"
    /\ UNCHANGED <<boxes, alive, bags, near, windows, litter, toTrack, slips>>

WindowsNext ==
    \/ \E p \in Players, b \in Boxes : Open(p, b)
    \/ \E p \in Players, slot \in SharedSlots : ClickShared(p, slot)
    \/ \E p \in Players, slot \in SharedSlots : ShiftClick(p, slot)
    \/ \E p \in Players : TakeFromFurnace(p)
    \/ \E p \in Players : ClickOutsideBox(p)
    \/ \E p \in Players : CloseContainer(p)
    \/ \E p \in Players, slot \in BagBar : ThrowItem(p, slot)
    \/ \E b \in Boxes : BreakBox(b)
    \/ \E p \in Players : Walk(p)
    \/ StartTracker
    \/ \E p \in Players : Track(p)
    \/ \E b \in Boxes : Smelt(b)
    \/ \E p \in Players : PickupLitter(p)
    \/ EndTick

WindowsSpec == WindowsInit /\ [][WindowsNext]_boxVars

-----------------------------------------------------------------------------
(* Properties *)

CountIn(stacks) == SumFunction([i \in DOMAIN stacks |-> stacks[i].count])

ItemCount ==
    SumFunction([b \in Boxes |-> CountIn(boxes[b])])
    + SumFunction([p \in Players |-> CountIn(bags[p])
                      + IF windows[p] = NoWindow THEN 0 ELSE windows[p].cursor.count])
    + SumFunction(litter)

\* Through everything players and the tick do with boxes and windows, forced closes included, no item
\* appears or is gone, but for the three named slips: a write of a copy that had become stale, a
\* window used over a destroyed box, and a window replaced with something on its cursor.
ItemsAreKept ==
    slips = {} => ItemCount = SumFunction([b \in Boxes |-> CountIn(StartBoxes[b])])
                            + SumFunction([p \in Players |-> CountIn(StartBags[p])])
=============================================================================
