------------------------------- MODULE Eating -------------------------------
(***************************************************************************)
(* One player eats: the item use of play.c.  A use is started by a packet  *)
(* and lasts Duration ticks; each tick compares the hand with what the use *)
(* began with; a finished use eats one item and begins the next one while  *)
(* the button is held.  Clicks and pick-ups change the slots under the use *)
(* without telling it, commands change the game mode and the food level,   *)
(* and the player may die.                                                 *)
(***************************************************************************)
EXTENDS Integers

CONSTANTS
    Slot,        \* the hotbar slots
    Food,        \* items with a food entry
    Always,      \* those with MC_ITEM_FOOD_FLAG_ALWAYS_EDIBLE
    Other,       \* items without one
    NutritionOf, \* [Food -> Nat]
    MaxFood,     \* PLAYER_MAX_FOOD_LEVEL
    Duration,    \* PLAYER_FOOD_USE_DURATION_TICKS
    MaxStack     \* bound: items in a stack

ASSUME EatingAssumption ==
    /\ Slot # {} /\ Always \subseteq Food /\ Food \cap Other = {}
    /\ "none" \notin Food \cup Other
    /\ NutritionOf \in [Food -> Nat]
    /\ MaxFood \in Nat \ {0} /\ Duration \in Nat \ {0} /\ MaxStack \in Nat \ {0}

VARIABLES
    slots,     \* [Slot -> a stack]
    selected,  \* selected_hotbar_slot
    use,       \* is_using_item, using_slot, using_item_id, use_item_remaining_ticks
    pressed,   \* use_item_input_held
    food,      \* the food level
    survival,  \* the game mode is survival or adventure
    alive,     \* ~dead
    kept       \* history: the ticks since the use button went down, or the last
               \* bite, at which the same slot was selected, held the same
               \* item and the player could eat it

eatingVars == <<slots, selected, use, pressed, food, survival, alive, kept>>

NoItem == [item |-> "none", count |-> 0]
NoUse == [on |-> FALSE]
Unkept == [on |-> FALSE]
Stack == {NoItem} \cup [item : Food \cup Other, count : 1..MaxStack]
Using(s, i) == [on |-> TRUE, slot |-> s, item |-> i, left |-> Duration]

InHand == slots[selected]
Edible(stack, level) ==
    /\ stack.item \in Food
    /\ level < MaxFood \/ stack.item \in Always

\* active_food_use_matches
UseMatches ==
    /\ use.on
    /\ use.slot = selected
    /\ InHand.item = use.item
    /\ Edible(InHand, food)

CancelUse == use' = NoUse /\ pressed' = FALSE
Forget == kept' = Unkept
-----------------------------------------------------------------------------
(* Packets.                                                                *)

\* try_consume_selected_food: a use that still matches goes on.
PressUse ==
    /\ alive
    /\ IF ~survival THEN UNCHANGED <<use, pressed, kept>>
       ELSE IF UseMatches THEN pressed' = TRUE /\ UNCHANGED <<use, kept>>
       ELSE IF Edible(InHand, food)
            THEN /\ use' = Using(selected, InHand.item)
                 /\ pressed' = TRUE
                 /\ kept' = [on |-> TRUE, slot |-> selected, item |-> InHand.item, ticks |-> 0]
            ELSE CancelUse /\ Forget
    /\ UNCHANGED <<slots, selected, food, survival, alive>>

ReleaseUse ==
    /\ alive
    /\ CancelUse /\ Forget
    /\ UNCHANGED <<slots, selected, food, survival, alive>>

\* Mutant: the use goes on when the player comes back in time.
HoldSlotOnly(s) ==
    /\ alive
    /\ selected' = s
    /\ Forget
    /\ UNCHANGED <<slots, use, pressed, food, survival, alive>>

HoldSlot(s) ==
    /\ alive
    /\ selected' = s
    /\ CancelUse /\ Forget
    /\ UNCHANGED <<slots, food, survival, alive>>

\* drop_selected_mainhand_items, one item or all of them
DropItem(count) ==
    /\ alive
    /\ slots' = IF count < InHand.count
                THEN [slots EXCEPT ![selected].count = @ - count]
                ELSE [slots EXCEPT ![selected] = NoItem]
    /\ CancelUse /\ Forget
    /\ UNCHANGED <<selected, food, survival, alive>>

\* A click, a creative slot or a pick-up puts another stack into a slot.
ChangeSlot(s, stack) ==
    /\ alive
    /\ slots' = [slots EXCEPT ![s] = stack]
    /\ UNCHANGED <<selected, use, pressed, food, survival, alive, kept>>

\* /gamemode stops nothing by itself.
SetMode ==
    /\ alive
    /\ survival' = ~survival
    /\ UNCHANGED <<slots, selected, use, pressed, food, alive, kept>>

\* /food set and add
SetFood(level) ==
    /\ alive
    /\ food' = level
    /\ CancelUse /\ Forget
    /\ UNCHANGED <<slots, selected, survival, alive>>

\* Exhaustion takes the food level down.
Hunger ==
    /\ alive /\ survival /\ food > 0
    /\ food' = food - 1
    /\ UNCHANGED <<slots, selected, use, pressed, survival, alive, kept>>

\* handle_player_death drops everything; respawn_player fills the food level.
DieHungry ==
    /\ alive
    /\ alive' = FALSE
    /\ slots' = [s \in Slot |-> NoItem]
    /\ CancelUse /\ Forget
    /\ UNCHANGED <<selected, food, survival>>

RespawnFed ==
    /\ ~alive
    /\ alive' = TRUE
    /\ food' = MaxFood
    /\ CancelUse /\ Forget
    /\ UNCHANGED <<slots, selected, survival>>
-----------------------------------------------------------------------------
(* proto_play_tick: tick_item_use.                                         *)

\* What the history says of one more tick.
Counted ==
    IF kept.on /\ kept.slot = selected /\ InHand.item = kept.item
       /\ survival /\ alive /\ Edible(InHand, food)
    THEN [kept EXCEPT !.ticks = IF @ < Duration THEN @ + 1 ELSE @]
    ELSE Unkept

Bitten == [slots EXCEPT ![selected] =
              IF InHand.count = 1 THEN NoItem ELSE [InHand EXCEPT !.count = @ - 1]]
Fed == IF food + NutritionOf[InHand.item] < MaxFood
       THEN food + NutritionOf[InHand.item] ELSE MaxFood

\* complete_active_food_use and maybe_restart_food_use_cycle
Bite ==
    LET rest == Bitten[selected]
    IN  /\ slots' = Bitten
        /\ food' = Fed
        /\ IF pressed /\ Edible(rest, Fed)
           THEN /\ use' = Using(selected, rest.item)
                /\ kept' = [on |-> TRUE, slot |-> selected, item |-> rest.item, ticks |-> 0]
                /\ UNCHANGED pressed
           ELSE CancelUse /\ Forget

EatTick ==
    /\ \/ /\ ~use.on
          /\ kept' = Counted
          /\ UNCHANGED <<slots, use, pressed, food>>
       \/ /\ use.on /\ ~(survival /\ alive /\ UseMatches)
          /\ CancelUse
          /\ kept' = Counted
          /\ UNCHANGED <<slots, food>>
       \/ /\ use.on /\ survival /\ alive /\ UseMatches /\ use.left > 1
          /\ use' = [use EXCEPT !.left = @ - 1]
          /\ kept' = Counted
          /\ UNCHANGED <<slots, food, pressed>>
       \/ /\ use.on /\ survival /\ alive /\ UseMatches /\ use.left <= 1
          /\ Bite
    /\ UNCHANGED <<selected, survival, alive>>

EatingInit ==
    /\ slots = [s \in Slot |-> NoItem]
    /\ selected = CHOOSE s \in Slot : TRUE
    /\ use = NoUse /\ pressed = FALSE
    /\ food = MaxFood
    /\ survival = TRUE /\ alive = TRUE
    /\ kept = Unkept

EatingNext ==
    \/ PressUse \/ ReleaseUse \/ SetMode \/ Hunger \/ DieHungry \/ RespawnFed \/ EatTick
    \/ \E s \in Slot : HoldSlot(s)
    \/ \E count \in {1, MaxStack} : DropItem(count)
    \/ \E s \in Slot, stack \in Stack : ChangeSlot(s, stack)
    \/ \E level \in 0..MaxFood : SetFood(level)

EatingSpec == EatingInit /\ [][EatingNext]_eatingVars
-----------------------------------------------------------------------------
EatingTypeOK ==
    /\ slots \in [Slot -> Stack]
    /\ selected \in Slot
    /\ use.on => use.slot \in Slot /\ use.item \in Food /\ use.left \in 1..Duration
    /\ use.on => pressed
    /\ food \in 0..MaxFood
    /\ pressed \in BOOLEAN /\ survival \in BOOLEAN /\ alive \in BOOLEAN

\* A tick eats one item only when the button has been down, the same slot
\* selected with the same food in it, and the player alive, hungry and not in
\* creative mode, at each of the Duration ticks up to this one.
EatEarned ==
    [][EatTick /\ slots' # slots =>
           /\ kept.on /\ kept.slot = selected /\ kept.item = InHand.item
           /\ kept.ticks >= Duration - 1
           /\ survival /\ alive /\ Edible(InHand, food)]_eatingVars
=============================================================================
