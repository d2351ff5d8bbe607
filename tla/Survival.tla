------------------------------ MODULE Survival ------------------------------
(***************************************************************************)
(* Health and hunger of one player, tick by tick: exhaustion, natural      *)
(* regeneration and starvation (tick_natural_regen_and_starvation), damage,*)
(* death, respawn and rejoining, under difficulty changes made by anyone   *)
(* and the debug commands.  The timers hold a due time; the model keeps    *)
(* the ticks left until it (0: not running).  Exhaustion is counted in     *)
(* units of half a step (2.0), a regenerated heart costing three.          *)
(***************************************************************************)
EXTENDS Integers

CONSTANTS
    MaxHealth, MaxFoodLevel, \* PLAYER_MAX_HEALTH, PLAYER_MAX_FOOD_LEVEL
    StartSaturation,         \* PLAYER_DEFAULT_FOOD_SATURATION
    RegenFood,               \* PLAYER_NATURAL_REGEN_FOOD_THRESHOLD
    RegenTicks, PeacefulTicks, StarveTicks, \* the three intervals, in ticks
    Meal,                    \* the foods: [nutrition, saturation, always] (edible on a full stomach)
    MaxExhaustion,           \* what clamp_food_exhaustion leaves at most
    EasyFloor,               \* starvation_min_health_for_difficulty: easy
    NormalFloor              \* ... and normal; 0 on hard

ExhaustionStep == 2
RegenExhaustion == 3

ASSUME SurvivalAssumption ==
    /\ MaxHealth \in Nat \ {0} /\ MaxFoodLevel \in Nat \ {0}
    /\ StartSaturation \in 0..MaxFoodLevel
    /\ RegenFood \in Nat /\ RegenFood > RegenExhaustion - 1 \* regenerating never empties the food
    /\ RegenTicks \in Nat \ {0} /\ PeacefulTicks \in Nat \ {0} /\ StarveTicks \in Nat \ {0}
    /\ Meal \subseteq [nutrition : Nat, saturation : Nat, always : BOOLEAN]
    /\ MaxExhaustion \in Nat
    /\ EasyFloor \in 1..MaxHealth /\ NormalFloor \in 1..MaxHealth

VARIABLES
    health, dead, hunger, saturation, exhaustion,
    regen, starve,    \* next_natural_regen_ms, next_starvation_damage_ms
    difficulty,       \* the server's
    mortal,           \* the game mode is survival or adventure
    saved,            \* what the player's file keeps of these
    lately            \* history: [hurtFor, emptyFor, cause], see below

survivalVars == <<health, dead, hunger, saturation, exhaustion, regen, starve,
                  difficulty, mortal, saved, lately>>

Difficulty == {"peaceful", "easy", "normal", "hard"}
Floor == CASE difficulty = "easy" -> EasyFloor
           [] difficulty = "normal" -> NormalFloor
           [] difficulty = "hard" -> 0
           [] difficulty = "peaceful" -> MaxHealth

Min2(a, b) == IF a < b THEN a ELSE b
Clamp(v, top) == IF v < 0 THEN 0 ELSE Min2(v, top)
Hungers == mortal /\ ~dead

\* save_player_data: what is written of the player.
Kept == [health |-> health, hunger |-> hunger, saturation |-> saturation, exhaustion |-> exhaustion]
-----------------------------------------------------------------------------
(* Exhaustion.                                                             *)

\* player_apply_exhaustion_thresholds: each full step costs saturation, then food.
Worn(e) ==
    LET steps == e \div ExhaustionStep
        soaked == Min2(steps, saturation)
    IN  [exhaustion |-> e % ExhaustionStep,
         saturation |-> saturation - soaked,
         hunger |-> Clamp(hunger - (steps - soaked), MaxFoodLevel)]

\* player_add_exhaustion
Wear(amount) ==
    IF difficulty = "peaceful"
    THEN exhaustion' = 0 /\ UNCHANGED <<hunger, saturation>>
    ELSE /\ exhaustion' = Worn(exhaustion + amount).exhaustion
         /\ saturation' = Worn(exhaustion + amount).saturation
         /\ hunger' = Worn(exhaustion + amount).hunger
-----------------------------------------------------------------------------
(* History: for how many ticks on end, under one difficulty, the player    *)
(* has been hurt and fed (or at peace), and for how many he has starved.   *)

Fresh == [hurtFor |-> 0, emptyFor |-> 0, cause |-> "none"]
Larger(a, b) == IF a > b THEN a ELSE b
Longest == Larger(RegenTicks, Larger(PeacefulTicks, StarveTicks)) \* bound of the counts
HurtNow == Hungers /\ health < MaxHealth /\ (difficulty = "peaceful" \/ hunger >= RegenFood)
EmptyNow == Hungers /\ hunger = 0 /\ difficulty # "peaceful" /\ health > Floor
Observed(cause) ==
    [hurtFor |-> IF HurtNow THEN Min2(Longest, lately.hurtFor + 1) ELSE 0,
     emptyFor |-> IF EmptyNow THEN Min2(Longest, lately.emptyFor + 1) ELSE 0,
     cause |-> cause]
-----------------------------------------------------------------------------
(* Packets and commands.                                                   *)

\* Moving and jumping (handle_player_movement_update).
Exert ==
    /\ Hungers
    /\ Wear(1)
    /\ UNCHANGED <<health, dead, regen, starve, difficulty, mortal, saved, lately>>

\* handle_player_death: the timers stop and the death is saved.
DieOf(cause) ==
    /\ health' = 0 /\ dead' = TRUE
    /\ regen' = 0 /\ starve' = 0
    /\ saved' = Kept'
    /\ lately' = [lately EXCEPT !.cause = cause]
    /\ UNCHANGED <<difficulty, mortal>>

\* Fall or void damage (apply_player_damage): not saved unless it kills.
Damage(amount) ==
    /\ mortal /\ ~dead
    /\ UNCHANGED <<hunger, saturation, exhaustion>>
    /\ \/ /\ health - amount > 0
          /\ health' = health - amount
          /\ lately' = [lately EXCEPT !.cause = "hit"]
          /\ UNCHANGED <<dead, regen, starve, difficulty, mortal, saved>>
       \/ health - amount <= 0 /\ DieOf("hit")

\* /health set, add, damage, heal and /kill: any game mode, saved.
SetHealth(h) ==
    /\ ~dead
    /\ UNCHANGED <<hunger, saturation, exhaustion>>
    /\ \/ h = 0 /\ DieOf("command")
       \/ /\ h > 0
          /\ health' = h /\ saved' = Kept'
          /\ lately' = [lately EXCEPT !.cause = "command"]
          /\ UNCHANGED <<dead, regen, starve, difficulty, mortal>>

\* Mutant: the saturation stays above the new food level.
SetHungerKeeping(level) ==
    /\ ~dead
    /\ hunger' = level /\ exhaustion' = 0
    /\ regen' = 0 /\ starve' = 0
    /\ UNCHANGED <<health, dead, saturation, difficulty, mortal, lately>>
    /\ saved' = Kept'

\* /food set and add reset the timers and the exhaustion.
SetHunger(level) ==
    /\ ~dead
    /\ hunger' = level /\ saturation' = Min2(saturation, level) /\ exhaustion' = 0
    /\ regen' = 0 /\ starve' = 0
    /\ UNCHANGED <<health, dead, difficulty, mortal, lately>>
    /\ saved' = Kept'

\* /food sat
SetSaturation(level) ==
    /\ ~dead
    /\ saturation' = level
    /\ UNCHANGED <<health, dead, hunger, exhaustion, regen, starve, difficulty, mortal, lately>>
    /\ saved' = Kept'

\* /food exhaust: felt at once, whatever the game mode and the difficulty.
SetExhaustion(e) ==
    /\ ~dead
    /\ exhaustion' = Worn(e).exhaustion /\ saturation' = Worn(e).saturation
    /\ hunger' = Worn(e).hunger
    /\ UNCHANGED <<health, dead, regen, starve, difficulty, mortal, lately>>
    /\ saved' = Kept'

\* A meal is finished (complete_active_food_use; consume_selected_item saves):
\* no timer is reset.
Eat(meal) ==
    /\ Hungers
    /\ hunger < MaxFoodLevel \/ meal.always
    /\ hunger' = Clamp(hunger + meal.nutrition, MaxFoodLevel)
    /\ saturation' = Clamp(saturation + meal.saturation, hunger')
    /\ UNCHANGED <<health, dead, exhaustion, regen, starve, difficulty, mortal, lately>>
    /\ saved' = Kept'

\* What saves the player besides: the inventory, the held slot, the windows.
Save ==
    /\ ~dead
    /\ saved' = Kept
    /\ UNCHANGED <<health, dead, hunger, saturation, exhaustion, regen, starve,
                   difficulty, mortal, lately>>

ChangeGameMode ==
    /\ ~dead
    /\ mortal' = ~mortal
    /\ saved' = Kept
    /\ UNCHANGED <<health, dead, hunger, saturation, exhaustion, regen, starve, difficulty, lately>>

\* Mutant: the timers that run go on.
SetDifficultyOnly(d) ==
    /\ difficulty' = d
    /\ exhaustion' = IF d = "peaceful" THEN 0 ELSE exhaustion
    /\ lately' = Fresh
    /\ UNCHANGED <<health, dead, hunger, saturation, regen, starve, mortal, saved>>

\* Anyone's /difficulty: net_server_broadcast_difficulty resets every
\* player's timers, whether or not the difficulty is a new one.
SetDifficulty(d) ==
    /\ difficulty' = d
    /\ regen' = 0 /\ starve' = 0
    /\ exhaustion' = IF d = "peaceful" THEN 0 ELSE exhaustion
    /\ lately' = Fresh
    /\ UNCHANGED <<health, dead, hunger, saturation, mortal, saved>>

Revive ==
    /\ dead
    /\ health' = MaxHealth /\ dead' = FALSE
    /\ hunger' = MaxFoodLevel /\ saturation' = StartSaturation /\ exhaustion' = 0
    /\ regen' = 0 /\ starve' = 0
    /\ saved' = Kept'
    /\ lately' = Fresh
    /\ UNCHANGED <<difficulty, mortal>>

\* ensure_player_loaded: the dead come back to life with the hunger they died of.
LoadedFrom(file) ==
    /\ health' = IF file.health > 0 THEN file.health ELSE MaxHealth
    /\ hunger' = file.hunger /\ saturation' = file.saturation /\ exhaustion' = file.exhaustion
    /\ dead' = FALSE
    /\ regen' = 0 /\ starve' = 0
    /\ saved' = file
    /\ lately' = Fresh
    /\ UNCHANGED <<difficulty, mortal>>

\* Leaving saves the player (proto_play_conn_cleanup).
Rejoin == LoadedFrom(Kept)

\* The server dies between two saves.
CrashJoin == LoadedFrom(saved)
-----------------------------------------------------------------------------
(* tick_natural_regen_and_starvation.                                      *)

\* A timer that should run is started, or comes one tick nearer.
Left(timer, interval) == IF timer = 0 THEN interval ELSE timer - 1

\* Creative, spectator and dead players have no timers.
IdleTick ==
    /\ ~Hungers
    /\ regen' = 0 /\ starve' = 0
    /\ lately' = Observed("none")
    /\ UNCHANGED <<health, dead, hunger, saturation, exhaustion, difficulty, mortal, saved>>

PeacefulTick ==
    /\ Hungers /\ difficulty = "peaceful"
    /\ exhaustion' = 0 /\ starve' = 0
    /\ LET left == Left(regen, PeacefulTicks)
       IN  IF health = MaxHealth
           THEN regen' = 0 /\ lately' = Observed("none") /\ UNCHANGED health
           ELSE IF left = 0
           THEN /\ regen' = PeacefulTicks
                /\ health' = health + 1
                /\ lately' = Observed("regen")
           ELSE regen' = left /\ lately' = Observed("none") /\ UNCHANGED health
    /\ UNCHANGED <<dead, hunger, saturation, difficulty, mortal, saved>>

\* The two halves see the values left by what came before them in the tick:
\* w after the thresholds, r after the regeneration.
HungryTick ==
    /\ Hungers /\ difficulty # "peaceful"
    /\ LET w == Worn(exhaustion)
           heals == health < MaxHealth /\ w.hunger >= RegenFood
           regenLeft == Left(regen, RegenTicks)
           heal == heals /\ regenLeft = 0
           healed == IF heal THEN health + 1 ELSE health
           tired == w.exhaustion + RegenExhaustion
           steps == IF heal THEN tired \div ExhaustionStep ELSE 0
           soaked == Min2(steps, w.saturation)
           food == Clamp(w.hunger - (steps - soaked), MaxFoodLevel)
           starves == food = 0 /\ healed > Floor
           starveLeft == Left(starve, StarveTicks)
           hit == starves /\ starveLeft = 0
       IN  /\ exhaustion' = IF heal THEN tired % ExhaustionStep ELSE w.exhaustion
           /\ saturation' = w.saturation - soaked
           /\ hunger' = food
           /\ IF hit /\ healed = 1
              THEN DieOf("starvation")
              ELSE /\ health' = IF hit THEN healed - 1 ELSE healed
                   /\ regen' = IF ~heals THEN 0 ELSE IF heal THEN RegenTicks ELSE regenLeft
                   /\ starve' = IF ~starves THEN 0 ELSE IF hit THEN StarveTicks ELSE starveLeft
                   /\ lately' = Observed(IF hit THEN "starvation"
                                         ELSE IF heal THEN "regen" ELSE "none")
                   /\ UNCHANGED <<dead, difficulty, mortal, saved>>

SurvivalInit ==
    /\ health = MaxHealth /\ dead = FALSE
    /\ hunger = MaxFoodLevel /\ saturation = StartSaturation /\ exhaustion = 0
    /\ regen = 0 /\ starve = 0
    /\ difficulty = "normal" /\ mortal = TRUE
    /\ saved = Kept
    /\ lately = Fresh

SurvivalNext ==
    \/ Exert \/ Save \/ ChangeGameMode \/ Revive \/ Rejoin \/ CrashJoin
    \/ \E amount \in 1..MaxHealth : Damage(amount)
    \/ \E h \in 0..MaxHealth : SetHealth(h)
    \/ \E level \in 0..MaxFoodLevel : SetHunger(level)
    \/ \E level \in 0..hunger : SetSaturation(level)
    \/ \E e \in 0..MaxExhaustion : SetExhaustion(e)
    \/ \E meal \in Meal : Eat(meal)
    \/ \E d \in Difficulty : SetDifficulty(d)
    \/ IdleTick \/ PeacefulTick \/ HungryTick

SurvivalSpec == SurvivalInit /\ [][SurvivalNext]_survivalVars
-----------------------------------------------------------------------------
SurvivalTypeOK ==
    /\ health \in 0..MaxHealth
    /\ hunger \in 0..MaxFoodLevel
    /\ saturation \in 0..hunger
    /\ exhaustion \in 0..(ExhaustionStep - 1)
    /\ regen \in 0..Longest /\ starve \in 0..StarveTicks
    /\ dead \in BOOLEAN /\ mortal \in BOOLEAN
    /\ dead <=> health = 0
    /\ dead => saved.health = 0
    /\ saved.health \in 0..MaxHealth /\ saved.hunger \in 0..MaxFoodLevel
    /\ saved.saturation \in 0..saved.hunger /\ saved.exhaustion \in 0..(ExhaustionStep - 1)
    /\ difficulty \in Difficulty
    /\ lately \in [hurtFor : 0..Longest, emptyFor : 0..Longest,
                    cause : {"none", "hit", "command", "regen", "starvation"}]

\* Natural regeneration and starvation are earned: a heart comes or goes only
\* after the player was, at each tick of the whole interval of the difficulty
\* now in force, hurt and fed (or starving above that difficulty's floor) in
\* a game mode that hungers; no change of difficulty or game mode, meal,
\* wound, death or rejoin shortens an interval, and starving alone kills on hard only.
HeartsEarned ==
    [][/\ lately'.cause = "regen" /\ health' > health =>
              lately.hurtFor >= (IF difficulty = "peaceful" THEN PeacefulTicks ELSE RegenTicks)
       /\ lately'.cause = "starvation" /\ health' < health =>
              /\ lately.emptyFor >= StarveTicks
              /\ health' = 0 => difficulty = "hard"]_survivalVars
=============================================================================
