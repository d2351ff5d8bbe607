------------------------------- MODULE Mining -------------------------------
(***************************************************************************)
(* One player digs: the mining session of src/gameplay/mining.c and the    *)
(* START, ABORT and STOP packets of proto_play_handle, against a world     *)
(* that other players change and whose chunks may not be ready, a hand the *)
(* player changes, a game mode a command changes, and a death in between   *)
(* (none of those touches the session).                                    *)
(*                                                                         *)
(* Times are those at which the network thread queued the packets; the     *)
(* session stores started_ms and STOP takes the difference, so the model   *)
(* keeps that difference only: the age of the session, in ticks of TickMs. *)
(***************************************************************************)
EXTENDS Integers

CONSTANTS
    Spot,       \* the block positions that are dug
    Kind,       \* block states other than air
    Air,        \* the air state, which is never dug
    Tool,       \* what the main hand can hold (bare hands included)
    HardnessOf, \* [Kind -> hardness * 100, or Unbreakable]
    NeedsTool,  \* the kinds whose drop needs a matching tool
    SpeedOf,    \* [Tool -> [Kind -> speed * 100 of the tool on that kind]]
    Fits,       \* [Tool -> the kinds it matches with a sufficient tier]
    MaxAge      \* bound: an older session counts as this old (in ticks)

Unbreakable == -1
TickMs == 50
BaseTicks == 30          \* MC_MINING_BASE_DESTROY_TICKS
NoHarvestTicks == 100    \* MC_MINING_BASE_NO_HARVEST_TICKS
GraceMin == 100
GraceMax == 500

ASSUME MiningAssumption ==
    /\ Air \notin Kind /\ Kind # {} /\ Tool # {}
    /\ \A k \in Kind : HardnessOf[k] \in Nat \cup {Unbreakable}
    /\ \A t \in Tool, k \in Kind : SpeedOf[t][k] \in Nat /\ SpeedOf[t][k] >= 100
    /\ MaxAge \in Nat

VARIABLES
    block,    \* [Spot -> Kind \cup {Air}], the world
    hand,     \* the selected item
    creative, \* gamemode == GAMEMODE_CREATIVE
    session,  \* mc_mining_session_t, or NoDig
    dig       \* history: the last dig packet handled and what it did

miningVars == <<block, hand, creative, session, dig>>

NoDig == [active |-> FALSE]
Running == [active : {TRUE}, spot : Spot, kind : Kind, tool : Tool, age : 0..MaxAge,
            required : Nat, harvest : BOOLEAN]
NoPacket == [packet |-> "none", age |-> 0]
Handled == [packet : {"start", "abort", "stop"}, spot : Spot, kind : Kind \cup {Air},
            tool : Tool, creative : BOOLEAN, age : 0..MaxAge,
            result : {"started", "broken", "shown", "acked"}, drop : BOOLEAN]
Least(a, b) == IF a < b THEN a ELSE b
Most(a, b) == IF a > b THEN a ELSE b
-----------------------------------------------------------------------------
(* The rules: integers in milliseconds.                                    *)

Breakable(k) == k \in Kind /\ HardnessOf[k] # Unbreakable
CanHarvest(k, t) == k \in NeedsTool => k \in Fits[t]
Instant(k) == Breakable(k) /\ HardnessOf[k] = 0

\* Hardness over speed in whole ticks, rounded up and at least one.
RequiredMs(k, t) ==
    LET base == IF CanHarvest(k, t) THEN BaseTicks ELSE NoHarvestTicks
        speed == 100 * SpeedOf[t][k]
    IN  IF HardnessOf[k] = 0 THEN 0
        ELSE TickMs * Most(1, (HardnessOf[k] * base * 100 + speed - 1) \div speed)

\* The jitter forgiven at STOP: a twentieth, between two ticks and half a
\* second, and never more than a third of the time itself.
GraceMs(required) ==
    IF required <= TickMs THEN 0
    ELSE Least(required \div 3, Least(GraceMax, Most(GraceMin, required \div 20)))

NeededMs(required) == IF required <= 0 THEN 0 ELSE required - GraceMs(required)

Started(p, k, t) ==
    [active |-> TRUE, spot |-> p, kind |-> k, tool |-> t, age |-> 0,
     required |-> RequiredMs(k, t), harvest |-> CanHarvest(k, t)]

StopAccepted(p) ==
    /\ session.active
    /\ session.spot = p
    /\ session.kind = block[p]
    /\ session.tool = hand
    /\ session.age * TickMs >= NeededMs(session.required)
-----------------------------------------------------------------------------
Dug(packet, p, result, drop) ==
    dig' = [packet |-> packet, spot |-> p, kind |-> block[p], tool |-> hand,
            creative |-> creative, age |-> 0, result |-> result, drop |-> drop]

\* break_block_authoritative: an air block is only shown again.
Break(packet, p, harvest) ==
    /\ block' = [block EXCEPT ![p] = Air]
    /\ Dug(packet, p, IF block[p] = Air THEN "shown" ELSE "broken",
           block[p] # Air /\ harvest)

Reject(packet, p) == Dug(packet, p, "shown", FALSE) /\ UNCHANGED block

\* The block's chunk is not ready: nothing is known of the block, the packet is
\* acknowledged and forgets the session.
DigUnready(packet, p) ==
    /\ session' = NoDig
    /\ Dug(packet, p, "acked", FALSE)
    /\ UNCHANGED <<block, hand, creative>>

\* Mutant: a START that cannot dig leaves the session as it was.
StartDigKeeping(p) ==
    /\ ~creative
    /\ \/ ~Breakable(block[p]) /\ Reject("start", p) /\ UNCHANGED session
       \/ /\ Instant(block[p])
          /\ session' = NoDig
          /\ Break("start", p, CanHarvest(block[p], hand))
       \/ /\ Breakable(block[p]) /\ ~Instant(block[p])
          /\ session' = Started(p, block[p], hand)
          /\ Dug("start", p, "started", FALSE)
          /\ UNCHANGED block
    /\ UNCHANGED <<hand, creative>>

StartDig(p) ==
    /\ ~creative
    /\ \/ /\ ~Breakable(block[p])
          /\ session' = NoDig
          /\ Reject("start", p)
       \/ /\ Instant(block[p])
          /\ session' = NoDig
          /\ Break("start", p, CanHarvest(block[p], hand))
       \/ /\ Breakable(block[p]) /\ ~Instant(block[p])
          /\ session' = Started(p, block[p], hand)
          /\ Dug("start", p, "started", FALSE)
          /\ UNCHANGED block
    /\ UNCHANGED <<hand, creative>>

AbortDig(p) ==
    /\ session' = NoDig
    /\ Reject("abort", p)
    /\ UNCHANGED <<hand, creative>>

StopDig(p) ==
    /\ ~creative
    /\ session' = NoDig
    /\ IF StopAccepted(p) THEN Break("stop", p, session.harvest) ELSE Reject("stop", p)
    /\ UNCHANGED <<hand, creative>>

\* In creative mode START and STOP both break at once.
CreativeDig(packet, p) ==
    /\ creative
    /\ session' = NoDig
    /\ Break(packet, p, TRUE)
    /\ UNCHANGED <<hand, creative>>
-----------------------------------------------------------------------------
(* What happens around the session without touching it.                    *)

HoldTool(t) ==
    /\ t # hand
    /\ hand' = t
    /\ UNCHANGED <<block, creative, session, dig>>

ChangeMode ==
    /\ creative' = ~creative
    /\ UNCHANGED <<block, hand, session, dig>>

\* Another player, or this one's own placement, changes the block.
ChangeBlock(p, k) ==
    /\ k # block[p]
    /\ block' = [block EXCEPT ![p] = k]
    /\ UNCHANGED <<hand, creative, session, dig>>

TimePasses ==
    /\ session.active \/ dig.packet = "start"
    /\ session' = IF session.active
                  THEN [session EXCEPT !.age = Least(MaxAge, @ + 1)] ELSE session
    /\ dig' = [dig EXCEPT !.age = Least(MaxAge, @ + 1)]
    /\ UNCHANGED <<block, hand, creative>>

MiningInit ==
    /\ block = [p \in Spot |-> CHOOSE k \in Kind : TRUE]
    /\ hand = CHOOSE t \in Tool : TRUE
    /\ creative = FALSE
    /\ session = NoDig
    /\ dig = NoPacket

MiningNext ==
    \/ \E p \in Spot : StartDig(p) \/ AbortDig(p) \/ StopDig(p)
    \/ \E p \in Spot, packet \in {"start", "stop"} : CreativeDig(packet, p)
    \/ \E p \in Spot, packet \in {"start", "abort", "stop"} : DigUnready(packet, p)
    \/ \E t \in Tool : HoldTool(t)
    \/ \E p \in Spot, k \in Kind \cup {Air} : ChangeBlock(p, k)
    \/ ChangeMode
    \/ TimePasses

MiningSpec == MiningInit /\ [][MiningNext]_miningVars
-----------------------------------------------------------------------------
MiningTypeOK ==
    /\ block \in [Spot -> Kind \cup {Air}]
    /\ hand \in Tool
    /\ creative \in BOOLEAN
    /\ session \in Running \cup {NoDig}
    /\ session.active => session.required > 0 /\ Breakable(session.kind)
    /\ dig \in Handled \cup {NoPacket}

\* A survival player breaks a block of any hardness by STOP only when the dig
\* packet before it was his own accepted START, in survival mode, for the same
\* position, block and tool, and at least two thirds of the time that block
\* takes with that tool went by in between; the drop comes only when that tool
\* may harvest that block. No other order of starts, aborts, packets for
\* chunks that are not ready, game mode, tool and block changes gets there.
Earned ==
    /\ dig.packet = "start" /\ dig.result = "started" /\ ~dig.creative
    /\ dig.spot = dig'.spot /\ dig.kind = dig'.kind /\ dig.tool = dig'.tool
    /\ 3 * TickMs * dig.age >= 2 * RequiredMs(dig'.kind, dig'.tool)
    /\ dig'.drop => CanHarvest(dig'.kind, dig'.tool)

DigEarned ==
    [][dig'.packet = "stop" /\ dig'.result = "broken" /\ ~dig'.creative
       /\ dig' # dig => Earned]_miningVars
=============================================================================
