------------------------------ MODULE Falling -------------------------------
(***************************************************************************)
(* Fall damage across the wire: a client that moves up and down and sends  *)
(* its height, the server that tracks a fall from those packets            *)
(* (handle_player_movement_update), and teleports (send_sync_position,     *)
(* respawn_player) that move the server's player at once and the client's  *)
(* when the packet gets there, with movement packets of the old place      *)
(* still on their way.  A block has several parts and heights are counted  *)
(* in them, so that a fall may end between whole blocks too: the damage is *)
(* the whole blocks beyond the safe distance, and at least 1.              *)
(***************************************************************************)
EXTENDS Integers, Sequences

CONSTANTS
    Parts,   \* the parts of a block
    Height,  \* bound: the heights, in parts
    Ground,  \* those a player can stand at
    Safe,    \* PLAYER_FALL_SAFE_DISTANCE, in parts
    MaxWire  \* bound: packets under way in one direction (a confirmation counts as one)

ASSUME FallingAssumption ==
    /\ Parts \in Nat \ {0} /\ Height \subseteq Nat /\ Ground \subseteq Height /\ Ground # {}
    /\ Safe \in Nat /\ MaxWire \in Nat \ {0}

VARIABLES
    client,     \* [y, standing, apex]; apex (history): the highest it has been
                \* since it last stood or was teleported
    toServer,   \* movement and teleport confirmations, in order
    toClient,   \* teleports, in order
    y, onGround, tracking, fallStart, \* mc_conn_t: y, on_ground, fall_tracking, fall_start_y
    vulnerable, \* player_can_take_damage
    hurt        \* history: the last landing, [damage, fell, raced]

fallingVars == <<client, toServer, toClient, y, onGround, tracking, fallStart, vulnerable, hurt>>

Higher(a, b) == IF a > b THEN a ELSE b
NoHurt == [damage |-> 0, fell |-> 0, raced |-> FALSE]
-----------------------------------------------------------------------------
(* The client.  A packet says whether it stands and, when it has moved (and  *)
(* otherwise from time to time), where.                                     *)

Move(pos, placed) == [kind |-> "move", placed |-> placed, y |-> pos.y,
                      standing |-> pos.standing, apex |-> pos.apex]

Goes(height, stands) ==
    [y |-> height, standing |-> stands,
     apex |-> IF client.standing THEN Higher(client.y, height) ELSE Higher(client.apex, height)]

ClientMoves(height, stands, placed) ==
    /\ Len(toServer) < MaxWire
    /\ stands => height \in Ground
    /\ placed \/ height = client.y
    /\ client' = Goes(height, stands)
    /\ toServer' = Append(toServer, Move(client', placed))
    /\ UNCHANGED <<toClient, y, onGround, tracking, fallStart, vulnerable, hurt>>

\* A teleport puts the client somewhere else; it confirms and says where it is.
ClientTeleported ==
    /\ toClient # <<>> /\ Len(toServer) < MaxWire
    /\ client' = [y |-> Head(toClient), standing |-> FALSE, apex |-> Head(toClient)]
    /\ toClient' = Tail(toClient)
    /\ toServer' = toServer \o << [kind |-> "confirm"], Move(client', TRUE) >>
    /\ UNCHANGED <<y, onGround, tracking, fallStart, vulnerable, hurt>>
-----------------------------------------------------------------------------
(* The server.                                                             *)

\* A movement packet sent before the client knew of the last teleport: the
\* handler takes it all the same, CONFIRM_TELEPORT guards nothing.
Stale == toClient # <<>> \/ \E i \in DOMAIN toServer : toServer[i].kind = "confirm"

\* Where the player is once the packet is taken.
Taken(p) == IF p.placed THEN p.y ELSE y

\* The whole blocks beyond the safe distance, and at least one heart point.
FallDamage(distance) ==
    IF distance > Safe THEN Higher(1, (distance - Safe) \div Parts) ELSE 0

FallTaken(p) ==
    /\ hurt' = [damage |-> FallDamage(fallStart - y'),
                fell |-> p.apex - p.y, raced |-> hurt.raced]
    /\ tracking' = FALSE
    /\ UNCHANGED fallStart

\* handle_player_movement_update
Moved(p) ==
    /\ p.kind = "move"
    /\ y' = Taken(p) /\ onGround' = p.standing
    /\ \/ /\ ~vulnerable
          /\ tracking' = FALSE
          /\ hurt' = [NoHurt EXCEPT !.raced = Stale]
          /\ UNCHANGED fallStart
       \/ /\ vulnerable /\ ~p.standing
          /\ tracking' = TRUE
          /\ fallStart' = IF ~tracking \/ onGround THEN y' ELSE Higher(fallStart, y')
          /\ hurt' = [NoHurt EXCEPT !.raced = hurt.raced \/ Stale]
       \/ /\ vulnerable /\ p.standing /\ tracking /\ ~onGround
          /\ FallTaken(p)
       \/ /\ vulnerable /\ p.standing /\ ~(tracking /\ ~onGround)
          /\ tracking' = FALSE
          /\ hurt' = [NoHurt EXCEPT !.raced = Stale]
          /\ UNCHANGED fallStart

ServerMoves ==
    /\ toServer # <<>>
    /\ toServer' = Tail(toServer)
    /\ \/ Moved(Head(toServer))
       \/ /\ Head(toServer).kind = "confirm"
          /\ UNCHANGED <<y, onGround, tracking, fallStart, hurt>>
    /\ UNCHANGED <<client, toClient, vulnerable>>

\* Mutant: the fall tracked so far goes on at the new place.
TeleportFalling(height) ==
    /\ Len(toClient) < MaxWire
    /\ toClient' = Append(toClient, height)
    /\ y' = height /\ onGround' = FALSE
    /\ hurt' = NoHurt
    /\ UNCHANGED <<client, toServer, tracking, fallStart, vulnerable>>

\* send_sync_position and reset_fall_tracking: /tp of this or another player, a
\* respawn.
Teleport(height) ==
    /\ Len(toClient) < MaxWire
    /\ toClient' = Append(toClient, height)
    /\ y' = height /\ onGround' = FALSE /\ tracking' = FALSE /\ fallStart' = height
    /\ hurt' = NoHurt
    /\ UNCHANGED <<client, toServer, vulnerable>>

\* /gamemode: tracking stops with the next movement packet, not here.
ChangeVulnerable ==
    /\ vulnerable' = ~vulnerable
    /\ UNCHANGED <<client, toServer, toClient, y, onGround, tracking, fallStart, hurt>>

FallingInit ==
    /\ y = CHOOSE g \in Ground : TRUE
    /\ client = [y |-> y, standing |-> TRUE, apex |-> y]
    /\ toServer = <<>> /\ toClient = <<>>
    /\ onGround = FALSE /\ tracking = FALSE /\ fallStart = y
    /\ vulnerable = TRUE
    /\ hurt = NoHurt

FallingNext ==
    \/ \E height \in Height, stands, placed \in BOOLEAN : ClientMoves(height, stands, placed)
    \/ ClientTeleported
    \/ ServerMoves
    \/ \E height \in Height : Teleport(height)
    \/ ChangeVulnerable

FallingSpec == FallingInit /\ [][FallingNext]_fallingVars
-----------------------------------------------------------------------------
FallingTypeOK ==
    /\ client.y \in Height /\ client.apex \in Height /\ client.standing \in BOOLEAN
    /\ client.apex >= client.y
    /\ Len(toServer) <= MaxWire + 1 /\ Len(toClient) <= MaxWire
    /\ {toClient[i] : i \in DOMAIN toClient} \subseteq Height
    /\ y \in Height /\ fallStart \in Height
    /\ hurt.damage \in Nat

\* A landing hurts only when the client itself, since it last stood or was
\* teleported, fell farther than the safe distance, and for no more than the
\* blocks beyond it (a fall that is less than a block too far counts as one):
\* however many teleports, respawns, mode changes and packets of the old place
\* there are. The one exception is a tracked fall that a packet of the old
\* place, handled after a teleport, has begun or raised.
FallEarned ==
    hurt.damage > 0 /\ ~hurt.raced =>
        /\ hurt.fell > Safe
        /\ Parts * hurt.damage <= Higher(Parts, hurt.fell - Safe)
=============================================================================
