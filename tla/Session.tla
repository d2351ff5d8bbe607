------------------------------- MODULE Session ------------------------------
(***************************************************************************)
(* One connection from its first packet to the game: the protocol states,  *)
(* the packets of process_task's five handlers that change them, and the   *)
(* keepalives of proto_play_tick.  The network thread queues the client's  *)
(* packets with the time of their arrival, the tick thread drains the      *)
(* queue and then ticks the connection with the time at which its turn     *)
(* began.  The client is a vanilla one: it follows its own protocol        *)
(* state, sends ahead where it may, and answers or never answers.          *)
(***************************************************************************)
EXTENDS Integers, Sequences, TLC

CONSTANTS
    Interval,  \* KEEPALIVE_INTERVAL_MS
    Timeout,   \* KEEPALIVE_TIMEOUT_MS
    MaxClock,  \* bound: the clock stops here
    MaxQueue   \* bound: packets under way in one direction

ASSUME SessionAssumption ==
    /\ Interval \in Nat \ {0} /\ Timeout \in Nat \ {0}
    /\ MaxClock \in Nat /\ MaxClock >= Interval /\ MaxQueue \in Nat \ {0}

VARIABLES
    state,      \* c->state
    told,       \* login_success_sent, config_known_packs_sent, config_finish_sent, play_init_sent
    ready,      \* play_ready
    deadNow,    \* c->dead
    closed,     \* "no", or why c->closing is set
    keepalive,  \* [awaiting, id, last]: awaiting_keepalive, keepalive_id, last_keepalive_sent_ms
    tasks,      \* the task queue
    batch,      \* the drained part that is still to be handled
    turn,       \* the tick thread: [phase, now], now the time its turn began
    wire,       \* the packets under way to the client
    peer,       \* the client's own protocol state, or "gone"
    clock,
    answered    \* history: when the answer to keepalive.id was queued, or -1

sessionVars == <<state, told, ready, deadNow, closed, keepalive, tasks, batch, turn,
                 wire, peer, clock, answered>>
connection == <<state, told, ready, deadNow, closed, keepalive, wire>>
Never == -1

States == {"handshaking", "status", "login", "configuration", "play"}
Steps == {"finished", "packs", "finish", "initial"}
-----------------------------------------------------------------------------
(* What the server writes: the packet's own protocol state and its name.   *)

Packet(of, name, id) == [of |-> of, name |-> name, id |-> id]
Write(packets) == wire' = wire \o packets

Fails(why) == closed' = why /\ UNCHANGED <<state, told, ready, deadNow, keepalive, wire>>
Ignored == UNCHANGED <<state, told, ready, deadNow, closed, keepalive, wire>>

\* proto_handle_handshake
Handshake(p) ==
    IF p.name = "intention"
    THEN /\ state' = p.next
         /\ UNCHANGED <<told, ready, deadNow, closed, keepalive, wire>>
    ELSE Fails("error")

\* proto_handle_status: the ping is answered and the connection closed.
Status(p) ==
    \/ /\ p.name = "request"
       /\ Write(<<Packet("status", "response", 0)>>)
       /\ UNCHANGED <<state, told, ready, deadNow, closed, keepalive>>
    \/ /\ p.name = "ping"
       /\ Write(<<Packet("status", "pong", 0)>>)
       /\ closed' = "done"
       /\ UNCHANGED <<state, told, ready, deadNow, keepalive>>
    \/ p.name \notin {"request", "ping"} /\ Fails("error")

\* proto_handle_login
Login(p) ==
    \/ /\ p.name = "hello"
       /\ told' = told \cup {"finished"}
       /\ Write(<<Packet("login", "finished", 0)>>)
       /\ UNCHANGED <<state, ready, deadNow, closed, keepalive>>
    \/ /\ p.name = "acknowledged" /\ "finished" \in told
       /\ state' = "configuration"
       /\ told' = told \cup {"packs"}
       /\ Write(IF "packs" \in told THEN <<>> ELSE <<Packet("configuration", "packs", 0)>>)
       /\ UNCHANGED <<ready, deadNow, closed, keepalive>>
    \/ p.name = "acknowledged" /\ "finished" \notin told /\ Fails("error")
    \/ p.name \notin {"hello", "acknowledged"} /\ Ignored

\* proto_config_handle; registries and tags are sent before the end of the
\* configuration is (or cannot be read: a disconnect and an error).
Configuration(p) ==
    \/ /\ p.name = "packs"
       /\ \/ /\ told' = told \cup {"finish"}
             /\ Write(<<Packet("configuration", "registry", 0), Packet("configuration", "tags", 0)>>
                      \o IF "finish" \in told THEN <<>>
                         ELSE <<Packet("configuration", "finish", 0)>>)
             /\ UNCHANGED <<state, ready, deadNow, closed, keepalive>>
          \/ /\ closed' = "error"
             /\ Write(<<Packet("configuration", "disconnect", 0)>>)
             /\ UNCHANGED <<state, told, ready, deadNow, keepalive>>
    \/ /\ p.name = "finish" /\ "finish" \in told
       /\ state' = "play"
       /\ told' = told \cup {"initial"}
       /\ Write(<<Packet("play", "initial", 0)>>)
       /\ UNCHANGED <<ready, deadNow, closed, keepalive>>
    \/ p.name = "finish" /\ "finish" \notin told /\ Fails("error")
    \/ p.name \notin {"packs", "finish"} /\ Ignored

\* Mutant: not from a dead player, whose packets are dropped.
AnsweredAlive(p) ==
    /\ keepalive' = IF ~deadNow /\ keepalive.awaiting /\ p.id = keepalive.id
                    THEN [keepalive EXCEPT !.awaiting = FALSE, !.last = p.at]
                    ELSE keepalive
    /\ UNCHANGED <<state, told, ready, deadNow, closed, wire>>

\* KEEPALIVE: only the answer to the last one counts, from the time it was queued.
Answered(p) ==
    /\ keepalive' = IF keepalive.awaiting /\ p.id = keepalive.id
                    THEN [keepalive EXCEPT !.awaiting = FALSE, !.last = p.at]
                    ELSE keepalive
    /\ UNCHANGED <<state, told, ready, deadNow, closed, wire>>

\* proto_play_handle: the confirmation, the answer and the respawn come before
\* the check that drops a dead player's packets.
Play(p) ==
    \/ /\ p.name = "confirm"
       /\ ready' = TRUE
       /\ UNCHANGED <<state, told, deadNow, closed, keepalive, wire>>
    \/ p.name = "alive" /\ Answered(p)
    \/ /\ p.name = "respawn"
       /\ deadNow' = FALSE
       /\ Write(IF deadNow THEN <<Packet("play", "respawn", 0)>> ELSE <<>>)
       /\ UNCHANGED <<state, told, ready, closed, keepalive>>
    \/ /\ p.name = "fall"
       /\ deadNow' = TRUE
       /\ Write(IF deadNow THEN <<>> ELSE <<Packet("play", "death", 0)>>)
       /\ UNCHANGED <<state, told, ready, closed, keepalive>>
    \/ p.name \notin {"confirm", "alive", "respawn", "fall"} /\ Ignored
-----------------------------------------------------------------------------
(* The tick thread: its turn begins at a time it keeps, drains the queue,   *)
(* handles what it drained, and ticks the connection.                      *)

Idle == turn.phase = "idle"

TurnBegins ==
    /\ Idle
    /\ turn' = [phase |-> "begun", now |-> clock]
    /\ UNCHANGED <<connection, tasks, batch, peer, clock, answered>>

\* mc_task_queue_drain
Drain ==
    /\ turn.phase = "begun"
    /\ turn' = [turn EXCEPT !.phase = "handle"]
    /\ batch' = tasks /\ tasks' = <<>>
    /\ UNCHANGED <<connection, peer, clock, answered>>

\* process_task: a closing connection's packets are dropped.
ProcessTask ==
    /\ turn.phase = "handle" /\ batch # <<>>
    /\ batch' = Tail(batch)
    /\ LET p == Head(batch)
       IN  IF closed # "no" THEN Ignored
           ELSE \/ state = "handshaking" /\ Handshake(p)
                \/ state = "status" /\ Status(p)
                \/ state = "login" /\ Login(p)
                \/ state = "configuration" /\ Configuration(p)
                \/ state = "play" /\ Play(p)
    /\ UNCHANGED <<tasks, turn, peer, clock, answered>>

\* Mutant: everyone who is not closing gets the news.
BroadcastToAll ==
    /\ turn.phase = "handle"
    /\ closed = "no"
    /\ Len(wire) < MaxQueue
    /\ Write(<<Packet("play", "news", 0)>>)
    /\ UNCHANGED <<state, told, ready, deadNow, closed, keepalive, tasks, batch, turn, peer,
                   clock, answered>>

\* Another player's turn changes the difficulty, the blocks or the items:
\* net_server_broadcast_difficulty and the broadcasts to ready connections.
Broadcast ==
    /\ turn.phase = "handle"
    /\ closed = "no" /\ state = "play" /\ ("initial" \in told \/ ready)
    /\ Len(wire) < MaxQueue
    /\ Write(<<Packet("play", "news", 0)>>)
    /\ UNCHANGED <<state, told, ready, deadNow, closed, keepalive, tasks, batch, turn, peer,
                   clock, answered>>

\* The keepalive of proto_play_tick.
KeepaliveTick(now) ==
    \/ /\ keepalive.awaiting /\ now - keepalive.last > Timeout
       /\ closed' = "timeout"
       /\ Write(<<Packet("play", "disconnect", 0)>>)
       /\ UNCHANGED <<keepalive, answered>>
    \/ /\ ~keepalive.awaiting /\ now - keepalive.last >= Interval
       /\ keepalive' = [awaiting |-> TRUE, id |-> now, last |-> now]
       /\ answered' = Never
       /\ Write(<<Packet("play", "alive", now)>>)
       /\ UNCHANGED closed
    \/ /\ IF keepalive.awaiting THEN now - keepalive.last <= Timeout
          ELSE now - keepalive.last < Interval
       /\ UNCHANGED <<closed, keepalive, wire, answered>>

TurnEnds ==
    /\ turn.phase = "handle" /\ batch = <<>>
    /\ turn' = [phase |-> "idle", now |-> 0]
    /\ IF state = "play" /\ closed = "no" /\ "initial" \in told
       THEN KeepaliveTick(turn.now)
       ELSE UNCHANGED <<closed, keepalive, wire, answered>>
    /\ UNCHANGED <<state, told, ready, deadNow, tasks, batch, peer, clock>>
-----------------------------------------------------------------------------
(* The client and the network thread, which queues what it reads at once.   *)

Queue(packets) == tasks' = tasks \o packets
Says(name) == [name |-> name]
Room == Len(tasks) + Len(batch) < MaxQueue

\* What it sends without being asked; hello once, right behind the intention.
Speak(name) ==
    /\ Room /\ Len(wire) < MaxQueue
    /\ \/ /\ peer = "handshaking" /\ name \in {"status", "login"}
          /\ peer' = name
          /\ Queue(<<[name |-> "intention", next |-> name]>>
                   \o IF name = "login" THEN <<Says("hello")>> ELSE <<>>)
       \/ /\ peer = "status" /\ name \in {"request", "ping"}
          /\ Queue(<<Says(name)>>) /\ UNCHANGED peer
       \/ /\ peer = "play" /\ name \in {"fall", "respawn"}
          /\ Queue(<<Says(name)>>) /\ UNCHANGED peer
    /\ UNCHANGED <<connection, batch, turn, clock, answered>>

\* A client that is no vanilla one sends a packet out of turn; what it makes
\* of the answers is its own affair.
Babble(name) ==
    /\ Room /\ peer # "gone"
    /\ Queue(<<Says(name)>>)
    /\ peer' = "gone"
    /\ UNCHANGED <<connection, batch, turn, clock, answered>>

\* It reads a packet and answers the one that asks for it.
Answer(p) ==
    CASE p.name = "finished" -> <<Says("acknowledged")>>
      [] p.name = "packs" -> <<Says("packs")>>
      [] p.name = "finish" -> <<Says("finish")>>
      [] p.name = "initial" -> <<Says("confirm")>>
      [] p.name = "alive" -> <<[name |-> "alive", id |-> p.id, at |-> clock]>>
      [] OTHER -> <<>>

Becomes(p) ==
    CASE p.name = "finished" -> "configuration"
      [] p.name = "finish" -> "play"
      [] p.name \in {"pong", "disconnect"} -> "gone"
      [] OTHER -> peer

\* A client that hangs reads on without answering keepalives.
Hear(hangs) ==
    /\ wire # <<>> /\ Room /\ peer # "gone"
    /\ wire' = Tail(wire)
    /\ peer' = Becomes(Head(wire))
    /\ Queue(IF hangs THEN <<>> ELSE Answer(Head(wire)))
    /\ hangs => Head(wire).name = "alive"
    /\ answered' = IF ~hangs /\ Head(wire).name = "alive" /\ Head(wire).id = keepalive.id
                   THEN clock ELSE answered
    /\ UNCHANGED <<state, told, ready, deadNow, closed, keepalive, batch, turn, clock>>

ClockTicks ==
    /\ clock < MaxClock
    /\ clock' = clock + 1
    /\ UNCHANGED <<connection, tasks, batch, turn, peer, answered>>

SessionInit ==
    /\ state = "handshaking" /\ told = {} /\ ready = FALSE /\ deadNow = FALSE
    /\ closed = "no"
    /\ keepalive = [awaiting |-> FALSE, id |-> 0, last |-> 0]
    /\ tasks = <<>> /\ batch = <<>> /\ wire = <<>>
    /\ turn = [phase |-> "idle", now |-> 0]
    /\ peer = "handshaking"
    /\ clock = Interval
    /\ answered = Never

SessionNext ==
    \/ TurnBegins \/ Drain \/ ProcessTask \/ Broadcast \/ TurnEnds \/ ClockTicks
    \/ \E name \in {"status", "login", "request", "ping", "fall", "respawn"} : Speak(name)
    \/ \E name \in {"hello", "acknowledged", "finish", "packs", "ping"} : Babble(name)
    \/ \E hangs \in BOOLEAN : Hear(hangs)

SessionSpec == SessionInit /\ [][SessionNext]_sessionVars
-----------------------------------------------------------------------------
SessionTypeOK ==
    /\ state \in States /\ peer \in States \cup {"gone"}
    /\ told \subseteq Steps
    /\ closed \in {"no", "done", "error", "timeout"}
    /\ keepalive.awaiting \in BOOLEAN /\ keepalive.id \in 0..MaxClock /\ keepalive.last \in 0..MaxClock
    /\ turn.phase \in {"idle", "begun", "handle"}
    /\ ready => "initial" \in told
    /\ "initial" \in told <=> state = "play"

\* A vanilla client, which may send ahead, never gets a packet of another
\* protocol state than the one it is in, whatever the server writes to it
\* from its handlers, its tick and other players' broadcasts.
ProtocolAgrees ==
    wire # <<>> /\ peer # "gone" => Head(wire).of = peer

\* No connection is closed for its silence when the answer to the last
\* keepalive was queued in time: however late the tick thread handles
\* it, alive or dead, and whatever is queued before it.
KeepaliveFair ==
    [][closed' = "timeout" /\ closed = "no" =>
           answered = Never \/ answered > keepalive.last + Timeout]_sessionVars
=============================================================================
