------------------------------ MODULE Entities -------------------------------
(***************************************************************************)
(* What players see of each other and of the items on the ground           *)
(* (server.c, play.c).  The tick thread spawns and destroys items, lets     *)
(* players die and respawn, and after every tick tells each player of a    *)
(* snapshot about every other.  The network thread numbers new players and *)
(* takes those who leave out of the others' tables.  Both touch            *)
(* next_entity_id and the tables, and not always under conns_lock.         *)
(*                                                                         *)
(* One action is what a thread does between two points where the other one *)
(* can see a difference; taking one player out of one table is one step.   *)
(* Packets reach a client in order, so what a client shows changes when    *)
(* the server writes; out of memory is left out.                           *)
(***************************************************************************)
EXTENDS Integers, Sequences, FiniteSets, SequencesExt

CONSTANTS
    Conn,        \* connections, each made at most once
    Veterans,    \* those that have joined when the behaviour starts
    MaxItems,    \* bound: drops
    MaxDeaths,   \* bound: deaths
    Size,        \* goods in a drop
    Leavers,     \* connections that may end
    SaveFails,   \* whether saving a player may fail
    NoConn, Nothing

ASSUME EntitiesAssumption ==
    /\ Veterans \subseteq Conn /\ Leavers \subseteq Conn /\ IsFiniteSet(Conn)
    /\ MaxItems \in Nat /\ MaxDeaths \in Nat /\ Size \in Nat \ {0}
    /\ SaveFails \in BOOLEAN /\ NoConn \notin Conn
    /\ Nothing \notin [player : Conn] \cup [item : 1 .. MaxItems, left : 0 .. Size]

VARIABLES
    nextId,    \* s->next_entity_id
    id,        \* c->entity_id
    conns,     \* s->conns, head first
    after,     \* c->next of connections taken out of the list under a walk
    phase,     \* "none", "early" (before PLAY), "play", "ready" (play_ready)
    closing,   \* c->closing
    dead,      \* connections whose player is dead
    freed,     \* connections whose last reference is gone
    table,     \* table[v]: v->remote_players
    ground,    \* s->item_entities
    drops, deaths, \* how many there have been
    seen,      \* seen[v][i]: what the client of v shows under entity id i
    tab,       \* tab[v]: the player list of the client of v
    lock,      \* conns_lock: "free", "net" or "tick"
    netPc, netConn, netId, told,   \* the network thread: the connection it makes or closes
    tickPc, snapshot, turn, held, walker, hand, \* the tick thread
    raced,     \* history: things numbered while the other thread was doing so
    strayed,   \* history: (v, s): s was shown to v after s had been taken out of v's table
    forgot,    \* history: (v, s): v respawned, and has not been told of s since
    crossed,   \* history: players whose table changed under a sync
    spoiled,   \* history: items whose pick-up could not be saved
    wild       \* history: freed memory has been read

serverVars  == << nextId, id, conns, after, phase, closing, dead, freed, table, ground, drops,
                  deaths >>
clientVars  == << seen, tab >>
netVars     == << netPc, netConn, netId, told >>
tickVars    == << tickPc, snapshot, turn, held, walker, hand >>
historyVars == << raced, strayed, forgot, crossed, spoiled, wild >>
vars == << serverVars, clientVars, lock, netVars, tickVars, historyVars >>

Items  == 1 .. MaxItems
Ids    == 1 .. Cardinality(Conn) + MaxItems
NoId   == -1
Entry  == [id : Ids, listed : BOOLEAN, spawned : BOOLEAN]
Ground == [id : Ids, item : Items, left : 0 .. Size]
Player(c)   == [player |-> c]
Item(g)     == [item |-> g.item, left |-> g.left]
Shown  == [player : Conn] \cup [item : Items, left : 0 .. Size] \cup {Nothing}

TypeOK ==
    /\ nextId - 1 \in Ids \cup {0} /\ id \in [Conn -> Ids \cup {0}]
    /\ conns \in Seq(Conn) /\ after \in [Conn -> Conn \cup {NoConn}]
    /\ phase \in [Conn -> {"none", "early", "play", "ready"}]
    /\ closing \in [Conn -> BOOLEAN] /\ dead \subseteq Conn /\ freed \subseteq Conn
    /\ table \in [Conn -> Seq(Entry)] /\ ground \in Seq(Ground)
    /\ drops \in 0 .. MaxItems /\ deaths \in 0 .. MaxDeaths
    /\ seen \in [Conn -> [Ids -> Shown]] /\ tab \in [Conn -> SUBSET Conn]
    /\ lock \in {"free", "net", "tick"}
    /\ netPc \in {"idle", "number", "link", "unsee", "unlink", "shut"}
    /\ netConn \in Conn \cup {NoConn} /\ netId \in Ids \cup {NoId} /\ told \subseteq Conn
    /\ tickPc \in {"tasks", "spawn", "turns", "count", "walk", "items", "sync", "list", "show",
                   "clear"}
    /\ snapshot \in Seq(Conn) /\ turn \in Nat
    /\ held \in [at : Nat, listed : BOOLEAN, spawned : BOOLEAN]
    /\ walker \in Conn \cup {NoConn} /\ hand \in Ids \cup {NoId}
    /\ raced \subseteq Conn \cup Items /\ strayed \subseteq Conn \X Conn
    /\ forgot \subseteq Conn \X Conn /\ crossed \subseteq Conn /\ spoiled \subseteq Items
    /\ wild \in BOOLEAN

NoEntry == [at |-> 0, listed |-> FALSE, spawned |-> FALSE]

\* A server with some players who have been told of each other, and others
\* yet to come.
Init ==
    \E order \in SetToSeqs(Veterans) :
        LET number(c) == CHOOSE i \in DOMAIN order : order[i] = c
            known(v) == RemoveFirst(order, v)
        IN
        /\ nextId = Len(order) + 1
        /\ id = [c \in Conn |-> IF c \in Veterans THEN number(c) ELSE 0]
        /\ conns = Reverse(order) /\ after = [c \in Conn |-> NoConn]
        /\ phase = [c \in Conn |-> IF c \in Veterans THEN "ready" ELSE "none"]
        /\ closing = [c \in Conn |-> FALSE] /\ dead = {} /\ freed = {}
        /\ table = [v \in Conn |-> IF v \in Veterans
                       THEN [i \in DOMAIN known(v) |->
                               [id |-> number(known(v)[i]), listed |-> TRUE, spawned |-> TRUE]]
                       ELSE << >>]
        /\ ground = << >> /\ drops = 0 /\ deaths = 0
        /\ seen = [v \in Conn |-> [i \in Ids |->
                       IF v \in Veterans /\ i \in DOMAIN order /\ order[i] # v
                       THEN Player(order[i]) ELSE Nothing]]
        /\ tab = [v \in Conn |-> IF v \in Veterans THEN Veterans \ {v} ELSE {}]
        /\ lock = "free" /\ netPc = "idle" /\ netConn = NoConn /\ netId = NoId /\ told = {}
        /\ tickPc = "tasks" /\ snapshot = << >> /\ turn = 1 /\ held = NoEntry
        /\ walker = NoConn /\ hand = NoId
        /\ raced = {} /\ strayed = {} /\ forgot = {} /\ crossed = {} /\ spoiled = {}
        /\ wild = FALSE

Listed(c) == c \in Range(conns)
InPlay(c) == phase[c] \in {"play", "ready"}
Live(c)   == phase[c] # "none" /\ c \notin freed
\* The check of every broadcast about entities.
Reached(c) == ~closing[c] /\ phase[c] = "ready"

\* What is left of c when its last reference is gone.
Free(gone) ==
    /\ freed' = freed \cup gone
    /\ table' = [c \in Conn |-> IF c \in gone THEN << >> ELSE table[c]]
    /\ seen' = [c \in Conn |-> IF c \in gone THEN [i \in Ids |-> Nothing] ELSE seen[c]]
    /\ tab' = [c \in Conn |-> IF c \in gone THEN {} ELSE tab[c]]

\* The index in v's table of the entry for an entity id, 0 if there is none
\* (remote_player_get).
At(v, i) == IF \E k \in DOMAIN table[v] : table[v][k].id = i
            THEN CHOOSE k \in DOMAIN table[v] :
                   table[v][k].id = i /\ \A j \in 1 .. k - 1 : table[v][j].id # i
            ELSE 0

\* remote_player_remove_local: the last entry takes the place of the removed.
Without(t, k) == LET n == Len(t) IN [i \in 1 .. n - 1 |-> IF i = k THEN t[n] ELSE t[i]]

\* The pairs of the sync loop, in its order.
Viewer(t)  == snapshot[((t - 1) \div Len(snapshot)) + 1]
Subject(t) == snapshot[((t - 1) % Len(snapshot)) + 1]

-----------------------------------------------------------------------------
(* The network thread.                                                     *)

\* conn_create: next_entity_id++ in two steps, then the list.
Number(c) ==
    /\ netPc = "idle" /\ phase[c] = "none"
    /\ netPc' = "number" /\ netConn' = c /\ netId' = nextId
    /\ UNCHANGED << serverVars, clientVars, lock, told, tickVars, historyVars >>

\* Mistake: the number stays the next one.
NumberedAgain ==
    /\ netPc = "number"
    /\ nextId' = netId
    /\ id' = [id EXCEPT ![netConn] = netId]
    /\ raced' = IF nextId # netId \/ hand # NoId THEN raced \cup {netConn} ELSE raced
    /\ netPc' = "link" /\ netId' = NoId
    /\ UNCHANGED << conns, after, phase, closing, dead, freed, table, ground, drops, deaths,
                    clientVars, lock, netConn, told, tickVars, strayed, forgot, crossed,
                    spoiled, wild >>

Numbered ==
    /\ netPc = "number"
    /\ nextId' = netId + 1
    /\ id' = [id EXCEPT ![netConn] = netId]
    /\ raced' = IF nextId # netId \/ hand # NoId THEN raced \cup {netConn} ELSE raced
    /\ netPc' = "link" /\ netId' = NoId
    /\ UNCHANGED << conns, after, phase, closing, dead, freed, table, ground, drops, deaths,
                    clientVars, lock, netConn, told, tickVars, strayed, forgot, crossed,
                    spoiled, wild >>

Link ==
    /\ netPc = "link" /\ lock = "free"
    /\ conns' = << netConn >> \o conns
    /\ phase' = [phase EXCEPT ![netConn] = "early"]
    /\ netPc' = "idle" /\ netConn' = NoConn
    /\ UNCHANGED << nextId, id, after, closing, dead, freed, table, ground, drops, deaths,
                    clientVars, lock, netId, told, tickVars, historyVars >>

\* server_close_conn, for a client that left or a connection given up.
CloseConn(c) ==
    /\ netPc = "idle" /\ Listed(c) /\ c \in Leavers
    /\ netConn' = c
    /\ IF InPlay(c)
       THEN lock = "free" /\ lock' = "net" /\ netPc' = "unsee" /\ told' = {c}
       ELSE netPc' = "unlink" /\ UNCHANGED << lock, told >>
    /\ UNCHANGED << serverVars, clientVars, netId, tickVars, historyVars >>

Hide(f, i) == [f EXCEPT ![i] = Nothing]

\* The network thread changes a table while the tick thread holds an entry of
\* it.
Crossed(v) == IF held.at # 0 /\ Viewer(turn) = v THEN crossed \cup {v} ELSE crossed

\* Mistake: only the entity is taken away.
RemoveEntity(v, s) ==
    LET k == At(v, id[s])
    IN  IF k = 0 THEN UNCHANGED << table, clientVars, crossed >>
        ELSE /\ seen' = IF table[v][k].spawned
                        THEN [seen EXCEPT ![v] = Hide(@, id[s])] ELSE seen
             /\ table' = [table EXCEPT ![v] = Without(@, k)]
             /\ crossed' = Crossed(v)
             /\ UNCHANGED tab

\* proto_play_remove_remote_player(v, s).
RemoveRemote(v, s) ==
    LET k == At(v, id[s])
    IN  IF k = 0 THEN UNCHANGED << table, clientVars, crossed >>
        ELSE /\ seen' = IF table[v][k].spawned
                        THEN [seen EXCEPT ![v] = Hide(@, id[s])] ELSE seen
             /\ tab' = IF table[v][k].listed THEN [tab EXCEPT ![v] = @ \ {s}] ELSE tab
             /\ table' = [table EXCEPT ![v] = Without(@, k)]
             /\ crossed' = Crossed(v)

\* The places in the list the loop over the viewers has not come to.
Untold == {k \in DOMAIN conns : conns[k] \notin told}

Unsee ==
    /\ netPc = "unsee"
    /\ IF Untold = {}
       THEN /\ lock' = "free" /\ netPc' = "unlink"
            /\ UNCHANGED << told, table, clientVars, crossed >>
       ELSE LET v == conns[Min(Untold)]
            IN  /\ told' = told \cup {v}
                /\ IF closing[v] \/ ~InPlay(v)
                   THEN UNCHANGED << table, clientVars, crossed >>
                   ELSE RemoveRemote(v, netConn)
                /\ UNCHANGED << lock, netPc >>
    /\ UNCHANGED << nextId, id, conns, after, phase, closing, dead, freed, ground, drops,
                    deaths, netConn, netId, tickVars, raced, strayed, forgot, spoiled, wild >>

NextOf(c) == IF ~Listed(c) THEN after[c]
             ELSE LET k == CHOOSE k \in DOMAIN conns : conns[k] = c
                  IN  IF k = Len(conns) THEN NoConn ELSE conns[k + 1]

Unlink ==
    /\ netPc = "unlink" /\ lock = "free"
    /\ after' = IF tickPc = "walk" THEN [after EXCEPT ![netConn] = NextOf(netConn)] ELSE after
    /\ conns' = RemoveFirst(conns, netConn)
    /\ netPc' = "shut"
    /\ UNCHANGED << nextId, id, phase, closing, dead, freed, table, ground, drops, deaths,
                    clientVars, lock, netConn, netId, told, tickVars, historyVars >>

\* close, c->closing, and the reference of the list.
Shut ==
    /\ netPc = "shut"
    /\ closing' = [closing EXCEPT ![netConn] = TRUE]
    /\ Free(IF netConn \in Range(snapshot) THEN {} ELSE {netConn})
    /\ netPc' = "idle" /\ netConn' = NoConn /\ told' = {}
    /\ UNCHANGED << nextId, id, conns, after, phase, dead, ground, drops, deaths, lock, netId,
                    tickVars, historyVars >>

Net ==
    \/ \E c \in Conn : Number(c) \/ CloseConn(c)
    \/ Numbered \/ Link \/ Unsee \/ Unlink \/ Shut

-----------------------------------------------------------------------------
(* The tick thread: packets.                                               *)

Taken(c) == tickPc = "tasks" /\ Live(c) /\ ~closing[c]

\* What a client shows once all of the ground has been sent to it.
WithGround(f) ==
    [i \in Ids |->
       IF \E k \in DOMAIN ground : ground[k].id = i
       THEN LET k == CHOOSE k \in DOMAIN ground :
                       ground[k].id = i /\ \A j \in DOMAIN ground : ground[j].id = i => j <= k
            IN  Item(ground[k])
       ELSE f[i]]

Join(c) ==
    /\ Taken(c) /\ phase[c] = "early"
    /\ phase' = [phase EXCEPT ![c] = "play"]
    /\ UNCHANGED << nextId, id, conns, after, closing, dead, freed, table, ground, drops,
                    deaths, clientVars, lock, netVars, tickVars, historyVars >>

\* CONFIRM_TELEPORT, and net_server_sync_item_entities_to_conn.
Confirm(c) ==
    /\ Taken(c) /\ phase[c] = "play" /\ lock = "free"
    /\ phase' = [phase EXCEPT ![c] = "ready"]
    /\ seen' = [seen EXCEPT ![c] = WithGround(@)]
    /\ UNCHANGED << nextId, id, conns, after, closing, dead, freed, table, ground, drops,
                    deaths, tab, lock, netVars, tickVars, historyVars >>

\* Any packet whose handler fails.
Fail(c) ==
    /\ Taken(c) /\ c \in Leavers
    /\ closing' = [closing EXCEPT ![c] = TRUE]
    /\ UNCHANGED << nextId, id, conns, after, phase, dead, freed, table, ground, drops, deaths,
                    clientVars, lock, netVars, tickVars, historyVars >>

\* A packet about the entity i for everybody in the list.
Told(i, what) ==
    [c \in Conn |-> IF Listed(c) /\ Reached(c) THEN [seen[c] EXCEPT ![i] = what] ELSE seen[c]]

\* A drop by the player or a broken block: net_server_spawn_item_drop takes
\* the lock and the next number.
Drop(c) ==
    /\ Taken(c) /\ InPlay(c) /\ c \notin dead
    /\ drops < MaxItems /\ lock = "free"
    /\ lock' = "tick" /\ tickPc' = "spawn" /\ hand' = nextId
    /\ UNCHANGED << serverVars, clientVars, netVars, snapshot, turn, held, walker, historyVars >>

\* Death by a fall or a command: what the player had is dropped as above.
Die(c) ==
    /\ Taken(c) /\ InPlay(c) /\ c \notin dead /\ deaths < MaxDeaths
    /\ dead' = dead \cup {c} /\ deaths' = deaths + 1
    /\ \/ UNCHANGED << lock, tickPc, hand >>
       \/ /\ drops < MaxItems /\ lock = "free"
          /\ lock' = "tick" /\ tickPc' = "spawn" /\ hand' = nextId
    /\ UNCHANGED << nextId, id, conns, after, phase, closing, freed, table, ground, drops,
                    clientVars, netVars, snapshot, turn, held, walker, historyVars >>

\* respawn_player forgets whom the client has been told of; whether the
\* client drops its entities depends on the client.
Respawn(c) ==
    /\ Taken(c) /\ c \in dead /\ lock = "free"
    /\ dead' = dead \ {c}
    /\ table' = [table EXCEPT ![c] = << >>]
    /\ \E kept \in {seen[c], [i \in Ids |-> Nothing]} :
         seen' = [seen EXCEPT ![c] = IF phase[c] = "ready" THEN WithGround(kept) ELSE kept]
    /\ forgot' = forgot \cup {<< c, s >> : s \in tab[c] \cup {d \in Conn : Player(d) \in Range(seen[c])}}
    /\ UNCHANGED << nextId, id, conns, after, phase, closing, freed, ground, drops, deaths, tab,
                    lock, netVars, tickVars, raced, strayed, crossed, spoiled, wild >>

\* Mistake: an item takes two numbers.
PlacedTwice ==
    /\ nextId' = hand + 2 /\ hand' = NoId
    /\ drops' = drops + 1
    /\ ground' = Append(ground, [id |-> hand, item |-> drops + 1, left |-> Size])
    /\ raced' = IF nextId # hand \/ netPc = "number" THEN raced \cup {drops + 1} ELSE raced

\* next_entity_id++ is over; the new item.
Placed ==
    /\ nextId' = hand + 1 /\ hand' = NoId
    /\ drops' = drops + 1
    /\ ground' = Append(ground, [id |-> hand, item |-> drops + 1, left |-> Size])
    /\ raced' = IF nextId # hand \/ netPc = "number" THEN raced \cup {drops + 1} ELSE raced

Spawned ==
    /\ tickPc = "spawn"
    /\ Placed
    /\ seen' = Told(hand, Item(Last(ground')))
    /\ lock' = "free" /\ tickPc' = "tasks"
    /\ UNCHANGED << id, conns, after, phase, closing, dead, freed, table, deaths, tab, netVars,
                    snapshot, turn, held, walker, strayed, forgot, crossed, spoiled, wild >>

Packet(c) ==
    Join(c) \/ Confirm(c) \/ Fail(c) \/ Drop(c) \/ Die(c) \/ Respawn(c)

-----------------------------------------------------------------------------
(* The tick thread: the rest of a tick.                                    *)

\* server_snapshot_conns.
Snapshot ==
    /\ tickPc = "tasks" /\ lock = "free"
    /\ snapshot' = conns /\ turn' = 1 /\ tickPc' = "turns"
    /\ UNCHANGED << serverVars, clientVars, lock, netVars, held, walker, hand, historyVars >>

\* proto_play_tick of the next connection for which it does something here: a
\* keepalive timeout, or a death by hunger or the void, which drops as if
\* conns_lock were held.
Turn ==
    /\ tickPc = "turns"
    /\ \E t \in turn .. Len(snapshot) :
         LET c == snapshot[t]
         IN  /\ InPlay(c) /\ ~closing[c]
             /\ turn' = t + 1
             /\ \/ /\ c \in Leavers
                   /\ closing' = [closing EXCEPT ![c] = TRUE]
                   /\ UNCHANGED << dead, deaths, tickPc, hand >>
                \/ /\ c \notin dead /\ deaths < MaxDeaths
                   /\ dead' = dead \cup {c} /\ deaths' = deaths + 1
                   /\ \/ UNCHANGED << tickPc, hand >>
                      \/ drops < MaxItems /\ tickPc' = "count" /\ hand' = nextId
                   /\ UNCHANGED closing
    /\ UNCHANGED << nextId, id, conns, after, phase, freed, table, ground, drops, clientVars,
                    lock, netVars, snapshot, held, walker, historyVars >>

Counted ==
    /\ tickPc = "count"
    /\ Placed
    /\ tickPc' = "walk"
    /\ walker' = IF conns = << >> THEN NoConn ELSE Head(conns)
    /\ UNCHANGED << id, conns, after, phase, closing, dead, freed, table, deaths, clientVars,
                    lock, netVars, snapshot, turn, held, strayed, forgot, crossed, spoiled,
                    wild >>

\* The broadcast of that item, along a list that may change under it.
Walk ==
    /\ tickPc = "walk"
    /\ IF walker = NoConn
       THEN /\ tickPc' = "turns" /\ after' = [c \in Conn |-> NoConn]
            /\ UNCHANGED << seen, walker, wild >>
       ELSE /\ UNCHANGED << tickPc, after >>
            /\ IF walker \in freed
               THEN wild' = TRUE /\ walker' = NoConn /\ UNCHANGED seen
               ELSE /\ seen' = IF Reached(walker)
                               THEN [seen EXCEPT ![walker][Last(ground).id] = Item(Last(ground))]
                               ELSE seen
                    /\ walker' = NextOf(walker) /\ UNCHANGED wild
    /\ UNCHANGED << nextId, id, conns, phase, closing, dead, freed, table, ground, drops,
                    deaths, tab, lock, netVars, snapshot, turn, held, hand, raced, strayed,
                    forgot, crossed, spoiled >>

\* item_entities_tick, item by item, under conns_lock.
ItemsStart ==
    /\ tickPc = "turns" /\ lock = "free"
    /\ turn' = 1
    /\ IF ground = << >> THEN tickPc' = "sync" /\ UNCHANGED lock
       ELSE tickPc' = "items" /\ lock' = "tick"
    /\ UNCHANGED << serverVars, clientVars, netVars, snapshot, held, walker, hand, historyVars >>

\* destroy_item_entity_at.
DestroyItem(k) ==
    /\ seen' = Told(ground[k].id, Nothing)
    /\ ground' = Without(ground, k)

Eligible == {c \in Range(conns) : Reached(c) /\ c \notin dead}

\* Players near the item have left n of it.
\* Mistake: only the end of an item is told.
TakeQuietly(n) ==
    /\ n > 0
    /\ ground' = [ground EXCEPT ![turn].left = n]
    /\ turn' = turn + 1 /\ UNCHANGED << seen, closing, spoiled >>

TakeSome(n) ==
    /\ n > 0
    /\ ground' = [ground EXCEPT ![turn].left = n]
    /\ seen' = Told(ground[turn].id, Item(ground'[turn]))
    /\ turn' = turn + 1 /\ UNCHANGED << closing, spoiled >>

TakeAll(n) ==
    /\ n = 0
    /\ DestroyItem(turn)
    /\ UNCHANGED << turn, closing, spoiled >>

\* One who has taken some and cannot be saved is closed, before anybody is
\* told that there is less, or nothing, left.
TakeUnsaved(n) ==
    /\ SaveFails
    /\ ground' = [ground EXCEPT ![turn].left = n]
    /\ \E c \in Eligible : closing' = [closing EXCEPT ![c] = TRUE]
    /\ spoiled' = spoiled \cup {ground[turn].item}
    /\ turn' = turn + 1 /\ UNCHANGED seen

PickUp ==
    /\ Eligible # {}
    /\ \E n \in 0 .. ground[turn].left - 1 : TakeSome(n) \/ TakeAll(n) \/ TakeUnsaved(n)

ItemTick ==
    /\ tickPc = "items" /\ turn <= Len(ground)
    /\ \/ DestroyItem(turn) /\ UNCHANGED << turn, closing, spoiled >>
       \/ PickUp
       \/ turn' = turn + 1 /\ UNCHANGED << seen, ground, closing, spoiled >>
    /\ UNCHANGED << nextId, id, conns, after, phase, dead, freed, table, drops, deaths, tab,
                    lock, netVars, tickPc, snapshot, held, walker, hand, raced, strayed,
                    forgot, crossed, wild >>

ItemsDone ==
    /\ tickPc = "items" /\ turn > Len(ground)
    /\ lock' = "free" /\ tickPc' = "sync" /\ turn' = 1
    /\ UNCHANGED << serverVars, clientVars, netVars, snapshot, held, walker, hand, historyVars >>

\* The pairs of the loop that are not passed over.
Pairs == {t \in turn .. Len(snapshot) * Len(snapshot) :
            Viewer(t) # Subject(t) /\ Reached(Viewer(t)) /\ Reached(Subject(t))}

\* proto_play_sync_remote_player without conns_lock, for the next pair that is
\* not passed over: a dead subject is hidden (hide_remote_player_entity),
\* another is looked up or appended, and then used through a pointer.
\* Mistake: the entry stays marked as spawned.
HideDeadOnce(v, s) ==
    LET k == At(v, id[s])
    IN  /\ seen' = IF k # 0 /\ table[v][k].spawned
                   THEN [seen EXCEPT ![v] = Hide(@, id[s])] ELSE seen
        /\ UNCHANGED table

HideDead(v, s) ==
    LET k == At(v, id[s])
    IN  /\ seen' = IF k # 0 /\ table[v][k].spawned
                   THEN [seen EXCEPT ![v] = Hide(@, id[s])] ELSE seen
        /\ table' = IF k = 0 THEN table ELSE [table EXCEPT ![v][k].spawned = FALSE]

Ensure(v, s) ==
    LET k  == At(v, id[s])
        t  == IF k # 0 THEN table[v]
              ELSE Append(table[v], [id |-> id[s], listed |-> FALSE, spawned |-> FALSE])
        at == IF k # 0 THEN k ELSE Len(t)
    IN  /\ table' = [table EXCEPT ![v] = t]
        /\ held' = [at |-> at, listed |-> t[at].listed, spawned |-> t[at].spawned]

Sync ==
    /\ tickPc = "sync" /\ Pairs # {}
    /\ LET t == Min(Pairs)
       IN  IF Subject(t) \in dead
           THEN HideDead(Viewer(t), Subject(t)) /\ turn' = t + 1 /\ UNCHANGED << tickPc, held >>
           ELSE Ensure(Viewer(t), Subject(t)) /\ turn' = t /\ tickPc' = "list" /\ UNCHANGED seen
    /\ UNCHANGED << nextId, id, conns, after, phase, closing, dead, freed, ground, drops,
                    deaths, tab, lock, netVars, snapshot, walker, hand, historyVars >>

\* What the pointer leads to now: an entry of the table, or what was left
\* behind it.
Pointed(v) == IF held.at <= Len(table[v])
              THEN [listed |-> table[v][held.at].listed, spawned |-> table[v][held.at].spawned]
              ELSE [listed |-> held.listed, spawned |-> held.spawned]

\* Whether the network thread has already taken s out of v's table, for good.
Leaving(v, s) == ~Listed(s) \/ (netConn = s /\ netPc = "unsee" /\ v \in told)
                   \/ (netConn = s /\ netPc = "unlink")
Strayed(v, s) == IF Leaving(v, s) THEN strayed \cup {<< v, s >>} ELSE strayed

List ==
    /\ tickPc = "list" /\ tickPc' = "show"
    /\ LET v == Viewer(turn)
           s == Subject(turn)
       IN  /\ tab' = IF Pointed(v).listed THEN tab ELSE [tab EXCEPT ![v] = @ \cup {s}]
           /\ table' = IF held.at <= Len(table[v])
                       THEN [table EXCEPT ![v][held.at].listed = TRUE] ELSE table
           /\ held' = [held EXCEPT !.listed = TRUE]
           /\ strayed' = Strayed(v, s)
           /\ forgot' = forgot \ {<< v, s >>}
    /\ UNCHANGED << nextId, id, conns, after, phase, closing, dead, freed, ground, drops,
                    deaths, seen, lock, netVars, snapshot, turn, walker, hand, raced, crossed,
                    spoiled, wild >>

Show ==
    /\ tickPc = "show" /\ tickPc' = "sync" /\ turn' = turn + 1
    /\ LET v == Viewer(turn)
           s == Subject(turn)
       IN  /\ seen' = IF Pointed(v).spawned THEN seen
                      ELSE [seen EXCEPT ![v][id[s]] = Player(s)]
           /\ table' = IF held.at <= Len(table[v])
                       THEN [table EXCEPT ![v][held.at].spawned = TRUE] ELSE table
           /\ strayed' = Strayed(v, s)
    /\ held' = NoEntry
    /\ UNCHANGED << nextId, id, conns, after, phase, closing, dead, freed, ground, drops,
                    deaths, tab, lock, netVars, snapshot, walker, hand, raced, forgot, crossed,
                    spoiled, wild >>

SyncDone ==
    /\ tickPc = "sync" /\ Pairs = {}
    /\ tickPc' = "clear" /\ turn' = 1
    /\ UNCHANGED << serverVars, clientVars, lock, netVars, snapshot, held, walker, hand,
                    historyVars >>

\* conn_snapshot_clear.
Clear ==
    /\ tickPc = "clear" /\ tickPc' = "tasks"
    /\ snapshot' = << >>
    /\ Free({c \in Range(snapshot) : ~Listed(c) /\ netConn # c})
    /\ UNCHANGED << nextId, id, conns, after, phase, closing, dead, ground, drops, deaths, lock,
                    netVars, turn, held, walker, hand, historyVars >>

Tick ==
    \/ \E c \in Conn : Packet(c)
    \/ Spawned \/ Snapshot \/ Turn \/ Counted \/ Walk \/ ItemsStart \/ ItemTick \/ ItemsDone
    \/ Sync \/ List \/ Show \/ SyncDone \/ Clear

Next == Net \/ Tick

Spec == Init /\ [][Next]_vars

-----------------------------------------------------------------------------
(* Properties.                                                             *)

\* Players and items have entity ids of their own, unless one of the two was
\* numbered while the other thread was in the middle of next_entity_id++:
\* conn_create increments it without conns_lock.
Carriers == {<< c, id[c] >> : c \in {d \in Conn : Live(d)}}
              \cup {<< ground[k].item, ground[k].id >> : k \in DOMAIN ground}
IdsDiffer ==
    \A p, q \in Carriers :
        p[1] # q[1] /\ p[2] = q[2] => {p[1], q[1]} \cap raced # {}

\* Every client shows exactly the items that lie on the ground, with what is
\* left of them, whether they were there before it or appeared, shrank and
\* went while it played, except one whose pick-up could not be saved.
ItemRecords == [item : Items \ spoiled, left : 0 .. Size]
ItemsShown ==
    raced = {} /\ ~wild /\ tickPc # "walk" =>
      \A c \in Range(conns) : Reached(c) =>
        {<< i, seen[c][i] >> : i \in {j \in Ids : seen[c][j] \in ItemRecords}}
          = {<< ground[k].id, Item(ground[k]) >> :
               k \in {j \in DOMAIN ground : ground[j].item \notin spoiled}}

\* After the sync loop of a tick every player is shown to every other, and
\* the dead to none, also those who just came, died or respawned.  A viewer
\* whose table the network thread changed under the loop is excepted.
SeesLiving ==
    tickPc = "clear" /\ raced = {} =>
      \A v, s \in Range(snapshot) :
        v # s /\ Reached(v) /\ Reached(s) /\ Listed(s) /\ netConn # s
          /\ v \notin crossed /\ << v, s >> \notin forgot =>
            IF s \in dead THEN seen[v][id[s]] # Player(s)
            ELSE s \in tab[v] /\ seen[v][id[s]] = Player(s)

\* Nobody is shown a player who has left, unless the player was shown to him
\* again while server_close_conn was at work, or he himself respawned and had
\* not been told of that player since.
NoGhosts ==
    raced = {} =>
      \A v \in Range(conns), s \in Conn :
        phase[s] # "none" /\ ~Listed(s) /\ Reached(v) /\ v \notin crossed
          /\ << v, s >> \notin strayed \cup forgot =>
            s \notin tab[v] /\ \A i \in Ids : seen[v][i] # Player(s)

\* A walk over the connections only meets ones that are still allocated
\* (server.c:8-10: refcounted snapshots when iterating over connections).
WalkMeetsLive == ~wild
=============================================================================
