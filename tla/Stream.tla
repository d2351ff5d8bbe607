------------------------------- MODULE Stream -------------------------------
(***************************************************************************)
(* What the clients see of the world: the chunk stream of every PLAY       *)
(* connection (sent_chunks, pending_chunks, rebuild_chunk_stream and       *)
(* chunk_stream_tick of play.c), the block updates the tick thread         *)
(* broadcasts and then clears (tick_thread_main of server.c), and the      *)
(* acknowledgements of block changes that have to follow them.             *)
(*                                                                         *)
(* The world is the block store World implements: store is what the server *)
(* has accepted, view what mc_world_get_chunk returns.  Everything here    *)
(* runs on the tick thread, in the order of its loop (pc); only a          *)
(* connection's end comes from the network thread.  Packets to one client  *)
(* arrive in the order they were written, so copy[c] changes when they are *)
(* written.                                                                *)
(***************************************************************************)
EXTENDS BlockStore, Integers, Sequences, FiniteSets, SequencesExt

CONSTANTS
    Clients,         \* connections
    Centers,         \* chunk positions a player can be at
    Rings,           \* Rings[p]: the chunks in view of p, nearest first
    Keeps,           \* Keeps[p]: the chunks in simulation distance of p
    Air,             \* the block state of air
    FurnaceLocals,   \* positions where a furnace stands
    InitialStore,    \* what the world may hold at the start
    SnapshotFails,   \* whether server_snapshot_conns may fail
    ChunksPerTick,   \* CHUNKS_PER_TICK
    ScanLimit,       \* CHUNK_SEND_SCAN_LIMIT
    NoUpdate,        \* no queued block update
    NoClient, NoCenter

ASSUME StreamAssumption ==
    /\ Rings \in [Centers -> Seq(Chunks)]
    /\ \A p \in Centers : IsInjective(Rings[p])
    /\ Keeps \in [Centers -> SUBSET Chunks]
    /\ Air \in States /\ FurnaceLocals \subseteq Locals
    /\ InitialStore \subseteq [Chunks -> [Locals -> States]]
    /\ SnapshotFails \in BOOLEAN
    /\ ChunksPerTick \in Nat \ {0} /\ ScanLimit \in Nat \ {0}
    /\ NoUpdate \notin States /\ NotReady \notin [Locals -> States]
    /\ NoClient \notin Clients /\ NoCenter \notin Centers

VARIABLES
    loading,      \* chunks in the map that are LOADING
    waiting,      \* waiting[k]: blocks written while k was not READY
    updates,      \* w->updates: per block, the queued value or NoUpdate
    leaving,      \* chunks marked evict_after_save
    pc,           \* "drain", "world", "furnaces", "clients", "evict", "clear"
    captured,     \* the block updates mc_world_updates returned this tick
    todo,         \* snapshot: clients whose turn of this tick is to come
    turn,         \* the client being served, and how far
    near,         \* keep_keys of this tick
    state,        \* state[c]: "out", "play" or "closing"
    ready,        \* c->play_ready
    at,           \* the chunk position of the player
    center,       \* c->center_cx, center_cz
    pending,      \* c->pending_chunks
    sent,         \* c->sent_chunks
    pinged,       \* c->chunk_refresh_ping_pending
    copy,         \* copy[c][k]: chunk k as client c has it, or NotReady
    acks,         \* blocks c changed and was not acknowledged yet
    behind        \* history: blocks c was not told of, or was told wrongly

worldVars  == << store, view, loading, waiting, updates, leaving >>
tickVars   == << pc, captured, todo, turn, near >>
playerVars == << state, ready, at >>
streamVars == << center, pending, sent, pinged >>
clientVars == << copy, acks, behind >>
vars == << worldVars, tickVars, playerVars, streamVars, clientVars >>

Blocks == [Locals -> States]
Places == Chunks \X Locals
Stages == [c : Clients, stage : {"tick", "stream", "send"}, sends : 0 .. ChunksPerTick,
           scans : 0 .. ScanLimit]
NoTurn == [c |-> NoClient]

TypeOK ==
    /\ store \in [Chunks -> Blocks]
    /\ view \in [Chunks -> Blocks \cup {NotReady}]
    /\ loading \subseteq Chunks
    /\ waiting \in [Chunks -> SUBSET Locals]
    /\ updates \in [Chunks -> [Locals -> States \cup {NoUpdate}]]
    /\ leaving \subseteq Chunks
    /\ pc \in {"drain", "world", "furnaces", "clients", "evict", "clear"}
    /\ captured \subseteq Places
    /\ todo \subseteq Clients
    /\ turn \in {NoTurn} \cup Stages
    /\ near \subseteq Chunks
    /\ state \in [Clients -> {"out", "play", "closing"}]
    /\ ready \in [Clients -> BOOLEAN]
    /\ at \in [Clients -> Centers \cup {NoCenter}]
    /\ center \in [Clients -> Centers \cup {NoCenter}]
    /\ pending \in [Clients -> Seq(Chunks)]
    /\ sent \in [Clients -> SUBSET Chunks]
    /\ pinged \in [Clients -> BOOLEAN]
    /\ copy \in [Clients -> [Chunks -> Blocks \cup {NotReady}]]
    /\ acks \in [Clients -> SUBSET Places]
    /\ behind \in [Clients -> SUBSET Places]

Idle == turn = NoTurn
Playing(c) == state[c] = "play"
Shown(k) == view[k] # NotReady
NoCopies == [k \in Chunks |-> NotReady]
NoUpdates == [k \in Chunks |-> [b \in Locals |-> NoUpdate]]
Queued == {q \in Places : updates[q[1]][q[2]] # NoUpdate}

Init ==
    /\ BSInit /\ store \in InitialStore
    /\ loading = {} /\ waiting = [k \in Chunks |-> {}]
    /\ updates = NoUpdates /\ leaving = {}
    /\ pc = "drain" /\ captured = {} /\ todo = {} /\ turn = NoTurn /\ near = {}
    /\ state = [c \in Clients |-> "out"]
    /\ ready = [c \in Clients |-> FALSE]
    /\ at = [c \in Clients |-> NoCenter]
    /\ center = [c \in Clients |-> NoCenter]
    /\ pending = [c \in Clients |-> << >>]
    /\ sent = [c \in Clients |-> {}]
    /\ pinged = [c \in Clients |-> FALSE]
    /\ copy = [c \in Clients |-> NoCopies]
    /\ acks = [c \in Clients |-> {}]
    /\ behind = [c \in Clients |-> {}]

-----------------------------------------------------------------------------
(* The world, as its callers use it.                                       *)

\* mc_world_get_chunk.
Request(k) == loading' = IF Shown(k) THEN loading ELSE loading \cup {k}

\* updates_push keeps one value per block, the latest.
PushUpdate(k, b, s) == [updates EXCEPT ![k][b] = s]

\* mc_world_set_block: on a READY chunk a changed value is queued as an
\* update, on any other one the write waits for the load.
SetBlock(k, b, s) ==
    /\ Write(k, b, s)
    /\ Request(k)
    /\ IF Shown(k)
       THEN /\ updates' = IF store[k][b] = s THEN updates ELSE PushUpdate(k, b, s)
            /\ UNCHANGED waiting
       ELSE /\ waiting' = [waiting EXCEPT ![k] = @ \cup {b}]
            /\ UNCHANGED updates

\* The world tick integrates a chunk: the writes that waited become updates.
ReplaySilent(k) == updates  \* mistake: they are applied and not broadcast
Replayed(k) ==
    [updates EXCEPT ![k] = [b \in Locals |-> IF b \in waiting[k] THEN store[k][b] ELSE @[b]]]
ChunkReady(k) ==
    /\ pc = "world" /\ k \in loading
    /\ Show(k)
    /\ loading' = loading \ {k}
    /\ updates' = Replayed(k)
    /\ waiting' = [waiting EXCEPT ![k] = {}]
    /\ UNCHANGED << leaving, tickVars, playerVars, streamVars, clientVars >>

\* Eviction: a dirty chunk out of simulation distance leaves the map when a
\* world tick has saved it, any other one in the pass itself.
ChunkGone(k) ==
    /\ \/ pc = "world" /\ k \in leaving
       \/ pc = "evict" /\ k \notin leaving \cup near
    /\ Hide(k)
    /\ leaving' = leaving \ {k}
    /\ UNCHANGED << loading, waiting, updates, tickVars, playerVars, streamVars, clientVars >>

\* After the world the furnaces nobody has open are ticked: one that lights
\* or goes out is a block write, one whose chunk is gone is looked up in vain.
FurnaceTick(k, b, s) ==
    /\ pc = "furnaces"
    /\ b \in FurnaceLocals
    /\ IF Shown(k)
       THEN SetBlock(k, b, s)
       ELSE Request(k) /\ UNCHANGED << store, view, waiting, updates >>
    /\ UNCHANGED << leaving, tickVars, playerVars, streamVars, clientVars >>

\* The setblock command, on any block of the world.
Command(k, b, s) ==
    /\ pc = "drain" /\ Idle
    /\ SetBlock(k, b, s)
    /\ UNCHANGED << leaving, tickVars, playerVars, streamVars, clientVars >>

-----------------------------------------------------------------------------
(* The chunk stream of a client.                                           *)

\* rebuild_chunk_stream: chunks out of view are unloaded, those in view that
\* were not sent are queued nearest first, and requested.
Missing(p, have) == Range(Rings[p]) \ have
NearestFirst(p, list) ==
    \A i, j \in DOMAIN list : i < j =>
        \E m, n \in DOMAIN Rings[p] : m < n /\ Rings[p][m] = list[i] /\ Rings[p][n] = list[j]

\* Mistake: pending_chunks_clear is left out.
RebuildAppends(c, p, have) ==
    /\ center' = [center EXCEPT ![c] = p]
    /\ sent' = [sent EXCEPT ![c] = have \cap Range(Rings[p])]
    /\ copy' = [copy EXCEPT ![c] =
                  [k \in Chunks |-> IF k \in have \cap Range(Rings[p]) THEN @[k] ELSE NotReady]]
    /\ behind' = [behind EXCEPT ![c] = {q \in @ : q[1] \in have \cap Range(Rings[p])}]
    /\ \E list \in SetToSeqs(Missing(p, have)) :
          NearestFirst(p, list) /\ pending' = [pending EXCEPT ![c] = @ \o list]
    /\ loading' = loading \cup {k \in Missing(p, have) : ~Shown(k)}
Rebuild(c, p, have) ==
    /\ center' = [center EXCEPT ![c] = p]
    /\ sent' = [sent EXCEPT ![c] = have \cap Range(Rings[p])]
    /\ copy' = [copy EXCEPT ![c] =
                  [k \in Chunks |-> IF k \in have \cap Range(Rings[p]) THEN @[k] ELSE NotReady]]
    /\ behind' = [behind EXCEPT ![c] = {q \in @ : q[1] \in have \cap Range(Rings[p])}]
    /\ \E list \in SetToSeqs(Missing(p, have)) :
          NearestFirst(p, list) /\ pending' = [pending EXCEPT ![c] = list]
    /\ loading' = loading \cup {k \in Missing(p, have) : ~Shown(k)}

Serve(c, stage) == [c |-> c, stage |-> stage, sends |-> 0, scans |-> 0]

\* The rest of chunk_stream_tick: chunks are taken from the front of the
\* queue; one that is READY is sent, any other goes to the back.
Streaming == turn # NoTurn /\ turn.stage = "send"
ExhaustedLate ==  \* mistake: one scan too many
    pending[turn.c] = << >> \/ turn.sends = ChunksPerTick \/ turn.scans > ScanLimit
Exhausted == pending[turn.c] = << >> \/ turn.sends = ChunksPerTick \/ turn.scans = ScanLimit

SendChunk(c, k) ==
    /\ Shown(k)
    /\ pending' = [pending EXCEPT ![c] = Tail(@)]
    /\ sent' = [sent EXCEPT ![c] = @ \cup {k}]
    /\ copy' = [copy EXCEPT ![c][k] = view[k]]
    /\ behind' = [behind EXCEPT ![c] = @ \ ({k} \X Locals)]
    /\ pinged' = [pinged EXCEPT ![c] = TRUE]
    /\ turn' = [turn EXCEPT !.sends = @ + 1]
    /\ UNCHANGED loading

RequeueDrops(c, k) ==  \* mistake: a chunk that is not READY is not put back
    /\ ~Shown(k)
    /\ Request(k)
    /\ pending' = [pending EXCEPT ![c] = Tail(@)]
    /\ turn' = [turn EXCEPT !.scans = @ + 1]
    /\ UNCHANGED << sent, pinged, copy, behind >>
Requeue(c, k) ==
    /\ ~Shown(k)
    /\ Request(k)
    /\ pending' = [pending EXCEPT ![c] = Append(Tail(@), k)]
    /\ turn' = [turn EXCEPT !.scans = @ + 1]
    /\ UNCHANGED << sent, pinged, copy, behind >>

StreamOne ==
    /\ Streaming /\ ~Exhausted
    /\ LET k == Head(pending[turn.c])
       IN  SendChunk(turn.c, k) \/ Requeue(turn.c, k)
    /\ UNCHANGED << store, view, waiting, updates, leaving, pc, captured, todo, near,
                    playerVars, center, acks >>

StreamEnd ==
    /\ Streaming /\ Exhausted
    /\ turn' = NoTurn
    /\ UNCHANGED << worldVars, pc, captured, todo, near, playerVars, streamVars, clientVars >>

-----------------------------------------------------------------------------
(* Packet handlers.                                                        *)

\* A block update or chunk written to c outside the broadcast.
Tell(c, k, b, s) ==
    /\ copy' = [copy EXCEPT ![c][k][b] = s]
    /\ behind' = [behind EXCEPT ![c] = @ \ {<< k, b >>}]

\* proto_play_send_initial: the stream starts, c is PLAY but not play_ready.
Join(c, p) ==
    /\ pc = "drain" /\ Idle
    /\ state[c] = "out"
    /\ state' = [state EXCEPT ![c] = "play"]
    /\ at' = [at EXCEPT ![c] = p]
    /\ Rebuild(c, p, {})
    /\ turn' = Serve(c, "send")
    /\ UNCHANGED << store, view, waiting, updates, leaving, pc, captured, todo, near,
                    ready, pinged, acks >>

\* PKT_PLAY_CONFIRM_TELEPORT.
Confirm(c) ==
    /\ pc = "drain" /\ Idle
    /\ Playing(c) /\ ~ready[c]
    /\ ready' = [ready EXCEPT ![c] = TRUE]
    /\ UNCHANGED << worldVars, tickVars, state, at, streamVars, clientVars >>

Move(c, p) ==
    /\ pc = "drain" /\ Idle
    /\ Playing(c)
    /\ at' = [at EXCEPT ![c] = p]
    /\ UNCHANGED << worldVars, tickVars, state, ready, streamVars, clientVars >>

\* respawn_player: the client forgets its chunks and the stream starts over.
Respawn(c, p) ==
    /\ pc = "drain" /\ Idle
    /\ Playing(c)
    /\ at' = [at EXCEPT ![c] = p]
    /\ Rebuild(c, p, {})
    /\ pinged' = [pinged EXCEPT ![c] = FALSE]
    /\ turn' = Serve(c, "send")
    /\ UNCHANGED << store, view, waiting, updates, leaving, pc, captured, todo, near,
                    state, ready, acks >>

\* PKT_PLAY_PONG_SB: the container blocks of the chunks c has are sent again.
Pong(c) ==
    /\ pc = "drain" /\ Idle
    /\ Playing(c) /\ pinged[c]
    /\ pinged' = [pinged EXCEPT ![c] = FALSE]
    /\ loading' = loading \cup {k \in sent[c] : ~Shown(k)}
    /\ copy' = [copy EXCEPT ![c] =
                  [k \in Chunks |->
                     IF k \in sent[c] /\ Shown(k)
                     THEN [b \in Locals |-> IF b \in FurnaceLocals THEN store[k][b] ELSE @[k][b]]
                     ELSE @[k]]]
    /\ behind' = [behind EXCEPT ![c] =
                     {q \in @ : ~(Shown(q[1]) /\ q[2] \in FurnaceLocals)}]
    /\ UNCHANGED << store, view, waiting, updates, leaving, tickVars, playerVars,
                    center, pending, sent, acks >>

\* The block actions of a client, on a block of a chunk it has.
Acts(c, k, b) ==
    /\ pc = "drain" /\ Idle
    /\ Playing(c)
    /\ k \in sent[c] /\ b \notin FurnaceLocals
    /\ acks' = [acks EXCEPT ![c] = @ \cup {<< k, b >>}]
    /\ UNCHANGED << leaving, tickVars, playerVars, streamVars >>

\* break_block_authoritative; in a chunk that is not READY the break is
\* dropped and acknowledged.
Dig(c, k, b) ==
    /\ Acts(c, k, b)
    /\ IF Shown(k)
       THEN SetBlock(k, b, Air) /\ Tell(c, k, b, Air)
       ELSE Request(k) /\ UNCHANGED << store, view, waiting, updates, copy, behind >>

\* A break or placement that is refused: the client is told what is there,
\* which for a placement in a chunk that is not READY is air.
Refuse(c, k, b) ==
    /\ Acts(c, k, b)
    /\ Request(k)
    /\ copy' = [copy EXCEPT ![c][k][b] = IF Shown(k) THEN store[k][b] ELSE Air]
    /\ behind' = [behind EXCEPT ![c] = IF Shown(k) THEN @ \ {<< k, b >>} ELSE @ \cup {<< k, b >>}]
    /\ UNCHANGED << store, view, waiting, updates >>

\* PKT_PLAY_USE_ITEM_ON: the block is set where mc_world_get_block answers
\* air, which it does for every block of a chunk that is not READY, and what
\* it answers afterwards is sent to the client.
Place(c, k, b, s) ==
    /\ Acts(c, k, b)
    /\ Shown(k) => store[k][b] = Air
    /\ SetBlock(k, b, s)
    /\ Tell(c, k, b, IF Shown(k) THEN s ELSE Air)

\* The network thread closes the connection.
Leave(c) ==
    /\ Playing(c) /\ (Idle \/ turn.c # c)
    /\ state' = [state EXCEPT ![c] = "closing"]
    /\ ready' = [ready EXCEPT ![c] = FALSE]
    /\ at' = [at EXCEPT ![c] = NoCenter]
    /\ center' = [center EXCEPT ![c] = NoCenter]
    /\ pending' = [pending EXCEPT ![c] = << >>]
    /\ sent' = [sent EXCEPT ![c] = {}]
    /\ pinged' = [pinged EXCEPT ![c] = FALSE]
    /\ copy' = [copy EXCEPT ![c] = NoCopies]
    /\ acks' = [acks EXCEPT ![c] = {}]
    /\ behind' = [behind EXCEPT ![c] = {}]
    /\ UNCHANGED << worldVars, tickVars >>

-----------------------------------------------------------------------------
(* tick_thread_main, after the task queue is drained.                      *)

DrainEnd ==
    /\ pc = "drain" /\ Idle
    /\ pc' = "world"
    /\ UNCHANGED << worldVars, captured, todo, turn, near, playerVars, streamVars, clientVars >>

WorldEnd ==
    /\ pc = "world"
    /\ pc' = "furnaces"
    /\ UNCHANGED << worldVars, captured, todo, turn, near, playerVars, streamVars, clientVars >>

\* mc_world_updates and server_snapshot_conns.  Without a snapshot nobody is
\* served and nothing is evicted, but the updates are cleared all the same.
Missed(c, places) == {q \in places : Playing(c) /\ q[1] \in sent[c]}

Capture ==
    /\ pc = "furnaces"
    /\ captured' = Queued
    /\ \/ /\ pc' = "clients"
          /\ todo' = {c \in Clients : Playing(c)}
          /\ UNCHANGED behind
       \/ /\ SnapshotFails
          /\ pc' = "clear"
          /\ behind' = [c \in Clients |-> behind[c] \cup Missed(c, Queued)]
          /\ UNCHANGED todo
    /\ UNCHANGED << worldVars, turn, near, playerVars, streamVars, copy, acks >>

\* The turn of a client: first the updates, if it is play_ready ...
Received(c) ==
    [k \in Chunks |->
       IF k \in sent[c]
       THEN [b \in Locals |-> IF << k, b >> \in captured THEN updates[k][b] ELSE copy[c][k][b]]
       ELSE copy[c][k]]

BroadcastSkips(c) ==  \* mistake: the broadcast comes after the acknowledgement
    UNCHANGED << copy, behind >>
Broadcast(c) ==
    IF ready[c]
    THEN /\ copy' = [copy EXCEPT ![c] = Received(c)]
         /\ behind' = [behind EXCEPT ![c] = @ \ captured]
    ELSE /\ behind' = [behind EXCEPT ![c] = @ \cup Missed(c, captured)]
         /\ UNCHANGED copy

\* ... then proto_play_tick, which begins with the acknowledgements.
TurnBegin(c) ==
    /\ pc = "clients" /\ Idle
    /\ c \in todo /\ Playing(c)
    /\ Broadcast(c)
    /\ acks' = [acks EXCEPT ![c] = {}]
    /\ todo' = todo \ {c}
    /\ near' = near \cup Keeps[at[c]]
    /\ turn' = Serve(c, "tick")
    /\ UNCHANGED << worldVars, pc, captured, playerVars, streamVars >>

SkipClosing(c) ==
    /\ pc = "clients" /\ Idle
    /\ c \in todo /\ ~Playing(c)
    /\ todo' = todo \ {c}
    /\ UNCHANGED << worldVars, pc, captured, turn, near, playerVars, streamVars, clientVars >>

\* tick_open_furnace_container when the furnace the client has open lights or
\* goes out, however far the client has walked from it: a client ignores the
\* update of a chunk it does not have.  The update that is queued is not among
\* the captured ones.
Unreached(c, q) ==
    {d \in Clients \ {c} : captured # {} /\ ~(d \in todo /\ q \in captured)}

TurnFurnace(c, k, b, s) ==
    /\ turn = Serve(c, "tick")
    /\ b \in FurnaceLocals /\ Shown(k) /\ store[k][b] # s
    /\ SetBlock(k, b, s)
    /\ copy' = IF k \in sent[c] THEN [copy EXCEPT ![c][k][b] = s] ELSE copy
    /\ behind' = [d \in Clients |->
                     IF d = c THEN behind[d] \ {<< k, b >>}
                     ELSE IF d \in Unreached(c, << k, b >>)
                          THEN behind[d] \cup Missed(d, {<< k, b >>})
                          ELSE behind[d]]
    /\ turn' = [turn EXCEPT !.stage = "stream"]
    /\ UNCHANGED << leaving, pc, captured, todo, near, playerVars, streamVars, acks >>

\* Its chunk is not READY: the block is looked up in vain.
TurnFurnaceGone(c, k) ==
    /\ turn = Serve(c, "tick")
    /\ ~Shown(k) /\ Request(k)
    /\ turn' = [turn EXCEPT !.stage = "stream"]
    /\ UNCHANGED << store, view, waiting, updates, leaving, pc, captured, todo, near,
                    playerVars, streamVars, clientVars >>

TurnNoFurnace(c) ==
    /\ turn = Serve(c, "tick")
    /\ turn' = [turn EXCEPT !.stage = "stream"]
    /\ UNCHANGED << worldVars, pc, captured, todo, near, playerVars, streamVars, clientVars >>

TurnStream(c) ==
    /\ turn = Serve(c, "stream")
    /\ turn' = [turn EXCEPT !.stage = "send"]
    /\ IF at[c] # center[c]
       THEN Rebuild(c, at[c], sent[c])
       ELSE UNCHANGED << loading, center, sent, pending, copy, behind >>
    /\ UNCHANGED << store, view, waiting, updates, leaving, pc, captured, todo, near,
                    playerVars, pinged, acks >>

\* Every WORLD_EVICT_PERIOD_TICKS ticks an eviction pass follows.  It unmarks
\* the chunks to keep and marks the dirty ones among the others.
ClientsEnd ==
    /\ pc = "clients" /\ Idle /\ todo = {}
    /\ \/ /\ pc' = "evict"
          /\ \E dirty \in SUBSET {k \in Chunks : Shown(k)} : leaving' = dirty \ near
       \/ pc' = "clear" /\ UNCHANGED leaving
    /\ UNCHANGED << store, view, loading, waiting, updates, captured, todo, turn, near,
                    playerVars, streamVars, clientVars >>

EvictEnd ==
    /\ pc = "evict"
    /\ pc' = "clear"
    /\ UNCHANGED << worldVars, captured, todo, turn, near, playerVars, streamVars, clientVars >>

\* mc_world_clear_updates, if there was an update to broadcast.
Clear ==
    /\ pc = "clear"
    /\ pc' = "drain" /\ captured' = {} /\ near' = {}
    /\ updates' = IF captured = {} THEN updates ELSE NoUpdates
    /\ UNCHANGED << store, view, loading, waiting, leaving, todo, turn,
                    playerVars, streamVars, clientVars >>

-----------------------------------------------------------------------------
World ==
    \E k \in Chunks :
        \/ ChunkReady(k) \/ ChunkGone(k)
        \/ \E b \in Locals, s \in States : FurnaceTick(k, b, s) \/ Command(k, b, s)

Client(c) ==
    \/ Confirm(c) \/ Pong(c) \/ Leave(c)
    \/ \E p \in Centers : Join(c, p) \/ Move(c, p) \/ Respawn(c, p)
    \/ \E k \in Chunks, b \in Locals :
          Dig(c, k, b) \/ Refuse(c, k, b) \/ \E s \in States \ {Air} : Place(c, k, b, s)

Turn(c) ==
    \/ TurnBegin(c) \/ SkipClosing(c) \/ TurnNoFurnace(c) \/ TurnStream(c)
    \/ \E k \in Chunks :
          TurnFurnaceGone(c, k) \/ \E b \in Locals, s \in States : TurnFurnace(c, k, b, s)

TickLoop == DrainEnd \/ WorldEnd \/ Capture \/ ClientsEnd \/ EvictEnd \/ Clear \/ StreamOne \/ StreamEnd

Next == World \/ TickLoop \/ \E c \in Clients : Client(c) \/ Turn(c)

Spec == Init /\ [][Next]_vars

\* The tick thread never stops, a drain takes only the tasks that were queued
\* when it began, and a requested chunk is loaded.
TickThread == TickLoop \/ \E c \in Clients : Turn(c)
Fairness ==
    /\ WF_vars(TickThread)
    /\ SF_vars(DrainEnd)
    /\ \A k \in Chunks : SF_vars(ChunkReady(k))

FairSpec == Spec /\ Fairness

-----------------------------------------------------------------------------
(* Safety.                                                                 *)

\* An update of block q that c is still going to be sent: the write waits for
\* its chunk, or it is queued and this tick's broadcast has not passed c by.
OnItsWay(c, q) ==
    \/ q[2] \in waiting[q[1]]
    \/ /\ q \in Queued
       /\ \/ pc \in {"drain", "world", "furnaces"}
          \/ captured = {}
          \/ pc = "clients" /\ c \in todo /\ q \in captured

\* However chunks load, leave and load again while a client streams, moves
\* and respawns, the client's copy of a block it has is the accepted one, or
\* an update is on its way, or the client was left behind in one of three
\* ways: the update was cleared before it was play_ready, was queued in the
\* middle of a broadcast, or it was told air for a chunk that is not READY.
CopyIsCurrent ==
    \A c \in Clients : \A k \in sent[c], b \in Locals :
        \/ copy[c][k][b] = store[k][b]
        \/ OnItsWay(c, << k, b >>)
        \/ << k, b >> \in behind[c]

\* No chunk in view is forgotten and none is sent twice: each was sent or is
\* queued, once, and the client holds just the ones that were sent.
StreamCoversView ==
    \A c \in Clients : Playing(c) =>
        /\ Range(pending[c]) = Range(Rings[center[c]]) \ sent[c]
        /\ IsInjective(pending[c])
        /\ sent[c] \subseteq Range(Rings[center[c]])
        /\ {k \in Chunks : copy[c][k] # NotReady} = sent[c]

\* "the client sees the authoritative state before its prediction is
\* acknowledged" (flush_queued_block_changed_ack_packet), for the blocks of
\* chunks that are READY then, and of which c was not left behind.
AckedAfter(c, places) ==
    \A q \in places : q[1] \in sent'[c] => copy'[c][q[1]][q[2]] = store'[q[1]][q[2]]
AckSeesReady ==
    [][\A c \in Clients : Playing(c)' /\ acks'[c] = {} =>
         AckedAfter(c, {q \in acks[c] \ behind'[c] : Shown(q[1])})]_vars

\* "Clear only after every live PLAY connection had a chance to see the
\* coalesced updates for this tick": what is cleared has reached every client
\* that is play_ready.
ClearedIsSeen ==
    [][pc = "clear" /\ pc' = "drain" =>
         \A c \in Clients, q \in Queued \ {r \in Places : updates'[r[1]][r[2]] # NoUpdate} :
             Playing(c) /\ ready[c] /\ q[1] \in sent[c] =>
                 copy[c][q[1]][q[2]] = updates[q[1]][q[2]]]_vars

\* A client that stays where it is ends up with every chunk in view, though
\* those out of simulation distance are evicted again and again while they
\* wait for their turn.
ViewFills ==
    \A c \in Clients, p \in Centers :
        /\ <>[](Playing(c) /\ at[c] = p)
        /\ <>[][\A q \in Centers : ~Respawn(c, q)]_vars
        => <>[](sent[c] = Range(Rings[p]))
=============================================================================
