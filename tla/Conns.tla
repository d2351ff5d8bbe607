------------------------------- MODULE Conns --------------------------------
(***************************************************************************)
(* The life of a connection (server.c, task_queue.c): the network thread   *)
(* accepts, reads, queues packets as tasks, and closes; the tick thread    *)
(* drains the queue, works on a snapshot of the connections, and flushes   *)
(* their output.  A connection is freed by whoever drops its last          *)
(* reference, and freeing it saves its player (proto_play_conn_cleanup).   *)
(*                                                                         *)
(* One action is what a thread does between two points where the other one *)
(* can see a difference: under conns_lock, or one reference.  Clients are  *)
(* external; a client connects, sends, stalls and leaves as it likes.      *)
(***************************************************************************)
EXTENDS Integers, Sequences, FiniteSets, SequencesExt

CONSTANTS
    Conn,         \* connections, each made at most once
    Players,
    Who,          \* Who[c]: the player that connects over c
    Packets,      \* what clients send
    MaxFrames,    \* bound: MaxFrames[c] packets are sent over c
    Stalling,     \* connections whose client may stop reading
    Hoarders,     \* connections whose player may open containers
    SnapshotFails \* whether server_snapshot_conns may fail

ASSUME ConnsAssumption ==
    /\ Who \in [Conn -> Players] /\ MaxFrames \in [Conn -> Nat]
    /\ Packets \subseteq {"join", "act", "bad", "garbled"}
    /\ Stalling \subseteq Conn /\ Hoarders \subseteq Conn
    /\ SnapshotFails \in BOOLEAN
    /\ "listen" \notin Conn

VARIABLES
    sock,      \* the client's end: "none", "open", "stalled" or "left"
    wire,      \* wire[c]: packets in the socket buffer
    count,     \* packets the client has sent
    before,    \* before[c]: connections of Who[c] that it had left before c
    life,      \* "none", "live" (allocated) or "freed"
    refs,      \* c->refcount
    fd,        \* connections whose descriptor is open
    state,     \* "early" (before PLAY) or "play"
    closing,   \* c->closing
    out,       \* connections with bytes in c->out
    conns,     \* s->conns, head first
    queue,     \* s->task_queue
    netPc,     \* where the network thread is
    batch,     \* events of this epoll_wait not handled yet
    swept,     \* server_cleanup has run for this batch
    input,     \* packets just read, to be queued
    doomed,    \* connections being closed, the first one now
    tickPc,    \* where the tick thread is
    tasks,     \* the drained list
    snapshot,  \* conn_snapshot
    turns,     \* index in snapshot of the last connection served
    running,   \* s->running
    loaded,    \* connections with c->player
    data,      \* data[c]: whose play the player of c includes
    window,    \* connections with a changed container in their window
    file,      \* file[p]: whose play the player file includes
    stored,    \* containers written back to the world, by connection
    unplaced   \* history: connections whose player never got its position

clientVars == << sock, wire, count, before >>
lifeVars   == << life, refs, fd, state, closing, out >>
playVars   == << loaded, data, window, file, stored, unplaced >>
netVars    == << netPc, batch, swept, input, doomed >>
tickVars   == << tickPc, tasks, snapshot, turns >>
vars == << clientVars, lifeVars, conns, queue, netVars, tickVars, running, playVars >>

Tasks == [conn : Conn, packet : Packets]
NetPcs == {"wait", "serve", "decode", "unlink", "shut", "drop", "join", "destroy", "done"}
TickPcs == {"drain", "tasks", "release", "snapshot", "unsnap", "turns", "flush", "clear",
            "rest", "exited"}

TypeOK ==
    /\ sock \in [Conn -> {"none", "open", "stalled", "left"}]
    /\ wire \in [Conn -> Seq(Packets)]
    /\ count \in [Conn -> Nat]
    /\ before \in [Conn -> SUBSET Conn]
    /\ life \in [Conn -> {"none", "live", "freed"}]
    /\ refs \in [Conn -> Nat]
    /\ fd \subseteq Conn
    /\ state \in [Conn -> {"early", "play"}]
    /\ closing \in [Conn -> BOOLEAN]
    /\ out \subseteq Conn
    /\ conns \in Seq(Conn)
    /\ queue \in Seq(Tasks)
    /\ netPc \in NetPcs
    /\ batch \subseteq Conn \cup {"listen"}
    /\ swept \in BOOLEAN
    /\ input \in Seq(Tasks)
    /\ doomed \in Seq(Conn)
    /\ tickPc \in TickPcs
    /\ tasks \in Seq(Tasks)
    /\ snapshot \in Seq(Conn)
    /\ turns \in Nat
    /\ running \in BOOLEAN
    /\ loaded \subseteq Conn
    /\ data \in [Conn -> SUBSET Conn]
    /\ window \subseteq Conn
    /\ file \in [Players -> SUBSET Conn]
    /\ stored \subseteq Conn
    /\ unplaced \subseteq Conn

Init ==
    /\ sock = [c \in Conn |-> "none"] /\ wire = [c \in Conn |-> << >>]
    /\ count = [c \in Conn |-> 0] /\ before = [c \in Conn |-> {}]
    /\ life = [c \in Conn |-> "none"] /\ refs = [c \in Conn |-> 0]
    /\ fd = {} /\ state = [c \in Conn |-> "early"]
    /\ closing = [c \in Conn |-> FALSE] /\ out = {}
    /\ conns = << >> /\ queue = << >>
    /\ netPc = "wait" /\ batch = {} /\ swept = TRUE /\ input = << >> /\ doomed = << >>
    /\ tickPc = "drain" /\ tasks = << >> /\ snapshot = << >> /\ turns = 0
    /\ running = TRUE
    /\ loaded = {} /\ data = [c \in Conn |-> {}] /\ window = {}
    /\ file = [p \in Players |-> {}] /\ stored = {} /\ unplaced = {}

Listed(c) == c \in Range(conns)
NetAt(p) == netPc = p
TickAt(p) == tickPc = p

-----------------------------------------------------------------------------
(* Clients.                                                                *)

SameAs(c) == {d \in Conn \ {c} : Who[d] = Who[c]}

Connect(c) ==
    /\ sock[c] = "none"
    /\ sock' = [sock EXCEPT ![c] = "open"]
    /\ before' = [before EXCEPT ![c] = {d \in SameAs(c) : sock[d] = "left"}]
    /\ UNCHANGED << wire, count, lifeVars, conns, queue, netVars, tickVars, running, playVars >>

\* The login comes first; what follows may be refused by its handler ("bad")
\* or not even be a frame ("garbled").
Send(c, p) ==
    /\ sock[c] \in {"open", "stalled"}
    /\ count[c] < MaxFrames[c]
    /\ (p = "join") <=> (count[c] = 0)
    /\ wire' = [wire EXCEPT ![c] = Append(@, p)]
    /\ count' = [count EXCEPT ![c] = @ + 1]
    /\ UNCHANGED << sock, before, lifeVars, conns, queue, netVars, tickVars, running, playVars >>

\* The client stops reading for good, or is gone.
Quit(c, how) ==
    /\ \/ how = "stalled" /\ c \in Stalling /\ sock[c] = "open"
       \/ how = "left" /\ sock[c] \in {"open", "stalled"}
    /\ sock' = [sock EXCEPT ![c] = how]
    /\ UNCHANGED << wire, count, before, lifeVars, conns, queue, netVars, tickVars, running,
                    playVars >>

Client ==
    \E c \in Conn :
        \/ Connect(c)
        \/ \E p \in Packets : Send(c, p)
        \/ \E how \in {"stalled", "left"} : Quit(c, how)

-----------------------------------------------------------------------------
(* The end of a connection, on whichever thread drops the last reference.  *)

\* proto_play_conn_cleanup: an open container goes back to the world, the
\* player to its file.  A connection without a position saves the origin.
Cleanup(c) ==
    /\ stored' = IF c \in window THEN stored \cup {c} ELSE stored
    /\ window' = window \ {c}
    /\ file' = IF c \in loaded THEN [file EXCEPT ![Who[c]] = data[c]] ELSE file
    /\ loaded' = loaded \ {c}
    /\ UNCHANGED << data, unplaced >>

\* What the freed memory held is forgotten.
conn_destroy(c) ==
    /\ Cleanup(c)
    /\ life' = [life EXCEPT ![c] = "freed"]
    /\ fd' = fd \ {c}
    /\ state' = [state EXCEPT ![c] = "early"]
    /\ closing' = [closing EXCEPT ![c] = FALSE]
    /\ out' = out \ {c}

conn_release(c) ==
    /\ refs' = [refs EXCEPT ![c] = @ - 1]
    /\ IF refs[c] = 1 THEN conn_destroy(c) ELSE UNCHANGED << playVars, life, fd, state, closing, out >>

-----------------------------------------------------------------------------
(* The network thread: net_server_run.                                     *)

Backlog == {c \in Conn : sock[c] # "none" /\ life[c] = "none"}
\* Descriptors are handed out in the order they became ready, so the end of a
\* client comes before the packets of a connection it made later.
Foremost(c) == c \in batch /\ batch \cap before[c] = {}
Readable == {c \in Range(conns) : wire[c] # << >> \/ sock[c] = "left"}

\* epoll_wait, unless the server is stopping.
Wait ==
    /\ NetAt("wait")
    /\ IF running
       THEN /\ netPc' = "serve" /\ swept' = FALSE
            /\ batch' = Readable \cup (IF Backlog = {} THEN {} ELSE {"listen"})
       ELSE netPc' = "join" /\ UNCHANGED << swept, batch >>
    /\ UNCHANGED << clientVars, lifeVars, conns, queue, input, doomed, tickVars, running,
                    playVars >>

\* One accept of the loop that empties the backlog, with its conn_create.
Accept ==
    /\ NetAt("serve") /\ "listen" \in batch
    /\ IF Backlog = {}
       THEN /\ batch' = batch \ {"listen"}
            /\ UNCHANGED << life, refs, fd, conns >>
       ELSE \E c \in Backlog :
              /\ life' = [life EXCEPT ![c] = "live"]
              /\ refs' = [refs EXCEPT ![c] = 1]
              /\ fd' = fd \cup {c}
              /\ conns' = << c >> \o conns
              /\ UNCHANGED batch
    /\ UNCHANGED << clientVars, state, closing, out, queue, netPc, swept, input, doomed,
                    tickVars, running, playVars >>

\* Mistake: an end of file only marks the connection as closing.
RecvLazy(c) ==
    /\ NetAt("serve") /\ Foremost(c)
    /\ batch' = batch \ {c}
    /\ wire' = [wire EXCEPT ![c] = << >>]
    /\ IF sock[c] = "left"
       THEN closing' = [closing EXCEPT ![c] = TRUE] /\ UNCHANGED << netPc, input >>
       ELSE /\ netPc' = "decode" /\ UNCHANGED closing
            /\ input' = [i \in DOMAIN wire[c] |-> [conn |-> c, packet |-> wire[c][i]]]
    /\ UNCHANGED << sock, count, before, life, refs, fd, state, out, conns, queue, swept,
                    doomed, tickVars, running, playVars >>

\* recv until the buffer is empty.  An end of file met there closes the
\* connection at once, with the packets read before it.
Recv(c) ==
    /\ NetAt("serve") /\ Foremost(c)
    /\ batch' = batch \ {c}
    /\ wire' = [wire EXCEPT ![c] = << >>]
    /\ IF sock[c] = "left"
       THEN netPc' = "unlink" /\ doomed' = << c >> /\ UNCHANGED input
       ELSE /\ netPc' = "decode" /\ UNCHANGED doomed
            /\ input' = [i \in DOMAIN wire[c] |-> [conn |-> c, packet |-> wire[c][i]]]
    /\ UNCHANGED << sock, count, before, lifeVars, conns, queue, swept, tickVars, running,
                    playVars >>

\* Mistake: the task has no reference of its own.
DecodeUncounted ==
    /\ NetAt("decode")
    /\ IF input = << >>
       THEN netPc' = "serve" /\ UNCHANGED << input, queue, doomed >>
       ELSE IF Head(input).packet = "garbled"
       THEN /\ netPc' = "unlink" /\ doomed' = << Head(input).conn >>
            /\ input' = << >> /\ UNCHANGED queue
       ELSE /\ queue' = Append(queue, Head(input))
            /\ input' = Tail(input) /\ UNCHANGED << netPc, doomed >>
    /\ UNCHANGED << clientVars, lifeVars, conns, batch, swept, tickVars, running, playVars >>

\* One frame of the loop of handle_client_read.
Decode ==
    /\ NetAt("decode")
    /\ IF input = << >>
       THEN netPc' = "serve" /\ UNCHANGED << input, queue, refs, doomed >>
       ELSE IF Head(input).packet = "garbled"
       THEN /\ netPc' = "unlink" /\ doomed' = << Head(input).conn >>
            /\ input' = << >> /\ UNCHANGED << queue, refs >>
       ELSE /\ refs' = [refs EXCEPT ![Head(input).conn] = @ + 1]
            /\ queue' = Append(queue, Head(input))
            /\ input' = Tail(input) /\ UNCHANGED << netPc, doomed >>
    /\ UNCHANGED << clientVars, life, fd, state, closing, out, conns, batch, swept, tickVars,
                    running, playVars >>

\* server_cleanup, its choice under conns_lock (in no particular order).
Closable == {c \in Range(conns) : closing[c] /\ c \notin out}

Sweep ==
    /\ NetAt("serve") /\ batch = {}
    /\ swept' = TRUE
    /\ \E order \in SetToSeqs(Closable) : doomed' = order
    /\ netPc' = IF doomed' = << >> THEN "wait" ELSE "unlink"
    /\ UNCHANGED << clientVars, lifeVars, conns, queue, batch, input, tickVars, running,
                    playVars >>

\* The connections that may show the player of c.
Watchers(c) ==
    {d \in Range(conns) \ {c} : state[c] = "play" /\ state[d] = "play" /\ ~closing[d]}

\* Mistake: only the first connection can be taken out of the list.
UnlinkHead ==
    /\ NetAt("unlink")
    /\ netPc' = "shut"
    /\ \E told \in SUBSET Watchers(Head(doomed)) : out' = out \cup told
    /\ conns' = IF Head(conns) = Head(doomed) THEN Tail(conns) ELSE conns
    /\ UNCHANGED << clientVars, life, refs, fd, state, closing, queue, batch, swept, input,
                    doomed, tickVars, running, playVars >>

\* server_close_conn in three steps: conn_remove, close (which ends the
\* client's side too) and c->closing, and the reference of the list.  First
\* the connections that showed the player are told that it is gone.
Unlink ==
    /\ NetAt("unlink")
    /\ netPc' = "shut"
    /\ \E told \in SUBSET Watchers(Head(doomed)) : out' = out \cup told
    /\ conns' = RemoveFirst(conns, Head(doomed))
    /\ UNCHANGED << clientVars, life, refs, fd, state, closing, queue, batch, swept, input,
                    doomed, tickVars, running, playVars >>

Shut ==
    /\ NetAt("shut")
    /\ netPc' = "drop"
    /\ fd' = fd \ {Head(doomed)}
    /\ closing' = [closing EXCEPT ![Head(doomed)] = TRUE]
    /\ sock' = [sock EXCEPT ![Head(doomed)] = "left"]
    /\ wire' = [wire EXCEPT ![Head(doomed)] = << >>]
    /\ UNCHANGED << count, before, life, refs, state, out, conns, queue, batch, swept, input,
                    doomed, tickVars, running, playVars >>

Drop ==
    /\ NetAt("drop")
    /\ conn_release(Head(doomed))
    /\ doomed' = Tail(doomed)
    /\ netPc' = IF doomed' # << >> THEN "unlink" ELSE IF swept THEN "wait" ELSE "serve"
    /\ UNCHANGED << clientVars, conns, queue, batch, swept, input,
                    tickVars, running >>

\* pthread_join, then net_server_destroy, which frees what is listed whatever
\* its reference count.
Join ==
    /\ NetAt("join") /\ TickAt("exited")
    /\ netPc' = "destroy"
    /\ UNCHANGED << clientVars, lifeVars, conns, queue, batch, swept, input, doomed, tickVars,
                    running, playVars >>

Destroy ==
    /\ NetAt("destroy")
    /\ IF conns = << >>
       THEN netPc' = "done" /\ UNCHANGED << conns, lifeVars, playVars >>
       ELSE /\ conn_destroy(Head(conns))
            /\ refs' = [refs EXCEPT ![Head(conns)] = 0]
            /\ conns' = Tail(conns) /\ UNCHANGED netPc
    /\ UNCHANGED << clientVars, queue, batch, swept, input, doomed,
                    tickVars, running >>

Net ==
    \/ Wait \/ Accept \/ (\E c \in Conn : Recv(c)) \/ Decode \/ Sweep
    \/ Unlink \/ Shut \/ Drop \/ Join \/ Destroy

-----------------------------------------------------------------------------
(* The tick thread: tick_thread_main.                                      *)

\* Mistake: the thread goes on as long as there are connections.
DrainBusy ==
    /\ TickAt("drain")
    /\ tickPc' = IF running \/ conns # << >> THEN "tasks" ELSE "rest"
    /\ tasks' = queue /\ queue' = << >>
    /\ UNCHANGED << clientVars, lifeVars, conns, netVars, snapshot, turns, running, playVars >>

\* mc_task_queue_drain, by a tick or by the thread on its way out.
Drain ==
    /\ TickAt("drain")
    /\ tickPc' = IF running THEN "tasks" ELSE "rest"
    /\ tasks' = queue /\ queue' = << >>
    /\ UNCHANGED << clientVars, lifeVars, conns, netVars, snapshot, turns, running, playVars >>

\* From login to proto_play_send_initial.  The player may fail to load, or be
\* loaded by a join that then fails before it has given the player a position.
Joined(c) ==
    /\ state[c] = "early"
    /\ state' = [state EXCEPT ![c] = "play"]
    /\ loaded' = loaded \cup {c}
    /\ data' = [data EXCEPT ![c] = file[Who[c]]]
    /\ out' = out \cup {c}
    /\ UNCHANGED << closing, window, file, stored, unplaced >>

JoinRefused(c) ==
    /\ state[c] = "early"
    /\ state' = [state EXCEPT ![c] = "play"]
    /\ closing' = [closing EXCEPT ![c] = TRUE]
    /\ UNCHANGED << out, playVars >>

JoinUnplaced(c) ==
    /\ state[c] = "early"
    /\ state' = [state EXCEPT ![c] = "play"]
    /\ closing' = [closing EXCEPT ![c] = TRUE]
    /\ loaded' = loaded \cup {c} /\ unplaced' = unplaced \cup {c}
    /\ data' = [data EXCEPT ![c] = {}]
    /\ out' = out \cup {c}
    /\ UNCHANGED << window, file, stored >>

\* Play: some of it is saved at once, and a container window may be opened
\* and changed, or closed and written back.
Act(c) ==
    /\ c \in loaded
    /\ data' = [data EXCEPT ![c] = @ \cup {c}]
    /\ \/ file' = [file EXCEPT ![Who[c]] = data'[c]]
       \/ UNCHANGED file
    /\ \/ c \in Hoarders /\ window' = window \cup {c} /\ UNCHANGED stored
       \/ window' = window \ {c}
          /\ stored' = IF c \in window THEN stored \cup {c} ELSE stored
    /\ UNCHANGED << state, closing, out, loaded, unplaced >>

\* process_task of the first task; a closing connection's tasks are skipped.
Process ==
    /\ TickAt("tasks") /\ tasks # << >>
    /\ tickPc' = "release"
    /\ LET c == Head(tasks).conn
           p == Head(tasks).packet
       IN  \/ /\ closing[c]
              /\ UNCHANGED << state, closing, out, playVars >>
           \/ /\ ~closing[c] /\ p = "join"
              /\ Joined(c) \/ JoinRefused(c) \/ JoinUnplaced(c)
           \/ ~closing[c] /\ p = "act" /\ Act(c)
           \/ /\ ~closing[c] /\ p = "bad"
              /\ closing' = [closing EXCEPT ![c] = TRUE]
              /\ UNCHANGED << state, out, playVars >>
    /\ UNCHANGED << clientVars, life, refs, fd, conns, queue, netVars, tasks, snapshot, turns,
                    running >>

\* The task's reference, after the task or, when the thread ends, without it.
Release ==
    /\ TickAt("release") \/ (TickAt("rest") /\ tasks # << >>)
    /\ conn_release(Head(tasks).conn)
    /\ tasks' = Tail(tasks)
    /\ tickPc' = IF TickAt("release") THEN "tasks" ELSE "rest"
    /\ UNCHANGED << clientVars, conns, queue, netVars, snapshot, turns,
                    running >>

TasksDone ==
    /\ tasks = << >>
    /\ \/ TickAt("tasks") /\ tickPc' = "snapshot"
       \/ TickAt("rest") /\ tickPc' = "exited"
    /\ UNCHANGED << clientVars, lifeVars, conns, queue, netVars, tasks, snapshot, turns,
                    running, playVars >>

\* Mistake: the snapshot takes no references.
SnapshotUncounted ==
    /\ TickAt("snapshot")
    /\ snapshot' = conns /\ tickPc' = "turns"
    /\ UNCHANGED << clientVars, lifeVars, conns, queue, netVars, tasks, turns, running,
                    playVars >>

\* server_snapshot_conns, under conns_lock.  When it fails, what it has taken
\* so far is released again and the tick serves nobody.
Snapshot ==
    /\ TickAt("snapshot")
    /\ \/ snapshot' = conns /\ tickPc' = "turns"
       \/ \E n \in 0 .. Len(conns) - 1 :
            SnapshotFails /\ snapshot' = SubSeq(conns, 1, n) /\ tickPc' = "unsnap"
    /\ refs' = [c \in Conn |-> IF c \in Range(snapshot') THEN refs[c] + 1 ELSE refs[c]]
    /\ UNCHANGED << clientVars, life, fd, state, closing, out, conns, queue, netVars, tasks,
                    turns, running, playVars >>

\* proto_play_tick: packets, or a disconnect (a keepalive timeout).
PlayTick ==
    /\ TickAt("turns") /\ turns < Len(snapshot)
    /\ turns' = turns + 1
    /\ LET c == snapshot[turns + 1]
       IN  IF state[c] = "play" /\ ~closing[c]
           THEN \/ out' = out \cup {c} /\ UNCHANGED closing
                \/ out' = out \cup {c} /\ closing' = [closing EXCEPT ![c] = TRUE]
           ELSE UNCHANGED << out, closing >>
    /\ UNCHANGED << clientVars, life, refs, fd, state, conns, queue, netVars, tickPc, tasks,
                    snapshot, running, playVars >>

TurnsDone ==
    /\ TickAt("turns") /\ turns = Len(snapshot)
    /\ tickPc' = "flush" /\ turns' = 0
    /\ UNCHANGED << clientVars, lifeVars, conns, queue, netVars, tasks, snapshot, running,
                    playVars >>

\* handle_client_write for every connection of the list, under conns_lock.  A
\* stalled client takes nothing; sending to one that left may fail.
Flush ==
    /\ TickAt("flush")
    /\ tickPc' = "clear"
    /\ \E broken \in SUBSET {c \in out : Listed(c) /\ sock[c] = "left"} :
         /\ out' = {c \in out : c \in broken \/ ~Listed(c) \/ sock[c] = "stalled"}
         /\ closing' = [c \in Conn |-> closing[c] \/ c \in broken]
    /\ UNCHANGED << clientVars, life, refs, fd, state, conns, queue, netVars, tasks, snapshot,
                    turns, running, playVars >>

\* Mistake: the snapshot is dropped with its references.
ClearLeaks ==
    /\ TickAt("clear") \/ TickAt("unsnap")
    /\ snapshot' = << >>
    /\ tickPc' = IF TickAt("clear") THEN "drain" ELSE "turns"
    /\ UNCHANGED << clientVars, lifeVars, conns, queue, netVars, tasks, turns, running,
                    playVars >>

\* conn_snapshot_clear, one reference at a time.
Clear ==
    /\ TickAt("clear") \/ TickAt("unsnap")
    /\ IF snapshot = << >>
       THEN /\ tickPc' = IF TickAt("clear") THEN "drain" ELSE "turns"
            /\ UNCHANGED << snapshot, lifeVars, playVars >>
       ELSE /\ conn_release(Head(snapshot))
            /\ snapshot' = Tail(snapshot) /\ UNCHANGED tickPc
    /\ UNCHANGED << clientVars, conns, queue, netVars, tasks, turns,
                    running >>

Tick ==
    \/ Drain \/ Process \/ Release \/ TasksDone \/ Snapshot \/ PlayTick \/ TurnsDone
    \/ Flush \/ Clear

-----------------------------------------------------------------------------
\* net_server_stop, or an epoll_wait that fails.
Stop ==
    /\ running
    /\ running' = FALSE
    /\ UNCHANGED << clientVars, lifeVars, conns, queue, netVars, tickVars, playVars >>

Ended == NetAt("done") /\ UNCHANGED vars

Next == Client \/ Net \/ Tick \/ Stop \/ Ended

Spec == Init /\ [][Next]_vars

\* Neither thread waits for anything but a lock held for a bounded time: the
\* network thread wakes up at least once a second, the tick thread every 50 ms.
FairSpec == Spec /\ WF_vars(Net) /\ WF_vars(Tick)

-----------------------------------------------------------------------------
(* Properties.                                                             *)

Count(c, seq) == Cardinality({i \in DOMAIN seq : seq[i] = c})
TasksOf(c, seq) == Cardinality({i \in DOMAIN seq : seq[i].conn = c})
Unlinked(c) == netPc \in {"shut", "drop"} /\ c = Head(doomed)

\* A connection has one reference per queued or drained task, one per snapshot
\* and one for the list (until server_close_conn gives it up), and is
\* allocated exactly as long as it has one: nothing that is still held is
\* freed, and nothing is freed twice.
RefsExact ==
    netPc \notin {"destroy", "done"} =>
      \A c \in Conn :
        /\ refs[c] = TasksOf(c, queue) + TasksOf(c, tasks) + Count(c, snapshot)
                       + (IF Listed(c) \/ Unlinked(c) THEN 1 ELSE 0)
        /\ (life[c] = "live") <=> (refs[c] > 0)

\* The flush and the event loop only meet connections with an open descriptor:
\* a connection is out of the list, and out of the events being handled,
\* before its number can be reused by another socket.
ListedIsOpen ==
    /\ \A c \in Range(conns) : c \in fd
    /\ \A c \in batch \ {"listen"} : Listed(c)

\* A player who comes back after leaving finds everything the earlier session
\* did: that session's last save precedes the load, whichever thread makes it.
\* (Sessions of one player that overlap, and joins that fail half-way, are
\* another matter.)
Apart(p) ==
    \A c, d \in {e \in Conn : Who[e] = p /\ sock[e] # "none"} :
        c # d => c \in before[d] \/ d \in before[c]
Played == {c \in Conn : c \in data[c]}
RejoinSeesSave ==
    \A c \in loaded :
        Apart(Who[c]) /\ (before[c] \cup {c}) \cap unplaced = {}
            => before[c] \cap Played \subseteq data[c]

\* A client that left is found out and its connection freed, and so is a
\* connection the server gives up, once its client has taken the last bytes,
\* unless the server stops first.
GoneIsFreed ==
    \A c \in Conn :
        (sock[c] = "left" \/ closing[c]) /\ running
            ~> life[c] = "freed" \/ (closing[c] /\ sock[c] = "stalled") \/ ~running

\* Both threads end after a stop, and the connections still listed are freed.
StopEnds == ~running ~> (NetAt("done") /\ conns = << >>)
=============================================================================
