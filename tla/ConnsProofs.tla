----------------------------- MODULE ConnsProofs ------------------------------
(***************************************************************************)
(* Connections on two threads (Conns.tla), for any number of connections,  *)
(* players and packets: references are exact, what is listed is open, and  *)
(* a player who comes back finds everything the earlier session did.       *)
(***************************************************************************)
EXTENDS Conns, ListLemmas

-----------------------------------------------------------------------------
(* Counting tasks and connections.                                         *)

\* A connection has a count exactly if it has a task.
LEMMA TasksAreCounted ==
    ASSUME NEW c, NEW s \in Seq(Tasks)
    PROVE  /\ TasksOf(c, s) \in Nat
           /\ TasksOf(c, s) = 0 <=> \A i \in DOMAIN s : s[i].conn # c
<1> DEFINE I == {i \in DOMAIN s : s[i].conn = c}
<1>1. I \in SUBSET (1 .. Len(s)) /\ Len(s) \in Nat OBVIOUS
<1>2. IsFiniteSet(I) /\ Cardinality(I) \in Nat BY <1>1, PartOfInterval
<1>3. Cardinality(I) = 0 <=> I = {} BY <1>2, FS_EmptySet
<1>4. TasksOf(c, s) = Cardinality(I) BY DEF TasksOf
<1> QED BY <1>2, <1>3, <1>4

\* A task that is queued counts once more for its connection.
LEMMA TasksAppend ==
    ASSUME NEW c, NEW s \in Seq(Tasks), NEW t \in Tasks
    PROVE  TasksOf(c, Append(s, t)) = TasksOf(c, s) + (IF t.conn = c THEN 1 ELSE 0)
<1> DEFINE I == {i \in DOMAIN s : s[i].conn = c}
           J == {i \in DOMAIN Append(s, t) : Append(s, t)[i].conn = c}
           n == Len(s)
<1>1. /\ DOMAIN Append(s, t) = 1 .. n + 1 /\ DOMAIN s = 1 .. n /\ n \in Nat
      /\ \A i \in 1 .. n : Append(s, t)[i] = s[i]
      /\ Append(s, t)[n + 1] = t
  BY AppendElements
<1>2. n + 1 \notin I BY <1>1
<1>3. J = IF t.conn = c THEN I \cup {n + 1} ELSE I
  <2> HIDE DEF n
  <2>1. \A i \in 1 .. n + 1 : i \in 1 .. n \/ i = n + 1 BY <1>1
  <2>2. 1 .. n \subseteq 1 .. n + 1 /\ n + 1 \in 1 .. n + 1 BY <1>1
  <2> QED BY <1>1, <2>1, <2>2, Zenon
<1>4. IsFiniteSet(I) /\ Cardinality(I) \in Nat BY <1>1, PartOfInterval
<1>5. TasksOf(c, s) = Cardinality(I) /\ TasksOf(c, Append(s, t)) = Cardinality(J) BY DEF TasksOf
<1> HIDE DEF I, J, n
<1>6. Cardinality(I \cup {n + 1}) = Cardinality(I) + 1 BY <1>2, <1>4, FS_AddElement
<1> QED BY <1>3, <1>4, <1>5, <1>6

\* A task that is taken counts no more.
LEMMA TasksTail ==
    ASSUME NEW c, NEW s \in Seq(Tasks), s # << >>
    PROVE  TasksOf(c, Tail(s)) = TasksOf(c, s) - (IF Head(s).conn = c THEN 1 ELSE 0)
<1> DEFINE I == {i \in DOMAIN s : s[i].conn = c}
           n == Len(s)
           J == {j \in 1 .. n - 1 : j + 1 \in I}
<1>1. /\ n \in Nat \ {0} /\ DOMAIN Tail(s) = 1 .. n - 1 /\ DOMAIN s = 1 .. n
      /\ \A i \in 1 .. n - 1 : Tail(s)[i] = s[i + 1] /\ i + 1 \in DOMAIN s
      /\ Head(s) = s[1] /\ 1 \in DOMAIN s
  BY TailElements
<1>2. {i \in DOMAIN Tail(s) : Tail(s)[i].conn = c} = J
  <2> HIDE DEF n
  <2> QED BY <1>1
<1>3. TasksOf(c, s) = Cardinality(I) /\ TasksOf(c, Tail(s)) = Cardinality(J)
  BY <1>2 DEF TasksOf
<1>4. I \in SUBSET (1 .. n) BY <1>1
<1>5. 1 \in I <=> Head(s).conn = c BY <1>1
<1> HIDE DEF I, n
<1> QED BY <1>1, <1>3, <1>4, <1>5, PlacesShift

\* A connection that is taken from the snapshot counts once less.
LEMMA CountTail ==
    ASSUME NEW c, NEW s \in Seq(Conn), s # << >>
    PROVE  Count(c, Tail(s)) = Count(c, s) - (IF Head(s) = c THEN 1 ELSE 0)
<1> DEFINE I == {i \in DOMAIN s : s[i] = c}
           n == Len(s)
           J == {j \in 1 .. n - 1 : j + 1 \in I}
<1>1. /\ n \in Nat \ {0} /\ DOMAIN Tail(s) = 1 .. n - 1 /\ DOMAIN s = 1 .. n
      /\ \A i \in 1 .. n - 1 : Tail(s)[i] = s[i + 1] /\ i + 1 \in DOMAIN s
      /\ Head(s) = s[1] /\ 1 \in DOMAIN s
  BY TailElements
<1>2. {i \in DOMAIN Tail(s) : Tail(s)[i] = c} = J
  <2> HIDE DEF n
  <2> QED BY <1>1
<1>3. Count(c, s) = Cardinality(I) /\ Count(c, Tail(s)) = Cardinality(J)
  BY <1>2 DEF Count
<1>4. I \in SUBSET (1 .. n) BY <1>1
<1>5. 1 \in I <=> Head(s) = c BY <1>1
<1> HIDE DEF I, n
<1> QED BY <1>1, <1>3, <1>4, <1>5, PlacesShift

\* A connection has a count exactly if it occurs, and one if it cannot occur twice.
LEMMA ConnsAreCounted ==
    ASSUME NEW c, NEW s \in Seq(Conn)
    PROVE  /\ Count(c, s) \in Nat
           /\ Count(c, s) = 0 <=> c \notin Range(s)
           /\ IsInjective(s) => Count(c, s) = IF c \in Range(s) THEN 1 ELSE 0
<1> DEFINE I == {i \in DOMAIN s : s[i] = c}
<1>1. I \in SUBSET (1 .. Len(s)) /\ Len(s) \in Nat OBVIOUS
<1>2. IsFiniteSet(I) /\ Cardinality(I) \in Nat BY <1>1, PartOfInterval
<1>3. Cardinality(I) = 0 <=> I = {} BY <1>2, FS_EmptySet
<1>4. Count(c, s) = Cardinality(I) BY DEF Count
<1>5. I = {} <=> c \notin Range(s) BY DEF Range
<1>6. ASSUME IsInjective(s), c \in Range(s) PROVE Cardinality(I) = 1
  <2>1. PICK i \in DOMAIN s : s[i] = c BY <1>6 DEF Range
  <2>2. I = {i} BY <2>1, <1>6 DEF IsInjective
  <2> QED BY <2>2, FS_Singleton
<1> QED BY <1>2, <1>3, <1>4, <1>5, <1>6

-----------------------------------------------------------------------------
(* The inductive invariant.                                                *)

\* The list holds a connection once, and what it holds is allocated, also
\* when the server empties it at its end, with the tick thread gone.
NetList ==
    /\ IsInjective(conns)
    /\ netPc \in {"destroy", "done"} => tickPc = "exited" /\ \A c \in Conn : Listed(c) => life[c] = "live"

\* What is being closed is still listed, except the first one between its
\* removal and its release, and has no event left to be handled.
NetDoomed ==
    /\ IsInjective(doomed)
    /\ netPc \in {"unlink", "shut", "drop"} <=> doomed # << >>
    /\ \A i \in DOMAIN doomed :
         /\ doomed[i] \notin batch
         /\ Listed(doomed[i]) <=> (i > 1 \/ netPc = "unlink")

\* Packets are queued for a listed connection whose event has been taken.
NetBatch ==
    /\ netPc \in {"wait", "join", "destroy", "done"} \/ swept => batch = {}
    /\ netPc = "decode" => ~swept
    /\ \A i \in DOMAIN input : input[i].conn \notin batch /\ Listed(input[i].conn)
    /\ input # << >> => netPc = "decode"

\* Each part of a tick leaves nothing to the next.
TickLists ==
    /\ tasks # << >> => tickPc \in {"tasks", "release", "rest"}
    /\ tickPc = "release" => tasks # << >>
    /\ snapshot # << >> => tickPc \in {"unsnap", "turns", "flush", "clear"}

\* The inductive invariant of typing, reference counts and open descriptors.
ConnsInv ==
    TypeOK /\ RefsExact /\ ListedIsOpen /\ NetList /\ NetDoomed /\ NetBatch /\ TickLists

USE DEF NetAt, TickAt, Listed

-----------------------------------------------------------------------------
(* What the parts of the invariant read.                                   *)

\* References count what these variables hold.
LEMMA RefsFrame ==
    ASSUME RefsExact, UNCHANGED << refs, life, queue, tasks, snapshot, conns, doomed, netPc >>
    PROVE  RefsExact'
BY DEF RefsExact, TasksOf, Count, Unlinked

LEMMA OpenFrame ==
    ASSUME ListedIsOpen, UNCHANGED << conns, fd, batch >>
    PROVE  ListedIsOpen'
BY DEF ListedIsOpen

LEMMA NetFrame ==
    ASSUME NetList, NetDoomed, NetBatch, UNCHANGED << netVars, conns, life >>,
           tickPc = "exited" => tickPc' = "exited"
    PROVE  NetList' /\ NetDoomed' /\ NetBatch'
BY DEF NetList, NetDoomed, NetBatch, netVars

LEMMA TickFrame ==
    ASSUME TickLists, UNCHANGED tickVars
    PROVE  TickLists'
BY DEF TickLists, tickVars

-----------------------------------------------------------------------------
LEMMA InitHolds == ASSUME Init PROVE ConnsInv
<1>1. TypeOK BY ConnsAssumption DEF Init, TypeOK, NetPcs, TickPcs
<1>2. Range(conns) = {} BY DEF Init, Range
<1>3. RefsExact
  <2> SUFFICES ASSUME NEW c \in Conn
               PROVE  /\ refs[c] = TasksOf(c, queue) + TasksOf(c, tasks) + Count(c, snapshot)
                                     + (IF Listed(c) \/ Unlinked(c) THEN 1 ELSE 0)
                      /\ (life[c] = "live") <=> (refs[c] > 0)
    BY DEF RefsExact
  <2>1. TasksOf(c, queue) = 0 /\ TasksOf(c, tasks) = 0
    <3>1. queue \in Seq(Tasks) /\ DOMAIN queue = {} /\ tasks \in Seq(Tasks) /\ DOMAIN tasks = {}
      BY DEF Init
    <3> QED BY <3>1, TasksAreCounted
  <2>2. Count(c, snapshot) = 0
    <3>1. Range(snapshot) = {} BY DEF Init, Range
    <3> QED BY <3>1, <1>1, ConnsAreCounted DEF TypeOK
  <2>3. ~Unlinked(c) BY DEF Init, Unlinked
  <2> QED BY <2>1, <2>2, <2>3, <1>2 DEF Init
<1>4. ListedIsOpen BY <1>2 DEF ListedIsOpen, Init
<1>5. NetList /\ NetDoomed /\ NetBatch /\ TickLists
  BY <1>2 DEF NetList, NetDoomed, NetBatch, TickLists, Init, IsInjective
<1> QED BY <1>1, <1>3, <1>4, <1>5 DEF ConnsInv

\* The steps of clients, of the end of the server and of nobody.
LEMMA ClientKeeps == ASSUME ConnsInv, Client PROVE ConnsInv'
<1>1. UNCHANGED << lifeVars, conns, queue, netVars, tickVars, running, playVars >>
  BY DEF Client, Connect, Send, Quit
<1>2. TypeOK'
  <2>1. /\ sock' \in [Conn -> {"none", "open", "stalled", "left"}]
        /\ wire' \in [Conn -> Seq(Packets)]
        /\ count' \in [Conn -> Nat]
        /\ before' \in [Conn -> SUBSET Conn]
    <3>1. ASSUME NEW c \in Conn, Connect(c) PROVE <2>1!:
      BY <3>1 DEF Connect, ConnsInv, TypeOK, SameAs
    <3>2. ASSUME NEW c \in Conn, NEW p \in Packets, Send(c, p) PROVE <2>1!:
      <4>1. Append(wire[c], p) \in Seq(Packets) BY DEF ConnsInv, TypeOK
      <4> QED BY <4>1, <3>2 DEF Send, ConnsInv, TypeOK
    <3>3. ASSUME NEW c \in Conn, NEW how \in {"stalled", "left"}, Quit(c, how) PROVE <2>1!:
      BY <3>3 DEF Quit, ConnsInv, TypeOK
    <3> QED BY <3>1, <3>2, <3>3 DEF Client
  <2> QED BY <1>1, <2>1 DEF ConnsInv, TypeOK, lifeVars, netVars, tickVars, playVars
<1>3. RefsExact' /\ ListedIsOpen'
  BY <1>1, RefsFrame, OpenFrame DEF ConnsInv, lifeVars, netVars, tickVars
<1>4. NetList' /\ NetDoomed' /\ NetBatch' /\ TickLists'
  BY <1>1, NetFrame, TickFrame DEF ConnsInv, lifeVars, netVars, tickVars
<1> QED BY <1>2, <1>3, <1>4 DEF ConnsInv

LEMMA StopKeeps == ASSUME ConnsInv, Stop PROVE ConnsInv'
<1>1. UNCHANGED << clientVars, lifeVars, conns, queue, netVars, tickVars, playVars >> /\ running' = FALSE
  BY DEF Stop
<1>2. TypeOK'
  BY <1>1 DEF ConnsInv, TypeOK, clientVars, lifeVars, netVars, tickVars, playVars
<1>3. RefsExact' /\ ListedIsOpen'
  BY <1>1, RefsFrame, OpenFrame DEF ConnsInv, lifeVars, netVars, tickVars
<1>4. NetList' /\ NetDoomed' /\ NetBatch' /\ TickLists'
  BY <1>1, NetFrame, TickFrame DEF ConnsInv, lifeVars, netVars, tickVars
<1> QED BY <1>2, <1>3, <1>4 DEF ConnsInv

LEMMA IdleKeeps == ASSUME ConnsInv, UNCHANGED vars PROVE ConnsInv'
<1>1. UNCHANGED << clientVars, lifeVars, conns, queue, netVars, tickVars, running, playVars >>
  BY DEF vars
<1>2. TypeOK'
  BY <1>1 DEF ConnsInv, TypeOK, clientVars, lifeVars, netVars, tickVars, playVars
<1>3. RefsExact' /\ ListedIsOpen'
  BY <1>1, RefsFrame, OpenFrame DEF ConnsInv, lifeVars, netVars, tickVars
<1>4. NetList' /\ NetDoomed' /\ NetBatch' /\ TickLists'
  BY <1>1, NetFrame, TickFrame DEF ConnsInv, lifeVars, netVars, tickVars
<1> QED BY <1>2, <1>3, <1>4 DEF ConnsInv

-----------------------------------------------------------------------------
(* The network thread.                                                     *)

\* What changes the list of connections or what is being closed, and no count.
LEMMA HeldAsBefore ==
    ASSUME RefsExact, UNCHANGED << refs, life, queue, tasks, snapshot >>,
           netPc \notin {"destroy", "done"},
           \A c \in Conn : (Listed(c) \/ Unlinked(c))' <=> Listed(c) \/ Unlinked(c)
    PROVE  RefsExact'
BY DEF RefsExact, TasksOf, Count

\* The steps of the network thread.
LEMMA WaitKeeps == ASSUME ConnsInv, Wait PROVE ConnsInv'
<1> USE DEF clientVars, lifeVars, netVars, tickVars, playVars
<1>1. UNCHANGED << clientVars, lifeVars, conns, queue, input, doomed, tickVars, running, playVars >>
  BY DEF Wait
<1>2. netPc = "wait" /\ netPc' \in {"serve", "join"} /\ swept' \in BOOLEAN
      /\ (netPc' = "serve" => ~swept')
  BY DEF Wait, ConnsInv, TypeOK
<1>3. /\ batch' \subseteq Conn \cup {"listen"} /\ \A c \in batch' \ {"listen"} : Listed(c)
      /\ netPc' = "join" => batch' = {}
  BY <1>2 DEF Wait, Readable, Backlog, ConnsInv, TypeOK, NetBatch, ListedIsOpen, Range
<1>4. doomed = << >> /\ input = << >>
  BY <1>2 DEF ConnsInv, NetDoomed, NetBatch
<1>5. TypeOK' BY <1>1, <1>2, <1>3 DEF ConnsInv, TypeOK, NetPcs
<1>6. RefsExact' BY <1>1, <1>2, HeldAsBefore DEF ConnsInv, Unlinked
<1>7. ListedIsOpen' BY <1>1, <1>3 DEF ConnsInv, ListedIsOpen
<1>8. NetList' /\ NetDoomed' /\ NetBatch'
  BY <1>1, <1>2, <1>3, <1>4 DEF ConnsInv, NetList, NetDoomed, NetBatch
<1>9. TickLists' BY <1>1 DEF ConnsInv, TickLists
<1> QED BY <1>5, <1>6, <1>7, <1>8, <1>9 DEF ConnsInv

LEMMA AcceptKeeps == ASSUME ConnsInv, Accept PROVE ConnsInv'
<1> USE DEF clientVars, lifeVars, netVars, tickVars, playVars
<1>1. /\ UNCHANGED << clientVars, state, closing, out, queue, netPc, swept, input, doomed,
                      tickVars, running, playVars >>
      /\ netPc = "serve" /\ "listen" \in batch
  BY DEF Accept
<1>2. doomed = << >> /\ input = << >>
  BY <1>1 DEF ConnsInv, NetDoomed, NetBatch
<1>3. TickLists' BY <1>1 DEF ConnsInv, TickLists
<1>4. CASE Backlog = {}
  <2>1. batch' = batch \ {"listen"} /\ UNCHANGED << life, refs, fd, conns >> BY <1>4 DEF Accept
  <2>2. TypeOK' BY <1>1, <2>1 DEF ConnsInv, TypeOK
  <2>3. RefsExact' BY <1>1, <2>1, RefsFrame DEF ConnsInv
  <2>4. ListedIsOpen' BY <1>1, <2>1 DEF ConnsInv, ListedIsOpen
  <2>5. NetList' /\ NetDoomed' /\ NetBatch'
    BY <1>1, <1>2, <2>1 DEF ConnsInv, NetList, NetDoomed, NetBatch
  <2> QED BY <2>2, <2>3, <2>4, <2>5, <1>3 DEF ConnsInv
<1>5. CASE Backlog # {}
  <2>1. PICK c \in Backlog : /\ life' = [life EXCEPT ![c] = "live"]
                             /\ refs' = [refs EXCEPT ![c] = 1]
                             /\ fd' = fd \cup {c}
                             /\ conns' = << c >> \o conns
                             /\ UNCHANGED batch
    BY <1>5 DEF Accept
  <2>2. c \in Conn /\ life[c] = "none" BY DEF Backlog
  <2>3. refs[c] = 0 /\ ~Listed(c) /\ TasksOf(c, queue) = 0 /\ TasksOf(c, tasks) = 0
        /\ Count(c, snapshot) = 0
    <3>1. /\ TasksOf(c, queue) \in Nat /\ TasksOf(c, tasks) \in Nat /\ Count(c, snapshot) \in Nat
          /\ refs[c] \in Nat
      BY <2>2, TasksAreCounted, ConnsAreCounted DEF ConnsInv, TypeOK
    <3>2. /\ refs[c] = TasksOf(c, queue) + TasksOf(c, tasks) + Count(c, snapshot)
                         + (IF Listed(c) \/ Unlinked(c) THEN 1 ELSE 0)
          /\ ~(refs[c] > 0)
      BY <1>1, <2>2 DEF ConnsInv, RefsExact
    <3> DEFINE l == IF Listed(c) \/ Unlinked(c) THEN 1 ELSE 0
    <3>3. l \in Nat /\ (l = 0 => ~Listed(c)) OBVIOUS
    <3>4. refs[c] = TasksOf(c, queue) + TasksOf(c, tasks) + Count(c, snapshot) + l BY <3>2
    <3> HIDE DEF l, Listed
    <3>5. refs[c] = 0 BY <3>1, <3>2
    <3>6. TasksOf(c, queue) = 0 /\ TasksOf(c, tasks) = 0 /\ Count(c, snapshot) = 0 /\ l = 0
      BY <3>1, <3>3, <3>4, <3>5
    <3> QED BY <3>3, <3>5, <3>6
  <2>4. /\ conns' \in Seq(Conn) /\ IsInjective(conns') /\ Range(conns') = Range(conns) \cup {c}
    BY <2>1, <2>2, <2>3, PrependList DEF ConnsInv, TypeOK, NetList
  <2>5. TypeOK' BY <1>1, <2>1, <2>2, <2>4 DEF ConnsInv, TypeOK
  <2>6. RefsExact'
    <3>1. \A d \in Conn : ~Unlinked(d) /\ ~Unlinked(d)' BY <1>1 DEF Unlinked
    <3>2. \A d \in Conn : /\ TasksOf(d, queue)' = TasksOf(d, queue)
                          /\ TasksOf(d, tasks)' = TasksOf(d, tasks)
                          /\ Count(d, snapshot)' = Count(d, snapshot)
      BY <1>1 DEF TasksOf, Count
    <3>3. ASSUME NEW d \in Conn
          PROVE  /\ refs'[d] = TasksOf(d, queue) + TasksOf(d, tasks) + Count(d, snapshot)
                                 + (IF d \in Range(conns') THEN 1 ELSE 0)
                 /\ (life'[d] = "live") <=> (refs'[d] > 0)
      <4>1. CASE d = c
        <5>1. refs'[c] = 1 /\ life'[c] = "live" /\ c \in Range(conns')
          BY <2>1, <2>2, <2>4 DEF ConnsInv, TypeOK
        <5> QED BY <4>1, <5>1, <2>3
      <4>2. CASE d # c
        <5>1. refs'[d] = refs[d] /\ life'[d] = life[d] /\ (d \in Range(conns') <=> d \in Range(conns))
          BY <4>2, <2>1, <2>2, <2>4 DEF ConnsInv, TypeOK
        <5>2. /\ refs[d] = TasksOf(d, queue) + TasksOf(d, tasks) + Count(d, snapshot)
                             + (IF d \in Range(conns) THEN 1 ELSE 0)
              /\ (life[d] = "live") <=> (refs[d] > 0)
          BY <1>1, <3>1 DEF ConnsInv, RefsExact
        <5> QED BY <5>1, <5>2
      <4> QED BY <4>1, <4>2
    <3> QED BY <3>1, <3>2, <3>3 DEF RefsExact
  <2>7. ListedIsOpen' BY <1>1, <2>1, <2>4 DEF ConnsInv, ListedIsOpen
  <2>8. NetList' /\ NetDoomed' /\ NetBatch'
    BY <1>1, <1>2, <2>1, <2>4 DEF ConnsInv, NetList, NetDoomed, NetBatch
  <2> QED BY <2>5, <2>6, <2>7, <2>8, <1>3 DEF ConnsInv
<1> QED BY <1>4, <1>5

LEMMA RecvKeeps == ASSUME ConnsInv, NEW c \in Conn, Recv(c) PROVE ConnsInv'
<1> USE DEF clientVars, lifeVars, netVars, tickVars, playVars
<1>1. /\ UNCHANGED << sock, count, before, lifeVars, conns, queue, swept, tickVars, running,
                      playVars >>
      /\ netPc = "serve" /\ c \in batch /\ batch' = batch \ {c}
      /\ wire' = [wire EXCEPT ![c] = << >>]
  BY DEF Recv, Foremost
<1>2. doomed = << >> /\ input = << >> /\ ~swept
  BY <1>1 DEF ConnsInv, NetDoomed, NetBatch
<1>3. TickLists' BY <1>1 DEF ConnsInv, TickLists
<1>4. Listed(c) BY <1>1, ConnsAssumption DEF ConnsInv, ListedIsOpen
<1>5. wire' \in [Conn -> Seq(Packets)] BY <1>1 DEF ConnsInv, TypeOK
<1>6. ListedIsOpen' BY <1>1 DEF ConnsInv, ListedIsOpen
<1>7. CASE sock[c] = "left"
  <2>1. netPc' = "unlink" /\ doomed' = << c >> /\ UNCHANGED input BY <1>7 DEF Recv
  <2>2. doomed' \in Seq(Conn) /\ DOMAIN doomed' = {1} /\ doomed'[1] = c /\ doomed' # << >>
    BY <2>1
  <2>3. TypeOK' BY <1>1, <1>5, <2>1, <2>2 DEF ConnsInv, TypeOK, NetPcs
  <2>4. RefsExact' BY <1>1, <2>1, HeldAsBefore DEF ConnsInv, Unlinked
  <2>5. NetList' /\ NetBatch'
    BY <1>1, <1>2, <2>1 DEF ConnsInv, NetList, NetBatch
  <2>6. NetDoomed' BY <1>1, <1>4, <2>1, <2>2 DEF NetDoomed, IsInjective
  <2> QED BY <1>3, <1>6, <2>3, <2>4, <2>5, <2>6 DEF ConnsInv
<1>8. CASE sock[c] # "left"
  <2>1. /\ netPc' = "decode" /\ UNCHANGED doomed
        /\ input' = [i \in DOMAIN wire[c] |-> [conn |-> c, packet |-> wire[c][i]]]
    BY <1>8 DEF Recv
  <2>2. wire[c] \in Seq(Packets) BY DEF ConnsInv, TypeOK
  <2>3. /\ DOMAIN wire[c] = 1 .. Len(wire[c]) /\ Len(wire[c]) \in Nat
        /\ \A i \in DOMAIN wire[c] : wire[c][i] \in Packets
    BY <2>2
  <2>4. input' \in Seq(Tasks) /\ \A i \in DOMAIN input' : input'[i].conn = c
    BY <2>1, <2>3 DEF Tasks
  <2>5. TypeOK' BY <1>1, <1>5, <2>1, <2>4 DEF ConnsInv, TypeOK, NetPcs
  <2>6. RefsExact' BY <1>1, <2>1, HeldAsBefore DEF ConnsInv, Unlinked
  <2>7. NetList' /\ NetDoomed'
    BY <1>1, <1>2, <2>1 DEF ConnsInv, NetList, NetDoomed
  <2>8. NetBatch' BY <1>1, <1>2, <1>4, <2>1, <2>4 DEF NetBatch
  <2> QED BY <1>3, <1>6, <2>5, <2>6, <2>7, <2>8 DEF ConnsInv
<1> QED BY <1>7, <1>8

LEMMA DecodeKeeps == ASSUME ConnsInv, Decode PROVE ConnsInv'
<1> USE DEF clientVars, lifeVars, netVars, tickVars, playVars
<1>1. /\ UNCHANGED << clientVars, life, fd, state, closing, out, conns, batch, swept, tickVars,
                      running, playVars >>
      /\ netPc = "decode"
  BY DEF Decode
<1>2. doomed = << >> /\ ~swept BY <1>1 DEF ConnsInv, NetDoomed, NetBatch
<1>3. TickLists' BY <1>1 DEF ConnsInv, TickLists
<1>4. ListedIsOpen' BY <1>1 DEF ConnsInv, ListedIsOpen
<1>5. CASE input = << >>
  <2>1. netPc' = "serve" /\ UNCHANGED << input, queue, refs, doomed >> BY <1>5 DEF Decode
  <2>2. TypeOK' BY <1>1, <2>1 DEF ConnsInv, TypeOK, NetPcs
  <2>3. RefsExact' BY <1>1, <2>1, HeldAsBefore DEF ConnsInv, Unlinked
  <2>4. NetList' /\ NetDoomed' /\ NetBatch'
    BY <1>1, <1>2, <1>5, <2>1 DEF ConnsInv, NetList, NetDoomed, NetBatch
  <2> QED BY <1>3, <1>4, <2>2, <2>3, <2>4 DEF ConnsInv
<1>6. ASSUME input # << >>
      PROVE  /\ Head(input) \in Tasks /\ Head(input).conn \in Conn /\ Tail(input) \in Seq(Tasks)
             /\ Head(input).conn \notin batch /\ Listed(Head(input).conn)
             /\ \A i \in DOMAIN Tail(input) :
                  Tail(input)[i].conn \notin batch /\ Listed(Tail(input)[i].conn)
  <2>1. input \in Seq(Tasks) BY DEF ConnsInv, TypeOK
  <2>2. /\ Tail(input) \in Seq(Tasks) /\ DOMAIN Tail(input) = 1 .. Len(input) - 1
        /\ \A i \in 1 .. Len(input) - 1 : Tail(input)[i] = input[i + 1] /\ i + 1 \in DOMAIN input
        /\ Head(input) = input[1] /\ Head(input) \in Tasks /\ 1 \in DOMAIN input
    BY <1>6, <2>1, TailElements
  <2> QED BY <2>2 DEF ConnsInv, NetBatch, Tasks
<1>7. CASE input # << >> /\ Head(input).packet = "garbled"
  <2>1. /\ netPc' = "unlink" /\ doomed' = << Head(input).conn >>
        /\ input' = << >> /\ UNCHANGED << queue, refs >>
    BY <1>7 DEF Decode
  <2>2. DOMAIN doomed' = {1} /\ doomed'[1] = Head(input).conn /\ doomed' # << >> BY <2>1
  <2>3. TypeOK' BY <1>1, <1>6, <1>7, <2>1 DEF ConnsInv, TypeOK, NetPcs
  <2>4. RefsExact' BY <1>1, <2>1, HeldAsBefore DEF ConnsInv, Unlinked
  <2>5. NetList' /\ NetBatch' BY <1>1, <1>2, <2>1 DEF ConnsInv, NetList, NetBatch
  <2>6. NetDoomed' BY <1>1, <1>6, <1>7, <2>1, <2>2 DEF NetDoomed, IsInjective
  <2> QED BY <1>3, <1>4, <2>3, <2>4, <2>5, <2>6 DEF ConnsInv
<1>8. CASE input # << >> /\ Head(input).packet # "garbled"
  <2> DEFINE c == Head(input).conn
  <2>1. /\ refs' = [refs EXCEPT ![c] = @ + 1]
        /\ queue' = Append(queue, Head(input))
        /\ input' = Tail(input) /\ UNCHANGED << netPc, doomed >>
    BY <1>8 DEF Decode
  <2>2. refs' \in [Conn -> Nat] /\ \A d \in Conn : refs'[d] = refs[d] + (IF d = c THEN 1 ELSE 0)
    <3>1. refs \in [Conn -> Nat] /\ c \in Conn BY <1>6, <1>8 DEF ConnsInv, TypeOK
    <3> HIDE DEF c
    <3> QED BY <3>1, <2>1
  <2>3. queue \in Seq(Tasks) /\ queue' \in Seq(Tasks)
    <3>1. queue \in Seq(Tasks) BY DEF ConnsInv, TypeOK
    <3> QED BY <3>1, <1>6, <1>8, <2>1, AppendElements
  <2>4. \A d \in Conn : TasksOf(d, queue') = TasksOf(d, queue) + (IF d = c THEN 1 ELSE 0)
    BY <1>6, <1>8, <2>1, <2>3, TasksAppend
  <2>5. TypeOK' BY <1>1, <1>6, <1>8, <2>1, <2>2, <2>3 DEF ConnsInv, TypeOK
  <2>6. RefsExact'
    <3>1. \A d \in Conn : ~Unlinked(d) /\ ~Unlinked(d)' BY <1>1, <2>1 DEF Unlinked
    <3>2. \A d \in Conn : TasksOf(d, tasks)' = TasksOf(d, tasks)
                          /\ Count(d, snapshot)' = Count(d, snapshot)
      BY <1>1 DEF TasksOf, Count
    <3>3. ASSUME NEW d \in Conn
          PROVE  /\ refs'[d] = TasksOf(d, queue') + TasksOf(d, tasks) + Count(d, snapshot)
                                 + (IF d \in Range(conns) THEN 1 ELSE 0)
                 /\ (life[d] = "live") <=> (refs'[d] > 0)
      <4>1. /\ refs[d] = TasksOf(d, queue) + TasksOf(d, tasks) + Count(d, snapshot)
                             + (IF d \in Range(conns) THEN 1 ELSE 0)
            /\ (life[d] = "live") <=> (refs[d] > 0)
        BY <1>1, <3>1 DEF ConnsInv, RefsExact
      <4>2. TasksOf(d, queue) \in Nat /\ TasksOf(d, tasks) \in Nat /\ Count(d, snapshot) \in Nat
        BY TasksAreCounted, ConnsAreCounted DEF ConnsInv, TypeOK
      <4>3. d = c => d \in Range(conns) BY <1>6, <1>8
      <4> HIDE DEF c
      <4> QED BY <4>1, <4>2, <4>3, <2>2, <2>4
    <3> QED BY <1>1, <2>1, <3>1, <3>2, <3>3 DEF RefsExact
  <2>7. NetList' /\ NetDoomed' BY <1>1, <2>1 DEF ConnsInv, NetList, NetDoomed
  <2>8. NetBatch' BY <1>1, <1>2, <1>6, <1>8, <2>1 DEF NetBatch
  <2> QED BY <1>3, <1>4, <2>5, <2>6, <2>7, <2>8 DEF ConnsInv
<1> QED BY <1>5, <1>7, <1>8

LEMMA SweepKeeps == ASSUME ConnsInv, Sweep PROVE ConnsInv'
<1> USE DEF clientVars, lifeVars, netVars, tickVars, playVars
<1>1. /\ UNCHANGED << clientVars, lifeVars, conns, queue, batch, input, tickVars, running, playVars >>
      /\ netPc = "serve" /\ batch = {} /\ swept' = TRUE
      /\ doomed' \in SetToSeqs(Closable)
      /\ netPc' = IF doomed' = << >> THEN "wait" ELSE "unlink"
  BY DEF Sweep
<1>2. input = << >> BY <1>1 DEF ConnsInv, NetBatch
<1>3. /\ doomed' \in Seq(Conn) /\ IsInjective(doomed')
      /\ \A i \in DOMAIN doomed' : doomed'[i] \in Range(conns)
  <2>1. conns \in Seq(Conn) /\ Closable \in SUBSET Range(conns) BY DEF Closable, ConnsInv, TypeOK
  <2>2. doomed' \in Seq(Conn) /\ IsInjective(doomed') /\ Range(doomed') = Closable
    BY <2>1, <1>1, OrderOfSome
  <2> QED BY <2>1, <2>2 DEF Range
<1>4. TypeOK' BY <1>1, <1>3 DEF ConnsInv, TypeOK, NetPcs
<1>5. RefsExact' BY <1>1, HeldAsBefore DEF ConnsInv, Unlinked
<1>6. ListedIsOpen' BY <1>1 DEF ConnsInv, ListedIsOpen
<1>7. NetList' /\ NetBatch' BY <1>1, <1>2 DEF ConnsInv, NetList, NetBatch
<1>8. NetDoomed'
  <2>1. \A i \in DOMAIN doomed' : netPc' = "unlink" BY <1>1, <1>3
  <2> QED BY <2>1, <1>1, <1>3 DEF NetDoomed
<1>9. TickLists' BY <1>1 DEF ConnsInv, TickLists
<1> QED BY <1>4, <1>5, <1>6, <1>7, <1>8, <1>9 DEF ConnsInv

\* What is being closed is a connection, and the first of a list of them.
LEMMA DoomedFirst ==
    ASSUME ConnsInv, netPc \in {"unlink", "shut", "drop"}
    PROVE  /\ doomed \in Seq(Conn) /\ doomed # << >> /\ Head(doomed) = doomed[1]
           /\ 1 \in DOMAIN doomed /\ Head(doomed) \in Conn
           /\ Len(doomed) \in Nat \ {0} /\ DOMAIN doomed = 1 .. Len(doomed)
           /\ \A i \in DOMAIN doomed : i > 1 => doomed[i] # Head(doomed)
           /\ (Listed(Head(doomed)) <=> netPc = "unlink")
           /\ Head(doomed) \notin batch
<1>1. doomed \in Seq(Conn) /\ doomed # << >> BY DEF ConnsInv, TypeOK, NetDoomed
<1>2. /\ Head(doomed) = doomed[1] /\ 1 \in DOMAIN doomed /\ Head(doomed) \in Conn
      /\ Len(doomed) \in Nat \ {0} /\ DOMAIN doomed = 1 .. Len(doomed)
  BY <1>1, TailElements
<1> QED BY <1>1, <1>2 DEF ConnsInv, NetDoomed, IsInjective

LEMMA UnlinkKeeps == ASSUME ConnsInv, Unlink PROVE ConnsInv'
<1> USE DEF clientVars, lifeVars, netVars, tickVars, playVars
<1>1. /\ UNCHANGED << clientVars, life, refs, fd, state, closing, queue, batch, swept, input,
                      doomed, tickVars, running, playVars >>
      /\ netPc = "unlink" /\ netPc' = "shut"
      /\ conns' = RemoveFirst(conns, Head(doomed))
      /\ out' \subseteq out \cup Range(conns)
  BY DEF Unlink, Watchers
<1> DEFINE c == Head(doomed)
<1>2. /\ 1 \in DOMAIN doomed /\ c \in Conn /\ c = doomed[1]
      /\ \A i \in DOMAIN doomed : i > 1 => doomed[i] # c
      /\ Listed(c) /\ c \notin batch /\ DOMAIN doomed = 1 .. Len(doomed) /\ Len(doomed) \in Nat \ {0}
  BY <1>1, DoomedFirst
<1>3. /\ conns' \in Seq(Conn) /\ IsInjective(conns') /\ Range(conns') = Range(conns) \ {c}
  BY <1>1, <1>2, RemoveList DEF ConnsInv, TypeOK, NetList
<1>4. Range(conns) \subseteq Conn BY DEF ConnsInv, TypeOK, Range
<1>5. TypeOK' BY <1>1, <1>3, <1>4 DEF ConnsInv, TypeOK, NetPcs
<1>6. RefsExact'
  <2>1. \A d \in Conn : (Listed(d) \/ Unlinked(d))' <=> Listed(d) \/ Unlinked(d)
    BY <1>1, <1>2, <1>3 DEF Unlinked
  <2> QED BY <1>1, <2>1, HeldAsBefore DEF ConnsInv
<1>7. ListedIsOpen' BY <1>1, <1>2, <1>3 DEF ConnsInv, ListedIsOpen
<1>8. NetList' /\ TickLists' BY <1>1, <1>3 DEF ConnsInv, NetList, TickLists
<1>9. NetBatch'
  <2>1. input = << >> BY <1>1 DEF ConnsInv, NetBatch
  <2> QED BY <1>1, <2>1 DEF ConnsInv, NetBatch
<1>10. NetDoomed'
  <2>1. \A i \in DOMAIN doomed : doomed[i] \in Range(conns') <=> i > 1
    BY <1>1, <1>2, <1>3 DEF ConnsInv, NetDoomed
  <2> QED BY <2>1, <1>1 DEF ConnsInv, NetDoomed
<1> QED BY <1>5, <1>6, <1>7, <1>8, <1>9, <1>10 DEF ConnsInv

LEMMA ShutKeeps == ASSUME ConnsInv, Shut PROVE ConnsInv'
<1> USE DEF clientVars, lifeVars, netVars, tickVars, playVars
<1>1. /\ UNCHANGED << count, before, life, refs, state, out, conns, queue, batch, swept, input,
                      doomed, tickVars, running, playVars >>
      /\ netPc = "shut" /\ netPc' = "drop"
      /\ fd' = fd \ {Head(doomed)}
      /\ closing' = [closing EXCEPT ![Head(doomed)] = TRUE]
      /\ sock' = [sock EXCEPT ![Head(doomed)] = "left"]
      /\ wire' = [wire EXCEPT ![Head(doomed)] = << >>]
  BY DEF Shut
<1>2. Head(doomed) \in Conn /\ ~Listed(Head(doomed)) BY <1>1, DoomedFirst
<1>3. TypeOK'
  <2>1. wire' \in [Conn -> Seq(Packets)] /\ closing' \in [Conn -> BOOLEAN] /\ fd' \subseteq Conn
        /\ sock' \in [Conn -> {"none", "open", "stalled", "left"}]
    BY <1>1, <1>2 DEF ConnsInv, TypeOK
  <2> QED BY <1>1, <2>1 DEF ConnsInv, TypeOK, NetPcs
<1>4. RefsExact'
  <2>1. \A d \in Conn : (Listed(d) \/ Unlinked(d))' <=> Listed(d) \/ Unlinked(d)
    BY <1>1 DEF Unlinked
  <2> QED BY <1>1, <2>1, HeldAsBefore DEF ConnsInv
<1>5. ListedIsOpen' BY <1>1, <1>2 DEF ConnsInv, ListedIsOpen
<1>6. NetList' /\ TickLists' /\ NetBatch' /\ NetDoomed'
  BY <1>1 DEF ConnsInv, NetList, TickLists, NetBatch, NetDoomed
<1> QED BY <1>3, <1>4, <1>5, <1>6 DEF ConnsInv

\* The parts of TypeOK that the end of a connection changes.
LifeType ==
    /\ life \in [Conn -> {"none", "live", "freed"}]
    /\ refs \in [Conn -> Nat]
    /\ fd \subseteq Conn
    /\ state \in [Conn -> {"early", "play"}]
    /\ closing \in [Conn -> BOOLEAN]
    /\ out \subseteq Conn
PlayType ==
    /\ loaded \subseteq Conn
    /\ data \in [Conn -> SUBSET Conn]
    /\ window \subseteq Conn
    /\ file \in [Players -> SUBSET Conn]
    /\ stored \subseteq Conn
    /\ unplaced \subseteq Conn

\* The end of a connection keeps typing,
LEMMA DestroyKeeps ==
    ASSUME TypeOK, NEW c \in Conn, conn_destroy(c)
    PROVE  /\ life' \in [Conn -> {"none", "live", "freed"}]
           /\ fd' \subseteq Conn /\ state' \in [Conn -> {"early", "play"}]
           /\ closing' \in [Conn -> BOOLEAN] /\ out' \subseteq Conn
           /\ PlayType'
           /\ life'[c] = "freed" /\ \A d \in Conn : d # c => life'[d] = life[d]
           /\ \A d \in fd : d # c => d \in fd'
<1>1. Who[c] \in Players BY ConnsAssumption
<1>2. PlayType' BY <1>1 DEF conn_destroy, Cleanup, PlayType, TypeOK
<1> QED BY <1>2 DEF conn_destroy, TypeOK

\* and so does giving up one of its references.
LEMMA ReleaseKeeps ==
    ASSUME TypeOK, NEW c \in Conn, refs[c] > 0, conn_release(c),
           \A d \in Conn : (life[d] = "live") <=> (refs[d] > 0)
    PROVE  /\ LifeType' /\ PlayType'
           /\ \A d \in Conn : refs'[d] = IF d = c THEN refs[d] - 1 ELSE refs[d]
           /\ \A d \in Conn : (life'[d] = "live") <=> (refs'[d] > 0)
           /\ \A d \in fd : d # c \/ refs'[c] > 0 => d \in fd'
<1>1. refs' \in [Conn -> Nat] /\ \A d \in Conn : refs'[d] = IF d = c THEN refs[d] - 1 ELSE refs[d]
  BY DEF conn_release, TypeOK
<1>2. CASE refs[c] = 1
  <2>1. conn_destroy(c) BY <1>2 DEF conn_release
  <2>2. refs'[c] = 0 BY <1>1, <1>2
  <2>3. LifeType' /\ PlayType' BY <1>1, <2>1, DestroyKeeps DEF LifeType
  <2>4. life'[c] = "freed" /\ \A d \in Conn : d # c => life'[d] = life[d]
    BY <2>1, DestroyKeeps
  <2>5. \A d \in fd : d # c => d \in fd' BY <2>1, DestroyKeeps
  <2> QED BY <1>1, <2>2, <2>3, <2>4, <2>5
<1>3. CASE refs[c] # 1
  <2>1. UNCHANGED << playVars, life, fd, state, closing, out >> BY <1>3 DEF conn_release
  <2>2. refs'[c] > 0 BY <1>1, <1>3 DEF TypeOK
  <2> QED BY <1>1, <2>1, <2>2 DEF LifeType, PlayType, TypeOK, playVars
<1> QED BY <1>2, <1>3

\* What a connection's count is made of.
LEMMA CountsAdd ==
    ASSUME ConnsInv, netPc \notin {"destroy", "done"}, NEW c \in Conn
    PROVE  /\ TasksOf(c, queue) \in Nat /\ TasksOf(c, tasks) \in Nat /\ Count(c, snapshot) \in Nat
           /\ refs[c] \in Nat
           /\ refs[c] = TasksOf(c, queue) + TasksOf(c, tasks) + Count(c, snapshot)
                          + (IF Listed(c) \/ Unlinked(c) THEN 1 ELSE 0)
           /\ (life[c] = "live") <=> (refs[c] > 0)
BY TasksAreCounted, ConnsAreCounted DEF ConnsInv, TypeOK, RefsExact

\* A connection with any of these has a reference.
LEMMA HeldIsCounted ==
    ASSUME ConnsInv, netPc \notin {"destroy", "done"}, NEW c \in Conn,
           \/ TasksOf(c, queue) # 0 \/ TasksOf(c, tasks) # 0 \/ Count(c, snapshot) # 0
           \/ Listed(c) \/ Unlinked(c)
    PROVE  refs[c] > 0 /\ life[c] = "live"
<1> DEFINE l == IF Listed(c) \/ Unlinked(c) THEN 1 ELSE 0
<1>1. /\ TasksOf(c, queue) \in Nat /\ TasksOf(c, tasks) \in Nat /\ Count(c, snapshot) \in Nat
      /\ refs[c] = TasksOf(c, queue) + TasksOf(c, tasks) + Count(c, snapshot) + l
      /\ (life[c] = "live") <=> (refs[c] > 0)
  BY CountsAdd
<1>2. l \in Nat /\ (Listed(c) \/ Unlinked(c) => l = 1) OBVIOUS
<1>3. TasksOf(c, queue) # 0 \/ TasksOf(c, tasks) # 0 \/ Count(c, snapshot) # 0 \/ l # 0
  BY <1>2
<1> HIDE DEF l
<1>4. refs[c] > 0 BY <1>1, <1>2, <1>3
<1> QED BY <1>1, <1>4

LEMMA DropKeeps == ASSUME ConnsInv, Drop PROVE ConnsInv'
<1> USE DEF clientVars, lifeVars, netVars, tickVars, playVars
<1> DEFINE c == Head(doomed)
<1>1. /\ UNCHANGED << clientVars, conns, queue, batch, swept, input, tickVars, running >>
      /\ netPc = "drop" /\ conn_release(c) /\ doomed' = Tail(doomed)
      /\ netPc' = IF doomed' # << >> THEN "unlink" ELSE IF swept THEN "wait" ELSE "serve"
  BY DEF Drop
<1>2. /\ doomed \in Seq(Conn) /\ doomed # << >> /\ c = doomed[1]
      /\ c \in Conn /\ ~Listed(c) /\ \A i \in DOMAIN doomed : i > 1 => doomed[i] # c
  BY <1>1, DoomedFirst
<1>3. \A d \in Conn : Unlinked(d) <=> d = c BY <1>1 DEF Unlinked
<1>4. \A d \in Conn : ~Unlinked(d)' BY <1>1 DEF Unlinked
<1> HIDE DEF c
<1>5. refs[c] > 0
  <2>1. Unlinked(c) BY <1>2, <1>3
  <2> QED BY <2>1, <1>1, <1>2, HeldIsCounted
<1>6. /\ LifeType' /\ PlayType'
      /\ \A d \in Conn : refs'[d] = IF d = c THEN refs[d] - 1 ELSE refs[d]
      /\ \A d \in Conn : (life'[d] = "live") <=> (refs'[d] > 0)
      /\ \A d \in fd : d # c \/ refs'[c] > 0 => d \in fd'
  <2>1. TypeOK BY DEF ConnsInv
  <2>2. \A d \in Conn : (life[d] = "live") <=> (refs[d] > 0) BY <1>1, CountsAdd
  <2> QED BY <2>1, <2>2, <1>1, <1>2, <1>5, ReleaseKeeps
<1>7. /\ doomed' \in Seq(Conn) /\ IsInjective(doomed')
  <2>1. IsInjective(doomed) BY DEF ConnsInv, NetDoomed
  <2> QED BY <2>1, <1>1, <1>2, TailList
<1>8. TypeOK'
  BY <1>1, <1>6, <1>7 DEF ConnsInv, TypeOK, LifeType, PlayType, NetPcs
<1>9. RefsExact'
  <2>1. \A d \in Conn : /\ TasksOf(d, queue)' = TasksOf(d, queue)
                        /\ TasksOf(d, tasks)' = TasksOf(d, tasks)
                        /\ Count(d, snapshot)' = Count(d, snapshot)
    BY <1>1 DEF TasksOf, Count
  <2>2. ASSUME NEW d \in Conn
        PROVE  refs'[d] = TasksOf(d, queue) + TasksOf(d, tasks) + Count(d, snapshot)
                            + (IF d \in Range(conns) THEN 1 ELSE 0)
    <3>1. CASE d = c
      <4>1. d \notin Range(conns) /\ Unlinked(d) BY <3>1, <1>2, <1>3
      <4>2. refs'[d] = refs[d] - 1 BY <3>1, <1>6
      <4> QED BY <4>1, <4>2, <1>1, CountsAdd
    <3>2. CASE d # c
      <4>1. refs'[d] = refs[d] /\ ~Unlinked(d) BY <3>2, <1>3, <1>6
      <4> QED BY <4>1, <1>1, CountsAdd
    <3> QED BY <3>1, <3>2
  <2> QED BY <2>1, <2>2, <1>1, <1>4, <1>6 DEF RefsExact
<1>10. ListedIsOpen' BY <1>1, <1>2, <1>6 DEF ConnsInv, ListedIsOpen
<1>11. TickLists' BY <1>1 DEF ConnsInv, TickLists
<1>12. NetBatch'
  <2>1. input = << >> BY <1>1 DEF ConnsInv, NetBatch
  <2> QED BY <1>1, <2>1 DEF ConnsInv, NetBatch
<1>13. NetList' BY <1>1 DEF ConnsInv, NetList
<1>14. NetDoomed'
  <2>1. /\ DOMAIN doomed' = 1 .. Len(doomed) - 1 /\ Len(doomed) \in Nat \ {0}
        /\ \A i \in 1 .. Len(doomed) - 1 : doomed'[i] = doomed[i + 1] /\ i + 1 \in DOMAIN doomed
    BY <1>1, <1>2, TailElements
  <2>2. \A i \in DOMAIN doomed' : doomed'[i] \notin batch /\ Listed(doomed'[i])
    <3> SUFFICES ASSUME NEW i \in 1 .. Len(doomed) - 1
                 PROVE  doomed[i + 1] \notin batch /\ Listed(doomed[i + 1])
      BY <2>1
    <3>1. i + 1 > 1 /\ i + 1 \in DOMAIN doomed BY <2>1
    <3> QED BY <3>1 DEF ConnsInv, NetDoomed
  <2>3. \A i \in DOMAIN doomed' : netPc' = "unlink"
    <3>1. doomed' = << >> => DOMAIN doomed' = {} OBVIOUS
    <3> QED BY <3>1, <1>1
  <2>4. \A i \in DOMAIN doomed' : doomed'[i] \notin batch' /\ doomed'[i] \in Range(conns')
    BY <1>1, <2>2
  <2>5. netPc' \in {"unlink", "shut", "drop"} <=> doomed' # << >> BY <1>1
  <2> QED BY <1>7, <2>3, <2>4, <2>5 DEF NetDoomed
<1> QED BY <1>8, <1>9, <1>10, <1>11, <1>12, <1>13, <1>14 DEF ConnsInv

LEMMA JoinKeeps == ASSUME ConnsInv, Join PROVE ConnsInv'
<1> USE DEF clientVars, lifeVars, netVars, tickVars, playVars
<1>1. /\ UNCHANGED << clientVars, lifeVars, conns, queue, batch, swept, input, doomed, tickVars,
                      running, playVars >>
      /\ netPc = "join" /\ tickPc = "exited" /\ netPc' = "destroy"
  BY DEF Join
<1>2. \A c \in Conn : Listed(c) => life[c] = "live"
  BY <1>1, HeldIsCounted
<1>3. TypeOK' /\ RefsExact' /\ ListedIsOpen'
  BY <1>1 DEF ConnsInv, TypeOK, RefsExact, ListedIsOpen, NetPcs
<1>4. NetList' /\ NetDoomed' /\ NetBatch' /\ TickLists'
  BY <1>1, <1>2 DEF ConnsInv, NetList, NetDoomed, NetBatch, TickLists
<1> QED BY <1>3, <1>4 DEF ConnsInv

LEMMA FreeingKeeps == ASSUME ConnsInv, Destroy PROVE ConnsInv'
<1> USE DEF clientVars, lifeVars, netVars, tickVars, playVars
<1>1. UNCHANGED << clientVars, queue, batch, swept, input, doomed, tickVars, running >>
      /\ netPc = "destroy"
  BY DEF Destroy
<1>2. batch = {} BY <1>1 DEF ConnsInv, NetBatch
<1>3. CASE conns = << >>
  <2>1. netPc' = "done" /\ UNCHANGED << conns, lifeVars, playVars >> BY <1>3 DEF Destroy
  <2>2. TypeOK' /\ RefsExact' /\ ListedIsOpen'
    BY <1>1, <2>1 DEF ConnsInv, TypeOK, RefsExact, ListedIsOpen, NetPcs
  <2>3. NetList' /\ NetDoomed' /\ NetBatch' /\ TickLists'
    BY <1>1, <2>1 DEF ConnsInv, NetList, NetDoomed, NetBatch, TickLists
  <2> QED BY <2>2, <2>3 DEF ConnsInv
<1>4. CASE conns # << >>
  <2> DEFINE c == Head(conns)
  <2>1. /\ conn_destroy(c) /\ refs' = [refs EXCEPT ![c] = 0]
        /\ conns' = Tail(conns) /\ UNCHANGED netPc
    BY <1>4 DEF Destroy
  <2>2. /\ conns' \in Seq(Conn) /\ IsInjective(conns') /\ c \in Conn
        /\ Range(conns') = Range(conns) \ {c}
    BY <1>4, <2>1, TailList DEF ConnsInv, TypeOK, NetList
  <2> HIDE DEF c
  <2>3. /\ life' \in [Conn -> {"none", "live", "freed"}]
        /\ fd' \subseteq Conn /\ state' \in [Conn -> {"early", "play"}]
        /\ closing' \in [Conn -> BOOLEAN] /\ out' \subseteq Conn
        /\ PlayType'
        /\ \A d \in Conn : d # c => life'[d] = life[d]
        /\ \A d \in fd : d # c => d \in fd'
    BY <2>1, <2>2, DestroyKeeps DEF ConnsInv
  <2>4. refs' \in [Conn -> Nat] BY <2>1 DEF ConnsInv, TypeOK
  <2>5. TypeOK' BY <1>1, <2>1, <2>2, <2>3, <2>4 DEF ConnsInv, TypeOK, PlayType
  <2>6. RefsExact' BY <1>1, <2>1 DEF RefsExact
  <2>7. ListedIsOpen' BY <1>1, <1>2, <2>2, <2>3 DEF ConnsInv, ListedIsOpen
  <2>8. NetList' BY <1>1, <2>1, <2>2, <2>3 DEF ConnsInv, NetList
  <2>9. NetDoomed' /\ NetBatch' /\ TickLists'
    <3>1. doomed = << >> /\ input = << >> BY <1>1 DEF ConnsInv, NetDoomed, NetBatch
    <3> QED BY <1>1, <2>1, <3>1 DEF ConnsInv, NetDoomed, NetBatch, TickLists
  <2> QED BY <2>5, <2>6, <2>7, <2>8, <2>9 DEF ConnsInv
<1> QED BY <1>3, <1>4

-----------------------------------------------------------------------------
(* The tick thread.  It runs before the server is destroyed.               *)

\* The server only frees what is left when the tick thread has ended.
LEMMA TickRuns ==
    ASSUME ConnsInv, tickPc # "exited"
    PROVE  netPc \notin {"destroy", "done"}
BY DEF ConnsInv, NetList

\* The network thread's part of the invariant does not read the tick's lists.
LEMMA TickOnly ==
    ASSUME ConnsInv, tickPc # "exited", UNCHANGED << conns, netVars >>
    PROVE  NetList' /\ NetDoomed' /\ NetBatch'
<1>1. netPc \notin {"destroy", "done"} BY TickRuns
<1> QED BY <1>1 DEF ConnsInv, NetList, NetDoomed, NetBatch, netVars

LEMMA DrainKeeps == ASSUME ConnsInv, Drain PROVE ConnsInv'
<1> USE DEF clientVars, lifeVars, netVars, tickVars, playVars
<1>1. /\ UNCHANGED << clientVars, lifeVars, conns, netVars, snapshot, turns, running, playVars >>
      /\ tickPc = "drain" /\ tickPc' \in {"tasks", "rest"}
      /\ tasks' = queue /\ queue' = << >>
  BY DEF Drain
<1>2. tasks = << >> /\ snapshot = << >> BY <1>1 DEF ConnsInv, TickLists
<1>3. queue' \in Seq(Tasks) /\ DOMAIN queue' = {} /\ DOMAIN tasks = {} BY <1>1, <1>2
<1>4. TypeOK' BY <1>1, <1>3 DEF ConnsInv, TypeOK, TickPcs
<1>5. RefsExact'
  <2>1. \A c \in Conn : TasksOf(c, queue') = 0 /\ TasksOf(c, tasks) = 0
    <3>1. tasks \in Seq(Tasks) BY DEF ConnsInv, TypeOK
    <3> QED BY <3>1, <1>3, TasksAreCounted
  <2>2. \A c \in Conn : /\ TasksOf(c, queue)' = TasksOf(c, queue')
                        /\ TasksOf(c, tasks)' = TasksOf(c, queue)
                        /\ Count(c, snapshot)' = Count(c, snapshot)
                        /\ Listed(c)' = Listed(c) /\ Unlinked(c)' = Unlinked(c)
    BY <1>1 DEF TasksOf, Count, Unlinked
  <2>3. ASSUME NEW c \in Conn
        PROVE  refs[c] = TasksOf(c, queue') + TasksOf(c, queue) + Count(c, snapshot)
                           + (IF Listed(c) \/ Unlinked(c) THEN 1 ELSE 0)
               /\ ((life[c] = "live") <=> (refs[c] > 0))
    <3>1. netPc \notin {"destroy", "done"} BY <1>1, TickRuns
    <3> QED BY <3>1, <2>1, CountsAdd
  <2> QED BY <2>2, <2>3, <1>1 DEF RefsExact
<1>6. ListedIsOpen' BY <1>1, OpenFrame DEF ConnsInv
<1>7. TickLists' BY <1>1, <1>2 DEF TickLists
<1> QED BY <1>1, <1>4, <1>5, <1>6, <1>7, TickOnly DEF ConnsInv

LEMMA ProcessKeeps == ASSUME ConnsInv, Process PROVE ConnsInv'
<1> USE DEF clientVars, lifeVars, netVars, tickVars, playVars
<1>1. /\ UNCHANGED << clientVars, life, refs, fd, conns, queue, netVars, tasks, snapshot, turns, running >>
      /\ tickPc = "tasks" /\ tasks # << >> /\ tickPc' = "release"
  BY DEF Process
<1> DEFINE c == Head(tasks).conn
           p == Head(tasks).packet
<1>2. Head(tasks) \in Tasks /\ c \in Conn
  <2>1. tasks \in Seq(Tasks) BY DEF ConnsInv, TypeOK
  <2>2. Head(tasks) \in Tasks BY <1>1, <2>1, TailElements
  <2> QED BY <2>2 DEF Tasks
<1>3. state' \in [Conn -> {"early", "play"}] /\ closing' \in [Conn -> BOOLEAN] /\ out' \subseteq Conn
      /\ PlayType'
  <2>1. \/ UNCHANGED << state, closing, out, playVars >>
        \/ Joined(c) \/ JoinRefused(c) \/ JoinUnplaced(c) \/ Act(c)
        \/ closing' = [closing EXCEPT ![c] = TRUE] /\ UNCHANGED << state, out, playVars >>
    BY DEF Process
  <2> HIDE DEF c
  <2>2. Who[c] \in Players BY <1>2, ConnsAssumption
  <2>3. CASE UNCHANGED << state, closing, out, playVars >>
    BY <2>3 DEF ConnsInv, TypeOK, PlayType
  <2>4. CASE Joined(c) BY <1>2, <2>2, <2>4 DEF Joined, ConnsInv, TypeOK, PlayType
  <2>5. CASE JoinRefused(c) BY <1>2, <2>5 DEF JoinRefused, ConnsInv, TypeOK, PlayType
  <2>6. CASE JoinUnplaced(c) BY <1>2, <2>6 DEF JoinUnplaced, ConnsInv, TypeOK, PlayType
  <2>7. CASE Act(c)
    <3>1. data' \in [Conn -> SUBSET Conn] /\ data'[c] \in SUBSET Conn
      BY <1>2, <2>7 DEF Act, ConnsInv, TypeOK
    <3>2. file' \in [Players -> SUBSET Conn]
      BY <2>2, <2>7, <3>1 DEF Act, ConnsInv, TypeOK
    <3>3. window' \subseteq Conn /\ stored' \subseteq Conn
      BY <1>2, <2>7 DEF Act, ConnsInv, TypeOK
    <3> QED BY <2>7, <3>1, <3>2, <3>3 DEF Act, ConnsInv, TypeOK, PlayType
  <2>8. CASE closing' = [closing EXCEPT ![c] = TRUE] /\ UNCHANGED << state, out, playVars >>
    BY <1>2, <2>8 DEF ConnsInv, TypeOK, PlayType
  <2> QED BY <2>1, <2>3, <2>4, <2>5, <2>6, <2>7, <2>8
<1>4. TypeOK' BY <1>1, <1>3 DEF ConnsInv, TypeOK, PlayType, TickPcs
<1>5. RefsExact' /\ ListedIsOpen' BY <1>1, RefsFrame, OpenFrame DEF ConnsInv
<1>6. TickLists' BY <1>1 DEF ConnsInv, TickLists
<1> QED BY <1>1, <1>4, <1>5, <1>6, TickOnly DEF ConnsInv

LEMMA ReleaseTaskKeeps == ASSUME ConnsInv, Release PROVE ConnsInv'
<1> USE DEF clientVars, lifeVars, netVars, tickVars, playVars
<1> DEFINE c == Head(tasks).conn
<1>1. /\ UNCHANGED << clientVars, conns, queue, netVars, snapshot, turns, running >>
      /\ tickPc \in {"release", "rest"} /\ tasks # << >>
      /\ conn_release(c) /\ tasks' = Tail(tasks)
      /\ tickPc' = IF tickPc = "release" THEN "tasks" ELSE "rest"
  BY DEF Release, ConnsInv, TickLists
<1>2. netPc \notin {"destroy", "done"} BY <1>1, TickRuns
<1>3. /\ tasks \in Seq(Tasks) /\ tasks' \in Seq(Tasks) /\ Head(tasks) \in Tasks /\ c \in Conn
      /\ 1 \in DOMAIN tasks /\ tasks[1].conn = c
  <2>1. tasks \in Seq(Tasks) BY DEF ConnsInv, TypeOK
  <2>2. Head(tasks) \in Tasks /\ Tail(tasks) \in Seq(Tasks) /\ 1 \in DOMAIN tasks /\ Head(tasks) = tasks[1]
    BY <1>1, <2>1, TailElements
  <2> QED BY <1>1, <2>1, <2>2 DEF Tasks
<1>4. \A d \in Conn : TasksOf(d, tasks') = TasksOf(d, tasks) - (IF c = d THEN 1 ELSE 0)
  BY <1>1, <1>3, TasksTail
<1>5. TasksOf(c, tasks) # 0 BY <1>3, TasksAreCounted
<1> HIDE DEF c
<1>6. refs[c] > 0 BY <1>2, <1>3, <1>5, HeldIsCounted
<1>7. /\ LifeType' /\ PlayType'
      /\ \A d \in Conn : refs'[d] = IF d = c THEN refs[d] - 1 ELSE refs[d]
      /\ \A d \in Conn : (life'[d] = "live") <=> (refs'[d] > 0)
      /\ \A d \in fd : d # c \/ refs'[c] > 0 => d \in fd'
  <2>1. TypeOK BY DEF ConnsInv
  <2>2. \A d \in Conn : (life[d] = "live") <=> (refs[d] > 0) BY <1>2, CountsAdd
  <2> QED BY <2>1, <2>2, <1>1, <1>3, <1>6, ReleaseKeeps
<1>8. TypeOK' BY <1>1, <1>3, <1>7 DEF ConnsInv, TypeOK, LifeType, PlayType, TickPcs
<1>9. ASSUME NEW d \in Conn
      PROVE  refs'[d] = TasksOf(d, queue) + TasksOf(d, tasks') + Count(d, snapshot)
                          + (IF Listed(d) \/ Unlinked(d) THEN 1 ELSE 0)
  <2> DEFINE l == IF Listed(d) \/ Unlinked(d) THEN 1 ELSE 0
  <2>1. refs[d] = TasksOf(d, queue) + TasksOf(d, tasks) + Count(d, snapshot) + l BY <1>2, CountsAdd
  <2>2. TasksOf(d, queue) \in Nat /\ TasksOf(d, tasks) \in Nat /\ Count(d, snapshot) \in Nat /\ l \in Nat
    BY <1>2, CountsAdd
  <2>3. refs'[d] = TasksOf(d, queue) + TasksOf(d, tasks') + Count(d, snapshot) + l
    <3> HIDE DEF l
    <3> QED BY <2>1, <2>2, <1>4, <1>7
  <2> QED BY <2>3
<1>10. RefsExact'
  <2>1. \A d \in Conn : /\ TasksOf(d, queue)' = TasksOf(d, queue)
                        /\ TasksOf(d, tasks)' = TasksOf(d, tasks')
                        /\ Count(d, snapshot)' = Count(d, snapshot)
                        /\ Listed(d)' = Listed(d) /\ Unlinked(d)' = Unlinked(d)
    BY <1>1 DEF TasksOf, Count, Unlinked
  <2> QED BY <2>1, <1>7, <1>9 DEF RefsExact
<1>11. ListedIsOpen'
  <2>1. Listed(c) => refs'[c] > 0
    <3> SUFFICES ASSUME Listed(c) PROVE refs'[c] > 0
      OBVIOUS
    <3>1. (IF Listed(c) \/ Unlinked(c) THEN 1 ELSE 0) = 1 OBVIOUS
    <3>2. refs[c] > 1 BY <3>1, <1>2, <1>3, <1>5, CountsAdd
    <3>3. refs'[c] = refs[c] - 1 /\ refs[c] \in Nat BY <1>2, <1>3, <1>7, CountsAdd
    <3> QED BY <3>2, <3>3
  <2> QED BY <2>1, <1>1, <1>3, <1>7 DEF ConnsInv, ListedIsOpen
<1>12. TickLists' BY <1>1 DEF ConnsInv, TickLists
<1> QED BY <1>1, <1>8, <1>10, <1>11, <1>12, TickOnly DEF ConnsInv

LEMMA TasksDoneKeeps == ASSUME ConnsInv, TasksDone PROVE ConnsInv'
<1> USE DEF clientVars, lifeVars, netVars, tickVars, playVars
<1>1. /\ UNCHANGED << clientVars, lifeVars, conns, queue, netVars, tasks, snapshot, turns, running, playVars >>
      /\ tasks = << >>
      /\ \/ tickPc = "tasks" /\ tickPc' = "snapshot"
         \/ tickPc = "rest" /\ tickPc' = "exited"
  BY DEF TasksDone
<1>2. TypeOK' BY <1>1 DEF ConnsInv, TypeOK, TickPcs
<1>3. RefsExact' /\ ListedIsOpen' BY <1>1, RefsFrame, OpenFrame DEF ConnsInv
<1>4. TickLists' BY <1>1 DEF ConnsInv, TickLists
<1> QED BY <1>1, <1>2, <1>3, <1>4, TickOnly DEF ConnsInv

LEMMA SnapshotKeeps == ASSUME ConnsInv, Snapshot PROVE ConnsInv'
<1> USE DEF clientVars, lifeVars, netVars, tickVars, playVars
<1>1. /\ UNCHANGED << clientVars, life, fd, state, closing, out, conns, queue, netVars, tasks,
                      turns, running, playVars >>
      /\ tickPc = "snapshot" /\ tickPc' \in {"turns", "unsnap"}
      /\ refs' = [c \in Conn |-> IF c \in Range(snapshot') THEN refs[c] + 1 ELSE refs[c]]
      /\ snapshot' = conns \/ \E n \in 0 .. Len(conns) - 1 : snapshot' = SubSeq(conns, 1, n)
  BY DEF Snapshot
<1>2. netPc \notin {"destroy", "done"} BY <1>1, TickRuns
<1>3. tasks = << >> /\ snapshot = << >> BY <1>1 DEF ConnsInv, TickLists
<1>4. /\ snapshot' \in Seq(Conn) /\ IsInjective(snapshot')
      /\ \A c \in Conn : c \in Range(snapshot') => Listed(c)
  <2>1. conns \in Seq(Conn) /\ IsInjective(conns) BY DEF ConnsInv, TypeOK, NetList
  <2>2. CASE snapshot' = conns BY <2>1, <2>2
  <2>3. ASSUME NEW n \in 0 .. Len(conns) - 1, snapshot' = SubSeq(conns, 1, n) PROVE <1>4!:
    <3>1. /\ SubSeq(conns, 1, n) \in Seq(Conn) /\ Len(SubSeq(conns, 1, n)) = n
          /\ \A i \in 1 .. n : SubSeq(conns, 1, n)[i] = conns[i]
      BY <2>1
    <3>2. 1 .. n \subseteq DOMAIN conns /\ DOMAIN SubSeq(conns, 1, n) = 1 .. n BY <2>1, <3>1
    <3> QED BY <2>1, <2>3, <3>1, <3>2 DEF IsInjective, Range
  <2> QED BY <1>1, <2>2, <2>3
<1>5. refs' \in [Conn -> Nat] BY <1>1 DEF ConnsInv, TypeOK
<1>6. TypeOK' BY <1>1, <1>4, <1>5 DEF ConnsInv, TypeOK, TickPcs
<1>7. ASSUME NEW c \in Conn
      PROVE  /\ refs'[c] = TasksOf(c, queue) + TasksOf(c, tasks) + Count(c, snapshot')
                             + (IF Listed(c) \/ Unlinked(c) THEN 1 ELSE 0)
             /\ (life[c] = "live") <=> (refs'[c] > 0)
  <2> DEFINE l == IF Listed(c) \/ Unlinked(c) THEN 1 ELSE 0
  <2>1. Count(c, snapshot) = 0
    <3>1. Range(snapshot) = {} BY <1>3 DEF Range
    <3> QED BY <3>1, ConnsAreCounted DEF ConnsInv, TypeOK
  <2>2. Count(c, snapshot') = IF c \in Range(snapshot') THEN 1 ELSE 0 BY <1>4, ConnsAreCounted
  <2>3. /\ refs[c] = TasksOf(c, queue) + TasksOf(c, tasks) + Count(c, snapshot) + l
        /\ TasksOf(c, queue) \in Nat /\ TasksOf(c, tasks) \in Nat /\ l \in Nat
        /\ (life[c] = "live") <=> (refs[c] > 0)
    BY <1>2, CountsAdd
  <2>4. c \in Range(snapshot') => l = 1 BY <1>4
  <2>5. refs'[c] = IF c \in Range(snapshot') THEN refs[c] + 1 ELSE refs[c] BY <1>1
  <2> HIDE DEF l
  <2>6. /\ refs'[c] = TasksOf(c, queue) + TasksOf(c, tasks) + Count(c, snapshot') + l
        /\ (life[c] = "live") <=> (refs'[c] > 0)
    BY <2>1, <2>2, <2>3, <2>4, <2>5
  <2> QED BY <2>6 DEF l
<1>8. RefsExact'
  <2>1. \A c \in Conn : /\ TasksOf(c, queue)' = TasksOf(c, queue)
                        /\ TasksOf(c, tasks)' = TasksOf(c, tasks)
                        /\ Count(c, snapshot)' = Count(c, snapshot')
                        /\ Listed(c)' = Listed(c) /\ Unlinked(c)' = Unlinked(c)
    BY <1>1 DEF TasksOf, Count, Unlinked
  <2> QED BY <2>1, <1>1, <1>7 DEF RefsExact
<1>9. ListedIsOpen' BY <1>1, OpenFrame DEF ConnsInv
<1>10. TickLists' BY <1>1, <1>3 DEF TickLists
<1> QED BY <1>1, <1>6, <1>8, <1>9, <1>10, TickOnly DEF ConnsInv

LEMMA TurnsKeep == ASSUME ConnsInv, PlayTick \/ TurnsDone PROVE ConnsInv'
<1> USE DEF clientVars, lifeVars, netVars, tickVars, playVars
<1>1. /\ UNCHANGED << clientVars, life, refs, fd, state, conns, queue, netVars, tasks, snapshot,
                      running, playVars >>
      /\ tickPc = "turns" /\ tickPc' \in {"turns", "flush"}
  BY DEF PlayTick, TurnsDone
<1>2. turns' \in Nat /\ closing' \in [Conn -> BOOLEAN] /\ out' \subseteq Conn
  <2>1. CASE PlayTick
    <3>1. turns < Len(snapshot) /\ turns' = turns + 1 BY <2>1 DEF PlayTick
    <3>2. snapshot[turns + 1] \in Conn /\ turns + 1 \in Nat BY <3>1 DEF ConnsInv, TypeOK
    <3> DEFINE c == snapshot[turns + 1]
    <3>3. \/ UNCHANGED << out, closing >>
          \/ out' = out \cup {c} /\ UNCHANGED closing
          \/ out' = out \cup {c} /\ closing' = [closing EXCEPT ![c] = TRUE]
      BY <2>1 DEF PlayTick
    <3> HIDE DEF c
    <3>4. c \in Conn BY <3>2 DEF c
    <3> QED BY <3>1, <3>2, <3>3, <3>4 DEF ConnsInv, TypeOK
  <2>2. CASE TurnsDone BY <2>2 DEF TurnsDone, ConnsInv, TypeOK
  <2> QED BY <2>1, <2>2
<1>3. TypeOK' BY <1>1, <1>2 DEF ConnsInv, TypeOK, TickPcs
<1>4. RefsExact' /\ ListedIsOpen' BY <1>1, RefsFrame, OpenFrame DEF ConnsInv
<1>5. TickLists' BY <1>1 DEF ConnsInv, TickLists
<1> QED BY <1>1, <1>3, <1>4, <1>5, TickOnly DEF ConnsInv

LEMMA FlushKeeps == ASSUME ConnsInv, Flush PROVE ConnsInv'
<1> USE DEF clientVars, lifeVars, netVars, tickVars, playVars
<1>1. /\ UNCHANGED << clientVars, life, refs, fd, state, conns, queue, netVars, tasks, snapshot,
                      turns, running, playVars >>
      /\ tickPc = "flush" /\ tickPc' = "clear"
  BY DEF Flush
<1>2. closing' \in [Conn -> BOOLEAN] /\ out' \subseteq Conn
  BY DEF Flush, ConnsInv, TypeOK
<1>3. TypeOK' BY <1>1, <1>2 DEF ConnsInv, TypeOK, TickPcs
<1>4. RefsExact' /\ ListedIsOpen' BY <1>1, RefsFrame, OpenFrame DEF ConnsInv
<1>5. TickLists' BY <1>1 DEF ConnsInv, TickLists
<1> QED BY <1>1, <1>3, <1>4, <1>5, TickOnly DEF ConnsInv

LEMMA ClearKeeps == ASSUME ConnsInv, Clear PROVE ConnsInv'
<1> USE DEF clientVars, lifeVars, netVars, tickVars, playVars
<1>1. /\ UNCHANGED << clientVars, conns, queue, netVars, tasks, turns, running >>
      /\ tickPc \in {"clear", "unsnap"}
  BY DEF Clear
<1>2. netPc \notin {"destroy", "done"} BY <1>1, TickRuns
<1>3. tasks = << >> BY <1>1 DEF ConnsInv, TickLists
<1>4. CASE snapshot = << >>
  <2>1. UNCHANGED << snapshot, lifeVars, playVars >> /\ tickPc' \in {"drain", "turns"}
    BY <1>4 DEF Clear
  <2>2. TypeOK' BY <1>1, <2>1 DEF ConnsInv, TypeOK, TickPcs
  <2>3. RefsExact' /\ ListedIsOpen' BY <1>1, <2>1, RefsFrame, OpenFrame DEF ConnsInv
  <2>4. TickLists' BY <1>1, <1>3, <1>4, <2>1 DEF TickLists
  <2> QED BY <1>1, <2>2, <2>3, <2>4, TickOnly DEF ConnsInv
<1>5. CASE snapshot # << >>
  <2> DEFINE c == Head(snapshot)
  <2>1. conn_release(c) /\ snapshot' = Tail(snapshot) /\ UNCHANGED tickPc
    BY <1>5 DEF Clear
  <2>2. /\ snapshot \in Seq(Conn) /\ snapshot' \in Seq(Conn) /\ c \in Conn /\ c \in Range(snapshot)
    <3>1. snapshot \in Seq(Conn) BY DEF ConnsInv, TypeOK
    <3>2. /\ Tail(snapshot) \in Seq(Conn) /\ c \in Conn
          /\ 1 \in DOMAIN snapshot /\ c = snapshot[1]
      BY <1>5, <3>1, TailElements
    <3> QED BY <2>1, <3>1, <3>2 DEF Range
  <2>3. \A d \in Conn : Count(d, snapshot') = Count(d, snapshot) - (IF c = d THEN 1 ELSE 0)
    BY <1>5, <2>1, <2>2, CountTail
  <2>4. Count(c, snapshot) # 0 BY <2>2, ConnsAreCounted
  <2> HIDE DEF c
  <2>5. refs[c] > 0 BY <1>2, <2>2, <2>4, HeldIsCounted
  <2>6. /\ LifeType' /\ PlayType'
        /\ \A d \in Conn : refs'[d] = IF d = c THEN refs[d] - 1 ELSE refs[d]
        /\ \A d \in Conn : (life'[d] = "live") <=> (refs'[d] > 0)
        /\ \A d \in fd : d # c \/ refs'[c] > 0 => d \in fd'
    <3>1. TypeOK BY DEF ConnsInv
    <3>2. \A d \in Conn : (life[d] = "live") <=> (refs[d] > 0) BY <1>2, CountsAdd
    <3> QED BY <3>1, <3>2, <2>1, <2>2, <2>5, ReleaseKeeps
  <2>7. TypeOK' BY <1>1, <2>1, <2>2, <2>6 DEF ConnsInv, TypeOK, LifeType, PlayType
  <2>8. ASSUME NEW d \in Conn
        PROVE  refs'[d] = TasksOf(d, queue) + TasksOf(d, tasks) + Count(d, snapshot')
                            + (IF Listed(d) \/ Unlinked(d) THEN 1 ELSE 0)
    <3> DEFINE l == IF Listed(d) \/ Unlinked(d) THEN 1 ELSE 0
    <3>1. refs[d] = TasksOf(d, queue) + TasksOf(d, tasks) + Count(d, snapshot) + l BY <1>2, CountsAdd
    <3>2. TasksOf(d, queue) \in Nat /\ TasksOf(d, tasks) \in Nat /\ Count(d, snapshot) \in Nat /\ l \in Nat
      BY <1>2, CountsAdd
    <3>3. refs'[d] = TasksOf(d, queue) + TasksOf(d, tasks) + Count(d, snapshot') + l
      <4> HIDE DEF l
      <4> QED BY <3>1, <3>2, <2>3, <2>6
    <3> QED BY <3>3
  <2>9. RefsExact'
    <3>1. \A d \in Conn : /\ TasksOf(d, queue)' = TasksOf(d, queue)
                          /\ TasksOf(d, tasks)' = TasksOf(d, tasks)
                          /\ Count(d, snapshot)' = Count(d, snapshot')
                          /\ Listed(d)' = Listed(d) /\ Unlinked(d)' = Unlinked(d)
      BY <1>1 DEF TasksOf, Count, Unlinked
    <3> QED BY <3>1, <2>6, <2>8 DEF RefsExact
  <2>10. ListedIsOpen'
    <3>1. Listed(c) => refs'[c] > 0
      <4> SUFFICES ASSUME Listed(c) PROVE refs'[c] > 0
        OBVIOUS
      <4>1. (IF Listed(c) \/ Unlinked(c) THEN 1 ELSE 0) = 1 OBVIOUS
      <4>2. refs[c] > 1 BY <4>1, <1>2, <2>2, <2>4, CountsAdd
      <4>3. refs'[c] = refs[c] - 1 /\ refs[c] \in Nat BY <1>2, <2>2, <2>6, CountsAdd
      <4> QED BY <4>2, <4>3
    <3> QED BY <3>1, <1>1, <2>2, <2>6 DEF ConnsInv, ListedIsOpen
  <2>11. TickLists' BY <1>1, <1>3, <2>1 DEF TickLists
  <2> QED BY <1>1, <2>7, <2>9, <2>10, <2>11, TickOnly DEF ConnsInv
<1> QED BY <1>4, <1>5

-----------------------------------------------------------------------------
\* Every step keeps the invariant.
LEMMA ConnsStepKeeps == ASSUME ConnsInv, [Next]_vars PROVE ConnsInv'
<1>1. CASE Client BY <1>1, ClientKeeps
<1>2. CASE Net
  BY <1>2, WaitKeeps, AcceptKeeps, RecvKeeps, DecodeKeeps, SweepKeeps, UnlinkKeeps, ShutKeeps,
     DropKeeps, JoinKeeps, FreeingKeeps DEF Net
<1>3. CASE Tick
  BY <1>3, DrainKeeps, ProcessKeeps, ReleaseTaskKeeps, TasksDoneKeeps, SnapshotKeeps, TurnsKeep,
     FlushKeeps, ClearKeeps DEF Tick
<1>4. CASE Stop BY <1>4, StopKeeps
<1>5. CASE UNCHANGED vars BY <1>5, IdleKeeps
<1> QED BY <1>1, <1>2, <1>3, <1>4, <1>5 DEF Next, Ended

\* Typing, for any number of connections and players.
THEOREM ConnsTypeCorrect == Spec => []TypeOK
<1>1. Init => ConnsInv BY InitHolds
<1>2. ConnsInv /\ [Next]_vars => ConnsInv' BY ConnsStepKeeps
<1>3. ConnsInv => TypeOK BY DEF ConnsInv
<1> QED BY <1>1, <1>2, <1>3, PTL DEF Spec

\* Every reference is counted: no connection is freed while a task, a snapshot
\* or the list holds it, and none is freed twice.
THEOREM RefsExactCorrect == Spec => []RefsExact
<1>1. Init => ConnsInv BY InitHolds
<1>2. ConnsInv /\ [Next]_vars => ConnsInv' BY ConnsStepKeeps
<1>3. ConnsInv => RefsExact BY DEF ConnsInv
<1> QED BY <1>1, <1>2, <1>3, PTL DEF Spec

\* Connections of the list, and of events still to be handled, have an open
\* descriptor.
THEOREM ListedIsOpenCorrect == Spec => []ListedIsOpen
<1>1. Init => ConnsInv BY InitHolds
<1>2. ConnsInv /\ [Next]_vars => ConnsInv' BY ConnsStepKeeps
<1>3. ConnsInv => ListedIsOpen BY DEF ConnsInv
<1> QED BY <1>1, <1>2, <1>3, PTL DEF Spec

-----------------------------------------------------------------------------
(* Coming back.  A session of a player that is over before another one     *)
(* connects is over for the server before the other one is let in.         *)

\* Packets on the way from the socket to the tick thread.
HasTask(c, seq) == \E i \in DOMAIN seq : seq[i].conn = c
InFlight(c) == HasTask(c, input) \/ HasTask(c, queue) \/ HasTask(c, tasks)

\* Nothing will happen in session c any more: its play is final.
Over(c) == sock[c] = "left" /\ ~InFlight(c) /\ c \notin loaded

\* Connections that have got past the login at some time.
Entered == loaded \cup unplaced \cup Played \cup {c \in Conn : state[c] = "play"}

\* Earlier sessions are of the same player, and stay away.
PastSessions ==
    \A c \in Conn :
        /\ \A d \in before[c] : Who[d] = Who[c] /\ sock[d] = "left" /\ c \notin before[d] /\ d # c
        /\ before[c] # {} => sock[c] # "none"

\* A connection that is not accepted, or accepted and not logged in, has done nothing.
Fresh ==
    /\ \A c \in loaded : life[c] = "live"
    /\ \A c \in Conn : life[c] # "none" => sock[c] # "none"
    /\ \A c \in Conn : life[c] = "none" => state[c] = "early" /\ ~InFlight(c)
    /\ \A c \in Entered : state[c] = "early" => life[c] = "freed"
    /\ \A c \in Conn : data[c] \subseteq Played
    /\ \A p \in Players : file[p] \subseteq Played

\* The end of an earlier session is handled before the packets of a later one,
EndsFirst ==
    \A c \in batch \ {"listen"} : \A d \in before[c] :
        d \in batch \/ Over(d) \/ ~Listed(d) \/ (netPc = "unlink" /\ d = Head(doomed))

\* so it has left the list when they are queued,
Passed ==
    \A c \in Conn : InFlight(c) => \A d \in before[c] : Over(d) \/ ~(Listed(d) \/ Unlinked(d))

\* what it still has to do is queued before them,
InOrder ==
    /\ \A i, j \in DOMAIN queue : i < j => queue[j].conn \notin before[queue[i].conn]
    /\ \A i, j \in DOMAIN tasks : i < j => tasks[j].conn \notin before[tasks[i].conn]
    /\ \A i \in DOMAIN tasks, j \in DOMAIN queue : queue[j].conn \notin before[tasks[i].conn]

\* and it is over when they are handled.
EnteredAfter == \A c \in Entered : \A d \in before[c] : Over(d)

\* Of a player whose sessions never overlap the file has all play that is over.
Placed(p) == \A e \in unplaced : Who[e] # p
Saved ==
    \A d \in Played \ loaded : Apart(Who[d]) /\ Placed(Who[d]) => d \in file[Who[d]]

\* The inductive invariant of coming back.
RejoinInv ==
    /\ PastSessions /\ Fresh /\ EndsFirst /\ Passed /\ InOrder /\ EnteredAfter /\ Saved
    /\ RejoinSeesSave

\* Which connections have tasks in a queue that grows,
LEMMA HasAppend ==
    ASSUME NEW c, NEW s \in Seq(Tasks), NEW t \in Tasks
    PROVE  HasTask(c, Append(s, t)) <=> HasTask(c, s) \/ t.conn = c
<1>1. /\ DOMAIN Append(s, t) = 1 .. Len(s) + 1 /\ DOMAIN s = 1 .. Len(s) /\ Len(s) \in Nat
      /\ \A i \in 1 .. Len(s) : Append(s, t)[i] = s[i]
      /\ Append(s, t)[Len(s) + 1] = t
  BY AppendElements
<1> DEFINE n == Len(s)
<1>2. \A i \in 1 .. n + 1 : i \in 1 .. n \/ i = n + 1 BY <1>1
<1>3. 1 .. n \subseteq 1 .. n + 1 /\ n + 1 \in 1 .. n + 1 BY <1>1
<1> QED BY <1>1, <1>2, <1>3, Zenon DEF HasTask

\* or from which one is taken.
LEMMA HasTail ==
    ASSUME NEW s \in Seq(Tasks), s # << >>
    PROVE  /\ \A c : HasTask(c, Tail(s)) => HasTask(c, s)
           /\ HasTask(Head(s).conn, s)
BY TailElements DEF HasTask

\* To have a task is to be counted.
LEMMA HasIsCounted ==
    ASSUME NEW c, NEW s \in Seq(Tasks)
    PROVE  HasTask(c, s) <=> TasksOf(c, s) # 0
BY TasksAreCounted DEF HasTask

\* The steps that move packets.
LEMMA QueueSteps ==
    ASSUME [Next]_vars
    PROVE  \/ UNCHANGED << input, queue, tasks >>
           \/ \E c \in Conn : Recv(c)
           \/ Decode \/ Drain \/ Release
<1> USE DEF clientVars, lifeVars, netVars, tickVars, playVars
<1>1. CASE Client BY <1>1 DEF Client, Connect, Send, Quit
<1>2. CASE Net
  BY <1>2 DEF Net, Wait, Accept, Sweep, Unlink, Shut, Drop, Join, Destroy
<1>3. CASE Tick
  BY <1>3 DEF Tick, Process, TasksDone, Snapshot, PlayTick, TurnsDone, Flush, Clear
<1>4. CASE Stop \/ Ended \/ UNCHANGED vars BY <1>4 DEF Stop, Ended, vars
<1> QED BY <1>1, <1>2, <1>3, <1>4 DEF Next

\* Packets come into flight when they are received from a client that is there.
LEMMA FlightBegins ==
    ASSUME ConnsInv, [Next]_vars, NEW c \in Conn, InFlight(c)'
    PROVE  InFlight(c) \/ (Recv(c) /\ sock[c] # "left")
<1> USE DEF clientVars, lifeVars, netVars, tickVars, playVars
<1>1. input \in Seq(Tasks) /\ queue \in Seq(Tasks) /\ tasks \in Seq(Tasks)
  BY DEF ConnsInv, TypeOK
<1>2. HasTask(c, input') \/ HasTask(c, queue') \/ HasTask(c, tasks')
  BY DEF InFlight, HasTask
<1>3. CASE UNCHANGED << input, queue, tasks >> BY <1>2, <1>3 DEF InFlight
<1>4. ASSUME NEW e \in Conn, Recv(e) PROVE InFlight(c) \/ (Recv(c) /\ sock[c] # "left")
  <2>1. UNCHANGED << queue, tasks >> BY <1>4 DEF Recv
  <2>2. CASE sock[e] = "left" BY <1>2, <2>1, <1>4, <2>2 DEF Recv, InFlight
  <2>3. CASE sock[e] # "left"
    <3>1. input' = [i \in DOMAIN wire[e] |-> [conn |-> e, packet |-> wire[e][i]]]
      BY <1>4, <2>3 DEF Recv
    <3>2. HasTask(c, input') => c = e BY <3>1 DEF HasTask
    <3> QED BY <1>2, <1>4, <2>1, <2>3, <3>2 DEF InFlight
  <2> QED BY <2>2, <2>3
<1>5. CASE Decode
  <2>1. UNCHANGED tasks BY <1>5 DEF Decode
  <2>2. CASE input = << >> \/ Head(input).packet = "garbled"
    <3>1. UNCHANGED queue /\ (input' = input \/ input' = << >>) BY <1>5, <2>2 DEF Decode
    <3>2. ~HasTask(c, << >>) BY DEF HasTask
    <3> QED BY <1>2, <2>1, <3>1, <3>2 DEF InFlight
  <2>3. CASE input # << >> /\ Head(input).packet # "garbled"
    <3>1. queue' = Append(queue, Head(input)) /\ input' = Tail(input) BY <1>5, <2>3 DEF Decode
    <3>2. Head(input) \in Tasks BY <1>1, <2>3, TailElements
    <3>3. HasTask(c, queue') <=> HasTask(c, queue) \/ Head(input).conn = c
      BY <1>1, <3>1, <3>2, HasAppend
    <3>4. HasTask(c, input') => HasTask(c, input) BY <1>1, <2>3, <3>1, HasTail
    <3>5. Head(input).conn = c => HasTask(c, input) BY <1>1, <2>3, HasTail
    <3> QED BY <1>2, <2>1, <3>3, <3>4, <3>5 DEF InFlight
  <2> QED BY <2>2, <2>3
<1>6. CASE Drain
  <2>1. tasks' = queue /\ queue' = << >> /\ UNCHANGED input BY <1>6 DEF Drain
  <2>2. ~HasTask(c, << >>) BY DEF HasTask
  <2> QED BY <1>2, <2>1, <2>2 DEF InFlight
<1>7. CASE Release
  <2>1. tasks' = Tail(tasks) /\ UNCHANGED << queue, input >> /\ tasks # << >>
    BY <1>7 DEF Release, ConnsInv, TickLists
  <2>2. HasTask(c, tasks') => HasTask(c, tasks) BY <1>1, <2>1, HasTail
  <2> QED BY <1>2, <2>1, <2>2 DEF InFlight
<1> QED BY <1>3, <1>4, <1>5, <1>6, <1>7, QueueSteps

\* The player of a connection is loaded by a task of it.
LEMMA LoadingIsProcessing ==
    ASSUME [Next]_vars
    PROVE  \/ loaded' \subseteq loaded
           \/ /\ Process
              /\ LET c == Head(tasks).conn
                 IN  loaded' = loaded \cup {c} /\ (Joined(c) \/ JoinUnplaced(c))
<1> USE DEF clientVars, lifeVars, netVars, tickVars, playVars
<1>1. \A c : conn_release(c) => loaded' \subseteq loaded
  BY DEF conn_release, conn_destroy, Cleanup
<1>2. CASE Client BY <1>2 DEF Client, Connect, Send, Quit
<1>3. CASE Net
  <2>1. \A c : conn_destroy(c) => loaded' \subseteq loaded BY DEF conn_destroy, Cleanup
  <2> QED BY <1>1, <1>3, <2>1 DEF Net, Wait, Accept, Recv, Decode, Sweep, Unlink, Shut, Drop, Join, Destroy
<1>4. CASE Tick
  <2>1. CASE Process
    BY <2>1 DEF Process, Joined, JoinRefused, JoinUnplaced, Act
  <2> QED BY <1>1, <1>4, <2>1
    DEF Tick, Drain, Release, TasksDone, Snapshot, PlayTick, TurnsDone, Flush, Clear
<1>5. CASE Stop \/ Ended \/ UNCHANGED vars BY <1>5 DEF Stop, Ended, vars
<1> QED BY <1>2, <1>3, <1>4, <1>5 DEF Next

\* Who has left stays away, and who has connected has a fixed past.
LEMMA PastIsFixed ==
    ASSUME ConnsInv, Fresh, [Next]_vars, NEW c \in Conn
    PROVE  /\ sock[c] = "left" => sock'[c] = "left"
           /\ sock[c] # "none" => sock'[c] # "none"
           /\ before'[c] # before[c] => Connect(c)
           /\ sock'[c] # "none" => sock[c] # "none" \/ Connect(c)
<1> USE DEF clientVars, lifeVars, netVars, tickVars, playVars
<1> DEFINE Goal == /\ sock[c] = "left" => sock'[c] = "left"
                   /\ sock[c] # "none" => sock'[c] # "none"
                   /\ before'[c] # before[c] => Connect(c)
                   /\ sock'[c] # "none" => sock[c] # "none" \/ Connect(c)
<1>0. sock \in [Conn -> {"none", "open", "stalled", "left"}] /\ before \in [Conn -> SUBSET Conn]
  BY DEF ConnsInv, TypeOK
<1>1. CASE Client
  <2>1. ASSUME NEW e \in Conn, Connect(e) PROVE Goal
    <3>1. CASE e = c BY <3>1, <2>1, <1>0 DEF Connect
    <3>2. CASE e # c
      <4>1. sock'[c] = sock[c] /\ before'[c] = before[c] BY <3>2, <2>1, <1>0 DEF Connect
      <4> QED BY <4>1
    <3> QED BY <3>1, <3>2
  <2>2. ASSUME NEW e \in Conn, NEW how \in {"stalled", "left"}, Quit(e, how) PROVE Goal
    <3>1. /\ UNCHANGED before /\ sock' = [sock EXCEPT ![e] = how]
          /\ sock[e] \in {"open", "stalled"}
      BY <2>2 DEF Quit
    <3> QED BY <3>1, <1>0
  <2>3. ASSUME NEW e \in Conn, NEW p \in Packets, Send(e, p) PROVE Goal
    BY <2>3 DEF Send
  <2> QED BY <1>1, <2>1, <2>2, <2>3 DEF Client
<1>2. CASE Shut
  <2>1. /\ UNCHANGED before /\ sock' = [sock EXCEPT ![Head(doomed)] = "left"] /\ netPc = "shut"
    BY <1>2 DEF Shut
  <2>2. Head(doomed) \in Conn BY <2>1, DoomedFirst
  <2>3. Unlinked(Head(doomed)) BY <2>1 DEF Unlinked
  <2>4. sock[Head(doomed)] # "none" BY <2>1, <2>2, <2>3, HeldIsCounted DEF Fresh
  <2> QED BY <1>0, <2>1, <2>2, <2>4
<1>3. Client \/ Shut \/ UNCHANGED << sock, before >>
  <2>1. CASE Net
    BY <2>1 DEF Net, Wait, Accept, Recv, Decode, Sweep, Unlink, Drop, Join, Destroy
  <2>2. CASE Tick
    BY <2>2 DEF Tick, Drain, Process, Release, TasksDone, Snapshot, PlayTick, TurnsDone, Flush, Clear
  <2>3. CASE Stop \/ Ended \/ UNCHANGED vars BY <2>3 DEF Stop, Ended, vars
  <2> QED BY <2>1, <2>2, <2>3 DEF Next
<1> QED BY <1>1, <1>2, <1>3

\* What is over stays over: nothing brings a session back.
LEMMA OverStays ==
    ASSUME ConnsInv, Fresh, [Next]_vars, NEW d \in Conn, Over(d)
    PROVE  Over(d)'
<1>1. sock'[d] = "left" BY PastIsFixed DEF Over
<1>2. ~InFlight(d)' BY FlightBegins DEF Over
<1>3. d \notin loaded'
  <2>1. CASE loaded' \subseteq loaded BY <2>1 DEF Over
  <2>2. CASE Process /\ loaded' = loaded \cup {Head(tasks).conn}
    <3>1. tasks \in Seq(Tasks) /\ tasks # << >> BY <2>2 DEF Process, ConnsInv, TypeOK
    <3>2. InFlight(Head(tasks).conn) BY <3>1, HasTail DEF InFlight
    <3> QED BY <2>2, <3>2 DEF Over
  <2> QED BY <2>1, <2>2, LoadingIsProcessing
<1> QED BY <1>1, <1>2, <1>3 DEF Over

\* A connection that is not there yet.
LEMMA NotYet ==
    ASSUME ConnsInv, Fresh, NEW c \in Conn, life[c] = "none"
    PROVE  c \notin Range(conns) /\ c \notin Entered /\ ~InFlight(c) /\ c \notin loaded /\ c \notin batch
<1>1. c \notin Range(conns)
  <2>1. CASE netPc \in {"destroy", "done"} BY <2>1 DEF ConnsInv, NetList
  <2>2. CASE netPc \notin {"destroy", "done"} BY <2>2, HeldIsCounted
  <2> QED BY <2>1, <2>2
<1>2. c \notin batch BY <1>1, ConnsAssumption DEF ConnsInv, ListedIsOpen
<1> QED BY <1>1, <1>2 DEF Fresh

\* and no more has one whose client is not there.
LEMMA NotConnected ==
    ASSUME ConnsInv, Fresh, NEW c \in Conn, sock[c] = "none"
    PROVE  /\ life[c] = "none" /\ c \notin Range(conns) /\ c \notin Entered /\ ~InFlight(c)
           /\ c \notin loaded /\ c \notin batch
<1>1. life[c] = "none" BY DEF Fresh
<1> QED BY <1>1, NotYet

-----------------------------------------------------------------------------
(* Pasts.                                                                  *)

\* Every step keeps the sessions of a player in order.
LEMMA PastKept ==
    ASSUME ConnsInv, RejoinInv, [Next]_vars
    PROVE  PastSessions'
<1> SUFFICES ASSUME NEW c \in Conn
             PROVE  /\ \A d \in before'[c] : /\ Who[d] = Who[c] /\ sock'[d] = "left"
                                             /\ c \notin before'[d] /\ d # c
                    /\ before'[c] # {} => sock'[c] # "none"
  BY DEF PastSessions
<1>1. Fresh /\ PastSessions BY DEF RejoinInv
<1>2. before \in [Conn -> SUBSET Conn] BY DEF ConnsInv, TypeOK
<1>3. before' \in [Conn -> SUBSET Conn] BY ConnsStepKeeps DEF ConnsInv, TypeOK
<1>4. CASE before'[c] = before[c]
  <2>1. ASSUME NEW d \in before[c] PROVE sock'[d] = "left" /\ c \notin before'[d]
    <3>1. d \in Conn /\ sock[d] = "left" /\ c \notin before[d] BY <1>1, <1>2 DEF PastSessions
    <3>2. sock'[d] = "left" BY <1>1, <3>1, PastIsFixed
    <3>3. before'[d] = before[d]
      <4>1. ~Connect(d) BY <3>1 DEF Connect
      <4> QED BY <4>1, <1>1, <3>1, PastIsFixed
    <3> QED BY <3>1, <3>2, <3>3
  <2>2. before[c] # {} => sock'[c] # "none" BY <1>1, PastIsFixed DEF PastSessions
  <2> QED BY <1>1, <1>4, <2>1, <2>2 DEF PastSessions
<1>5. CASE before'[c] # before[c]
  <2>1. Connect(c) BY <1>1, <1>5, PastIsFixed
  <2>2. /\ before' = [before EXCEPT ![c] = {d \in SameAs(c) : sock[d] = "left"}]
        /\ sock' = [sock EXCEPT ![c] = "open"] /\ sock[c] = "none"
    BY <2>1 DEF Connect
  <2>3. sock \in [Conn -> {"none", "open", "stalled", "left"}] BY DEF ConnsInv, TypeOK
  <2>4. sock'[c] = "open" /\ before'[c] = {d \in SameAs(c) : sock[d] = "left"}
    BY <1>2, <2>2, <2>3
  <2>5. ASSUME NEW d \in SameAs(c), sock[d] = "left"
        PROVE  Who[d] = Who[c] /\ sock'[d] = "left" /\ c \notin before'[d] /\ d # c
    <3>1. d \in Conn /\ d # c /\ Who[d] = Who[c] BY DEF SameAs
    <3>2. sock'[d] = "left" /\ before'[d] = before[d] BY <1>2, <2>2, <2>3, <2>5, <3>1
    <3>3. c \notin before[d] BY <1>1, <2>2, <3>1 DEF PastSessions
    <3> QED BY <3>1, <3>2, <3>3
  <2> QED BY <2>4, <2>5
<1> QED BY <1>4, <1>5

-----------------------------------------------------------------------------
(* The steps of players: accepted, played, freed.                          *)

\* The steps that change players: a connection is accepted, it plays, it is freed.
Accepts(c) ==
    /\ netPc = "serve" /\ c \in Backlog
    /\ life' = [life EXCEPT ![c] = "live"]
    /\ UNCHANGED << loaded, state, unplaced, data, file >>

Frees(c) == life[c] = "live" /\ conn_destroy(c)

Plays(c) ==
    /\ Process /\ c = Head(tasks).conn
    /\ Joined(c) \/ JoinRefused(c) \/ JoinUnplaced(c) \/ Act(c)

\* The connection of the task at hand is allocated.
LEMMA TaskAtHand ==
    ASSUME ConnsInv, Process
    PROVE  /\ Head(tasks) \in Tasks /\ Head(tasks).conn \in Conn
           /\ tasks \in Seq(Tasks) /\ tasks # << >>
           /\ InFlight(Head(tasks).conn) /\ life[Head(tasks).conn] = "live"
           /\ netPc \notin {"destroy", "done"} /\ snapshot = << >>
<1>1. tickPc = "tasks" /\ tasks # << >> /\ tasks \in Seq(Tasks) BY DEF Process, ConnsInv, TypeOK
<1>2. netPc \notin {"destroy", "done"} BY <1>1, TickRuns
<1>3. Head(tasks) \in Tasks BY <1>1, TailElements
<1>4. Head(tasks).conn \in Conn BY <1>3 DEF Tasks
<1>5. HasTask(Head(tasks).conn, tasks) BY <1>1, HasTail
<1>6. life[Head(tasks).conn] = "live" BY <1>1, <1>2, <1>4, <1>5, HasIsCounted, HeldIsCounted
<1>7. snapshot = << >> BY <1>1 DEF ConnsInv, TickLists
<1> QED BY <1>1, <1>2, <1>3, <1>4, <1>5, <1>6, <1>7 DEF InFlight

\* Nothing else changes them.
LEMMA PlayerSteps ==
    ASSUME ConnsInv, [Next]_vars
    PROVE  \/ UNCHANGED << loaded, life, state, unplaced, data, file >>
           \/ \E c \in Conn : Accepts(c) \/ Frees(c) \/ Plays(c)
<1> USE DEF clientVars, lifeVars, netVars, tickVars, playVars
<1> DEFINE Same == UNCHANGED << loaded, life, state, unplaced, data, file >>
           Goal == Same \/ \E c \in Conn : Accepts(c) \/ Frees(c) \/ Plays(c)
<1>1. ASSUME NEW c \in Conn, conn_release(c), refs[c] > 0,
             netPc \notin {"destroy", "done"} PROVE Goal
  <2>1. life[c] = "live" BY <1>1, CountsAdd
  <2> QED BY <1>1, <2>1 DEF conn_release, Frees
<1>2. CASE Client BY <1>2 DEF Client, Connect, Send, Quit
<1>3. CASE Net
  <2>1. CASE Accept BY <2>1 DEF Accept, Accepts, Backlog
  <2>2. CASE Drop
    <3>1. netPc = "drop" /\ conn_release(Head(doomed)) BY <2>2 DEF Drop
    <3>2. Head(doomed) \in Conn /\ Unlinked(Head(doomed)) BY <3>1, DoomedFirst DEF Unlinked
    <3>3. refs[Head(doomed)] > 0 BY <3>1, <3>2, HeldIsCounted
    <3> QED BY <1>1, <3>1, <3>2, <3>3
  <2>3. CASE Destroy
    <3>1. CASE conns = << >> BY <2>3, <3>1 DEF Destroy
    <3>2. CASE conns # << >>
      <4>1. conn_destroy(Head(conns)) /\ netPc = "destroy" BY <2>3, <3>2 DEF Destroy
      <4>2. Head(conns) \in Conn /\ Listed(Head(conns))
        BY <3>2, TailList DEF ConnsInv, TypeOK, NetList
      <4>3. life[Head(conns)] = "live" BY <4>1, <4>2 DEF ConnsInv, NetList
      <4> QED BY <4>1, <4>2, <4>3 DEF Frees
    <3> QED BY <3>1, <3>2
  <2>4. CASE Wait \/ (\E c \in Conn : Recv(c)) \/ Decode \/ Sweep \/ Unlink \/ Shut \/ Join
    BY <2>4 DEF Wait, Recv, Decode, Sweep, Unlink, Shut, Join
  <2> QED BY <1>3, <2>1, <2>2, <2>3, <2>4 DEF Net
<1>4. CASE Tick
  <2>1. CASE Process
    <3>1. UNCHANGED life BY <2>1 DEF Process
    <3> QED BY <2>1, <3>1, TaskAtHand DEF Process, Plays
  <2>2. CASE Release
    <3>1. conn_release(Head(tasks).conn) /\ tasks # << >> /\ tickPc # "exited"
      BY <2>2 DEF Release, ConnsInv, TickLists
    <3>2. tasks \in Seq(Tasks) BY DEF ConnsInv, TypeOK
    <3>3. HasTask(Head(tasks).conn, tasks) /\ Head(tasks) \in Tasks
      BY <3>1, <3>2, HasTail, TailElements
    <3>4. netPc \notin {"destroy", "done"} /\ Head(tasks).conn \in Conn BY <3>1, <3>3, TickRuns DEF Tasks
    <3>5. refs[Head(tasks).conn] > 0 BY <3>2, <3>3, <3>4, HasIsCounted, HeldIsCounted
    <3> QED BY <1>1, <3>1, <3>4, <3>5
  <2>3. CASE Clear
    <3>1. CASE snapshot = << >> BY <2>3, <3>1 DEF Clear
    <3>2. CASE snapshot # << >>
      <4>1. conn_release(Head(snapshot)) /\ tickPc # "exited" BY <2>3, <3>2 DEF Clear
      <4>2. snapshot \in Seq(Conn) BY DEF ConnsInv, TypeOK
      <4>3. Head(snapshot) \in Conn /\ Head(snapshot) \in Range(snapshot)
        BY <3>2, <4>2, TailElements DEF Range
      <4>4. netPc \notin {"destroy", "done"} BY <4>1, TickRuns
      <4>5. refs[Head(snapshot)] > 0 BY <4>2, <4>3, <4>4, ConnsAreCounted, HeldIsCounted
      <4> QED BY <1>1, <4>1, <4>3, <4>4, <4>5
    <3> QED BY <3>1, <3>2
  <2>4. CASE Drain \/ TasksDone \/ Snapshot \/ PlayTick \/ TurnsDone \/ Flush
    BY <2>4 DEF Drain, TasksDone, Snapshot, PlayTick, TurnsDone, Flush
  <2> QED BY <1>4, <2>1, <2>2, <2>3, <2>4 DEF Tick
<1>5. CASE Stop \/ Ended \/ UNCHANGED vars BY <1>5 DEF Stop, Ended, vars
<1> QED BY <1>2, <1>3, <1>4, <1>5 DEF Next

\* What the end of a connection does to the player and its file.
LEMMA FreesWhat ==
    ASSUME ConnsInv, NEW c \in Conn, Frees(c)
    PROVE  /\ life' = [life EXCEPT ![c] = "freed"] /\ state' = [state EXCEPT ![c] = "early"]
           /\ loaded' = loaded \ {c} /\ UNCHANGED << data, unplaced >>
           /\ file' = IF c \in loaded THEN [file EXCEPT ![Who[c]] = data[c]] ELSE file
BY DEF Frees, conn_destroy, Cleanup

\* What a packet does to them.
LEMMA PlaysWhat ==
    ASSUME ConnsInv, Fresh, NEW c \in Conn, Plays(c)
    PROVE  /\ UNCHANGED life /\ life[c] = "live" /\ InFlight(c)
           /\ state'[c] = "play" /\ \A d \in Conn : d # c => state'[d] = state[d] /\ data'[d] = data[d]
           /\ loaded' \subseteq loaded \cup {c} /\ loaded \subseteq loaded'
           /\ \/ c \notin Entered /\ c \notin data'[c] /\ Played' = Played
              \/ c \in loaded /\ Played' = Played \cup {c} /\ data'[c] = data[c] \cup {c}
                  /\ UNCHANGED << unplaced, loaded >>
<1> USE DEF clientVars, lifeVars, netVars, tickVars, playVars
<1>1. UNCHANGED life /\ life[c] = "live" /\ InFlight(c)
  BY TaskAtHand DEF Plays, Process
<1>2. state \in [Conn -> {"early", "play"}] /\ data \in [Conn -> SUBSET Conn] /\ loaded \subseteq Conn
  BY DEF ConnsInv, TypeOK
<1>3. CASE Joined(c) \/ JoinRefused(c) \/ JoinUnplaced(c)
  <2>1. state[c] = "early" /\ state' = [state EXCEPT ![c] = "play"]
    BY <1>3 DEF Joined, JoinRefused, JoinUnplaced
  <2>2. c \notin Entered BY <1>1, <2>1 DEF Fresh
  <2>3. c \notin Played BY <2>2 DEF Entered
  <2>4. /\ loaded' \subseteq loaded \cup {c} /\ loaded \subseteq loaded'
        /\ \A d \in Conn : d # c => data'[d] = data[d]
    BY <1>2, <1>3 DEF Joined, JoinRefused, JoinUnplaced
  <2>5. c \notin data'[c]
    <3>1. CASE Joined(c)
      <4>1. data'[c] = file[Who[c]] /\ Who[c] \in Players
        BY <1>2, <3>1, ConnsAssumption DEF Joined
      <4> QED BY <4>1, <2>3 DEF Fresh
    <3>2. CASE JoinRefused(c) BY <2>3, <3>2 DEF JoinRefused, Played
    <3>3. CASE JoinUnplaced(c) BY <1>2, <3>3 DEF JoinUnplaced
    <3> QED BY <1>3, <3>1, <3>2, <3>3
  <2>6. Played' = Played BY <2>3, <2>4, <2>5 DEF Played
  <2> QED BY <1>1, <1>2, <2>1, <2>2, <2>4, <2>5, <2>6
<1>4. CASE Act(c)
  <2>1. /\ c \in loaded /\ data' = [data EXCEPT ![c] = @ \cup {c}]
        /\ UNCHANGED << state, loaded, unplaced >>
    BY <1>4 DEF Act
  <2>2. state[c] = "play" BY <1>1, <1>2, <2>1 DEF Fresh, Entered
  <2>3. /\ data'[c] = data[c] \cup {c} /\ \A d \in Conn : d # c => data'[d] = data[d]
    BY <1>2, <2>1
  <2>4. Played' = Played \cup {c} BY <2>3 DEF Played
  <2> QED BY <1>1, <2>1, <2>2, <2>3, <2>4
<1> QED BY <1>3, <1>4 DEF Plays

\* Only a packet lets a connection in.
LEMMA EnteredGrows ==
    ASSUME ConnsInv, Fresh, [Next]_vars, NEW c \in Entered'
    PROVE  c \in Conn /\ (c \in Entered \/ (Plays(c) /\ InFlight(c)))
<1>0. loaded' \subseteq Conn /\ unplaced' \subseteq Conn /\ unplaced \subseteq Conn /\ loaded \subseteq Conn
  BY ConnsStepKeeps DEF ConnsInv, TypeOK
<1>1. c \in Conn BY <1>0 DEF Entered, Played
<1>2. state \in [Conn -> {"early", "play"}] BY DEF ConnsInv, TypeOK
<1>3. CASE UNCHANGED << loaded, life, state, unplaced, data, file >>
  BY <1>1, <1>3 DEF Entered, Played
<1>4. ASSUME NEW e \in Conn, Accepts(e) PROVE c \in Entered
  BY <1>1, <1>4 DEF Entered, Played, Accepts
<1>5. ASSUME NEW e \in Conn, Frees(e) PROVE c \in Entered
  <2>1. state' = [state EXCEPT ![e] = "early"] /\ loaded' \subseteq loaded /\ UNCHANGED << data, unplaced >>
    BY <1>5, FreesWhat
  <2> QED BY <1>1, <1>2, <2>1 DEF Entered, Played
<1>6. ASSUME NEW e \in Conn, Plays(e) PROVE c \in Entered \/ (Plays(c) /\ InFlight(c))
  <2>1. CASE c = e BY <2>1, <1>6, PlaysWhat
  <2>2. CASE c # e
    <3>1. /\ state'[c] = state[c] /\ loaded' \subseteq loaded \cup {e}
          /\ Played' \subseteq Played \cup {e}
      BY <1>1, <1>6, <2>2, PlaysWhat
    <3>2. unplaced' \subseteq unplaced \cup {e}
      BY <1>6 DEF Plays, Joined, JoinRefused, JoinUnplaced, Act, playVars
    <3> QED BY <1>1, <2>2, <3>1, <3>2 DEF Entered
  <2> QED BY <2>1, <2>2
<1> QED BY <1>1, <1>3, <1>4, <1>5, <1>6, PlayerSteps

-----------------------------------------------------------------------------
(* What the sessions of a player leave behind.                             *)

\* Whoever got past the login has connected, and its past is fixed.
LEMMA EnteredIsThere ==
    ASSUME ConnsInv, Fresh, NEW c \in Entered
    PROVE  /\ c \in Conn /\ sock[c] # "none" /\ life[c] # "none"
           /\ [Next]_vars => before'[c] = before[c]
<1>1. c \in Conn BY DEF ConnsInv, TypeOK, Entered, Played
<1>2. sock[c] # "none" /\ life[c] # "none" BY <1>1, NotConnected, NotYet
<1>3. ~Connect(c) BY <1>2 DEF Connect
<1> QED BY <1>1, <1>2, <1>3, PastIsFixed

\* So has whoever has packets on the way.
LEMMA FlyingIsThere ==
    ASSUME ConnsInv, Fresh, NEW c \in Conn, InFlight(c)
    PROVE  /\ sock[c] # "none" /\ life[c] # "none"
           /\ [Next]_vars => before'[c] = before[c]
<1>1. sock[c] # "none" /\ life[c] # "none" BY NotConnected, NotYet
<1>2. ~Connect(c) BY <1>1 DEF Connect
<1> QED BY <1>1, <1>2, PastIsFixed

\* Play is recorded under a connection that has played.
LEMMA PlaysData ==
    ASSUME ConnsInv, Fresh, NEW c \in Conn, Plays(c)
    PROVE  /\ data'[c] \subseteq Played' /\ Played \subseteq Played' /\ unplaced \subseteq unplaced'
           /\ \/ UNCHANGED file /\ Played' = Played /\ c \notin Entered
              \/ /\ Act(c) /\ Played' = Played \cup {c} /\ data'[c] = data[c] \cup {c}
                 /\ file' = file \/ file' = [file EXCEPT ![Who[c]] = data[c] \cup {c}]
<1>1. \/ c \notin Entered /\ c \notin data'[c] /\ Played' = Played
      \/ c \in loaded /\ Played' = Played \cup {c} /\ data'[c] = data[c] \cup {c}
  BY PlaysWhat
<1>2. data \in [Conn -> SUBSET Conn] /\ loaded \subseteq Conn BY DEF ConnsInv, TypeOK
<1>3. CASE Act(c)
  <2>1. c \in Entered BY <1>3 DEF Act, Entered
  <2>2. Played' = Played \cup {c} /\ data'[c] = data[c] \cup {c} BY <1>1, <2>1
  <2>3. file' = file \/ file' = [file EXCEPT ![Who[c]] = data[c] \cup {c}]
    BY <1>3, <2>2 DEF Act
  <2>4. unplaced' = unplaced BY <1>3 DEF Act
  <2> QED BY <1>3, <2>2, <2>3, <2>4 DEF Fresh
<1>4. CASE ~Act(c)
  <2>0. state[c] = "early"
    BY <1>4 DEF Plays, Joined, JoinRefused, JoinUnplaced
  <2>1. c \notin Entered
    <3>1. life[c] = "live" BY PlaysWhat
    <3> QED BY <2>0, <3>1 DEF Fresh
  <2>2. Played' = Played BY <1>1, <2>1 DEF Entered
  <2>3. UNCHANGED file /\ unplaced \subseteq unplaced'
    BY <1>4 DEF Plays, Joined, JoinRefused, JoinUnplaced, playVars
  <2>4. data'[c] \subseteq Played
    <3>1. CASE Joined(c)
      <4>1. data'[c] = file[Who[c]] /\ Who[c] \in Players
        BY <1>2, <3>1, ConnsAssumption DEF Joined
      <4> QED BY <4>1 DEF Fresh
    <3>2. CASE JoinRefused(c) BY <3>2 DEF JoinRefused, playVars, Fresh
    <3>3. CASE JoinUnplaced(c) BY <1>2, <3>3 DEF JoinUnplaced
    <3> QED BY <1>4, <3>1, <3>2, <3>3 DEF Plays
  <2> QED BY <2>1, <2>2, <2>3, <2>4
<1> QED BY <1>3, <1>4

\* A connection is accepted once.
LEMMA LifeSteps ==
    ASSUME ConnsInv, Fresh, [Next]_vars, NEW c \in Conn
    PROVE  /\ life'[c] = "none" => life[c] = "none"
           /\ life[c] = "none" => life'[c] = "none" \/ Accepts(c)
<1>1. life \in [Conn -> {"none", "live", "freed"}] BY DEF ConnsInv, TypeOK
<1>2. CASE UNCHANGED life BY <1>2
<1>3. ASSUME NEW e \in Conn, Accepts(e)
      PROVE  (life'[c] = "none" => life[c] = "none") /\ (life[c] = "none" => life'[c] = "none" \/ Accepts(c))
  BY <1>1, <1>3 DEF Accepts
<1>4. ASSUME NEW e \in Conn, Frees(e)
      PROVE  (life'[c] = "none" => life[c] = "none") /\ (life[c] = "none" => life'[c] = "none" \/ Accepts(c))
  <2>1. life' = [life EXCEPT ![e] = "freed"] /\ life[e] = "live" BY <1>4, FreesWhat DEF Frees
  <2> QED BY <1>1, <2>1
<1>5. ASSUME NEW e \in Conn, Plays(e) PROVE UNCHANGED life BY <1>5, PlaysWhat
<1> QED BY <1>2, <1>3, <1>4, <1>5, PlayerSteps

\* Every step keeps what the parts of the invariant say.
LEMMA FreshKept == ASSUME ConnsInv, Fresh, [Next]_vars PROVE Fresh'
<1>0. /\ life \in [Conn -> {"none", "live", "freed"}] /\ state \in [Conn -> {"early", "play"}]
      /\ loaded \subseteq Conn /\ data \in [Conn -> SUBSET Conn] /\ file \in [Players -> SUBSET Conn]
  BY DEF ConnsInv, TypeOK
<1>1. \A c \in loaded' : life'[c] = "live"
  <2>1. CASE UNCHANGED << loaded, life >> BY <2>1 DEF Fresh
  <2>2. ASSUME NEW e \in Conn, Accepts(e) PROVE \A c \in loaded' : life'[c] = "live"
    BY <1>0, <2>2 DEF Fresh, Accepts
  <2>3. ASSUME NEW e \in Conn, Frees(e) PROVE \A c \in loaded' : life'[c] = "live"
    <3>1. life' = [life EXCEPT ![e] = "freed"] /\ loaded' = loaded \ {e} BY <2>3, FreesWhat
    <3> QED BY <1>0, <3>1 DEF Fresh
  <2>4. ASSUME NEW e \in Conn, Plays(e) PROVE \A c \in loaded' : life'[c] = "live"
    <3>1. UNCHANGED life /\ life[e] = "live" /\ loaded' \subseteq loaded \cup {e} BY <2>4, PlaysWhat
    <3> QED BY <3>1 DEF Fresh
  <2> QED BY <2>1, <2>2, <2>3, <2>4, PlayerSteps
<1>2. \A c \in Conn : life'[c] # "none" => sock'[c] # "none"
  <2> SUFFICES ASSUME NEW c \in Conn, life'[c] # "none" PROVE sock'[c] # "none"
    OBVIOUS
  <2>1. sock[c] # "none"
    BY LifeSteps DEF Fresh, Accepts, Backlog
  <2> QED BY <2>1, PastIsFixed
<1>3. \A c \in Conn : life'[c] = "none" => state'[c] = "early" /\ ~InFlight(c)'
  <2> SUFFICES ASSUME NEW c \in Conn, life'[c] = "none" PROVE state'[c] = "early" /\ ~InFlight(c)'
    OBVIOUS
  <2>1. life[c] = "none" BY LifeSteps
  <2>2. state[c] = "early" /\ ~InFlight(c) /\ c \notin batch BY <2>1, NotYet DEF Fresh
  <2>3. ~InFlight(c)' BY <2>2, FlightBegins DEF Recv, Foremost
  <2>4. state'[c] = "early"
    <3>1. CASE UNCHANGED state BY <2>2, <3>1
    <3>2. ASSUME NEW e \in Conn, Frees(e) PROVE state'[c] = "early"
      <4>1. state' = [state EXCEPT ![e] = "early"] BY <3>2, FreesWhat
      <4> QED BY <1>0, <2>2, <4>1
    <3>3. ASSUME NEW e \in Conn, Plays(e) PROVE state'[c] = "early"
      <4>1. life[e] = "live" /\ \A d \in Conn : d # e => state'[d] = state[d] BY <3>3, PlaysWhat
      <4> QED BY <2>1, <2>2, <4>1
    <3> QED BY <3>1, <3>2, <3>3, PlayerSteps DEF Accepts
  <2> QED BY <2>3, <2>4
<1>4. \A c \in Entered' : state'[c] = "early" => life'[c] = "freed"
  <2> SUFFICES ASSUME NEW c \in Entered', state'[c] = "early" PROVE life'[c] = "freed"
    OBVIOUS
  <2>1. c \in Conn /\ c \in Entered
    BY EnteredGrows, PlaysWhat
  <2>2. CASE UNCHANGED << life, state >> BY <2>1, <2>2 DEF Fresh
  <2>3. ASSUME NEW e \in Conn, Accepts(e) PROVE life'[c] = "freed"
    <3>1. life[e] = "none" /\ life' = [life EXCEPT ![e] = "live"] /\ UNCHANGED state
      BY <2>3 DEF Accepts, Backlog
    <3>2. c # e BY <2>1, <3>1, NotYet
    <3> QED BY <1>0, <2>1, <3>1, <3>2 DEF Fresh
  <2>4. ASSUME NEW e \in Conn, Frees(e) PROVE life'[c] = "freed"
    <3>1. life' = [life EXCEPT ![e] = "freed"] /\ state' = [state EXCEPT ![e] = "early"]
      BY <2>4, FreesWhat
    <3>2. CASE c = e BY <1>0, <3>1, <3>2
    <3>3. CASE c # e
      <4>1. life'[c] = life[c] /\ state'[c] = state[c] BY <1>0, <2>1, <3>1, <3>3
      <4> QED BY <2>1, <4>1 DEF Fresh
    <3> QED BY <3>2, <3>3
  <2>5. ASSUME NEW e \in Conn, Plays(e) PROVE life'[c] = "freed"
    <3>1. UNCHANGED life /\ state'[e] = "play" /\ \A d \in Conn : d # e => state'[d] = state[d]
      BY <2>5, PlaysWhat
    <3> QED BY <2>1, <3>1 DEF Fresh
  <2> QED BY <2>2, <2>3, <2>4, <2>5, PlayerSteps
<1>5. (\A c \in Conn : data'[c] \subseteq Played') /\ (\A p \in Players : file'[p] \subseteq Played')
  <2>1. CASE UNCHANGED << data, file >>
    <3>1. Played' = Played BY <2>1 DEF Played
    <3> QED BY <2>1, <3>1 DEF Fresh
  <2>2. ASSUME NEW e \in Conn, Frees(e) PROVE <1>5!:
    <3>1. UNCHANGED data /\ file' = IF e \in loaded THEN [file EXCEPT ![Who[e]] = data[e]] ELSE file
      BY <2>2, FreesWhat
    <3>2. Played' = Played BY <3>1 DEF Played
    <3>3. \A p \in Players : file'[p] = file[p] \/ file'[p] = data[e] BY <1>0, <3>1
    <3> QED BY <3>1, <3>2, <3>3 DEF Fresh
  <2>3. ASSUME NEW e \in Conn, Plays(e) PROVE <1>5!:
    <3>1. data'[e] \subseteq Played' /\ Played \subseteq Played' BY <2>3, PlaysData
    <3>2. \A d \in Conn : d # e => data'[d] = data[d] BY <2>3, PlaysWhat
    <3>3. \A p \in Players : file'[p] = file[p] \/ file'[p] = data'[e]
      <4>1. file' = file \/ file' = [file EXCEPT ![Who[e]] = data'[e]]
        BY <2>3, PlaysData
      <4> QED BY <1>0, <4>1
    <3> QED BY <3>1, <3>2, <3>3 DEF Fresh
  <2> QED BY <2>1, <2>2, <2>3, PlayerSteps DEF Accepts
<1> QED BY <1>1, <1>2, <1>3, <1>4, <1>5 DEF Fresh

-----------------------------------------------------------------------------
(* The order in which ends and packets are handled.                        *)

\* Whose events and whose place in the list a step may change.
LEMMA NetSteps ==
    ASSUME [Next]_vars
    PROVE  \/ UNCHANGED << netVars, conns >>
           \/ Wait \/ Accept \/ (\E c \in Conn : Recv(c)) \/ Decode \/ Sweep
           \/ Unlink \/ Shut \/ Drop \/ Join \/ Destroy
<1> USE DEF clientVars, lifeVars, netVars, tickVars, playVars
<1>1. CASE Client BY <1>1 DEF Client, Connect, Send, Quit
<1>2. CASE Net BY <1>2 DEF Net
<1>3. CASE Tick
  BY <1>3 DEF Tick, Drain, Process, Release, TasksDone, Snapshot, PlayTick, TurnsDone, Flush, Clear
<1>4. CASE Stop \/ Ended \/ UNCHANGED vars BY <1>4 DEF Stop, Ended, vars
<1> QED BY <1>1, <1>2, <1>3, <1>4 DEF Next

\* The list grows by accepting, and loses what is being closed.
LEMMA ListSteps ==
    ASSUME ConnsInv, [Next]_vars, NEW d \in Conn
    PROVE  /\ Listed(d)' => Listed(d) \/ life[d] = "none"
           /\ Unlink => (Listed(d)' <=> Listed(d) /\ d # Head(doomed))
           /\ Unlinked(d)' => Listed(d) \/ Unlinked(d)
<1> USE DEF clientVars, lifeVars, netVars, tickVars, playVars
<1>0. conns \in Seq(Conn) /\ IsInjective(conns) /\ doomed \in Seq(Conn)
  BY DEF ConnsInv, TypeOK, NetList
<1>1. CASE Accept
  <2>1. netPc' = "serve" BY <1>1 DEF Accept
  <2>2. CASE Backlog = {} BY <1>1, <2>1, <2>2 DEF Accept, Unlinked, Unlink
  <2>3. CASE Backlog # {}
    <3>1. PICK c \in Backlog : conns' = << c >> \o conns BY <1>1, <2>3 DEF Accept
    <3>2. c \in Conn /\ life[c] = "none" BY DEF Backlog
    <3>3. c \notin Range(conns)
      <4>1. CASE netPc \in {"destroy", "done"} BY <4>1, <3>2 DEF ConnsInv, NetList
      <4>2. CASE netPc \notin {"destroy", "done"} BY <4>2, <3>2, HeldIsCounted
      <4> QED BY <4>1, <4>2
    <3>4. Range(conns') = {c} \cup Range(conns) BY <1>0, <3>1, <3>2, <3>3, PrependList
    <3> QED BY <1>1, <2>1, <3>2, <3>4 DEF Unlinked, Accept, Unlink
  <2> QED BY <2>2, <2>3
<1>2. CASE Unlink
  <2>1. netPc = "unlink" /\ netPc' = "shut" /\ UNCHANGED doomed
        /\ conns' = RemoveFirst(conns, Head(doomed))
    BY <1>2 DEF Unlink
  <2>2. Head(doomed) \in Conn /\ Listed(Head(doomed)) BY <2>1, DoomedFirst
  <2>3. Range(conns') = Range(conns) \ {Head(doomed)} BY <1>0, <2>1, <2>2, RemoveList
  <2> QED BY <2>1, <2>2, <2>3 DEF Unlinked
<1>3. CASE Destroy
  <2>1. netPc = "destroy" /\ netPc' \in {"destroy", "done"} BY <1>3 DEF Destroy
  <2>2. Range(conns') \subseteq Range(conns)
    <3>1. CASE conns = << >> BY <1>3, <3>1 DEF Destroy
    <3>2. CASE conns # << >>
      <4>1. conns' = Tail(conns) BY <1>3, <3>2 DEF Destroy
      <4> QED BY <1>0, <3>2, <4>1, TailList
    <3> QED BY <3>1, <3>2
  <2> QED BY <2>1, <2>2 DEF Unlinked, Unlink
<1>4. CASE UNCHANGED << netVars, conns >>
  <2>1. ~Unlink BY <1>4 DEF Unlink
  <2> QED BY <1>4, <2>1 DEF Unlinked
<1>5. CASE Wait \/ (\E c \in Conn : Recv(c)) \/ Decode \/ Sweep \/ Drop \/ Join
  <2>1. UNCHANGED conns /\ netPc' \notin {"shut", "drop"}
    BY <1>5 DEF Wait, Recv, Decode, Sweep, Drop, Join
  <2>2. ~Unlink BY <1>5 DEF Wait, Recv, Decode, Sweep, Drop, Join, Unlink
  <2> QED BY <2>1, <2>2 DEF Unlinked
<1>6. CASE Shut
  <2>1. UNCHANGED << conns, doomed >> /\ netPc = "shut" BY <1>6 DEF Shut
  <2> QED BY <2>1 DEF Unlinked, Unlink
<1> QED BY <1>1, <1>2, <1>3, <1>4, <1>5, <1>6, NetSteps

\* An end is handled before the packets of a later session are read,
LEMMA EndsFirstKept == ASSUME ConnsInv, RejoinInv, [Next]_vars PROVE EndsFirst'
<1> USE DEF clientVars, lifeVars, netVars, tickVars, playVars
<1> DEFINE Ends(d) == d \in batch' \/ Over(d)' \/ ~Listed(d)' \/ (netPc' = "unlink" /\ d = Head(doomed'))
<1> SUFFICES ASSUME NEW c \in batch' \ {"listen"}, NEW d \in before'[c]
             PROVE  Ends(d)
  BY DEF EndsFirst
<1>0. Fresh /\ PastSessions /\ EndsFirst BY DEF RejoinInv
<1>1. ConnsInv' BY ConnsStepKeeps
<1>2. c \in Conn BY <1>1 DEF ConnsInv, TypeOK
<1>3. before'[c] = before[c]
  <2>1. ASSUME Connect(c) PROVE FALSE
    <3>1. sock[c] = "none" /\ UNCHANGED batch BY <2>1 DEF Connect
    <3> QED BY <1>0, <1>2, <3>1, NotConnected
  <2> QED BY <1>0, <1>2, <2>1, PastIsFixed
<1>4. d \in Conn /\ d \in before[c] /\ sock[d] = "left"
  BY <1>0, <1>2, <1>3 DEF PastSessions, ConnsInv, TypeOK
<1>5. Over(d) => Over(d)' BY <1>0, <1>4, OverStays
<1>6. life[d] = "none" => Over(d) BY <1>0, <1>4, NotYet DEF Over
<1>7. ~Listed(d) => ~Listed(d)' \/ Over(d)' BY <1>4, <1>5, <1>6, ListSteps
<1>8. c \in batch => d \in batch \/ Over(d) \/ ~Listed(d) \/ (netPc = "unlink" /\ d = Head(doomed))
  BY <1>0, <1>2, <1>4, ConnsAssumption DEF EndsFirst
<1>9. d # "listen" BY <1>4, ConnsAssumption
<1> DEFINE Held == d \in batch \/ Over(d) \/ ~Listed(d)
<1>10. CASE UNCHANGED << batch, netPc, doomed >> BY <1>10, <1>5, <1>7, <1>8
<1>11. CASE Wait
  <2>1. netPc = "wait" BY <1>11 DEF Wait
  <2>2. batch = {} BY <2>1 DEF ConnsInv, NetBatch
  <2>3. batch' = Readable \cup (IF Backlog = {} THEN {} ELSE {"listen"}) /\ UNCHANGED conns
    BY <1>11, <2>2 DEF Wait
  <2>4. Listed(d) => d \in Readable BY <1>4 DEF Readable
  <2> QED BY <2>3, <2>4
<1>12. CASE Accept
  <2>1. c \in batch /\ netPc = "serve" /\ (d \in batch => d \in batch') BY <1>12, <1>9 DEF Accept
  <2> QED BY <2>1, <1>5, <1>7, <1>8
<1>13. ASSUME NEW e \in Conn, Recv(e) PROVE Ends(d)
  <2>1. batch' = batch \ {e} /\ netPc = "serve" BY <1>13 DEF Recv
  <2>2. CASE d # e BY <2>1, <2>2, <1>5, <1>7, <1>8
  <2>3. CASE d = e
    <3>1. netPc' = "unlink" /\ doomed' = << e >> BY <1>13, <1>4, <2>3 DEF Recv
    <3> QED BY <2>3, <3>1
  <2> QED BY <2>2, <2>3
<1>14. CASE Decode \/ Shut \/ Drop
  <2>1. UNCHANGED batch /\ netPc # "unlink" BY <1>14 DEF Decode, Shut, Drop
  <2> QED BY <2>1, <1>5, <1>7, <1>8
<1>15. CASE Sweep \/ Join \/ Destroy
  <2>1. UNCHANGED batch BY <1>15 DEF Sweep, Join, Destroy
  <2>2. batch = {} BY <1>15 DEF Sweep, Join, Destroy, ConnsInv, NetBatch
  <2> QED BY <2>1, <2>2
<1>16. CASE Unlink
  <2>1. UNCHANGED batch BY <1>16 DEF Unlink
  <2>2. d = Head(doomed) => ~Listed(d)' BY <1>4, <1>16, ListSteps
  <2> QED BY <2>1, <2>2, <1>5, <1>7, <1>8
<1> QED BY <1>10, <1>11, <1>12, <1>13, <1>14, <1>15, <1>16, NetSteps

\* before they are queued,
LEMMA PassedKept == ASSUME ConnsInv, RejoinInv, [Next]_vars PROVE Passed'
<1> SUFFICES ASSUME NEW c \in Conn, InFlight(c)', NEW d \in before'[c]
             PROVE  Over(d)' \/ ~(Listed(d)' \/ Unlinked(d)')
  BY DEF Passed
<1>0. Fresh /\ PastSessions /\ EndsFirst /\ Passed BY DEF RejoinInv
<1>1. InFlight(c) \/ (Recv(c) /\ sock[c] # "left") BY FlightBegins
<1>2. before'[c] = before[c]
  <2>1. ASSUME Connect(c) PROVE FALSE
    <3>1. sock[c] = "none" BY <2>1 DEF Connect
    <3>2. ~InFlight(c) /\ c \notin batch BY <1>0, <3>1, NotConnected
    <3> QED BY <1>1, <3>2 DEF Recv, Foremost
  <2> QED BY <1>0, <2>1, PastIsFixed
<1>3. d \in Conn /\ d \in before[c] /\ sock[d] = "left"
  BY <1>0, <1>2 DEF PastSessions, ConnsInv, TypeOK
<1>4. Over(d) => Over(d)' BY <1>0, <1>3, OverStays
<1>5. life[d] = "none" => Over(d) BY <1>0, <1>3, NotYet DEF Over
<1>6. Over(d) \/ ~(Listed(d) \/ Unlinked(d))
  <2>1. CASE InFlight(c) BY <1>0, <1>3, <2>1 DEF Passed
  <2>2. CASE Recv(c)
    <3>1. netPc = "serve" /\ c \in batch /\ d \notin batch BY <1>3, <2>2 DEF Recv, Foremost
    <3>2. c # "listen" BY ConnsAssumption
    <3> QED BY <1>0, <1>3, <3>1, <3>2 DEF EndsFirst, Unlinked
  <2> QED BY <1>1, <2>1, <2>2
<1> QED BY <1>3, <1>4, <1>5, <1>6, ListSteps

\* and tasks are handled in the order they were queued.
LEMMA InOrderKept == ASSUME ConnsInv, RejoinInv, [Next]_vars PROVE InOrder'
<1>0. Fresh /\ PastSessions /\ Passed /\ InOrder BY DEF RejoinInv
<1>1. input \in Seq(Tasks) /\ queue \in Seq(Tasks) /\ tasks \in Seq(Tasks)
  BY DEF ConnsInv, TypeOK
<1>2. \A i \in DOMAIN queue : queue[i].conn \in Conn /\ InFlight(queue[i].conn)
  <2>1. \A i \in DOMAIN queue : queue[i] \in Tasks BY <1>1
  <2>2. \A i \in DOMAIN queue : queue[i].conn \in Conn BY <2>1 DEF Tasks
  <2>3. \A i \in DOMAIN queue : HasTask(queue[i].conn, queue) BY DEF HasTask
  <2> QED BY <2>2, <2>3 DEF InFlight
<1>3. \A i \in DOMAIN tasks : tasks[i].conn \in Conn /\ InFlight(tasks[i].conn)
  <2>1. \A i \in DOMAIN tasks : tasks[i] \in Tasks BY <1>1
  <2>2. \A i \in DOMAIN tasks : tasks[i].conn \in Conn BY <2>1 DEF Tasks
  <2>3. \A i \in DOMAIN tasks : HasTask(tasks[i].conn, tasks) BY DEF HasTask
  <2> QED BY <2>2, <2>3 DEF InFlight
<1>4. \A e \in Conn : InFlight(e) => before'[e] = before[e] BY <1>0, FlyingIsThere
<1>5. /\ \A i \in DOMAIN queue : before'[queue[i].conn] = before[queue[i].conn]
      /\ \A i \in DOMAIN tasks : before'[tasks[i].conn] = before[tasks[i].conn]
  BY <1>2, <1>3, <1>4
<1>6. /\ \A i, j \in DOMAIN queue : i < j => queue[j].conn \notin before'[queue[i].conn]
      /\ \A i, j \in DOMAIN tasks : i < j => tasks[j].conn \notin before'[tasks[i].conn]
      /\ \A i \in DOMAIN tasks, j \in DOMAIN queue : queue[j].conn \notin before'[tasks[i].conn]
  BY <1>0, <1>5 DEF InOrder
<1>7. CASE UNCHANGED << queue, tasks >> BY <1>6, <1>7 DEF InOrder
<1>8. CASE Decode /\ queue' # queue
  <2>1. /\ queue' = Append(queue, Head(input)) /\ UNCHANGED tasks /\ input # << >>
    BY <1>8 DEF Decode, tickVars
  <2> DEFINE x == Head(input).conn
             n == Len(queue)
  <2>2. Head(input) \in Tasks /\ 1 \in DOMAIN input /\ Head(input) = input[1]
    BY <1>1, <2>1, TailElements
  <2>3. x \in Conn /\ Listed(x) /\ InFlight(x)
    BY <2>2 DEF Tasks, ConnsInv, NetBatch, InFlight, HasTask
  <2>4. /\ DOMAIN queue' = 1 .. n + 1 /\ DOMAIN queue = 1 .. n /\ n \in Nat
        /\ \A i \in 1 .. n : queue'[i] = queue[i]
        /\ queue'[n + 1] = Head(input)
    BY <1>1, <2>1, <2>2, AppendElements
  <2>5. \A e \in Conn : InFlight(e) => x \notin before'[e]
    BY <1>0, <1>4, <2>3 DEF Passed, Over
  <2> HIDE DEF x
  <2>6. queue'[n + 1].conn = x BY <2>4 DEF x
  <2>7. ASSUME NEW i \in DOMAIN queue', NEW j \in DOMAIN queue', i < j
        PROVE  queue'[j].conn \notin before'[queue'[i].conn]
    <3>1. i \in 1 .. n BY <2>4, <2>7
    <3>2. CASE j = n + 1 BY <1>2, <2>4, <2>5, <2>6, <3>1, <3>2
    <3>3. CASE j # n + 1
      <4>1. j \in 1 .. n BY <2>4, <3>3
      <4> QED BY <1>6, <2>4, <2>7, <3>1, <4>1
    <3> QED BY <3>2, <3>3
  <2>8. ASSUME NEW i \in DOMAIN tasks, NEW j \in DOMAIN queue'
        PROVE  queue'[j].conn \notin before'[tasks[i].conn]
    <3>1. CASE j = n + 1 BY <1>3, <2>5, <2>6, <3>1
    <3>2. CASE j # n + 1
      <4>1. j \in 1 .. n BY <2>4, <3>2
      <4> QED BY <1>6, <2>4, <4>1
    <3> QED BY <3>1, <3>2
  <2>9. /\ \A i, j \in DOMAIN queue' : i < j => queue'[j].conn \notin before'[queue'[i].conn]
        /\ \A i, j \in DOMAIN tasks' : i < j => tasks'[j].conn \notin before'[tasks'[i].conn]
        /\ \A i \in DOMAIN tasks', j \in DOMAIN queue' : queue'[j].conn \notin before'[tasks'[i].conn]
    BY <1>6, <2>1, <2>7, <2>8
  <2> QED BY <2>9 DEF InOrder
<1>9. CASE Drain
  <2>1. tasks' = queue /\ queue' = << >> BY <1>9 DEF Drain
  <2> QED BY <1>6, <2>1 DEF InOrder
<1>10. CASE Release
  <2>1. tasks' = Tail(tasks) /\ UNCHANGED queue /\ tasks # << >>
    BY <1>10 DEF Release, ConnsInv, TickLists
  <2> DEFINE n == Len(tasks)
  <2>2. /\ DOMAIN tasks' = 1 .. n - 1 /\ n \in Nat \ {0}
        /\ \A i \in 1 .. n - 1 : tasks'[i] = tasks[i + 1] /\ i + 1 \in DOMAIN tasks
    BY <1>1, <2>1, TailElements
  <2> HIDE DEF n
  <2>3. ASSUME NEW i \in DOMAIN tasks', NEW j \in DOMAIN tasks', i < j
        PROVE  tasks'[j].conn \notin before'[tasks'[i].conn]
    <3>1. i + 1 < j + 1 BY <2>2, <2>3
    <3>2. i + 1 \in DOMAIN tasks /\ j + 1 \in DOMAIN tasks /\ tasks'[i] = tasks[i + 1] /\ tasks'[j] = tasks[j + 1]
      BY <2>2
    <3> QED BY <1>6, <3>1, <3>2
  <2>4. ASSUME NEW i \in DOMAIN tasks', NEW j \in DOMAIN queue'
        PROVE  queue'[j].conn \notin before'[tasks'[i].conn]
    <3>1. i + 1 \in DOMAIN tasks /\ tasks'[i] = tasks[i + 1] BY <2>2
    <3> QED BY <1>6, <2>1, <3>1
  <2>5. \A i, j \in DOMAIN queue' : i < j => queue'[j].conn \notin before'[queue'[i].conn]
    BY <1>6, <2>1
  <2> QED BY <2>3, <2>4, <2>5 DEF InOrder
<1>11. ASSUME NEW e \in Conn, Recv(e) PROVE UNCHANGED << queue, tasks >>
  BY <1>11 DEF Recv, tickVars
<1>12. Decode => UNCHANGED tasks BY DEF Decode, tickVars
<1> QED BY <1>7, <1>8, <1>9, <1>10, <1>11, <1>12, QueueSteps

-----------------------------------------------------------------------------
(* What the file holds when a player comes back.                           *)

\* When a packet of a session is handled, the sessions before it are over.
LEMMA HeadIsAfter ==
    ASSUME ConnsInv, RejoinInv, Process, NEW d \in before[Head(tasks).conn]
    PROVE  d \in Conn /\ Over(d)
<1> DEFINE c == Head(tasks).conn
<1>0. Fresh /\ PastSessions /\ Passed /\ InOrder BY DEF RejoinInv
<1>1. /\ c \in Conn /\ InFlight(c) /\ tasks \in Seq(Tasks) /\ tasks # << >>
      /\ netPc \notin {"destroy", "done"} /\ snapshot = << >>
  BY TaskAtHand
<1>2. Head(tasks) = tasks[1] /\ 1 \in DOMAIN tasks /\ DOMAIN tasks = 1 .. Len(tasks) /\ Len(tasks) \in Nat
  BY <1>1, TailElements
<1>3. c = tasks[1].conn BY <1>2
<1> HIDE DEF c
<1>4. d \in before[c] BY DEF c
<1>5. d \in Conn /\ sock[d] = "left" /\ d # c BY <1>0, <1>1, <1>4 DEF PastSessions, ConnsInv, TypeOK
<1>6. CASE ~(Listed(d) \/ Unlinked(d))
  <2>1. ~HasTask(d, input) BY <1>6 DEF ConnsInv, NetBatch, HasTask
  <2>2. ~HasTask(d, tasks)
    <3> SUFFICES ASSUME NEW j \in DOMAIN tasks, tasks[j].conn = d PROVE FALSE
      BY DEF HasTask
    <3>1. 1 < j BY <1>2, <1>3, <1>5
    <3> QED BY <1>0, <1>2, <1>3, <1>4, <3>1 DEF InOrder
  <2>3. ~HasTask(d, queue) BY <1>0, <1>2, <1>3, <1>4 DEF InOrder, HasTask
  <2>4. refs[d] = 0
    <3>1. queue \in Seq(Tasks) BY DEF ConnsInv, TypeOK
    <3>2. TasksOf(d, queue) = 0 /\ TasksOf(d, tasks) = 0 BY <1>1, <3>1, <2>2, <2>3, HasIsCounted
    <3>3. Count(d, snapshot) = 0
      <4>1. d \notin Range(snapshot) BY <1>1 DEF Range
      <4> QED BY <4>1, <1>5, ConnsAreCounted DEF ConnsInv, TypeOK
    <3>4. refs[d] = TasksOf(d, queue) + TasksOf(d, tasks) + Count(d, snapshot)
                      + (IF Listed(d) \/ Unlinked(d) THEN 1 ELSE 0)
      BY <1>1, <1>5, CountsAdd
    <3>5. (IF Listed(d) \/ Unlinked(d) THEN 1 ELSE 0) = 0 BY <1>6
    <3> QED BY <3>2, <3>3, <3>4, <3>5
  <2>5. life[d] # "live" BY <1>1, <1>5, <2>4, CountsAdd
  <2>6. d \notin loaded BY <1>0, <2>5 DEF Fresh
  <2> QED BY <1>5, <2>1, <2>2, <2>3, <2>6 DEF Over, InFlight
<1> QED BY <1>0, <1>1, <1>4, <1>5, <1>6 DEF Passed

\* So every session that is let in comes after the ones before it.
LEMMA EnteredAfterKept == ASSUME ConnsInv, RejoinInv, [Next]_vars PROVE EnteredAfter'
<1> SUFFICES ASSUME NEW c \in Entered', NEW d \in before'[c] PROVE Over(d)'
  BY DEF EnteredAfter
<1>0. Fresh /\ PastSessions /\ EnteredAfter BY DEF RejoinInv
<1>1. c \in Conn /\ (c \in Entered \/ (Plays(c) /\ InFlight(c))) BY <1>0, EnteredGrows
<1>2. before'[c] = before[c] BY <1>0, <1>1, EnteredIsThere, FlyingIsThere
<1>3. d \in Conn BY <1>1, <1>2 DEF ConnsInv, TypeOK
<1>4. Over(d)
  <2>1. CASE c \in Entered BY <1>0, <1>2, <2>1 DEF EnteredAfter
  <2>2. CASE Plays(c)
    <3>1. Process /\ d \in before[Head(tasks).conn] BY <1>2, <2>2 DEF Plays
    <3> QED BY <3>1, HeadIsAfter
  <2> QED BY <1>1, <2>1, <2>2
<1> QED BY <1>0, <1>3, <1>4, OverStays

\* Sessions that are apart after a step were apart before it.
LEMMA ApartBefore ==
    ASSUME ConnsInv, RejoinInv, [Next]_vars, NEW p, Apart(p)'
    PROVE  Apart(p)
<1>0. Fresh BY DEF RejoinInv
<1> SUFFICES ASSUME NEW c \in Conn, NEW d \in Conn, Who[c] = p, Who[d] = p,
                    sock[c] # "none", sock[d] # "none", c # d
             PROVE  c \in before[d] \/ d \in before[c]
  BY DEF Apart
<1>1. sock'[c] # "none" /\ sock'[d] # "none" BY <1>0, PastIsFixed
<1>2. before'[c] = before[c] /\ before'[d] = before[d]
  <2>1. ~Connect(c) /\ ~Connect(d) BY DEF Connect
  <2> QED BY <2>1, <1>0, PastIsFixed
<1> QED BY <1>1, <1>2 DEF Apart

\* What was played stays played.
LEMMA PlayersStay ==
    ASSUME ConnsInv, RejoinInv, [Next]_vars
    PROVE  unplaced \subseteq unplaced' /\ Played \subseteq Played'
<1>0. Fresh BY DEF RejoinInv
<1>1. CASE UNCHANGED << unplaced, data >> BY <1>1 DEF Played
<1>2. ASSUME NEW c \in Conn, Plays(c)
      PROVE  unplaced \subseteq unplaced' /\ Played \subseteq Played'
  BY <1>0, <1>2, PlaysData
<1>3. ASSUME NEW c \in Conn, Frees(c) PROVE UNCHANGED << unplaced, data >>
  BY <1>3, FreesWhat
<1> QED BY <1>1, <1>2, <1>3, PlayerSteps DEF Accepts

\* A player that is loaded includes the play of its sessions that are over.
LEMMA LaterKnows ==
    ASSUME ConnsInv, RejoinInv, NEW c \in loaded, NEW d \in Played \ loaded,
           Who[c] = Who[d], Apart(Who[d]), Placed(Who[d])
    PROVE  d \in data[c]
<1>0. Fresh /\ PastSessions /\ EnteredAfter /\ RejoinSeesSave BY DEF RejoinInv
<1>1. c \in Entered /\ d \in Entered /\ c # d BY DEF Entered
<1>2. c \in Conn /\ d \in Conn /\ sock[c] # "none" /\ sock[d] # "none" BY <1>0, <1>1, EnteredIsThere
<1>3. c \in before[d] \/ d \in before[c] BY <1>1, <1>2 DEF Apart
<1>4. c \notin before[d] BY <1>0, <1>1 DEF EnteredAfter, Over
<1>5. (before[c] \cup {c}) \cap unplaced = {}
  BY <1>0, <1>2 DEF PastSessions, Placed
<1> QED BY <1>0, <1>3, <1>4, <1>5 DEF RejoinSeesSave

\* Every save includes what the sessions before it did,
LEMMA SavedKept == ASSUME ConnsInv, RejoinInv, [Next]_vars PROVE Saved'
<1> SUFFICES ASSUME NEW d \in Played', d \notin loaded', Apart(Who[d])', Placed(Who[d])'
             PROVE  d \in file'[Who[d]]
  BY DEF Saved
<1>0. Fresh /\ Saved BY DEF RejoinInv
<1>1. d \in Conn /\ Who[d] \in Players BY ConnsAssumption DEF Played
<1>2. Apart(Who[d]) BY ApartBefore
<1>3. Placed(Who[d]) BY PlayersStay DEF Placed
<1>4. file \in [Players -> SUBSET Conn] /\ loaded \subseteq Conn BY DEF ConnsInv, TypeOK
<1>5. CASE UNCHANGED << loaded, data, file >>
  <2>1. d \in Played \ loaded BY <1>5 DEF Played
  <2> QED BY <1>0, <1>2, <1>3, <1>5, <2>1 DEF Saved
<1>6. ASSUME NEW c \in Conn, Frees(c) PROVE d \in file'[Who[d]]
  <2>1. /\ loaded' = loaded \ {c} /\ UNCHANGED data
        /\ file' = IF c \in loaded THEN [file EXCEPT ![Who[c]] = data[c]] ELSE file
    BY <1>6, FreesWhat
  <2>2. d \in Played /\ d \in data[d] BY <2>1 DEF Played
  <2>3. CASE c \in loaded /\ Who[c] = Who[d]
    <3>1. file'[Who[d]] = data[c] BY <1>1, <1>4, <2>1, <2>3
    <3>2. CASE d = c BY <2>2, <3>1, <3>2
    <3>3. CASE d # c
      <4>1. d \in Played \ loaded BY <2>1, <2>2, <3>3
      <4> QED BY <1>2, <1>3, <2>3, <3>1, <4>1, LaterKnows
    <3> QED BY <3>2, <3>3
  <2>4. CASE ~(c \in loaded /\ Who[c] = Who[d])
    <3>1. file'[Who[d]] = file[Who[d]] BY <1>1, <1>4, <2>1, <2>4
    <3>2. d \notin loaded BY <2>1, <2>4
    <3> QED BY <1>0, <1>2, <1>3, <2>2, <3>1, <3>2 DEF Saved
  <2> QED BY <2>3, <2>4
<1>7. ASSUME NEW c \in Conn, Plays(c) PROVE d \in file'[Who[d]]
  <2>1. loaded \subseteq loaded' BY <1>0, <1>7, PlaysWhat
  <2>2. CASE UNCHANGED file /\ Played' = Played
    BY <1>0, <1>2, <1>3, <2>1, <2>2 DEF Saved
  <2>3. CASE /\ Act(c) /\ Played' = Played \cup {c} /\ data'[c] = data[c] \cup {c}
             /\ file' = file \/ file' = [file EXCEPT ![Who[c]] = data[c] \cup {c}]
    <3>1. c \in loaded /\ loaded' = loaded BY <2>3 DEF Act
    <3>2. d \in Played \ loaded BY <2>3, <3>1
    <3>3. d \in file[Who[d]] BY <1>0, <1>2, <1>3, <3>2 DEF Saved
    <3>4. Who[c] = Who[d] => d \in data[c] BY <1>2, <1>3, <3>1, <3>2, LaterKnows
    <3>5. file'[Who[d]] = file[Who[d]] \/ (Who[c] = Who[d] /\ file'[Who[d]] = data[c] \cup {c})
      BY <1>1, <1>4, <2>3
    <3> QED BY <3>3, <3>4, <3>5
  <2> QED BY <1>0, <1>7, <2>2, <2>3, PlaysData
<1> QED BY <1>5, <1>6, <1>7, PlayerSteps DEF Accepts

\* and so does every load.
LEMMA SeesSaveKept == ASSUME ConnsInv, RejoinInv, [Next]_vars PROVE RejoinSeesSave'
<1> SUFFICES ASSUME NEW c \in loaded', Apart(Who[c])', (before'[c] \cup {c}) \cap unplaced' = {},
                    NEW d \in before'[c], d \in Played'
             PROVE  d \in data'[c]
  BY DEF RejoinSeesSave
<1>0. Fresh /\ PastSessions /\ EnteredAfter /\ Saved /\ RejoinSeesSave BY DEF RejoinInv
<1>1. c \in Entered' BY DEF Entered
<1>2. c \in Conn /\ (c \in Entered \/ (Plays(c) /\ InFlight(c))) BY <1>0, <1>1, EnteredGrows
<1>3. before'[c] = before[c] BY <1>0, <1>2, EnteredIsThere, FlyingIsThere
<1>4. Apart(Who[c]) BY ApartBefore
<1>5. (before[c] \cup {c}) \cap unplaced = {} BY <1>3, PlayersStay
<1>6. d \in Conn /\ Who[d] = Who[c] BY <1>0, <1>2, <1>3 DEF PastSessions, ConnsInv, TypeOK
<1>7. data \in [Conn -> SUBSET Conn] /\ file \in [Players -> SUBSET Conn] BY DEF ConnsInv, TypeOK
<1>8. CASE c \in loaded
  <2>1. c \in Entered BY <1>8 DEF Entered
  <2>2. Over(d) BY <1>0, <1>3, <2>1 DEF EnteredAfter
  <2>3. CASE UNCHANGED data
    <3>1. d \in Played BY <2>3 DEF Played
    <3> QED BY <1>0, <1>3, <1>4, <1>5, <1>8, <2>3, <3>1 DEF RejoinSeesSave
  <2>4. ASSUME NEW e \in Conn, Frees(e) PROVE UNCHANGED data BY <2>4, FreesWhat
  <2>5. ASSUME NEW e \in Conn, Plays(e) PROVE d \in data'[c]
    <3>1. \/ e \notin Entered /\ Played' = Played
          \/ e \in loaded /\ Played' = Played \cup {e} /\ data'[e] = data[e] \cup {e}
      BY <1>0, <2>5, PlaysWhat
    <3>2. \A x \in Conn : x # e => data'[x] = data[x] BY <1>0, <2>5, PlaysWhat
    <3>3. d \in Played BY <2>2, <3>1 DEF Over
    <3>4. d \in data[c] BY <1>0, <1>3, <1>4, <1>5, <1>8, <3>3 DEF RejoinSeesSave
    <3>5. data[c] \subseteq data'[c] BY <1>2, <2>1, <3>1, <3>2
    <3> QED BY <3>4, <3>5
  <2> QED BY <2>3, <2>4, <2>5, PlayerSteps DEF Accepts
<1>9. CASE c \notin loaded
  <2>1. Process /\ c = Head(tasks).conn /\ (Joined(c) \/ JoinUnplaced(c))
    BY <1>9, LoadingIsProcessing
  <2>2. Joined(c) BY <2>1 DEF JoinUnplaced
  <2>3. Plays(c) /\ data'[c] = file[Who[c]] BY <1>2, <1>7, <2>1, <2>2 DEF Plays, Joined
  <2>4. c \notin Entered /\ Played' = Played BY <1>0, <1>2, <1>9, <2>3, PlaysWhat
  <2>5. Over(d) BY <1>3, <2>1, HeadIsAfter
  <2>6. d \in Played \ loaded BY <2>4, <2>5 DEF Over
  <2>7. InFlight(c) BY <1>2, <2>4
  <2>8. Placed(Who[c])
    <3> SUFFICES ASSUME NEW e \in unplaced, Who[e] = Who[c] PROVE FALSE
      BY DEF Placed
    <3>1. e \in Entered BY DEF Entered
    <3>2. e \in Conn /\ sock[e] # "none" /\ e # c BY <1>0, <2>4, <3>1, EnteredIsThere
    <3>3. sock[c] # "none" BY <1>0, <1>2, <2>7, FlyingIsThere
    <3>4. c \in before[e] \/ e \in before[c] BY <1>2, <1>4, <3>2, <3>3 DEF Apart
    <3>5. c \notin before[e] BY <1>0, <2>7, <3>1 DEF EnteredAfter, Over
    <3> QED BY <1>5, <3>4, <3>5
  <2> QED BY <1>0, <1>4, <1>6, <2>3, <2>6, <2>8 DEF Saved
<1> QED BY <1>8, <1>9

\* Nobody has played when the server starts.
LEMMA RejoinBegins == ASSUME Init PROVE RejoinInv
<1>1. Entered = {} /\ Played = {} BY DEF Init, Entered, Played
<1>2. \A c \in Conn : ~InFlight(c) BY DEF Init, InFlight, HasTask
<1>3. Range(conns) = {} BY DEF Init, Range
<1>4. PastSessions /\ EndsFirst /\ Passed
  BY <1>2 DEF Init, PastSessions, EndsFirst, Passed
<1>5. Fresh BY <1>1, <1>2 DEF Init, Fresh
<1>6. InOrder BY DEF Init, InOrder
<1>7. EnteredAfter /\ Saved BY <1>1 DEF EnteredAfter, Saved
<1>8. RejoinSeesSave BY DEF Init, RejoinSeesSave
<1> QED BY <1>4, <1>5, <1>6, <1>7, <1>8 DEF RejoinInv

\* Every step keeps the invariant of coming back.
LEMMA RejoinKept == ASSUME ConnsInv, RejoinInv, [Next]_vars PROVE RejoinInv'
<1>1. Fresh' BY FreshKept DEF RejoinInv
<1> QED BY <1>1, PastKept, EndsFirstKept, PassedKept, InOrderKept, EnteredAfterKept, SavedKept,
           SeesSaveKept DEF RejoinInv

\* For any number of players, sessions and packets: a player who comes back
\* after leaving is loaded with everything the earlier sessions did.
THEOREM RejoinSeesSaveCorrect == Spec => []RejoinSeesSave
<1>1. Init => ConnsInv /\ RejoinInv BY InitHolds, RejoinBegins
<1>2. ConnsInv /\ RejoinInv /\ [Next]_vars => ConnsInv' /\ RejoinInv'
  BY ConnsStepKeeps, RejoinKept
<1>3. RejoinInv => RejoinSeesSave BY DEF RejoinInv
<1> QED BY <1>1, <1>2, <1>3, PTL DEF Spec
===============================================================================
