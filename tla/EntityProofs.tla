---------------------------- MODULE EntityProofs -----------------------------
(***************************************************************************)
(* What players see of each other and of the items on the ground           *)
(* (Entities.tla), for any number of players, items and goods: entity      *)
(* numbers differ, every client shows the ground as it is, the living are  *)
(* seen and those who have left are not, but for the races the history     *)
(* variables name.                                                         *)
(***************************************************************************)
EXTENDS Entities, ListLemmas

USE EntitiesAssumption

-----------------------------------------------------------------------------
(* The inductive invariant.  First the two threads.                        *)

\* Connections that have a number, and how many numbers have been given.
Have == {c \in Conn : phase[c] # "none" \/ (netPc = "link" /\ c = netConn)}
\* How many numbers have been given out.
Given == Cardinality(Have) + drops

\* Numbers do not outgrow what has got one, also those that are being given.
NumberInv ==
    /\ \A c \in Conn : id[c] # 0 <=> c \in Have
    /\ nextId \in Nat \ {0} /\ nextId - 1 <= Given
    /\ netId # NoId => netId - 1 <= Given
    /\ hand # NoId => hand - 1 <= Given /\ drops < MaxItems
    /\ \A k \in DOMAIN ground : ground[k].item <= drops
    /\ \A k, l \in DOMAIN ground : ground[k].item = ground[l].item => k = l

\* What the network thread is at.
NetInv ==
    /\ netPc = "idle" <=> netConn = NoConn
    /\ netPc = "number" <=> netId # NoId
    /\ netPc \in {"number", "link"} => phase[netConn] = "none"
    /\ netPc \in {"unsee", "unlink"} => Listed(netConn)
    /\ netPc = "shut" => ~Listed(netConn) /\ phase[netConn] # "none" /\ netConn \notin freed
    /\ netPc = "unsee" <=> lock = "net"
    /\ netPc = "unsee" => netConn \in told
    /\ netPc \in {"idle", "number", "link"} => told = {}

\* The list and the snapshot hold what is made and not freed.
ListInv ==
    /\ IsInjective(conns)
    /\ \A c \in Range(conns) : phase[c] # "none" /\ c \notin freed
    /\ \A c \in Range(snapshot) : phase[c] # "none" /\ c \notin freed
    /\ \A c \in freed : phase[c] # "none"

\* What the tick thread is at.
TickInv ==
    /\ tickPc \in {"spawn", "items"} <=> lock = "tick"
    /\ tickPc \in {"spawn", "count"} <=> hand # NoId
    /\ tickPc # "walk" => walker = NoConn
    /\ tickPc = "walk" => ground # << >>
    /\ tickPc \in {"list", "show"} <=> held.at # 0
    /\ tickPc \in {"tasks", "spawn"} => snapshot = << >>
    /\ turn # 0
    /\ held.at # 0 =>
         /\ turn \in 1 .. Len(snapshot) * Len(snapshot)
         /\ Viewer(turn) # Subject(turn)
         /\ phase[Viewer(turn)] = "ready" /\ phase[Subject(turn)] = "ready"
         /\ Subject(turn) \notin dead

\* TypeOK in parts: the server's state, what clients show, where the two
\* threads are, and history.
ServerTypes ==
    /\ nextId - 1 \in Ids \cup {0} /\ id \in [Conn -> Ids \cup {0}]
    /\ conns \in Seq(Conn) /\ after \in [Conn -> Conn \cup {NoConn}]
    /\ phase \in [Conn -> {"none", "early", "play", "ready"}]
    /\ closing \in [Conn -> BOOLEAN] /\ dead \subseteq Conn /\ freed \subseteq Conn
    /\ drops \in 0 .. MaxItems /\ deaths \in 0 .. MaxDeaths
\* What the tables hold, what lies on the ground and what clients show.
ShownTypes ==
    /\ table \in [Conn -> Seq(Entry)] /\ ground \in Seq(Ground)
    /\ seen \in [Conn -> [Ids -> Shown]] /\ tab \in [Conn -> SUBSET Conn]
\* Where the network thread is.
NetTypes ==
    /\ lock \in {"free", "net", "tick"}
    /\ netPc \in {"idle", "number", "link", "unsee", "unlink", "shut"}
    /\ netConn \in Conn \cup {NoConn} /\ netId \in Ids \cup {NoId} /\ told \subseteq Conn
\* Where the tick thread is.
TickTypes ==
    /\ tickPc \in {"tasks", "spawn", "turns", "count", "walk", "items", "sync", "list", "show",
                   "clear"}
    /\ snapshot \in Seq(Conn) /\ turn \in Nat
    /\ held \in [at : Nat, listed : BOOLEAN, spawned : BOOLEAN]
    /\ walker \in Conn \cup {NoConn} /\ hand \in Ids \cup {NoId}
\* The history variables.
HistoryTypes ==
    /\ raced \subseteq Conn \cup Items /\ strayed \subseteq Conn \X Conn
    /\ forgot \subseteq Conn \X Conn /\ crossed \subseteq Conn /\ spoiled \subseteq Items
    /\ wild \in BOOLEAN

\* Types and control together.
Base == TypeOK /\ NumberInv /\ NetInv /\ ListInv /\ TickInv

-----------------------------------------------------------------------------
(* What the types are made of.                                             *)

\* The parts make up the whole.
LEMMA TypeParts == TypeOK <=> ServerTypes /\ ShownTypes /\ NetTypes /\ TickTypes /\ HistoryTypes
BY DEF TypeOK, ServerTypes, ShownTypes, NetTypes, TickTypes, HistoryTypes

\* The same of the next state.
LEMMA TypesTogether ==
    ASSUME ServerTypes', ShownTypes', NetTypes', TickTypes', HistoryTypes'
    PROVE  TypeOK'
BY DEF TypeOK, ServerTypes, ShownTypes, NetTypes, TickTypes, HistoryTypes

\* Each number that may be given is one of Ids.
LEMMA NumbersSuffice ==
    ASSUME NumberInv, drops \in Nat, drops <= MaxItems
    PROVE  /\ IsFiniteSet(Have) /\ Cardinality(Have) \in Nat /\ Given \in Nat
           /\ Ids \subseteq Nat \ {0} /\ NoId \notin Ids /\ 0 \notin Ids
           /\ \A i \in Nat \ {0} : i - 1 <= Given => i - 1 \in Ids \cup {0}
           /\ \A i \in Nat \ {0} : i - 1 <= Given /\ (drops < MaxItems \/ Have # Conn) => i \in Ids
<1>1. IsFiniteSet(Have) /\ Have \subseteq Conn BY FS_Subset DEF Have
<1>2. Cardinality(Have) \in Nat /\ Cardinality(Conn) \in Nat /\ Cardinality(Have) <= Cardinality(Conn)
  BY <1>1, FS_CardinalityType, FS_Subset
<1>3. Have # Conn => Cardinality(Have) < Cardinality(Conn)
  <2>1. Have # Conn => Cardinality(Have) # Cardinality(Conn) BY <1>1, FS_Subset
  <2> QED BY <2>1, <1>2
<1>4. MaxItems \in Nat OBVIOUS
<1> QED BY <1>1, <1>2, <1>3, <1>4 DEF Given, Ids, NoId

\* The pairs of the sync loop.
LEMMA PairPlaces ==
    ASSUME NEW n \in Nat, NEW t \in 1 .. n * n
    PROVE  n # 0 /\ ((t - 1) \div n) + 1 \in 1 .. n /\ ((t - 1) % n) + 1 \in 1 .. n
OBVIOUS

\* The turn of a pair of places.
Place(n, i, j) == (i - 1) * n + j

\* The viewer's place.
Row(n, t)    == ((t - 1) \div n) + 1

\* The subject's place.
Column(n, t) == ((t - 1) % n) + 1

\* Every pair has its turn.
LEMMA PlacesPair ==
    ASSUME NEW n \in Nat, NEW i \in 1 .. n, NEW j \in 1 .. n
    PROVE  Place(n, i, j) \in 1 .. n * n /\ Row(n, Place(n, i, j)) = i /\ Column(n, Place(n, i, j)) = j
<1> DEFINE t == (i - 1) * n + j
<1>1. t - 1 = n * (i - 1) + (j - 1) OBVIOUS
<1>2. t \in 1 .. n * n OBVIOUS
<1>3. (t - 1) \div n = i - 1 /\ (t - 1) % n = j - 1 BY <1>1
<1> HIDE DEF t
<1>4. ((t - 1) \div n) + 1 = i /\ ((t - 1) % n) + 1 = j BY <1>3
<1> QED BY <1>2, <1>4 DEF t, Place, Row, Column

\* The members of the list and of the snapshot.
LEMMA Members ==
    ASSUME TypeOK
    PROVE  /\ Range(conns) \subseteq Conn /\ Range(snapshot) \subseteq Conn
           /\ Len(conns) \in Nat /\ DOMAIN conns = 1 .. Len(conns)
           /\ Len(snapshot) \in Nat
           /\ \A t \in 1 .. Len(snapshot) * Len(snapshot) :
                Viewer(t) \in Range(snapshot) /\ Subject(t) \in Range(snapshot)
<1>1. conns \in Seq(Conn) /\ snapshot \in Seq(Conn) BY DEF TypeOK
<1>2. /\ Len(conns) \in Nat /\ DOMAIN conns = 1 .. Len(conns) /\ Len(snapshot) \in Nat
      /\ \A i \in 1 .. Len(conns) : conns[i] \in Conn
      /\ \A i \in 1 .. Len(snapshot) : snapshot[i] \in Conn
      /\ DOMAIN snapshot = 1 .. Len(snapshot)
  BY <1>1
<1>3. \A t \in 1 .. Len(snapshot) * Len(snapshot) :
         Viewer(t) \in Range(snapshot) /\ Subject(t) \in Range(snapshot)
  BY <1>2, PairPlaces DEF Viewer, Subject, Range
<1> QED BY <1>2, <1>3 DEF Range

\* A list without members is empty.
LEMMA NoMembers ==
    ASSUME NEW T, NEW s \in Seq(T), Range(s) = {}
    PROVE  s = << >>
<1>1. Len(s) \in Nat /\ DOMAIN s = 1 .. Len(s) OBVIOUS
<1>2. Len(s) # 0 => s[1] \in Range(s) BY <1>1 DEF Range
<1> QED BY <1>1, <1>2

-----------------------------------------------------------------------------
(* Typing and control: the network thread.                                 *)

\* Who has a number depends on these.
LEMMA HaveFrame ==
    ASSUME UNCHANGED << phase, netPc, netConn >>
    PROVE  Have' = Have
BY DEF Have

\* conn_create reading next_entity_id keeps types and control.
LEMMA NumberHolds ==
    ASSUME Base, NEW c \in Conn, Number(c)
    PROVE  Base'
<1>1. Have' = Have /\ c \notin Have BY DEF Base, NetInv, Have, Number, serverVars
<1>2. nextId \in Ids
  BY <1>1, NumbersSuffice DEF Base, NumberInv, TypeOK
<1>3. TypeOK'
  <2>1. ServerTypes' BY TypeParts DEF Base, ServerTypes, Number, serverVars
  <2>2. ShownTypes' BY TypeParts DEF Base, ShownTypes, Number, serverVars, clientVars
  <2>3. NetTypes' BY <1>2, TypeParts DEF Base, NetTypes, Number
  <2>4. TickTypes' BY TypeParts DEF Base, TickTypes, Number, tickVars
  <2>5. HistoryTypes' BY TypeParts DEF Base, HistoryTypes, Number, historyVars
  <2> QED BY <2>1, <2>2, <2>3, <2>4, <2>5, TypesTogether
<1>4. NumberInv'
  <2>1. UNCHANGED << id, nextId, hand, drops, ground >> /\ netId' = nextId BY DEF Number, serverVars, tickVars
  <2>2. Given' = Given BY <1>1, <2>1 DEF Given
  <2> QED BY <1>1, <2>1, <2>2 DEF Base, NumberInv
<1>5. NetInv'
  <2>1. /\ netPc = "idle" /\ phase[c] = "none" /\ netPc' = "number" /\ netConn' = c /\ netId' = nextId
        /\ UNCHANGED << conns, phase, freed, lock, told >>
    BY DEF Number, serverVars
  <2>2. nextId # NoId BY <1>2, NumbersSuffice DEF Base, NumberInv, TypeOK
  <2>3. c # NoConn BY EntitiesAssumption
  <2> QED BY <2>1, <2>2, <2>3 DEF Base, NetInv
<1>6. ListInv' BY DEF Base, ListInv, Number, serverVars, tickVars
<1>7. TickInv' BY DEF Base, TickInv, Number, serverVars, tickVars, Viewer, Subject
<1> QED BY <1>3, <1>4, <1>5, <1>6, <1>7 DEF Base

\* conn_create writing the number it has read keeps them.
LEMMA NumberedHolds ==
    ASSUME Base, Numbered
    PROVE  Base'
<1>1. netPc = "number" /\ netConn \in Conn /\ phase[netConn] = "none" /\ netConn \notin Have
  BY DEF Base, NetInv, TypeOK, Have, Numbered
<1>2. Have' = Have \cup {netConn} BY <1>1 DEF Have, Numbered
<1>3. netId \in Ids /\ netId - 1 <= Given BY <1>1 DEF Base, NetInv, TypeOK, NumberInv
<1>4. Given' = Given + 1
  <2>1. IsFiniteSet(Have) /\ Cardinality(Have) \in Nat BY NumbersSuffice DEF Base, TypeOK
  <2>2. Cardinality(Have') = Cardinality(Have) + 1 BY <1>1, <1>2, <2>1, FS_AddElement
  <2> QED BY <2>1, <2>2 DEF Given, Numbered, Base, TypeOK
<1>5. Ids \subseteq Nat \ {0} /\ NoId \notin Ids /\ Given \in Nat BY NumbersSuffice DEF Base, TypeOK
<1>6. TypeOK'
  <2>1. ServerTypes' BY <1>1, <1>3, <1>5, TypeParts DEF Base, ServerTypes, Numbered
  <2>2. ShownTypes' BY TypeParts DEF Base, ShownTypes, Numbered, clientVars
  <2>3. NetTypes' BY <1>1, <1>5, TypeParts DEF Base, NetTypes, Numbered
  <2>4. TickTypes' BY TypeParts DEF Base, TickTypes, Numbered, tickVars
  <2>5. HistoryTypes'
    <3>1. raced' \in {raced, raced \cup {netConn}} BY DEF Numbered
    <3> QED BY <1>1, <3>1, TypeParts DEF Base, HistoryTypes, Numbered
  <2> QED BY <2>1, <2>2, <2>3, <2>4, <2>5, TypesTogether
<1>7. NumberInv'
  <2>1. /\ nextId' = netId + 1 /\ id' = [id EXCEPT ![netConn] = netId] /\ netId' = NoId
        /\ UNCHANGED << hand, drops, ground >>
    BY DEF Numbered, tickVars
  <2>2. nextId' \in Nat \ {0} /\ nextId' - 1 <= Given' BY <1>3, <1>4, <1>5, <2>1
  <2>3. \A c \in Conn : id'[c] # 0 <=> c \in Have'
    <3>1. id \in [Conn -> Ids \cup {0}] /\ netId # 0 BY <1>3, <1>5 DEF Base, TypeOK
    <3> QED BY <1>1, <1>2, <2>1, <3>1 DEF Base, NumberInv
  <2>4. hand' # NoId => hand' - 1 <= Given' /\ drops' < MaxItems
    <3>1. hand # NoId => hand \in Nat /\ hand - 1 <= Given /\ drops < MaxItems
      BY <1>5 DEF Base, TypeOK, NumberInv
    <3> QED BY <1>4, <1>5, <2>1, <3>1
  <2> QED BY <2>1, <2>2, <2>3, <2>4 DEF Base, NumberInv
<1>8. NetInv' BY <1>1, <1>5 DEF Base, NetInv, TypeOK, Listed, Numbered
<1>9. ListInv' BY DEF Base, ListInv, Numbered, tickVars
<1>10. TickInv' BY DEF Base, TickInv, Numbered, tickVars, Viewer, Subject
<1> QED BY <1>6, <1>7, <1>8, <1>9, <1>10 DEF Base

\* Putting a new connection at the head of the list keeps them.
LEMMA LinkHolds ==
    ASSUME Base, Link
    PROVE  Base'
<1>1. netPc = "link" /\ netConn \in Conn /\ phase[netConn] = "none" /\ netConn \in Have /\ ~Listed(netConn)
      /\ netConn \notin Range(snapshot) /\ netConn \notin freed
  BY DEF Base, NetInv, ListInv, TypeOK, Have, Listed, Link
<1>2. Have' = Have
  BY <1>1 DEF Have, Link, Base, TypeOK, NetInv
<1>3. /\ conns' \in Seq(Conn) /\ IsInjective(conns') /\ Range(conns') = Range(conns) \cup {netConn}
  BY <1>1, PrependList DEF Link, Base, TypeOK, ListInv, Listed
<1>4. TypeOK' BY <1>1, <1>3 DEF Base, TypeOK, Link, clientVars, tickVars, historyVars
<1>5. NumberInv' BY <1>2 DEF Base, NumberInv, Given, Link, tickVars
<1>6. NetInv' BY <1>1 DEF Base, NetInv, TypeOK, Link
<1>7. ListInv'
  <2>1. \A c \in Conn : c # netConn => phase'[c] = phase[c] BY TypeParts DEF Base, ServerTypes, Link
  <2>2. phase'[netConn] # "none" BY <1>1, TypeParts DEF Base, ServerTypes, Link
  <2>3. freed \subseteq Conn BY DEF Base, TypeOK
  <2>4. UNCHANGED << freed, snapshot >> BY DEF Link, tickVars
  <2> QED BY <1>1, <1>3, <2>1, <2>2, <2>3, <2>4, Members DEF Base, ListInv
<1>8. TickInv'
  <2>2. held.at # 0 => /\ Viewer(turn) \in Conn /\ Subject(turn) \in Conn
                        /\ Viewer(turn) # netConn /\ Subject(turn) # netConn
    BY <1>1, Members DEF Base, TickInv
  <2>3. Viewer(turn)' = Viewer(turn) /\ Subject(turn)' = Subject(turn)
    BY DEF Link, tickVars, Viewer, Subject
  <2> QED BY <1>1, <2>2, <2>3 DEF Base, TickInv, TypeOK, Link, tickVars
<1> QED BY <1>4, <1>5, <1>6, <1>7, <1>8 DEF Base

\* The start of server_close_conn keeps them.
LEMMA CloseConnHolds ==
    ASSUME Base, NEW c \in Conn, CloseConn(c)
    PROVE  Base'
<1>1. Have' = Have
  BY DEF Have, CloseConn, serverVars
<1>2. TypeOK'
  <2>1. ServerTypes' BY TypeParts DEF Base, ServerTypes, CloseConn, serverVars
  <2>2. ShownTypes' BY TypeParts DEF Base, ShownTypes, CloseConn, serverVars, clientVars
  <2>3. NetTypes' BY TypeParts DEF Base, NetTypes, CloseConn
  <2>4. TickTypes' BY TypeParts DEF Base, TickTypes, CloseConn, tickVars
  <2>5. HistoryTypes' BY TypeParts DEF Base, HistoryTypes, CloseConn, historyVars
  <2> QED BY <2>1, <2>2, <2>3, <2>4, <2>5, TypesTogether
<1>3. NumberInv' BY <1>1 DEF Base, NumberInv, Given, CloseConn, serverVars, tickVars
<1>4. NetInv' BY DEF Base, NetInv, TypeOK, Listed, CloseConn, serverVars
<1>5. ListInv' BY DEF Base, ListInv, CloseConn, serverVars, tickVars
<1>6. TickInv' BY DEF Base, TickInv, CloseConn, serverVars, tickVars, Viewer, Subject
<1> QED BY <1>2, <1>3, <1>4, <1>5, <1>6 DEF Base

\* remote_player_remove_local: what is left of a table.
LEMMA WithoutElements ==
    ASSUME NEW T, NEW t \in Seq(T), NEW k \in DOMAIN t
    PROVE  /\ Without(t, k) \in Seq(T)
           /\ Len(t) \in Nat \ {0} /\ k \in 1 .. Len(t) /\ Len(Without(t, k)) = Len(t) - 1
           /\ \A i \in 1 .. Len(t) - 1 : Without(t, k)[i] = IF i = k THEN t[Len(t)] ELSE t[i]
<1>1. Len(t) \in Nat \ {0} /\ k \in 1 .. Len(t) /\ \A i \in 1 .. Len(t) : t[i] \in T OBVIOUS
<1>2. Without(t, k) = [i \in 1 .. Len(t) - 1 |-> IF i = k THEN t[Len(t)] ELSE t[i]]
  BY DEF Without
<1>3. \A i \in 1 .. Len(t) - 1 : Without(t, k)[i] \in T BY <1>1, <1>2
<1>4. Without(t, k) \in Seq(T) /\ Len(Without(t, k)) = Len(t) - 1 BY <1>1, <1>2, <1>3
<1> QED BY <1>1, <1>2, <1>4

\* The entry remote_player_get finds.
LEMMA Found ==
    ASSUME TypeOK, NEW v \in Conn, NEW i
    PROVE  /\ At(v, i) # 0 => At(v, i) \in DOMAIN table[v] /\ table[v][At(v, i)].id = i
           /\ At(v, i) = 0 => \A k \in DOMAIN table[v] : table[v][k].id # i
<1> DEFINE K == {k \in DOMAIN table[v] : table[v][k].id = i}
<1>1. table[v] \in Seq(Entry) BY DEF TypeOK
<1>2. DOMAIN table[v] = 1 .. Len(table[v]) /\ Len(table[v]) \in Nat BY <1>1
<1>3. CASE K = {} BY <1>2, <1>3 DEF At
<1>4. CASE K # {}
  <2>1. K \in SUBSET Nat BY <1>2
  <2>2. Min(K) \in K /\ \A k \in K : Min(K) <= k BY <1>4, <2>1, MinOfNat
  <2>3. \A j \in 1 .. Min(K) - 1 : table[v][j].id # i
    <3>1. SUFFICES ASSUME NEW j \in 1 .. Min(K) - 1, table[v][j].id = i PROVE FALSE OBVIOUS
    <3>2. j \in DOMAIN table[v] /\ j < Min(K) BY <1>2, <2>2, <3>1
    <3>3. j \in K BY <3>1, <3>2
    <3>4. Min(K) \in Nat /\ j \in Nat /\ Min(K) <= j BY <1>2, <2>2, <3>2, <3>3
    <3> QED BY <3>2, <3>4
  <2>4. At(v, i) = CHOOSE k \in DOMAIN table[v] :
                     table[v][k].id = i /\ \A j \in 1 .. k - 1 : table[v][j].id # i
    BY <1>4 DEF At
  <2>5. \E k \in DOMAIN table[v] : table[v][k].id = i /\ \A j \in 1 .. k - 1 : table[v][j].id # i
    BY <2>2, <2>3
  <2>6. At(v, i) \in DOMAIN table[v] /\ table[v][At(v, i)].id = i BY <2>4, <2>5
  <2> QED BY <1>2, <2>6
<1> QED BY <1>3, <1>4

\* Removing one player from one table leaves typed state.
LEMMA RemoveRemoteTypes ==
    ASSUME TypeOK, NEW v \in Conn, NEW s \in Conn, RemoveRemote(v, s), UNCHANGED tickVars
    PROVE  /\ table' \in [Conn -> Seq(Entry)] /\ seen' \in [Conn -> [Ids -> Shown]]
           /\ tab' \in [Conn -> SUBSET Conn] /\ crossed' \subseteq Conn
<1>1. Nothing \in Shown /\ id[s] \in Ids \cup {0} BY DEF Shown, TypeOK
<1>2. CASE At(v, id[s]) = 0 BY <1>2 DEF RemoveRemote, TypeOK, clientVars
<1>3. CASE At(v, id[s]) # 0
  <2> DEFINE k == At(v, id[s])
  <2>1. k \in DOMAIN table[v] /\ table[v] \in Seq(Entry) BY <1>3, Found DEF TypeOK
  <2>2. Without(table[v], k) \in Seq(Entry) BY <2>1, WithoutElements
  <2>3. table' = [table EXCEPT ![v] = Without(table[v], k)] BY <1>3 DEF RemoveRemote
  <2>4. seen' \in {seen, [seen EXCEPT ![v] = Hide(seen[v], id[s])]} BY <1>3 DEF RemoveRemote
  <2>5. Hide(seen[v], id[s]) \in [Ids -> Shown] BY <1>1 DEF Hide, TypeOK
  <2>6. tab' \in {tab, [tab EXCEPT ![v] = tab[v] \ {s}]} BY <1>3 DEF RemoveRemote
  <2>7. crossed' \in {crossed, crossed \cup {v}} BY <1>3 DEF RemoveRemote, Crossed
  <2>8. table' \in [Conn -> Seq(Entry)] BY <2>2, <2>3 DEF TypeOK
  <2>9. seen' \in [Conn -> [Ids -> Shown]]
    <3> HIDE DEF k
    <3>1. seen \in [Conn -> [Ids -> Shown]] BY DEF TypeOK
    <3>2. ASSUME NEW f \in [Ids -> Shown] PROVE [seen EXCEPT ![v] = f] \in [Conn -> [Ids -> Shown]]
      BY <3>1
    <3> QED BY <2>4, <2>5, <3>1, <3>2
  <2>10. tab' \in [Conn -> SUBSET Conn]
    <3>1. tab \in [Conn -> SUBSET Conn] /\ tab[v] \ {s} \in SUBSET Conn BY DEF TypeOK
    <3>2. ASSUME NEW S \in SUBSET Conn PROVE [tab EXCEPT ![v] = S] \in [Conn -> SUBSET Conn]
      BY <3>1
    <3> QED BY <2>6, <3>1, <3>2
  <2> QED BY <2>7, <2>8, <2>9, <2>10 DEF TypeOK
<1> QED BY <1>2, <1>3

\* The next viewer.
LEMMA NextViewer ==
    ASSUME TypeOK, Untold # {}
    PROVE  conns[Min(Untold)] \in Range(conns) /\ conns[Min(Untold)] \notin told
<1>1. Untold \in SUBSET Nat BY Members DEF Untold
<1>2. Min(Untold) \in Untold BY <1>1, MinOfNat
<1> QED BY <1>2 DEF Untold, Range

\* Taking a player out of the next viewer's table keeps them.
LEMMA UnseeHolds ==
    ASSUME Base, Unsee
    PROVE  Base'
<1>1. netPc = "unsee" /\ netConn \in Range(conns) /\ netConn \in Conn /\ netConn \in told
  BY Members DEF Base, NetInv, Listed, Unsee
<1>2. Have' = Have BY <1>1 DEF Have, Unsee
<1>3. /\ UNCHANGED << nextId, id, conns, phase, freed, ground, drops, netConn, netId, snapshot, turn,
                       tickPc, held, hand, walker, dead >>
  BY DEF Unsee, tickVars
<1>4. /\ table' \in [Conn -> Seq(Entry)] /\ seen' \in [Conn -> [Ids -> Shown]]
      /\ tab' \in [Conn -> SUBSET Conn] /\ crossed' \subseteq Conn /\ told' \subseteq Conn
  <2>1. CASE Untold = {} BY <2>1 DEF Unsee, Base, TypeOK, clientVars
  <2>2. CASE Untold # {}
    <3>1. conns[Min(Untold)] \in Conn BY <2>2, NextViewer, Members DEF Base
    <3>2. told' \subseteq Conn BY <2>2, <3>1 DEF Unsee, Base, TypeOK
    <3>3. UNCHANGED << table, clientVars, crossed >> \/ RemoveRemote(conns[Min(Untold)], netConn)
      BY <2>2 DEF Unsee
    <3> QED BY <1>1, <1>3, <3>1, <3>2, <3>3, RemoveRemoteTypes DEF Base, TypeOK, clientVars, tickVars
  <2> QED BY <2>1, <2>2
<1>5. \/ lock' = "free" /\ netPc' = "unlink" /\ told' = told
      \/ UNCHANGED << lock, netPc >> /\ \E v : told' = told \cup {v}
  BY DEF Unsee
<1>6. TypeOK'
  <2>1. ServerTypes' BY TypeParts DEF Base, ServerTypes, Unsee
  <2>2. ShownTypes' BY <1>4, TypeParts DEF Base, ShownTypes, Unsee
  <2>3. NetTypes' BY <1>4, <1>5, TypeParts DEF Base, NetTypes, Unsee
  <2>4. TickTypes' BY TypeParts DEF Base, TickTypes, Unsee, tickVars
  <2>5. HistoryTypes' BY <1>4, TypeParts DEF Base, HistoryTypes, Unsee
  <2> QED BY <2>1, <2>2, <2>3, <2>4, <2>5, TypesTogether
<1>7. NumberInv' BY <1>2, <1>3 DEF Base, NumberInv, Given
<1>8. NetInv' BY <1>1, <1>3, <1>5 DEF Base, NetInv, Listed
<1>9. ListInv' BY <1>3 DEF Base, ListInv
<1>10. TickInv'
  <2>1. lock = "net" BY <1>1 DEF Base, NetInv
  <2> QED BY <1>3, <1>5, <2>1 DEF Base, TickInv, Viewer, Subject
<1> QED BY <1>6, <1>7, <1>8, <1>9, <1>10 DEF Base

\* Taking a connection out of the list keeps them.
LEMMA UnlinkHolds ==
    ASSUME Base, Unlink
    PROVE  Base'
<1>1. netPc = "unlink" /\ netConn \in Range(conns) /\ netConn \in Conn /\ netPc' = "shut" /\ lock = "free"
  BY Members DEF Base, NetInv, Listed, Unlink
<1>2. Have' = Have BY <1>1 DEF Have, Unlink
<1>3. conns' \in Seq(Conn) /\ IsInjective(conns') /\ Range(conns') = Range(conns) \ {netConn}
  BY <1>1, RemoveList DEF Base, TypeOK, ListInv, Unlink
<1>4. NextOf(netConn) \in Conn \cup {NoConn}
  <2>1. Listed(netConn) BY <1>1 DEF Listed
  <2> DEFINE k == CHOOSE k \in DOMAIN conns : conns[k] = netConn
  <2>2. k \in DOMAIN conns BY <1>1 DEF Range
  <2>3. NextOf(netConn) = IF k = Len(conns) THEN NoConn ELSE conns[k + 1] BY <2>1 DEF NextOf
  <2>4. k # Len(conns) => k + 1 \in DOMAIN conns BY <2>2, Members DEF Base
  <2>5. \A i \in DOMAIN conns : conns[i] \in Conn BY Members DEF Base, Range
  <2> QED BY <2>3, <2>4, <2>5
<1>5. after' \in [Conn -> Conn \cup {NoConn}] BY <1>4 DEF Unlink, Base, TypeOK
<1>6. TypeOK' BY <1>3, <1>5 DEF Base, TypeOK, Unlink, clientVars, tickVars, historyVars
<1>7. NumberInv' BY <1>2 DEF Base, NumberInv, Given, Unlink, tickVars
<1>8. NetInv' BY <1>1, <1>3 DEF Base, NetInv, ListInv, Listed, Unlink
<1>9. ListInv' BY <1>3 DEF Base, ListInv, Unlink, tickVars
<1>10. TickInv' BY DEF Base, TickInv, Viewer, Subject, Unlink, tickVars
<1> QED BY <1>6, <1>7, <1>8, <1>9, <1>10 DEF Base

\* What is freed keeps its shape.
LEMMA FreeTypes ==
    ASSUME TypeOK, NEW gone \in SUBSET Conn, Free(gone)
    PROVE  /\ freed' \subseteq Conn /\ table' \in [Conn -> Seq(Entry)]
           /\ seen' \in [Conn -> [Ids -> Shown]] /\ tab' \in [Conn -> SUBSET Conn]
<1>1. [i \in Ids |-> Nothing] \in [Ids -> Shown] /\ << >> \in Seq(Entry) BY DEF Shown
<1> QED BY <1>1 DEF Free, TypeOK

\* The end of server_close_conn keeps them.
LEMMA ShutHolds ==
    ASSUME Base, Shut
    PROVE  Base'
<1> DEFINE gone == IF netConn \in Range(snapshot) THEN {} ELSE {netConn}
<1>1. /\ netPc = "shut" /\ netConn \in Conn /\ ~Listed(netConn) /\ phase[netConn] # "none"
      /\ netConn \notin freed /\ netPc' = "idle" /\ netConn' = NoConn /\ told' = {} /\ lock # "net"
  BY DEF Base, NetInv, TypeOK, Shut
<1>2. /\ freed' \subseteq Conn /\ table' \in [Conn -> Seq(Entry)]
      /\ seen' \in [Conn -> [Ids -> Shown]] /\ tab' \in [Conn -> SUBSET Conn]
  BY <1>1, FreeTypes DEF Base, Shut
<1>3. freed' = freed \cup gone BY DEF Shut, Free
<1>4. Have' = Have BY <1>1 DEF Have, Shut
<1>5. TypeOK'
  <2>1. ServerTypes' BY <1>1, <1>2, TypeParts DEF Base, ServerTypes, Shut
  <2>2. ShownTypes' BY <1>2, TypeParts DEF Base, ShownTypes, Shut
  <2>3. NetTypes' BY <1>1, TypeParts DEF Base, NetTypes, Shut
  <2>4. TickTypes' BY TypeParts DEF Base, TickTypes, Shut, tickVars
  <2>5. HistoryTypes' BY TypeParts DEF Base, HistoryTypes, Shut, historyVars
  <2> QED BY <2>1, <2>2, <2>3, <2>4, <2>5, TypesTogether
<1>6. NumberInv' BY <1>4 DEF Base, NumberInv, Given, Shut, tickVars
<1>7. NetInv' BY <1>1 DEF Base, NetInv, Shut
<1>8. ListInv' BY <1>1, <1>3 DEF Base, ListInv, Listed, Shut, tickVars
<1>9. TickInv' BY DEF Base, TickInv, Viewer, Subject, Shut, tickVars
<1> QED BY <1>5, <1>6, <1>7, <1>8, <1>9 DEF Base

\* Every step of the network thread.
LEMMA NetHolds == ASSUME Base, Net PROVE Base'
BY NumberHolds, CloseConnHolds, NumberedHolds, LinkHolds, UnseeHolds, UnlinkHolds, ShutHolds DEF Net

-----------------------------------------------------------------------------
(* Typing and control: the tick thread.                                    *)

\* The phase of those who are in the list, the snapshot or the pair at hand
\* is kept by an action that only lets one go on.
LEMMA JoinHolds ==
    ASSUME Base, NEW c \in Conn, Join(c)
    PROVE  Base'
<1>1. tickPc = "tasks" /\ phase[c] = "early" BY DEF Join, Taken
<1>2. phase' = [phase EXCEPT ![c] = "play"] /\ phase \in [Conn -> {"none", "early", "play", "ready"}]
  BY DEF Join, Base, TypeOK
<1>3. \A d \in Conn : phase'[d] = "none" <=> phase[d] = "none" BY <1>1, <1>2
<1>4. Have' = Have BY <1>3 DEF Have, Join, netVars
<1>5. TypeOK'
  <2>1. ServerTypes' BY <1>2, TypeParts DEF Base, ServerTypes, Join, serverVars
  <2>2. ShownTypes' BY TypeParts DEF Base, ShownTypes, Join, serverVars, clientVars
  <2>3. NetTypes' BY TypeParts DEF Base, NetTypes, Join, netVars
  <2>4. TickTypes' BY TypeParts DEF Base, TickTypes, Join, tickVars
  <2>5. HistoryTypes' BY TypeParts DEF Base, HistoryTypes, Join, historyVars
  <2> QED BY <2>1, <2>2, <2>3, <2>4, <2>5, TypesTogether
<1>6. NumberInv' BY <1>4 DEF Base, NumberInv, Given, Join, netVars, tickVars
<1>7. NetInv' BY <1>3 DEF Base, NetInv, TypeOK, Listed, Join, netVars
<1>8. ListInv' BY <1>3, Members DEF Base, ListInv, TypeOK, Join, tickVars
<1>9. TickInv' BY <1>1 DEF Base, TickInv, Join, tickVars
<1> QED BY <1>5, <1>6, <1>7, <1>8, <1>9 DEF Base

\* net_server_sync_item_entities_to_conn: the client shows the last item sent
\* under a number, and what it did where there is none.
LEMMA Lying ==
    ASSUME TypeOK, NEW f \in [Ids -> Shown]
    PROVE  /\ WithGround(f) \in [Ids -> Shown]
           /\ \A i \in Ids : (\A k \in DOMAIN ground : ground[k].id # i) => WithGround(f)[i] = f[i]
           /\ \A i \in Ids : (\E k \in DOMAIN ground : ground[k].id = i) =>
                \E k \in DOMAIN ground : ground[k].id = i /\ WithGround(f)[i] = Item(ground[k])
<1>1. /\ ground \in Seq(Ground) /\ DOMAIN ground = 1 .. Len(ground) /\ Len(ground) \in Nat
      /\ \A k \in DOMAIN ground : ground[k] \in Ground
  BY DEF TypeOK
<1>2. \A k \in DOMAIN ground : Item(ground[k]) \in Shown BY <1>1 DEF Item, Ground, Shown
<1>3. ASSUME NEW i \in Ids, \E k \in DOMAIN ground : ground[k].id = i
      PROVE  \E k \in DOMAIN ground : ground[k].id = i /\ WithGround(f)[i] = Item(ground[k])
  <2> DEFINE K == {k \in DOMAIN ground : ground[k].id = i}
             good(k) == ground[k].id = i /\ \A j \in DOMAIN ground : ground[j].id = i => j <= k
             last == CHOOSE k \in DOMAIN ground : good(k)
  <2>1. K \in SUBSET (0 .. Len(ground)) /\ K # {} BY <1>1, <1>3
  <2>2. Max(K) \in K /\ \A j \in K : Max(K) >= j BY <1>1, <2>1, MaxOfBounded
  <2>3. Max(K) \in DOMAIN ground /\ good(Max(K))
    <3>1. Max(K) \in DOMAIN ground /\ ground[Max(K)].id = i BY <2>2
    <3>2. ASSUME NEW j \in DOMAIN ground, ground[j].id = i PROVE j <= Max(K)
      <4>1. j \in K BY <3>2
      <4> QED BY <1>1, <2>2, <3>1, <4>1
    <3> QED BY <3>1, <3>2
  <2>4. last \in DOMAIN ground /\ good(last)
    <3> HIDE DEF good
    <3> QED BY <2>3
  <2>5. WithGround(f)[i] = Item(ground[last]) BY <1>3 DEF WithGround
  <2> QED BY <2>4, <2>5
<1>4. ASSUME NEW i \in Ids, ~\E k \in DOMAIN ground : ground[k].id = i PROVE WithGround(f)[i] = f[i]
  BY <1>4 DEF WithGround
<1>5. \A i \in Ids : WithGround(f)[i] \in Shown BY <1>2, <1>3, <1>4
<1>6. WithGround(f) = [i \in Ids |-> WithGround(f)[i]] BY DEF WithGround
<1>7. WithGround(f) \in [Ids -> Shown]
  <2> DEFINE g == WithGround(f)
  <2> HIDE DEF g
  <2>1. g = [i \in Ids |-> g[i]] /\ \A i \in Ids : g[i] \in Shown BY <1>5, <1>6 DEF g
  <2>2. g \in [Ids -> Shown] BY <2>1
  <2> QED BY <2>2 DEF g
<1> QED BY <1>3, <1>4, <1>7

\* CONFIRM_TELEPORT keeps types and control.
LEMMA ConfirmHolds ==
    ASSUME Base, NEW c \in Conn, Confirm(c)
    PROVE  Base'
<1>1. tickPc = "tasks" /\ phase[c] = "play" BY DEF Confirm, Taken
<1>2. phase' = [phase EXCEPT ![c] = "ready"] /\ phase \in [Conn -> {"none", "early", "play", "ready"}]
  BY DEF Confirm, Base, TypeOK
<1>3. \A d \in Conn : phase'[d] = "none" <=> phase[d] = "none" BY <1>1, <1>2
<1>4. Have' = Have BY <1>3 DEF Have, Confirm, netVars
<1>5. WithGround(seen[c]) \in [Ids -> Shown] /\ seen' = [seen EXCEPT ![c] = WithGround(seen[c])]
  <2>1. seen[c] \in [Ids -> Shown] BY DEF Base, TypeOK
  <2>2. seen' = [seen EXCEPT ![c] = WithGround(seen[c])] BY DEF Confirm
  <2> QED BY <2>1, <2>2, Lying DEF Base
<1>6. TypeOK'
  <2>1. ServerTypes' BY <1>2, TypeParts DEF Base, ServerTypes, Confirm, serverVars
  <2>2. ShownTypes' BY <1>5, TypeParts DEF Base, ShownTypes, Confirm, serverVars, clientVars
  <2>3. NetTypes' BY TypeParts DEF Base, NetTypes, Confirm, netVars
  <2>4. TickTypes' BY TypeParts DEF Base, TickTypes, Confirm, tickVars
  <2>5. HistoryTypes' BY TypeParts DEF Base, HistoryTypes, Confirm, historyVars
  <2> QED BY <2>1, <2>2, <2>3, <2>4, <2>5, TypesTogether
<1>7. NumberInv' BY <1>4 DEF Base, NumberInv, Given, Confirm, netVars, tickVars
<1>8. NetInv' BY <1>3 DEF Base, NetInv, TypeOK, Listed, Confirm, netVars
<1>9. ListInv' BY <1>3, Members DEF Base, ListInv, TypeOK, Confirm, tickVars
<1>10. TickInv' BY <1>1 DEF Base, TickInv, Confirm, tickVars
<1> QED BY <1>6, <1>7, <1>8, <1>9, <1>10 DEF Base

\* A packet whose handler fails keeps them.
LEMMA FailHolds ==
    ASSUME Base, NEW c \in Conn, Fail(c)
    PROVE  Base'
<1>1. Have' = Have BY DEF Have, Fail, netVars
<1>2. TypeOK'
  <2>1. ServerTypes' BY TypeParts DEF Base, ServerTypes, Fail, serverVars
  <2>2. ShownTypes' BY TypeParts DEF Base, ShownTypes, Fail, serverVars, clientVars
  <2>3. NetTypes' BY TypeParts DEF Base, NetTypes, Fail, netVars
  <2>4. TickTypes' BY TypeParts DEF Base, TickTypes, Fail, tickVars
  <2>5. HistoryTypes' BY TypeParts DEF Base, HistoryTypes, Fail, historyVars
  <2> QED BY <2>1, <2>2, <2>3, <2>4, <2>5, TypesTogether
<1>3. NumberInv' BY <1>1 DEF Base, NumberInv, Given, Fail, netVars, tickVars
<1>4. NetInv' BY DEF Base, NetInv, Listed, Fail, netVars
<1>5. ListInv' BY DEF Base, ListInv, Fail, tickVars
<1>6. TickInv' BY DEF Base, TickInv, Viewer, Subject, Fail, tickVars
<1> QED BY <1>2, <1>3, <1>4, <1>5, <1>6 DEF Base

\* The next number can be given while there are drops to come.
LEMMA NextNumber ==
    ASSUME Base, drops < MaxItems
    PROVE  nextId \in Ids /\ nextId # NoId /\ nextId - 1 <= Given
<1>1. nextId \in Nat \ {0} /\ nextId - 1 <= Given BY DEF Base, NumberInv
<1> QED BY <1>1, NumbersSuffice DEF Base, TypeOK

\* The start of a drop keeps them.
LEMMA DropHolds ==
    ASSUME Base, NEW c \in Conn, Drop(c)
    PROVE  Base'
<1>1. /\ tickPc = "tasks" /\ lock = "free" /\ lock' = "tick" /\ tickPc' = "spawn" /\ hand' = nextId
      /\ drops < MaxItems
  BY DEF Drop, Taken
<1>2. Have' = Have BY DEF Have, Drop, serverVars, netVars
<1>3. nextId \in Ids /\ nextId # NoId /\ nextId - 1 <= Given BY <1>1, NextNumber
<1>4. TypeOK'
  <2>1. ServerTypes' BY TypeParts DEF Base, ServerTypes, Drop, serverVars
  <2>2. ShownTypes' BY TypeParts DEF Base, ShownTypes, Drop, serverVars, clientVars
  <2>3. NetTypes' BY <1>1, TypeParts DEF Base, NetTypes, Drop, netVars
  <2>4. TickTypes' BY <1>1, <1>3, TypeParts DEF Base, TickTypes, Drop, tickVars
  <2>5. HistoryTypes' BY TypeParts DEF Base, HistoryTypes, Drop, historyVars
  <2> QED BY <2>1, <2>2, <2>3, <2>4, <2>5, TypesTogether
<1>5. NumberInv' BY <1>1, <1>2, <1>3 DEF Base, NumberInv, Given, Drop, serverVars, netVars
<1>6. NetInv' BY <1>1 DEF Base, NetInv, Listed, Drop, serverVars, netVars
<1>7. ListInv' BY DEF Base, ListInv, Drop, serverVars
<1>8. TickInv' BY <1>1, <1>3 DEF Base, TickInv, Viewer, Subject, Drop, serverVars
<1> QED BY <1>4, <1>5, <1>6, <1>7, <1>8 DEF Base

\* A death in the middle of the packets keeps them.
LEMMA DieHolds ==
    ASSUME Base, NEW c \in Conn, Die(c)
    PROVE  Base'
<1>1. /\ tickPc = "tasks" /\ held.at = 0
      /\ \/ UNCHANGED << lock, tickPc, hand >>
         \/ /\ drops < MaxItems /\ lock = "free"
            /\ lock' = "tick" /\ tickPc' = "spawn" /\ hand' = nextId
  BY DEF Die, Taken, Base, TickInv, TypeOK
<1>2. Have' = Have BY DEF Have, Die, netVars
<1>3. drops < MaxItems => nextId \in Ids /\ nextId # NoId /\ nextId - 1 <= Given BY NextNumber
<1>4. TypeOK'
  <2>1. ServerTypes' BY TypeParts DEF Base, ServerTypes, Die, serverVars
  <2>2. ShownTypes' BY TypeParts DEF Base, ShownTypes, Die, serverVars, clientVars
  <2>3. NetTypes' BY <1>1, TypeParts DEF Base, NetTypes, Die, netVars
  <2>4. TickTypes' BY <1>1, <1>3, TypeParts DEF Base, TickTypes, Die, tickVars
  <2>5. HistoryTypes' BY TypeParts DEF Base, HistoryTypes, Die, historyVars
  <2> QED BY <2>1, <2>2, <2>3, <2>4, <2>5, TypesTogether
<1>5. NumberInv' BY <1>1, <1>2, <1>3 DEF Base, NumberInv, Given, Die, netVars
<1>6. NetInv' BY <1>1 DEF Base, NetInv, Listed, Die, netVars
<1>7. ListInv' BY DEF Base, ListInv, Die
<1>8. TickInv' BY <1>1, <1>3 DEF Base, TickInv, Viewer, Subject, Die
<1> QED BY <1>4, <1>5, <1>6, <1>7, <1>8 DEF Base

\* A respawn keeps them.
LEMMA RespawnHolds ==
    ASSUME Base, NEW c \in Conn, Respawn(c)
    PROVE  Base'
<1>1. tickPc = "tasks" /\ held.at = 0 BY DEF Respawn, Taken, Base, TickInv
<1>2. Have' = Have BY DEF Have, Respawn, netVars
<1>3. [i \in Ids |-> Nothing] \in [Ids -> Shown] /\ << >> \in Seq(Entry) BY DEF Shown
<1>4. seen' \in [Conn -> [Ids -> Shown]]
  <2>1. PICK kept \in {seen[c], [i \in Ids |-> Nothing]} :
          seen' = [seen EXCEPT ![c] = IF phase[c] = "ready" THEN WithGround(kept) ELSE kept]
    BY DEF Respawn
  <2>2. kept \in [Ids -> Shown] BY <1>3, <2>1 DEF Base, TypeOK
  <2>3. WithGround(kept) \in [Ids -> Shown] BY <2>2, Lying DEF Base
  <2> DEFINE f == IF phase[c] = "ready" THEN WithGround(kept) ELSE kept
  <2>4. f \in [Ids -> Shown] BY <2>2, <2>3
  <2> HIDE DEF f
  <2> QED BY <2>1, <2>4 DEF Base, TypeOK, f
<1>5. forgot' \subseteq Conn \X Conn
  <2>1. tab[c] \subseteq Conn BY DEF Base, TypeOK
  <2> QED BY <2>1 DEF Respawn, Base, TypeOK
<1>6. TypeOK'
  <2>1. ServerTypes' BY TypeParts DEF Base, ServerTypes, Respawn, serverVars
  <2>2. ShownTypes' BY <1>3, <1>4, TypeParts DEF Base, ShownTypes, Respawn, serverVars, clientVars
  <2>3. NetTypes' BY TypeParts DEF Base, NetTypes, Respawn, netVars
  <2>4. TickTypes' BY TypeParts DEF Base, TickTypes, Respawn, tickVars
  <2>5. HistoryTypes' BY <1>5, TypeParts DEF Base, HistoryTypes, Respawn, historyVars
  <2> QED BY <2>1, <2>2, <2>3, <2>4, <2>5, TypesTogether
<1>7. NumberInv' BY <1>2 DEF Base, NumberInv, Given, Respawn, netVars, tickVars
<1>8. NetInv' BY DEF Base, NetInv, Listed, Respawn, netVars
<1>9. ListInv' BY DEF Base, ListInv, Respawn, tickVars
<1>10. TickInv' BY <1>1 DEF Base, TickInv, Respawn, tickVars
<1> QED BY <1>6, <1>7, <1>8, <1>9, <1>10 DEF Base

\* One packet about an entity to everybody in the list.
LEMMA ToldTypes ==
    ASSUME TypeOK, NEW i \in Ids, NEW what \in Shown
    PROVE  /\ Told(i, what) \in [Conn -> [Ids -> Shown]]
           /\ \A c \in Conn, j \in Ids : Told(i, what)[c][j] =
                IF Listed(c) /\ Reached(c) /\ j = i THEN what ELSE seen[c][j]
<1>1. ASSUME NEW c \in Conn
      PROVE  /\ Told(i, what)[c] \in [Ids -> Shown]
             /\ \A j \in Ids : Told(i, what)[c][j] =
                  IF Listed(c) /\ Reached(c) /\ j = i THEN what ELSE seen[c][j]
  <2>1. seen[c] \in [Ids -> Shown] BY DEF TypeOK
  <2>2. Told(i, what)[c] = IF Listed(c) /\ Reached(c) THEN [seen[c] EXCEPT ![i] = what] ELSE seen[c]
    BY DEF Told
  <2>3. CASE Listed(c) /\ Reached(c)
    <3>1. Told(i, what)[c] = [seen[c] EXCEPT ![i] = what] BY <2>2, <2>3
    <3>2. [seen[c] EXCEPT ![i] = what] \in [Ids -> Shown] BY <2>1
    <3>3. \A j \in Ids : [seen[c] EXCEPT ![i] = what][j] = IF j = i THEN what ELSE seen[c][j]
      BY <2>1
    <3> QED BY <2>3, <3>1, <3>2, <3>3
  <2>4. CASE ~(Listed(c) /\ Reached(c)) BY <2>1, <2>2, <2>4
  <2> QED BY <2>3, <2>4
<1>2. Told(i, what) = [c \in Conn |-> Told(i, what)[c]] BY DEF Told
<1> DEFINE g == Told(i, what)
<1>3. g \in [Conn -> [Ids -> Shown]]
  <2> HIDE DEF g
  <2>1. g = [c \in Conn |-> g[c]] /\ \A c \in Conn : g[c] \in [Ids -> Shown] BY <1>1, <1>2 DEF g
  <2> QED BY <2>1
<1> QED BY <1>1, <1>3

\* What lies on the ground.
LEMMA GroundItems ==
    ASSUME TypeOK
    PROVE  /\ Len(ground) \in Nat /\ DOMAIN ground = 1 .. Len(ground)
           /\ \A k \in DOMAIN ground :
                /\ ground[k] \in Ground /\ ground[k].id \in Ids /\ ground[k].item \in Items
                /\ ground[k].item \in Nat /\ ground[k].left \in 0 .. Size /\ ground[k].left \in Nat
                /\ Item(ground[k]) \in [item : Items, left : 0 .. Size] /\ Item(ground[k]) \in Shown
<1>1. /\ Len(ground) \in Nat /\ DOMAIN ground = 1 .. Len(ground)
      /\ \A k \in DOMAIN ground : ground[k] \in Ground
  <2>1. ground \in Seq(Ground) BY DEF TypeOK
  <2> QED BY <2>1
<1>2. \A g \in Ground : /\ g.id \in Ids /\ g.item \in Items /\ g.left \in 0 .. Size
                       /\ Item(g) \in [item : Items, left : 0 .. Size] /\ Item(g) \in Shown
  BY DEF Ground, Item, Shown
<1>3. Items \subseteq Nat /\ 0 .. Size \subseteq Nat BY DEF Items
<1> QED BY <1>1, <1>2, <1>3

\* The new item lies behind the others, under the number that was taken for it.
LEMMA PlacedItem ==
    ASSUME Base, Placed, hand # NoId
    PROVE  /\ hand \in Ids /\ drops' = drops + 1 /\ drops' \in Items /\ drops \in Nat
           /\ nextId' = hand + 1 /\ hand' = NoId
           /\ ground' \in Seq(Ground) /\ Len(ground) \in Nat /\ Len(ground') = Len(ground) + 1
           /\ DOMAIN ground = 1 .. Len(ground) /\ DOMAIN ground' = 1 .. Len(ground) + 1
           /\ \A k \in DOMAIN ground : ground'[k] = ground[k]
           /\ ground'[Len(ground) + 1] = [id |-> hand, item |-> drops + 1, left |-> Size]
           /\ Last(ground') = ground'[Len(ground) + 1]
           /\ Item(Last(ground')) \in [item : Items, left : 0 .. Size]
           /\ Item(Last(ground')) = [item |-> drops + 1, left |-> Size]
           /\ raced' \in {raced, raced \cup {drops + 1}} /\ raced' \subseteq Conn \cup Items
<1> DEFINE g == [id |-> hand, item |-> drops + 1, left |-> Size]
<1>1. hand \in Ids /\ drops < MaxItems /\ drops \in Nat BY DEF Base, TypeOK, NumberInv
<1>2. drops + 1 \in Items /\ Size \in 0 .. Size BY <1>1 DEF Items
<1>3. g \in Ground BY <1>1, <1>2 DEF Ground
<1>4. ground \in Seq(Ground) /\ ground' = Append(ground, g) BY DEF Base, TypeOK, Placed
<1>5. /\ ground' \in Seq(Ground) /\ Len(ground) \in Nat /\ DOMAIN ground = 1 .. Len(ground)
      /\ DOMAIN ground' = 1 .. Len(ground) + 1 /\ \A k \in 1 .. Len(ground) : ground'[k] = ground[k]
      /\ ground'[Len(ground) + 1] = g
  BY <1>3, <1>4, AppendElements
<1>6. Len(ground') = Len(ground) + 1 BY <1>4, <1>5
<1>7. Last(ground') = g BY <1>5, <1>6 DEF Last
<1>8. Item(g) = [item |-> drops + 1, left |-> Size] BY DEF Item
<1>9. raced' \in {raced, raced \cup {drops + 1}} /\ raced' \subseteq Conn \cup Items
  BY <1>2 DEF Placed, Base, TypeOK
<1>10. drops' = drops + 1 /\ nextId' = hand + 1 /\ hand' = NoId BY DEF Placed
<1> QED BY <1>1, <1>2, <1>5, <1>6, <1>7, <1>8, <1>9, <1>10

\* What a new item does to the numbers.
LEMMA PlacedNumbers ==
    ASSUME Base, Placed, hand # NoId, UNCHANGED << id, netId >>, Have' = Have
    PROVE  NumberInv'
<1>1. NumberInv /\ drops \in Nat /\ Given \in Nat /\ Given = Cardinality(Have) + drops
      /\ Cardinality(Have) \in Nat
  BY NumbersSuffice DEF Base, TypeOK, Given
<1>2. Given' = Given + 1 BY <1>1, PlacedItem DEF Given
<1>3. hand \in Nat \ {0} BY PlacedItem, NumbersSuffice DEF Base, TypeOK
<1>4. nextId' \in Nat \ {0} /\ nextId' - 1 <= Given'
  <2>1. nextId' = hand + 1 BY PlacedItem
  <2>2. hand - 1 <= Given BY DEF Base, NumberInv
  <2> QED BY <1>1, <1>2, <1>3, <2>1, <2>2
<1>5. netId' # NoId => netId' - 1 <= Given'
  <2>1. netId # NoId => netId \in Nat BY NumbersSuffice DEF Base, TypeOK
  <2> QED BY <1>1, <1>2, <2>1 DEF NumberInv
<1>6. \A k \in DOMAIN ground' : ground'[k].item <= drops'
  <2>1. \A k \in DOMAIN ground : ground[k].item \in Nat /\ ground[k].item <= drops
    BY <1>1, GroundItems DEF NumberInv, Base
  <2>2. \A k \in DOMAIN ground : ground'[k].item <= drops' BY <1>1, <2>1, PlacedItem
  <2>3. ground'[Len(ground) + 1].item = drops' BY PlacedItem
  <2> QED BY <1>1, <2>2, <2>3, PlacedItem
<1>7. \A k, l \in DOMAIN ground' : ground'[k].item = ground'[l].item => k = l
  <2>1. \A k \in DOMAIN ground : ground'[k].item <= drops /\ ground'[k].item = ground[k].item
    BY <1>1, PlacedItem DEF NumberInv
  <2>2. ground'[Len(ground) + 1].item = drops + 1 BY PlacedItem
  <2>3. \A k \in DOMAIN ground' : k \in DOMAIN ground \/ k = Len(ground) + 1 BY PlacedItem
  <2>4. \A k \in DOMAIN ground : ground'[k].item # drops + 1
    <3>1. \A k \in DOMAIN ground : ground[k].item \in Nat BY GroundItems DEF Base
    <3> QED BY <1>1, <2>1, <3>1
  <2>5. \A k, l \in DOMAIN ground : ground'[k].item = ground'[l].item => k = l
    BY <1>1, <2>1 DEF NumberInv
  <2> QED BY <2>2, <2>3, <2>4, <2>5
<1>8. \A c \in Conn : id'[c] # 0 <=> c \in Have' BY <1>1 DEF NumberInv
<1>9. hand' = NoId BY PlacedItem
<1> QED BY <1>4, <1>5, <1>6, <1>7, <1>8, <1>9 DEF NumberInv

\* A drop placed under conns_lock keeps them.
LEMMA SpawnedHolds ==
    ASSUME Base, Spawned
    PROVE  Base'
<1>1. /\ tickPc = "spawn" /\ hand # NoId /\ lock = "tick" /\ lock' = "free" /\ tickPc' = "tasks" /\ Placed
      /\ held.at = 0 /\ snapshot = << >> /\ held' = held /\ snapshot' = snapshot
      /\ netPc # "unsee" /\ turn' = turn /\ walker' = walker
  BY DEF Spawned, Base, TickInv, NetInv
<1>2. Have' = Have BY DEF Have, Spawned, netVars
<1>3. /\ hand \in Ids /\ hand' = NoId /\ ground' \in Seq(Ground) /\ drops' \in Items /\ drops \in Nat
      /\ raced' \subseteq Conn \cup Items /\ nextId' = hand + 1
      /\ Item(Last(ground')) \in Shown
  BY <1>1, PlacedItem DEF Shown
<1>4. seen' \in [Conn -> [Ids -> Shown]] BY <1>3, ToldTypes DEF Spawned, Base
<1>5. Ids \subseteq Nat BY NumbersSuffice DEF Base, TypeOK
<1>11. nextId' - 1 = hand /\ hand \in Ids /\ drops' \in 0 .. MaxItems BY <1>3, <1>5 DEF Items
<1>6. TypeOK'
  <2>1. ServerTypes' BY <1>11, TypeParts DEF Base, ServerTypes, Spawned, serverVars
  <2>2. ShownTypes' BY <1>3, <1>4, TypeParts DEF Base, ShownTypes, Spawned, serverVars, clientVars
  <2>3. NetTypes' BY <1>1, TypeParts DEF Base, NetTypes, Spawned, netVars
  <2>4. TickTypes' BY <1>1, <1>3, TypeParts DEF Base, TickTypes, Spawned, tickVars
  <2>5. HistoryTypes' BY <1>3, TypeParts DEF Base, HistoryTypes, Spawned, historyVars
  <2> QED BY <2>1, <2>2, <2>3, <2>4, <2>5, TypesTogether
<1>7. NumberInv' BY <1>1, <1>2, PlacedNumbers DEF Spawned, netVars
<1>8. NetInv' BY <1>1 DEF Base, NetInv, Listed, Spawned, netVars
<1>9. ListInv' BY DEF Base, ListInv, Spawned
<1>10. TickInv' BY <1>1, <1>3 DEF Base, TickInv
<1> QED BY <1>6, <1>7, <1>8, <1>9, <1>10 DEF Base

\* server_snapshot_conns keeps them.
LEMMA SnapshotHolds ==
    ASSUME Base, Snapshot
    PROVE  Base'
<1>1. /\ tickPc = "tasks" /\ snapshot' = conns /\ turn' = 1 /\ tickPc' = "turns" /\ held.at = 0
      /\ UNCHANGED << lock, held, walker, hand >>
  BY DEF Snapshot, Base, TickInv
<1>2. Have' = Have BY DEF Have, Snapshot, serverVars, netVars
<1>8. snapshot' \in Seq(Conn) BY <1>1 DEF Base, TypeOK
<1>3. TypeOK'
  <2>1. ServerTypes' BY TypeParts DEF Base, ServerTypes, Snapshot, serverVars
  <2>2. ShownTypes' BY TypeParts DEF Base, ShownTypes, Snapshot, serverVars, clientVars
  <2>3. NetTypes' BY TypeParts DEF Base, NetTypes, Snapshot, netVars
  <2>4. TickTypes' BY <1>1, <1>8, TypeParts DEF Base, TickTypes, Snapshot, tickVars
  <2>5. HistoryTypes' BY TypeParts DEF Base, HistoryTypes, Snapshot, historyVars
  <2> QED BY <2>1, <2>2, <2>3, <2>4, <2>5, TypesTogether
<1>4. NumberInv' BY <1>1, <1>2 DEF Base, NumberInv, Given, Snapshot, serverVars, netVars
<1>5. NetInv' BY <1>1 DEF Base, NetInv, Listed, Snapshot, serverVars, netVars
<1>6. ListInv' BY <1>1 DEF Base, ListInv, Snapshot, serverVars
<1>7. TickInv' BY <1>1 DEF Base, TickInv, Snapshot, serverVars
<1> QED BY <1>3, <1>4, <1>5, <1>6, <1>7 DEF Base

\* A turn of proto_play_tick keeps them.
LEMMA TurnHolds ==
    ASSUME Base, Turn
    PROVE  Base'
<1> PICK t \in turn .. Len(snapshot) :
         LET c == snapshot[t]
         IN  /\ InPlay(c) /\ ~closing[c]
             /\ turn' = t + 1
             /\ \/ /\ c \in Leavers
                   /\ closing' = [closing EXCEPT ![c] = TRUE]
                   /\ UNCHANGED << dead, deaths, tickPc, hand >>
                \/ /\ c \notin dead /\ deaths < MaxDeaths
                   /\ dead' = dead \cup {c} /\ deaths' = deaths + 1
                   /\ \/ UNCHANGED << tickPc, hand >>
                      \/ drops < MaxItems /\ tickPc' = "count" /\ hand' = nextId
                   /\ UNCHANGED closing
  BY DEF Turn
<1>1. turn \in Nat /\ turn # 0 /\ t \in 1 .. Len(snapshot) /\ t \in Nat /\ snapshot[t] \in Conn
  <2>1. turn \in Nat /\ turn # 0 /\ snapshot \in Seq(Conn) BY DEF Base, TypeOK, TickInv
  <2>2. t \in 1 .. Len(snapshot) BY <2>1
  <2> QED BY <2>1, <2>2
<1>2. /\ tickPc = "turns" /\ held.at = 0 /\ turn' = t + 1
      /\ UNCHANGED << lock, snapshot, held, walker, ground, phase, freed, conns >>
      /\ \/ UNCHANGED << tickPc, hand >>
         \/ drops < MaxItems /\ tickPc' = "count" /\ hand' = nextId
  BY DEF Turn, Base, TickInv
<1>3. Have' = Have BY DEF Have, Turn, netVars
<1>4. drops < MaxItems => nextId \in Ids /\ nextId # NoId /\ nextId - 1 <= Given BY NextNumber
<1>5. /\ deaths' \in 0 .. MaxDeaths /\ dead' \subseteq Conn /\ closing' \in [Conn -> BOOLEAN]
  <2>1. deaths \in 0 .. MaxDeaths /\ dead \subseteq Conn /\ closing \in [Conn -> BOOLEAN]
    BY DEF Base, TypeOK
  <2>2. deaths' = deaths \/ (deaths < MaxDeaths /\ deaths' = deaths + 1) OBVIOUS
  <2>3. dead' = dead \/ dead' = dead \cup {snapshot[t]} OBVIOUS
  <2>4. closing' = closing \/ closing' = [closing EXCEPT ![snapshot[t]] = TRUE] OBVIOUS
  <2>5. deaths' \in 0 .. MaxDeaths BY <2>1, <2>2
  <2>6. dead' \subseteq Conn BY <1>1, <2>1, <2>3
  <2>7. closing' \in [Conn -> BOOLEAN] BY <1>1, <2>1, <2>4
  <2> QED BY <2>5, <2>6, <2>7
<1>6. TypeOK'
  <2>1. ServerTypes' BY <1>2, <1>5, TypeParts DEF Base, ServerTypes, Turn, serverVars
  <2>2. ShownTypes' BY TypeParts DEF Base, ShownTypes, Turn, serverVars, clientVars
  <2>3. NetTypes' BY TypeParts DEF Base, NetTypes, Turn, netVars
  <2>4. TickTypes' BY <1>1, <1>2, <1>4, TypeParts DEF Base, TickTypes, Turn, tickVars
  <2>5. HistoryTypes' BY TypeParts DEF Base, HistoryTypes, Turn, historyVars
  <2> QED BY <2>1, <2>2, <2>3, <2>4, <2>5, TypesTogether
<1>7. NumberInv' BY <1>2, <1>3, <1>4 DEF Base, NumberInv, Given, Turn, netVars
<1>8. NetInv' BY <1>2 DEF Base, NetInv, Listed, Turn, netVars
<1>9. ListInv' BY <1>2 DEF Base, ListInv
<1>10. TickInv' BY <1>1, <1>2, <1>4 DEF Base, TickInv
<1> QED BY <1>6, <1>7, <1>8, <1>9, <1>10 DEF Base

\* A drop placed without conns_lock keeps them.
LEMMA CountedHolds ==
    ASSUME Base, Counted
    PROVE  Base'
<1>1. /\ tickPc = "count" /\ hand # NoId /\ tickPc' = "walk" /\ Placed /\ held.at = 0
      /\ UNCHANGED << lock, snapshot, held, turn, conns, phase, freed >>
      /\ walker' = IF conns = << >> THEN NoConn ELSE Head(conns)
  BY DEF Counted, Base, TickInv
<1>2. Have' = Have BY DEF Have, Counted, netVars
<1>3. /\ hand \in Ids /\ hand' = NoId /\ ground' \in Seq(Ground) /\ drops' \in Items /\ drops \in Nat
      /\ raced' \subseteq Conn \cup Items /\ nextId' = hand + 1 /\ Len(ground') # 0
  BY <1>1, PlacedItem
<1>4. walker' \in Conn \cup {NoConn} BY <1>1 DEF Base, TypeOK
<1>5. Ids \subseteq Nat BY NumbersSuffice DEF Base, TypeOK
<1>11. nextId' - 1 = hand /\ hand \in Ids /\ drops' \in 0 .. MaxItems BY <1>3, <1>5 DEF Items
<1>6. TypeOK'
  <2>1. ServerTypes' BY <1>11, TypeParts DEF Base, ServerTypes, Counted, serverVars
  <2>2. ShownTypes' BY <1>3, TypeParts DEF Base, ShownTypes, Counted, serverVars, clientVars
  <2>3. NetTypes' BY TypeParts DEF Base, NetTypes, Counted, netVars
  <2>4. TickTypes' BY <1>1, <1>3, <1>4, TypeParts DEF Base, TickTypes, Counted, tickVars
  <2>5. HistoryTypes' BY <1>3, TypeParts DEF Base, HistoryTypes, Counted, historyVars
  <2> QED BY <2>1, <2>2, <2>3, <2>4, <2>5, TypesTogether
<1>7. NumberInv' BY <1>1, <1>2, PlacedNumbers DEF Counted, netVars
<1>8. NetInv' BY <1>1 DEF Base, NetInv, Listed, Counted, netVars
<1>9. ListInv' BY <1>1 DEF Base, ListInv
<1>10. TickInv'
  <2>1. ground' # << >> BY <1>3
  <2> QED BY <1>1, <1>3, <2>1 DEF Base, TickInv
<1> QED BY <1>6, <1>7, <1>8, <1>9, <1>10 DEF Base

\* The next of a connection, in the list or not.
LEMMA NextTypes ==
    ASSUME TypeOK, NEW c \in Conn
    PROVE  /\ NextOf(c) \in Conn \cup {NoConn}
           /\ Listed(c) => \E k \in DOMAIN conns : /\ conns[k] = c
                             /\ NextOf(c) = IF k = Len(conns) THEN NoConn ELSE conns[k + 1]
<1>1. CASE Listed(c)
  <2> DEFINE k == CHOOSE k \in DOMAIN conns : conns[k] = c
  <2>1. k \in DOMAIN conns /\ conns[k] = c BY <1>1 DEF Range, Listed
  <2>2. NextOf(c) = IF k = Len(conns) THEN NoConn ELSE conns[k + 1] BY <1>1 DEF NextOf
  <2>3. k # Len(conns) => k + 1 \in DOMAIN conns BY <2>1, Members
  <2>4. \A i \in DOMAIN conns : conns[i] \in Conn BY Members DEF Range
  <2> QED BY <2>1, <2>2, <2>3, <2>4
<1>2. CASE ~Listed(c)
  <2>1. NextOf(c) = after[c] BY <1>2 DEF NextOf
  <2> QED BY <1>2, <2>1 DEF TypeOK
<1> QED BY <1>1, <1>2

\* The item a walk is about.
LEMMA LastItem ==
    ASSUME TypeOK, ground # << >>
    PROVE  /\ Len(ground) \in DOMAIN ground /\ Last(ground) = ground[Len(ground)]
           /\ Last(ground) \in Ground /\ Last(ground).id \in Ids /\ Last(ground).item \in Items
           /\ Item(Last(ground)) \in Shown /\ Item(Last(ground)) \in [item : Items, left : 0 .. Size]
<1>1. ground \in Seq(Ground) BY DEF TypeOK
<1>2. Len(ground) \in DOMAIN ground /\ Last(ground) = ground[Len(ground)] /\ Last(ground) \in Ground
  BY <1>1 DEF Last
<1>3. Item(Last(ground)) \in [item : Items, left : 0 .. Size] BY <1>2 DEF Item, Ground
<1> QED BY <1>2, <1>3 DEF Ground, Shown

\* A step of its broadcast keeps them.
LEMMA WalkHolds ==
    ASSUME Base, Walk
    PROVE  Base'
<1>1. /\ tickPc = "walk" /\ ground # << >> /\ held.at = 0
      /\ UNCHANGED << lock, snapshot, held, turn, conns, phase, freed, hand, ground >>
      /\ \/ tickPc' = "turns" /\ walker = NoConn /\ walker' = walker
         \/ tickPc' = "walk"
  BY DEF Walk, Base, TickInv
<1>2. Have' = Have BY DEF Have, Walk, netVars
<1>3. /\ walker' \in Conn \cup {NoConn} /\ wild' \in BOOLEAN
      /\ after' \in [Conn -> Conn \cup {NoConn}]
  <2>1. CASE walker = NoConn BY <1>1, <2>1 DEF Walk, Base, TypeOK
  <2>2. CASE walker # NoConn
    <3>1. walker \in Conn BY <2>2 DEF Base, TypeOK
    <3>2. NextOf(walker) \in Conn \cup {NoConn} BY <3>1, NextTypes DEF Base
    <3>3. /\ walker' \in {NoConn, NextOf(walker)} /\ wild' \in {wild, TRUE} /\ after' = after
      BY <2>2 DEF Walk
    <3> QED BY <3>2, <3>3 DEF Base, TypeOK
  <2> QED BY <2>1, <2>2
<1>4. seen' \in [Conn -> [Ids -> Shown]]
  <2> DEFINE i == Last(ground).id
             w == Item(Last(ground))
  <2>1. i \in Ids /\ w \in Shown BY <1>1, LastItem DEF Base
  <2>2. seen \in [Conn -> [Ids -> Shown]] BY DEF Base, TypeOK
  <2>3. seen' = seen \/ seen' = [seen EXCEPT ![walker][i] = w] BY DEF Walk
  <2> HIDE DEF i, w
  <2> QED BY <2>1, <2>2, <2>3
<1>5. TypeOK'
  <2>1. ServerTypes' BY <1>3, TypeParts DEF Base, ServerTypes, Walk, serverVars
  <2>2. ShownTypes' BY <1>4, TypeParts DEF Base, ShownTypes, Walk, serverVars, clientVars
  <2>3. NetTypes' BY TypeParts DEF Base, NetTypes, Walk, netVars
  <2>4. TickTypes' BY <1>1, <1>3, TypeParts DEF Base, TickTypes, Walk, tickVars
  <2>5. HistoryTypes' BY <1>3, TypeParts DEF Base, HistoryTypes, Walk, historyVars
  <2> QED BY <2>1, <2>2, <2>3, <2>4, <2>5, TypesTogether
<1>6. NumberInv' BY <1>1, <1>2 DEF Base, NumberInv, Given, Walk, netVars
<1>7. NetInv' BY <1>1 DEF Base, NetInv, Listed, Walk, netVars
<1>8. ListInv' BY <1>1 DEF Base, ListInv
<1>9. TickInv' BY <1>1 DEF Base, TickInv
<1> QED BY <1>5, <1>6, <1>7, <1>8, <1>9 DEF Base

\* The start of item_entities_tick keeps them.
LEMMA ItemsStartHolds ==
    ASSUME Base, ItemsStart
    PROVE  Base'
<1>1. /\ tickPc = "turns" /\ lock = "free" /\ turn' = 1 /\ held.at = 0
      /\ UNCHANGED << snapshot, held, walker, hand, conns, phase, freed, ground >>
      /\ \/ tickPc' = "sync" /\ lock' = "free"
         \/ tickPc' = "items" /\ lock' = "tick"
  BY DEF ItemsStart, Base, TickInv, serverVars
<1>2. Have' = Have BY DEF Have, ItemsStart, serverVars, netVars
<1>3. TypeOK'
  <2>1. ServerTypes' BY TypeParts DEF Base, ServerTypes, ItemsStart, serverVars
  <2>2. ShownTypes' BY TypeParts DEF Base, ShownTypes, ItemsStart, serverVars, clientVars
  <2>3. NetTypes' BY <1>1, TypeParts DEF Base, NetTypes, ItemsStart, netVars
  <2>4. TickTypes' BY <1>1, TypeParts DEF Base, TickTypes, ItemsStart, tickVars
  <2>5. HistoryTypes' BY TypeParts DEF Base, HistoryTypes, ItemsStart, historyVars
  <2> QED BY <2>1, <2>2, <2>3, <2>4, <2>5, TypesTogether
<1>4. NumberInv' BY <1>1, <1>2 DEF Base, NumberInv, Given, ItemsStart, serverVars, netVars
<1>5. NetInv' BY <1>1 DEF Base, NetInv, Listed, ItemsStart, serverVars, netVars
<1>6. ListInv' BY <1>1 DEF Base, ListInv
<1>7. TickInv' BY <1>1 DEF Base, TickInv
<1> QED BY <1>3, <1>4, <1>5, <1>6, <1>7 DEF Base

\* Turn is at an item.
LEMMA ItemAtTurn ==
    ASSUME Base, tickPc = "items", turn <= Len(ground)
    PROVE  turn \in DOMAIN ground /\ turn \in Nat /\ turn # 0
<1>1. turn \in Nat /\ turn # 0 BY DEF Base, TypeOK, TickInv
<1> QED BY <1>1, GroundItems DEF Base

\* What is left on the ground when an item goes: the other items, each once.
LEMMA DestroyGround ==
    ASSUME Base, NEW k \in DOMAIN ground
    PROVE  /\ Without(ground, k) \in Seq(Ground) /\ Len(Without(ground, k)) = Len(ground) - 1
           /\ DOMAIN Without(ground, k) = 1 .. Len(ground) - 1 /\ k \in 1 .. Len(ground)
           /\ Len(ground) \in Nat \ {0}
           /\ \A i \in 1 .. Len(ground) - 1 :
                Without(ground, k)[i] = ground[IF i = k THEN Len(ground) ELSE i]
<1>1. ground \in Seq(Ground) BY DEF Base, TypeOK
<1>2. /\ Without(ground, k) \in Seq(Ground)
      /\ Len(ground) \in Nat \ {0} /\ k \in 1 .. Len(ground) /\ Len(Without(ground, k)) = Len(ground) - 1
      /\ \A i \in 1 .. Len(ground) - 1 : Without(ground, k)[i] = IF i = k THEN ground[Len(ground)] ELSE ground[i]
  BY <1>1, WithoutElements
<1>3. DOMAIN Without(ground, k) = 1 .. Len(ground) - 1 BY <1>2
<1> QED BY <1>2, <1>3

\* Each item on the ground keeps its number; how one step of item_entities_tick
\* changes what lies there: one item goes, or has less left.
LEMMA ItemTickGround ==
    ASSUME Base, ItemTick
    PROVE  /\ tickPc = "items" /\ ground' \in Seq(Ground)
           /\ seen' \in [Conn -> [Ids -> Shown]] /\ closing' \in [Conn -> BOOLEAN]
           /\ spoiled' \subseteq Items /\ turn' \in Nat \ {0}
           /\ \/ /\ turn <= Len(ground) /\ DestroyItem(turn) /\ UNCHANGED << closing, spoiled >>
              \/ /\ DOMAIN ground' = DOMAIN ground
                 /\ \A k \in DOMAIN ground : /\ ground'[k].id = ground[k].id
                                              /\ ground'[k].item = ground[k].item
<1>1. CASE DestroyItem(turn) /\ turn <= Len(ground) /\ UNCHANGED << turn, closing, spoiled >> /\ tickPc = "items"
  <2>1. turn \in DOMAIN ground /\ turn \in Nat \ {0} BY <1>1, ItemAtTurn
  <2>2. ground' \in Seq(Ground) BY <1>1, <2>1, DestroyGround DEF DestroyItem
  <2>3. seen' \in [Conn -> [Ids -> Shown]]
    <3>1. ground[turn].id \in Ids /\ Nothing \in Shown BY <2>1, GroundItems DEF Base, Shown
    <3>2. seen' = Told(ground[turn].id, Nothing) BY <1>1 DEF DestroyItem
    <3> QED BY <3>1, <3>2, ToldTypes DEF Base
  <2> QED BY <1>1, <2>1, <2>2, <2>3 DEF Base, TypeOK
<1>2. CASE /\ turn' = turn + 1 /\ UNCHANGED << seen, ground, closing, spoiled >> /\ tickPc = "items"
  <2>1. turn' \in Nat \ {0} BY <1>2 DEF Base, TypeOK
  <2> QED BY <1>2, <2>1 DEF Base, TypeOK
<1>3. ASSUME NEW n \in 0 .. ground[turn].left - 1, tickPc = "items", turn <= Len(ground),
             TakeSome(n) \/ TakeUnsaved(n)
      PROVE  /\ ground' \in Seq(Ground) /\ ground' = [ground EXCEPT ![turn].left = n]
             /\ seen' \in [Conn -> [Ids -> Shown]] /\ closing' \in [Conn -> BOOLEAN]
             /\ spoiled' \subseteq Items /\ turn' \in Nat \ {0}
             /\ DOMAIN ground' = DOMAIN ground
             /\ \A k \in DOMAIN ground : /\ ground'[k].id = ground[k].id
                                          /\ ground'[k].item = ground[k].item
                                          /\ ground'[k].left = IF k = turn THEN n ELSE ground[k].left
             /\ ground'[turn].left = n
  <2>1. turn \in DOMAIN ground /\ turn \in Nat BY <1>3, ItemAtTurn
  <2>2. ground[turn] \in Ground /\ ground[turn].id \in Ids /\ ground[turn].item \in Items
        /\ ground[turn].left \in 0 .. Size
    BY <2>1, GroundItems DEF Base
  <2>3. n \in 0 .. Size BY <1>3, <2>2
  <2>4. ground' = [ground EXCEPT ![turn].left = n] BY <1>3 DEF TakeSome, TakeUnsaved
  <2> DEFINE g == [ground[turn] EXCEPT !.left = n]
  <2>5. g \in Ground /\ g.id = ground[turn].id /\ g.item = ground[turn].item /\ g.left = n
    BY <2>2, <2>3 DEF Ground
  <2>6. ground' = [ground EXCEPT ![turn] = g] BY <2>4
  <2> HIDE DEF g
  <2>7. ground \in Seq(Ground) BY DEF Base, TypeOK
  <2>8. ground' \in Seq(Ground) /\ DOMAIN ground' = DOMAIN ground /\ ground'[turn] = g
        /\ \A k \in DOMAIN ground : k # turn => ground'[k] = ground[k]
    BY <2>1, <2>5, <2>6, <2>7
  <2>9. seen' \in [Conn -> [Ids -> Shown]]
    <3>1. CASE TakeSome(n)
      <4>1. Item(ground'[turn]) \in Shown BY <2>5, <2>8 DEF Item, Ground, Shown
      <4>2. seen' = Told(ground[turn].id, Item(ground'[turn])) BY <3>1 DEF TakeSome
      <4> QED BY <2>2, <4>1, <4>2, ToldTypes DEF Base
    <3>2. CASE TakeUnsaved(n) BY <3>2 DEF TakeUnsaved, Base, TypeOK
    <3> QED BY <1>3, <3>1, <3>2
  <2>10. closing' \in [Conn -> BOOLEAN] BY <1>3 DEF TakeSome, TakeUnsaved, Base, TypeOK
  <2>11. spoiled' \subseteq Items BY <1>3, <2>2 DEF TakeSome, TakeUnsaved, Base, TypeOK
  <2>12. turn' \in Nat \ {0} BY <1>3, <2>1 DEF TakeSome, TakeUnsaved
  <2>13. \A k \in DOMAIN ground : /\ ground'[k].id = ground[k].id
                                  /\ ground'[k].item = ground[k].item
                                  /\ ground'[k].left = IF k = turn THEN n ELSE ground[k].left
    BY <2>5, <2>8
  <2> QED BY <2>1, <2>4, <2>8, <2>9, <2>10, <2>11, <2>12, <2>13
<1>4. /\ tickPc = "items" /\ turn <= Len(ground)
      /\ \/ DestroyItem(turn) /\ UNCHANGED << turn, closing, spoiled >>
         \/ PickUp
         \/ turn' = turn + 1 /\ UNCHANGED << seen, ground, closing, spoiled >>
  BY DEF ItemTick
<1>5. CASE PickUp
  <2>1. PICK n \in 0 .. ground[turn].left - 1 : TakeSome(n) \/ TakeAll(n) \/ TakeUnsaved(n)
    BY <1>5 DEF PickUp
  <2>2. CASE TakeAll(n) BY <1>1, <1>4, <2>2 DEF TakeAll
  <2>3. CASE TakeSome(n) \/ TakeUnsaved(n) BY <1>3, <1>4, <2>3
  <2> QED BY <2>1, <2>2, <2>3
<1> QED BY <1>1, <1>2, <1>4, <1>5

\* Going and shrinking items leave the others' numbers as they are.
LEMMA FewerNumbers ==
    ASSUME Base, ItemTick
    PROVE  /\ \A k \in DOMAIN ground' : \E j \in DOMAIN ground :
                 ground'[k].id = ground[j].id /\ ground'[k].item = ground[j].item
           /\ \A k, l \in DOMAIN ground' : ground'[k].item = ground'[l].item => k = l
<1>1. \A k, l \in DOMAIN ground : ground[k].item = ground[l].item => k = l
  BY DEF Base, NumberInv
<1>2. CASE turn <= Len(ground) /\ DestroyItem(turn)
  <2> DEFINE n == Len(ground)
             from(i) == IF i = turn THEN n ELSE i
  <2>0. tickPc = "items" BY ItemTickGround
  <2>1. turn \in DOMAIN ground BY <1>2, <2>0, ItemAtTurn
  <2>2. /\ n \in Nat \ {0} /\ DOMAIN ground' = 1 .. n - 1 /\ DOMAIN ground = 1 .. n /\ turn \in 1 .. n
        /\ \A i \in 1 .. n - 1 : ground'[i] = ground[from(i)]
    <3>1. ground' = Without(ground, turn) BY <1>2 DEF DestroyItem
    <3>2. /\ DOMAIN Without(ground, turn) = 1 .. n - 1 /\ turn \in 1 .. n /\ n \in Nat \ {0}
          /\ \A i \in 1 .. n - 1 : Without(ground, turn)[i] = ground[IF i = turn THEN n ELSE i]
      BY <2>1, DestroyGround
    <3>3. DOMAIN ground = 1 .. n BY GroundItems DEF Base
    <3> QED BY <3>1, <3>2, <3>3
  <2>3. \A i \in 1 .. n - 1 : from(i) \in 1 .. n BY <2>2
  <2>4. \A i, j \in 1 .. n - 1 : from(i) = from(j) => i = j BY <2>2
  <2> HIDE DEF n, from
  <2>5. \A k \in DOMAIN ground' : \E j \in DOMAIN ground :
           ground'[k].id = ground[j].id /\ ground'[k].item = ground[j].item
    BY <2>2, <2>3
  <2>6. ASSUME NEW k \in DOMAIN ground', NEW l \in DOMAIN ground', ground'[k].item = ground'[l].item
        PROVE  k = l
    <3>1. k \in 1 .. n - 1 /\ l \in 1 .. n - 1 BY <2>2, <2>6
    <3>2. ground[from(k)].item = ground[from(l)].item BY <2>2, <2>6, <3>1
    <3>3. from(k) = from(l) BY <1>1, <2>2, <2>3, <3>1, <3>2
    <3> QED BY <2>4, <3>1, <3>3
  <2> QED BY <2>5, <2>6
<1>3. CASE /\ DOMAIN ground' = DOMAIN ground
           /\ \A k \in DOMAIN ground : /\ ground'[k].id = ground[k].id
                                        /\ ground'[k].item = ground[k].item
  BY <1>1, <1>3
<1> QED BY <1>2, <1>3, ItemTickGround

\* What the tick does to one item keeps them.
LEMMA ItemTickHolds ==
    ASSUME Base, ItemTick
    PROVE  Base'
<1>1. /\ tickPc = "items" /\ held.at = 0 /\ ground' \in Seq(Ground)
      /\ seen' \in [Conn -> [Ids -> Shown]] /\ closing' \in [Conn -> BOOLEAN]
      /\ spoiled' \subseteq Items /\ turn' \in Nat \ {0}
  BY ItemTickGround DEF Base, TickInv
<1>2. UNCHANGED << id, nextId, netId, hand, drops, phase, lock, tickPc, snapshot, held, walker, conns, freed,
                   netPc, netConn, told >>
  BY DEF ItemTick, netVars
<1>3. Have' = Have BY <1>2 DEF Have
<1>4. TypeOK'
  <2>1. ServerTypes' BY <1>1, TypeParts DEF Base, ServerTypes, ItemTick, serverVars
  <2>2. ShownTypes' BY <1>1, TypeParts DEF Base, ShownTypes, ItemTick, serverVars, clientVars
  <2>3. NetTypes' BY TypeParts DEF Base, NetTypes, ItemTick, netVars
  <2>4. TickTypes' BY <1>1, TypeParts DEF Base, TickTypes, ItemTick, tickVars
  <2>5. HistoryTypes' BY <1>1, TypeParts DEF Base, HistoryTypes, ItemTick, historyVars
  <2> QED BY <2>1, <2>2, <2>3, <2>4, <2>5, TypesTogether
<1>5. NumberInv'
  <2>1. \A k \in DOMAIN ground' : ground'[k].item <= drops BY FewerNumbers DEF Base, NumberInv
  <2> QED BY <1>2, <1>3, <2>1, FewerNumbers DEF Base, NumberInv, Given
<1>6. NetInv' BY <1>2 DEF Base, NetInv, Listed
<1>7. ListInv' BY <1>2 DEF Base, ListInv
<1>8. TickInv' BY <1>1, <1>2 DEF Base, TickInv
<1> QED BY <1>4, <1>5, <1>6, <1>7, <1>8 DEF Base

\* The end of item_entities_tick keeps them.
LEMMA ItemsDoneHolds ==
    ASSUME Base, ItemsDone
    PROVE  Base'
<1>1. /\ tickPc = "items" /\ held.at = 0 /\ lock = "tick" /\ lock' = "free" /\ tickPc' = "sync" /\ turn' = 1
      /\ UNCHANGED << snapshot, held, walker, hand, conns, phase, freed, ground >>
  BY DEF ItemsDone, Base, TickInv, serverVars
<1>2. Have' = Have BY DEF Have, ItemsDone, serverVars, netVars
<1>3. TypeOK'
  <2>1. ServerTypes' BY TypeParts DEF Base, ServerTypes, ItemsDone, serverVars
  <2>2. ShownTypes' BY TypeParts DEF Base, ShownTypes, ItemsDone, serverVars, clientVars
  <2>3. NetTypes' BY <1>1, TypeParts DEF Base, NetTypes, ItemsDone, netVars
  <2>4. TickTypes' BY <1>1, TypeParts DEF Base, TickTypes, ItemsDone, tickVars
  <2>5. HistoryTypes' BY TypeParts DEF Base, HistoryTypes, ItemsDone, historyVars
  <2> QED BY <2>1, <2>2, <2>3, <2>4, <2>5, TypesTogether
<1>4. NumberInv' BY <1>1, <1>2 DEF Base, NumberInv, Given, ItemsDone, serverVars, netVars
<1>5. NetInv' BY <1>1 DEF Base, NetInv, Listed, ItemsDone, serverVars, netVars
<1>6. ListInv' BY <1>1 DEF Base, ListInv
<1>7. TickInv' BY <1>1 DEF Base, TickInv
<1> QED BY <1>3, <1>4, <1>5, <1>6, <1>7 DEF Base

\* The pair the sync comes to.
LEMMA NextPair ==
    ASSUME Base, Pairs # {}
    PROVE  /\ Min(Pairs) \in Pairs /\ Min(Pairs) \in 1 .. Len(snapshot) * Len(snapshot)
           /\ turn \in Nat /\ turn # 0 /\ turn <= Min(Pairs)
           /\ \A t \in turn .. Min(Pairs) - 1 : t \notin Pairs
           /\ Viewer(Min(Pairs)) \in Range(snapshot) /\ Subject(Min(Pairs)) \in Range(snapshot)
           /\ Viewer(Min(Pairs)) \in Conn /\ Subject(Min(Pairs)) \in Conn
           /\ Viewer(Min(Pairs)) # Subject(Min(Pairs))
           /\ Reached(Viewer(Min(Pairs))) /\ Reached(Subject(Min(Pairs)))
<1>1. turn \in Nat /\ turn # 0 /\ Len(snapshot) \in Nat BY Members DEF Base, TypeOK, TickInv
<1>2. Pairs \in SUBSET Nat /\ Pairs \subseteq turn .. Len(snapshot) * Len(snapshot)
  BY <1>1 DEF Pairs
<1>3. Min(Pairs) \in Pairs /\ \A t \in Pairs : Min(Pairs) <= t BY <1>2, MinOfNat
<1> DEFINE t == Min(Pairs)
<1> HIDE DEF t
<1>4. t \in Pairs /\ t \in turn .. Len(snapshot) * Len(snapshot) BY <1>2, <1>3 DEF t
<1>5. t \in 1 .. Len(snapshot) * Len(snapshot) /\ turn <= t
  <2> DEFINE m == Len(snapshot) * Len(snapshot)
  <2>1. m \in Nat BY <1>1
  <2> HIDE DEF m
  <2>2. t \in turn .. m BY <1>4 DEF m
  <2>3. t \in 1 .. m /\ turn <= t BY <1>1, <2>1, <2>2
  <2> QED BY <2>3 DEF m
<1>6. Viewer(t) # Subject(t) /\ Reached(Viewer(t)) /\ Reached(Subject(t)) BY <1>4 DEF Pairs
<1>7. Viewer(t) \in Range(snapshot) /\ Subject(t) \in Range(snapshot) /\ Range(snapshot) \subseteq Conn
  BY <1>5, Members DEF Base
<1>8. \A u \in turn .. t - 1 : u \notin Pairs
  <2>1. SUFFICES ASSUME NEW u \in turn .. t - 1, u \in Pairs PROVE FALSE OBVIOUS
  <2>2. t <= u BY <1>3, <2>1 DEF t
  <2>3. u \in Nat /\ t \in Nat /\ u <= t - 1 BY <1>1, <1>2, <1>4, <2>1
  <2> QED BY <2>2, <2>3
<1> QED BY <1>1, <1>4, <1>5, <1>6, <1>7, <1>8 DEF t

\* An entry for the subject, there or appended.
LEMMA Ensured ==
    ASSUME TypeOK, NEW v \in Conn, NEW s \in Conn, id[s] # 0, Ensure(v, s)
    PROVE  LET t == table'[v]
               n == Len(table[v])
           IN  /\ table' = [table EXCEPT ![v] = t] /\ t \in Seq(Entry)
               /\ held' \in [at : Nat, listed : BOOLEAN, spawned : BOOLEAN]
               /\ held'.at \in DOMAIN t /\ held'.at # 0 /\ t[held'.at].id = id[s]
               /\ held'.listed = t[held'.at].listed /\ held'.spawned = t[held'.at].spawned
               /\ n \in Nat /\ DOMAIN table[v] = 1 .. n
               /\ \/ t = table[v]
                  \/ /\ \A k \in DOMAIN table[v] : table[v][k].id # id[s]
                     /\ DOMAIN t = 1 .. n + 1 /\ \A k \in 1 .. n : t[k] = table[v][k]
                     /\ t[n + 1] = [id |-> id[s], listed |-> FALSE, spawned |-> FALSE]
<1> DEFINE k  == At(v, id[s])
           e  == [id |-> id[s], listed |-> FALSE, spawned |-> FALSE]
           t  == IF k # 0 THEN table[v] ELSE Append(table[v], e)
           at == IF k # 0 THEN k ELSE Len(t)
<1>1. table' = [table EXCEPT ![v] = t] /\ held' = [at |-> at, listed |-> t[at].listed, spawned |-> t[at].spawned]
  BY DEF Ensure
<1>2. table \in [Conn -> Seq(Entry)] /\ table[v] \in Seq(Entry) BY DEF TypeOK
<1>3. table'[v] = t BY <1>1, <1>2
<1>4. id[s] \in Ids BY DEF TypeOK
<1>5. e \in Entry /\ e.id = id[s] BY <1>4 DEF Entry
<1>6. Len(table[v]) \in Nat /\ DOMAIN table[v] = 1 .. Len(table[v]) BY <1>2
<1>7. CASE k # 0
  <2>1. t = table[v] /\ at = k /\ k \in DOMAIN table[v] /\ table[v][k].id = id[s] BY <1>7, Found
  <2>2. t[at] \in Entry /\ at \in Nat /\ at # 0
    <3> HIDE DEF t, at, k
    <3>1. k \in 1 .. Len(table[v]) /\ table[v][k] \in Entry BY <1>2, <1>6, <2>1
    <3> QED BY <1>6, <2>1, <3>1
  <2>3. t[at].listed \in BOOLEAN /\ t[at].spawned \in BOOLEAN BY <2>2 DEF Entry
  <2> HIDE DEF t, at
  <2>4. /\ held' \in [at : Nat, listed : BOOLEAN, spawned : BOOLEAN]
        /\ held'.at = at /\ held'.listed = t[at].listed /\ held'.spawned = t[at].spawned
    BY <1>1, <2>2, <2>3
  <2> QED BY <1>1, <1>2, <1>3, <1>6, <2>1, <2>2, <2>4
<1>8. CASE k = 0
  <2> DEFINE n == Len(table[v])
  <2>1. t = Append(table[v], e) /\ at = Len(t) BY <1>8
  <2> HIDE DEF t, at, e
  <2>2. /\ t \in Seq(Entry) /\ DOMAIN t = 1 .. n + 1 /\ Len(t) = n + 1 /\ n \in Nat
        /\ \A j \in 1 .. n : t[j] = table[v][j] /\ t[n + 1] = e
    BY <1>2, <1>5, <2>1, AppendElements
  <2>3. at = n + 1 /\ at \in DOMAIN t /\ at # 0 /\ at \in Nat /\ t[at] = e BY <1>6, <2>1, <2>2
  <2>4. e.listed = FALSE /\ e.spawned = FALSE BY DEF e
  <2>5. /\ held' \in [at : Nat, listed : BOOLEAN, spawned : BOOLEAN]
        /\ held'.at = at /\ held'.listed = t[at].listed /\ held'.spawned = t[at].spawned
    BY <1>1, <2>3, <2>4
  <2>6. \A j \in DOMAIN table[v] : table[v][j].id # id[s] BY <1>8, Found
  <2> QED BY <1>1, <1>3, <1>5, <1>6, <2>2, <2>3, <2>5, <2>6 DEF e
<1> QED BY <1>7, <1>8

\* Those who are in the list or the snapshot have a number.
LEMMA Numbers ==
    ASSUME Base
    PROVE  \A c \in Conn : phase[c] # "none" => id[c] # 0 /\ id[c] \in Ids
BY DEF Base, NumberInv, Have, TypeOK

\* A dead one is hidden: the table keeps its numbers.
LEMMA Hidden ==
    ASSUME TypeOK, NEW v \in Conn, NEW s \in Conn, id[s] # 0, HideDead(v, s)
    PROVE  /\ table' \in [Conn -> Seq(Entry)] /\ seen' \in [Conn -> [Ids -> Shown]]
           /\ \A u \in Conn \ {v} : table'[u] = table[u] /\ seen'[u] = seen[u]
           /\ DOMAIN table'[v] = DOMAIN table[v]
           /\ \A k \in DOMAIN table[v] : /\ table'[v][k].id = table[v][k].id
                                          /\ table'[v][k].listed = table[v][k].listed
                                          /\ table'[v][k].spawned =
                                               (table[v][k].spawned /\ k # At(v, id[s]))
           /\ \A i \in Ids : seen'[v][i] =
                 IF i = id[s] /\ At(v, id[s]) # 0 /\ table[v][At(v, id[s])].spawned
                 THEN Nothing ELSE seen[v][i]
<1> DEFINE k == At(v, id[s])
           h == Hide(seen[v], id[s])
<1>1. /\ table \in [Conn -> Seq(Entry)] /\ table[v] \in Seq(Entry) /\ seen \in [Conn -> [Ids -> Shown]]
      /\ seen[v] \in [Ids -> Shown] /\ id[s] \in Ids /\ Nothing \in Shown
  BY DEF TypeOK, Shown
<1>2. h \in [Ids -> Shown] /\ \A i \in Ids : h[i] = IF i = id[s] THEN Nothing ELSE seen[v][i]
  BY <1>1 DEF Hide
<1>3. seen' = IF k # 0 /\ table[v][k].spawned THEN [seen EXCEPT ![v] = h] ELSE seen BY DEF HideDead
<1>4. table' = IF k = 0 THEN table ELSE [table EXCEPT ![v][k].spawned = FALSE] BY DEF HideDead
<1>5. k # 0 => k \in DOMAIN table[v] BY Found
<1>6. 0 \notin DOMAIN table[v] BY <1>1
<1>7. \A j \in DOMAIN table[v] : table[v][j] \in Entry BY <1>1
<1> HIDE DEF k, h
<1>8. seen' \in [Conn -> [Ids -> Shown]] /\ \A u \in Conn \ {v} : seen'[u] = seen[u]
  BY <1>1, <1>2, <1>3
<1>9. \A i \in Ids : seen'[v][i] = IF i = id[s] /\ k # 0 /\ table[v][k].spawned THEN Nothing ELSE seen[v][i]
  BY <1>1, <1>2, <1>3
<1>10. CASE k = 0
  <2>1. table' = table BY <1>4, <1>10
  <2>2. \A j \in DOMAIN table[v] : table[v][j].spawned \in BOOLEAN BY <1>7 DEF Entry
  <2> QED BY <1>1, <1>6, <1>8, <1>9, <1>10, <2>1, <2>2 DEF k
<1>11. CASE k # 0
  <2> DEFINE e == [table[v][k] EXCEPT !.spawned = FALSE]
             t == [table[v] EXCEPT ![k] = e]
  <2>1. e \in Entry /\ e.id = table[v][k].id /\ e.listed = table[v][k].listed /\ e.spawned = FALSE
    BY <1>5, <1>7, <1>11 DEF Entry
  <2>2. table' = [table EXCEPT ![v] = t] BY <1>4, <1>11
  <2> HIDE DEF e
  <2>3. t \in Seq(Entry) /\ DOMAIN t = DOMAIN table[v] /\ t[k] = e
        /\ \A j \in DOMAIN table[v] : j # k => t[j] = table[v][j]
    BY <1>1, <1>5, <1>11, <2>1
  <2> HIDE DEF t
  <2>4. /\ table' \in [Conn -> Seq(Entry)] /\ table'[v] = t /\ \A u \in Conn \ {v} : table'[u] = table[u]
    BY <1>1, <2>2, <2>3
  <2>5. \A j \in DOMAIN table[v] : table[v][j].spawned \in BOOLEAN BY <1>7 DEF Entry
  <2>6. \A j \in DOMAIN table[v] : /\ t[j].id = table[v][j].id /\ t[j].listed = table[v][j].listed
                                   /\ t[j].spawned = (table[v][j].spawned /\ j # k)
    BY <2>1, <2>3, <2>5
  <2> QED BY <1>8, <1>9, <2>3, <2>4, <2>6 DEF k
<1> QED BY <1>10, <1>11

\* The start of a pair of the sync loop keeps them.
LEMMA SyncHolds ==
    ASSUME Base, Sync
    PROVE  Base'
<1> DEFINE t == Min(Pairs)
<1>1. /\ tickPc = "sync" /\ t \in 1 .. Len(snapshot) * Len(snapshot) /\ t \in Nat /\ t # 0
      /\ Viewer(t) \in Conn /\ Subject(t) \in Conn /\ Viewer(t) # Subject(t)
      /\ Reached(Viewer(t)) /\ Reached(Subject(t)) /\ held.at = 0
  BY NextPair DEF Sync, Base, TickInv
<1>2. id[Subject(t)] # 0 BY <1>1, Numbers DEF Reached
<1>3. UNCHANGED << nextId, id, conns, phase, freed, ground, drops, lock, netPc, netConn, netId, told, snapshot,
                   walker, hand, dead >>
  BY DEF Sync, netVars
<1>4. Have' = Have BY <1>3 DEF Have
<1> HIDE DEF t
<1>5. \/ /\ Subject(t) \in dead /\ HideDead(Viewer(t), Subject(t)) /\ turn' = t + 1
         /\ tickPc' = "sync" /\ held' = held
      \/ /\ Subject(t) \notin dead /\ Ensure(Viewer(t), Subject(t)) /\ turn' = t
         /\ tickPc' = "list" /\ UNCHANGED seen
  BY <1>1 DEF Sync, t
<1>6. CASE Subject(t) \in dead
  <2>1. table' \in [Conn -> Seq(Entry)] /\ seen' \in [Conn -> [Ids -> Shown]]
    BY <1>1, <1>2, <1>5, <1>6, Hidden DEF Base
  <2>2. turn' \in Nat /\ turn' # 0 BY <1>1, <1>5, <1>6
<2>3. TypeOK'
  <3>1. ServerTypes' BY TypeParts DEF Base, ServerTypes, Sync, serverVars
  <3>2. ShownTypes' BY <2>1, TypeParts DEF Base, ShownTypes, Sync, serverVars, clientVars
  <3>3. NetTypes' BY TypeParts DEF Base, NetTypes, Sync, netVars
  <3>4. TickTypes' BY <1>5, <1>6, <2>2, TypeParts DEF Base, TickTypes, Sync, tickVars
  <3>5. HistoryTypes' BY TypeParts DEF Base, HistoryTypes, Sync, historyVars
  <3> QED BY <3>1, <3>2, <3>3, <3>4, <3>5, TypesTogether
  <2>4. TickInv' BY <1>1, <1>3, <1>5, <1>6, <2>2 DEF Base, TickInv
  <2>5. NumberInv' BY <1>3, <1>4 DEF Base, NumberInv, Given
  <2>6. NetInv' BY <1>3 DEF Base, NetInv, Listed
  <2>7. ListInv' BY <1>3 DEF Base, ListInv
  <2> QED BY <2>3, <2>4, <2>5, <2>6, <2>7 DEF Base
<1>7. CASE Subject(t) \notin dead
  <2>1. /\ table' = [table EXCEPT ![Viewer(t)] = table'[Viewer(t)]] /\ table'[Viewer(t)] \in Seq(Entry)
        /\ held' \in [at : Nat, listed : BOOLEAN, spawned : BOOLEAN] /\ held'.at # 0
    BY <1>1, <1>2, <1>5, <1>7, Ensured DEF Base
  <2>2. table' \in [Conn -> Seq(Entry)] BY <1>1, <2>1 DEF Base, TypeOK
<2>3. TypeOK'
  <3>1. ServerTypes' BY TypeParts DEF Base, ServerTypes, Sync, serverVars
  <3>2. ShownTypes' BY <1>5, <1>7, <2>2, TypeParts DEF Base, ShownTypes, Sync, serverVars, clientVars
  <3>3. NetTypes' BY TypeParts DEF Base, NetTypes, Sync, netVars
  <3>4. TickTypes' BY <1>1, <1>5, <1>7, <2>1, TypeParts DEF Base, TickTypes, Sync, tickVars
  <3>5. HistoryTypes' BY TypeParts DEF Base, HistoryTypes, Sync, historyVars
  <3> QED BY <3>1, <3>2, <3>3, <3>4, <3>5, TypesTogether
  <2>4. Viewer(turn)' = Viewer(t) /\ Subject(turn)' = Subject(t) BY <1>3, <1>5, <1>7 DEF Viewer, Subject
  <2>5. phase[Viewer(t)] = "ready" /\ phase[Subject(t)] = "ready" BY <1>1 DEF Reached
  <2>6. TickInv' BY <1>1, <1>3, <1>5, <1>7, <2>1, <2>4, <2>5 DEF Base, TickInv
  <2>7. NumberInv' BY <1>3, <1>4 DEF Base, NumberInv, Given
  <2>8. NetInv' BY <1>3 DEF Base, NetInv, Listed
  <2>9. ListInv' BY <1>3 DEF Base, ListInv
  <2> QED BY <2>3, <2>6, <2>7, <2>8, <2>9 DEF Base
<1> QED BY <1>6, <1>7

\* The pair at hand.
LEMMA PairAtHand ==
    ASSUME Base, held.at # 0
    PROVE  /\ Viewer(turn) \in Conn /\ Subject(turn) \in Conn /\ Viewer(turn) # Subject(turn)
           /\ Viewer(turn) \in Range(snapshot) /\ Subject(turn) \in Range(snapshot)
           /\ turn \in 1 .. Len(snapshot) * Len(snapshot)
           /\ id[Subject(turn)] \in Ids /\ held.at \in Nat
           /\ Viewer(turn) \notin freed /\ Subject(turn) \notin freed
<1>1. turn \in 1 .. Len(snapshot) * Len(snapshot) /\ Viewer(turn) # Subject(turn) BY DEF Base, TickInv
<1>2. Viewer(turn) \in Range(snapshot) /\ Subject(turn) \in Range(snapshot) /\ Range(snapshot) \subseteq Conn
  BY <1>1, Members DEF Base
<1>3. phase[Subject(turn)] # "none" /\ Viewer(turn) \notin freed /\ Subject(turn) \notin freed
  BY <1>2 DEF Base, ListInv
<1>4. held.at \in Nat BY DEF Base, TypeOK
<1> QED BY <1>1, <1>2, <1>3, <1>4, Numbers

\* What List and Show write through the pointer.
MarkListed(t, v, k)  == [t EXCEPT ![v][k].listed = TRUE]
\* The same of the mark that an entity is shown.
MarkSpawned(t, v, k) == [t EXCEPT ![v][k].spawned = TRUE]

\* The entry the pointer leads to is marked; the others stay.
LEMMA MarkedListed ==
    ASSUME NEW t \in [Conn -> Seq(Entry)], NEW v \in Conn, NEW k \in DOMAIN t[v]
    PROVE  /\ MarkListed(t, v, k) \in [Conn -> Seq(Entry)]
           /\ \A w \in Conn \ {v} : MarkListed(t, v, k)[w] = t[w]
           /\ DOMAIN MarkListed(t, v, k)[v] = DOMAIN t[v]
           /\ \A j \in DOMAIN t[v] :
                /\ MarkListed(t, v, k)[v][j].id = t[v][j].id
                /\ MarkListed(t, v, k)[v][j].listed = (t[v][j].listed \/ j = k)
                /\ MarkListed(t, v, k)[v][j].spawned = t[v][j].spawned
<1> DEFINE e == [t[v][k] EXCEPT !.listed = TRUE]
           r == [t[v] EXCEPT ![k] = e]
<1>1. t[v] \in Seq(Entry) /\ \A j \in DOMAIN t[v] : t[v][j] \in Entry OBVIOUS
<1>2. \A j \in DOMAIN t[v] : t[v][j].listed \in BOOLEAN /\ t[v][j].spawned \in BOOLEAN BY <1>1 DEF Entry
<1>3. e \in Entry /\ e.id = t[v][k].id /\ e.listed = TRUE /\ e.spawned = t[v][k].spawned
  BY <1>1 DEF Entry
<1>4. MarkListed(t, v, k) = [t EXCEPT ![v] = r] BY DEF MarkListed
<1> HIDE DEF e
<1>5. r \in Seq(Entry) /\ DOMAIN r = DOMAIN t[v] /\ r[k] = e
      /\ \A j \in DOMAIN t[v] : j # k => r[j] = t[v][j]
  BY <1>1, <1>3
<1> HIDE DEF r
<1>6. /\ MarkListed(t, v, k) \in [Conn -> Seq(Entry)] /\ MarkListed(t, v, k)[v] = r
      /\ \A w \in Conn \ {v} : MarkListed(t, v, k)[w] = t[w]
  BY <1>4, <1>5
<1>7. \A j \in DOMAIN t[v] : /\ r[j].id = t[v][j].id /\ r[j].spawned = t[v][j].spawned
                             /\ r[j].listed = (t[v][j].listed \/ j = k)
  <2>1. \A j \in DOMAIN t[v] : j # k => r[j] = t[v][j] BY <1>5
  <2>2. r[k] = e BY <1>5
  <2> QED BY <1>2, <1>3, <2>1, <2>2
<1> QED BY <1>5, <1>6, <1>7

\* The entry the pointer leads to is marked; the others stay.
LEMMA MarkedSpawned ==
    ASSUME NEW t \in [Conn -> Seq(Entry)], NEW v \in Conn, NEW k \in DOMAIN t[v]
    PROVE  /\ MarkSpawned(t, v, k) \in [Conn -> Seq(Entry)]
           /\ \A w \in Conn \ {v} : MarkSpawned(t, v, k)[w] = t[w]
           /\ DOMAIN MarkSpawned(t, v, k)[v] = DOMAIN t[v]
           /\ \A j \in DOMAIN t[v] :
                /\ MarkSpawned(t, v, k)[v][j].id = t[v][j].id
                /\ MarkSpawned(t, v, k)[v][j].spawned = (t[v][j].spawned \/ j = k)
                /\ MarkSpawned(t, v, k)[v][j].listed = t[v][j].listed
<1> DEFINE e == [t[v][k] EXCEPT !.spawned = TRUE]
           r == [t[v] EXCEPT ![k] = e]
<1>1. t[v] \in Seq(Entry) /\ \A j \in DOMAIN t[v] : t[v][j] \in Entry OBVIOUS
<1>2. \A j \in DOMAIN t[v] : t[v][j].listed \in BOOLEAN /\ t[v][j].spawned \in BOOLEAN BY <1>1 DEF Entry
<1>3. e \in Entry /\ e.id = t[v][k].id /\ e.spawned = TRUE /\ e.listed = t[v][k].listed
  BY <1>1 DEF Entry
<1>4. MarkSpawned(t, v, k) = [t EXCEPT ![v] = r] BY DEF MarkSpawned
<1> HIDE DEF e
<1>5. r \in Seq(Entry) /\ DOMAIN r = DOMAIN t[v] /\ r[k] = e
      /\ \A j \in DOMAIN t[v] : j # k => r[j] = t[v][j]
  BY <1>1, <1>3
<1> HIDE DEF r
<1>6. /\ MarkSpawned(t, v, k) \in [Conn -> Seq(Entry)] /\ MarkSpawned(t, v, k)[v] = r
      /\ \A w \in Conn \ {v} : MarkSpawned(t, v, k)[w] = t[w]
  BY <1>4, <1>5
<1>7. \A j \in DOMAIN t[v] : /\ r[j].id = t[v][j].id /\ r[j].listed = t[v][j].listed
                             /\ r[j].spawned = (t[v][j].spawned \/ j = k)
  <2>1. \A j \in DOMAIN t[v] : j # k => r[j] = t[v][j] BY <1>5
  <2>2. r[k] = e BY <1>5
  <2> QED BY <1>2, <1>3, <2>1, <2>2
<1> QED BY <1>5, <1>6, <1>7

\* Listing a player for a viewer keeps them.
LEMMA ListHolds ==
    ASSUME Base, List
    PROVE  Base'
<1> DEFINE v == Viewer(turn)
           s == Subject(turn)
<1>1. /\ tickPc = "list" /\ tickPc' = "show" /\ held.at # 0
      /\ UNCHANGED << nextId, id, conns, phase, freed, ground, drops, lock, netPc, netConn, netId, told,
                      snapshot, walker, hand, dead, turn >>
  BY DEF List, Base, TickInv, netVars
<1>2. v \in Conn /\ s \in Conn /\ held.at \in Nat BY <1>1, PairAtHand
<1>3. table \in [Conn -> Seq(Entry)] /\ table[v] \in Seq(Entry) BY <1>2 DEF Base, TypeOK
<1>4. table' \in [Conn -> Seq(Entry)]
  <2>1. CASE held.at <= Len(table[v])
    <3>1. held.at \in DOMAIN table[v] BY <1>1, <1>2, <1>3, <2>1
    <3>2. table' = MarkListed(table, v, held.at) BY <2>1 DEF List, MarkListed
    <3> DEFINE k == held.at
    <3> HIDE DEF v, s, k
    <3>3. k \in DOMAIN table[v] /\ table' = MarkListed(table, v, k)
      BY <3>1, <3>2 DEF k
    <3> QED BY <1>2, <1>3, <3>3, MarkedListed
  <2>2. CASE ~(held.at <= Len(table[v])) BY <1>3, <2>2 DEF List
  <2> QED BY <2>1, <2>2
<1>5. tab' \in [Conn -> SUBSET Conn]
  <2>1. tab \in [Conn -> SUBSET Conn] /\ tab[v] \cup {s} \in SUBSET Conn BY <1>2 DEF Base, TypeOK
  <2>2. tab' = tab \/ tab' = [tab EXCEPT ![v] = tab[v] \cup {s}] BY DEF List
  <2> DEFINE S == tab[v] \cup {s}
  <2> HIDE DEF S, v, s
  <2>3. S \in SUBSET Conn /\ (tab' = tab \/ tab' = [tab EXCEPT ![v] = S]) BY <2>1, <2>2 DEF S
  <2> QED BY <1>2, <2>1, <2>3
<1>6. held' = [held EXCEPT !.listed = TRUE] BY DEF List
<1>7. held' \in [at : Nat, listed : BOOLEAN, spawned : BOOLEAN] /\ held'.at = held.at
  BY <1>6 DEF Base, TypeOK
<1>8. strayed' \in {strayed, strayed \cup {<< v, s >>}} /\ forgot' = forgot \ {<< v, s >>}
  BY DEF List, Strayed
<1> HIDE DEF v, s
<1>9. << v, s >> \in Conn \X Conn BY <1>2
<1>10. strayed' \subseteq Conn \X Conn /\ forgot' \subseteq Conn \X Conn
  BY <1>8, <1>9 DEF Base, TypeOK
<1>11. TypeOK'
  <2>1. ServerTypes' BY TypeParts DEF Base, ServerTypes, List, serverVars
  <2>2. ShownTypes' BY <1>4, <1>5, TypeParts DEF Base, ShownTypes, List, serverVars, clientVars
  <2>3. NetTypes' BY TypeParts DEF Base, NetTypes, List, netVars
  <2>4. TickTypes' BY <1>1, <1>7, TypeParts DEF Base, TickTypes, List, tickVars
  <2>5. HistoryTypes' BY <1>10, TypeParts DEF Base, HistoryTypes, List, historyVars
  <2> QED BY <2>1, <2>2, <2>3, <2>4, <2>5, TypesTogether
<1>12. Have' = Have BY <1>1 DEF Have
<1>13. NumberInv' BY <1>1, <1>12 DEF Base, NumberInv, Given
<1>14. NetInv' BY <1>1 DEF Base, NetInv, Listed
<1>15. ListInv' BY <1>1 DEF Base, ListInv
<1>16. TickInv' BY <1>1, <1>7 DEF Base, TickInv, Viewer, Subject
<1> QED BY <1>11, <1>13, <1>14, <1>15, <1>16 DEF Base

\* Showing a player to a viewer keeps them.
LEMMA ShowHolds ==
    ASSUME Base, Show
    PROVE  Base'
<1> DEFINE v == Viewer(turn)
           s == Subject(turn)
<1>1. /\ tickPc = "show" /\ tickPc' = "sync" /\ held.at # 0 /\ held' = NoEntry /\ turn' = turn + 1
      /\ UNCHANGED << nextId, id, conns, phase, freed, ground, drops, lock, netPc, netConn, netId, told,
                      snapshot, walker, hand, dead >>
  BY DEF Show, Base, TickInv, netVars
<1>2. v \in Conn /\ s \in Conn /\ held.at \in Nat /\ id[s] \in Ids BY <1>1, PairAtHand
<1>3. table \in [Conn -> Seq(Entry)] /\ table[v] \in Seq(Entry) BY <1>2 DEF Base, TypeOK
<1>4. table' \in [Conn -> Seq(Entry)]
  <2>1. CASE held.at <= Len(table[v])
    <3>1. held.at \in DOMAIN table[v] BY <1>1, <1>2, <1>3, <2>1
    <3>2. table' = MarkSpawned(table, v, held.at) BY <2>1 DEF Show, MarkSpawned
    <3> DEFINE k == held.at
    <3> HIDE DEF v, s, k
    <3>3. k \in DOMAIN table[v] /\ table' = MarkSpawned(table, v, k)
      BY <3>1, <3>2 DEF k
    <3> QED BY <1>2, <1>3, <3>3, MarkedSpawned
  <2>2. CASE ~(held.at <= Len(table[v])) BY <1>3, <2>2 DEF Show
  <2> QED BY <2>1, <2>2
<1>5. seen' \in [Conn -> [Ids -> Shown]]
  <2>1. seen \in [Conn -> [Ids -> Shown]] /\ Player(s) \in Shown
    BY <1>2 DEF Base, TypeOK, Player, Shown
  <2>2. seen' = seen \/ seen' = [seen EXCEPT ![v][id[s]] = Player(s)] BY DEF Show
  <2> DEFINE i == id[s]
             w == Player(s)
  <2>3. i \in Ids /\ w \in Shown /\ (seen' = seen \/ seen' = [seen EXCEPT ![v][i] = w]) BY <1>2, <2>1, <2>2
  <2> HIDE DEF v, s, i, w
  <2> QED BY <1>2, <2>1, <2>3
<1>6. held' \in [at : Nat, listed : BOOLEAN, spawned : BOOLEAN] /\ held'.at = 0
  BY <1>1 DEF NoEntry
<1>7. turn' \in Nat /\ turn' # 0 BY <1>1 DEF Base, TypeOK
<1>8. strayed' \in {strayed, strayed \cup {<< v, s >>}} BY DEF Show, Strayed
<1> HIDE DEF v, s
<1>9. << v, s >> \in Conn \X Conn BY <1>2
<1>10. strayed' \subseteq Conn \X Conn BY <1>8, <1>9 DEF Base, TypeOK
<1>11. TypeOK'
  <2>1. ServerTypes' BY TypeParts DEF Base, ServerTypes, Show, serverVars
  <2>2. ShownTypes' BY <1>4, <1>5, TypeParts DEF Base, ShownTypes, Show, serverVars, clientVars
  <2>3. NetTypes' BY TypeParts DEF Base, NetTypes, Show, netVars
  <2>4. TickTypes' BY <1>1, <1>6, <1>7, TypeParts DEF Base, TickTypes, Show, tickVars
  <2>5. HistoryTypes' BY <1>10, TypeParts DEF Base, HistoryTypes, Show, historyVars
  <2> QED BY <2>1, <2>2, <2>3, <2>4, <2>5, TypesTogether
<1>12. Have' = Have BY <1>1 DEF Have
<1>13. NumberInv' BY <1>1, <1>12 DEF Base, NumberInv, Given
<1>14. NetInv' BY <1>1 DEF Base, NetInv, Listed
<1>15. ListInv' BY <1>1 DEF Base, ListInv
<1>16. TickInv' BY <1>1, <1>6, <1>7 DEF Base, TickInv
<1> QED BY <1>11, <1>13, <1>14, <1>15, <1>16 DEF Base

\* The end of the sync loop keeps them.
LEMMA SyncDoneHolds ==
    ASSUME Base, SyncDone
    PROVE  Base'
<1>1. /\ tickPc = "sync" /\ tickPc' = "clear" /\ held.at = 0 /\ turn' = 1
      /\ UNCHANGED << nextId, id, conns, phase, freed, ground, drops, lock, netPc, netConn, netId, told,
                      snapshot, walker, hand, dead, held >>
  BY DEF SyncDone, Base, TickInv, netVars, serverVars
<1>2. TypeOK'
  <2>1. ServerTypes' BY TypeParts DEF Base, ServerTypes, SyncDone, serverVars
  <2>2. ShownTypes' BY TypeParts DEF Base, ShownTypes, SyncDone, serverVars, clientVars
  <2>3. NetTypes' BY TypeParts DEF Base, NetTypes, SyncDone, netVars
  <2>4. TickTypes' BY TypeParts DEF Base, TickTypes, SyncDone, tickVars
  <2>5. HistoryTypes' BY TypeParts DEF Base, HistoryTypes, SyncDone, historyVars
  <2> QED BY <2>1, <2>2, <2>3, <2>4, <2>5, TypesTogether
<1>3. Have' = Have BY <1>1 DEF Have
<1>4. NumberInv' BY <1>1, <1>3 DEF Base, NumberInv, Given
<1>5. NetInv' BY <1>1 DEF Base, NetInv, Listed
<1>6. ListInv' BY <1>1 DEF Base, ListInv
<1>7. TickInv' BY <1>1 DEF Base, TickInv
<1> QED BY <1>2, <1>4, <1>5, <1>6, <1>7 DEF Base

\* conn_snapshot_clear keeps them.
LEMMA ClearHolds ==
    ASSUME Base, Clear
    PROVE  Base'
<1> DEFINE gone == {c \in Range(snapshot) : ~Listed(c) /\ netConn # c}
<1>1. /\ tickPc = "clear" /\ tickPc' = "tasks" /\ snapshot' = << >> /\ held.at = 0
      /\ UNCHANGED << nextId, id, conns, phase, ground, drops, lock, netPc, netConn, netId, told,
                      walker, hand, dead, held, turn >>
  BY DEF Clear, Base, TickInv, netVars
<1>2. gone \in SUBSET Conn BY Members DEF Base
<1>3. /\ freed' \subseteq Conn /\ table' \in [Conn -> Seq(Entry)]
      /\ seen' \in [Conn -> [Ids -> Shown]] /\ tab' \in [Conn -> SUBSET Conn]
  BY <1>2, FreeTypes DEF Base, Clear
<1>4. freed' = freed \cup gone BY DEF Clear, Free
<1>5. \A c \in gone : phase[c] # "none" /\ ~Listed(c) /\ c # netConn BY DEF Base, ListInv
<1> HIDE DEF gone
<1>6. TypeOK'
  <2>1. ServerTypes' BY <1>3, TypeParts DEF Base, ServerTypes, Clear, serverVars
  <2>2. ShownTypes' BY <1>3, TypeParts DEF Base, ShownTypes, Clear, serverVars, clientVars
  <2>3. NetTypes' BY TypeParts DEF Base, NetTypes, Clear, netVars
  <2>4. TickTypes' BY <1>1, TypeParts DEF Base, TickTypes, Clear, tickVars
  <2>5. HistoryTypes' BY TypeParts DEF Base, HistoryTypes, Clear, historyVars
  <2> QED BY <2>1, <2>2, <2>3, <2>4, <2>5, TypesTogether
<1>7. Have' = Have BY <1>1 DEF Have
<1>8. NumberInv' BY <1>1, <1>7 DEF Base, NumberInv, Given
<1>9. NetInv' BY <1>1, <1>4, <1>5 DEF Base, NetInv, Listed
<1>10. ListInv' BY <1>1, <1>4, <1>5 DEF Base, ListInv, Listed, Range
<1>11. TickInv' BY <1>1 DEF Base, TickInv
<1> QED BY <1>6, <1>8, <1>9, <1>10, <1>11 DEF Base

\* Every step of the tick thread.
LEMMA TickHolds == ASSUME Base, Tick PROVE Base'
BY JoinHolds, ConfirmHolds, FailHolds, DropHolds, DieHolds, RespawnHolds, SpawnedHolds, SnapshotHolds,
   TurnHolds, CountedHolds, WalkHolds, ItemsStartHolds, ItemTickHolds, ItemsDoneHolds, SyncHolds,
   ListHolds, ShowHolds, SyncDoneHolds, ClearHolds
DEF Tick, Packet

\* Nothing of it depends on more than the variables.
LEMMA BaseFrame == ASSUME Base, UNCHANGED vars PROVE Base'
<1>1. TypeOK'
  <2>1. ServerTypes' BY TypeParts DEF Base, ServerTypes, serverVars, vars
  <2>2. ShownTypes' BY TypeParts DEF Base, ShownTypes, serverVars, clientVars, vars
  <2>3. NetTypes' BY TypeParts DEF Base, NetTypes, netVars, vars
  <2>4. TickTypes' BY TypeParts DEF Base, TickTypes, tickVars, vars
  <2>5. HistoryTypes' BY TypeParts DEF Base, HistoryTypes, historyVars, vars
  <2> QED BY <2>1, <2>2, <2>3, <2>4, <2>5, TypesTogether
<1>2. UNCHANGED << id, nextId, netId, hand, drops, phase, lock, tickPc, snapshot, held, walker, conns, freed,
                   netPc, netConn, told, ground, turn, dead >>
  BY DEF vars, serverVars, netVars, tickVars
<1>3. Have' = Have BY <1>2 DEF Have
<1>4. NumberInv' BY <1>2, <1>3 DEF Base, NumberInv, Given
<1>5. NetInv' BY <1>2 DEF Base, NetInv, Listed
<1>6. ListInv' BY <1>2 DEF Base, ListInv
<1>7. TickInv' BY <1>2 DEF Base, TickInv, Viewer, Subject
<1> QED BY <1>1, <1>4, <1>5, <1>6, <1>7 DEF Base

\* And so of every step.
LEMMA BaseHolds == ASSUME Base, [Next]_vars PROVE Base'
BY NetHolds, TickHolds, BaseFrame DEF Next

-----------------------------------------------------------------------------
(* The beginning.                                                          *)

\* Those who are there have the first numbers, in the order of their coming,
\* and know each other.
LEMMA Beginning ==
    ASSUME Init
    PROVE  /\ Have = Veterans /\ nextId = Cardinality(Veterans) + 1 /\ Cardinality(Veterans) \in Nat
           /\ id \in [Conn -> 0 .. Cardinality(Veterans)]
           /\ \A c \in Conn : id[c] # 0 <=> c \in Veterans
           /\ \A c, d \in Veterans : id[c] = id[d] => c = d
           /\ conns \in Seq(Conn) /\ IsInjective(conns) /\ Range(conns) = Veterans
           /\ table \in [Conn -> Seq(Entry)]
           /\ \A v \in Conn \ Veterans : table[v] = << >>
           /\ \A v \in Veterans :
                /\ \A k \in DOMAIN table[v] : /\ table[v][k].listed /\ table[v][k].spawned
                                              /\ \E s \in Veterans \ {v} : table[v][k].id = id[s]
                /\ \A s \in Veterans \ {v} : \E k \in DOMAIN table[v] : table[v][k].id = id[s]
                /\ \A k, l \in DOMAIN table[v] : table[v][k].id = table[v][l].id => k = l
           /\ seen \in [Conn -> [Ids -> Shown]]
           /\ \A v \in Conn, i \in Ids : seen[v][i] # Nothing =>
                /\ v \in Veterans /\ \E s \in Veterans \ {v} : id[s] = i /\ seen[v][i] = Player(s)
           /\ \A v \in Veterans : \A s \in Veterans \ {v} : seen[v][id[s]] = Player(s)
           /\ \A v \in Conn : tab[v] = IF v \in Veterans THEN Veterans \ {v} ELSE {}
<1>1. PICK order \in SetToSeqs(Veterans) :
        LET number(c) == CHOOSE i \in DOMAIN order : order[i] = c
            known(v) == RemoveFirst(order, v)
        IN
        /\ nextId = Len(order) + 1
        /\ id = [c \in Conn |-> IF c \in Veterans THEN number(c) ELSE 0]
        /\ conns = Reverse(order)
        /\ table = [v \in Conn |-> IF v \in Veterans
                       THEN [i \in DOMAIN known(v) |->
                               [id |-> number(known(v)[i]), listed |-> TRUE, spawned |-> TRUE]]
                       ELSE << >>]
        /\ seen = [v \in Conn |-> [i \in Ids |->
                       IF v \in Veterans /\ i \in DOMAIN order /\ order[i] # v
                       THEN Player(order[i]) ELSE Nothing]]
        /\ tab = [v \in Conn |-> IF v \in Veterans THEN Veterans \ {v} ELSE {}]
  BY DEF Init
<1> DEFINE n == Cardinality(Veterans)
           number == [c \in Veterans |-> CHOOSE i \in DOMAIN order : order[i] = c]
           known == [v \in Veterans |-> RemoveFirst(order, v)]
<1>2. IsFiniteSet(Veterans) /\ Veterans \subseteq Conn BY FS_Subset
<1>3. /\ order \in Seq(Veterans) /\ IsInjective(order) /\ Range(order) = Veterans /\ Len(order) = n
  BY <1>2, OrderOfAll
<1>4. n \in Nat /\ DOMAIN order = 1 .. n /\ \A i \in 1 .. n : order[i] \in Veterans BY <1>3
<1>5. n <= Cardinality(Conn) /\ Cardinality(Conn) \in Nat BY FS_Subset, FS_CardinalityType
<1>6. \A c \in Veterans : number[c] \in 1 .. n /\ order[number[c]] = c
  <2>1. SUFFICES ASSUME NEW c \in Veterans PROVE number[c] \in 1 .. n /\ order[number[c]] = c OBVIOUS
  <2>2. \E i \in DOMAIN order : order[i] = c BY <1>3 DEF Range
  <2>3. number[c] = CHOOSE i \in DOMAIN order : order[i] = c OBVIOUS
  <2> QED BY <1>4, <2>2, <2>3
<1>7. \A i \in 1 .. n : number[order[i]] = i
  <2>1. SUFFICES ASSUME NEW i \in 1 .. n PROVE number[order[i]] = i OBVIOUS
  <2>2. order[i] \in Veterans BY <1>4
  <2>3. number[order[i]] \in 1 .. n /\ order[number[order[i]]] = order[i] BY <1>6, <2>2
  <2> HIDE DEF number
  <2> QED BY <1>3, <1>4, <2>3 DEF IsInjective
<1>8. 1 .. n \subseteq Ids BY <1>4, <1>5 DEF Ids
<1>9. /\ id \in [Conn -> {id[c] : c \in Conn}] /\ nextId = n + 1 /\ conns = Reverse(order)
      /\ \A c \in Conn : id[c] = IF c \in Veterans THEN number[c] ELSE 0
      /\ \A v \in Veterans : table[v] = [i \in DOMAIN known[v] |->
                             [id |-> number[known[v][i]], listed |-> TRUE, spawned |-> TRUE]]
      /\ \A v \in Conn \ Veterans : table[v] = << >>
      /\ DOMAIN table = Conn /\ table = [v \in Conn |-> table[v]]
      /\ seen = [v \in Conn |-> [i \in Ids |->
                     IF v \in Veterans /\ i \in DOMAIN order /\ order[i] # v
                     THEN Player(order[i]) ELSE Nothing]]
      /\ tab = [v \in Conn |-> IF v \in Veterans THEN Veterans \ {v} ELSE {}]
  <2>1. nextId = n + 1 /\ conns = Reverse(order) BY <1>1, <1>3
  <2>2. \A c \in Veterans : number[c] = CHOOSE i \in DOMAIN order : order[i] = c OBVIOUS
  <2>3. id = [c \in Conn |-> IF c \in Veterans THEN CHOOSE i \in DOMAIN order : order[i] = c ELSE 0]
    BY <1>1
  <2>4. id \in [Conn -> {id[c] : c \in Conn}] /\ \A c \in Conn : id[c] = IF c \in Veterans THEN number[c] ELSE 0
    <3> HIDE DEF number
    <3> QED BY <2>2, <2>3
  <2>5. table = [v \in Conn |-> IF v \in Veterans
                     THEN [i \in DOMAIN RemoveFirst(order, v) |->
                             [id |-> CHOOSE j \in DOMAIN order : order[j] = RemoveFirst(order, v)[i],
                              listed |-> TRUE, spawned |-> TRUE]]
                     ELSE << >>]
    BY <1>1
  <2>6. \A v \in Veterans : known[v] = RemoveFirst(order, v) /\ known[v] \in Seq(Veterans)
    BY <1>3, RemoveList
  <2>7. ASSUME NEW v \in Veterans
        PROVE  table[v] = [i \in DOMAIN known[v] |->
                             [id |-> number[known[v][i]], listed |-> TRUE, spawned |-> TRUE]]
    <3>1. \A i \in DOMAIN known[v] : known[v][i] \in Veterans BY <2>6
    <3>2. \A i \in DOMAIN known[v] :
            number[known[v][i]] = CHOOSE j \in DOMAIN order : order[j] = known[v][i]
      BY <2>2, <3>1
    <3> HIDE DEF number, known
    <3>3. table[v] = [i \in DOMAIN known[v] |->
                        [id |-> CHOOSE j \in DOMAIN order : order[j] = known[v][i],
                         listed |-> TRUE, spawned |-> TRUE]]
      BY <1>2, <2>5, <2>6
    <3> QED BY <3>2, <3>3
  <2>8. DOMAIN table = Conn /\ table = [v \in Conn |-> table[v]] /\ \A v \in Conn \ Veterans : table[v] = << >>
    BY <2>5
  <2> QED BY <1>1, <2>1, <2>4, <2>7, <2>8
<1>10. Have = Veterans BY <1>2 DEF Have, Init
<1>11. /\ \A v \in Veterans : /\ known[v] = RemoveFirst(order, v) /\ known[v] \in Seq(Veterans) /\ IsInjective(known[v])
                              /\ Range(known[v]) = Veterans \ {v}
  BY <1>3, RemoveList
<1> HIDE DEF number, known
<1>12. \A c \in Veterans : id[c] = number[c] BY <1>2, <1>9
<1>13. /\ id \in [Conn -> 0 .. n] /\ \A c \in Conn : id[c] # 0 <=> c \in Veterans
       /\ \A c, d \in Veterans : id[c] = id[d] => c = d
  <2>1. \A c \in Veterans : number[c] \in 0 .. n /\ number[c] # 0 BY <1>4, <1>6
  <2>2. id \in [Conn -> 0 .. n] BY <1>4, <1>9, <2>1
  <2>3. \A c, d \in Veterans : id[c] = id[d] => c = d BY <1>6, <1>12
  <2> QED BY <1>9, <2>1, <2>2, <2>3
<1>14. conns \in Seq(Conn) /\ IsInjective(conns) /\ Range(conns) = Veterans
  <2>1. conns = [i \in 1 .. n |-> order[(n - i) + 1]] BY <1>3, <1>9 DEF Reverse
  <2>2. \A i \in 1 .. n : (n - i) + 1 \in 1 .. n /\ (n - ((n - i) + 1)) + 1 = i BY <1>4
  <2>3. conns \in Seq(Conn) /\ DOMAIN conns = 1 .. n /\ \A i \in 1 .. n : conns[i] = order[(n - i) + 1]
    BY <1>2, <1>4, <2>1, <2>2
  <2>4. IsInjective(conns)
    <3>1. \A i, j \in 1 .. n : (n - i) + 1 = (n - j) + 1 => i = j BY <1>4
    <3> QED BY <1>3, <1>4, <2>2, <2>3, <3>1 DEF IsInjective
  <2>5. Range(conns) \subseteq Veterans BY <1>4, <2>2, <2>3 DEF Range
  <2>6. \A i \in 1 .. n : order[i] \in Range(conns)
    <3>1. \A i \in 1 .. n : conns[(n - i) + 1] = order[i] BY <2>2, <2>3
    <3> QED BY <2>2, <2>3, <3>1 DEF Range
  <2>7. Veterans \subseteq Range(conns) BY <1>3, <1>4, <2>6 DEF Range
  <2> QED BY <2>3, <2>4, <2>5, <2>7
<1>15. /\ table \in [Conn -> Seq(Entry)] /\ \A v \in Conn \ Veterans : table[v] = << >>
       /\ \A v \in Veterans :
            /\ table[v] \in Seq(Entry) /\ DOMAIN table[v] = DOMAIN known[v]
            /\ \A k \in DOMAIN known[v] :
                 table[v][k] = [id |-> number[known[v][k]], listed |-> TRUE, spawned |-> TRUE]
  <2>1. ASSUME NEW v \in Veterans
        PROVE  /\ table[v] \in Seq(Entry) /\ DOMAIN table[v] = DOMAIN known[v]
               /\ \A k \in DOMAIN known[v] :
                    table[v][k] = [id |-> number[known[v][k]], listed |-> TRUE, spawned |-> TRUE]
    <3>1. table[v] = [i \in DOMAIN known[v] |->
                        [id |-> number[known[v][i]], listed |-> TRUE, spawned |-> TRUE]]
      BY <1>2, <1>9
    <3>2. DOMAIN known[v] = 1 .. Len(known[v]) /\ Len(known[v]) \in Nat
          /\ \A k \in DOMAIN known[v] : known[v][k] \in Veterans
      BY <1>11
    <3>3. \A k \in DOMAIN known[v] : number[known[v][k]] \in Ids BY <1>6, <1>8, <3>2
    <3>4. \A k \in DOMAIN known[v] :
            [id |-> number[known[v][k]], listed |-> TRUE, spawned |-> TRUE] \in Entry
      BY <3>3 DEF Entry
    <3> QED BY <3>1, <3>2, <3>4
  <2>2. \A v \in Conn \ Veterans : table[v] = << >> BY <1>9
  <2>3. << >> \in Seq(Entry) OBVIOUS
  <2>4. table \in [Conn -> Seq(Entry)]
    <3>1. \A v \in Conn : table[v] \in Seq(Entry) BY <2>1, <2>2, <2>3
    <3>2. table = [v \in Conn |-> table[v]] BY <1>9
    <3> QED BY <3>1, <3>2
  <2> QED BY <2>1, <2>2, <2>4
<1>16. ASSUME NEW v \in Veterans
       PROVE  /\ \A k \in DOMAIN table[v] : /\ table[v][k].listed /\ table[v][k].spawned
                                            /\ \E s \in Veterans \ {v} : table[v][k].id = id[s]
              /\ \A s \in Veterans \ {v} : \E k \in DOMAIN table[v] : table[v][k].id = id[s]
              /\ \A k, l \in DOMAIN table[v] : table[v][k].id = table[v][l].id => k = l
  <2>1. \A k \in DOMAIN table[v] : /\ k \in DOMAIN known[v] /\ table[v][k].listed /\ table[v][k].spawned
                                   /\ known[v][k] \in Veterans \ {v} /\ table[v][k].id = id[known[v][k]]
    <3>1. SUFFICES ASSUME NEW k \in DOMAIN table[v]
                   PROVE  /\ k \in DOMAIN known[v] /\ table[v][k].listed /\ table[v][k].spawned
                          /\ known[v][k] \in Veterans \ {v} /\ table[v][k].id = id[known[v][k]]
      OBVIOUS
    <3>2. k \in DOMAIN known[v] BY <1>15
    <3>3. known[v][k] \in Veterans \ {v} BY <1>11, <3>2 DEF Range
    <3>4. table[v][k] = [id |-> number[known[v][k]], listed |-> TRUE, spawned |-> TRUE] BY <1>15, <3>2
    <3> QED BY <1>12, <3>2, <3>3, <3>4
  <2>2. \A s \in Veterans \ {v} : \E k \in DOMAIN known[v] : known[v][k] = s BY <1>11 DEF Range
  <2>3. \A k, l \in DOMAIN table[v] : table[v][k].id = table[v][l].id => k = l
    BY <1>11, <1>13, <2>1 DEF IsInjective
  <2>4. \A s \in Veterans \ {v} : \E k \in DOMAIN table[v] : table[v][k].id = id[s]
    <3>1. DOMAIN table[v] = DOMAIN known[v] BY <1>15
    <3> QED BY <2>1, <2>2, <3>1
  <2> QED BY <2>1, <2>3, <2>4
<1>17. /\ seen \in [Conn -> [Ids -> Shown]]
       /\ \A v \in Conn, i \in Ids : seen[v][i] # Nothing =>
            /\ v \in Veterans /\ \E s \in Veterans \ {v} : id[s] = i /\ seen[v][i] = Player(s)
       /\ \A v \in Veterans : \A s \in Veterans \ {v} : seen[v][id[s]] = Player(s)
  <2>1. \A v \in Conn, i \in Ids : seen[v][i] = IF v \in Veterans /\ i \in 1 .. n /\ order[i] # v
                                                THEN Player(order[i]) ELSE Nothing
    BY <1>4, <1>9
  <2>2. \A i \in 1 .. n : Player(order[i]) \in Shown /\ id[order[i]] = i /\ order[i] \in Veterans
    BY <1>2, <1>4, <1>7, <1>12 DEF Player, Shown
  <2>3. Nothing \in Shown BY DEF Shown
  <2>4. \A v \in Conn : seen[v] \in [Ids -> Shown]
    <3>1. SUFFICES ASSUME NEW v \in Conn PROVE seen[v] \in [Ids -> Shown] OBVIOUS
    <3>2. seen[v] = [i \in Ids |-> IF v \in Veterans /\ i \in DOMAIN order /\ order[i] # v
                                   THEN Player(order[i]) ELSE Nothing]
      BY <1>9
    <3> QED BY <1>4, <2>2, <2>3, <3>2
  <2>5. seen = [v \in Conn |-> seen[v]] BY <1>9
  <2>6. seen \in [Conn -> [Ids -> Shown]] BY <2>4, <2>5
  <2>7. \A s \in Veterans : id[s] \in 1 .. n /\ order[id[s]] = s BY <1>6, <1>12
  <2> QED BY <1>2, <1>8, <2>1, <2>2, <2>6, <2>7
<1> QED BY <1>2, <1>4, <1>9, <1>10, <1>13, <1>14, <1>15, <1>16, <1>17

\* Types and control hold at the beginning.
LEMMA BaseBegins == ASSUME Init PROVE Base
<1> USE DEF Init
<1> DEFINE n == Cardinality(Veterans)
<1>1. Cardinality(Veterans) <= Cardinality(Conn) /\ Cardinality(Conn) \in Nat
  BY FS_Subset, FS_CardinalityType
<1>2. /\ Have = Veterans /\ nextId = n + 1 /\ n \in Nat /\ id \in [Conn -> 0 .. n]
      /\ \A c \in Conn : id[c] # 0 <=> c \in Veterans
      /\ conns \in Seq(Conn) /\ IsInjective(conns) /\ Range(conns) = Veterans
      /\ table \in [Conn -> Seq(Entry)] /\ seen \in [Conn -> [Ids -> Shown]]
      /\ \A v \in Conn : tab[v] = IF v \in Veterans THEN Veterans \ {v} ELSE {}
  BY Beginning
<1>3. 0 .. n \subseteq Ids \cup {0} BY <1>1, <1>2 DEF Ids
<1>4. id \in [Conn -> Ids \cup {0}]
  <2> HIDE DEF n
  <2>1. id \in [Conn -> 0 .. n] BY <1>2
  <2> DEFINE T == Ids \cup {0}
             R == 0 .. n
  <2>2. id \in [Conn -> R] /\ R \subseteq T BY <1>3, <2>1
  <2> HIDE DEF T, R
  <2>3. id \in [Conn -> T] BY <2>2
  <2> QED BY <2>3 DEF T
<1>5. tab \in [Conn -> SUBSET Conn]
  <2>1. tab = [v \in Conn |-> IF v \in Veterans THEN Veterans \ {v} ELSE {}] OBVIOUS
  <2> QED BY <2>1
<1>6. ServerTypes
  <2>1. nextId - 1 \in Ids \cup {0} BY <1>2, <1>3
  <2> QED BY <1>2, <1>4, <2>1 DEF ServerTypes
<1>7. ShownTypes BY <1>2, <1>5 DEF ShownTypes
<1>8. NetTypes BY DEF NetTypes
<1>9. TickTypes BY DEF TickTypes, NoEntry
<1>10. HistoryTypes BY DEF HistoryTypes
<1>11. NumberInv
  <2>1. Given = n BY <1>2 DEF Given
  <2> QED BY <1>2, <2>1 DEF NumberInv
<1>12. NetInv BY DEF NetInv, NoId
<1>13. ListInv BY <1>2 DEF ListInv, Range
<1>14. TickInv BY DEF TickInv, NoEntry, NoId
<1> QED BY <1>6, <1>7, <1>8, <1>9, <1>10, <1>11, <1>12, <1>13, <1>14, TypeParts DEF Base

\* Every reachable state has the declared shape, for any connections, drops,
\* deaths and goods: no number is given that the room for them has not
\* (next_entity_id, also where it is lost to a race), every index into a table,
\* a list or the snapshot is one (TypeOK).
THEOREM EntitiesTypeCorrect == Spec => []TypeOK
<1>1. Init => Base BY BaseBegins
<1>2. Base /\ [Next]_vars => Base' BY BaseHolds
<1>3. Base => TypeOK BY DEF Base
<1> QED BY <1>1, <1>2, <1>3, PTL DEF Spec

-----------------------------------------------------------------------------
(* Entity numbers.                                                         *)

\* i was given before n and before the numbers a and b that are being given.
Before(i, n, a, b) == i < n /\ (a # NoId => i < a) /\ (b # NoId => i < b)

\* Numbers not given in a race differ, and no later one can be one of them.
Fresh ==
    /\ \A c \in Have \ raced : Before(id[c], nextId, netId, hand)
    /\ \A k \in DOMAIN ground : ground[k].item \notin raced => Before(ground[k].id, nextId, netId, hand)
    /\ \A c, d \in Have \ raced : id[c] = id[d] => c = d
    /\ \A k, l \in DOMAIN ground :
         ground[k].item \notin raced /\ ground[l].item \notin raced /\ ground[k].id = ground[l].id => k = l
    /\ \A c \in Have \ raced, k \in DOMAIN ground : ground[k].item \notin raced => ground[k].id # id[c]

\* Items keep numbers and names while they lie there.
GroundKept ==
    \A k \in DOMAIN ground' : \E j \in DOMAIN ground :
        ground'[k].id = ground[j].id /\ ground'[k].item = ground[j].item

\* Taking the next number, and items that go.
LEMMA FreshFrame ==
    ASSUME Base, Fresh, NumberInv', UNCHANGED << id, nextId, raced >>, Have' = Have,
           netId' \in {netId, nextId}, hand' \in {hand, nextId}, GroundKept
    PROVE  Fresh'
<1>1. \A i : Before(i, nextId, netId, hand) => Before(i, nextId', netId', hand') BY DEF Before
<1>2. \A k \in DOMAIN ground' : \E j \in DOMAIN ground :
        ground'[k].id = ground[j].id /\ ground'[k].item = ground[j].item
  BY DEF GroundKept
<1>3. \A c \in (Have \ raced)' : Before(id'[c], nextId', netId', hand') BY <1>1 DEF Fresh
<1>4. \A k \in DOMAIN ground' : ground'[k].item \notin raced => Before(ground'[k].id, nextId', netId', hand')
  BY <1>1, <1>2 DEF Fresh
<1>5. \A k, l \in DOMAIN ground' :
        ground'[k].item \notin raced /\ ground'[l].item \notin raced /\ ground'[k].id = ground'[l].id => k = l
  <2>1. SUFFICES ASSUME NEW k \in DOMAIN ground', NEW l \in DOMAIN ground', ground'[k].item \notin raced,
                        ground'[l].item \notin raced, ground'[k].id = ground'[l].id
                 PROVE  k = l
    OBVIOUS
  <2>2. ground'[k].item = ground'[l].item BY <1>2, <2>1 DEF Fresh
  <2> QED BY <2>2 DEF NumberInv
<1>6. \A c \in Have \ raced, k \in DOMAIN ground' : ground'[k].item \notin raced => ground'[k].id # id[c]
  BY <1>2 DEF Fresh
<1> QED BY <1>3, <1>4, <1>5, <1>6 DEF Fresh

\* Who has a number changes when one is made.
LEMMA HaveSteps ==
    ASSUME Base, [Next]_vars
    PROVE  Numbered \/ Have' = Have
<1>1. CASE UNCHANGED vars BY <1>1 DEF Have, vars, serverVars, netVars
<1>2. ASSUME NEW c \in Conn, Number(c) PROVE Have' = Have
  BY <1>2 DEF Base, NetInv, Have, Number, serverVars
<1>3. ASSUME NEW c \in Conn, CloseConn(c) PROVE Have' = Have BY <1>3 DEF Have, CloseConn, serverVars
<1>4. CASE Link
  <2>1. netPc = "link" /\ netConn \in Conn /\ phase[netConn] = "none"
    BY <1>4 DEF Link, Base, NetInv, TypeOK
  <2> QED BY <1>4, <2>1 DEF Have, Link, Base, TypeOK, NetInv
<1>5. CASE Unsee BY <1>5 DEF Have, Unsee
<1>6. CASE Unlink BY <1>6 DEF Have, Unlink
<1>7. CASE Shut BY <1>7 DEF Have, Shut
<1>8. ASSUME NEW c \in Conn, Packet(c) PROVE Have' = Have
  <2>1. CASE Join(c)
    <3>1. phase[c] = "early" /\ phase' = [phase EXCEPT ![c] = "play"]
          /\ phase \in [Conn -> {"none", "early", "play", "ready"}]
      BY <2>1 DEF Join, Base, TypeOK
    <3>2. \A d \in Conn : phase'[d] = "none" <=> phase[d] = "none" BY <3>1
    <3> QED BY <2>1, <3>2 DEF Have, Join, netVars
  <2>2. CASE Confirm(c)
    <3>1. phase[c] = "play" /\ phase' = [phase EXCEPT ![c] = "ready"]
          /\ phase \in [Conn -> {"none", "early", "play", "ready"}]
      BY <2>2 DEF Confirm, Base, TypeOK
    <3>2. \A d \in Conn : phase'[d] = "none" <=> phase[d] = "none" BY <3>1
    <3> QED BY <2>2, <3>2 DEF Have, Confirm, netVars
  <2>3. CASE Fail(c) BY <2>3 DEF Have, Fail, netVars
  <2>4. CASE Drop(c) BY <2>4 DEF Have, Drop, netVars, serverVars
  <2>5. CASE Die(c) BY <2>5 DEF Have, Die, netVars
  <2>6. CASE Respawn(c) BY <2>6 DEF Have, Respawn, netVars
  <2> QED BY <1>8, <2>1, <2>2, <2>3, <2>4, <2>5, <2>6 DEF Packet
<1>9. CASE Spawned BY <1>9 DEF Have, Spawned, netVars
<1>10. CASE Snapshot BY <1>10 DEF Have, Snapshot, netVars, serverVars
<1>11. CASE Turn BY <1>11 DEF Have, Turn, netVars
<1>12. CASE Counted BY <1>12 DEF Have, Counted, netVars
<1>13. CASE Walk BY <1>13 DEF Have, Walk, netVars
<1>14. CASE ItemsStart BY <1>14 DEF Have, ItemsStart, netVars, serverVars
<1>15. CASE ItemTick BY <1>15 DEF Have, ItemTick, netVars
<1>16. CASE ItemsDone BY <1>16 DEF Have, ItemsDone, netVars, serverVars
<1>17. CASE Sync BY <1>17 DEF Have, Sync, netVars
<1>18. CASE List BY <1>18 DEF Have, List, netVars
<1>19. CASE Show BY <1>19 DEF Have, Show, netVars
<1>20. CASE SyncDone BY <1>20 DEF Have, SyncDone, netVars, serverVars
<1>21. CASE Clear BY <1>21 DEF Have, Clear, netVars
<1> QED BY <1>1, <1>2, <1>3, <1>4, <1>5, <1>6, <1>7, <1>8, <1>9, <1>10, <1>11, <1>12, <1>13, <1>14, <1>15,
           <1>16, <1>17, <1>18, <1>19, <1>20, <1>21 DEF Next, Net, Tick

\* The number conn_create writes, when nobody else was at it.
LEMMA NumberedFresh ==
    ASSUME Base, Fresh, Numbered
    PROVE  Fresh'
<1>1. /\ netPc = "number" /\ netConn \in Conn /\ netId # NoId /\ netConn \notin Have /\ netId \in Ids
      /\ netId' = NoId /\ nextId' = netId + 1 /\ id' = [id EXCEPT ![netConn] = netId]
      /\ raced' = (IF nextId # netId \/ hand # NoId THEN raced \cup {netConn} ELSE raced)
      /\ UNCHANGED << ground, hand >>
  BY DEF Numbered, Base, NetInv, TypeOK, Have, tickVars
<1>2. Have' = Have \cup {netConn}
  BY <1>1 DEF Have, Numbered
<1>3. Ids \subseteq Nat /\ Have \subseteq Conn /\ id \in [Conn -> Ids \cup {0}]
  <2>1. Ids \subseteq Nat BY NumbersSuffice DEF Base, TypeOK
  <2> QED BY <2>1 DEF Base, TypeOK, Have
<1>4. \A c \in Have : id'[c] = id[c] /\ id[c] \in Nat
  <2>1. \A c \in Have : id[c] \in Ids \cup {0} BY <1>3
  <2>2. \A c \in Have : id'[c] = id[c] BY <1>1, <1>3
  <2>3. Ids \cup {0} \subseteq Nat BY <1>3
  <2> QED BY <2>1, <2>2, <2>3
<1>5. \A k \in DOMAIN ground : ground[k].id \in Nat BY <1>3, GroundItems DEF Base
<1>6. \A i \in Nat : Before(i, nextId, netId, hand) => Before(i, nextId', netId', hand') BY <1>1, <1>3 DEF Before
<1>7. \A i \in Nat : Before(i, nextId, netId, hand) => i # netId BY <1>1, <1>3 DEF Before
<1>8. netConn \notin raced' => Before(netId, nextId', netId', hand') /\ hand = NoId BY <1>1, <1>3 DEF Before
<1>9. id'[netConn] = netId BY <1>1, <1>3
<1>10. raced \subseteq raced' BY <1>1
<1>11. \A c \in Have' \ raced' : c = netConn \/ c \in Have \ raced BY <1>2, <1>10
<1>12. \A c \in Have' \ raced' : Before(id'[c], nextId', netId', hand') BY <1>4, <1>6, <1>8, <1>9, <1>11 DEF Fresh
<1>13. \A k \in DOMAIN ground : ground[k].item \notin raced' => Before(ground'[k].id, nextId', netId', hand')
  BY <1>1, <1>5, <1>6, <1>10 DEF Fresh
<1>14. \A c, d \in Have' \ raced' : id'[c] = id'[d] => c = d
  <2>1. \A c \in Have \ raced : id'[c] # netId BY <1>4, <1>7 DEF Fresh
  <2> QED BY <1>4, <1>9, <1>11, <2>1 DEF Fresh
<1>15. \A c \in Have' \ raced', k \in DOMAIN ground : ground[k].item \notin raced' => ground[k].id # id'[c]
  <2>1. \A k \in DOMAIN ground : ground[k].item \notin raced => ground[k].id # netId
    BY <1>5, <1>7 DEF Fresh
  <2> QED BY <1>4, <1>9, <1>10, <1>11, <2>1 DEF Fresh
<1>16. \A k, l \in DOMAIN ground :
        ground[k].item \notin raced' /\ ground[l].item \notin raced' /\ ground[k].id = ground[l].id => k = l
  BY <1>10 DEF Fresh
<1> QED BY <1>1, <1>12, <1>13, <1>14, <1>15, <1>16 DEF Fresh

\* The number an item gets, when nobody else was at it.
LEMMA PlacedFresh ==
    ASSUME Base, Fresh, Placed, hand # NoId, UNCHANGED << id, netId, netPc >>, Have' = Have
    PROVE  Fresh'
<1> DEFINE n == Len(ground)
           new == drops + 1
<1>1. /\ hand \in Ids /\ nextId' = hand + 1 /\ hand' = NoId /\ n \in Nat
      /\ DOMAIN ground = 1 .. n /\ DOMAIN ground' = 1 .. n + 1
      /\ \A k \in DOMAIN ground : ground'[k] = ground[k]
      /\ ground'[n + 1] = [id |-> hand, item |-> new, left |-> Size]
  BY PlacedItem
<1>2. raced' = IF nextId # hand \/ netPc = "number" THEN raced \cup {new} ELSE raced BY DEF Placed
<1>3. Ids \subseteq Nat /\ Have \subseteq Conn /\ id \in [Conn -> Ids \cup {0}]
  <2>1. Ids \subseteq Nat BY NumbersSuffice DEF Base, TypeOK
  <2> QED BY <2>1 DEF Base, TypeOK, Have
<1>4. \A c \in Have : id[c] \in Nat
  <2>1. \A c \in Have : id[c] \in Ids \cup {0} BY <1>3
  <2>3. Ids \cup {0} \subseteq Nat BY <1>3
  <2> QED BY <2>1, <2>3
<1>5. \A k \in DOMAIN ground : ground[k].id \in Nat BY <1>3, GroundItems DEF Base
<1>6. \A i \in Nat : Before(i, nextId, netId, hand) => Before(i, nextId', netId', hand') /\ i # hand BY <1>1, <1>3 DEF Before
<1>7. new \notin raced' => Before(hand, nextId', netId', hand')
  <2>1. netPc # "number" => netId = NoId BY DEF Base, NetInv
  <2> QED BY <1>1, <1>2, <1>3, <2>1 DEF Before
<1>8. raced \subseteq raced' BY <1>2
<1>9. ground'[n + 1].id = hand /\ ground'[n + 1].item = new BY <1>1
<1>10. \A k \in DOMAIN ground' : k \in DOMAIN ground \/ k = n + 1 BY <1>1
<1> HIDE DEF n, new
<1>11. \A c \in Have \ raced' : Before(id'[c], nextId', netId', hand') BY <1>4, <1>6, <1>8 DEF Fresh
<1>12. \A k \in DOMAIN ground' : ground'[k].item \notin raced' => Before(ground'[k].id, nextId', netId', hand')
  BY <1>1, <1>5, <1>6, <1>7, <1>8, <1>9, <1>10 DEF Fresh
<1>13. \A k, l \in DOMAIN ground' :
        ground'[k].item \notin raced' /\ ground'[l].item \notin raced' /\ ground'[k].id = ground'[l].id => k = l
  <2>1. \A k \in DOMAIN ground : ground[k].item \notin raced => ground[k].id # hand
    BY <1>5, <1>6 DEF Fresh
  <2> QED BY <1>1, <1>8, <1>9, <1>10, <2>1 DEF Fresh
<1>14. \A c \in Have \ raced', k \in DOMAIN ground' : ground'[k].item \notin raced' => ground'[k].id # id[c]
  BY <1>1, <1>4, <1>6, <1>8, <1>9, <1>10 DEF Fresh
<1>15. \A c, d \in Have \ raced' : id[c] = id[d] => c = d BY <1>8 DEF Fresh
<1> QED BY <1>11, <1>12, <1>13, <1>14, <1>15 DEF Fresh

\* Every step.
LEMMA FreshHolds == ASSUME Base, Fresh, [Next]_vars PROVE Fresh'
<1>1. NumberInv' BY BaseHolds DEF Base
<1>2. ground' = ground => GroundKept BY DEF GroundKept
<1>3. CASE Numbered BY <1>3, NumberedFresh
<1>4. CASE Spawned \/ Counted
  <2>1. hand # NoId BY <1>4 DEF Spawned, Counted, Base, TickInv
  <2>2. Placed /\ UNCHANGED << id, netId, netPc >> BY <1>4 DEF Spawned, Counted, netVars
  <2>3. Have' = Have BY <1>4 DEF Have, Spawned, Counted, netVars
  <2> QED BY <2>1, <2>2, <2>3, PlacedFresh
<1>5. CASE ItemTick
  <2>1. GroundKept BY <1>5, FewerNumbers DEF GroundKept
  <2>2. UNCHANGED << id, nextId, raced, netId, hand, phase, netPc, netConn >> BY <1>5 DEF ItemTick, netVars
  <2>3. Have' = Have BY <2>2 DEF Have
  <2> QED BY <1>1, <2>1, <2>2, <2>3, FreshFrame
<1>6. CASE ~(Numbered \/ Spawned \/ Counted \/ ItemTick)
  <2>1. Have' = Have BY <1>6, HaveSteps
  <2>2. /\ UNCHANGED << id, nextId, raced, ground >> /\ netId' \in {netId, nextId} /\ hand' \in {hand, nextId}
    <3>1. CASE UNCHANGED vars BY <3>1 DEF vars, serverVars, netVars, tickVars, historyVars
    <3>2. CASE Net
      BY <1>6, <3>2 DEF Net, Number, CloseConn, Link, Unsee, Unlink, Shut, serverVars, tickVars, historyVars
    <3>3. ASSUME NEW c \in Conn, Packet(c)
          PROVE  /\ UNCHANGED << id, nextId, raced, ground >> /\ netId' = netId /\ hand' \in {hand, nextId}
      BY <3>3 DEF Packet, Join, Confirm, Fail, Drop, Die, Respawn, serverVars, netVars, tickVars, historyVars
    <3>4. CASE Snapshot \/ Turn \/ Walk \/ ItemsStart \/ ItemsDone
      BY <3>4 DEF Snapshot, Turn, Walk, ItemsStart, ItemsDone, serverVars, netVars, historyVars
    <3>5. CASE Sync \/ List \/ Show \/ SyncDone \/ Clear
      BY <3>5 DEF Sync, List, Show, SyncDone, Clear, serverVars, netVars, historyVars
    <3> QED BY <1>6, <3>1, <3>2, <3>3, <3>4, <3>5 DEF Next, Tick
  <2> QED BY <1>1, <1>2, <2>1, <2>2, FreshFrame
<1> QED BY <1>3, <1>4, <1>5, <1>6

\* The numbers of those who are there at the beginning differ.
LEMMA FreshBegins == ASSUME Init PROVE Fresh
<1>1. /\ Have = Veterans /\ nextId = Cardinality(Veterans) + 1 /\ Cardinality(Veterans) \in Nat
      /\ id \in [Conn -> 0 .. Cardinality(Veterans)]
      /\ \A c, d \in Veterans : id[c] = id[d] => c = d
  BY Beginning
<1>2. ground = << >> /\ netId = NoId /\ hand = NoId BY DEF Init
<1>3. \A c \in Have : id[c] < nextId BY <1>1
<1> QED BY <1>1, <1>2, <1>3 DEF Fresh, Before

\* Numbers that were not given in a race differ.
LEMMA FreshMeans == ASSUME Base, Fresh PROVE IdsDiffer
<1>1. SUFFICES ASSUME NEW p \in Carriers, NEW q \in Carriers, p[1] # q[1], p[2] = q[2],
                      p[1] \notin raced, q[1] \notin raced
               PROVE  FALSE
  BY DEF IdsDiffer
<1> DEFINE isConn(r) == \E c \in Have : r[1] = c /\ r[2] = id[c]
           isItem(r) == \E k \in DOMAIN ground : r[1] = ground[k].item /\ r[2] = ground[k].id
<1>2. ASSUME NEW r \in Carriers PROVE isConn(r) \/ isItem(r)
  BY DEF Carriers, Live, Have
<1>3. CASE isConn(p) /\ isConn(q) BY <1>1, <1>3 DEF Fresh
<1>4. CASE isConn(p) /\ isItem(q) BY <1>1, <1>4 DEF Fresh
<1>5. CASE isItem(p) /\ isConn(q) BY <1>1, <1>5 DEF Fresh
<1>6. CASE isItem(p) /\ isItem(q) BY <1>1, <1>6 DEF Fresh
<1> QED BY <1>2, <1>3, <1>4, <1>5, <1>6

\* Players and items have entity ids of their own, however many come and go,
\* but for those numbered while the other thread was in the middle of
\* next_entity_id++ (IdsDiffer): conn_create increments it without conns_lock.
THEOREM IdsDifferCorrect == Spec => []IdsDiffer
<1>1. Init => Base /\ Fresh BY BaseBegins, FreshBegins
<1>2. Base /\ Fresh /\ [Next]_vars => (Base /\ Fresh)' BY BaseHolds, FreshHolds
<1>3. Base /\ Fresh => IdsDiffer BY FreshMeans
<1> QED BY <1>1, <1>2, <1>3, PTL DEF Spec

-----------------------------------------------------------------------------
(* What clients show of players.                                           *)

\* Who is shown has been confirmed, under the right number and not to himself;
\* who has not been confirmed is shown nothing.
ShownInv ==
    /\ \A v, s \in Conn, i \in Ids : seen[v][i] = Player(s) => i = id[s] /\ phase[s] = "ready" /\ v # s
    /\ \A v, s \in Conn : s \in tab[v] => phase[s] = "ready" /\ v # s
    /\ \A v \in Conn : phase[v] # "ready" =>
         table[v] = << >> /\ tab[v] = {} /\ \A i \in Ids : seen[v][i] = Nothing

\* Players, items and nothing are told apart.
LEMMA RecordsDiffer ==
    /\ \A c, d \in Conn : Player(c) = Player(d) => c = d
    /\ \A c \in Conn, g \in [item : Items, left : 0 .. Size] : Player(c) # g
    /\ \A c \in Conn : Player(c) # Nothing
    /\ \A g \in [item : Items, left : 0 .. Size] : g # Nothing
<1>1. \A c \in Conn : Player(c) \in [player : Conn] /\ Player(c).player = c BY DEF Player
<1>2. \A c, d \in Conn : Player(c) = Player(d) => c = d BY <1>1
<1>3. \A c \in Conn : DOMAIN Player(c) = {"player"} BY DEF Player
<1>4. \A g \in [item : Items, left : 0 .. Size] : DOMAIN g = {"item", "left"} OBVIOUS
<1>5. "item" # "player" OBVIOUS
<1>6. \A c \in Conn, g \in [item : Items, left : 0 .. Size] : Player(c) # g BY <1>3, <1>4, <1>5
<1>7. Nothing \notin [player : Conn] /\ Nothing \notin [item : Items, left : 0 .. Size] BY DEF Items
<1> QED BY <1>1, <1>2, <1>6, <1>7

\* Steps that leave what clients show and their tables alone.
Quiet ==
    \/ UNCHANGED vars
    \/ \E c \in Conn : Number(c) \/ CloseConn(c) \/ Join(c) \/ Fail(c) \/ Drop(c) \/ Die(c)
    \/ Numbered \/ Link \/ Unlink
    \/ Snapshot \/ Turn \/ Counted \/ ItemsStart \/ ItemsDone \/ SyncDone

\* Steps that tell of items.
Grounded == (\E c \in Conn : Confirm(c)) \/ Spawned \/ Walk \/ ItemTick

\* All steps.
LEMMA Kinds ==
    ASSUME [Next]_vars
    PROVE  \/ Quiet \/ Grounded \/ Unsee \/ Shut \/ Clear \/ (\E c \in Conn : Respawn(c))
           \/ Sync \/ List \/ Show
BY DEF Next, Net, Tick, Packet, Quiet, Grounded

\* A quiet step.
LEMMA QuietSteps ==
    ASSUME Base, Quiet
    PROVE  /\ UNCHANGED << seen, tab, table, forgot, held >>
           /\ \/ held.at = 0
              \/ UNCHANGED << tickPc, turn, snapshot >>
<1>1. CASE UNCHANGED vars
  BY <1>1 DEF vars, serverVars, clientVars, tickVars, historyVars
<1>2. ASSUME NEW c \in Conn, Number(c) \/ CloseConn(c)
      PROVE  UNCHANGED << seen, tab, table, forgot, held, tickPc, turn, snapshot >>
  BY <1>2 DEF Number, CloseConn, serverVars, clientVars, tickVars, historyVars
<1>3. CASE Numbered \/ Link \/ Unlink
  BY <1>3 DEF Numbered, Link, Unlink, clientVars, tickVars, historyVars
<1>4. ASSUME NEW c \in Conn, Join(c) \/ Fail(c) \/ Drop(c) \/ Die(c)
      PROVE  UNCHANGED << seen, tab, table, forgot, held >> /\ tickPc = "tasks"
  BY <1>4 DEF Join, Fail, Drop, Die, Taken, serverVars, clientVars, tickVars, historyVars
<1>5. CASE Snapshot \/ Turn \/ Counted \/ ItemsStart \/ ItemsDone \/ SyncDone
  <2>1. UNCHANGED << seen, tab, table, forgot, held >> /\ tickPc \notin {"list", "show"}
    BY <1>5 DEF Snapshot, Turn, Counted, ItemsStart, ItemsDone, SyncDone, serverVars, clientVars, historyVars
  <2> QED BY <2>1 DEF Base, TickInv
<1>6. tickPc = "tasks" => held.at = 0 BY DEF Base, TickInv
<1> QED BY <1>1, <1>2, <1>3, <1>4, <1>5, <1>6 DEF Quiet

\* The numbers of what lies on the ground before or after a step.
ItemIds == {ground[k].id : k \in DOMAIN ground} \cup {ground'[k].id : k \in DOMAIN ground'}

\* A packet about an item changes what is shown under its number.
LEMMA ToldItem ==
    ASSUME Base, NEW i \in Ids, NEW what \in [item : Items, left : 0 .. Size] \cup {Nothing},
           seen' = Told(i, what)
    PROVE  \A v \in Conn, j \in Ids :
             \/ seen'[v][j] = seen[v][j]
             \/ /\ j = i /\ phase[v] = "ready" /\ Listed(v) /\ Reached(v) /\ seen'[v][j] = what
                /\ \A s \in Conn : seen'[v][j] # Player(s)
<1>1. what \in Shown BY DEF Shown
<1>2. \A v \in Conn, j \in Ids : seen'[v][j] = IF Listed(v) /\ Reached(v) /\ j = i THEN what ELSE seen[v][j]
  BY <1>1, ToldTypes DEF Base
<1>3. \A s \in Conn : what # Player(s) BY RecordsDiffer
<1> QED BY <1>2, <1>3 DEF Reached

\* Nothing but items appears or goes, to those who are confirmed.
LEMMA GroundedSteps ==
    ASSUME Base, Grounded
    PROVE  /\ UNCHANGED << tab, table, forgot, held, id >> /\ held.at = 0
           /\ \A v \in Conn, i \in Ids :
                \/ seen'[v][i] = seen[v][i]
                \/ phase'[v] = "ready" /\ i \in ItemIds /\ \A s \in Conn : seen'[v][i] # Player(s)
<1>1. ASSUME NEW c \in Conn, Confirm(c)
      PROVE  /\ UNCHANGED << tab, table, forgot, held, id >> /\ held.at = 0
             /\ \A v \in Conn, i \in Ids :
                  \/ seen'[v][i] = seen[v][i]
                  \/ phase'[v] = "ready" /\ i \in ItemIds /\ \A s \in Conn : seen'[v][i] # Player(s)
  <2>1. UNCHANGED << tab, table, forgot, held, id, ground >> /\ tickPc = "tasks"
    BY <1>1 DEF Confirm, Taken, tickVars, historyVars
  <2>2. /\ seen \in [Conn -> [Ids -> Shown]] /\ seen[c] \in [Ids -> Shown]
        /\ phase \in [Conn -> {"none", "early", "play", "ready"}]
    BY DEF Base, TypeOK
  <2>3. seen' = [seen EXCEPT ![c] = WithGround(seen[c])] /\ phase' = [phase EXCEPT ![c] = "ready"]
    BY <1>1 DEF Confirm
  <2>4. seen'[c] = WithGround(seen[c]) /\ phase'[c] = "ready" /\ \A v \in Conn \ {c} : seen'[v] = seen[v]
    BY <2>2, <2>3
  <2>5. \A i \in Ids : \/ WithGround(seen[c])[i] = seen[c][i]
                       \/ \E k \in DOMAIN ground : ground[k].id = i /\ WithGround(seen[c])[i] = Item(ground[k])
    BY <2>2, Lying DEF Base
  <2>6. \A k \in DOMAIN ground : ground[k].id \in ItemIds /\ \A s \in Conn : Item(ground[k]) # Player(s)
    BY GroundItems, RecordsDiffer DEF Base, ItemIds
  <2>7. held.at = 0 BY <2>1 DEF Base, TickInv
  <2> QED BY <2>1, <2>4, <2>5, <2>6, <2>7
<1>2. CASE Spawned
  <2>1. /\ Placed /\ hand # NoId /\ seen' = Told(hand, Item(Last(ground'))) /\ held.at = 0
        /\ UNCHANGED << tab, table, forgot, held, id, phase >>
    BY <1>2 DEF Spawned, Base, TickInv
  <2>2. hand \in Ids /\ Item(Last(ground')) \in [item : Items, left : 0 .. Size] /\ hand \in ItemIds
    BY <2>1, PlacedItem DEF ItemIds
  <2> QED BY <2>1, <2>2, ToldItem
<1>3. CASE Walk
  <2>1. UNCHANGED << tab, table, forgot, held, id, phase >> /\ held.at = 0 /\ tickPc = "walk"
    BY <1>3 DEF Walk, Base, TickInv
  <2>2. CASE seen' = seen BY <2>1, <2>2
  <2>3. CASE seen' # seen
    <3> DEFINE i == Last(ground).id
               g == Item(Last(ground))
               f == [seen[walker] EXCEPT ![i] = g]
    <3>1. /\ walker \in Conn /\ Reached(walker)
          /\ seen' = [seen EXCEPT ![walker] = f]
      BY <1>3, <2>3 DEF Walk, Base, TypeOK
    <3>2. i \in Ids /\ i \in ItemIds /\ g \in [item : Items, left : 0 .. Size]
      <4>1. ground # << >> BY <2>1 DEF Base, TickInv
      <4> QED BY <4>1, LastItem DEF ItemIds, Base
    <3>3. seen \in [Conn -> [Ids -> Shown]] /\ seen[walker] \in [Ids -> Shown] BY <3>1 DEF Base, TypeOK
    <3> HIDE DEF i, g
    <3>4. \A j \in Ids : f[j] = IF j = i THEN g ELSE seen[walker][j] BY <3>3
    <3> HIDE DEF f
    <3>5. seen'[walker] = f /\ \A v \in Conn \ {walker} : seen'[v] = seen[v] BY <3>1, <3>3
    <3>6. \A s \in Conn : g # Player(s) BY <3>2, RecordsDiffer
    <3>7. phase'[walker] = "ready" BY <2>1, <3>1 DEF Reached
    <3> QED BY <2>1, <3>2, <3>4, <3>5, <3>6, <3>7
  <2> QED BY <2>2, <2>3
<1>4. CASE ItemTick
  <2>1. UNCHANGED << tab, table, forgot, held, id, phase >> /\ tickPc = "items" /\ turn <= Len(ground)
    BY <1>4 DEF ItemTick
  <2>2. turn \in DOMAIN ground /\ held.at = 0 BY <2>1, ItemAtTurn DEF Base, TickInv
  <2>3. ground[turn].id \in Ids /\ ground[turn].id \in ItemIds BY <2>2, GroundItems DEF Base, ItemIds
  <2>4. CASE seen' = seen BY <2>1, <2>2, <2>4
  <2>5. CASE seen' = Told(ground[turn].id, Nothing) BY <2>1, <2>2, <2>3, <2>5, ToldItem
  <2>6. ASSUME NEW n \in 0 .. ground[turn].left - 1, TakeSome(n)
        PROVE  \A v \in Conn, i \in Ids :
                  \/ seen'[v][i] = seen[v][i]
                  \/ phase'[v] = "ready" /\ i \in ItemIds /\ \A s \in Conn : seen'[v][i] # Player(s)
    <3>1. seen' = Told(ground[turn].id, Item(ground'[turn])) /\ ground' = [ground EXCEPT ![turn].left = n]
      BY <2>6 DEF TakeSome
    <3>2. ground \in Seq(Ground) /\ ground[turn] \in Ground /\ ground[turn].left \in 0 .. Size
      BY <2>2, GroundItems DEF Base, TypeOK
    <3>3. n \in 0 .. Size BY <2>6, <3>2
    <3>4. ground'[turn].item = ground[turn].item /\ ground'[turn].left = n BY <2>2, <3>1, <3>2 DEF Ground
    <3>5. Item(ground'[turn]) \in [item : Items, left : 0 .. Size]
      BY <3>2, <3>3, <3>4 DEF Item, Ground
    <3> DEFINE g == Item(ground'[turn])
    <3>6. seen' = Told(ground[turn].id, g) /\ g \in [item : Items, left : 0 .. Size] BY <3>1, <3>5
    <3> HIDE DEF g
    <3>7. \A v \in Conn, j \in Ids :
             \/ seen'[v][j] = seen[v][j]
             \/ /\ j = ground[turn].id /\ phase[v] = "ready" /\ Listed(v) /\ Reached(v) /\ seen'[v][j] = g
                /\ \A s \in Conn : seen'[v][j] # Player(s)
      BY <2>3, <3>6, ToldItem
    <3> QED BY <2>1, <2>3, <3>7
  <2>7. \/ seen' = seen \/ seen' = Told(ground[turn].id, Nothing)
        \/ \E n \in 0 .. ground[turn].left - 1 : TakeSome(n)
    BY <1>4 DEF ItemTick, PickUp, TakeAll, TakeUnsaved, DestroyItem
  <2> QED BY <2>1, <2>2, <2>4, <2>5, <2>6, <2>7
<1> QED BY <1>1, <1>2, <1>3, <1>4 DEF Grounded

\* What proto_play_remove_remote_player does to one viewer.
LEMMA Removed ==
    ASSUME TypeOK, NEW v \in Conn, NEW s \in Conn, id[s] \in Ids, RemoveRemote(v, s)
    PROVE  /\ At(v, id[s]) = 0 => UNCHANGED << table, seen, tab, crossed >>
           /\ At(v, id[s]) # 0 =>
                /\ At(v, id[s]) \in DOMAIN table[v] /\ table[v][At(v, id[s])].id = id[s]
                /\ table'[v] = Without(table[v], At(v, id[s]))
                /\ \A u \in Conn \ {v} : table'[u] = table[u] /\ seen'[u] = seen[u] /\ tab'[u] = tab[u]
                /\ \A i \in Ids : seen'[v][i] =
                     IF i = id[s] /\ table[v][At(v, id[s])].spawned THEN Nothing ELSE seen[v][i]
                /\ tab'[v] = IF table[v][At(v, id[s])].listed THEN tab[v] \ {s} ELSE tab[v]
                /\ crossed' = Crossed(v)
<1> DEFINE k == At(v, id[s])
           h == Hide(seen[v], id[s])
<1>1. k = 0 => UNCHANGED << table, seen, tab, crossed >> BY DEF RemoveRemote, clientVars
<1>2. k # 0 => k \in DOMAIN table[v] /\ table[v][k].id = id[s] BY Found
<1>3. /\ table \in [Conn -> Seq(Entry)] /\ seen \in [Conn -> [Ids -> Shown]] /\ tab \in [Conn -> SUBSET Conn]
      /\ seen[v] \in [Ids -> Shown]
  BY DEF TypeOK
<1>4. \A i \in Ids : h[i] = IF i = id[s] THEN Nothing ELSE seen[v][i] BY <1>3 DEF Hide
<1>5. k # 0 =>
        /\ seen' = IF table[v][k].spawned THEN [seen EXCEPT ![v] = h] ELSE seen
        /\ tab' = IF table[v][k].listed THEN [tab EXCEPT ![v] = tab[v] \ {s}] ELSE tab
        /\ table' = [table EXCEPT ![v] = Without(table[v], k)]
        /\ crossed' = Crossed(v)
  BY DEF RemoveRemote
<1> HIDE DEF k, h
<1>6. ASSUME k # 0
      PROVE  /\ table'[v] = Without(table[v], k) /\ \A u \in Conn \ {v} : table'[u] = table[u]
  BY <1>3, <1>5, <1>6
<1>7. ASSUME k # 0
      PROVE  /\ \A u \in Conn \ {v} : seen'[u] = seen[u]
             /\ \A i \in Ids : seen'[v][i] = IF i = id[s] /\ table[v][k].spawned THEN Nothing ELSE seen[v][i]
  BY <1>3, <1>4, <1>5, <1>7
<1>8. ASSUME k # 0
      PROVE  /\ \A u \in Conn \ {v} : tab'[u] = tab[u]
             /\ tab'[v] = IF table[v][k].listed THEN tab[v] \ {s} ELSE tab[v]
  BY <1>3, <1>5, <1>8
<1> QED BY <1>1, <1>2, <1>5, <1>6, <1>7, <1>8 DEF k

\* A step of the loop over the viewers.
LEMMA UnseeSteps ==
    ASSUME Base, Unsee
    PROVE  /\ netPc = "unsee" /\ netConn \in Conn /\ Listed(netConn) /\ id[netConn] \in Ids
           /\ UNCHANGED << id, conns, phase, closing, dead, freed, forgot, strayed, raced, ground, netConn,
                           held, tickPc, turn, snapshot >>
           /\ \/ /\ Untold = {} /\ netPc' = "unlink" /\ told' = told
                 /\ UNCHANGED << table, seen, tab, crossed >>
              \/ /\ netPc' = "unsee"
                 /\ \E v \in Conn :
                      /\ Listed(v) /\ told' = told \cup {v}
                      /\ \/ /\ (closing[v] \/ ~InPlay(v))
                            /\ UNCHANGED << table, seen, tab, crossed >>
                         \/ InPlay(v) /\ RemoveRemote(v, netConn)
<1>1. netPc = "unsee" /\ netConn \in Conn /\ Listed(netConn) /\ phase[netConn] # "none"
  BY Members DEF Base, NetInv, ListInv, Listed, Unsee
<1>2. id[netConn] \in Ids BY <1>1, Numbers
<1>3. UNCHANGED << id, conns, phase, closing, dead, freed, forgot, strayed, raced, ground, netConn,
                   held, tickPc, turn, snapshot >>
  BY DEF Unsee, tickVars
<1>4. CASE Untold = {} BY <1>1, <1>2, <1>3, <1>4 DEF Unsee, clientVars
<1>5. CASE Untold # {}
  <2> DEFINE v == conns[Min(Untold)]
  <2>1. v \in Range(conns) /\ v \in Conn BY <1>5, NextViewer, Members DEF Base
  <2>2. netPc' = "unsee" /\ told' = told \cup {v}
        /\ \/ (closing[v] \/ ~InPlay(v)) /\ UNCHANGED << table, seen, tab, crossed >>
           \/ InPlay(v) /\ RemoveRemote(v, netConn)
    BY <1>1, <1>5 DEF Unsee, clientVars
  <2> HIDE DEF v
  <2> QED BY <1>1, <1>2, <1>3, <2>1, <2>2 DEF Listed
<1> QED BY <1>4, <1>5

\* What is left of those who are freed, and of the others.
LEMMA Freed ==
    ASSUME TypeOK, NEW gone \in SUBSET Conn, Free(gone)
    PROVE  \A c \in Conn :
             IF c \in gone THEN /\ table'[c] = << >> /\ tab'[c] = {} /\ \A i \in Ids : seen'[c][i] = Nothing
             ELSE table'[c] = table[c] /\ tab'[c] = tab[c] /\ seen'[c] = seen[c]
BY DEF Free, TypeOK

\* Who is freed by the two steps that free.
LEMMA FreeSteps ==
    ASSUME Base, Shut \/ Clear
    PROVE  \E gone \in SUBSET Conn :
             /\ Free(gone) /\ UNCHANGED << id, conns, phase, forgot, strayed, crossed, raced, held >>
             /\ \A c \in gone : ~Listed(c)
             /\ \/ held.at = 0
                \/ UNCHANGED << tickPc, turn, snapshot >> /\ gone \cap Range(snapshot) = {}
<1>1. CASE Shut
  <2> DEFINE gone == IF netConn \in Range(snapshot) THEN {} ELSE {netConn}
  <2>1. netConn \in Conn /\ ~Listed(netConn) BY <1>1 DEF Base, NetInv, TypeOK, Shut
  <2>2. Free(gone) /\ UNCHANGED << id, conns, phase, forgot, strayed, crossed, raced, held, tickPc, turn, snapshot >>
    BY <1>1 DEF Shut, tickVars, historyVars
  <2>3. gone \in SUBSET Conn /\ (\A c \in gone : ~Listed(c)) /\ gone \cap Range(snapshot) = {} BY <2>1
  <2> HIDE DEF gone
  <2> QED BY <2>2, <2>3
<1>2. CASE Clear
  <2> DEFINE gone == {c \in Range(snapshot) : ~Listed(c) /\ netConn # c}
  <2>1. Free(gone) /\ UNCHANGED << id, conns, phase, forgot, strayed, crossed, raced, held >> /\ tickPc = "clear"
    BY <1>2 DEF Clear, historyVars
  <2>2. held.at = 0 BY <2>1 DEF Base, TickInv
  <2>3. gone \in SUBSET Conn /\ \A c \in gone : ~Listed(c) BY Members DEF Base
  <2> HIDE DEF gone
  <2> QED BY <2>1, <2>2, <2>3
<1> QED BY <1>1, <1>2

\* What a respawn changes.
LEMMA RespawnSteps ==
    ASSUME Base, NEW c \in Conn, Respawn(c)
    PROVE  /\ UNCHANGED << tab, id, phase, conns, closing, held, ground, crossed, strayed, raced >>
           /\ held.at = 0 /\ table'[c] = << >>
           /\ \A u \in Conn \ {c} : table'[u] = table[u] /\ seen'[u] = seen[u]
           /\ phase[c] # "ready" => \A i \in Ids : seen'[c][i] \in {seen[c][i], Nothing}
           /\ \A s \in Conn, i \in Ids : seen'[c][i] = Player(s) => seen[c][i] = Player(s)
           /\ forgot' = forgot \cup {<< c, s >> : s \in tab[c] \cup {d \in Conn : Player(d) \in Range(seen[c])}}
<1>1. /\ UNCHANGED << tab, id, phase, conns, closing, held, ground, crossed, strayed, raced >> /\ tickPc = "tasks"
      /\ table' = [table EXCEPT ![c] = << >>]
      /\ forgot' = forgot \cup {<< c, s >> : s \in tab[c] \cup {d \in Conn : Player(d) \in Range(seen[c])}}
  BY DEF Respawn, Taken, tickVars
<1>2. /\ table \in [Conn -> Seq(Entry)] /\ seen \in [Conn -> [Ids -> Shown]] /\ seen[c] \in [Ids -> Shown]
  BY DEF Base, TypeOK
<1>3. PICK kept \in {seen[c], [i \in Ids |-> Nothing]} :
          seen' = [seen EXCEPT ![c] = IF phase[c] = "ready" THEN WithGround(kept) ELSE kept]
  BY DEF Respawn
<1>4. kept \in [Ids -> Shown] /\ \A i \in Ids : kept[i] \in {seen[c][i], Nothing}
  <2>1. [i \in Ids |-> Nothing] \in [Ids -> Shown] BY DEF Shown
  <2> QED BY <1>2, <2>1
<1>5. \A i \in Ids : WithGround(kept)[i] = kept[i] \/ \E k \in DOMAIN ground : WithGround(kept)[i] = Item(ground[k])
  BY <1>4, Lying DEF Base
<1>6. \A k \in DOMAIN ground, s \in Conn : Item(ground[k]) # Player(s) BY GroundItems, RecordsDiffer DEF Base
<1>7. \A s \in Conn, i \in Ids : WithGround(kept)[i] = Player(s) => seen[c][i] = Player(s)
  <2>1. \A s \in Conn : Player(s) # Nothing BY RecordsDiffer
  <2> QED BY <1>4, <1>5, <1>6, <2>1
<1>8. \A s \in Conn, i \in Ids : kept[i] = Player(s) => seen[c][i] = Player(s)
  <2>1. \A s \in Conn : Player(s) # Nothing BY RecordsDiffer
  <2> QED BY <1>4, <2>1
<1>9. seen'[c] = (IF phase[c] = "ready" THEN WithGround(kept) ELSE kept)
      /\ \A u \in Conn \ {c} : seen'[u] = seen[u]
  BY <1>2, <1>3
<1>10. table'[c] = << >> /\ \A u \in Conn \ {c} : table'[u] = table[u] BY <1>1, <1>2
<1>11. held.at = 0 BY <1>1 DEF Base, TickInv
<1>12. \A s \in Conn, i \in Ids : seen'[c][i] = Player(s) => seen[c][i] = Player(s) BY <1>7, <1>8, <1>9
<1> QED BY <1>1, <1>4, <1>9, <1>10, <1>11, <1>12

\* What List changes.
LEMMA ListSteps ==
    ASSUME Base, List
    PROVE  LET v == Viewer(turn)
               s == Subject(turn)
           IN  /\ tickPc = "list" /\ held.at # 0 /\ v \in Conn /\ s \in Conn /\ v # s
               /\ phase[v] = "ready" /\ phase[s] = "ready" /\ id[s] \in Ids
               /\ UNCHANGED << id, conns, phase, closing, dead, seen, ground, crossed, raced, netPc, netConn, told,
                               turn, snapshot >>
               /\ held'.at = held.at /\ tickPc' = "show"
               /\ \A u \in Conn \ {v} : table'[u] = table[u] /\ tab'[u] = tab[u]
               /\ tab'[v] = IF Pointed(v).listed THEN tab[v] ELSE tab[v] \cup {s}
               /\ held.at \in DOMAIN table[v] =>
                    /\ Pointed(v).listed = table[v][held.at].listed
                    /\ DOMAIN table'[v] = DOMAIN table[v]
                    /\ \A k \in DOMAIN table[v] : /\ table'[v][k].id = table[v][k].id
                                                   /\ table'[v][k].listed = (table[v][k].listed \/ k = held.at)
                                                   /\ table'[v][k].spawned = table[v][k].spawned
               /\ strayed' = Strayed(v, s) /\ forgot' = forgot \ {<< v, s >>}
<1> DEFINE v == Viewer(turn)
           s == Subject(turn)
           k == held.at
<1>1. /\ tickPc = "list" /\ k # 0 /\ tickPc' = "show"
      /\ UNCHANGED << id, conns, phase, closing, dead, seen, ground, crossed, raced, netPc, netConn, told,
                      turn, snapshot >>
  BY DEF List, Base, TickInv, netVars
<1>2. v \in Conn /\ s \in Conn /\ v # s /\ id[s] \in Ids /\ k \in Nat BY <1>1, PairAtHand
<1>3. phase[v] = "ready" /\ phase[s] = "ready" BY <1>1 DEF Base, TickInv
<1>4. /\ tab' = IF Pointed(v).listed THEN tab ELSE [tab EXCEPT ![v] = tab[v] \cup {s}]
      /\ table' = IF k <= Len(table[v]) THEN MarkListed(table, v, k) ELSE table
      /\ held' = [held EXCEPT !.listed = TRUE]
      /\ strayed' = Strayed(v, s) /\ forgot' = forgot \ {<< v, s >>}
  BY DEF List, MarkListed
<1>5. /\ table \in [Conn -> Seq(Entry)] /\ table[v] \in Seq(Entry) /\ tab \in [Conn -> SUBSET Conn]
      /\ held \in [at : Nat, listed : BOOLEAN, spawned : BOOLEAN]
  BY <1>2 DEF Base, TypeOK
<1>6. held'.at = k BY <1>4, <1>5
<1>7. k <= Len(table[v]) <=> k \in DOMAIN table[v] BY <1>1, <1>2, <1>5
<1>8. k \in DOMAIN table[v] => Pointed(v).listed = table[v][k].listed BY <1>7 DEF Pointed
<1> HIDE DEF v, s, k
<1>9. tab'[v] = (IF Pointed(v).listed THEN tab[v] ELSE tab[v] \cup {s})
      /\ \A u \in Conn \ {v} : tab'[u] = tab[u]
  BY <1>2, <1>4, <1>5
<1>10. CASE k \in DOMAIN table[v]
  <2>1. table' = MarkListed(table, v, k) BY <1>4, <1>7, <1>10
  <2>2. /\ \A u \in Conn \ {v} : table'[u] = table[u]
        /\ DOMAIN table'[v] = DOMAIN table[v]
        /\ \A j \in DOMAIN table[v] : /\ table'[v][j].id = table[v][j].id
                                       /\ table'[v][j].listed = (table[v][j].listed \/ j = k)
                                       /\ table'[v][j].spawned = table[v][j].spawned
    BY <1>2, <1>5, <1>10, <2>1, MarkedListed
  <2> QED BY <1>1, <1>2, <1>3, <1>4, <1>6, <1>8, <1>9, <2>2 DEF v, s, k
<1>11. CASE k \notin DOMAIN table[v]
  <2>1. table' = table BY <1>4, <1>7, <1>11
  <2> QED BY <1>1, <1>2, <1>3, <1>4, <1>6, <1>9, <1>11, <2>1 DEF v, s, k
<1> QED BY <1>10, <1>11

\* What Show changes.
LEMMA ShowSteps ==
    ASSUME Base, Show
    PROVE  LET v == Viewer(turn)
               s == Subject(turn)
           IN  /\ tickPc = "show" /\ held.at # 0 /\ v \in Conn /\ s \in Conn /\ v # s
               /\ phase[v] = "ready" /\ phase[s] = "ready" /\ id[s] \in Ids /\ s \notin dead
               /\ UNCHANGED << id, conns, phase, closing, dead, tab, ground, crossed, raced, netPc, netConn, told,
                               snapshot, forgot >>
               /\ held'.at = 0 /\ tickPc' = "sync" /\ turn' = turn + 1
               /\ \A u \in Conn \ {v} : table'[u] = table[u] /\ seen'[u] = seen[u]
               /\ \A i \in Ids : seen'[v][i] =
                    IF ~Pointed(v).spawned /\ i = id[s] THEN Player(s) ELSE seen[v][i]
               /\ held.at \in DOMAIN table[v] =>
                    /\ Pointed(v).spawned = table[v][held.at].spawned
                    /\ DOMAIN table'[v] = DOMAIN table[v]
                    /\ \A k \in DOMAIN table[v] : /\ table'[v][k].id = table[v][k].id
                                                   /\ table'[v][k].listed = table[v][k].listed
                                                   /\ table'[v][k].spawned = (table[v][k].spawned \/ k = held.at)
               /\ strayed' = Strayed(v, s)
<1> DEFINE v == Viewer(turn)
           s == Subject(turn)
           k == held.at
           f == [seen[v] EXCEPT ![id[s]] = Player(s)]
<1>1. /\ tickPc = "show" /\ k # 0 /\ tickPc' = "sync" /\ turn' = turn + 1
      /\ UNCHANGED << id, conns, phase, closing, dead, tab, ground, crossed, raced, netPc, netConn, told,
                      snapshot, forgot >>
  BY DEF Show, Base, TickInv, netVars
<1>2. v \in Conn /\ s \in Conn /\ v # s /\ id[s] \in Ids /\ k \in Nat BY <1>1, PairAtHand
<1>3. phase[v] = "ready" /\ phase[s] = "ready" /\ s \notin dead BY <1>1 DEF Base, TickInv
<1>4. /\ seen' = IF Pointed(v).spawned THEN seen ELSE [seen EXCEPT ![v] = f]
      /\ table' = IF k <= Len(table[v]) THEN MarkSpawned(table, v, k) ELSE table
      /\ held' = NoEntry /\ strayed' = Strayed(v, s)
  BY DEF Show, MarkSpawned
<1>5. /\ table \in [Conn -> Seq(Entry)] /\ table[v] \in Seq(Entry) /\ seen \in [Conn -> [Ids -> Shown]]
      /\ seen[v] \in [Ids -> Shown]
  BY <1>2 DEF Base, TypeOK
<1>6. held'.at = 0 BY <1>4 DEF NoEntry
<1>7. k <= Len(table[v]) <=> k \in DOMAIN table[v] BY <1>1, <1>2, <1>5
<1>8. k \in DOMAIN table[v] => Pointed(v).spawned = table[v][k].spawned BY <1>7 DEF Pointed
<1>9. \A i \in Ids : f[i] = IF i = id[s] THEN Player(s) ELSE seen[v][i] BY <1>5
<1> HIDE DEF v, s, k, f
<1>10. /\ \A i \in Ids : seen'[v][i] = IF ~Pointed(v).spawned /\ i = id[s] THEN Player(s) ELSE seen[v][i]
       /\ \A u \in Conn \ {v} : seen'[u] = seen[u]
  BY <1>2, <1>4, <1>5, <1>9
<1>11. CASE k \in DOMAIN table[v]
  <2>1. table' = MarkSpawned(table, v, k) BY <1>4, <1>7, <1>11
  <2>2. /\ \A u \in Conn \ {v} : table'[u] = table[u]
        /\ DOMAIN table'[v] = DOMAIN table[v]
        /\ \A j \in DOMAIN table[v] : /\ table'[v][j].id = table[v][j].id
                                       /\ table'[v][j].listed = table[v][j].listed
                                       /\ table'[v][j].spawned = (table[v][j].spawned \/ j = k)
    <3> DEFINE m == MarkSpawned(table, v, k)
    <3>1. /\ \A u \in Conn \ {v} : m[u] = table[u]
          /\ DOMAIN m[v] = DOMAIN table[v]
          /\ \A j \in DOMAIN table[v] : /\ m[v][j].id = table[v][j].id
                                         /\ m[v][j].spawned = (table[v][j].spawned \/ j = k)
                                         /\ m[v][j].listed = table[v][j].listed
      <4>1. table \in [Conn -> Seq(Entry)] /\ v \in Conn /\ k \in DOMAIN table[v]
        BY <1>2, <1>5, <1>11
      <4> QED BY <4>1, MarkedSpawned
    <3>2. table' = m BY <2>1
    <3> HIDE DEF m
    <3> QED BY <3>1, <3>2
  <2> QED BY <1>1, <1>2, <1>3, <1>4, <1>6, <1>8, <1>10, <2>2 DEF v, s, k
<1>12. CASE k \notin DOMAIN table[v]
  <2>1. table' = table BY <1>4, <1>7, <1>12
  <2> QED BY <1>1, <1>2, <1>3, <1>4, <1>6, <1>10, <1>12, <2>1 DEF v, s, k
<1> QED BY <1>11, <1>12

\* What Sync changes: a dead player's entry, or an entry for a living one.
LEMMA SyncSteps ==
    ASSUME Base, Sync
    PROVE  LET t == Min(Pairs)
               v == Viewer(t)
               s == Subject(t)
           IN  /\ tickPc = "sync" /\ held.at = 0 /\ v \in Conn /\ s \in Conn /\ v # s
               /\ phase[v] = "ready" /\ phase[s] = "ready" /\ id[s] \in Ids
               /\ UNCHANGED << id, conns, phase, closing, dead, tab, ground, crossed, strayed, raced, netPc, netConn,
                               told, snapshot, forgot >>
               /\ t \in Pairs /\ turn \in Nat /\ turn # 0 /\ turn <= t /\ t \in 1 .. Len(snapshot) * Len(snapshot)
               /\ \A u \in turn .. t - 1 : u \notin Pairs
               /\ \A u \in Conn \ {v} : table'[u] = table[u] /\ seen'[u] = seen[u]
               /\ \/ /\ s \in dead /\ HideDead(v, s) /\ turn' = t + 1 /\ tickPc' = "sync" /\ held'.at = 0
                  \/ /\ s \notin dead /\ Ensure(v, s) /\ turn' = t /\ tickPc' = "list" /\ UNCHANGED seen
                     /\ held'.at # 0
<1> DEFINE t == Min(Pairs)
           v == Viewer(t)
           s == Subject(t)
<1>1. /\ tickPc = "sync" /\ held.at = 0
      /\ UNCHANGED << id, conns, phase, closing, dead, tab, ground, crossed, strayed, raced, netPc, netConn,
                      told, snapshot, forgot >>
  BY DEF Sync, Base, TickInv, netVars, historyVars
<1>2. /\ t \in Pairs /\ turn \in Nat /\ turn # 0 /\ turn <= t /\ t \in 1 .. Len(snapshot) * Len(snapshot)
      /\ \A u \in turn .. t - 1 : u \notin Pairs
      /\ v \in Conn /\ s \in Conn /\ v # s /\ phase[v] = "ready" /\ phase[s] = "ready"
  BY NextPair DEF Sync, Reached
<1>3. id[s] \in Ids /\ id[s] # 0 BY <1>2, Numbers
<1>4. \/ s \in dead /\ HideDead(v, s) /\ turn' = t + 1 /\ tickPc' = "sync" /\ held' = held
      \/ s \notin dead /\ Ensure(v, s) /\ turn' = t /\ tickPc' = "list" /\ UNCHANGED seen
  BY <1>1 DEF Sync
<1> HIDE DEF t, v, s
<1>5. CASE s \in dead
  <2>1. \A u \in Conn \ {v} : table'[u] = table[u] /\ seen'[u] = seen[u]
    BY <1>2, <1>3, <1>4, <1>5, Hidden DEF Base
  <2> QED BY <1>1, <1>2, <1>3, <1>4, <1>5, <2>1 DEF t, v, s
<1>6. CASE s \notin dead
  <2>1. table' = [table EXCEPT ![v] = table'[v]] /\ held'.at # 0
    BY <1>2, <1>3, <1>4, <1>6, Ensured DEF Base
  <2>2. \A u \in Conn \ {v} : table'[u] = table[u]
    <3>1. table \in [Conn -> Seq(Entry)] BY DEF Base, TypeOK
    <3> DEFINE r == table'[v]
    <3>2. table' = [table EXCEPT ![v] = r] BY <2>1
    <3> HIDE DEF r
    <3> QED BY <3>1, <3>2
  <2> QED BY <1>1, <1>2, <1>3, <1>4, <1>6, <2>1, <2>2 DEF t, v, s
<1> QED BY <1>5, <1>6

\* Numbers and readiness of players stay.
LEMMA ReadyStays ==
    ASSUME Base, [Next]_vars
    PROVE  \A s \in Conn : /\ phase[s] # "none" => phase'[s] # "none" /\ id'[s] = id[s]
                           /\ phase[s] = "ready" => phase'[s] = "ready"
<1>1. phase \in [Conn -> {"none", "early", "play", "ready"}] /\ id \in [Conn -> Ids \cup {0}]
  BY DEF Base, TypeOK
<1>2. CASE Numbered
  <2>1. phase' = phase /\ netConn \in Conn /\ phase[netConn] = "none" /\ id' = [id EXCEPT ![netConn] = netId]
    BY <1>2 DEF Numbered, Base, NetInv, TypeOK
  <2> QED BY <1>1, <2>1
<1>3. CASE Link
  <2>1. id' = id /\ netConn \in Conn /\ phase[netConn] = "none" /\ phase' = [phase EXCEPT ![netConn] = "early"]
    BY <1>3 DEF Link, Base, NetInv, TypeOK
  <2> QED BY <1>1, <2>1
<1>4. ASSUME NEW c \in Conn, Join(c) \/ Confirm(c)
      PROVE  \A s \in Conn : /\ phase[s] # "none" => phase'[s] # "none" /\ id'[s] = id[s]
                             /\ phase[s] = "ready" => phase'[s] = "ready"
  <2>1. id' = id /\ \/ phase[c] = "early" /\ phase' = [phase EXCEPT ![c] = "play"]
                    \/ phase' = [phase EXCEPT ![c] = "ready"]
    BY <1>4 DEF Join, Confirm
  <2> QED BY <1>1, <2>1
<1>5. CASE UNCHANGED << phase, id >> BY <1>5
<1>6. CASE UNCHANGED vars BY <1>5, <1>6 DEF vars, serverVars
<1>7. ASSUME NEW c \in Conn, Number(c) \/ CloseConn(c) \/ Fail(c) \/ Drop(c) \/ Die(c) \/ Respawn(c)
      PROVE  UNCHANGED << phase, id >>
  BY <1>7 DEF Number, CloseConn, Fail, Drop, Die, Respawn, serverVars
<1>8. CASE Unsee \/ Unlink \/ Shut BY <1>5, <1>8 DEF Unsee, Unlink, Shut
<1>9. CASE Spawned \/ Snapshot \/ Turn \/ Counted \/ Walk \/ ItemsStart \/ ItemTick \/ ItemsDone
  BY <1>5, <1>9 DEF Spawned, Snapshot, Turn, Counted, Walk, ItemsStart, ItemTick, ItemsDone, serverVars
<1>10. CASE Sync \/ List \/ Show \/ SyncDone \/ Clear
  BY <1>5, <1>10 DEF Sync, List, Show, SyncDone, Clear, serverVars
<1> QED BY <1>2, <1>3, <1>4, <1>5, <1>6, <1>7, <1>8, <1>9, <1>10 DEF Next, Net, Tick, Packet

\* History is not forgotten, but for who has been told again after a respawn.
LEMMA HistoryGrows ==
    ASSUME [Next]_vars
    PROVE  /\ raced \subseteq raced' /\ crossed \subseteq crossed' /\ strayed \subseteq strayed'
           /\ spoiled \subseteq spoiled' /\ (wild => wild')
<1> DEFINE G == /\ raced \subseteq raced' /\ crossed \subseteq crossed' /\ strayed \subseteq strayed'
                /\ spoiled \subseteq spoiled' /\ (wild => wild')
<1>1. CASE UNCHANGED vars BY <1>1 DEF vars, historyVars
<1>2. ASSUME NEW c \in Conn, Number(c) \/ CloseConn(c) PROVE G BY <1>2 DEF Number, CloseConn, historyVars
<1>3. CASE Numbered BY <1>3 DEF Numbered
<1>4. CASE Link \/ Unlink \/ Shut BY <1>4 DEF Link, Unlink, Shut, historyVars
<1>5. CASE Unsee
  <2>1. UNCHANGED << raced, strayed, spoiled, wild >> BY <1>5 DEF Unsee
  <2>2. crossed \subseteq crossed' BY <1>5 DEF Unsee, RemoveRemote, Crossed
  <2> QED BY <2>1, <2>2
<1>6. ASSUME NEW c \in Conn, Packet(c) PROVE G
  BY <1>6 DEF Packet, Join, Confirm, Fail, Drop, Die, Respawn, historyVars
<1>7. CASE Spawned \/ Counted BY <1>7 DEF Spawned, Counted, Placed
<1>8. CASE Snapshot \/ Turn \/ ItemsStart \/ ItemsDone BY <1>8 DEF Snapshot, Turn, ItemsStart, ItemsDone, historyVars
<1>9. CASE Walk BY <1>9 DEF Walk
<1>10. CASE ItemTick
  <2>1. UNCHANGED << raced, strayed, crossed, wild >> BY <1>10 DEF ItemTick
  <2>2. spoiled \subseteq spoiled' BY <1>10 DEF ItemTick, PickUp, TakeSome, TakeAll, TakeUnsaved
  <2> QED BY <2>1, <2>2
<1>11. CASE Sync \/ SyncDone \/ Clear BY <1>11 DEF Sync, SyncDone, Clear, historyVars
<1>12. CASE List \/ Show BY <1>12 DEF List, Show, Strayed
<1> QED BY <1>1, <1>2, <1>3, <1>4, <1>5, <1>6, <1>7, <1>8, <1>9, <1>10, <1>11, <1>12 DEF Next, Net, Tick

\* What a step has to do with what is shown for ShownInv to stay.
LEMMA ShownFrame ==
    ASSUME Base, ShownInv, [Next]_vars,
           \A v, s \in Conn, i \in Ids : seen'[v][i] = Player(s) =>
               seen[v][i] = Player(s) \/ (i = id[s] /\ phase[s] = "ready" /\ v # s),
           \A v, s \in Conn : s \in tab'[v] => s \in tab[v] \/ (phase[s] = "ready" /\ v # s),
           \A v \in Conn : phase'[v] # "ready" =>
               /\ table[v] = << >> => table'[v] = << >>
               /\ tab[v] = {} => tab'[v] = {}
               /\ \A i \in Ids : seen[v][i] = Nothing => seen'[v][i] = Nothing
    PROVE  ShownInv'
<1>1. \A s \in Conn : phase[s] = "ready" => phase'[s] = "ready" /\ id'[s] = id[s] BY ReadyStays
<1>2. \A v, s \in Conn, i \in Ids : seen'[v][i] = Player(s) => i = id'[s] /\ phase'[s] = "ready" /\ v # s
  BY <1>1 DEF ShownInv
<1>3. \A v, s \in Conn : s \in tab'[v] => phase'[s] = "ready" /\ v # s BY <1>1 DEF ShownInv
<1>4. \A v \in Conn : phase'[v] # "ready" =>
         table'[v] = << >> /\ tab'[v] = {} /\ \A i \in Ids : seen'[v][i] = Nothing
  BY <1>1 DEF ShownInv
<1> QED BY <1>2, <1>3, <1>4 DEF ShownInv

\* Every step.
LEMMA ShownHolds == ASSUME Base, ShownInv, [Next]_vars PROVE ShownInv'
<1> DEFINE A == \A v, s \in Conn, i \in Ids : seen'[v][i] = Player(s) =>
                  seen[v][i] = Player(s) \/ (i = id[s] /\ phase[s] = "ready" /\ v # s)
           B == \A v, s \in Conn : s \in tab'[v] => s \in tab[v] \/ (phase[s] = "ready" /\ v # s)
           C == \A v \in Conn : phase'[v] # "ready" =>
                  /\ table[v] = << >> => table'[v] = << >>
                  /\ tab[v] = {} => tab'[v] = {}
                  /\ \A i \in Ids : seen[v][i] = Nothing => seen'[v][i] = Nothing
<1>1. CASE Quiet
  <2>1. UNCHANGED << seen, tab, table >> BY <1>1, QuietSteps
  <2> QED BY <2>1, ShownFrame
<1>2. CASE Grounded
  <2>1. A /\ B /\ C BY <1>2, GroundedSteps
  <2> QED BY <2>1, ShownFrame
<1>3. CASE Unsee
  <2>1. CASE UNCHANGED << table, seen, tab >> BY <2>1, ShownFrame
  <2>2. ASSUME NEW v \in Conn, InPlay(v), RemoveRemote(v, netConn), At(v, id[netConn]) # 0,
               ~UNCHANGED << table, seen, tab >>
        PROVE  A /\ B /\ C
    <3>1. netConn \in Conn /\ id[netConn] \in Ids /\ phase' = phase BY <1>3, UnseeSteps
    <3>2. /\ At(v, id[netConn]) \in DOMAIN table[v]
          /\ \A u \in Conn \ {v} : table'[u] = table[u] /\ seen'[u] = seen[u] /\ tab'[u] = tab[u]
          /\ \A i \in Ids : seen'[v][i] \in {Nothing, seen[v][i]}
          /\ tab'[v] \subseteq tab[v]
      <4> DEFINE k == At(v, id[netConn])
      <4>1. TypeOK /\ k # 0 /\ RemoveRemote(v, netConn) BY <2>2 DEF Base
      <4>2. /\ k \in DOMAIN table[v]
            /\ \A u \in Conn \ {v} : table'[u] = table[u] /\ seen'[u] = seen[u] /\ tab'[u] = tab[u]
            /\ \A i \in Ids : seen'[v][i] =
                 IF i = id[netConn] /\ table[v][k].spawned THEN Nothing ELSE seen[v][i]
            /\ tab'[v] = IF table[v][k].listed THEN tab[v] \ {netConn} ELSE tab[v]
        BY <3>1, <4>1, Removed
      <4> HIDE DEF k
      <4> QED BY <4>2 DEF k
    <3>3. phase[v] = "ready"
      <4>1. table[v] # << >> BY <3>2
      <4> QED BY <4>1 DEF ShownInv
    <3>4. \A s \in Conn : Player(s) # Nothing BY RecordsDiffer
    <3> QED BY <3>1, <3>2, <3>3, <3>4
  <2>3. netConn \in Conn /\ id[netConn] \in Ids BY <1>3, UnseeSteps
  <2>4. \A v \in Conn : RemoveRemote(v, netConn) /\ At(v, id[netConn]) = 0 => UNCHANGED << table, seen, tab >>
    <3> SUFFICES ASSUME NEW v \in Conn, RemoveRemote(v, netConn), At(v, id[netConn]) = 0
                 PROVE  UNCHANGED << table, seen, tab >>
      OBVIOUS
    <3>1. TypeOK BY DEF Base
    <3> QED BY <2>3, <3>1, Removed
  <2>5. UNCHANGED << table, seen, tab >> \/ \E v \in Conn : InPlay(v) /\ RemoveRemote(v, netConn)
    BY <1>3, UnseeSteps
  <2> HIDE DEF A, B, C
  <2>6. UNCHANGED << table, seen, tab >> \/ (A /\ B /\ C) BY <2>2, <2>4, <2>5
  <2> QED BY <2>1, <2>6, ShownFrame DEF A, B, C
<1>4. CASE Shut \/ Clear
  <2>1. PICK gone \in SUBSET Conn : Free(gone) /\ UNCHANGED << id, phase >> BY <1>4, FreeSteps
  <2>2. \A c \in Conn :
             IF c \in gone THEN /\ table'[c] = << >> /\ tab'[c] = {} /\ \A i \in Ids : seen'[c][i] = Nothing
             ELSE table'[c] = table[c] /\ tab'[c] = tab[c] /\ seen'[c] = seen[c]
    BY <2>1, Freed DEF Base
  <2>3. \A s \in Conn : Player(s) # Nothing BY RecordsDiffer
  <2>4. A /\ B /\ C BY <2>2, <2>3
  <2> QED BY <2>4, ShownFrame
<1>5. ASSUME NEW c \in Conn, Respawn(c) PROVE ShownInv'
  <2>1. A /\ B /\ C
    <3>1. /\ UNCHANGED << tab, phase >> /\ table'[c] = << >>
          /\ \A u \in Conn \ {c} : table'[u] = table[u] /\ seen'[u] = seen[u]
          /\ phase[c] # "ready" => \A i \in Ids : seen'[c][i] \in {seen[c][i], Nothing}
          /\ \A s \in Conn, i \in Ids : seen'[c][i] = Player(s) => seen[c][i] = Player(s)
      BY <1>5, RespawnSteps
    <3> QED BY <3>1
  <2> QED BY <2>1, ShownFrame
<1>6. CASE Sync
  <2> DEFINE v == Viewer(Min(Pairs))
             s == Subject(Min(Pairs))
  <2>1. /\ v \in Conn /\ s \in Conn /\ v # s /\ phase[v] = "ready" /\ id[s] \in Ids
        /\ UNCHANGED << phase, tab >>
        /\ \A u \in Conn \ {v} : table'[u] = table[u] /\ seen'[u] = seen[u]
        /\ HideDead(v, s) \/ UNCHANGED seen
    BY <1>6, SyncSteps
  <2> HIDE DEF v, s
  <2>2. HideDead(v, s) => \A i \in Ids : seen'[v][i] \in {seen[v][i], Nothing}
    <3>1. id[s] # 0 BY <2>1, NumbersSuffice DEF Base, TypeOK
    <3> QED BY <2>1, <3>1, Hidden DEF Base
  <2>3. \A d \in Conn : Player(d) # Nothing BY RecordsDiffer
  <2>4. A /\ B /\ C BY <2>1, <2>2, <2>3
  <2> QED BY <2>4, ShownFrame
<1>7. CASE List
  <2> DEFINE v == Viewer(turn)
             s == Subject(turn)
  <2>1. /\ v \in Conn /\ s \in Conn /\ v # s /\ phase[v] = "ready" /\ phase[s] = "ready"
        /\ UNCHANGED << phase, seen >>
        /\ \A u \in Conn \ {v} : table'[u] = table[u] /\ tab'[u] = tab[u]
        /\ tab'[v] \subseteq tab[v] \cup {s}
    BY <1>7, ListSteps
  <2> HIDE DEF v, s
  <2>2. A /\ B /\ C BY <2>1
  <2> QED BY <2>2, ShownFrame
<1>8. CASE Show
  <2> DEFINE v == Viewer(turn)
             s == Subject(turn)
  <2>1. /\ v \in Conn /\ s \in Conn /\ v # s /\ phase[v] = "ready" /\ phase[s] = "ready" /\ id[s] \in Ids
        /\ UNCHANGED << phase, tab >>
        /\ \A u \in Conn \ {v} : table'[u] = table[u] /\ seen'[u] = seen[u]
        /\ \A i \in Ids : seen'[v][i] = seen[v][i] \/ (i = id[s] /\ seen'[v][i] = Player(s))
    BY <1>8, ShowSteps
  <2> HIDE DEF v, s
  <2>2. \A d \in Conn : Player(d) = Player(s) => d = s BY <2>1, RecordsDiffer
  <2>3. A /\ B /\ C BY <2>1, <2>2
  <2> QED BY <2>3, ShownFrame
<1> QED BY <1>1, <1>2, <1>3, <1>4, <1>5, <1>6, <1>7, <1>8, Kinds

\* At the beginning those who are there see each other.
LEMMA ShownBegins == ASSUME Init PROVE ShownInv
<1>1. \A v \in Conn : phase[v] = IF v \in Veterans THEN "ready" ELSE "none" BY DEF Init
<1>2. \A v, s \in Conn, i \in Ids : seen[v][i] = Player(s) => i = id[s] /\ phase[s] = "ready" /\ v # s
  <2>1. SUFFICES ASSUME NEW v \in Conn, NEW s \in Conn, NEW i \in Ids, seen[v][i] = Player(s)
                 PROVE  i = id[s] /\ phase[s] = "ready" /\ v # s
    OBVIOUS
  <2>2. seen[v][i] # Nothing BY <2>1, RecordsDiffer
  <2>3. PICK d \in Veterans \ {v} : id[d] = i /\ seen[v][i] = Player(d) BY <2>2, Beginning
  <2>4. d = s BY <2>1, <2>3, RecordsDiffer
  <2> QED BY <1>1, <2>3, <2>4
<1>3. \A v, s \in Conn : s \in tab[v] => phase[s] = "ready" /\ v # s
  <2>1. \A v \in Conn : tab[v] = IF v \in Veterans THEN Veterans \ {v} ELSE {} BY Beginning
  <2> QED BY <1>1, <2>1
<1>4. \A v \in Conn : phase[v] # "ready" =>
         table[v] = << >> /\ tab[v] = {} /\ \A i \in Ids : seen[v][i] = Nothing
  <2>1. \A v \in Conn : phase[v] # "ready" => v \notin Veterans BY <1>1
  <2>2. \A v \in Conn \ Veterans : table[v] = << >> BY Beginning
  <2>3. \A v \in Conn \ Veterans : tab[v] = {} BY Beginning
  <2>4. \A v \in Conn \ Veterans : \A i \in Ids : seen[v][i] = Nothing BY Beginning
  <2> QED BY <2>1, <2>2, <2>3, <2>4
<1> QED BY <1>2, <1>3, <1>4 DEF ShownInv

-----------------------------------------------------------------------------
(* The tables of remote players.                                           *)

\* Unless v has forgotten s, what the client of v shows of s has its entry.
Kept(v, s) ==
    /\ s \in tab[v] => \E k \in DOMAIN table[v] : table[v][k].id = id[s] /\ table[v][k].listed
    /\ phase[s] = "ready" /\ seen[v][id[s]] = Player(s) =>
         \/ \E k \in DOMAIN table[v] : table[v][k].id = id[s] /\ table[v][k].spawned
         \/ tickPc = "show" /\ Viewer(turn) = v /\ Subject(turn) = s

\* What the sync holds is the entry of the pair it is at.
Pointing(v) ==
    held.at # 0 /\ Viewer(turn) = v =>
        /\ held.at \in DOMAIN table[v] /\ table[v][held.at].id = id[Subject(turn)]
        /\ tickPc = "show" => table[v][held.at].listed /\ << v, Subject(turn) >> \notin forgot

\* v's table has one entry for each of those it is about, and an entry says
\* what the client shows.
Tidy(v) ==
    /\ \A k, l \in DOMAIN table[v] : table[v][k].id = table[v][l].id => k = l
    /\ \A k \in DOMAIN table[v] : \E s \in Conn :
         /\ phase[s] = "ready" /\ table[v][k].id = id[s]
         /\ table[v][k].listed => s \in tab[v]
         /\ table[v][k].spawned => seen[v][id[s]] = Player(s)
    /\ \A s \in Conn : << v, s >> \notin forgot => Kept(v, s)
    /\ Pointing(v)
\* Unless a number is shared or a table changed under the sync.
TableInv == raced = {} => \A v \in Conn \ crossed : Tidy(v)

\* Without a race, a number is of one thing.
LEMMA Distinct ==
    ASSUME Base, Fresh, raced = {}
    PROVE  /\ \A c, d \in Conn : phase[c] # "none" /\ phase[d] # "none" /\ id[c] = id[d] => c = d
           /\ \A c \in Conn, k \in DOMAIN ground : phase[c] # "none" => ground[k].id # id[c]
BY DEF Fresh, Have

\* Nor is that of an item that a step is about.
LEMMA ItemsApart ==
    ASSUME Base, Base', Fresh, Fresh', raced = {}, raced' = {}, [Next]_vars
    PROVE  \A c \in Conn : phase[c] # "none" => id[c] \notin ItemIds
<1>1. \A c \in Conn, k \in DOMAIN ground : phase[c] # "none" => ground[k].id # id[c] BY Distinct
<1>2. \A c \in Conn, k \in DOMAIN ground' : phase'[c] # "none" => ground'[k].id # id'[c]
  BY DEF Fresh, Have
<1>3. \A c \in Conn : phase[c] # "none" => phase'[c] # "none" /\ id'[c] = id[c] BY ReadyStays
<1> QED BY <1>1, <1>2, <1>3 DEF ItemIds

\* A step that leaves the table of v, and what its client shows of players.
LEMMA TidyFrame ==
    ASSUME Base, ShownInv, Base', [Next]_vars, NEW v \in Conn, Tidy(v),
           table'[v] = table[v], tab'[v] = tab[v],
           \A s \in Conn : phase[s] = "ready" => seen'[v][id[s]] = seen[v][id[s]],
           \A s \in Conn, i \in Ids : seen'[v][i] = Player(s) => seen[v][i] = Player(s),
           \A s \in Conn : << v, s >> \in forgot => << v, s >> \in forgot',
           held'.at # 0 /\ Viewer(turn)' = v =>
               /\ held.at = held'.at /\ Viewer(turn) = v /\ Subject(turn)' = Subject(turn) /\ tickPc' = tickPc
               /\ \A s \in Conn : << v, s >> \in forgot' => << v, s >> \in forgot,
           tickPc = "show" /\ Viewer(turn) = v =>
               tickPc' = "show" /\ Viewer(turn)' = v /\ Subject(turn)' = Subject(turn)
    PROVE  Tidy(v)'
<1>1. \A s \in Conn : phase[s] = "ready" => phase'[s] = "ready" /\ id'[s] = id[s] /\ id[s] \in Ids
  BY ReadyStays, Numbers
<1>2. \A k, l \in DOMAIN table'[v] : table'[v][k].id = table'[v][l].id => k = l BY DEF Tidy
<1>3. \A k \in DOMAIN table'[v] : \E s \in Conn :
         /\ phase'[s] = "ready" /\ table'[v][k].id = id'[s]
         /\ table'[v][k].listed => s \in tab'[v]
         /\ table'[v][k].spawned => seen'[v][id'[s]] = Player(s)
  <2>1. SUFFICES ASSUME NEW k \in DOMAIN table[v]
                 PROVE  \E s \in Conn : /\ phase'[s] = "ready" /\ table[v][k].id = id'[s]
                                        /\ table[v][k].listed => s \in tab[v]
                                        /\ table[v][k].spawned => seen'[v][id'[s]] = Player(s)
    OBVIOUS
  <2>2. PICK s \in Conn : /\ phase[s] = "ready" /\ table[v][k].id = id[s]
                          /\ table[v][k].listed => s \in tab[v]
                          /\ table[v][k].spawned => seen[v][id[s]] = Player(s)
    BY DEF Tidy
  <2>3. phase'[s] = "ready" /\ id'[s] = id[s] /\ seen'[v][id[s]] = seen[v][id[s]] BY <1>1, <2>2
  <2> QED BY <2>2, <2>3
<1>4. ASSUME NEW s \in Conn, << v, s >> \notin forgot' PROVE Kept(v, s)'
  <2>1. Kept(v, s) BY <1>4 DEF Tidy
  <2>2. s \in tab[v] => phase[s] = "ready" BY DEF ShownInv
  <2>3. phase'[s] = "ready" /\ seen'[v][id'[s]] = Player(s) => phase[s] = "ready" /\ seen[v][id[s]] = Player(s)
    <3>1. phase'[s] = "ready" => id'[s] \in Ids
      <4>1. \A c \in Conn : phase'[c] # "none" => id'[c] \in Ids BY DEF Base, NumberInv, Have, TypeOK
      <4> QED BY <4>1
    <3> QED BY <3>1 DEF ShownInv
  <2>4. s \in tab'[v] => \E k \in DOMAIN table'[v] : table'[v][k].id = id'[s] /\ table'[v][k].listed
    BY <1>1, <2>1, <2>2 DEF Kept
  <2>5. phase'[s] = "ready" /\ seen'[v][id'[s]] = Player(s) =>
         \/ \E k \in DOMAIN table'[v] : table'[v][k].id = id'[s] /\ table'[v][k].spawned
         \/ tickPc' = "show" /\ Viewer(turn)' = v /\ Subject(turn)' = s
    BY <1>1, <2>1, <2>3 DEF Kept
  <2> QED BY <2>4, <2>5 DEF Kept
<1>5. Pointing(v)'
  <2>1. Pointing(v) BY DEF Tidy
  <2>2. held'.at # 0 /\ Viewer(turn)' = v => Subject(turn) \in Conn /\ phase[Subject(turn)] = "ready"
    BY PairAtHand DEF Base, TickInv
  <2> QED BY <1>1, <2>1, <2>2 DEF Pointing
<1> QED BY <1>2, <1>3, <1>4, <1>5 DEF Tidy

\* The places of a table without one of its entries.
LEMMA WithoutPlaces ==
    ASSUME NEW t \in Seq(Entry), NEW k \in DOMAIN t, \A i, j \in DOMAIN t : t[i].id = t[j].id => i = j
    PROVE  /\ \A i \in DOMAIN Without(t, k) : \E j \in DOMAIN t \ {k} : Without(t, k)[i] = t[j]
           /\ \A j \in DOMAIN t \ {k} : \E i \in DOMAIN Without(t, k) : Without(t, k)[i] = t[j]
           /\ \A i, j \in DOMAIN Without(t, k) : Without(t, k)[i].id = Without(t, k)[j].id => i = j
<1> DEFINE w == Without(t, k)
           n == Len(t)
<1>1. /\ n \in Nat \ {0} /\ k \in 1 .. n /\ DOMAIN t = 1 .. n /\ DOMAIN w = 1 .. n - 1
      /\ \A i \in 1 .. n - 1 : w[i] = IF i = k THEN t[n] ELSE t[i]
  BY WithoutElements
<1> HIDE DEF w, n
<1>2. \A i \in 1 .. n - 1 : \E j \in 1 .. n : j # k /\ w[i] = t[j] /\ j = IF i = k THEN n ELSE i
  BY <1>1
<1>3. \A j \in 1 .. n : j # k => \E i \in 1 .. n - 1 : w[i] = t[j]
  <2>1. SUFFICES ASSUME NEW j \in 1 .. n, j # k PROVE \E i \in 1 .. n - 1 : w[i] = t[j] OBVIOUS
  <2>2. CASE j = n
    <3>1. k \in 1 .. n - 1 /\ w[k] = t[j] BY <1>1, <2>1, <2>2
    <3> QED BY <3>1
  <2>3. CASE j # n
    <3>1. j \in 1 .. n - 1 /\ w[j] = t[j] BY <1>1, <2>1, <2>3
    <3> QED BY <3>1
  <2> QED BY <2>2, <2>3
<1>4. ASSUME NEW i \in 1 .. n - 1, NEW j \in 1 .. n - 1, w[i].id = w[j].id PROVE i = j
  <2>1. PICK a \in 1 .. n : a # k /\ w[i] = t[a] /\ a = IF i = k THEN n ELSE i BY <1>2
  <2>2. PICK b \in 1 .. n : b # k /\ w[j] = t[b] /\ b = IF j = k THEN n ELSE j BY <1>2
  <2>3. a = b BY <1>1, <1>4, <2>1, <2>2
  <2> QED BY <1>1, <2>1, <2>2, <2>3
<1>5. \A i, j \in DOMAIN w : w[i].id = w[j].id => i = j BY <1>1, <1>4
<1>6. \A i \in DOMAIN w : \E j \in DOMAIN t \ {k} : w[i] = t[j] BY <1>1, <1>2
<1>7. \A j \in DOMAIN t \ {k} : \E i \in DOMAIN w : w[i] = t[j] BY <1>1, <1>3
<1> QED BY <1>5, <1>6, <1>7 DEF w

\* One who leaves is taken out of v's table.
LEMMA TidyUnsee ==
    ASSUME Base, Fresh, ShownInv, raced = {}, Unsee, NEW v \in Conn, Tidy(v), v \notin crossed',
           RemoveRemote(v, netConn), At(v, id[netConn]) # 0
    PROVE  Tidy(v)'
<1> DEFINE s0 == netConn
           k0 == At(v, id[s0])
           t == table[v]
<1>1. /\ s0 \in Conn /\ Listed(s0) /\ id[s0] \in Ids
      /\ UNCHANGED << id, phase, forgot, held, tickPc, turn, snapshot >>
  BY UnseeSteps
<1>2. phase[s0] # "none" BY <1>1 DEF Base, ListInv, Listed
<1>3. /\ k0 \in DOMAIN t /\ t[k0].id = id[s0]
      /\ table'[v] = Without(t, k0)
      /\ \A i \in Ids : seen'[v][i] = IF i = id[s0] /\ t[k0].spawned THEN Nothing ELSE seen[v][i]
      /\ tab'[v] = IF t[k0].listed THEN tab[v] \ {s0} ELSE tab[v]
      /\ crossed' = Crossed(v)
  BY <1>1, Removed DEF Base
<1>4. t \in Seq(Entry) BY DEF Base, TypeOK
<1>5. \A k, l \in DOMAIN t : t[k].id = t[l].id => k = l BY DEF Tidy
<1>6. /\ \A i \in DOMAIN table'[v] : \E j \in DOMAIN t \ {k0} : table'[v][i] = t[j]
      /\ \A j \in DOMAIN t \ {k0} : \E i \in DOMAIN table'[v] : table'[v][i] = t[j]
      /\ \A i, j \in DOMAIN table'[v] : table'[v][i].id = table'[v][j].id => i = j
  <2> DEFINE w == Without(t, k0)
  <2>1. table'[v] = w /\ k0 \in DOMAIN t BY <1>3
  <2>2. /\ \A i \in DOMAIN w : \E j \in DOMAIN t \ {k0} : w[i] = t[j]
        /\ \A j \in DOMAIN t \ {k0} : \E i \in DOMAIN w : w[i] = t[j]
        /\ \A i, j \in DOMAIN w : w[i].id = w[j].id => i = j
    BY <1>4, <1>5, <2>1, WithoutPlaces
  <2> HIDE DEF w, k0, t
  <2> QED BY <2>1, <2>2
<1>7. ~(held.at # 0 /\ Viewer(turn) = v) BY <1>3 DEF Crossed
<1>8. tickPc = "show" => held.at # 0 BY DEF Base, TickInv
<1>9. \A c \in Conn : phase[c] = "ready" /\ c # s0 => id[c] # id[s0] /\ id[c] \in Ids
  BY <1>1, <1>2, Distinct, Numbers
<1>10. \A c \in Conn : Player(c) # Nothing BY RecordsDiffer
<1> HIDE DEF s0, k0, t
<1>11. \A i \in DOMAIN table'[v] : \E s \in Conn :
         /\ phase'[s] = "ready" /\ table'[v][i].id = id'[s]
         /\ table'[v][i].listed => s \in tab'[v]
         /\ table'[v][i].spawned => seen'[v][id'[s]] = Player(s)
  <2>1. SUFFICES ASSUME NEW i \in DOMAIN table'[v]
                 PROVE  \E s \in Conn : /\ phase[s] = "ready" /\ table'[v][i].id = id[s]
                                        /\ table'[v][i].listed => s \in tab'[v]
                                        /\ table'[v][i].spawned => seen'[v][id[s]] = Player(s)
    BY <1>1
  <2>2. PICK j \in DOMAIN t \ {k0} : table'[v][i] = t[j] BY <1>6
  <2>3. PICK s \in Conn : /\ phase[s] = "ready" /\ t[j].id = id[s]
                          /\ t[j].listed => s \in tab[v]
                          /\ t[j].spawned => seen[v][id[s]] = Player(s)
    BY <2>2 DEF Tidy, t
  <2>4. s # s0 BY <1>3, <1>5, <2>2, <2>3
  <2>5. seen'[v][id[s]] = seen[v][id[s]] /\ (s \in tab[v] => s \in tab'[v]) BY <1>3, <1>9, <2>3, <2>4
  <2> QED BY <2>2, <2>3, <2>5
<1>12. ASSUME NEW s \in Conn, << v, s >> \notin forgot' PROVE Kept(v, s)'
  <2>1. /\ s \in tab[v] => \E k \in DOMAIN t : t[k].id = id[s] /\ t[k].listed
        /\ phase[s] = "ready" /\ seen[v][id[s]] = Player(s) =>
             \/ \E k \in DOMAIN t : t[k].id = id[s] /\ t[k].spawned
             \/ tickPc = "show" /\ Viewer(turn) = v /\ Subject(turn) = s
    BY <1>1, <1>12 DEF Tidy, Kept, t
  <2>2. s \in tab[v] => phase[s] = "ready" BY DEF ShownInv
  <2>3. s \in tab'[v] => \E i \in DOMAIN table'[v] : table'[v][i].id = id'[s] /\ table'[v][i].listed
    <3>1. CASE s = s0 BY <1>3, <1>5, <2>1, <3>1
    <3>2. CASE s # s0 /\ s \in tab'[v]
      <4>1. s \in tab[v] BY <1>3, <3>2
      <4>2. PICK k \in DOMAIN t : t[k].id = id[s] /\ t[k].listed BY <2>1, <4>1
      <4>3. k # k0 BY <1>3, <1>9, <2>2, <3>2, <4>1, <4>2
      <4> QED BY <1>1, <1>6, <4>2, <4>3
    <3> QED BY <3>1, <3>2
  <2>4. phase[s] = "ready" /\ seen'[v][id[s]] = Player(s) =>
          \E i \in DOMAIN table'[v] : table'[v][i].id = id'[s] /\ table'[v][i].spawned
    <3>1. SUFFICES ASSUME phase[s] = "ready", seen'[v][id[s]] = Player(s)
                   PROVE  \E i \in DOMAIN table'[v] : table'[v][i].id = id'[s] /\ table'[v][i].spawned
      OBVIOUS
    <3>2. id[s] \in Ids BY <3>1, Numbers DEF Base
    <3>3. seen[v][id[s]] = Player(s) BY <1>3, <1>10, <3>1, <3>2
    <3>4. PICK k \in DOMAIN t : t[k].id = id[s] /\ t[k].spawned BY <1>7, <1>8, <2>1, <3>1, <3>3
    <3>5. k # k0
      <4>1. CASE s = s0 BY <1>3, <1>10, <3>1, <3>2, <3>4, <4>1
      <4>2. CASE s # s0 BY <1>3, <1>9, <3>1, <3>4, <4>2
      <4> QED BY <4>1, <4>2
    <3> QED BY <1>1, <1>6, <3>4, <3>5
  <2> QED BY <1>1, <2>3, <2>4 DEF Kept
<1>13. Pointing(v)' BY <1>1, <1>7 DEF Pointing, Viewer
<1> QED BY <1>6, <1>11, <1>12, <1>13 DEF Tidy

\* A client that is told of nobody has a tidy table.
LEMMA TidyEmpty ==
    ASSUME NEW v \in Conn, table'[v] = << >>, Base', held'.at # 0 => Viewer(turn)' # v,
           \A s \in Conn : << v, s >> \notin forgot' => s \notin tab'[v] /\ \A i \in Ids : seen'[v][i] # Player(s)
    PROVE  Tidy(v)'
<1>1. \A s \in Conn : phase'[s] = "ready" => id'[s] \in Ids BY DEF Base, NumberInv, Have, TypeOK
<1>2. \A s \in Conn : << v, s >> \notin forgot' => Kept(v, s)' BY <1>1 DEF Kept
<1>3. Pointing(v)' BY DEF Pointing
<1>4. DOMAIN table'[v] = {} OBVIOUS
<1> QED BY <1>2, <1>3, <1>4 DEF Tidy

\* A dead player's entry is marked as not shown.
LEMMA TidyHide ==
    ASSUME Base, Fresh, ShownInv, raced = {}, Sync, NEW v \in Conn, Tidy(v), NEW s0 \in Conn,
           v = Viewer(Min(Pairs)), s0 = Subject(Min(Pairs)), HideDead(v, s0), tickPc' = "sync", held'.at = 0
    PROVE  Tidy(v)'
<1> DEFINE k0 == At(v, id[s0])
           t == table[v]
<1>1. /\ phase[v] = "ready" /\ phase[s0] = "ready" /\ id[s0] \in Ids /\ tickPc = "sync" /\ held.at = 0
      /\ UNCHANGED << id, phase, tab, forgot >>
  BY SyncSteps
<1>2. id[s0] # 0 BY <1>1, Numbers
<1>3. /\ DOMAIN table'[v] = DOMAIN t
      /\ \A k \in DOMAIN t : /\ table'[v][k].id = t[k].id /\ table'[v][k].listed = t[k].listed
                             /\ table'[v][k].spawned = (t[k].spawned /\ k # k0)
      /\ \A i \in Ids : seen'[v][i] = IF i = id[s0] /\ k0 # 0 /\ t[k0].spawned THEN Nothing ELSE seen[v][i]
  BY <1>2, Hidden DEF Base
<1>4. k0 # 0 => k0 \in DOMAIN t /\ t[k0].id = id[s0] BY Found DEF Base
<1>5. k0 = 0 => \A k \in DOMAIN t : t[k].id # id[s0] BY Found DEF Base
<1>6. \A k, l \in DOMAIN t : t[k].id = t[l].id => k = l BY DEF Tidy
<1>7. \A c \in Conn : phase[c] = "ready" => id[c] \in Ids /\ (id[c] = id[s0] => c = s0)
  BY <1>1, Distinct, Numbers
<1>8. \A c \in Conn : Player(c) # Nothing BY RecordsDiffer
<1>13. 0 \notin DOMAIN t BY DEF Base, TypeOK
<1> HIDE DEF k0, t
<1>9. \A k, l \in DOMAIN table'[v] : table'[v][k].id = table'[v][l].id => k = l
  <2>1. DOMAIN table'[v] = DOMAIN t /\ \A k \in DOMAIN t : table'[v][k].id = t[k].id BY <1>3
  <2> QED BY <1>6, <2>1
<1>10. \A k \in DOMAIN table'[v] : \E s \in Conn :
         /\ phase'[s] = "ready" /\ table'[v][k].id = id'[s]
         /\ table'[v][k].listed => s \in tab'[v]
         /\ table'[v][k].spawned => seen'[v][id'[s]] = Player(s)
  <2>1. SUFFICES ASSUME NEW k \in DOMAIN t
                 PROVE  \E s \in Conn : /\ phase'[s] = "ready" /\ table'[v][k].id = id'[s]
                                        /\ table'[v][k].listed => s \in tab'[v]
                                        /\ table'[v][k].spawned => seen'[v][id'[s]] = Player(s)
    BY <1>3
  <2>2. PICK s \in Conn : /\ phase[s] = "ready" /\ t[k].id = id[s]
                          /\ t[k].listed => s \in tab[v]
                          /\ t[k].spawned => seen[v][id[s]] = Player(s)
    BY DEF Tidy, t
  <2>3. k # k0 => seen'[v][id[s]] = seen[v][id[s]] BY <1>3, <1>4, <1>6, <1>7, <2>2
  <2>4. /\ table'[v][k].id = t[k].id
        /\ table'[v][k].listed <=> t[k].listed
        /\ table'[v][k].spawned => t[k].spawned /\ k # k0
    BY <1>3
  <2>5. phase'[s] = "ready" /\ id'[s] = id[s] /\ tab' = tab BY <1>1, <2>2
  <2> QED BY <2>2, <2>3, <2>4, <2>5
<1>11. ASSUME NEW s \in Conn, << v, s >> \notin forgot' PROVE Kept(v, s)'
  <2>1. /\ s \in tab[v] => \E k \in DOMAIN t : t[k].id = id[s] /\ t[k].listed
        /\ phase[s] = "ready" /\ seen[v][id[s]] = Player(s) =>
             \E k \in DOMAIN t : t[k].id = id[s] /\ t[k].spawned
    BY <1>1, <1>11 DEF Tidy, Kept, t
  <2>2. s \in tab'[v] => \E k \in DOMAIN table'[v] : table'[v][k].id = id'[s] /\ table'[v][k].listed
    BY <1>1, <1>3, <2>1
  <2>3. phase[s] = "ready" /\ seen'[v][id[s]] = Player(s) =>
          \E k \in DOMAIN table'[v] : table'[v][k].id = id'[s] /\ table'[v][k].spawned
    <3>1. SUFFICES ASSUME phase[s] = "ready", seen'[v][id[s]] = Player(s)
                   PROVE  \E k \in DOMAIN t : t[k].id = id[s] /\ t[k].spawned /\ k # k0
      <4>1. \A k \in DOMAIN t : table'[v][k].id = t[k].id /\ (t[k].spawned /\ k # k0 => table'[v][k].spawned)
        BY <1>3
      <4>2. DOMAIN table'[v] = DOMAIN t BY <1>3
      <4> QED BY <1>1, <4>1, <4>2
    <3>2. seen[v][id[s]] = Player(s) BY <1>3, <1>7, <1>8, <3>1
    <3>3. PICK k \in DOMAIN t : t[k].id = id[s] /\ t[k].spawned BY <2>1, <3>1, <3>2
    <3>4. ASSUME k = k0 PROVE FALSE
      <4>1. k0 \in DOMAIN t /\ t[k0].id = id[s0] /\ id[s] = id[s0] /\ k0 # 0
        BY <1>4, <1>13, <3>3, <3>4
      <4>2. seen'[v][id[s]] = Nothing BY <1>1, <1>3, <3>3, <3>4, <4>1
      <4> QED BY <1>8, <3>1, <4>2
    <3> QED BY <3>3, <3>4
  <2> QED BY <1>1, <2>2, <2>3 DEF Kept
<1>12. Pointing(v)' BY DEF Pointing
<1> QED BY <1>9, <1>10, <1>11, <1>12 DEF Tidy

\* The sync finds or makes an entry.
LEMMA TidyEnsure ==
    ASSUME Base, Sync, NEW v \in Conn, Tidy(v), v = Viewer(Min(Pairs)), Subject(Min(Pairs)) \notin dead
    PROVE  Tidy(v)'
<1> DEFINE s0 == Subject(Min(Pairs))
           t == table[v]
           n == Len(t)
           r == table'[v]
<1>1. /\ s0 \in Conn /\ phase[s0] = "ready" /\ id[s0] \in Ids /\ tickPc = "sync"
      /\ UNCHANGED << id, phase, tab, forgot, seen, snapshot >> /\ turn' = Min(Pairs) /\ tickPc' = "list"
      /\ Ensure(v, s0)
  BY SyncSteps
<1>2. id[s0] # 0 BY <1>1, Numbers
<1>3. /\ held'.at \in DOMAIN r /\ r[held'.at].id = id[s0] /\ n \in Nat /\ DOMAIN t = 1 .. n
      /\ \/ r = t
         \/ /\ \A k \in DOMAIN t : t[k].id # id[s0]
            /\ DOMAIN r = 1 .. n + 1 /\ \A k \in 1 .. n : r[k] = t[k]
            /\ r[n + 1] = [id |-> id[s0], listed |-> FALSE, spawned |-> FALSE]
  BY <1>1, <1>2, Ensured DEF Base
<1>4. Viewer(turn)' = v /\ Subject(turn)' = s0 BY <1>1 DEF Viewer, Subject
<1> HIDE DEF s0, t, n, r
<1>5. \A k \in DOMAIN t : k \in DOMAIN r /\ r[k] = t[k] BY <1>3
<1>6. \A k \in DOMAIN r : k \in DOMAIN t \/
         (/\ \A l \in DOMAIN t : t[l].id # id[s0]
          /\ k = n + 1 /\ r[k].id = id[s0] /\ ~r[k].listed /\ ~r[k].spawned)
  BY <1>3
<1>7. \A k, l \in DOMAIN r : r[k].id = r[l].id => k = l
  <2>1. \A k, l \in DOMAIN t : t[k].id = t[l].id => k = l BY DEF Tidy, t
  <2> QED BY <1>5, <1>6, <2>1
<1>8. \A k \in DOMAIN r : \E s \in Conn :
         /\ phase'[s] = "ready" /\ r[k].id = id'[s]
         /\ r[k].listed => s \in tab'[v]
         /\ r[k].spawned => seen'[v][id'[s]] = Player(s)
  <2>1. \A k \in DOMAIN t : \E s \in Conn :
         /\ phase[s] = "ready" /\ t[k].id = id[s]
         /\ t[k].listed => s \in tab[v]
         /\ t[k].spawned => seen[v][id[s]] = Player(s)
    BY DEF Tidy, t
  <2> QED BY <1>1, <1>5, <1>6, <2>1
<1>9. ASSUME NEW s \in Conn, << v, s >> \notin forgot' PROVE Kept(v, s)'
  <2>1. /\ s \in tab[v] => \E k \in DOMAIN t : t[k].id = id[s] /\ t[k].listed
        /\ phase[s] = "ready" /\ seen[v][id[s]] = Player(s) =>
             \E k \in DOMAIN t : t[k].id = id[s] /\ t[k].spawned
    BY <1>1, <1>9 DEF Tidy, Kept, t
  <2>2. s \in tab'[v] => \E k \in DOMAIN r : r[k].id = id'[s] /\ r[k].listed BY <1>1, <1>5, <2>1
  <2>3. phase'[s] = "ready" /\ seen'[v][id'[s]] = Player(s) =>
          \E k \in DOMAIN r : r[k].id = id'[s] /\ r[k].spawned
    BY <1>1, <1>5, <2>1
  <2> QED BY <2>2, <2>3 DEF Kept, r
<1>10. Pointing(v)' BY <1>1, <1>3, <1>4 DEF Pointing, r
<1> QED BY <1>7, <1>8, <1>9, <1>10 DEF Tidy, r

\* The subject is listed for the viewer, and its entry says so.
LEMMA TidyList ==
    ASSUME Base, Fresh, ShownInv, raced = {}, List, NEW v \in Conn, Tidy(v), v = Viewer(turn)
    PROVE  Tidy(v)'
<1> DEFINE s0 == Subject(turn)
           t == table[v]
           r == table'[v]
           a == held.at
<1>1. /\ s0 \in Conn /\ phase[s0] = "ready" /\ id[s0] \in Ids /\ tickPc = "list" /\ a # 0
      /\ UNCHANGED << id, phase, seen, turn, snapshot >> /\ held'.at = a /\ tickPc' = "show"
      /\ forgot' = forgot \ {<< v, s0 >>}
      /\ tab'[v] = IF Pointed(v).listed THEN tab[v] ELSE tab[v] \cup {s0}
      /\ a \in DOMAIN t =>
                    /\ Pointed(v).listed = t[a].listed /\ DOMAIN r = DOMAIN t
                    /\ \A k \in DOMAIN t : /\ r[k].id = t[k].id /\ r[k].listed = (t[k].listed \/ k = a)
                                           /\ r[k].spawned = t[k].spawned
  BY ListSteps
<1>2. a \in DOMAIN t /\ t[a].id = id[s0] BY <1>1 DEF Tidy, Pointing
<1>3. Viewer(turn)' = v /\ Subject(turn)' = s0 BY <1>1 DEF Viewer, Subject
<1>4. \A c \in Conn : phase[c] = "ready" => (id[c] = id[s0] => c = s0) BY <1>1, Distinct
<1>5. \A k, l \in DOMAIN t : t[k].id = t[l].id => k = l BY DEF Tidy
<1> HIDE DEF s0, t, r, a
<1>6. /\ DOMAIN r = DOMAIN t /\ Pointed(v).listed = t[a].listed
      /\ \A k \in DOMAIN t : /\ r[k].id = t[k].id /\ r[k].listed = (t[k].listed \/ k = a)
                             /\ r[k].spawned = t[k].spawned
  BY <1>1, <1>2
<1>7. \A k, l \in DOMAIN r : r[k].id = r[l].id => k = l BY <1>5, <1>6
<1>8. \A k \in DOMAIN r : \E s \in Conn :
         /\ phase'[s] = "ready" /\ r[k].id = id'[s]
         /\ r[k].listed => s \in tab'[v]
         /\ r[k].spawned => seen'[v][id'[s]] = Player(s)
  <2>1. SUFFICES ASSUME NEW k \in DOMAIN t
                 PROVE  \E s \in Conn : /\ phase'[s] = "ready" /\ r[k].id = id'[s]
                                        /\ r[k].listed => s \in tab'[v]
                                        /\ r[k].spawned => seen'[v][id'[s]] = Player(s)
    BY <1>6
  <2>2. PICK s \in Conn : /\ phase[s] = "ready" /\ t[k].id = id[s]
                          /\ t[k].listed => s \in tab[v]
                          /\ t[k].spawned => seen[v][id[s]] = Player(s)
    BY DEF Tidy, t
  <2>3. t[k].listed => s \in tab'[v] BY <1>1, <2>2
  <2>4. k = a => s \in tab'[v]
    <3>1. k = a => s = s0 BY <1>2, <1>4, <2>2
    <3> QED BY <1>1, <1>6, <2>2, <3>1
  <2>5. /\ r[k].id = t[k].id
        /\ r[k].listed => t[k].listed \/ k = a
        /\ r[k].spawned <=> t[k].spawned
    BY <1>6
  <2>6. phase'[s] = "ready" /\ id'[s] = id[s] /\ seen' = seen BY <1>1, <2>2
  <2> QED BY <2>2, <2>3, <2>4, <2>5, <2>6
<1>9. ASSUME NEW s \in Conn, << v, s >> \notin forgot' PROVE Kept(v, s)'
  <2>1. CASE s = s0
    <3>1. r[a].listed /\ r[a].id = id'[s] /\ a \in DOMAIN r BY <1>1, <1>2, <1>6, <2>1
    <3>2. s \in tab'[v] => \E k \in DOMAIN r : r[k].id = id'[s] /\ r[k].listed BY <3>1
    <3> QED BY <1>1, <1>3, <2>1, <3>2 DEF Kept, r
  <2>2. CASE s # s0
    <3>1. << v, s >> \notin forgot BY <1>1, <1>9, <2>2
    <3>2. /\ s \in tab[v] => \E k \in DOMAIN t : t[k].id = id[s] /\ t[k].listed
          /\ phase[s] = "ready" /\ seen[v][id[s]] = Player(s) =>
               \E k \in DOMAIN t : t[k].id = id[s] /\ t[k].spawned
      BY <1>1, <3>1 DEF Tidy, Kept, t
    <3>3. s \in tab'[v] => s \in tab[v] BY <1>1, <2>2
    <3>4. s \in tab'[v] => \E k \in DOMAIN r : r[k].id = id'[s] /\ r[k].listed BY <1>1, <1>6, <3>2, <3>3
    <3>5. phase'[s] = "ready" /\ seen'[v][id'[s]] = Player(s) =>
            \E k \in DOMAIN r : r[k].id = id'[s] /\ r[k].spawned
      BY <1>1, <1>6, <3>2
    <3> QED BY <3>4, <3>5 DEF Kept, r
  <2> QED BY <2>1, <2>2
<1>10. Pointing(v)'
  <2>1. r[a].listed /\ r[a].id = id[s0] /\ a \in DOMAIN r /\ << v, s0 >> \notin forgot' BY <1>1, <1>2, <1>6
  <2> QED BY <1>1, <1>3, <2>1 DEF Pointing, r
<1> QED BY <1>7, <1>8, <1>9, <1>10 DEF Tidy, r

\* The subject is shown to the viewer, and its entry says so.
LEMMA TidyShow ==
    ASSUME Base, Fresh, ShownInv, raced = {}, Show, NEW v \in Conn, Tidy(v), v = Viewer(turn)
    PROVE  Tidy(v)'
<1> DEFINE s0 == Subject(turn)
           t == table[v]
           r == table'[v]
           a == held.at
<1>1. /\ s0 \in Conn /\ phase[s0] = "ready" /\ id[s0] \in Ids /\ tickPc = "show" /\ a # 0
      /\ UNCHANGED << id, phase, tab, snapshot, forgot >> /\ held'.at = 0 /\ tickPc' = "sync"
      /\ \A i \in Ids : seen'[v][i] = IF ~Pointed(v).spawned /\ i = id[s0] THEN Player(s0) ELSE seen[v][i]
      /\ a \in DOMAIN t =>
                    /\ Pointed(v).spawned = t[a].spawned /\ DOMAIN r = DOMAIN t
                    /\ \A k \in DOMAIN t : /\ r[k].id = t[k].id /\ r[k].listed = t[k].listed
                                           /\ r[k].spawned = (t[k].spawned \/ k = a)
  BY ShowSteps
<1>2. a \in DOMAIN t /\ t[a].id = id[s0] BY <1>1 DEF Tidy, Pointing
<1>3. \A c \in Conn : phase[c] = "ready" => id[c] \in Ids /\ (id[c] = id[s0] => c = s0)
  BY <1>1, Distinct, Numbers
<1>4. \A k, l \in DOMAIN t : t[k].id = t[l].id => k = l BY DEF Tidy
<1> HIDE DEF s0, t, r, a
<1>5. /\ DOMAIN r = DOMAIN t /\ Pointed(v).spawned = t[a].spawned
      /\ \A k \in DOMAIN t : /\ r[k].id = t[k].id /\ r[k].listed = t[k].listed
                             /\ r[k].spawned = (t[k].spawned \/ k = a)
  BY <1>1, <1>2
<1>6. \A k, l \in DOMAIN r : r[k].id = r[l].id => k = l BY <1>4, <1>5
<1>7. \A k \in DOMAIN r : \E s \in Conn :
         /\ phase'[s] = "ready" /\ r[k].id = id'[s]
         /\ r[k].listed => s \in tab'[v]
         /\ r[k].spawned => seen'[v][id'[s]] = Player(s)
  <2>1. SUFFICES ASSUME NEW k \in DOMAIN t
                 PROVE  \E s \in Conn : /\ phase'[s] = "ready" /\ r[k].id = id'[s]
                                        /\ r[k].listed => s \in tab'[v]
                                        /\ r[k].spawned => seen'[v][id'[s]] = Player(s)
    BY <1>5
  <2>2. PICK s \in Conn : /\ phase[s] = "ready" /\ t[k].id = id[s]
                          /\ t[k].listed => s \in tab[v]
                          /\ t[k].spawned => seen[v][id[s]] = Player(s)
    BY DEF Tidy, t
  <2>3. k = a => seen'[v][id[s]] = Player(s)
    <3>1. SUFFICES ASSUME k = a PROVE seen'[v][id[s]] = Player(s) OBVIOUS
    <3>2. s = s0 BY <1>2, <1>3, <2>2, <3>1
    <3> QED BY <1>1, <1>5, <2>2, <3>1, <3>2
  <2>4. k # a => seen'[v][id[s]] = seen[v][id[s]]
    <3>1. k # a => id[s] # id[s0] BY <1>2, <1>4, <2>2
    <3> QED BY <1>1, <1>3, <2>2, <3>1
  <2>5. /\ r[k].id = t[k].id
        /\ r[k].listed <=> t[k].listed
        /\ r[k].spawned => t[k].spawned \/ k = a
    BY <1>5
  <2>6. phase'[s] = "ready" /\ id'[s] = id[s] /\ tab' = tab BY <1>1, <2>2
  <2> QED BY <2>2, <2>3, <2>4, <2>5, <2>6
<1>8. ASSUME NEW s \in Conn, << v, s >> \notin forgot' PROVE Kept(v, s)'
  <2>1. /\ s \in tab[v] => \E k \in DOMAIN t : t[k].id = id[s] /\ t[k].listed
        /\ phase[s] = "ready" /\ seen[v][id[s]] = Player(s) =>
             \/ \E k \in DOMAIN t : t[k].id = id[s] /\ t[k].spawned
             \/ s = s0
    BY <1>1, <1>8 DEF Tidy, Kept, t, s0
  <2>2. s \in tab'[v] => \E k \in DOMAIN r : r[k].id = id'[s] /\ r[k].listed BY <1>1, <1>5, <2>1
  <2>3. s = s0 => \E k \in DOMAIN r : r[k].id = id'[s] /\ r[k].spawned BY <1>1, <1>2, <1>5
  <2>4. s # s0 /\ phase'[s] = "ready" /\ seen'[v][id'[s]] = Player(s) =>
          \E k \in DOMAIN r : r[k].id = id'[s] /\ r[k].spawned
    <3>1. s # s0 /\ phase[s] = "ready" => seen'[v][id[s]] = seen[v][id[s]] BY <1>1, <1>3
    <3> QED BY <1>1, <1>5, <2>1, <3>1
  <2> QED BY <2>2, <2>3, <2>4 DEF Kept, r
<1>9. Pointing(v)' BY <1>1 DEF Pointing
<1> QED BY <1>6, <1>7, <1>8, <1>9 DEF Tidy, r

\* Every step.
LEMMA TableHolds ==
    ASSUME Base, Fresh, ShownInv, TableInv, Base', Fresh', [Next]_vars
    PROVE  TableInv'
<1>1. SUFFICES ASSUME raced' = {}, NEW v \in Conn, v \notin crossed' PROVE Tidy(v)'
  BY DEF TableInv
<1>2. raced = {} /\ v \notin crossed BY <1>1, HistoryGrows
<1>3. Tidy(v) BY <1>2 DEF TableInv
<1>4. tickPc = "show" => held.at # 0 BY DEF Base, TickInv
<1>5. CASE Quiet
  <2>1. /\ UNCHANGED << seen, tab, table, forgot, held >> /\ (held.at = 0 \/ UNCHANGED << tickPc, turn, snapshot >>)
    BY <1>5, QuietSteps
  <2>2. held.at # 0 => Viewer(turn)' = Viewer(turn) /\ Subject(turn)' = Subject(turn) /\ tickPc' = tickPc
    BY <2>1 DEF Viewer, Subject
  <2> QED BY <1>3, <1>4, <2>1, <2>2, TidyFrame
<1>6. CASE Grounded
  <2>1. /\ UNCHANGED << tab, table, forgot, held, id >> /\ held.at = 0
        /\ \A i \in Ids : \/ seen'[v][i] = seen[v][i]
                          \/ i \in ItemIds /\ \A s \in Conn : seen'[v][i] # Player(s)
    BY <1>6, GroundedSteps
  <2>2. \A s \in Conn : phase[s] = "ready" => id[s] \in Ids /\ id[s] \notin ItemIds
    BY <1>1, <1>2, ItemsApart, Numbers
  <2>3. \A s \in Conn : phase[s] = "ready" => seen'[v][id[s]] = seen[v][id[s]] BY <2>1, <2>2
  <2>4. \A s \in Conn, i \in Ids : seen'[v][i] = Player(s) => seen[v][i] = Player(s) BY <2>1
  <2> QED BY <1>3, <1>4, <2>1, <2>3, <2>4, TidyFrame
<1>7. CASE Unsee
  <2>1. /\ UNCHANGED << id, forgot, held, tickPc, turn, snapshot >> /\ netConn \in Conn /\ id[netConn] \in Ids
        /\ \/ UNCHANGED << table, seen, tab, crossed >>
           \/ \E u \in Conn : RemoveRemote(u, netConn)
    BY <1>7, UnseeSteps
  <2>2. Viewer(turn)' = Viewer(turn) /\ Subject(turn)' = Subject(turn) BY <2>1 DEF Viewer, Subject
  <2>3. CASE table'[v] = table[v] /\ seen'[v] = seen[v] /\ tab'[v] = tab[v]
    BY <1>3, <2>1, <2>2, <2>3, TidyFrame
  <2>4. ASSUME NEW u \in Conn, RemoveRemote(u, netConn)
        PROVE  Tidy(v)' \/ (table'[v] = table[v] /\ seen'[v] = seen[v] /\ tab'[v] = tab[v])
    <3>1. CASE At(u, id[netConn]) = 0 BY <2>1, <2>4, <3>1, Removed DEF Base
    <3>2. CASE At(u, id[netConn]) # 0 /\ u # v
      <4>1. \A w \in Conn \ {u} : table'[w] = table[w] /\ seen'[w] = seen[w] /\ tab'[w] = tab[w]
        <5> DEFINE k == At(u, id[netConn])
        <5>1. TypeOK /\ k # 0 BY <3>2 DEF Base
        <5> HIDE DEF k
        <5> QED BY <2>1, <2>4, <5>1, Removed DEF k
      <4> QED BY <3>2, <4>1
    <3>3. CASE At(u, id[netConn]) # 0 /\ u = v BY <1>1, <1>2, <1>3, <1>7, <2>4, <3>3, TidyUnsee
    <3> QED BY <3>1, <3>2, <3>3
  <2> QED BY <2>1, <2>3, <2>4
<1>8. CASE Shut \/ Clear
  <2>1. PICK gone \in SUBSET Conn :
             /\ Free(gone) /\ UNCHANGED << id, phase, forgot, held >>
             /\ \/ held.at = 0
                \/ UNCHANGED << tickPc, turn, snapshot >> /\ gone \cap Range(snapshot) = {}
    BY <1>8, FreeSteps
  <2>2. IF v \in gone THEN /\ table'[v] = << >> /\ tab'[v] = {} /\ \A i \in Ids : seen'[v][i] = Nothing
        ELSE table'[v] = table[v] /\ tab'[v] = tab[v] /\ seen'[v] = seen[v]
    BY <2>1, Freed DEF Base
  <2>3. held.at # 0 => Viewer(turn)' = Viewer(turn) /\ Subject(turn)' = Subject(turn) /\ tickPc' = tickPc
    BY <2>1 DEF Viewer, Subject
  <2>4. CASE v \in gone
    <3>1. held.at # 0 => Viewer(turn)' # v BY <2>1, <2>3, <2>4, PairAtHand
    <3>2. \A s \in Conn : Player(s) # Nothing BY RecordsDiffer
    <3> QED BY <2>1, <2>2, <2>4, <3>1, <3>2, TidyEmpty
  <2>5. CASE v \notin gone BY <1>3, <1>4, <2>1, <2>2, <2>3, <2>5, TidyFrame
  <2> QED BY <2>4, <2>5
<1>9. ASSUME NEW c \in Conn, Respawn(c) PROVE Tidy(v)'
  <2>1. /\ UNCHANGED << tab, id, phase, held >> /\ held.at = 0 /\ table'[c] = << >>
        /\ \A u \in Conn \ {c} : table'[u] = table[u] /\ seen'[u] = seen[u]
        /\ \A s \in Conn, i \in Ids : seen'[c][i] = Player(s) => seen[c][i] = Player(s)
        /\ forgot' = forgot \cup {<< c, s >> : s \in tab[c] \cup {d \in Conn : Player(d) \in Range(seen[c])}}
    BY <1>9, RespawnSteps
  <2>2. CASE v = c
    <3>1. DOMAIN seen[c] = Ids BY DEF Base, TypeOK
    <3>2. \A s \in Conn : << c, s >> \notin forgot' => s \notin tab[c] /\ \A i \in Ids : seen[c][i] # Player(s)
      BY <2>1, <3>1 DEF Range
    <3> QED BY <2>1, <2>2, <3>2, TidyEmpty
  <2>3. CASE v # c BY <1>3, <1>4, <2>1, <2>3, TidyFrame
  <2> QED BY <2>2, <2>3
<1>10. CASE Sync
  <2> DEFINE u == Viewer(Min(Pairs))
             s0 == Subject(Min(Pairs))
  <2>1. /\ u \in Conn /\ s0 \in Conn /\ held.at = 0 /\ tickPc = "sync" /\ UNCHANGED << id, tab, forgot, snapshot >>
        /\ \A w \in Conn \ {u} : table'[w] = table[w] /\ seen'[w] = seen[w]
        /\ \/ /\ s0 \in dead /\ HideDead(u, s0) /\ tickPc' = "sync" /\ held'.at = 0
           \/ /\ s0 \notin dead /\ turn' = Min(Pairs)
    BY <1>10, SyncSteps
  <2>2. turn' = Min(Pairs) => Viewer(turn)' = u BY <2>1 DEF Viewer
  <2>3. CASE v # u
    <3> HIDE DEF u, s0
    <3> QED BY <1>3, <1>4, <2>1, <2>2, <2>3, TidyFrame
  <2>4. CASE v = u /\ s0 \in dead
    <3>1. HideDead(v, s0) /\ tickPc' = "sync" /\ held'.at = 0 BY <2>1, <2>4
    <3> QED BY <1>2, <1>3, <1>10, <2>1, <2>4, <3>1, TidyHide
  <2>5. CASE v = u /\ s0 \notin dead BY <1>3, <1>10, <2>1, <2>5, TidyEnsure
  <2> QED BY <2>3, <2>4, <2>5
<1>11. CASE List
  <2> DEFINE u == Viewer(turn)
             s0 == Subject(turn)
  <2>1. /\ u \in Conn /\ UNCHANGED << id, seen, turn, snapshot >> /\ held'.at = held.at
        /\ \A w \in Conn \ {u} : table'[w] = table[w] /\ tab'[w] = tab[w]
        /\ forgot' = forgot \ {<< u, s0 >>}
    BY <1>11, ListSteps
  <2>2. Viewer(turn)' = u /\ Subject(turn)' = s0 BY <2>1 DEF Viewer, Subject
  <2>3. CASE v = u BY <1>2, <1>3, <1>11, <2>3, TidyList
  <2>4. CASE v # u
    <3> HIDE DEF u, s0
    <3> QED BY <1>3, <2>1, <2>2, <2>4, TidyFrame DEF u
  <2> QED BY <2>3, <2>4
<1>12. CASE Show
  <2> DEFINE u == Viewer(turn)
             s0 == Subject(turn)
  <2>1. /\ u \in Conn /\ UNCHANGED << id, tab, forgot >> /\ held'.at = 0
        /\ \A w \in Conn \ {u} : table'[w] = table[w] /\ seen'[w] = seen[w]
    BY <1>12, ShowSteps
  <2>2. CASE v = u BY <1>2, <1>3, <1>12, <2>2, TidyShow
  <2>3. CASE v # u BY <1>3, <2>1, <2>3, TidyFrame
  <2> QED BY <2>2, <2>3
<1> QED BY <1>5, <1>6, <1>7, <1>8, <1>9, <1>10, <1>11, <1>12, Kinds

\* At the beginning the tables of those who are there hold the others.
LEMMA TableBegins == ASSUME Init PROVE TableInv
<1>1. SUFFICES ASSUME NEW v \in Conn PROVE Tidy(v) BY DEF TableInv
<1>2. \A c \in Conn : phase[c] = IF c \in Veterans THEN "ready" ELSE "none" BY DEF Init
<1>3. held.at = 0 /\ Veterans \subseteq Conn BY DEF Init, NoEntry
<1>4. CASE v \notin Veterans
  <2>1. table[v] = << >> /\ tab[v] = {} /\ \A i \in Ids : seen[v][i] = Nothing BY <1>4, Beginning
  <2>2. \A s \in Conn : Player(s) # Nothing BY RecordsDiffer
  <2>3. \A s \in Conn : phase[s] = "ready" => id[s] \in Ids
    <3>1. id \in [Conn -> Ids \cup {0}] /\ \A c \in Conn : id[c] # 0 <=> c \in Veterans
      BY Beginning, BaseBegins DEF Base, TypeOK
    <3> QED BY <1>2, <3>1
  <2>4. DOMAIN table[v] = {} BY <2>1
  <2>5. \A s \in Conn : Kept(v, s) BY <2>1, <2>2, <2>3 DEF Kept
  <2> QED BY <1>3, <2>4, <2>5 DEF Tidy, Pointing
<1>5. CASE v \in Veterans
  <2>1. /\ \A k \in DOMAIN table[v] : /\ table[v][k].listed /\ table[v][k].spawned
                                      /\ \E s \in Veterans \ {v} : table[v][k].id = id[s]
        /\ \A s \in Veterans \ {v} : \E k \in DOMAIN table[v] : table[v][k].id = id[s]
        /\ \A k, l \in DOMAIN table[v] : table[v][k].id = table[v][l].id => k = l
        /\ \A s \in Veterans \ {v} : seen[v][id[s]] = Player(s)
        /\ tab[v] = Veterans \ {v}
    BY <1>5, Beginning
  <2>2. \A s \in Conn : Kept(v, s)
    <3>1. SUFFICES ASSUME NEW s \in Conn PROVE Kept(v, s) OBVIOUS
    <3>2. s \in tab[v] => \E k \in DOMAIN table[v] : table[v][k].id = id[s] /\ table[v][k].listed BY <2>1
    <3>3. phase[s] = "ready" /\ seen[v][id[s]] = Player(s) => s \in Veterans \ {v}
      <4>1. phase[s] = "ready" => s \in Veterans BY <1>2
      <4>2. ASSUME phase[s] = "ready", seen[v][id[s]] = Player(s) PROVE v # s
        <5>1. id[s] \in Ids BY <4>2, BaseBegins, Numbers
        <5> QED BY <4>2, <5>1, ShownBegins DEF ShownInv
      <4> QED BY <4>1, <4>2
    <3>4. phase[s] = "ready" /\ seen[v][id[s]] = Player(s) =>
            \E k \in DOMAIN table[v] : table[v][k].id = id[s] /\ table[v][k].spawned
      BY <2>1, <3>3
    <3> QED BY <3>2, <3>4 DEF Kept
  <2>3. \A k \in DOMAIN table[v] : \E s \in Conn :
         /\ phase[s] = "ready" /\ table[v][k].id = id[s]
         /\ table[v][k].listed => s \in tab[v]
         /\ table[v][k].spawned => seen[v][id[s]] = Player(s)
    BY <1>2, <1>3, <2>1
  <2> QED BY <1>3, <2>1, <2>2, <2>3 DEF Tidy, Pointing
<1> QED BY <1>4, <1>5

-----------------------------------------------------------------------------
(* Players who have left.                                                  *)

\* The client of v shows nothing of s.
Gone(v, s) == s \notin tab[v] /\ \A i \in Ids : seen[v][i] # Player(s)

\* server_close_conn has told v, or everybody, that s leaves.
Out(v, s) == phase[s] # "none" /\ Leaving(v, s)

\* Who has been told shows nothing more of s, with the exceptions of NoGhosts.
GoneInv ==
    raced = {} =>
      \A v, s \in Conn :
        v # s /\ Listed(v) /\ Reached(v) /\ v \notin crossed /\ Out(v, s)
          /\ << v, s >> \notin strayed \cup forgot => Gone(v, s)

\* Only the sync makes a client show a player.
LEMMA GoneStays ==
    ASSUME Base, [Next]_vars, NEW v \in Conn, NEW s \in Conn, Gone(v, s),
           ~((List \/ Show) /\ Viewer(turn) = v /\ Subject(turn) = s)
    PROVE  Gone(v, s)'
<1> DEFINE B == \A i \in Ids : seen'[v][i] = Player(s) => seen[v][i] = Player(s)
           C == s \in tab'[v] => s \in tab[v]
<1>1. SUFFICES B /\ C BY DEF Gone
<1>2. Player(s) # Nothing /\ \A c \in Conn : Player(c) = Player(s) => c = s BY RecordsDiffer
<1>3. CASE Quiet BY <1>3, QuietSteps
<1>4. CASE Grounded BY <1>4, GroundedSteps
<1>5. CASE Unsee
  <2>1. CASE UNCHANGED << table, seen, tab, crossed >> BY <2>1
  <2>2. ASSUME NEW u \in Conn, RemoveRemote(u, netConn) PROVE B /\ C
    <3>1. TypeOK /\ netConn \in Conn /\ id[netConn] \in Ids BY <1>5, UnseeSteps DEF Base
    <3>2. CASE At(u, id[netConn]) = 0 BY <2>2, <3>1, <3>2, Removed
    <3>3. CASE At(u, id[netConn]) # 0
      <4> DEFINE k == At(u, id[netConn])
      <4>1. k # 0 BY <3>3
      <4>2. /\ \A w \in Conn \ {u} : seen'[w] = seen[w] /\ tab'[w] = tab[w]
            /\ \A i \in Ids : seen'[u][i] =
                 IF i = id[netConn] /\ table[u][k].spawned THEN Nothing ELSE seen[u][i]
            /\ tab'[u] = IF table[u][k].listed THEN tab[u] \ {netConn} ELSE tab[u]
        BY <2>2, <3>1, <4>1, Removed
      <4> HIDE DEF k
      <4> QED BY <1>2, <4>2
    <3> QED BY <3>2, <3>3
  <2>3. UNCHANGED << table, seen, tab, crossed >> \/ \E u \in Conn : RemoveRemote(u, netConn)
    BY <1>5, UnseeSteps
  <2> QED BY <2>1, <2>2, <2>3
<1>6. CASE Shut \/ Clear
  <2>1. PICK gone \in SUBSET Conn : Free(gone) BY <1>6, FreeSteps
  <2>2. IF v \in gone THEN /\ tab'[v] = {} /\ \A i \in Ids : seen'[v][i] = Nothing
        ELSE tab'[v] = tab[v] /\ seen'[v] = seen[v]
    BY <2>1, Freed DEF Base
  <2> QED BY <1>2, <2>2
<1>7. ASSUME NEW c \in Conn, Respawn(c) PROVE B /\ C
  <2>1. /\ tab' = tab /\ \A u \in Conn \ {c} : seen'[u] = seen[u]
        /\ \A i \in Ids : seen'[c][i] = Player(s) => seen[c][i] = Player(s)
    BY <1>7, RespawnSteps
  <2> QED BY <2>1
<1>8. CASE Sync
  <2> DEFINE u == Viewer(Min(Pairs))
             d == Subject(Min(Pairs))
  <2>1. /\ u \in Conn /\ d \in Conn /\ id[d] \in Ids /\ phase[d] = "ready" /\ tab' = tab
        /\ \A w \in Conn \ {u} : seen'[w] = seen[w]
        /\ HideDead(u, d) \/ UNCHANGED seen
    BY <1>8, SyncSteps
  <2>2. TypeOK /\ id[d] # 0 BY <2>1, Numbers DEF Base
  <2> HIDE DEF u, d
  <2>3. HideDead(u, d) => \A i \in Ids : seen'[u][i] \in {Nothing, seen[u][i]} BY <2>1, <2>2, Hidden
  <2> QED BY <1>2, <2>1, <2>3
<1>9. CASE List
  <2> DEFINE u == Viewer(turn)
             d == Subject(turn)
  <2>1. /\ u \in Conn /\ d \in Conn /\ seen' = seen /\ \A w \in Conn \ {u} : tab'[w] = tab[w]
        /\ tab'[u] = IF Pointed(u).listed THEN tab[u] ELSE tab[u] \cup {d}
    BY <1>9, ListSteps
  <2>2. u # v \/ d # s BY <1>9
  <2> HIDE DEF u, d
  <2> QED BY <2>1, <2>2
<1>10. CASE Show
  <2> DEFINE u == Viewer(turn)
             d == Subject(turn)
  <2>1. /\ u \in Conn /\ d \in Conn /\ tab' = tab /\ \A w \in Conn \ {u} : seen'[w] = seen[w]
        /\ \A i \in Ids : seen'[u][i] =
             IF ~Pointed(u).spawned /\ i = id[d] THEN Player(d) ELSE seen[u][i]
    BY <1>10, ShowSteps
  <2>2. u # v \/ d # s BY <1>10
  <2> HIDE DEF u, d
  <2>3. \A i \in Ids : seen'[u][i] = Player(d) \/ seen'[u][i] = seen[u][i] BY <2>1
  <2> QED BY <1>2, <2>1, <2>2, <2>3
<1> QED BY <1>3, <1>4, <1>5, <1>6, <1>7, <1>8, <1>9, <1>10, Kinds

\* The tick thread leaves the list, and what the network thread is at.
LEMMA TickLeavesNet ==
    ASSUME Tick
    PROVE  UNCHANGED << conns, netPc, netConn, told >>
<1>1. ASSUME NEW c \in Conn, Packet(c) PROVE UNCHANGED << conns, netPc, netConn, told >>
  BY <1>1 DEF Packet, Join, Confirm, Fail, Drop, Die, Respawn, serverVars, netVars
<1>2. CASE Spawned \/ Snapshot \/ Turn \/ Counted \/ Walk \/ ItemsStart \/ ItemTick \/ ItemsDone
  BY <1>2 DEF Spawned, Snapshot, Turn, Counted, Walk, ItemsStart, ItemTick, ItemsDone, serverVars, netVars
<1>3. CASE Sync \/ List \/ Show \/ SyncDone \/ Clear
  BY <1>3 DEF Sync, List, Show, SyncDone, Clear, serverVars, netVars
<1> QED BY <1>1, <1>2, <1>3 DEF Tick

\* Who is in the list after conn_create and after server_close_conn.
LEMMA LinkedMembers ==
    ASSUME Base, Link
    PROVE  netConn \in Conn /\ Range(conns') = Range(conns) \cup {netConn}
<1>1. netPc = "link" /\ netConn \in Conn /\ phase[netConn] = "none" /\ ~Listed(netConn)
  BY DEF Base, NetInv, ListInv, TypeOK, Listed, Link
<1> QED BY <1>1, PrependList DEF Link, Base, TypeOK, ListInv, Listed

\* The same of the one taken out.
LEMMA UnlinkedMembers ==
    ASSUME Base, Unlink
    PROVE  netConn \in Conn /\ Range(conns') = Range(conns) \ {netConn}
<1>1. netConn \in Range(conns) /\ netConn \in Conn BY Members DEF Base, NetInv, Listed, Unlink
<1> QED BY <1>1, RemoveList DEF Base, TypeOK, ListInv, Unlink

\* When a viewer who is there comes to have been told that s leaves.
LEMMA OutGrows ==
    ASSUME Base, [Next]_vars, NEW v \in Conn, NEW s \in Conn, v # s, Listed(v)', Reached(v)', Out(v, s)'
    PROVE  /\ Out(v, s)
           \/ phase[v] # "ready" \/ phase[s] # "ready"
           \/ /\ Unsee /\ netConn = s /\ phase[v] = "ready" /\ phase[s] = "ready"
              /\ RemoveRemote(v, s)
<1> DEFINE O == Out(v, s)
           R == phase[v] # "ready" \/ phase[s] # "ready"
           U == Unsee /\ netConn = s /\ phase[v] = "ready" /\ phase[s] = "ready" /\ RemoveRemote(v, s)
<1>0. /\ phase'[v] = "ready" /\ ~closing'[v] /\ v \in Range(conns')
      /\ phase'[s] # "none"
      /\ \/ s \notin Range(conns')
         \/ netConn' = s /\ netPc' = "unsee" /\ v \in told'
         \/ netConn' = s /\ netPc' = "unlink"
  BY DEF Listed, Reached, Out, Leaving
<1>1. CASE UNCHANGED << conns, netPc, netConn, told, phase >>
  BY <1>0, <1>1 DEF Out, Leaving, Listed
<1>2. CASE UNCHANGED vars BY <1>1, <1>2 DEF vars, serverVars, netVars
<1>3. CASE Tick
  <2>1. UNCHANGED << conns, netPc, netConn, told >> BY <1>3, TickLeavesNet
  <2>2. phase[s] = "ready" => O BY <1>0, <2>1 DEF Out, Leaving, Listed
  <2> QED BY <2>2
<1>4. ASSUME NEW c \in Conn, Number(c) PROVE O \/ R \/ U
  <2>1. netPc' = "number" /\ conns' = conns BY <1>4 DEF Number, serverVars
  <2>2. phase' = phase BY <1>4 DEF Number, serverVars
  <2> QED BY <1>0, <2>1, <2>2 DEF Out, Leaving, Listed
<1>5. CASE Numbered
  <2>1. netPc' = "link" /\ conns' = conns /\ phase' = phase BY <1>5 DEF Numbered
  <2> QED BY <1>0, <2>1 DEF Out, Leaving, Listed
<1>6. CASE Link
  <2>1. /\ netConn \in Conn /\ Range(conns') = Range(conns) \cup {netConn}
        /\ phase' = [phase EXCEPT ![netConn] = "early"] /\ netPc' = "idle"
    BY <1>6, LinkedMembers DEF Link
  <2>2. s \notin Range(conns) /\ s # netConn BY <1>0, <2>1
  <2>3. phase[s] # "none" BY <1>0, <2>1, <2>2 DEF Base, TypeOK
  <2> QED BY <2>2, <2>3 DEF Out, Leaving, Listed
<1>7. ASSUME NEW c \in Conn, CloseConn(c) PROVE O \/ R \/ U
  <2>1. conns' = conns /\ phase' = phase /\ netConn' = c
        /\ \/ InPlay(c) /\ netPc' = "unsee" /\ told' = {c}
           \/ ~InPlay(c)
    BY <1>7 DEF CloseConn, serverVars
  <2> QED BY <1>0, <2>1 DEF Out, Leaving, Listed, InPlay
<1>8. CASE Unsee
  <2>1. /\ netPc = "unsee" /\ UNCHANGED << conns, phase, closing, netConn >>
        /\ \/ Untold = {} /\ netPc' = "unlink" /\ told' = told
           \/ /\ netPc' = "unsee"
              /\ \E u \in Conn : /\ Listed(u) /\ told' = told \cup {u}
                                 /\ (closing[u] \/ ~InPlay(u)) \/ RemoveRemote(u, netConn)
    BY <1>8, UnseeSteps
  <2>2. s \notin Range(conns) => O BY <1>0, <2>1 DEF Out, Leaving, Listed
  <2>3. CASE netConn = s /\ Untold = {}
    <3>1. \A k \in DOMAIN conns : conns[k] \in told BY <2>3 DEF Untold
    <3>2. v \in told BY <1>0, <2>1, <3>1 DEF Range
    <3> QED BY <1>0, <2>1, <2>3, <3>2 DEF Out, Leaving
  <2>4. CASE netConn = s /\ Untold # {} /\ netPc' = "unsee" /\ phase[s] = "ready"
    <3>1. PICK u \in Conn : told' = told \cup {u} /\ (closing[u] \/ ~InPlay(u) \/ RemoveRemote(u, netConn))
      BY <2>1, <2>4
    <3>2. v \in told => O BY <1>0, <2>1, <2>4 DEF Out, Leaving
    <3>3. s \in Range(conns) => v \in told \/ u = v BY <1>0, <2>1, <2>4, <3>1
    <3>4. phase[v] = "ready" /\ ~closing[v] /\ InPlay(v) BY <1>0, <2>1 DEF InPlay
    <3>5. u = v => RemoveRemote(v, s) BY <2>4, <3>1, <3>4
    <3> QED BY <1>8, <2>2, <2>4, <3>2, <3>3, <3>4, <3>5
  <2> QED BY <1>0, <2>1, <2>2, <2>3, <2>4
<1>9. CASE Unlink
  <2>1. netPc = "unlink" /\ netPc' = "shut" /\ phase' = phase /\ netConn' = netConn BY <1>9 DEF Unlink
  <2>2. Range(conns') = Range(conns) \ {netConn} BY <1>9, UnlinkedMembers
  <2> QED BY <1>0, <2>1, <2>2 DEF Out, Leaving, Listed
<1>10. CASE Shut
  <2>1. netPc' = "idle" /\ conns' = conns /\ phase' = phase BY <1>10 DEF Shut
  <2> QED BY <1>0, <2>1 DEF Out, Leaving, Listed
<1> QED BY <1>1, <1>2, <1>3, <1>4, <1>5, <1>6, <1>7, <1>8, <1>9, <1>10 DEF Next, Net

\* One whose entry v's table does not have is not shown to v.
LEMMA NotInTable ==
    ASSUME Base, ShownInv, NEW v \in Conn, Tidy(v), NEW s \in Conn, << v, s >> \notin forgot,
           \A k \in DOMAIN table[v] : table[v][k].id # id[s]
    PROVE  Gone(v, s)
<1>1. Kept(v, s) /\ Pointing(v) BY DEF Tidy
<1>2. s \notin tab[v] BY <1>1 DEF Kept
<1>3. ~(held.at # 0 /\ Viewer(turn) = v /\ Subject(turn) = s) BY <1>1 DEF Pointing
<1>4. tickPc = "show" => held.at # 0 BY DEF Base, TickInv
<1>5. ~(phase[s] = "ready" /\ seen[v][id[s]] = Player(s)) BY <1>1, <1>3, <1>4 DEF Kept
<1>6. \A i \in Ids : seen[v][i] # Player(s) BY <1>5 DEF ShownInv
<1> QED BY <1>2, <1>6 DEF Gone

\* Taking s out of v's table leaves no entry of it.
LEMMA NoEntryLeft ==
    ASSUME TypeOK, NEW v \in Conn, Tidy(v), NEW s \in Conn, id[s] \in Ids, RemoveRemote(v, s)
    PROVE  \A k \in DOMAIN table'[v] : table'[v][k].id # id[s]
<1> DEFINE k0 == At(v, id[s])
           t == table[v]
<1>1. CASE k0 = 0
  <2>1. table'[v] = t BY <1>1, Removed
  <2> QED BY <1>1, <2>1, Found
<1>2. CASE k0 # 0
  <2>1. k0 \in DOMAIN t /\ t[k0].id = id[s] /\ table'[v] = Without(t, k0) BY <1>2, Removed
  <2>2. t \in Seq(Entry) /\ \A i, j \in DOMAIN t : t[i].id = t[j].id => i = j BY DEF TypeOK, Tidy
  <2> HIDE DEF k0, t
  <2>3. \A i \in DOMAIN table'[v] : \E j \in DOMAIN t \ {k0} : table'[v][i] = t[j]
    BY <2>1, <2>2, WithoutPlaces
  <2> QED BY <2>1, <2>2, <2>3
<1> QED BY <1>1, <1>2

\* A viewer who has forgotten s is told of s again only by the sync.
LEMMA ForgotStays ==
    ASSUME [Next]_vars, NEW v \in Conn, NEW s \in Conn, << v, s >> \in forgot, << v, s >> \notin forgot'
    PROVE  List /\ Viewer(turn) = v /\ Subject(turn) = s
<1>1. ~UNCHANGED vars BY DEF vars, historyVars
<1>2. ~Net
  <2>1. \A c \in Conn : ~(Number(c) \/ CloseConn(c)) BY DEF Number, CloseConn, historyVars
  <2> QED BY <2>1 DEF Net, Numbered, Link, Unsee, Unlink, Shut, historyVars
<1>3. \A c \in Conn : ~Packet(c)
  BY DEF Packet, Join, Confirm, Fail, Drop, Die, Respawn, historyVars
<1>4. ~(Spawned \/ Snapshot \/ Turn \/ Counted \/ Walk \/ ItemsStart \/ ItemTick \/ ItemsDone)
  BY DEF Spawned, Snapshot, Turn, Counted, Walk, ItemsStart, ItemTick, ItemsDone, historyVars
<1>5. ~(Sync \/ Show \/ SyncDone \/ Clear) BY DEF Sync, Show, SyncDone, Clear, historyVars
<1>6. List BY <1>1, <1>2, <1>3, <1>4, <1>5 DEF Next, Tick
<1> QED BY <1>6 DEF List

\* Who is ready and in the list was in it before.
LEMMA ListedBefore ==
    ASSUME Base, [Next]_vars, NEW v \in Conn, phase[v] = "ready", Listed(v)'
    PROVE  Listed(v)
<1>1. CASE UNCHANGED conns BY <1>1 DEF Listed
<1>2. CASE UNCHANGED vars BY <1>1, <1>2 DEF vars, serverVars
<1>3. CASE Tick BY <1>1, <1>3, TickLeavesNet
<1>4. ASSUME NEW c \in Conn, Number(c) \/ CloseConn(c) PROVE UNCHANGED conns
  BY <1>4 DEF Number, CloseConn, serverVars
<1>5. CASE Numbered \/ Unsee \/ Shut BY <1>1, <1>5 DEF Numbered, Unsee, Shut
<1>6. CASE Link
  <2>1. phase[netConn] = "none" BY <1>6 DEF Link, Base, NetInv
  <2> QED BY <1>6, <2>1, LinkedMembers DEF Listed
<1>7. CASE Unlink BY <1>7, UnlinkedMembers DEF Listed
<1> QED BY <1>1, <1>2, <1>3, <1>4, <1>5, <1>6, <1>7 DEF Next, Net

\* c->closing is never taken back.
LEMMA ClosingStays ==
    ASSUME Base, [Next]_vars
    PROVE  \A c \in Conn : closing[c] => closing'[c]
<1>1. closing \in [Conn -> BOOLEAN] BY DEF Base, TypeOK
<1>2. CASE UNCHANGED closing BY <1>2
<1>3. CASE \E c \in Conn : closing' = [closing EXCEPT ![c] = TRUE] BY <1>1, <1>3
<1>4. CASE UNCHANGED vars BY <1>2, <1>4 DEF vars, serverVars
<1>5. ASSUME NEW c \in Conn, Number(c) \/ CloseConn(c) PROVE UNCHANGED closing
  BY <1>5 DEF Number, CloseConn, serverVars
<1>6. CASE Numbered \/ Link \/ Unsee \/ Unlink BY <1>2, <1>6 DEF Numbered, Link, Unsee, Unlink
<1>7. CASE Shut BY <1>1, <1>7 DEF Shut
<1>8. ASSUME NEW c \in Conn, Packet(c)
      PROVE  UNCHANGED closing \/ closing' = [closing EXCEPT ![c] = TRUE]
  BY <1>8 DEF Packet, Join, Confirm, Fail, Drop, Die, Respawn, serverVars
<1>9. CASE Spawned \/ Snapshot \/ Counted \/ Walk \/ ItemsStart \/ ItemsDone
  BY <1>2, <1>9 DEF Spawned, Snapshot, Counted, Walk, ItemsStart, ItemsDone, serverVars
<1>10. CASE Turn BY <1>1, <1>10 DEF Turn
<1>11. CASE ItemTick
  BY <1>1, <1>11 DEF ItemTick, PickUp, TakeSome, TakeAll, TakeUnsaved
<1>12. CASE Sync \/ List \/ Show \/ SyncDone \/ Clear
  BY <1>2, <1>12 DEF Sync, List, Show, SyncDone, Clear, serverVars
<1> QED BY <1>2, <1>3, <1>4, <1>5, <1>6, <1>7, <1>8, <1>9, <1>10, <1>11, <1>12 DEF Next, Net, Tick

\* Every step.
LEMMA GoneHolds ==
    ASSUME Base, Fresh, ShownInv, TableInv, GoneInv, Base', Fresh', ShownInv', TableInv', [Next]_vars
    PROVE  GoneInv'
<1>1. SUFFICES ASSUME raced' = {}, NEW v \in Conn, NEW s \in Conn, v # s, Listed(v)', Reached(v)',
                      v \notin crossed', Out(v, s)', << v, s >> \notin strayed' \cup forgot'
               PROVE  Gone(v, s)'
  BY DEF GoneInv
<1>2. raced = {} /\ v \notin crossed /\ << v, s >> \notin strayed BY <1>1, HistoryGrows
<1>3. Tidy(v) /\ Tidy(v)' BY <1>1, <1>2 DEF TableInv
<1>4. CASE (List \/ Show) /\ Viewer(turn) = v /\ Subject(turn) = s
  <2>1. /\ UNCHANGED << conns, phase, netPc, netConn, told >> /\ strayed' = Strayed(v, s)
    BY <1>4, ListSteps, ShowSteps
  <2>2. Leaving(v, s)' = Leaving(v, s) BY <2>1 DEF Leaving, Listed
  <2>3. Leaving(v, s) BY <1>1, <2>2 DEF Out
  <2> QED BY <1>1, <2>1, <2>3 DEF Strayed
<1>5. CASE ~((List \/ Show) /\ Viewer(turn) = v /\ Subject(turn) = s)
  <2>1. Gone(v, s) => Gone(v, s)' BY <1>5, GoneStays
  <2>2. CASE phase[v] # "ready" \/ phase[s] # "ready"
    <3>1. Gone(v, s)
      <4>1. \A i \in Ids : seen[v][i] # Player(s)
        <5>1. Player(s) # Nothing BY RecordsDiffer
        <5> QED BY <2>2, <5>1 DEF ShownInv
      <4> QED BY <2>2, <4>1 DEF ShownInv, Gone
    <3> QED BY <2>1, <3>1
  <2>3. CASE Unsee /\ netConn = s /\ phase[s] = "ready" /\ RemoveRemote(v, s)
    <3>1. id[s] \in Ids /\ id' = id BY <2>3, UnseeSteps
    <3>2. \A k \in DOMAIN table'[v] : table'[v][k].id # id'[s] BY <1>3, <2>3, <3>1, NoEntryLeft DEF Base
    <3>3. Kept(v, s)' /\ Pointing(v)' BY <1>1, <1>3 DEF Tidy
    <3>4. s \notin tab'[v] BY <3>2, <3>3 DEF Kept
    <3>5. ~(held'.at # 0 /\ Viewer(turn)' = v /\ Subject(turn)' = s) BY <3>2, <3>3 DEF Pointing
    <3>6. tickPc' = "show" => held'.at # 0 BY DEF Base, TickInv
    <3>7. ~(phase'[s] = "ready" /\ seen'[v][id'[s]] = Player(s)) BY <3>2, <3>3, <3>5, <3>6 DEF Kept
    <3>8. \A i \in Ids : seen'[v][i] # Player(s) BY <3>7 DEF ShownInv
    <3> QED BY <3>4, <3>8 DEF Gone
  <2>4. CASE Out(v, s) /\ phase[v] = "ready"
    <3>1. << v, s >> \notin forgot
      <4>1. \A d \in Conn : << v, d >> \in forgot /\ << v, d >> \notin forgot' =>
               List /\ Viewer(turn) = v /\ Subject(turn) = d
        BY ForgotStays
      <4> QED BY <1>1, <1>5, <4>1
    <3>2. Listed(v) /\ Reached(v)
      <4>1. Listed(v) BY <1>1, <2>4, ListedBefore
      <4>2. ~closing[v] BY <1>1, ClosingStays DEF Reached
      <4> QED BY <2>4, <4>1, <4>2 DEF Reached
    <3>3. Gone(v, s) BY <1>1, <1>2, <2>4, <3>1, <3>2 DEF GoneInv
    <3> QED BY <2>1, <3>3
  <2>5. \/ Out(v, s) /\ phase[v] = "ready"
        \/ phase[v] # "ready"
        \/ phase[s] # "ready"
        \/ Unsee /\ netConn = s /\ phase[s] = "ready" /\ RemoveRemote(v, s)
    BY <1>1, OutGrows
  <2> QED BY <2>2, <2>3, <2>4, <2>5
<1> QED BY <1>4, <1>5

\* At the beginning nobody has left.
LEMMA GoneBegins == ASSUME Init PROVE GoneInv
<1>1. Range(conns) = Veterans BY Beginning
<1>2. \A c \in Conn : phase[c] # "none" => c \in Veterans BY DEF Init
<1>3. netPc = "idle" BY DEF Init
<1>4. \A v, s \in Conn : ~Out(v, s) BY <1>1, <1>2, <1>3 DEF Out, Leaving, Listed
<1> QED BY <1>4 DEF GoneInv

\* Nobody is shown a player who has left, whoever comes, goes, dies and
\* respawns meanwhile, but for the cases NoGhosts names: the sync, which runs
\* without conns_lock, showed him again while server_close_conn was at work,
\* or the viewer respawned and his table was forgotten.
THEOREM NoGhostsCorrect == Spec => []NoGhosts
<1> DEFINE I == Base /\ Fresh /\ ShownInv /\ TableInv /\ GoneInv
<1>1. Init => I BY BaseBegins, FreshBegins, ShownBegins, TableBegins, GoneBegins
<1>2. I /\ [Next]_vars => I'
  <2>1. SUFFICES ASSUME I, [Next]_vars PROVE I' OBVIOUS
  <2>2. Base' /\ Fresh' BY <2>1, BaseHolds, FreshHolds
  <2>3. ShownInv' BY <2>1, ShownHolds
  <2>4. TableInv' BY <2>1, <2>2, TableHolds
  <2>5. GoneInv' BY <2>1, <2>2, <2>3, <2>4, GoneHolds
  <2> QED BY <2>2, <2>3, <2>4, <2>5
<1>3. I => NoGhosts
  <2>1. Base => \A v \in Range(conns) : v \in Conn /\ Listed(v) BY Members DEF Base, Listed
  <2> QED BY <2>1 DEF NoGhosts, GoneInv, Out, Leaving, Gone, Listed
<1> QED BY <1>1, <1>2, <1>3, PTL DEF Spec

-----------------------------------------------------------------------------
(* What the sync loop has done.                                            *)

\* The sync loop and what follows it in the tick.
Syncing == {"sync", "list", "show", "clear"}

\* The pairs SeesLiving is about.
Due(v, s) ==
    /\ Reached(v) /\ Reached(s) /\ Listed(s) /\ netConn # s
    /\ v \notin crossed /\ << v, s >> \notin forgot

\* What it says of them.
Right(v, s) ==
    IF s \in dead THEN seen[v][id[s]] # Player(s) ELSE s \in tab[v] /\ seen[v][id[s]] = Player(s)

\* The pairs the loop has passed are as they should be.
SyncInv ==
    /\ IsInjective(snapshot)
    /\ raced = {} /\ tickPc \in Syncing =>
         \A t \in 1 .. Len(snapshot) * Len(snapshot) :
           (tickPc = "clear" \/ t < turn) /\ Viewer(t) # Subject(t) /\ Due(Viewer(t), Subject(t)) =>
             Right(Viewer(t), Subject(t))

\* A pair has one place in the loop.
LEMMA PairOnce ==
    ASSUME NEW n \in Nat, NEW t \in 1 .. n * n, NEW u \in 1 .. n * n,
           ((t - 1) \div n) + 1 = ((u - 1) \div n) + 1, ((t - 1) % n) + 1 = ((u - 1) % n) + 1
    PROVE  t = u
<1>1. n \in Nat \ {0} BY PairPlaces
<1>2. t - 1 = n * ((t - 1) \div n) + ((t - 1) % n) BY <1>1
<1>3. u - 1 = n * ((u - 1) \div n) + ((u - 1) % n) BY <1>1
<1>4. (t - 1) \div n = (u - 1) \div n /\ (t - 1) % n = (u - 1) % n BY <1>1
<1> QED BY <1>2, <1>3, <1>4

\* The same of the members of the snapshot.
LEMMA PairsDiffer ==
    ASSUME TypeOK, IsInjective(snapshot), NEW t \in 1 .. Len(snapshot) * Len(snapshot),
           NEW u \in 1 .. Len(snapshot) * Len(snapshot), Viewer(t) = Viewer(u), Subject(t) = Subject(u)
    PROVE  t = u
<1> DEFINE n == Len(snapshot)
           i(x) == ((x - 1) \div n) + 1
           j(x) == ((x - 1) % n) + 1
<1>1. n \in Nat /\ DOMAIN snapshot = 1 .. n BY DEF TypeOK
<1>2. /\ i(t) \in 1 .. n /\ j(t) \in 1 .. n /\ i(u) \in 1 .. n /\ j(u) \in 1 .. n BY <1>1, PairPlaces
<1>3. snapshot[i(t)] = snapshot[i(u)] /\ snapshot[j(t)] = snapshot[j(u)] BY DEF Viewer, Subject
<1>4. i(t) = i(u) /\ j(t) = j(u)
  <2> HIDE DEF i, j, n
  <2> QED BY <1>1, <1>2, <1>3 DEF IsInjective
<1> QED BY <1>1, <1>4, PairOnce

\* How the tick thread comes to the loop and goes through it.
LEMMA SyncMoves ==
    ASSUME [Next]_vars, tickPc' \in Syncing
    PROVE  /\ tickPc \notin Syncing => tickPc' = "sync" /\ turn' = 1 /\ snapshot' = snapshot
           /\ tickPc \in Syncing =>
                /\ UNCHANGED << snapshot, dead >>
                /\ \/ UNCHANGED << turn, tickPc >> \/ Sync \/ List \/ Show \/ SyncDone
                /\ ~Grounded /\ ~Clear /\ ~(\E c \in Conn : Packet(c))
<1> DEFINE P == /\ tickPc \notin Syncing => tickPc' = "sync" /\ turn' = 1 /\ snapshot' = snapshot
                /\ tickPc \in Syncing =>
                     /\ UNCHANGED << snapshot, dead >>
                     /\ \/ UNCHANGED << turn, tickPc >> \/ Sync \/ List \/ Show \/ SyncDone
<1>1. ASSUME UNCHANGED << snapshot, dead, turn, tickPc >> PROVE P BY <1>1 DEF Syncing
<1>2. ASSUME Net \/ UNCHANGED vars PROVE P
  <2>1. ASSUME NEW c \in Conn, Number(c) \/ CloseConn(c) PROVE UNCHANGED << dead, tickVars >>
    BY <2>1 DEF Number, CloseConn, serverVars
  <2>2. UNCHANGED << dead, tickVars >>
    BY <1>2, <2>1 DEF Net, Numbered, Link, Unsee, Unlink, Shut, vars, serverVars
  <2>3. UNCHANGED << snapshot, dead, turn, tickPc >> BY <2>2 DEF tickVars
  <2> QED BY <1>1, <2>3
<1>3. ASSUME NEW c \in Conn, Packet(c) PROVE P /\ tickPc \notin Syncing
  <2>1. tickPc = "tasks" /\ tickPc' \in {"tasks", "spawn"}
    BY <1>3 DEF Packet, Join, Confirm, Fail, Drop, Die, Respawn, Taken, tickVars
  <2> QED BY <2>1 DEF Syncing
<1>4. ASSUME Spawned \/ Snapshot \/ Turn \/ Counted \/ Walk PROVE P
  BY <1>4 DEF Spawned, Snapshot, Turn, Counted, Walk, Syncing
<1>5. ASSUME ItemsStart \/ ItemTick \/ ItemsDone PROVE P
  BY <1>5 DEF ItemsStart, ItemTick, ItemsDone, Syncing
<1>6. ASSUME Sync \/ List \/ Show \/ SyncDone PROVE P
  <2>1. UNCHANGED << snapshot, dead >> /\ tickPc \in Syncing
    BY <1>6 DEF Sync, List, Show, SyncDone, Syncing, serverVars
  <2> QED BY <1>6, <2>1
<1>7. ~Clear BY DEF Clear, Syncing
<1>8. tickPc \in Syncing => ~Grounded
  <2>1. \A c \in Conn : Confirm(c) => tickPc = "tasks" BY DEF Confirm, Taken
  <2> QED BY <2>1 DEF Grounded, Spawned, Walk, ItemTick, Syncing
<1>9. P BY <1>2, <1>3, <1>4, <1>5, <1>6, <1>7 DEF Next, Tick
<1> QED BY <1>3, <1>7, <1>8, <1>9

\* Who is ready was, but for CONFIRM_TELEPORT.
LEMMA ReadyBefore ==
    ASSUME Base, [Next]_vars, NEW c \in Conn, phase'[c] = "ready"
    PROVE  phase[c] = "ready" \/ Confirm(c)
<1>1. phase \in [Conn -> {"none", "early", "play", "ready"}] BY DEF Base, TypeOK
<1>2. CASE UNCHANGED phase BY <1>2
<1>3. CASE UNCHANGED vars BY <1>2, <1>3 DEF vars, serverVars
<1>4. ASSUME NEW d \in Conn, Number(d) \/ CloseConn(d) PROVE UNCHANGED phase
  BY <1>4 DEF Number, CloseConn, serverVars
<1>5. CASE Numbered \/ Unsee \/ Unlink \/ Shut BY <1>2, <1>5 DEF Numbered, Unsee, Unlink, Shut
<1>6. CASE Link
  <2>1. netConn \in Conn /\ phase' = [phase EXCEPT ![netConn] = "early"] BY <1>6, LinkedMembers DEF Link
  <2> QED BY <1>1, <2>1
<1>7. ASSUME NEW d \in Conn, Packet(d) PROVE phase[c] = "ready" \/ Confirm(c)
  <2>1. \/ UNCHANGED phase \/ phase' = [phase EXCEPT ![d] = "play"]
        \/ Confirm(d) /\ phase' = [phase EXCEPT ![d] = "ready"]
    BY <1>7 DEF Packet, Join, Confirm, Fail, Drop, Die, Respawn, serverVars
  <2> QED BY <1>1, <2>1
<1>8. CASE Spawned \/ Snapshot \/ Turn \/ Counted \/ Walk \/ ItemsStart \/ ItemTick \/ ItemsDone
  BY <1>2, <1>8 DEF Spawned, Snapshot, Turn, Counted, Walk, ItemsStart, ItemTick, ItemsDone, serverVars
<1>9. CASE Sync \/ List \/ Show \/ SyncDone \/ Clear
  BY <1>2, <1>9 DEF Sync, List, Show, SyncDone, Clear, serverVars
<1> QED BY <1>2, <1>3, <1>4, <1>5, <1>6, <1>7, <1>8, <1>9 DEF Next, Net, Tick

\* A snapshot holds each connection once.
LEMMA SnapshotOnce ==
    ASSUME Base, IsInjective(snapshot), [Next]_vars
    PROVE  IsInjective(snapshot)'
<1>1. CASE UNCHANGED snapshot BY <1>1
<1>2. CASE UNCHANGED vars BY <1>1, <1>2 DEF vars, tickVars
<1>3. ASSUME NEW c \in Conn, Number(c) \/ CloseConn(c) \/ Packet(c) PROVE UNCHANGED snapshot
  BY <1>3 DEF Number, CloseConn, Packet, Join, Confirm, Fail, Drop, Die, Respawn, tickVars
<1>4. CASE Numbered \/ Link \/ Unsee \/ Unlink \/ Shut
  BY <1>1, <1>4 DEF Numbered, Link, Unsee, Unlink, Shut, tickVars
<1>5. CASE Snapshot BY <1>5 DEF Snapshot, Base, ListInv
<1>6. CASE Spawned \/ Turn \/ Counted \/ Walk \/ ItemsStart \/ ItemTick \/ ItemsDone
  BY <1>1, <1>6 DEF Spawned, Turn, Counted, Walk, ItemsStart, ItemTick, ItemsDone
<1>7. CASE Sync \/ List \/ Show \/ SyncDone BY <1>1, <1>7 DEF Sync, List, Show, SyncDone
<1>8. CASE Clear
  <2>1. snapshot' = << >> BY <1>8 DEF Clear
  <2> QED BY <2>1 DEF IsInjective
<1> QED BY <1>1, <1>2, <1>3, <1>4, <1>5, <1>6, <1>7, <1>8 DEF Next, Net, Tick

\* A pair does not come to be one SeesLiving is about during the loop, but by
\* its own turn.
LEMMA DueBefore ==
    ASSUME Base, [Next]_vars, NEW v \in Conn, NEW s \in Conn, tickPc \in Syncing, tickPc' \in Syncing,
           Due(v, s)', ~(List /\ Viewer(turn) = v /\ Subject(turn) = s)
    PROVE  Due(v, s)
<1>1. phase'[v] = "ready" /\ phase'[s] = "ready" /\ ~closing'[v] /\ ~closing'[s] /\ Listed(s)'
      /\ netConn' # s /\ v \notin crossed' /\ << v, s >> \notin forgot'
  BY DEF Due, Reached
<1>2. phase[v] = "ready" /\ phase[s] = "ready"
  <2>1. \A c \in Conn : phase'[c] = "ready" => phase[c] = "ready" \/ \E d \in Conn : Confirm(d)
    BY ReadyBefore
  <2> QED BY <1>1, <2>1, SyncMoves DEF Packet
<1>3. ~closing[v] /\ ~closing[s] /\ v \notin crossed /\ << v, s >> \notin forgot
  BY <1>1, ClosingStays, HistoryGrows, ForgotStays
<1>4. Listed(s) BY <1>1, <1>2, ListedBefore
<1>5. netConn # s
  <2>1. SUFFICES ASSUME netConn = s PROVE FALSE OBVIOUS
  <2>2. netConn' # netConn BY <1>1, <2>1
  <2>3. ~Tick BY <2>2, TickLeavesNet
  <2>4. ~UNCHANGED vars BY <2>2 DEF vars, netVars
  <2>5. netPc # "idle" BY <2>1 DEF Base, NetInv
  <2>6. ASSUME NEW c \in Conn, Number(c) \/ CloseConn(c) PROVE FALSE BY <2>5, <2>6 DEF Number, CloseConn
  <2>7. ~(Numbered \/ Unsee \/ Unlink) BY <2>2 DEF Numbered, Unsee, Unlink
  <2>8. ~Link BY <1>2, <2>1 DEF Link, Base, NetInv
  <2>9. ~Shut BY <1>4, <2>1 DEF Shut, Base, NetInv
  <2> QED BY <2>3, <2>4, <2>6, <2>7, <2>8, <2>9 DEF Next, Net
<1> QED BY <1>2, <1>3, <1>4, <1>5 DEF Due, Reached

\* What is as it should be stays so during the loop.
LEMMA RightStays ==
    ASSUME Base, Fresh, raced = {}, [Next]_vars, tickPc \in Syncing, tickPc' \in Syncing,
           NEW v \in Conn, NEW s \in Conn, v \in Range(snapshot), v # s, Due(v, s), Right(v, s)
    PROVE  Right(v, s)'
<1>1. UNCHANGED << snapshot, dead >> /\ ~Grounded /\ ~Clear /\ ~\E c \in Conn : Respawn(c)
  BY SyncMoves DEF Packet
<1>2. phase[v] = "ready" /\ phase[s] = "ready" /\ netConn # s BY DEF Due, Reached
<1>3. id'[s] = id[s] /\ id[s] \in Ids BY <1>2, ReadyStays, Numbers
<1>4. \A c \in Conn : phase[c] # "none" => (id[c] = id[s] => c = s) BY <1>2, Distinct
<1>5. SUFFICES (s \in tab[v] => s \in tab'[v]) /\ IF s \in dead THEN seen'[v][id[s]] # Player(s) ELSE
                 seen'[v][id[s]] = Player(s)
  BY <1>1, <1>3 DEF Right
<1> DEFINE T == s \in tab[v] => s \in tab'[v]
           F == seen'[v][id[s]] = seen[v][id[s]]
<1>6. \/ T /\ F
      \/ T /\ s \in dead /\ seen'[v][id[s]] # Player(s)
      \/ T /\ s \notin dead /\ seen'[v][id[s]] = Player(s)
  <2>1. CASE Quiet BY <2>1, QuietSteps
  <2>2. CASE Unsee
    <3>1. CASE UNCHANGED << table, seen, tab, crossed >> BY <3>1
    <3>2. ASSUME NEW u \in Conn, RemoveRemote(u, netConn) PROVE T /\ F
      <4>1. TypeOK /\ netConn \in Conn /\ id[netConn] \in Ids /\ phase[netConn] # "none"
        BY <2>2, UnseeSteps DEF Base, ListInv, Listed
      <4>2. id[netConn] # id[s] BY <1>2, <1>4, <4>1
      <4>3. CASE At(u, id[netConn]) = 0 BY <3>2, <4>1, <4>3, Removed
      <4>4. CASE At(u, id[netConn]) # 0
        <5> DEFINE k == At(u, id[netConn])
        <5>1. k # 0 BY <4>4
        <5>2. /\ \A w \in Conn \ {u} : seen'[w] = seen[w] /\ tab'[w] = tab[w]
              /\ \A i \in Ids : seen'[u][i] =
                   IF i = id[netConn] /\ table[u][k].spawned THEN Nothing ELSE seen[u][i]
              /\ tab'[u] = IF table[u][k].listed THEN tab[u] \ {netConn} ELSE tab[u]
          BY <3>2, <4>1, <5>1, Removed
        <5> HIDE DEF k
        <5> QED BY <1>2, <1>3, <4>2, <5>2
      <4> QED BY <4>3, <4>4
    <3>3. UNCHANGED << table, seen, tab, crossed >> \/ \E u \in Conn : RemoveRemote(u, netConn)
      BY <2>2, UnseeSteps
    <3> QED BY <3>1, <3>2, <3>3
  <2>3. CASE Shut
    <3> DEFINE gone == IF netConn \in Range(snapshot) THEN {} ELSE {netConn}
    <3>1. gone \in SUBSET Conn /\ Free(gone) /\ v \notin gone BY <2>3 DEF Shut, Base, TypeOK, NetInv
    <3>2. tab'[v] = tab[v] /\ seen'[v] = seen[v] BY <3>1, Freed DEF Base
    <3> QED BY <3>2
  <2>4. CASE Sync
    <3> DEFINE u == Viewer(Min(Pairs))
               d == Subject(Min(Pairs))
    <3>1. /\ u \in Conn /\ d \in Conn /\ id[d] \in Ids /\ phase[d] = "ready" /\ tab' = tab
          /\ \A w \in Conn \ {u} : seen'[w] = seen[w]
          /\ (d \in dead /\ HideDead(u, d)) \/ UNCHANGED seen
      BY <2>4, SyncSteps
    <3>2. TypeOK /\ id[d] # 0 BY <3>1, Numbers DEF Base
    <3> HIDE DEF u, d
    <3>3. HideDead(u, d) => \A i \in Ids : seen'[u][i] = seen[u][i] \/ (i = id[d] /\ seen'[u][i] = Nothing)
      BY <3>1, <3>2, Hidden
    <3>4. id[d] = id[s] => d = s BY <1>4, <3>1
    <3>5. Nothing # Player(s) BY RecordsDiffer
    <3>6. CASE UNCHANGED seen BY <3>1, <3>6
    <3>7. CASE d \in dead /\ HideDead(u, d)
      <4>1. F \/ (u = v /\ id[d] = id[s] /\ seen'[v][id[s]] = Nothing) BY <1>3, <3>1, <3>3, <3>7
      <4> QED BY <3>1, <3>4, <3>5, <3>7, <4>1
    <3> QED BY <3>1, <3>6, <3>7
  <2>5. CASE List
    <3> DEFINE u == Viewer(turn)
               d == Subject(turn)
    <3>1. /\ u \in Conn /\ seen' = seen /\ \A w \in Conn \ {u} : tab'[w] = tab[w]
          /\ tab'[u] = IF Pointed(u).listed THEN tab[u] ELSE tab[u] \cup {d}
      BY <2>5, ListSteps
    <3> HIDE DEF u, d
    <3> QED BY <3>1
  <2>6. CASE Show
    <3> DEFINE u == Viewer(turn)
               d == Subject(turn)
    <3>1. /\ u \in Conn /\ d \in Conn /\ tab' = tab /\ \A w \in Conn \ {u} : seen'[w] = seen[w]
          /\ d \notin dead /\ phase[d] = "ready"
          /\ \A i \in Ids : seen'[u][i] =
               IF ~Pointed(u).spawned /\ i = id[d] THEN Player(d) ELSE seen[u][i]
      BY <2>6, ShowSteps
    <3>2. id[d] = id[s] => d = s BY <1>4, <3>1
    <3> HIDE DEF u, d
    <3>3. F \/ (u = v /\ id[d] = id[s] /\ seen'[v][id[s]] = Player(d)) BY <1>3, <3>1
    <3> QED BY <3>1, <3>2, <3>3
  <2> QED BY <1>1, <2>1, <2>2, <2>3, <2>4, <2>5, <2>6, Kinds
<1> QED BY <1>6 DEF Right

\* A dead player has been hidden.
LEMMA HiddenRight ==
    ASSUME Base, Fresh, ShownInv, raced = {}, Sync, NEW v \in Conn, NEW s \in Conn, Tidy(v),
           v = Viewer(Min(Pairs)), s = Subject(Min(Pairs)), s \in dead, << v, s >> \notin forgot, HideDead(v, s)
    PROVE  Right(v, s)'
<1>1. /\ phase[s] = "ready" /\ id[s] \in Ids /\ tickPc = "sync" /\ UNCHANGED << id, dead >> BY SyncSteps
<1>2. TypeOK /\ id[s] # 0 BY <1>1, Numbers DEF Base
<1> DEFINE k0 == At(v, id[s])
<1>3. \A i \in Ids : seen'[v][i] = IF i = id[s] /\ k0 # 0 /\ table[v][k0].spawned THEN Nothing ELSE seen[v][i]
  BY <1>2, Hidden
<1>4. k0 # 0 => k0 \in DOMAIN table[v] /\ table[v][k0].id = id[s] BY <1>2, Found
<1>5. k0 = 0 => \A k \in DOMAIN table[v] : table[v][k].id # id[s] BY <1>2, Found
<1>6. Kept(v, s) /\ \A k, l \in DOMAIN table[v] : table[v][k].id = table[v][l].id => k = l BY DEF Tidy
<1> HIDE DEF k0
<1>7. seen[v][id[s]] = Player(s) => \E k \in DOMAIN table[v] : table[v][k].id = id[s] /\ table[v][k].spawned
  BY <1>1, <1>6 DEF Kept
<1>8. seen[v][id[s]] = Player(s) => k0 # 0 /\ table[v][k0].spawned BY <1>4, <1>5, <1>6, <1>7
<1>9. Nothing # Player(s) BY RecordsDiffer
<1>10. seen'[v][id[s]] # Player(s) BY <1>1, <1>3, <1>8, <1>9
<1> QED BY <1>1, <1>10 DEF Right

\* A living player has been shown.
LEMMA ShowRight ==
    ASSUME Base, Fresh, raced = {}, Show, NEW v \in Conn, NEW s \in Conn, Tidy(v),
           v = Viewer(turn), s = Subject(turn)
    PROVE  Right(v, s)'
<1>1. /\ tickPc = "show" /\ held.at # 0 /\ phase[s] = "ready" /\ id[s] \in Ids /\ s \notin dead
      /\ UNCHANGED << id, dead, tab >>
      /\ \A i \in Ids : seen'[v][i] = IF ~Pointed(v).spawned /\ i = id[s] THEN Player(s) ELSE seen[v][i]
      /\ held.at \in DOMAIN table[v] => Pointed(v).spawned = table[v][held.at].spawned
  BY ShowSteps
<1>2. held.at \in DOMAIN table[v] /\ table[v][held.at].id = id[s] /\ table[v][held.at].listed
  BY <1>1 DEF Tidy, Pointing
<1>3. PICK d \in Conn : /\ phase[d] = "ready" /\ table[v][held.at].id = id[d]
                        /\ table[v][held.at].listed => d \in tab[v]
                        /\ table[v][held.at].spawned => seen[v][id[d]] = Player(d)
  BY <1>2 DEF Tidy
<1>4. phase[d] # "none" /\ phase[s] # "none" /\ id[d] = id[s] BY <1>1, <1>2, <1>3
<1>5. /\ d = s
      /\ s \in tab[v] /\ (table[v][held.at].spawned => seen[v][id[s]] = Player(s))
  <2>1. d = s BY <1>4, Distinct
  <2> QED BY <1>2, <1>3, <2>1
<1>6. seen'[v][id[s]] = Player(s) BY <1>1, <1>2, <1>5
<1> QED BY <1>1, <1>5, <1>6 DEF Right

\* Every step.
LEMMA SyncedHolds ==
    ASSUME Base, Fresh, ShownInv, TableInv, SyncInv, Base', [Next]_vars
    PROVE  SyncInv'
<1>1. IsInjective(snapshot)' BY SnapshotOnce DEF SyncInv
<1>2. SUFFICES ASSUME raced' = {}, tickPc' \in Syncing, NEW t \in 1 .. Len(snapshot') * Len(snapshot'),
                      tickPc' = "clear" \/ t < turn', Viewer(t)' # Subject(t)',
                      Due(Viewer(t), Subject(t))'
               PROVE  Right(Viewer(t), Subject(t))'
  BY <1>1 DEF SyncInv
<1>3. raced = {} BY <1>2, HistoryGrows
<1>4. tickPc \in Syncing BY <1>2, SyncMoves
<1>5. snapshot' = snapshot /\ dead' = dead BY <1>2, <1>4, SyncMoves
<1>6. Viewer(t)' = Viewer(t) /\ Subject(t)' = Subject(t) BY <1>5 DEF Viewer, Subject
<1>0. t \in 1 .. Len(snapshot) * Len(snapshot) /\ Len(snapshot) \in Nat /\ turn \in Nat
  BY <1>5, Members DEF Base, TypeOK
<1>7. PICK v \in Conn, s \in Conn : v = Viewer(t) /\ s = Subject(t) /\ v \in Range(snapshot)
  BY <1>0, Members DEF Base
<1>8. Due(v, s)' /\ v # s /\ t \in Nat BY <1>0, <1>2, <1>6, <1>7 DEF Due, Reached, Listed
<1>9. Right(v, s)' => Right(Viewer(t), Subject(t))' BY <1>6, <1>7 DEF Right
<1>10. CASE tickPc = "clear" \/ t < turn
  <2>1. ~(List /\ Viewer(turn) = v /\ Subject(turn) = s)
    <3>1. SUFFICES ASSUME List, Viewer(turn) = v, Subject(turn) = s PROVE FALSE OBVIOUS
    <3>2. t < turn /\ held.at # 0 BY <1>10, <3>1, ListSteps
    <3>3. turn \in 1 .. Len(snapshot) * Len(snapshot) BY <3>2, PairAtHand
    <3>4. t = turn BY <1>0, <1>7, <3>1, <3>3, PairsDiffer DEF Base, SyncInv
    <3> QED BY <1>0, <3>2, <3>4
  <2>2. Due(v, s) BY <1>2, <1>4, <1>7, <1>8, <2>1, DueBefore
  <2>3. Right(v, s) BY <1>0, <1>3, <1>4, <1>7, <1>8, <1>10, <2>2 DEF SyncInv
  <2> QED BY <1>2, <1>3, <1>4, <1>7, <1>8, <1>9, <2>2, <2>3, RightStays
<1>11. CASE ~(tickPc = "clear" \/ t < turn)
  <2>1. CASE List \/ (turn' = turn /\ tickPc' = tickPc)
    <3>1. turn' = turn /\ tickPc' # "clear" BY <1>11, <2>1, ListSteps
    <3> QED BY <1>2, <1>11, <3>1
  <2>2. CASE ~List
    <3>1. Due(v, s) BY <1>2, <1>4, <1>7, <1>8, <2>2, DueBefore
    <3>2. Reached(v) /\ Reached(s) /\ v \notin crossed /\ << v, s >> \notin forgot BY <3>1 DEF Due
    <3>3. t \in Pairs BY <1>0, <1>7, <1>8, <1>11, <3>2 DEF Pairs
    <3>4. Tidy(v) BY <1>3, <1>7, <3>2 DEF TableInv
    <3>5. ~SyncDone BY <3>3 DEF SyncDone
    <3>6. CASE Sync
      <4>1. /\ \A u \in turn .. Min(Pairs) - 1 : u \notin Pairs
            /\ Min(Pairs) \in Nat
        BY <3>6, SyncSteps
      <4>2. Min(Pairs) <= t BY <1>0, <1>8, <1>11, <3>3, <4>1
      <4>3. \/ /\ Subject(Min(Pairs)) \in dead /\ HideDead(Viewer(Min(Pairs)), Subject(Min(Pairs)))
               /\ turn' = Min(Pairs) + 1 /\ tickPc' = "sync"
            \/ turn' = Min(Pairs) /\ tickPc' = "list"
        BY <3>6, SyncSteps
      <4>4. t = Min(Pairs) /\ turn' = Min(Pairs) + 1 BY <1>2, <1>8, <4>1, <4>2, <4>3
      <4>5. s \in dead /\ HideDead(v, s) BY <1>7, <1>8, <4>1, <4>3, <4>4
      <4> QED BY <1>3, <1>7, <1>9, <3>2, <3>4, <3>6, <4>4, <4>5, HiddenRight
    <3>7. CASE Show
      <4>1. turn' = turn + 1 /\ tickPc' = "sync" BY <3>7, ShowSteps
      <4>2. t = turn BY <1>0, <1>2, <1>8, <1>11, <4>1
      <4> QED BY <1>3, <1>7, <1>9, <3>4, <3>7, <4>2, ShowRight
    <3>8. CASE UNCHANGED << turn, tickPc >> BY <2>1, <3>8
    <3> QED BY <1>2, <1>4, <2>2, <3>5, <3>6, <3>7, <3>8, SyncMoves
  <2> QED BY <2>1, <2>2
<1> QED BY <1>10, <1>11

\* After the sync loop of a tick every player is shown to every other, and the
\* dead to none (SeesLiving), however the network thread's closing connections
\* interleave with the loop, but for viewers whose table it changed meanwhile.
THEOREM SeesLivingCorrect == Spec => []SeesLiving
<1> DEFINE I == Base /\ Fresh /\ ShownInv /\ TableInv /\ SyncInv
<1>1. Init => I
  <2>1. Init => SyncInv
    <3>1. Init => snapshot = << >> /\ tickPc = "tasks" BY DEF Init
    <3> QED BY <3>1 DEF SyncInv, Syncing, IsInjective
  <2> QED BY <2>1, BaseBegins, FreshBegins, ShownBegins, TableBegins
<1>2. I /\ [Next]_vars => I'
  <2>1. SUFFICES ASSUME I, [Next]_vars PROVE I' OBVIOUS
  <2>2. Base' /\ Fresh' BY <2>1, BaseHolds, FreshHolds
  <2>3. ShownInv' BY <2>1, ShownHolds
  <2>4. TableInv' BY <2>1, <2>2, TableHolds
  <2>5. SyncInv' BY <2>1, <2>2, SyncedHolds
  <2> QED BY <2>2, <2>3, <2>4, <2>5
<1>3. I => SeesLiving
  <2>1. SUFFICES ASSUME I, tickPc = "clear", raced = {}, NEW v \in Range(snapshot), NEW s \in Range(snapshot),
                        v # s, Due(v, s)
                 PROVE  Right(v, s)
    BY DEF SeesLiving, Due, Right
  <2>2. \E t \in 1 .. Len(snapshot) * Len(snapshot) : Viewer(t) = v /\ Subject(t) = s
    <3>1. Len(snapshot) \in Nat /\ DOMAIN snapshot = 1 .. Len(snapshot) BY <2>1 DEF Base, TypeOK
    <3>2. PICK i \in 1 .. Len(snapshot), j \in 1 .. Len(snapshot) : snapshot[i] = v /\ snapshot[j] = s
      BY <2>1, <3>1 DEF Range
    <3> DEFINE n == Len(snapshot)
    <3>3. n \in Nat /\ i \in 1 .. n /\ j \in 1 .. n BY <3>1
    <3> HIDE DEF n
    <3> DEFINE t == Place(n, i, j)
    <3>4. t \in 1 .. n * n /\ Row(n, t) = i /\ Column(n, t) = j BY <3>3, PlacesPair
    <3> HIDE DEF t
    <3>5. snapshot[Row(n, t)] = v /\ snapshot[Column(n, t)] = s BY <3>2, <3>4
    <3>6. Viewer(t) = v /\ Subject(t) = s BY <3>5 DEF Viewer, Subject, Row, Column, n
    <3> QED BY <3>4, <3>6 DEF n
  <2> QED BY <2>1, <2>2 DEF SyncInv, Syncing
<1> QED BY <1>1, <1>2, <1>3, PTL DEF Spec

-----------------------------------------------------------------------------
(* Every client shows what lies on the ground.                             *)

\* What a client shows for an item that is not in x.
Recs(x) == [item : Items \ x, left : 0 .. Size]

\* The client shows f while the items of g lie on the ground: nothing that is
\* not there, and of what is there all but the place o, which it need not know
\* of yet; the items in x do not count.
Shows(f, g, x, o) ==
    /\ \A i \in Ids : f[i] \in Recs(x) => \E k \in DOMAIN g : g[k].id = i /\ f[i] = Item(g[k])
    /\ \A k \in DOMAIN g : g[k].item \notin x /\ k # o => f[g[k].id] = Item(g[k])

\* While the broadcast of the last item walks the list, not everybody has it.
OpenAt(pc, n) == IF pc = "walk" THEN n ELSE 0

\* What the client of c shows now.
Knows(c) == Shows(seen[c], ground, spoiled, OpenAt(tickPc, Len(ground)))

\* That is so for all that are told of items.
GroundInv == raced = {} /\ ~wild => \A c \in Conn : Listed(c) /\ Reached(c) => Knows(c)

\* Items with numbers of their own.
Apart(g) == (\A k \in DOMAIN g : g[k].id \in Ids) /\ \A k, l \in DOMAIN g : g[k].id = g[l].id => k = l

\* Without a race the items' numbers differ.
LEMMA GroundApart == ASSUME Base, Fresh, raced = {} PROVE Apart(ground)
<1>1. \A k \in DOMAIN ground : ground[k].id \in Ids BY GroundItems DEF Base
<1> QED BY <1>1 DEF Fresh, Apart

\* Changes under other numbers do not matter.
LEMMA ShowsOthers ==
    ASSUME NEW f, NEW e, NEW g, NEW x, NEW o, Apart(g), Shows(f, g, x, o),
           \A i \in Ids : \/ e[i] = f[i]
                          \/ e[i] \notin Recs(x) /\ \A k \in DOMAIN g : g[k].id # i
    PROVE  Shows(e, g, x, o)
BY DEF Shows, Apart

\* A new item that all are told of,
LEMMA ShowsNew ==
    ASSUME NEW f, NEW e, NEW g, NEW h, NEW x, NEW n, Shows(f, g, x, 0), Apart(h),
           n \notin DOMAIN g, DOMAIN h = DOMAIN g \cup {n}, \A k \in DOMAIN g : h[k] = g[k],
           \A i \in Ids : e[i] = IF i = h[n].id THEN Item(h[n]) ELSE f[i], 0 \notin DOMAIN g
    PROVE  Shows(e, h, x, 0)
<1>1. ASSUME NEW i \in Ids, e[i] \in Recs(x) PROVE \E k \in DOMAIN h : h[k].id = i /\ e[i] = Item(h[k])
  <2>1. CASE i = h[n].id BY <2>1
  <2>2. CASE i # h[n].id
    <3>1. e[i] = f[i] BY <2>2
    <3>2. PICK k \in DOMAIN g : g[k].id = i /\ f[i] = Item(g[k]) BY <1>1, <3>1 DEF Shows
    <3> QED BY <3>1, <3>2
  <2> QED BY <2>1, <2>2
<1>2. ASSUME NEW k \in DOMAIN h, h[k].item \notin x PROVE e[h[k].id] = Item(h[k])
  <2>1. h[k].id \in Ids BY DEF Apart
  <2>2. CASE k = n BY <2>1, <2>2
  <2>3. CASE k # n
    <3>1. k \in DOMAIN g /\ h[k] = g[k] /\ k # 0 BY <2>3
    <3>2. h[k].id # h[n].id BY <2>3 DEF Apart
    <3>3. f[g[k].id] = Item(g[k]) BY <1>2, <3>1 DEF Shows
    <3> QED BY <2>1, <3>1, <3>2, <3>3
  <2> QED BY <2>2, <2>3
<1> QED BY <1>1, <1>2 DEF Shows

\* and one that nobody has been told of.
LEMMA ShowsUnheard ==
    ASSUME NEW f, NEW g, NEW h, NEW x, NEW n, Shows(f, g, x, 0), 0 \notin DOMAIN g,
           DOMAIN h = DOMAIN g \cup {n}, \A k \in DOMAIN g : h[k] = g[k]
    PROVE  Shows(f, h, x, n)
<1>1. ASSUME NEW i \in Ids, f[i] \in Recs(x) PROVE \E k \in DOMAIN h : h[k].id = i /\ f[i] = Item(h[k])
  <2>1. PICK k \in DOMAIN g : g[k].id = i /\ f[i] = Item(g[k]) BY <1>1 DEF Shows
  <2> QED BY <2>1
<1>2. ASSUME NEW k \in DOMAIN h, h[k].item \notin x, k # n PROVE f[h[k].id] = Item(h[k])
  <2>1. k \in DOMAIN g /\ h[k] = g[k] /\ k # 0 BY <1>2
  <2> QED BY <1>2, <2>1 DEF Shows
<1> QED BY <1>1, <1>2 DEF Shows

\* The item at one place changes, and the client is told,
LEMMA ShowsTold ==
    ASSUME NEW f, NEW e, NEW g, NEW h, NEW x, NEW o, NEW p, NEW n \in DOMAIN g, Shows(f, g, x, o),
           Apart(g), o = p \/ o = n,
           DOMAIN h = DOMAIN g, \A k \in DOMAIN g : k # n => h[k] = g[k], h[n].id = g[n].id,
           \A i \in Ids : e[i] = IF i = g[n].id THEN Item(h[n]) ELSE f[i]
    PROVE  Shows(e, h, x, p)
<1>1. ASSUME NEW i \in Ids, e[i] \in Recs(x) PROVE \E k \in DOMAIN h : h[k].id = i /\ e[i] = Item(h[k])
  <2>1. CASE i = g[n].id BY <2>1
  <2>2. CASE i # g[n].id
    <3>1. e[i] = f[i] BY <2>2
    <3>2. PICK k \in DOMAIN g : g[k].id = i /\ f[i] = Item(g[k]) BY <1>1, <3>1 DEF Shows
    <3>3. k # n BY <2>2, <3>2
    <3> QED BY <3>1, <3>2, <3>3
  <2> QED BY <2>1, <2>2
<1>2. ASSUME NEW k \in DOMAIN h, h[k].item \notin x, k # p PROVE e[h[k].id] = Item(h[k])
  <2>1. g[k].id \in Ids BY DEF Apart
  <2>2. CASE k = n BY <2>1, <2>2
  <2>3. CASE k # n
    <3>1. h[k] = g[k] /\ k # o BY <1>2, <2>3
    <3>2. g[k].id # g[n].id BY <2>3 DEF Apart
    <3>3. f[g[k].id] = Item(g[k]) BY <1>2, <3>1 DEF Shows
    <3> QED BY <2>1, <3>1, <3>2, <3>3
  <2> QED BY <2>2, <2>3
<1> QED BY <1>1, <1>2 DEF Shows

\* or is not, and the item does not count any more.
LEMMA ShowsSpoiled ==
    ASSUME NEW f, NEW g, NEW h, NEW x, NEW n \in DOMAIN g, Shows(f, g, x, 0),
           DOMAIN h = DOMAIN g, \A k \in DOMAIN g : k # n => h[k] = g[k], h[n].item = g[n].item
    PROVE  Shows(f, h, x \cup {g[n].item}, 0)
<1> DEFINE y == x \cup {g[n].item}
<1>1. ASSUME NEW i \in Ids, f[i] \in Recs(y) PROVE \E k \in DOMAIN h : h[k].id = i /\ f[i] = Item(h[k])
  <2>1. f[i] \in Recs(x) /\ f[i].item # g[n].item BY <1>1 DEF Recs
  <2>2. PICK k \in DOMAIN g : g[k].id = i /\ f[i] = Item(g[k]) BY <2>1 DEF Shows
  <2>3. f[i].item = g[k].item BY <2>2 DEF Item
  <2>4. k # n BY <2>1, <2>3
  <2> QED BY <2>2, <2>4
<1>2. ASSUME NEW k \in DOMAIN h, h[k].item \notin y, k # 0 PROVE f[h[k].id] = Item(h[k])
  <2>1. k # n /\ h[k] = g[k] BY <1>2
  <2> QED BY <1>2, <2>1 DEF Shows
<1> QED BY <1>1, <1>2 DEF Shows

\* An item goes.
LEMMA ShowsFewer ==
    ASSUME NEW f, NEW e, NEW g, NEW h, NEW x, NEW n \in DOMAIN g, Shows(f, g, x, 0), Apart(g),
           0 \notin DOMAIN g,
           \A i \in DOMAIN h : \E j \in DOMAIN g \ {n} : h[i] = g[j],
           \A j \in DOMAIN g \ {n} : \E i \in DOMAIN h : h[i] = g[j],
           \A i \in Ids : e[i] = IF i = g[n].id THEN Nothing ELSE f[i],
           Nothing \notin Recs(x)
    PROVE  Shows(e, h, x, 0)
<1>1. ASSUME NEW i \in Ids, e[i] \in Recs(x) PROVE \E k \in DOMAIN h : h[k].id = i /\ e[i] = Item(h[k])
  <2>1. i # g[n].id /\ e[i] = f[i] BY <1>1
  <2>2. PICK j \in DOMAIN g : g[j].id = i /\ f[i] = Item(g[j]) BY <1>1, <2>1 DEF Shows
  <2>3. j # n BY <2>1, <2>2
  <2>4. PICK k \in DOMAIN h : h[k] = g[j] BY <2>3
  <2> QED BY <2>1, <2>2, <2>4
<1>2. ASSUME NEW k \in DOMAIN h, h[k].item \notin x PROVE e[h[k].id] = Item(h[k])
  <2>1. PICK j \in DOMAIN g : j # n /\ h[k] = g[j] OBVIOUS
  <2>2. g[j].id \in Ids /\ g[j].id # g[n].id /\ j # 0 BY <2>1 DEF Apart
  <2>3. f[g[j].id] = Item(g[j]) BY <1>2, <2>1, <2>2 DEF Shows
  <2> QED BY <2>1, <2>2, <2>3
<1> QED BY <1>1, <1>2 DEF Shows

\* All of the ground is sent to a client that shows no other items.
LEMMA ShowsAll ==
    ASSUME NEW f, NEW e, NEW g, NEW x, NEW o, Apart(g),
           \A i \in Ids : (\A k \in DOMAIN g : g[k].id # i) => e[i] = f[i] /\ f[i] \notin Recs(x),
           \A i \in Ids : (\E k \in DOMAIN g : g[k].id = i) => \E k \in DOMAIN g : g[k].id = i /\ e[i] = Item(g[k])
    PROVE  Shows(e, g, x, o)
<1>1. ASSUME NEW i \in Ids, e[i] \in Recs(x) PROVE \E k \in DOMAIN g : g[k].id = i /\ e[i] = Item(g[k])
  <2>1. \E k \in DOMAIN g : g[k].id = i BY <1>1
  <2> QED BY <2>1
<1>2. ASSUME NEW k \in DOMAIN g PROVE e[g[k].id] = Item(g[k])
  <2>1. g[k].id \in Ids BY DEF Apart
  <2>2. PICK l \in DOMAIN g : g[l].id = g[k].id /\ e[g[k].id] = Item(g[l]) BY <2>1
  <2>3. l = k BY <2>2 DEF Apart
  <2> QED BY <2>2, <2>3
<1> QED BY <1>1, <1>2 DEF Shows

\* What comes after c when the list is s and a holds the c->next of those
\* taken out of it (NextOf).
Follow(s, a, c) ==
    IF c \notin Range(s) THEN a[c]
    ELSE LET k == CHOOSE k \in DOMAIN s : s[k] = c
         IN  IF k = Len(s) THEN NoConn ELSE s[k + 1]

\* So for every connection.
Nexts == [c \in Conn |-> Follow(conns, after, c)]

\* X holds w and what comes after its members.
Closed(X, w, nx) == w \in X \cup {NoConn} /\ \A x \in X : nx[x] \in X \cup {NoConn}

\* Who has not been told of the last item.
Todo == {c \in Conn : Listed(c) /\ Reached(c) /\ seen[c][Last(ground).id] # Item(Last(ground))}

\* Whoever has not been told of the last item comes after the one the walk is
\* at, also when that one has been taken out of the list, and those after it.
\* Only who has been in the list has a c->next.
WalkInv ==
    /\ \A c \in Conn : phase[c] = "none" => after[c] = NoConn
    /\ raced = {} /\ ~wild /\ tickPc = "walk" =>
         \A X \in SUBSET Conn : Closed(X, walker, Nexts) => Todo \subseteq X

\* What comes after a place of the list.
LEMMA FollowPlace ==
    ASSUME NEW s \in Seq(Conn), IsInjective(s), NEW a, NEW k \in DOMAIN s
    PROVE  Follow(s, a, s[k]) = IF k = Len(s) THEN NoConn ELSE s[k + 1]
<1> DEFINE j == CHOOSE j \in DOMAIN s : s[j] = s[k]
<1>1. j \in DOMAIN s /\ s[j] = s[k] OBVIOUS
<1>2. j = k BY <1>1 DEF IsInjective
<1>3. s[k] \in Range(s) BY DEF Range
<1>4. Follow(s, a, s[k]) = IF j = Len(s) THEN NoConn ELSE s[j + 1] BY <1>3 DEF Follow
<1> QED BY <1>2, <1>4

\* Putting one at the head changes what comes after nobody else.
LEMMA FollowLink ==
    ASSUME NEW s \in Seq(Conn), IsInjective(s), NEW a, NEW d \in Conn, d \notin Range(s), NEW c \in Conn, c # d
    PROVE  Follow(<< d >> \o s, a, c) = Follow(s, a, c)
<1> DEFINE t == << d >> \o s
<1>1. t \in Seq(Conn) /\ IsInjective(t) /\ Range(t) = Range(s) \cup {d} BY PrependList
<1>2. /\ Len(s) \in Nat /\ DOMAIN s = 1 .. Len(s) /\ Len(t) = Len(s) + 1 /\ DOMAIN t = 1 .. Len(s) + 1
      /\ \A k \in 1 .. Len(s) : t[k + 1] = s[k]
  OBVIOUS
<1> HIDE DEF t
<1>3. CASE c \in Range(s)
  <2>1. PICK k \in DOMAIN s : s[k] = c BY <1>3 DEF Range
  <2>2. k + 1 \in DOMAIN t /\ t[k + 1] = c BY <1>2, <2>1
  <2>3. Follow(s, a, c) = IF k = Len(s) THEN NoConn ELSE s[k + 1] BY <2>1, FollowPlace
  <2>4. Follow(t, a, c) = IF k + 1 = Len(t) THEN NoConn ELSE t[k + 1 + 1] BY <1>1, <2>2, FollowPlace
  <2>5. k \in 1 .. Len(s) /\ (k # Len(s) => t[k + 1 + 1] = s[k + 1])
    <3>1. k \in 1 .. Len(s) BY <1>2, <2>1
    <3>2. k # Len(s) => k + 1 \in 1 .. Len(s) BY <1>2, <3>1
    <3> QED BY <1>2, <3>1, <3>2
  <2>6. k = Len(s) <=> k + 1 = Len(t) BY <1>2, <2>5
  <2> QED BY <2>3, <2>4, <2>5, <2>6 DEF t
<1>4. CASE c \notin Range(s)
  <2>1. c \notin Range(t) BY <1>1, <1>4
  <2> QED BY <1>4, <2>1 DEF Follow, t
<1> QED BY <1>3, <1>4

\* The c->next kept for one who leaves.
Leave(s, a, d) == [a EXCEPT ![d] = Follow(s, a, d)]

\* One who leaves keeps what comes after it, and that now also comes after the
\* one before it.
LEMMA FollowUnlink ==
    ASSUME NEW s \in Seq(Conn), IsInjective(s), NEW a \in [Conn -> Conn \cup {NoConn}], NEW d \in Range(s),
           NEW c \in Conn
    PROVE  \/ Follow(RemoveFirst(s, d), Leave(s, a, d), c) = Follow(s, a, c)
           \/ Follow(s, a, c) = d /\ Follow(RemoveFirst(s, d), Leave(s, a, d), c) = Follow(s, a, d)
<1> DEFINE t == RemoveFirst(s, d)
           n == Len(s)
           b == Leave(s, a, d)
<1>1. t \in Seq(Conn) /\ IsInjective(t) /\ Range(t) = Range(s) \ {d} BY RemoveList
<1>2. PICK k \in 1 .. n :
        /\ n \in Nat /\ s[k] = d /\ DOMAIN t = 1 .. n - 1
        /\ \A i \in 1 .. n - 1 : t[i] = s[IF i < k THEN i ELSE i + 1]
  BY RemovePlaces
<1>3. DOMAIN s = 1 .. n /\ Len(t) = n - 1 /\ d \in Conn
  <2>1. DOMAIN t = 1 .. Len(t) /\ Len(t) \in Nat BY <1>1
  <2>2. Len(t) = n - 1 BY <1>2, <2>1
  <2> QED BY <1>2, <2>2
<1>4. b[d] = Follow(s, a, d) /\ \A x \in Conn \ {d} : b[x] = a[x] BY <1>3 DEF Leave
<1> HIDE DEF t, n, b
<1>5. Follow(s, a, d) = IF k = n THEN NoConn ELSE s[k + 1]
  <2>1. k \in DOMAIN s /\ s[k] = d BY <1>2, <1>3
  <2>2. Follow(s, a, s[k]) = IF k = Len(s) THEN NoConn ELSE s[k + 1] BY <2>1, FollowPlace
  <2> QED BY <2>1, <2>2 DEF n
<1>6. CASE c \notin Range(t)
  <2>1. Follow(t, b, c) = b[c] BY <1>6 DEF Follow
  <2>2. CASE c = d
    <3>1. b[c] = Follow(s, a, d) BY <1>4, <2>2
    <3> QED BY <2>1, <2>2, <3>1 DEF t, b
  <2>3. CASE c # d
    <3>1. b[c] = a[c] /\ c \notin Range(s) BY <1>1, <1>4, <1>6, <2>3
    <3> QED BY <2>1, <3>1 DEF Follow, t, b
  <2> QED BY <2>2, <2>3
<1>7. CASE c \in Range(t)
  <2>1. PICK i \in 1 .. n - 1 : t[i] = c BY <1>2, <1>7 DEF Range
  <2> DEFINE j == IF i < k THEN i ELSE i + 1
  <2>2. j \in 1 .. n /\ s[j] = c BY <1>2, <2>1
  <2>3. Follow(s, a, c) = IF j = n THEN NoConn ELSE s[j + 1]
    <3>1. j \in DOMAIN s /\ s[j] = c BY <1>3, <2>2
    <3> HIDE DEF j
    <3>2. Follow(s, a, s[j]) = IF j = Len(s) THEN NoConn ELSE s[j + 1] BY <3>1, FollowPlace
    <3> QED BY <3>1, <3>2 DEF n
  <2>4. Follow(t, b, c) = IF i = n - 1 THEN NoConn ELSE t[i + 1]
    <3>1. i \in DOMAIN t /\ t[i] = c BY <1>2, <2>1
    <3>2. Follow(t, b, t[i]) = IF i = Len(t) THEN NoConn ELSE t[i + 1] BY <1>1, <3>1, FollowPlace
    <3> QED BY <1>3, <3>1, <3>2
  <2>5. i # n - 1 => t[i + 1] = s[IF i + 1 < k THEN i + 1 ELSE i + 2]
    <3>1. i # n - 1 => i + 1 \in 1 .. n - 1 /\ i + 1 + 1 = i + 2 BY <1>2, <2>1
    <3> QED BY <1>2, <3>1
  <2>6. CASE i + 1 < k
    <3>1. j = i /\ j # n /\ i # n - 1 BY <1>2, <2>1, <2>6
    <3> QED BY <2>3, <2>4, <2>5, <2>6, <3>1 DEF t, b
  <2>7. CASE i + 1 = k
    <3>1. j = i /\ j # n /\ j + 1 = k /\ (i = n - 1 <=> k = n) /\ i + 2 = k + 1 BY <1>2, <2>1, <2>7
    <3>2. Follow(s, a, c) = d BY <1>2, <2>3, <3>1
    <3>3. Follow(t, b, c) = Follow(s, a, d) BY <1>5, <2>4, <2>5, <2>7, <3>1
    <3> QED BY <3>2, <3>3 DEF t, b
  <2>8. CASE i + 1 > k
    <3>1. j = i + 1 /\ (j = n <=> i = n - 1) /\ j + 1 = i + 2 /\ ~(i + 1 < k) BY <1>2, <2>1, <2>8
    <3> QED BY <2>3, <2>4, <2>5, <3>1 DEF t, b
  <2>9. i \in Nat /\ k \in Nat BY <1>2, <2>1
  <2> QED BY <2>6, <2>7, <2>8, <2>9
<1> QED BY <1>6, <1>7

\* From the head on, everybody in the list follows.
LEMMA WholeList ==
    ASSUME NEW s \in Seq(Conn), IsInjective(s), NEW a, NEW X \in SUBSET Conn,
           s # << >> => Head(s) \in X, \A x \in X : Follow(s, a, x) \in X \cup {NoConn}
    PROVE  Range(s) \subseteq X
<1> DEFINE S == {k \in DOMAIN s : s[k] \notin X}
<1>1. Len(s) \in Nat /\ DOMAIN s = 1 .. Len(s) /\ \A k \in 1 .. Len(s) : s[k] \in Conn OBVIOUS
<1>2. ASSUME S # {} PROVE FALSE
  <2>1. S \in SUBSET Nat BY <1>1
  <2> DEFINE k == Min(S)
  <2>2. k \in S /\ \A y \in S : k <= y BY <1>2, <2>1, MinOfNat
  <2> HIDE DEF k
  <2>3. k # 1
    <3>1. s # << >> BY <1>1, <2>2
    <3> QED BY <2>2, <3>1
  <2>4. k - 1 \in DOMAIN s /\ k - 1 \notin S /\ k - 1 + 1 = k /\ k - 1 # Len(s) BY <1>1, <2>1, <2>2, <2>3
  <2>5. s[k - 1] \in X BY <2>4
  <2>6. Follow(s, a, s[k - 1]) = s[k] BY <2>4, FollowPlace
  <2>7. s[k] \in Conn BY <1>1, <2>2
  <2> QED BY <2>2, <2>5, <2>6, <2>7, EntitiesAssumption
<1> QED BY <1>2 DEF Range

\* Between two places of the walk only the network thread does anything.
LEMMA WalkKinds ==
    ASSUME [Next]_vars, tickPc = "walk"
    PROVE  UNCHANGED vars \/ Walk \/ (Net /\ UNCHANGED << tickVars, ground, spoiled, wild >>)
<1>1. CASE UNCHANGED vars BY <1>1
<1>2. CASE Tick
  <2>1. \A c \in Conn : ~Packet(c)
    BY DEF Packet, Join, Confirm, Fail, Drop, Die, Respawn, Taken
  <2>2. ~(Spawned \/ Snapshot \/ Turn \/ Counted \/ ItemsStart \/ ItemTick \/ ItemsDone)
    BY DEF Spawned, Snapshot, Turn, Counted, ItemsStart, ItemTick, ItemsDone
  <2>3. ~(Sync \/ List \/ Show \/ SyncDone \/ Clear)
    BY DEF Sync, List, Show, SyncDone, Clear
  <2> QED BY <1>2, <2>1, <2>2, <2>3 DEF Tick
<1>3. ASSUME NEW c \in Conn, Number(c) \/ CloseConn(c)
      PROVE  UNCHANGED << tickVars, ground, spoiled, wild >>
  BY <1>3 DEF Number, CloseConn, serverVars, historyVars
<1>4. ASSUME Numbered \/ Link \/ Unsee \/ Unlink \/ Shut
      PROVE  UNCHANGED << tickVars, ground, spoiled, wild >>
  BY <1>4 DEF Numbered, Link, Unsee, Unlink, Shut, historyVars
<1> QED BY <1>1, <1>2, <1>3, <1>4 DEF Next, Net

\* Only a drop in the middle of proto_play_tick starts a walk.
LEMMA BeginsWalk ==
    ASSUME Base, [Next]_vars, tickPc # "walk", tickPc' = "walk"
    PROVE  Counted
<1>1. CASE UNCHANGED vars BY <1>1 DEF vars, tickVars
<1>2. CASE Net
  <2>1. ASSUME NEW c \in Conn, Number(c) \/ CloseConn(c) PROVE UNCHANGED tickPc
    BY <2>1 DEF Number, CloseConn, tickVars
  <2>2. CASE Numbered \/ Link \/ Unsee \/ Unlink \/ Shut
    BY <2>2 DEF Numbered, Link, Unsee, Unlink, Shut, tickVars
  <2> QED BY <1>2, <2>1, <2>2 DEF Net
<1>3. ASSUME NEW c \in Conn, Packet(c) PROVE tickPc' # "walk"
  BY <1>3 DEF Packet, Join, Confirm, Fail, Drop, Die, Respawn, Taken, tickVars
<1>4. ~(Spawned \/ Snapshot \/ Turn \/ Walk \/ ItemsStart \/ ItemTick \/ ItemsDone)
  BY DEF Spawned, Snapshot, Turn, Walk, ItemsStart, ItemTick, ItemsDone
<1>5. ~(Sync \/ List \/ Show \/ SyncDone \/ Clear)
  BY DEF Sync, List, Show, SyncDone, Clear
<1> QED BY <1>1, <1>2, <1>3, <1>4, <1>5 DEF Next, Tick

\* What is about players changes what is shown under players' numbers.
LEMMA PlayerSlots ==
    ASSUME Base, Unsee \/ Shut \/ Clear \/ Sync \/ List \/ Show, NEW c \in Conn, Listed(c)
    PROVE  \A i \in Ids :
             \/ seen'[c][i] = seen[c][i]
             \/ /\ seen'[c][i] \notin [item : Items, left : 0 .. Size]
                /\ \E s \in Conn : phase[s] # "none" /\ i = id[s]
<1>1. Nothing \notin [item : Items, left : 0 .. Size] BY RecordsDiffer
<1>2. \A s \in Conn : Player(s) \notin [item : Items, left : 0 .. Size] BY RecordsDiffer
<1>3. CASE Unsee
  <2>1. netConn \in Conn /\ id[netConn] \in Ids /\ Listed(netConn) BY <1>3, UnseeSteps
  <2>2. phase[netConn] # "none" BY <2>1 DEF Base, ListInv, Listed
  <2>3. CASE UNCHANGED seen BY <2>3
  <2>4. ASSUME NEW v \in Conn, RemoveRemote(v, netConn)
        PROVE  \A i \in Ids : seen'[c][i] = seen[c][i] \/ (seen'[c][i] = Nothing /\ i = id[netConn])
    <3>1. CASE At(v, id[netConn]) = 0 BY <2>1, <2>4, <3>1, Removed DEF Base
    <3>2. CASE At(v, id[netConn]) # 0 /\ c = v
      <4>1. \A i \in Ids : seen'[v][i] =
              IF i = id[netConn] /\ table[v][At(v, id[netConn])].spawned THEN Nothing ELSE seen[v][i]
        BY <2>1, <2>4, <3>2, Removed DEF Base
      <4> QED BY <3>2, <4>1
    <3>3. CASE At(v, id[netConn]) # 0 /\ c # v
      <4>1. \A u \in Conn \ {v} : seen'[u] = seen[u] BY <2>1, <2>4, <3>3, Removed DEF Base
      <4> QED BY <3>3, <4>1
    <3> QED BY <3>1, <3>2, <3>3
  <2>5. UNCHANGED seen \/ \E v \in Conn : RemoveRemote(v, netConn) BY <1>3, UnseeSteps
  <2> QED BY <1>1, <2>1, <2>2, <2>3, <2>4, <2>5
<1>4. CASE Shut \/ Clear
  <2>1. PICK gone \in SUBSET Conn : Free(gone) /\ \A d \in gone : ~Listed(d) BY <1>4, FreeSteps
  <2>2. seen'[c] = seen[c] BY <2>1, Freed DEF Base
  <2> QED BY <2>2
<1>5. CASE Sync
  <2> DEFINE v == Viewer(Min(Pairs))
             s == Subject(Min(Pairs))
  <2>1. /\ v \in Conn /\ s \in Conn /\ phase[s] = "ready" /\ id[s] \in Ids
        /\ \A u \in Conn \ {v} : seen'[u] = seen[u]
        /\ HideDead(v, s) \/ UNCHANGED seen
    BY <1>5, SyncSteps
  <2>2. id[s] # 0 BY <2>1, NumbersSuffice DEF Base, TypeOK
  <2> HIDE DEF v, s
  <2>3. CASE UNCHANGED seen BY <2>3
  <2>4. CASE HideDead(v, s)
    <3>1. \A i \in Ids : seen'[v][i] =
            IF i = id[s] /\ At(v, id[s]) # 0 /\ table[v][At(v, id[s])].spawned THEN Nothing ELSE seen[v][i]
      BY <2>1, <2>2, <2>4, Hidden DEF Base
    <3> QED BY <1>1, <2>1, <3>1
  <2> QED BY <2>1, <2>3, <2>4
<1>6. CASE List BY <1>6, ListSteps
<1>7. CASE Show
  <2> DEFINE v == Viewer(turn)
             s == Subject(turn)
  <2>1. /\ v \in Conn /\ s \in Conn /\ phase[s] = "ready"
        /\ \A u \in Conn \ {v} : seen'[u] = seen[u]
        /\ \A i \in Ids : seen'[v][i] = IF ~Pointed(v).spawned /\ i = id[s] THEN Player(s) ELSE seen[v][i]
    BY <1>7, ShowSteps
  <2> HIDE DEF v, s
  <2> QED BY <1>2, <2>1
<1> QED BY <1>3, <1>4, <1>5, <1>6, <1>7

\* Under items' numbers, then, nothing changes by what is about players.
LEMMA ItemSlots ==
    ASSUME Base, Fresh, raced = {}, Unsee \/ Shut \/ Clear \/ Sync \/ List \/ Show, NEW c \in Conn, Listed(c)
    PROVE  \A i \in Ids : \/ seen'[c][i] = seen[c][i]
                          \/ /\ seen'[c][i] \notin [item : Items, left : 0 .. Size]
                             /\ \A k \in DOMAIN ground : ground[k].id # i
<1>1. \A s \in Conn, k \in DOMAIN ground : phase[s] # "none" => ground[k].id # id[s] BY Distinct
<1> QED BY <1>1, PlayerSlots

\* Only the network thread's taking a connection out of the list sets c->next
\* behind the list, and the end of a walk forgets it.
LEMMA AfterSteps ==
    ASSUME Base, [Next]_vars
    PROVE  \/ UNCHANGED after
           \/ Walk /\ after' = [c \in Conn |-> NoConn]
           \/ Unlink /\ netConn \in Conn /\ phase[netConn] # "none" /\ after' = [after EXCEPT ![netConn] = NextOf(netConn)]
<1>1. CASE UNCHANGED vars BY <1>1 DEF vars, serverVars
<1>2. ASSUME NEW c \in Conn, Number(c) \/ CloseConn(c) PROVE UNCHANGED after
  BY <1>2 DEF Number, CloseConn, serverVars
<1>3. CASE Numbered \/ Link \/ Unsee \/ Shut BY <1>3 DEF Numbered, Link, Unsee, Shut
<1>4. CASE Unlink
  <2>1. netConn \in Conn /\ Listed(netConn) BY <1>4, UnlinkedMembers DEF Unlink, Base, NetInv
  <2>2. phase[netConn] # "none" BY <2>1 DEF Base, ListInv, Listed
  <2> QED BY <1>4, <2>1, <2>2 DEF Unlink
<1>5. ASSUME NEW c \in Conn, Packet(c) PROVE UNCHANGED after
  BY <1>5 DEF Packet, Join, Confirm, Fail, Drop, Die, Respawn, serverVars
<1>6. CASE Spawned \/ Snapshot \/ Turn \/ Counted \/ ItemsStart \/ ItemTick \/ ItemsDone
  BY <1>6 DEF Spawned, Snapshot, Turn, Counted, ItemsStart, ItemTick, ItemsDone, serverVars
<1>7. CASE Walk BY <1>7 DEF Walk
<1>8. CASE Sync \/ List \/ Show \/ SyncDone \/ Clear
  BY <1>8 DEF Sync, List, Show, SyncDone, Clear, serverVars
<1> QED BY <1>1, <1>2, <1>3, <1>4, <1>5, <1>6, <1>7, <1>8 DEF Next, Net, Tick

\* Under a walk nobody comes to be untold; the one the walk is at is told.
LEMMA TodoShrinks ==
    ASSUME Base, Base', Fresh, [Next]_vars, raced = {}, tickPc = "walk", ~wild', NEW c \in Todo'
    PROVE  /\ c \in Todo
           /\ Walk => c # walker
<1>1. /\ c \in Conn /\ Listed(c)' /\ phase'[c] = "ready" /\ ~closing'[c]
      /\ seen'[c][Last(ground').id] # Item(Last(ground'))
  BY DEF Todo, Reached
<1>2. phase[c] = "ready"
  <2>1. ~Confirm(c) BY DEF Confirm, Taken
  <2> QED BY <1>1, <2>1, ReadyBefore
<1>3. Listed(c) BY <1>1, <1>2, ListedBefore
<1>4. ~closing[c] BY <1>1, ClosingStays
<1>5. Reached(c) BY <1>2, <1>4 DEF Reached
<1>6. ground' = ground
  <2>1. UNCHANGED vars => ground' = ground BY DEF vars, serverVars
  <2>2. Walk => ground' = ground BY DEF Walk
  <2> QED BY <2>1, <2>2, WalkKinds
<1> DEFINE g == Last(ground)
<1>7. ground # << >> BY DEF Base, TickInv
<1>8. g.id \in Ids /\ Item(g) \in [item : Items, left : 0 .. Size] /\ \E k \in DOMAIN ground : g = ground[k]
  BY <1>7, LastItem DEF Base
<1>9. seen'[c][g.id] # Item(g) BY <1>1, <1>6
<1> HIDE DEF g
<1>10. CASE Walk
  <2>1. CASE seen' = seen /\ (walker = NoConn \/ ~Reached(walker))
    <3>1. seen[c][g.id] # Item(g) BY <1>9, <2>1
    <3>2. c # walker BY <1>1, <1>5, <2>1, EntitiesAssumption
    <3> QED BY <1>1, <1>3, <1>5, <3>1, <3>2 DEF Todo, g
  <2>2. CASE Reached(walker) /\ walker \in Conn /\ seen' = [seen EXCEPT ![walker][g.id] = Item(g)]
    <3> DEFINE f == [seen[walker] EXCEPT ![g.id] = Item(g)]
    <3>1. seen \in [Conn -> [Ids -> Shown]] /\ seen[walker] \in [Ids -> Shown] BY <2>2 DEF Base, TypeOK
    <3>2. f[g.id] = Item(g) BY <1>8, <3>1
    <3>3. seen' = [seen EXCEPT ![walker] = f] BY <2>2
    <3> HIDE DEF f
    <3>4. seen'[walker] = f /\ \A d \in Conn \ {walker} : seen'[d] = seen[d] BY <2>2, <3>1, <3>3
    <3>5. c # walker BY <1>9, <3>2, <3>4
    <3>6. seen[c][g.id] # Item(g) BY <1>1, <1>9, <3>4, <3>5
    <3> QED BY <1>1, <1>3, <1>5, <3>5, <3>6 DEF Todo, g
  <2>3. walker \in Conn \cup {NoConn} BY DEF Base, TypeOK
  <2>4. walker # NoConn => walker \notin freed BY <1>10 DEF Walk
  <2> QED BY <1>10, <2>1, <2>2, <2>3, <2>4 DEF Walk, g
<1>11. CASE ~Walk
  <2>1. seen[c][g.id] = seen'[c][g.id]
    <3>1. CASE UNCHANGED seen BY <3>1
    <3>2. CASE UNCHANGED vars BY <3>2 DEF vars, clientVars
    <3>3. CASE Unsee \/ Shut
      <4>1. \A i \in Ids : seen'[c][i] = seen[c][i] \/ \A k \in DOMAIN ground : ground[k].id # i
        BY <1>1, <1>3, <3>3, ItemSlots
      <4> QED BY <1>8, <4>1
    <3>4. ASSUME NEW d \in Conn, Number(d) \/ CloseConn(d) PROVE UNCHANGED seen
      BY <3>4 DEF Number, CloseConn, clientVars
    <3>5. CASE Numbered \/ Link \/ Unlink BY <3>5 DEF Numbered, Link, Unlink, clientVars
    <3> QED BY <1>11, <3>1, <3>2, <3>3, <3>4, <3>5, WalkKinds DEF Net
  <2> QED BY <1>1, <1>3, <1>5, <1>9, <1>11, <2>1 DEF Todo, g
<1> QED BY <1>10, <1>11

\* Which steps move the walk's list, and how.
LEMMA ListMoves ==
    ASSUME Base, [Next]_vars
    PROVE  \/ UNCHANGED conns
           \/ Link /\ conns' = << netConn >> \o conns
           \/ Unlink /\ conns' = RemoveFirst(conns, netConn)
<1>1. CASE UNCHANGED vars BY <1>1 DEF vars, serverVars
<1>2. CASE Tick BY <1>2, TickLeavesNet
<1>3. ASSUME NEW c \in Conn, Number(c) \/ CloseConn(c) PROVE UNCHANGED conns
  BY <1>3 DEF Number, CloseConn, serverVars
<1>4. CASE Numbered \/ Unsee \/ Shut BY <1>4 DEF Numbered, Unsee, Shut
<1>5. CASE Link \/ Unlink BY <1>5 DEF Link, Unlink
<1> QED BY <1>1, <1>2, <1>3, <1>4, <1>5 DEF Next, Net

\* What comes after a connection stays what it was, but for what has been
\* taken out.
LEMMA NextsMove ==
    ASSUME Base, [Next]_vars, tickPc = "walk", tickPc' = "walk",
           \A c \in Conn : phase[c] = "none" => after[c] = NoConn
    PROVE  \/ \A c \in Conn : Nexts'[c] = Nexts[c] \/ Nexts[c] = NoConn
           \/ \E d \in Conn :
                /\ d \notin Range(conns')
                /\ \A c \in Conn : Nexts'[c] = Nexts[c] \/ (Nexts[c] = d /\ Nexts'[c] = Nexts[d])
<1>1. conns \in Seq(Conn) /\ IsInjective(conns) /\ after \in [Conn -> Conn \cup {NoConn}]
  BY DEF Base, TypeOK, ListInv
<1>2. \A c \in Conn : Nexts[c] = Follow(conns, after, c) /\ Nexts'[c] = Follow(conns', after', c) BY DEF Nexts
<1>3. CASE Unlink
  <2>1. /\ netConn \in Conn /\ netConn \in Range(conns) /\ conns' = RemoveFirst(conns, netConn)
        /\ after' = [after EXCEPT ![netConn] = NextOf(netConn)]
    BY <1>3, UnlinkedMembers DEF Unlink, Base, NetInv, Listed
  <2>2. NextOf(netConn) = Follow(conns, after, netConn) BY DEF NextOf, Follow, Listed
  <2>3. after' = [after EXCEPT ![netConn] = Follow(conns, after, netConn)] BY <2>1, <2>2
  <2>4. ASSUME NEW c \in Conn
        PROVE  Nexts'[c] = Nexts[c] \/ (Nexts[c] = netConn /\ Nexts'[c] = Nexts[netConn])
    <3>1. \/ Follow(RemoveFirst(conns, netConn), Leave(conns, after, netConn), c) = Follow(conns, after, c)
          \/ /\ Follow(conns, after, c) = netConn
             /\ Follow(RemoveFirst(conns, netConn), Leave(conns, after, netConn), c)
                  = Follow(conns, after, netConn)
      BY <1>1, <2>1, FollowUnlink
    <3>2. after' = Leave(conns, after, netConn) BY <2>3 DEF Leave
    <3>3. Nexts[netConn] = Follow(conns, after, netConn) BY <1>2, <2>1
    <3> QED BY <1>2, <2>1, <3>1, <3>2, <3>3
  <2>5. netConn \notin Range(conns') BY <1>3, UnlinkedMembers
  <2> QED BY <2>1, <2>4, <2>5
<1>4. CASE ~Unlink
  <2>1. after' = after
    <3>1. Walk /\ after' = [c \in Conn |-> NoConn] => after' = after BY DEF Walk
    <3> QED BY <1>4, <3>1, AfterSteps
  <2>2. CASE UNCHANGED conns BY <1>2, <2>1, <2>2
  <2>3. CASE Link /\ conns' = << netConn >> \o conns
    <3>1. netConn \in Conn /\ phase[netConn] = "none" BY <2>3, LinkedMembers DEF Link, Base, NetInv
    <3>2. netConn \notin Range(conns) BY <3>1 DEF Base, ListInv
    <3>3. \A c \in Conn \ {netConn} : Follow(conns', after', c) = Follow(conns, after, c)
      BY <1>1, <2>1, <2>3, <3>1, <3>2, FollowLink
    <3>4. Follow(conns, after, netConn) = NoConn BY <3>1, <3>2 DEF Follow
    <3> QED BY <1>2, <3>3, <3>4
  <2> QED BY <1>4, <2>2, <2>3, ListMoves
<1> QED BY <1>3, <1>4

\* What is closed after a step was, perhaps with the one just passed or taken
\* out.
LEMMA WalkedHolds ==
    ASSUME Base, Base', Fresh, WalkInv, [Next]_vars
    PROVE  WalkInv'
<1>1. \A c \in Conn : phase'[c] = "none" => after'[c] = NoConn
  <2>1. after \in [Conn -> Conn \cup {NoConn}] BY DEF Base, TypeOK
  <2>2. \A c \in Conn : phase'[c] = "none" => phase[c] = "none" /\ after[c] = NoConn BY ReadyStays DEF WalkInv
  <2>3. CASE after' = [c \in Conn |-> NoConn] BY <2>3
  <2>4. CASE Unlink /\ phase[netConn] # "none" /\ after' = [after EXCEPT ![netConn] = NextOf(netConn)]
    BY <2>1, <2>2, <2>4
  <2> QED BY <2>2, <2>3, <2>4, AfterSteps
<1>2. SUFFICES ASSUME raced' = {}, ~wild', tickPc' = "walk", NEW X \in SUBSET Conn, Closed(X, walker', Nexts'),
                      NEW c \in Todo'
               PROVE  c \in X
  BY <1>1 DEF WalkInv
<1>3. raced = {} /\ ~wild BY <1>2, HistoryGrows
<1>4. CASE tickPc # "walk"
  <2>1. Counted BY <1>2, <1>4, BeginsWalk
  <2>2. conns' = conns /\ after' = after /\ walker' = IF conns = << >> THEN NoConn ELSE Head(conns)
    BY <2>1 DEF Counted
  <2>3. conns \in Seq(Conn) /\ IsInjective(conns) BY DEF Base, TypeOK, ListInv
  <2>4. conns # << >> => Head(conns) \in X
    <3>1. conns # << >> => Head(conns) \in Conn BY <2>3
    <3> QED BY <1>2, <2>2, <3>1, EntitiesAssumption DEF Closed
  <2>5. \A x \in X : Follow(conns, after, x) \in X \cup {NoConn} BY <1>2, <2>2 DEF Closed, Nexts
  <2>6. Range(conns) \subseteq X BY <2>3, <2>4, <2>5, WholeList
  <2>7. c \in Range(conns') BY DEF Todo, Listed
  <2> QED BY <2>2, <2>6, <2>7
<1>5. CASE tickPc = "walk"
  <2>1. \A Y \in SUBSET Conn : Closed(Y, walker, Nexts) => c \in Y
    <3>1. c \in Todo BY <1>2, <1>3, <1>5, TodoShrinks
    <3> QED BY <1>3, <1>5, <3>1 DEF WalkInv
  <2>2. CASE Walk
    <3>1. walker # NoConn /\ walker \in Conn
      <4>1. walker \in Conn \cup {NoConn} BY DEF Base, TypeOK
      <4> QED BY <1>2, <2>2, <4>1 DEF Walk
    <3>2. walker' = NextOf(walker) /\ UNCHANGED << conns, after >> BY <1>2, <2>2, <3>1 DEF Walk
    <3>3. NextOf(walker) = Nexts[walker] BY <3>1 DEF NextOf, Follow, Nexts, Listed
    <3>4. Nexts' = Nexts BY <3>2 DEF Nexts
    <3>5. Closed(X \cup {walker}, walker, Nexts) BY <1>2, <3>2, <3>3, <3>4 DEF Closed
    <3>6. c \in X \cup {walker} BY <2>1, <3>1, <3>5
    <3>7. c # walker BY <1>2, <1>3, <1>5, <2>2, TodoShrinks
    <3> QED BY <3>6, <3>7
  <2>3. CASE ~Walk
    <3>1. walker' = walker
      <4>1. UNCHANGED vars => walker' = walker BY DEF vars, tickVars
      <4>2. UNCHANGED tickVars => walker' = walker BY DEF tickVars
      <4> QED BY <1>5, <2>3, <4>1, <4>2, WalkKinds
    <3>2. CASE \A x \in Conn : Nexts'[x] = Nexts[x] \/ Nexts[x] = NoConn
      <4>1. Closed(X, walker, Nexts) BY <1>2, <3>1, <3>2 DEF Closed
      <4> QED BY <2>1, <4>1
    <3>3. ASSUME NEW d \in Conn, d \notin Range(conns'),
                 \A x \in Conn : Nexts'[x] = Nexts[x] \/ (Nexts[x] = d /\ Nexts'[x] = Nexts[d])
          PROVE  c \in X
      <4>1. CASE \E x \in X : Nexts[x] = d /\ Nexts'[x] = Nexts[d]
        <5>1. Nexts[d] \in X \cup {NoConn} BY <1>2, <4>1 DEF Closed
        <5>2. Closed(X \cup {d}, walker, Nexts) BY <1>2, <3>1, <3>3, <5>1 DEF Closed
        <5>3. c \in X \cup {d} BY <2>1, <5>2
        <5>4. c # d BY <3>3 DEF Todo, Listed
        <5> QED BY <5>3, <5>4
      <4>2. CASE ~\E x \in X : Nexts[x] = d /\ Nexts'[x] = Nexts[d]
        <5>1. Closed(X, walker, Nexts) BY <1>2, <3>1, <3>3, <4>2 DEF Closed
        <5> QED BY <2>1, <5>1
      <4> QED BY <4>1, <4>2
    <3> QED BY <1>2, <1>5, <3>2, <3>3, NextsMove DEF WalkInv
  <2> QED BY <2>2, <2>3
<1> QED BY <1>4, <1>5

\* Steps that leave the ground alone.
LEMMA GroundRests ==
    ASSUME Base, [Next]_vars, ~(Counted \/ Spawned \/ ItemTick)
    PROVE  UNCHANGED << ground, spoiled >>
<1>1. CASE UNCHANGED vars BY <1>1 DEF vars, serverVars, historyVars
<1>2. CASE Net
  <2>1. ASSUME NEW c \in Conn, Number(c) \/ CloseConn(c) PROVE UNCHANGED << ground, spoiled >>
    BY <2>1 DEF Number, CloseConn, serverVars, historyVars
  <2>2. CASE Numbered \/ Link \/ Unsee \/ Unlink \/ Shut
    BY <2>2 DEF Numbered, Link, Unsee, Unlink, Shut, historyVars
  <2> QED BY <1>2, <2>1, <2>2 DEF Net
<1>3. ASSUME NEW c \in Conn, Packet(c) PROVE UNCHANGED << ground, spoiled >>
  BY <1>3 DEF Packet, Join, Confirm, Fail, Drop, Die, Respawn, serverVars, historyVars
<1>4. CASE Snapshot \/ Turn \/ Walk \/ ItemsStart \/ ItemsDone
  BY <1>4 DEF Snapshot, Turn, Walk, ItemsStart, ItemsDone, serverVars, historyVars
<1>5. CASE Sync \/ List \/ Show \/ SyncDone \/ Clear
  BY <1>5 DEF Sync, List, Show, SyncDone, Clear, serverVars, historyVars
<1> QED BY <1>1, <1>2, <1>3, <1>4, <1>5 DEF Next, Tick

\* And the walk.
LEMMA WalkRests ==
    ASSUME Base, [Next]_vars, ~Counted, ~Walk
    PROVE  tickPc' = "walk" <=> tickPc = "walk"
<1>1. UNCHANGED vars \/ UNCHANGED tickVars => tickPc' = tickPc BY DEF vars, tickVars
<1> QED BY <1>1, WalkKinds, BeginsWalk

\* What a client shows stays right if neither the ground nor what it shows of
\* it changes.
LEMMA KnowsFrame ==
    ASSUME Base, [Next]_vars, NEW c \in Conn, Knows(c), Apart(ground),
           ~(Counted \/ Walk \/ Spawned \/ ItemTick),
           \A i \in Ids : \/ seen'[c][i] = seen[c][i]
                          \/ /\ seen'[c][i] \notin [item : Items, left : 0 .. Size]
                             /\ \A k \in DOMAIN ground : ground[k].id # i
    PROVE  Knows(c)'
<1>1. ground' = ground /\ spoiled' = spoiled BY GroundRests
<1>2. OpenAt(tickPc', Len(ground')) = OpenAt(tickPc, Len(ground)) BY <1>1, WalkRests DEF OpenAt
<1>3. \A w : w \notin [item : Items, left : 0 .. Size] => w \notin Recs(spoiled) BY DEF Recs
<1>4. Shows(seen'[c], ground, spoiled, OpenAt(tickPc, Len(ground))) BY <1>3, ShowsOthers DEF Knows
<1> QED BY <1>1, <1>2, <1>4 DEF Knows

\* CONFIRM_TELEPORT sends all of the ground to a client that shows nothing.
LEMMA KnowsConfirm ==
    ASSUME Base, ShownInv, [Next]_vars, NEW c \in Conn, Confirm(c), Apart(ground)
    PROVE  Knows(c)'
<1>1. phase[c] # "ready" /\ seen' = [seen EXCEPT ![c] = WithGround(seen[c])] /\ UNCHANGED << ground, spoiled >>
  BY DEF Confirm, historyVars
<1>2. seen \in [Conn -> [Ids -> Shown]] /\ seen[c] \in [Ids -> Shown] BY DEF Base, TypeOK
<1>3. seen'[c] = WithGround(seen[c]) BY <1>1, <1>2
<1>4. \A i \in Ids : seen[c][i] = Nothing BY <1>1 DEF ShownInv
<1>5. Nothing \notin Recs(spoiled) BY RecordsDiffer DEF Recs
<1>6. /\ \A i \in Ids : (\A k \in DOMAIN ground : ground[k].id # i) => WithGround(seen[c])[i] = seen[c][i]
      /\ \A i \in Ids : (\E k \in DOMAIN ground : ground[k].id = i) =>
           \E k \in DOMAIN ground : ground[k].id = i /\ WithGround(seen[c])[i] = Item(ground[k])
  BY <1>2, Lying DEF Base
<1> DEFINE e == WithGround(seen[c])
           o == OpenAt(tickPc', Len(ground'))
<1>7. \A i \in Ids : (\A k \in DOMAIN ground : ground[k].id # i) => e[i] = seen[c][i] /\ seen[c][i] \notin Recs(spoiled)
  BY <1>4, <1>5, <1>6
<1>8. \A i \in Ids : (\E k \in DOMAIN ground : ground[k].id = i) =>
           \E k \in DOMAIN ground : ground[k].id = i /\ e[i] = Item(ground[k])
  BY <1>6
<1> HIDE DEF e, o
<1>9. Shows(e, ground, spoiled, o) BY <1>7, <1>8, ShowsAll
<1> QED BY <1>1, <1>3, <1>9 DEF Knows, e, o

\* A respawn sends it again; the client keeps what it showed or nothing.
LEMMA KnowsRespawn ==
    ASSUME Base, [Next]_vars, NEW c \in Conn, Respawn(c), phase[c] = "ready", Knows(c), Apart(ground)
    PROVE  Knows(c)'
<1>1. PICK kept \in {seen[c], [i \in Ids |-> Nothing]} :
        seen' = [seen EXCEPT ![c] = IF phase[c] = "ready" THEN WithGround(kept) ELSE kept]
  BY DEF Respawn
<1>2. UNCHANGED << ground, spoiled >> BY DEF Respawn
<1>3. seen \in [Conn -> [Ids -> Shown]] /\ kept \in [Ids -> Shown] BY <1>1 DEF Base, TypeOK, Shown
<1>4. seen'[c] = WithGround(kept) BY <1>1, <1>3
<1>5. /\ \A i \in Ids : (\A k \in DOMAIN ground : ground[k].id # i) => WithGround(kept)[i] = kept[i]
      /\ \A i \in Ids : (\E k \in DOMAIN ground : ground[k].id = i) =>
           \E k \in DOMAIN ground : ground[k].id = i /\ WithGround(kept)[i] = Item(ground[k])
  BY <1>3, Lying DEF Base
<1>6. \A i \in Ids : (\A k \in DOMAIN ground : ground[k].id # i) => kept[i] \notin Recs(spoiled)
  <2>1. Nothing \notin Recs(spoiled) BY RecordsDiffer DEF Recs
  <2>2. CASE kept = [i \in Ids |-> Nothing] BY <2>1, <2>2
  <2>3. CASE kept = seen[c] BY <2>3 DEF Knows, Shows
  <2> QED BY <1>1, <2>2, <2>3
<1> DEFINE e == WithGround(kept)
           o == OpenAt(tickPc', Len(ground'))
<1>7. \A i \in Ids : (\A k \in DOMAIN ground : ground[k].id # i) => e[i] = kept[i] /\ kept[i] \notin Recs(spoiled)
  BY <1>5, <1>6
<1>8. \A i \in Ids : (\E k \in DOMAIN ground : ground[k].id = i) =>
           \E k \in DOMAIN ground : ground[k].id = i /\ e[i] = Item(ground[k])
  BY <1>5
<1> HIDE DEF e, o
<1>9. Shows(e, ground, spoiled, o) BY <1>7, <1>8, ShowsAll
<1> QED BY <1>2, <1>4, <1>9 DEF Knows, e, o

\* A drop in the middle of proto_play_tick lies there before anybody is told.
LEMMA KnowsCounted ==
    ASSUME Base, Counted, NEW c \in Conn, Knows(c)
    PROVE  Knows(c)'
<1>1. /\ Placed /\ hand # NoId /\ UNCHANGED << seen, spoiled >>
      /\ OpenAt(tickPc, Len(ground)) = 0 /\ OpenAt(tickPc', Len(ground')) = Len(ground')
  BY DEF Counted, Base, TickInv, OpenAt, clientVars
<1>2. /\ Len(ground) \in Nat /\ Len(ground') = Len(ground) + 1
      /\ DOMAIN ground = 1 .. Len(ground) /\ DOMAIN ground' = 1 .. Len(ground) + 1
      /\ \A k \in DOMAIN ground : ground'[k] = ground[k]
  BY <1>1, PlacedItem
<1>3. DOMAIN ground' = DOMAIN ground \cup {Len(ground')} /\ 0 \notin DOMAIN ground BY <1>2
<1>4. Shows(seen[c], ground, spoiled, 0) BY <1>1 DEF Knows
<1>5. Shows(seen[c], ground', spoiled, Len(ground')) BY <1>2, <1>3, <1>4, ShowsUnheard
<1> QED BY <1>1, <1>5 DEF Knows

\* One under conns_lock is told to everybody.
LEMMA KnowsSpawned ==
    ASSUME Base, Spawned, NEW c \in Conn, Listed(c), Reached(c), Knows(c), Apart(ground')
    PROVE  Knows(c)'
<1>1. /\ Placed /\ hand # NoId /\ seen' = Told(hand, Item(Last(ground'))) /\ UNCHANGED spoiled
      /\ OpenAt(tickPc, Len(ground)) = 0 /\ OpenAt(tickPc', Len(ground')) = 0
  BY DEF Spawned, Base, TickInv, OpenAt
<1>2. /\ Len(ground) \in Nat /\ DOMAIN ground = 1 .. Len(ground) /\ DOMAIN ground' = 1 .. Len(ground) + 1
      /\ \A k \in DOMAIN ground : ground'[k] = ground[k]
      /\ hand \in Ids /\ ground'[Len(ground) + 1].id = hand
      /\ Last(ground') = ground'[Len(ground) + 1]
      /\ Item(Last(ground')) \in [item : Items, left : 0 .. Size]
  BY <1>1, PlacedItem
<1> DEFINE n == Len(ground) + 1
<1>3. DOMAIN ground' = DOMAIN ground \cup {n} /\ 0 \notin DOMAIN ground /\ n \notin DOMAIN ground BY <1>2
<1>4. \A i \in Ids : seen'[c][i] = IF i = ground'[n].id THEN Item(ground'[n]) ELSE seen[c][i]
  <2> DEFINE w == Item(Last(ground'))
  <2>1. w \in Shown /\ w = Item(ground'[n]) /\ seen' = Told(hand, w) BY <1>1, <1>2 DEF Shown
  <2> HIDE DEF w, n
  <2>2. \A j \in Ids : Told(hand, w)[c][j] = IF Listed(c) /\ Reached(c) /\ j = hand THEN w ELSE seen[c][j]
    BY <1>2, <2>1, ToldTypes DEF Base
  <2> QED BY <1>2, <2>1, <2>2 DEF n
<1>5. Shows(seen[c], ground, spoiled, 0) BY <1>1 DEF Knows
<1> HIDE DEF n
<1>6. Shows(seen'[c], ground', spoiled, 0)
  <2>1. \A k \in DOMAIN ground : ground'[k] = ground[k] BY <1>2
  <2> QED BY <1>3, <1>4, <1>5, <2>1, ShowsNew
<1> QED BY <1>1, <1>6 DEF Knows

\* A place of the walk is told, and at its end everybody has been.
LEMMA KnowsWalk ==
    ASSUME Base, WalkInv, Walk, raced = {}, ~wild', NEW c \in Conn, Listed(c), Reached(c), Knows(c), Apart(ground)
    PROVE  Knows(c)'
<1> DEFINE n == Len(ground)
           g == ground[n]
<1>1. /\ tickPc = "walk" /\ UNCHANGED << ground, spoiled >> /\ ground # << >> /\ ~wild
      /\ walker = NoConn \/ walker \notin freed
  BY DEF Walk, Base, TypeOK, TickInv
<1>2. n \in DOMAIN ground /\ g = Last(ground) /\ g.id \in Ids BY <1>1, LastItem DEF Base
<1>3. Shows(seen[c], ground, spoiled, n) BY <1>1 DEF Knows, OpenAt
<1> HIDE DEF n, g
<1>4. CASE walker = NoConn
  <2>1. Closed({}, walker, Nexts) BY <1>4 DEF Closed
  <2>2. c \notin Todo BY <1>1, <2>1 DEF WalkInv
  <2>3. seen[c][g.id] = Item(g) BY <1>2, <2>2 DEF Todo
  <2>4. \A i \in Ids : seen[c][i] = IF i = ground[n].id THEN Item(ground[n]) ELSE seen[c][i] BY <2>3 DEF g
  <2>5. Shows(seen[c], ground, spoiled, 0)
    <3> DEFINE f == seen[c]
    <3>1. Shows(f, ground, spoiled, n) /\ \A i \in Ids : f[i] = IF i = ground[n].id THEN Item(ground[n]) ELSE f[i]
      BY <1>3, <2>4
    <3> HIDE DEF f
    <3>2. Shows(f, ground, spoiled, 0) BY <1>2, <3>1, ShowsTold
    <3> QED BY <3>2 DEF f
  <2>6. tickPc' = "turns" /\ seen' = seen BY <1>4 DEF Walk
  <2> QED BY <1>1, <2>5, <2>6 DEF Knows, OpenAt
<1>5. CASE walker # NoConn
  <2>1. walker \in Conn BY <1>5 DEF Base, TypeOK
  <2>2. seen' = IF Reached(walker) THEN [seen EXCEPT ![walker][g.id] = Item(g)] ELSE seen
    BY <1>1, <1>2, <1>5 DEF Walk
  <2>3. tickPc' = "walk" BY <1>1, <1>5 DEF Walk
  <2>4. Shows(seen'[c], ground, spoiled, n)
    <3>1. CASE c # walker \/ ~Reached(walker)
      <4>1. seen'[c] = seen[c] BY <2>1, <2>2, <3>1 DEF Base, TypeOK
      <4> QED BY <1>3, <4>1
    <3>2. CASE c = walker /\ Reached(walker)
      <4> DEFINE f == [seen[c] EXCEPT ![g.id] = Item(g)]
      <4>1. seen \in [Conn -> [Ids -> Shown]] /\ seen[c] \in [Ids -> Shown] BY DEF Base, TypeOK
      <4>2. \A i \in Ids : f[i] = IF i = ground[n].id THEN Item(ground[n]) ELSE seen[c][i] BY <4>1 DEF g
      <4>3. seen' = [seen EXCEPT ![c] = f] BY <2>2, <3>2
      <4> HIDE DEF f
      <4>4. seen'[c] = f BY <4>1, <4>3
      <4>5. Shows(f, ground, spoiled, n) BY <1>2, <1>3, <4>2, ShowsTold
      <4> QED BY <4>4, <4>5
    <3> QED BY <3>1, <3>2
  <2> QED BY <1>1, <2>3, <2>4 DEF Knows, OpenAt, n
<1> QED BY <1>4, <1>5

\* What the tick does to an item is told, or the item does not count any more.
LEMMA KnowsItem ==
    ASSUME Base, ItemTick, NEW c \in Conn, Listed(c), Reached(c), Knows(c), Apart(ground)
    PROVE  Knows(c)'
<1> DEFINE n == turn
<1>1. /\ tickPc = "items" /\ tickPc' = "items" /\ n <= Len(ground) /\ ground' \in Seq(Ground)
  BY ItemTickGround DEF ItemTick
<1>2. n \in DOMAIN ground BY <1>1, ItemAtTurn
<1>3. /\ OpenAt(tickPc, Len(ground)) = 0 /\ OpenAt(tickPc', Len(ground')) = 0 BY <1>1 DEF OpenAt
<1>4. Shows(seen[c], ground, spoiled, 0) BY <1>3 DEF Knows
<1>5. DOMAIN ground = 1 .. Len(ground) /\ 0 \notin DOMAIN ground BY GroundItems DEF Base
<1>6. ground \in Seq(Ground) /\ ground[n].id \in Ids BY <1>2, GroundItems DEF Base, TypeOK
<1>7. CASE UNCHANGED << seen, ground, spoiled >> BY <1>3, <1>4, <1>7 DEF Knows
<1>8. CASE DestroyItem(n) /\ UNCHANGED spoiled
  <2>1. seen' = Told(ground[n].id, Nothing) /\ ground' = Without(ground, n) BY <1>8 DEF DestroyItem
  <2>2. /\ DOMAIN ground' = 1 .. Len(ground) - 1 /\ Len(ground) \in Nat /\ n \in 1 .. Len(ground)
        /\ \A i \in 1 .. Len(ground) - 1 : ground'[i] = ground[IF i = n THEN Len(ground) ELSE i]
    BY <1>2, <2>1, DestroyGround
  <2>3. \A i \in DOMAIN ground' : \E j \in DOMAIN ground \ {n} : ground'[i] = ground[j]
    <3>1. SUFFICES ASSUME NEW i \in 1 .. Len(ground) - 1 PROVE \E j \in DOMAIN ground \ {n} : ground'[i] = ground[j]
      BY <2>2
    <3>2. CASE i = n BY <1>5, <2>2, <3>2
    <3>3. CASE i # n
      <4>1. i \in 1 .. Len(ground) BY <2>2
      <4> QED BY <1>5, <2>2, <3>3, <4>1
    <3> QED BY <3>2, <3>3
  <2>4. \A j \in DOMAIN ground \ {n} : \E i \in DOMAIN ground' : ground'[i] = ground[j]
    <3>1. SUFFICES ASSUME NEW j \in DOMAIN ground \ {n} PROVE \E i \in 1 .. Len(ground) - 1 : ground'[i] = ground[j]
      BY <2>2
    <3> DEFINE i == IF j = Len(ground) THEN n ELSE j
    <3>2. i \in 1 .. Len(ground) - 1 /\ (IF i = n THEN Len(ground) ELSE i) = j BY <1>5, <2>2
    <3> QED BY <2>2, <3>2
  <2>5. \A i \in Ids : seen'[c][i] = IF i = ground[n].id THEN Nothing ELSE seen[c][i]
    <3>1. Nothing \in Shown BY DEF Shown
    <3> QED BY <1>6, <2>1, <3>1, ToldTypes DEF Base
  <2>6. Nothing \notin Recs(spoiled) BY RecordsDiffer DEF Recs
  <2>7. Shows(seen'[c], ground', spoiled, 0)
    <3> DEFINE e == seen'[c]
               f == seen[c]
               g == ground
               h == ground'
    <3>1. /\ \A i \in DOMAIN h : \E j \in DOMAIN g \ {n} : h[i] = g[j]
          /\ \A j \in DOMAIN g \ {n} : \E i \in DOMAIN h : h[i] = g[j]
          /\ \A i \in Ids : e[i] = IF i = g[n].id THEN Nothing ELSE f[i]
          /\ 0 \notin DOMAIN g /\ n \in DOMAIN g /\ Shows(f, g, spoiled, 0) /\ Apart(g)
      BY <1>2, <1>4, <1>5, <2>3, <2>4, <2>5
    <3> HIDE DEF e, f, g, h, n
    <3>2. Shows(e, h, spoiled, 0) BY <2>6, <3>1, ShowsFewer
    <3> QED BY <3>2 DEF e, h
  <2> QED BY <1>3, <1>8, <2>7 DEF Knows
<1>9. ASSUME NEW m, TakeSome(m) \/ TakeUnsaved(m)
      PROVE  /\ DOMAIN ground' = DOMAIN ground /\ \A k \in DOMAIN ground : k # n => ground'[k] = ground[k]
             /\ ground'[n].id = ground[n].id /\ ground'[n].item = ground[n].item
  <2> DEFINE r == [ground[n] EXCEPT !.left = m]
  <2>1. ground[n] \in Ground BY <1>2, <1>6
  <2>2. ground' = [ground EXCEPT ![n] = r] BY <1>9 DEF TakeSome, TakeUnsaved
  <2>3. r.id = ground[n].id /\ r.item = ground[n].item BY <2>1 DEF Ground
  <2> HIDE DEF r
  <2> QED BY <1>2, <2>2, <2>3
<1>10. ASSUME NEW m, TakeSome(m)
       PROVE  Knows(c)'
  <2>1. seen' = Told(ground[n].id, Item(ground'[n])) /\ UNCHANGED spoiled BY <1>10 DEF TakeSome
  <2>2. Item(ground'[n]) \in Shown
    <3>1. ground'[n] \in Ground BY <1>1, <1>2, <1>9, <1>10
    <3> QED BY <3>1 DEF Item, Ground, Shown
  <2>3. \A i \in Ids : seen'[c][i] = IF i = ground[n].id THEN Item(ground'[n]) ELSE seen[c][i]
    <3> DEFINE w == Item(ground'[n])
    <3>1. w \in Shown /\ seen' = Told(ground[n].id, w) BY <2>1, <2>2
    <3> HIDE DEF w
    <3>2. \A i \in Ids : seen'[c][i] = IF i = ground[n].id THEN w ELSE seen[c][i] BY <1>6, <3>1, ToldTypes DEF Base
    <3> QED BY <3>2 DEF w
  <2>4. Shows(seen'[c], ground', spoiled, 0) BY <1>2, <1>4, <1>9, <1>10, <2>3, ShowsTold
  <2> QED BY <1>3, <2>1, <2>4 DEF Knows
<1>11. ASSUME NEW m, TakeUnsaved(m)
       PROVE  Knows(c)'
  <2>1. spoiled' = spoiled \cup {ground[n].item} /\ seen' = seen BY <1>11 DEF TakeUnsaved
  <2>2. Shows(seen[c], ground', spoiled \cup {ground[n].item}, 0) BY <1>2, <1>4, <1>9, <1>11, ShowsSpoiled
  <2> QED BY <1>3, <2>1, <2>2 DEF Knows
<1>12. \/ UNCHANGED << seen, ground, spoiled >>
       \/ DestroyItem(n) /\ UNCHANGED spoiled
       \/ \E m \in 0 .. ground[turn].left - 1 : TakeSome(m) \/ TakeUnsaved(m)
  BY DEF ItemTick, PickUp, TakeAll
<1> QED BY <1>7, <1>8, <1>10, <1>11, <1>12

\* Every step.
LEMMA GroundHolds ==
    ASSUME Base, Fresh, ShownInv, WalkInv, GroundInv, Base', Fresh', [Next]_vars
    PROVE  GroundInv'
<1>1. SUFFICES ASSUME raced' = {}, ~wild', NEW c \in Conn, Listed(c)', Reached(c)' PROVE Knows(c)'
  BY DEF GroundInv
<1>2. raced = {} /\ ~wild BY <1>1, HistoryGrows
<1>3. Apart(ground) BY <1>2, GroundApart
<1>4. Apart(ground')
  <2>1. \A k \in DOMAIN ground' : ground'[k] \in Ground BY DEF Base, TypeOK
  <2>2. \A k \in DOMAIN ground' : ground'[k].id \in Ids BY <2>1 DEF Ground
  <2>3. \A k, l \in DOMAIN ground' : ground'[k].id = ground'[l].id => k = l BY <1>1 DEF Fresh
  <2> QED BY <2>2, <2>3 DEF Apart
<1>5. CASE Confirm(c) BY <1>3, <1>5, KnowsConfirm
<1>6. CASE ~Confirm(c)
  <2>1. phase[c] = "ready" BY <1>1, <1>6, ReadyBefore DEF Reached
  <2>2. Listed(c) /\ Reached(c)
    <3>1. Listed(c) BY <1>1, <2>1, ListedBefore
    <3>2. ~closing[c] BY <1>1, ClosingStays DEF Reached
    <3> QED BY <2>1, <3>1, <3>2 DEF Reached
  <2>3. Knows(c) BY <1>2, <2>2 DEF GroundInv
  <2>4. CASE Counted BY <2>3, <2>4, KnowsCounted
  <2>5. CASE Walk BY <1>1, <1>2, <1>3, <2>2, <2>3, <2>5, KnowsWalk
  <2>6. CASE Spawned BY <1>4, <2>2, <2>3, <2>6, KnowsSpawned
  <2>7. CASE ItemTick BY <1>3, <2>2, <2>3, <2>7, KnowsItem
  <2>8. CASE Respawn(c) BY <1>3, <2>1, <2>3, <2>8, KnowsRespawn
  <2>9. CASE ~(Counted \/ Walk \/ Spawned \/ ItemTick \/ Respawn(c))
    <3>1. CASE seen'[c] = seen[c] BY <1>3, <2>3, <2>9, <3>1, KnowsFrame
    <3>2. CASE Unsee \/ Shut \/ Clear \/ Sync \/ List \/ Show
      <4>1. \A i \in Ids : \/ seen'[c][i] = seen[c][i]
                           \/ /\ seen'[c][i] \notin [item : Items, left : 0 .. Size]
                              /\ \A k \in DOMAIN ground : ground[k].id # i
        BY <1>2, <2>2, <3>2, ItemSlots
      <4> QED BY <1>3, <2>3, <2>9, <4>1, KnowsFrame
    <3>3. CASE Quiet BY <3>1, <3>3, QuietSteps
    <3>4. ASSUME NEW d \in Conn, Respawn(d) PROVE Knows(c)'
      <4>1. d # c BY <2>9, <3>4
      <4> QED BY <3>1, <3>4, <4>1, RespawnSteps
    <3>5. ASSUME NEW d \in Conn, Confirm(d) PROVE Knows(c)'
      <4>1. d # c /\ seen' = [seen EXCEPT ![d] = WithGround(@)] BY <1>6, <3>5 DEF Confirm
      <4>2. seen'[c] = seen[c] BY <4>1 DEF Base, TypeOK
      <4> QED BY <3>1, <4>2
    <3> QED BY <2>9, <3>2, <3>3, <3>4, <3>5, Kinds DEF Grounded
  <2> QED BY <2>4, <2>5, <2>6, <2>7, <2>8, <2>9
<1> QED BY <1>5, <1>6

\* At the beginning nothing lies there, and players are shown only each other.
LEMMA GroundBegins == ASSUME Init PROVE GroundInv /\ WalkInv
<1>1. /\ ground = << >> /\ tickPc = "tasks" /\ spoiled = {} /\ after = [c \in Conn |-> NoConn]
  BY DEF Init
<1>2. PICK order \in SetToSeqs(Veterans) :
        seen = [v \in Conn |-> [i \in Ids |->
                  IF v \in Veterans /\ i \in DOMAIN order /\ order[i] # v THEN Player(order[i]) ELSE Nothing]]
  BY DEF Init
<1>3. \A i \in DOMAIN order : order[i] \in Conn
  <2>1. IsFiniteSet(Veterans) /\ Veterans \subseteq Conn BY EntitiesAssumption, FS_Subset
  <2>2. order \in Seq(Veterans) BY <2>1, OrderOfAll
  <2> QED BY <2>1, <2>2
<1>4. \A w : w \in Recs({}) => w # Nothing /\ \A d \in Conn : w # Player(d) BY RecordsDiffer DEF Recs
<1>5. \A c \in Conn, i \in Ids : seen[c][i] = Nothing \/ \E d \in Conn : seen[c][i] = Player(d)
  BY <1>2, <1>3
<1>6. \A c \in Conn : Knows(c)
  <2>1. DOMAIN ground = {} BY <1>1
  <2> QED BY <1>1, <1>4, <1>5, <2>1 DEF Knows, Shows
<1>7. WalkInv BY <1>1 DEF WalkInv
<1> QED BY <1>6, <1>7 DEF GroundInv

\* What all clients show is what ItemsShown asks for, out of the walk.
LEMMA GroundMeans == ASSUME Base, GroundInv PROVE ItemsShown
<1>1. SUFFICES ASSUME raced = {}, ~wild, tickPc # "walk", NEW c \in Range(conns), Reached(c)
               PROVE  {<< i, seen[c][i] >> : i \in {j \in Ids : seen[c][j] \in ItemRecords}}
                        = {<< ground[k].id, Item(ground[k]) >> :
                             k \in {j \in DOMAIN ground : ground[j].item \notin spoiled}}
  BY DEF ItemsShown
<1>2. c \in Conn BY Members DEF Base
<1>3. Shows(seen[c], ground, spoiled, 0) BY <1>1, <1>2 DEF GroundInv, Knows, OpenAt, Listed
<1>4. ASSUME NEW i \in Ids, seen[c][i] \in ItemRecords
      PROVE  \E k \in DOMAIN ground : /\ ground[k].item \notin spoiled /\ ground[k].id = i
                                      /\ seen[c][i] = Item(ground[k])
  <2>1. seen[c][i] \in Recs(spoiled) /\ seen[c][i].item \notin spoiled BY <1>4 DEF ItemRecords, Recs
  <2>2. PICK k \in DOMAIN ground : ground[k].id = i /\ seen[c][i] = Item(ground[k]) BY <1>3, <2>1 DEF Shows
  <2>3. seen[c][i].item = ground[k].item BY <2>2 DEF Item
  <2> QED BY <2>1, <2>2, <2>3
<1>5. ASSUME NEW k \in DOMAIN ground, ground[k].item \notin spoiled
      PROVE  /\ ground[k].id \in Ids /\ seen[c][ground[k].id] = Item(ground[k])
             /\ seen[c][ground[k].id] \in ItemRecords
  <2>1. k # 0 /\ ground[k].id \in Ids /\ ground[k].item \in Items /\ ground[k].left \in 0 .. Size
    BY GroundItems DEF Base
  <2>2. seen[c][ground[k].id] = Item(ground[k]) BY <1>3, <1>5, <2>1 DEF Shows
  <2>3. Item(ground[k]) \in ItemRecords BY <1>5, <2>1 DEF ItemRecords, Item
  <2> QED BY <2>1, <2>2, <2>3
<1> QED BY <1>4, <1>5

\* Out of the walk of a drop that was placed in the middle of proto_play_tick,
\* every client shows exactly what lies on the ground, with what is left of it
\* (ItemsShown): also who came while it lay there, or while connections before
\* him were taken out of the list under that walk.
THEOREM ItemsShownCorrect == Spec => []ItemsShown
<1> DEFINE I == Base /\ Fresh /\ ShownInv /\ WalkInv /\ GroundInv
<1>1. Init => I BY BaseBegins, FreshBegins, ShownBegins, GroundBegins
<1>2. I /\ [Next]_vars => I'
  <2>1. SUFFICES ASSUME I, [Next]_vars PROVE I' OBVIOUS
  <2>2. Base' /\ Fresh' BY <2>1, BaseHolds, FreshHolds
  <2>3. ShownInv' BY <2>1, ShownHolds
  <2>4. WalkInv' BY <2>1, <2>2, WalkedHolds
  <2>5. GroundInv' BY <2>1, <2>2, GroundHolds
  <2> QED BY <2>2, <2>3, <2>4, <2>5
<1>3. I => ItemsShown BY GroundMeans
<1> QED BY <1>1, <1>2, <1>3, PTL DEF Spec
==============================================================================
