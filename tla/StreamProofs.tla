---------------------------- MODULE StreamProofs -----------------------------
(***************************************************************************)
(* What clients see of the world (Stream.tla), for any number of clients,  *)
(* chunks and blocks: the stream covers the view, every copy is current or *)
(* about to be, and acknowledgements follow what they acknowledge.         *)
(***************************************************************************)
EXTENDS Stream, ListLemmas

-----------------------------------------------------------------------------
(* The inductive invariant.                                                *)

\* A READY chunk shows what was accepted, and nothing waits for it; a queued
\* update has the accepted value, unless a later write waits for the chunk.
WorldInv ==
    /\ \A k \in Chunks : Shown(k) => view[k] = store[k] /\ waiting[k] = {}
    /\ \A q \in Queued : updates[q[1]][q[2]] = store[q[1]][q[2]] \/ q[2] \in waiting[q[1]]

\* What is broadcast is still queued, and all that came to the queue since is
\* a furnace.  A turn is that of a client who plays.
TickInv ==
    /\ captured \subseteq Queued
    /\ captured # {} => pc \in {"clients", "evict", "clear"}
    /\ turn # NoTurn =>
         /\ Playing(turn.c) /\ pc \in {"drain", "clients"}
         /\ turn.stage # "send" => pc = "clients"
    /\ pc \in {"clients", "evict", "clear"} => \A q \in Queued \ captured : q[2] \in FurnaceLocals

\* A client who plays is somewhere, and each chunk in its view is either sent
\* or pending, once; a client has a copy of just the chunks that were sent.
ClientGood(c) ==
    /\ Playing(c) =>
         /\ at[c] \in Centers /\ center[c] \in Centers
         /\ Range(pending[c]) = Range(Rings[center[c]]) \ sent[c]
         /\ IsInjective(pending[c])
         /\ sent[c] \subseteq Range(Rings[center[c]])
    /\ ~Playing(c) => sent[c] = {}
    /\ \A k \in Chunks : copy[c][k] # NotReady <=> k \in sent[c]
    /\ acks[c] \subseteq Chunks \X (Locals \ FurnaceLocals)
\* This holds of every client.
ClientInv == \A c \in Clients : ClientGood(c)

\* What CopyIsCurrent says of one block of one client.
Current(c, k, b) ==
    \/ copy[c][k][b] = store[k][b]
    \/ OnItsWay(c, << k, b >>)
    \/ << k, b >> \in behind[c]

\* The inductive invariant: CopyIsCurrent with what it rests on.
StreamInv == TypeOK /\ WorldInv /\ TickInv /\ ClientInv /\ CopyIsCurrent

\* The types of the parts.
WorldType ==
    /\ store \in [Chunks -> Blocks]
    /\ view \in [Chunks -> Blocks \cup {NotReady}]
    /\ loading \subseteq Chunks
    /\ waiting \in [Chunks -> SUBSET Locals]
    /\ updates \in [Chunks -> [Locals -> States \cup {NoUpdate}]]
TickType ==
    /\ pc \in {"drain", "world", "furnaces", "clients", "evict", "clear"}
    /\ captured \subseteq Places
    /\ todo \subseteq Clients
    /\ turn \in {NoTurn} \cup Stages
    /\ near \subseteq Chunks
PlayerType ==
    /\ state \in [Clients -> {"out", "play", "closing"}]
    /\ ready \in [Clients -> BOOLEAN]
    /\ at \in [Clients -> Centers \cup {NoCenter}]
SendType ==
    /\ center \in [Clients -> Centers \cup {NoCenter}]
    /\ pending \in [Clients -> Seq(Chunks)]
    /\ sent \in [Clients -> SUBSET Chunks]
    /\ pinged \in [Clients -> BOOLEAN]
CopyType ==
    /\ copy \in [Clients -> [Chunks -> Blocks \cup {NotReady}]]
    /\ acks \in [Clients -> SUBSET Places]
    /\ behind \in [Clients -> SUBSET Places]

\* They are what TypeOK says.
LEMMA TypeParts ==
    TypeOK <=> /\ WorldType /\ leaving \subseteq Chunks /\ TickType
               /\ PlayerType /\ SendType /\ CopyType
BY DEF TypeOK, WorldType, TickType, PlayerType, SendType, CopyType

\* CopyIsCurrent, one block at a time.
LEMMA CurrentCopies ==
    CopyIsCurrent <=> \A c \in Clients : \A k \in sent[c], b \in Locals : Current(c, k, b)
BY DEF CopyIsCurrent, Current

-----------------------------------------------------------------------------
(* Frames.                                                                 *)

\* The world stays as it is.
LEMMA WorldFrame ==
    ASSUME WorldType, WorldInv, UNCHANGED << store, view, loading, waiting, updates >>
    PROVE  WorldType' /\ WorldInv' /\ Queued' = Queued
BY DEF WorldType, WorldInv, Queued, Shown

\* A client that is left alone stays good.
LEMMA GoodFrame ==
    ASSUME NEW c \in Clients, ClientGood(c),
           state'[c] = state[c], at'[c] = at[c], center'[c] = center[c], pending'[c] = pending[c],
           sent'[c] = sent[c], copy'[c] = copy[c], acks'[c] = acks[c]
    PROVE  ClientGood(c)'
BY DEF ClientGood, Playing

\* An update stays on its way while the tick is where it was.
LEMMA StillOnItsWay ==
    ASSUME NEW c, NEW q, OnItsWay(c, q), UNCHANGED << pc, captured, todo >>,
           q[2] \in waiting[q[1]] => q[2] \in waiting'[q[1]],
           q \in Queued => q \in Queued'
    PROVE  OnItsWay(c, q)'
BY DEF OnItsWay

\* What is queued, by chunk and block.
LEMMA QueuedPlaces ==
    ASSUME NEW k \in Chunks, NEW b \in Locals
    PROVE  << k, b >> \in Queued <=> updates[k][b] # NoUpdate
BY DEF Queued, Places

-----------------------------------------------------------------------------
(* Writes.                                                                 *)

\* An accepted write is queued for the clients, or waits for its chunk.
LEMMA WriteTells ==
    ASSUME WorldType, WorldInv, NEW k \in Chunks, NEW b \in Locals, NEW s \in States, SetBlock(k, b, s)
    PROVE  /\ WorldType'
           /\ store'[k][b] = s
           /\ \A j \in Chunks, a \in Locals : j # k \/ a # b => store'[j][a] = store[j][a]
           /\ \A j \in Chunks : (Shown(j)' <=> Shown(j)) /\ waiting[j] \subseteq waiting'[j]
           /\ \A j \in Chunks, a \in Locals :
                 j # k \/ a # b => updates'[j][a] = updates[j][a] /\ (a \in waiting'[j] => a \in waiting[j])
           /\ Shown(k) => /\ UNCHANGED waiting
                          /\ IF store[k][b] = s THEN UNCHANGED updates ELSE updates'[k][b] = s
           /\ ~Shown(k) => b \in waiting'[k] /\ UNCHANGED updates
           /\ \A j \in Chunks : Shown(j) => view'[j] = store'[j]
<1>1. store' = [store EXCEPT ![k] = [@ EXCEPT ![b] = s]] BY DEF SetBlock, Write
<1>2. store \in [Chunks -> [Locals -> States]] BY DEF WorldType, Blocks
<1>3. store' \in [Chunks -> [Locals -> States]]
  <2>1. [store[k] EXCEPT ![b] = s] \in [Locals -> States] BY <1>2
  <2> QED BY <1>1, <1>2, <2>1
<1>4. store'[k] = [store[k] EXCEPT ![b] = s] /\ \A j \in Chunks : j # k => store'[j] = store[j]
  BY <1>1, <1>2
<1>5. store'[k][b] = s /\ \A a \in Locals : a # b => store'[k][a] = store[k][a]
  BY <1>2, <1>4
<1>6. view' = IF view[k] = NotReady THEN view ELSE [view EXCEPT ![k] = store'[k]]
  BY DEF SetBlock, Write
<1>7. view \in [Chunks -> Blocks \cup {NotReady}] /\ NotReady \notin Blocks
  BY StreamAssumption DEF WorldType, Blocks
<1>8. store'[k] \in Blocks BY <1>3 DEF Blocks
<1>9. view' \in [Chunks -> Blocks \cup {NotReady}] BY <1>6, <1>7, <1>8
<1>10. \A j \in Chunks : Shown(j)' <=> Shown(j) BY <1>6, <1>7, <1>8 DEF Shown
<1>11. \A j \in Chunks : Shown(j) => view'[j] = store'[j]
  BY <1>4, <1>6, <1>7 DEF Shown, WorldInv
<1>12. loading' \subseteq Chunks BY DEF SetBlock, Request, WorldType
<1>13. CASE Shown(k)
  <2>1. /\ UNCHANGED waiting
        /\ updates' = IF store[k][b] = s THEN updates ELSE [updates EXCEPT ![k][b] = s]
    BY <1>13 DEF SetBlock, PushUpdate
  <2>2. updates \in [Chunks -> [Locals -> States \cup {NoUpdate}]] BY DEF WorldType
  <2>3. /\ [updates[k] EXCEPT ![b] = s] \in [Locals -> States \cup {NoUpdate}]
        /\ [updates[k] EXCEPT ![b] = s][b] = s
        /\ \A a \in Locals : a # b => [updates[k] EXCEPT ![b] = s][a] = updates[k][a]
    BY <2>2
  <2>4. /\ updates' \in [Chunks -> [Locals -> States \cup {NoUpdate}]]
        /\ \A j \in Chunks, a \in Locals : j # k \/ a # b => updates'[j][a] = updates[j][a]
        /\ IF store[k][b] = s THEN UNCHANGED updates ELSE updates'[k][b] = s
    <3>1. CASE store[k][b] = s BY <2>1, <2>2, <3>1
    <3>2. CASE store[k][b] # s
      <4>1. updates' = [updates EXCEPT ![k] = [updates[k] EXCEPT ![b] = s]] BY <2>1, <3>2
      <4>2. /\ updates'[k] = [updates[k] EXCEPT ![b] = s]
            /\ \A j \in Chunks : j # k => updates'[j] = updates[j]
            /\ updates' \in [Chunks -> [Locals -> States \cup {NoUpdate}]]
        BY <2>2, <2>3, <4>1
      <4> QED BY <2>3, <3>2, <4>2
    <3> QED BY <3>1, <3>2
  <2> QED BY <1>3, <1>4, <1>5, <1>9, <1>10, <1>11, <1>12, <1>13, <2>1, <2>4 DEF WorldType, Blocks
<1>14. CASE ~Shown(k)
  <2>1. waiting' = [waiting EXCEPT ![k] = @ \cup {b}] /\ UNCHANGED updates
    BY <1>14 DEF SetBlock
  <2>2. waiting \in [Chunks -> SUBSET Locals] BY DEF WorldType
  <2>3. /\ waiting' \in [Chunks -> SUBSET Locals] /\ waiting'[k] = waiting[k] \cup {b}
        /\ \A j \in Chunks : j # k => waiting'[j] = waiting[j]
    BY <2>1, <2>2
  <2> QED BY <1>3, <1>4, <1>5, <1>9, <1>10, <1>11, <1>12, <1>14, <2>1, <2>3 DEF WorldType, Blocks
<1> QED BY <1>13, <1>14

\* A write leaves the world's invariant, queues at most its own block, and
\* what it changes is queued or waits.
LEMMA WriteKeeps ==
    ASSUME WorldType, WorldInv, NEW k \in Chunks, NEW b \in Locals, NEW s \in States, SetBlock(k, b, s)
    PROVE  /\ WorldInv'
           /\ Queued \subseteq Queued' /\ Queued' \subseteq Queued \cup {<< k, b >>}
           /\ store'[k][b] = store[k][b] \/ << k, b >> \in Queued' \/ b \in waiting'[k]
<1>1. /\ store'[k][b] = s
      /\ \A j \in Chunks, a \in Locals : j # k \/ a # b => store'[j][a] = store[j][a]
      /\ \A j \in Chunks : (Shown(j)' <=> Shown(j)) /\ waiting[j] \subseteq waiting'[j]
      /\ \A j \in Chunks, a \in Locals : j # k \/ a # b => updates'[j][a] = updates[j][a]
  BY WriteTells
<1>2. NoUpdate \notin States BY StreamAssumption
<1>3. \A j \in Chunks, a \in Locals :
        /\ << j, a >> \in Queued <=> updates[j][a] # NoUpdate
        /\ << j, a >> \in Queued' <=> updates'[j][a] # NoUpdate
  BY DEF Queued, Places
<1>4. /\ Shown(k) => IF store[k][b] = s THEN UNCHANGED updates ELSE updates'[k][b] = s
      /\ ~Shown(k) => b \in waiting'[k] /\ UNCHANGED updates
  BY WriteTells
<1>5. \A q \in Queued' : \E j \in Chunks, a \in Locals : q = << j, a >> BY DEF Queued, Places
<1>6. \A q \in Queued : \E j \in Chunks, a \in Locals : q = << j, a >> BY DEF Queued, Places
<1>7. ASSUME NEW j \in Chunks, NEW a \in Locals
      PROVE  /\ << j, a >> \in Queued => << j, a >> \in Queued'
             /\ << j, a >> \in Queued' => << j, a >> \in Queued \/ (j = k /\ a = b)
  BY <1>1, <1>2, <1>3, <1>4
<1>8. Queued \subseteq Queued' BY <1>6, <1>7
<1>9. Queued' \subseteq Queued \cup {<< k, b >>}
  <2> SUFFICES ASSUME NEW q \in Queued' PROVE q \in Queued \/ q = << k, b >>
    OBVIOUS
  <2> QED BY <1>5, <1>7
<1>10. store'[k][b] = store[k][b] \/ << k, b >> \in Queued' \/ b \in waiting'[k]
  BY <1>1, <1>2, <1>3, <1>4
<1>11. \A q \in Queued' : updates'[q[1]][q[2]] = store'[q[1]][q[2]] \/ q[2] \in waiting'[q[1]]
  <2> SUFFICES ASSUME NEW j \in Chunks, NEW a \in Locals, << j, a >> \in Queued'
               PROVE  updates'[j][a] = store'[j][a] \/ a \in waiting'[j]
    BY <1>5
  <2>0. << j, a >> \in Queued => updates[j][a] = store[j][a] \/ a \in waiting[j]
    BY DEF WorldInv
  <2>1. CASE j # k \/ a # b BY <2>0, <2>1, <1>1, <1>7
  <2>2. CASE j = k /\ a = b BY <2>0, <2>2, <1>1, <1>3, <1>4
  <2> QED BY <2>1, <2>2
<1>12. \A j \in Chunks : Shown(j)' => view'[j] = store'[j] /\ waiting'[j] = {}
  <2> SUFFICES ASSUME NEW j \in Chunks, Shown(j) PROVE view'[j] = store'[j] /\ waiting'[j] = {}
    BY <1>1
  <2>1. view'[j] = store'[j] BY WriteTells
  <2>2. waiting[j] = {} BY DEF WorldInv
  <2>3. waiting' = waiting \/ (~Shown(k) /\ waiting' = [waiting EXCEPT ![k] = @ \cup {b}])
    BY DEF SetBlock
  <2>4. waiting'[j] = waiting[j] BY <2>3 DEF WorldType
  <2> QED BY <2>1, <2>2, <2>4
<1> QED BY <1>8, <1>9, <1>10, <1>11, <1>12 DEF WorldInv

-----------------------------------------------------------------------------
(* What most steps leave alone.                                            *)

\* What the invariant is made of.
LEMMA InvParts ==
    /\ StreamInv <=> /\ WorldType /\ leaving \subseteq Chunks /\ TickType
                     /\ PlayerType /\ SendType /\ CopyType
                     /\ WorldInv /\ TickInv /\ ClientInv /\ CopyIsCurrent
    /\ StreamInv' <=> /\ WorldType' /\ leaving' \subseteq Chunks /\ TickType'
                      /\ PlayerType' /\ SendType' /\ CopyType'
                      /\ WorldInv' /\ TickInv' /\ ClientInv' /\ CopyIsCurrent'
BY TypeParts DEF StreamInv, TypeOK, WorldType, TickType, PlayerType, SendType, CopyType

\* A client that is not served keeps what it has.
LEMMA ClientFrame ==
    ASSUME ClientInv, UNCHANGED << state, at, center, pending, sent, copy, acks >>
    PROVE  ClientInv'
BY GoodFrame DEF ClientInv

\* The queue may grow while nothing is captured.
LEMMA TickFrame ==
    ASSUME TickInv, UNCHANGED << pc, captured, turn, state >>, Queued \subseteq Queued',
           Queued' = Queued \/ pc \in {"drain", "world", "furnaces"}
    PROVE  TickInv'
BY DEF TickInv, Playing

\* Copies stay current when the blocks, the copies and what is on its way stay.
LEMMA CopiesFrame ==
    ASSUME CopyIsCurrent, UNCHANGED << store, sent, copy, behind, waiting, updates >>,
           \A c \in Clients, k \in Chunks, b \in Locals :
              k \in sent[c] /\ OnItsWay(c, << k, b >>) => OnItsWay(c, << k, b >>)',
           SendType
    PROVE  CopyIsCurrent'
<1> SUFFICES ASSUME NEW c \in Clients, NEW k \in sent[c], NEW b \in Locals
             PROVE  Current(c, k, b)'
  BY CurrentCopies DEF CopyIsCurrent, Current
<1>1. Current(c, k, b) BY CurrentCopies
<1>2. k \in Chunks BY DEF SendType
<1> QED BY <1>1, <1>2 DEF Current

\* A block of a client stays current, or has become so, when it is written.
LEMMA WriteCurrent ==
    ASSUME WorldType, WorldInv, NEW k \in Chunks, NEW b \in Locals, NEW s \in States, SetBlock(k, b, s),
           pc \in {"drain", "furnaces"}, UNCHANGED << pc, captured, todo >>,
           NEW c \in Clients, NEW j \in Chunks, NEW a \in Locals, Current(c, j, a),
           copy'[c][j][a] = copy[c][j][a], << j, a >> \in behind[c] => << j, a >> \in behind'[c]
    PROVE  Current(c, j, a)'
<1>1. /\ \A i \in Chunks, d \in Locals : i # k \/ d # b => store'[i][d] = store[i][d]
      /\ \A i \in Chunks : waiting[i] \subseteq waiting'[i]
  BY WriteTells
<1>2. /\ Queued \subseteq Queued'
      /\ store'[k][b] = store[k][b] \/ << k, b >> \in Queued' \/ b \in waiting'[k]
  BY WriteKeeps
<1>3. CASE j = k /\ a = b /\ store'[j][a] # store[j][a]
  <2>1. OnItsWay(c, << j, a >>)' BY <1>2, <1>3 DEF OnItsWay
  <2> QED BY <2>1 DEF Current
<1>4. CASE ~(j = k /\ a = b /\ store'[j][a] # store[j][a])
  <2>1. store'[j][a] = store[j][a] BY <1>1, <1>4
  <2>2. OnItsWay(c, << j, a >>) => OnItsWay(c, << j, a >>)'
    <3>1. a \in waiting[j] => a \in waiting'[j] BY <1>1
    <3>2. << j, a >> \in Queued => << j, a >> \in Queued' BY <1>2
    <3> QED BY <3>1, <3>2, StillOnItsWay
  <2> QED BY <2>1, <2>2 DEF Current
<1> QED BY <1>3, <1>4

\* A write before the broadcast that no client is told of yet.
LEMMA WriteHolds ==
    ASSUME StreamInv, NEW k \in Chunks, NEW b \in Locals, NEW s \in States, SetBlock(k, b, s),
           pc \in {"drain", "furnaces"},
           UNCHANGED << leaving, tickVars, playerVars, streamVars, clientVars >>
    PROVE  StreamInv'
<1>1. /\ WorldType /\ leaving \subseteq Chunks /\ TickType /\ PlayerType /\ SendType /\ CopyType
      /\ WorldInv /\ TickInv /\ ClientInv /\ CopyIsCurrent
  BY InvParts
<1>2. WorldType' /\ leaving' \subseteq Chunks BY <1>1, WriteTells
<1>3. TickType' /\ PlayerType' /\ SendType' /\ CopyType'
  BY <1>1 DEF TickType, PlayerType, SendType, CopyType, tickVars, playerVars, streamVars, clientVars
<1>4. WorldInv' /\ Queued \subseteq Queued' BY <1>1, WriteKeeps
<1>5. TickInv' BY <1>1, <1>4, TickFrame DEF tickVars, playerVars
<1>6. ClientInv' BY <1>1, ClientFrame DEF playerVars, streamVars, clientVars
<1>7. CopyIsCurrent'
  <2> SUFFICES ASSUME NEW c \in Clients, NEW j \in sent[c], NEW a \in Locals
               PROVE  Current(c, j, a)'
    BY CurrentCopies DEF streamVars, CopyIsCurrent, Current
  <2>1. Current(c, j, a) BY <1>1, CurrentCopies
  <2>2. j \in Chunks BY <1>1 DEF SendType
  <2> QED BY <1>1, <2>1, <2>2, WriteCurrent DEF tickVars, clientVars
<1> QED BY <1>2, <1>3, <1>4, <1>5, <1>6, <1>7, InvParts

\* A step that only requests chunks.
LEMMA RequestHolds ==
    ASSUME StreamInv, loading' \subseteq Chunks,
           UNCHANGED << store, view, waiting, updates, leaving, tickVars, playerVars, streamVars, clientVars >>
    PROVE  StreamInv'
<1>1. /\ WorldType /\ leaving \subseteq Chunks /\ TickType /\ PlayerType /\ SendType /\ CopyType
      /\ WorldInv /\ TickInv /\ ClientInv /\ CopyIsCurrent
  BY InvParts
<1>2. WorldType' /\ WorldInv' /\ Queued' = Queued BY <1>1 DEF WorldType, WorldInv, Queued, Shown
<1>3. TickType' /\ PlayerType' /\ SendType' /\ CopyType'
  BY <1>1 DEF TickType, PlayerType, SendType, CopyType, tickVars, playerVars, streamVars, clientVars
<1>4. TickInv' BY <1>1, <1>2, TickFrame DEF tickVars, playerVars
<1>5. ClientInv' BY <1>1, ClientFrame DEF playerVars, streamVars, clientVars
<1>6. CopyIsCurrent'
  <2>1. ASSUME NEW c \in Clients, NEW k \in Chunks, NEW b \in Locals, OnItsWay(c, << k, b >>)
        PROVE  OnItsWay(c, << k, b >>)'
    BY <1>2, <2>1, StillOnItsWay DEF tickVars
  <2> QED BY <1>1, <2>1, CopiesFrame DEF streamVars, clientVars
<1> QED BY <1>1, <1>2, <1>3, <1>4, <1>5, <1>6, InvParts

-----------------------------------------------------------------------------
(* The world.                                                              *)

\* A chunk that becomes READY queues what waited for it.
LEMMA ChunkReadyHolds ==
    ASSUME StreamInv, NEW k \in Chunks, ChunkReady(k)
    PROVE  StreamInv'
<1>1. /\ WorldType /\ leaving \subseteq Chunks /\ TickType /\ PlayerType /\ SendType /\ CopyType
      /\ WorldInv /\ TickInv /\ ClientInv /\ CopyIsCurrent
  BY InvParts
<1>2. /\ pc = "world" /\ view' = [view EXCEPT ![k] = store[k]] /\ UNCHANGED store
      /\ loading' = loading \ {k} /\ waiting' = [waiting EXCEPT ![k] = {}]
      /\ updates' = Replayed(k)
      /\ UNCHANGED << leaving, tickVars, playerVars, streamVars, clientVars >>
  BY DEF ChunkReady, Show
<1>3. /\ \A j \in Chunks \ {k} : view'[j] = view[j] /\ waiting'[j] = waiting[j] /\ updates'[j] = updates[j]
      /\ view'[k] = store[k] /\ waiting'[k] = {}
  BY <1>1, <1>2 DEF WorldType, Replayed
<1> DEFINE new == [b \in Locals |-> IF b \in waiting[k] THEN store[k][b] ELSE updates[k][b]]
<1>4. updates' = [updates EXCEPT ![k] = new] BY <1>2 DEF Replayed
<1>5. /\ updates'[k] = new /\ new \in [Locals -> States \cup {NoUpdate}]
  BY <1>1, <1>4 DEF WorldType, Blocks
<1>6. \A b \in Locals : updates'[k][b] = IF b \in waiting[k] THEN store[k][b] ELSE updates[k][b]
  BY <1>5
<1>7. store[k] \in Blocks /\ \A b \in Locals : store[k][b] \in States BY <1>1 DEF WorldType, Blocks
<1>8. WorldType'
  <2>1. view' \in [Chunks -> Blocks \cup {NotReady}] BY <1>1, <1>2, <1>7 DEF WorldType
  <2>2. waiting' \in [Chunks -> SUBSET Locals] BY <1>1, <1>2 DEF WorldType
  <2>3. updates' \in [Chunks -> [Locals -> States \cup {NoUpdate}]]
    BY <1>1, <1>4, <1>5 DEF WorldType
  <2> QED BY <1>1, <1>2, <2>1, <2>2, <2>3 DEF WorldType
<1>9. \A j \in Chunks, b \in Locals :
        /\ << j, b >> \in Queued <=> updates[j][b] # NoUpdate
        /\ << j, b >> \in Queued' <=> updates'[j][b] # NoUpdate
  BY DEF Queued, Places
<1>10. NoUpdate \notin States BY StreamAssumption
<1>11. ASSUME NEW j \in Chunks, NEW b \in Locals
       PROVE  /\ << j, b >> \in Queued => << j, b >> \in Queued'
              /\ b \in waiting[j] => b \in waiting'[j] \/ << j, b >> \in Queued'
  BY <1>3, <1>6, <1>7, <1>9, <1>10
<1>12. Queued \subseteq Queued'
  <2>1. \A q \in Queued : \E j \in Chunks, b \in Locals : q = << j, b >> BY DEF Queued, Places
  <2> QED BY <1>11, <2>1
<1>13. WorldInv'
  <2>1. \A j \in Chunks : Shown(j)' => view'[j] = store'[j] /\ waiting'[j] = {}
    BY <1>1, <1>2, <1>3 DEF WorldInv, Shown
  <2>2. \A q \in Queued' : \E j \in Chunks, b \in Locals : q = << j, b >> BY DEF Queued, Places
  <2>3. ASSUME NEW j \in Chunks, NEW b \in Locals, << j, b >> \in Queued'
        PROVE  updates'[j][b] = store'[j][b] \/ b \in waiting'[j]
    <3>1. << j, b >> \in Queued => updates[j][b] = store[j][b] \/ b \in waiting[j]
      BY <1>1 DEF WorldInv
    <3> QED BY <1>2, <1>3, <1>6, <1>9, <2>3, <3>1
  <2> QED BY <2>1, <2>2, <2>3 DEF WorldInv
<1>14. TickType' /\ PlayerType' /\ SendType' /\ CopyType'
  BY <1>1, <1>2 DEF TickType, PlayerType, SendType, CopyType, tickVars, playerVars, streamVars, clientVars
<1>15. TickInv' BY <1>1, <1>2, <1>12, TickFrame DEF tickVars, playerVars
<1>16. ClientInv' BY <1>1, <1>2, ClientFrame DEF playerVars, streamVars, clientVars
<1>17. CopyIsCurrent'
  <2> SUFFICES ASSUME NEW c \in Clients, NEW j \in sent[c], NEW b \in Locals
               PROVE  Current(c, j, b)'
    BY <1>2, CurrentCopies DEF streamVars, CopyIsCurrent, Current
  <2>1. Current(c, j, b) BY <1>1, CurrentCopies
  <2>2. j \in Chunks BY <1>1 DEF SendType
  <2>3. OnItsWay(c, << j, b >>) => OnItsWay(c, << j, b >>)'
    BY <1>2, <1>11, <2>2 DEF OnItsWay, tickVars
  <2> QED BY <1>2, <2>1, <2>3 DEF Current, clientVars
<1>18. leaving' \subseteq Chunks BY <1>1, <1>2
<1> QED BY <1>8, <1>13, <1>14, <1>15, <1>16, <1>17, <1>18, InvParts

\* A chunk that leaves memory takes nothing from the clients.
LEMMA ChunkGoneHolds ==
    ASSUME StreamInv, NEW k \in Chunks, ChunkGone(k)
    PROVE  StreamInv'
<1>1. /\ WorldType /\ leaving \subseteq Chunks /\ TickType /\ PlayerType /\ SendType /\ CopyType
      /\ WorldInv /\ TickInv /\ ClientInv /\ CopyIsCurrent
  BY InvParts
<1>2. /\ view' = [view EXCEPT ![k] = NotReady] /\ UNCHANGED store
      /\ leaving' \subseteq leaving
      /\ UNCHANGED << loading, waiting, updates, tickVars, playerVars, streamVars, clientVars >>
  BY DEF ChunkGone, Hide
<1>3. WorldType' BY <1>1, <1>2 DEF WorldType
<1>4. Queued' = Queued BY <1>2 DEF Queued
<1>5. WorldInv' BY <1>1, <1>2, <1>4 DEF WorldInv, WorldType, Shown
<1>6. TickType' /\ PlayerType' /\ SendType' /\ CopyType'
  BY <1>1, <1>2 DEF TickType, PlayerType, SendType, CopyType, tickVars, playerVars, streamVars, clientVars
<1>7. TickInv' BY <1>1, <1>2, <1>4, TickFrame DEF tickVars, playerVars
<1>8. ClientInv' BY <1>1, <1>2, ClientFrame DEF playerVars, streamVars, clientVars
<1>9. CopyIsCurrent'
  <2>1. ASSUME NEW c \in Clients, NEW j \in Chunks, NEW b \in Locals, OnItsWay(c, << j, b >>)
        PROVE  OnItsWay(c, << j, b >>)'
    BY <1>2, <1>4, <2>1, StillOnItsWay DEF tickVars
  <2> QED BY <1>1, <1>2, <2>1, CopiesFrame DEF streamVars, clientVars
<1>10. leaving' \subseteq Chunks BY <1>1, <1>2
<1> QED BY <1>3, <1>5, <1>6, <1>7, <1>8, <1>9, <1>10, InvParts

\* A furnace nobody has open lights or goes out.
LEMMA FurnaceTickHolds ==
    ASSUME StreamInv, NEW k \in Chunks, NEW b \in Locals, NEW s \in States, FurnaceTick(k, b, s)
    PROVE  StreamInv'
<1>1. CASE Shown(k) BY <1>1, WriteHolds DEF FurnaceTick
<1>2. CASE ~Shown(k)
  <2>1. loading' \subseteq Chunks BY <1>2, InvParts DEF FurnaceTick, Request, WorldType
  <2> QED BY <1>2, <2>1, RequestHolds DEF FurnaceTick
<1> QED BY <1>1, <1>2

\* The setblock command.
LEMMA CommandHolds ==
    ASSUME StreamInv, NEW k \in Chunks, NEW b \in Locals, NEW s \in States, Command(k, b, s)
    PROVE  StreamInv'
BY WriteHolds DEF Command

-----------------------------------------------------------------------------
(* The tick thread's loop.                                                 *)

\* A step that changes neither the world, nor a client, nor what was captured:
\* it moves the tick on, or the turn.
LEMMA StageHolds ==
    ASSUME StreamInv, TickType', TickInv', leaving' \subseteq Chunks,
           UNCHANGED << store, view, loading, waiting, updates, playerVars, streamVars, clientVars, captured >>,
           \A c \in Clients, k \in Chunks, b \in Locals :
              k \in sent[c] /\ OnItsWay(c, << k, b >>) => OnItsWay(c, << k, b >>)'
    PROVE  StreamInv'
<1>1. /\ WorldType /\ TickType /\ PlayerType /\ SendType /\ CopyType
      /\ WorldInv /\ TickInv /\ ClientInv /\ CopyIsCurrent
  BY InvParts
<1>2. WorldType' /\ WorldInv' BY <1>1, WorldFrame
<1>3. PlayerType' /\ SendType' /\ CopyType'
  BY <1>1 DEF PlayerType, SendType, CopyType, playerVars, streamVars, clientVars
<1>4. ClientInv' BY <1>1, ClientFrame DEF playerVars, streamVars, clientVars
<1>5. CopyIsCurrent' BY <1>1, CopiesFrame DEF streamVars, clientVars
<1> QED BY <1>2, <1>3, <1>4, <1>5, InvParts

\* The tick goes on to a stage where nothing is lost from sight.
LEMMA DrainEndHolds ==
    ASSUME StreamInv, DrainEnd \/ WorldEnd \/ EvictEnd
    PROVE  StreamInv'
<1>1. TickType /\ TickInv /\ leaving \subseteq Chunks BY InvParts
<1>2. /\ UNCHANGED << worldVars, captured, todo, turn, near, playerVars, streamVars, clientVars >>
      /\ \/ pc = "drain" /\ pc' = "world" /\ turn = NoTurn
         \/ pc = "world" /\ pc' = "furnaces"
         \/ pc = "evict" /\ pc' = "clear"
  BY DEF DrainEnd, WorldEnd, EvictEnd, Idle
<1>3. UNCHANGED Queued BY <1>2 DEF worldVars, Queued
<1>4. TickType' BY <1>1, <1>2 DEF TickType
<1>5. TickInv' BY <1>1, <1>2, <1>3 DEF TickInv, Playing, playerVars
<1>6. ASSUME NEW c \in Clients, NEW k \in Chunks, NEW b \in Locals, OnItsWay(c, << k, b >>)
      PROVE  OnItsWay(c, << k, b >>)'
  BY <1>2, <1>3, <1>6 DEF OnItsWay, worldVars
<1> QED BY <1>1, <1>2, <1>4, <1>5, <1>6, StageHolds DEF worldVars

\* When every client has had its turn, nothing captured is on its way.
LEMMA ClientsEndHolds ==
    ASSUME StreamInv, ClientsEnd
    PROVE  StreamInv'
<1>1. TickType /\ TickInv BY InvParts
<1>2. /\ UNCHANGED << store, view, loading, waiting, updates, captured, todo, turn, near,
                      playerVars, streamVars, clientVars >>
      /\ pc = "clients" /\ todo = {} /\ pc' \in {"evict", "clear"} /\ turn = NoTurn
  BY DEF ClientsEnd, Idle
<1>3. leaving' \subseteq Chunks
  <2>1. leaving \subseteq Chunks BY InvParts
  <2> QED BY <2>1 DEF ClientsEnd
<1>4. UNCHANGED Queued BY <1>2 DEF Queued
<1>5. TickType' BY <1>1, <1>2 DEF TickType
<1>6. TickInv' BY <1>1, <1>2, <1>4 DEF TickInv
<1>7. ASSUME NEW c \in Clients, NEW k \in Chunks, NEW b \in Locals, OnItsWay(c, << k, b >>)
      PROVE  OnItsWay(c, << k, b >>)'
  BY <1>2, <1>4, <1>7 DEF OnItsWay
<1> QED BY <1>2, <1>3, <1>5, <1>6, <1>7, StageHolds

\* What is queued when it is captured reaches every client that plays, or is
\* noted against it.
LEMMA CaptureHolds ==
    ASSUME StreamInv, Capture
    PROVE  StreamInv'
<1>1. /\ WorldType /\ leaving \subseteq Chunks /\ TickType /\ PlayerType /\ SendType /\ CopyType
      /\ WorldInv /\ TickInv /\ ClientInv /\ CopyIsCurrent
  BY InvParts
<1>2. /\ pc = "furnaces" /\ captured' = Queued
      /\ UNCHANGED << worldVars, turn, near, playerVars, streamVars, copy, acks >>
      /\ \/ pc' = "clients" /\ todo' = {c \in Clients : Playing(c)} /\ UNCHANGED behind
         \/ /\ pc' = "clear" /\ UNCHANGED todo
            /\ behind' = [c \in Clients |-> behind[c] \cup Missed(c, Queued)]
  BY DEF Capture
<1>3. WorldType' /\ WorldInv' /\ Queued' = Queued BY <1>1, <1>2, WorldFrame DEF worldVars
<1>4. Queued \subseteq Places BY DEF Queued
<1>5. leaving' \subseteq Chunks BY <1>1, <1>2 DEF worldVars
<1>6. TickType' BY <1>1, <1>2, <1>4 DEF TickType
<1>7. PlayerType' /\ SendType'
  BY <1>1, <1>2 DEF PlayerType, SendType, playerVars, streamVars
<1>8. CopyType' BY <1>1, <1>2, <1>4 DEF CopyType, Missed
<1>9. turn = NoTurn BY <1>1, <1>2 DEF TickInv
<1>10. TickInv' BY <1>2, <1>3, <1>9 DEF TickInv
<1>11. ClientInv' BY <1>1, <1>2, ClientFrame DEF playerVars, streamVars
<1>12. CopyIsCurrent'
  <2> SUFFICES ASSUME NEW c \in Clients, NEW k \in sent[c], NEW b \in Locals
               PROVE  Current(c, k, b)'
    BY <1>2 DEF streamVars, CopyIsCurrent, Current
  <2>1. Current(c, k, b) BY <1>1, CurrentCopies
  <2>2. Playing(c) BY <1>1 DEF ClientInv, ClientGood
  <2>3. << k, b >> \in Queued => OnItsWay(c, << k, b >>)' \/ << k, b >> \in behind'[c]
    BY <1>2, <1>3, <2>2 DEF OnItsWay, Missed
  <2>4. behind[c] \subseteq behind'[c] BY <1>2
  <2>5. OnItsWay(c, << k, b >>) => b \in waiting[k] \/ << k, b >> \in Queued BY DEF OnItsWay
  <2>6. b \in waiting[k] => OnItsWay(c, << k, b >>)' BY <1>2 DEF OnItsWay, worldVars
  <2> QED BY <1>2, <2>1, <2>3, <2>4, <2>5, <2>6 DEF Current, worldVars
<1> QED BY <1>3, <1>5, <1>6, <1>7, <1>8, <1>10, <1>11, <1>12, InvParts

\* What is cleared was captured, or is a furnace that is noted against those
\* it did not reach.
LEMMA ClearHolds ==
    ASSUME StreamInv, Clear
    PROVE  StreamInv'
<1>1. /\ WorldType /\ leaving \subseteq Chunks /\ TickType /\ PlayerType /\ SendType /\ CopyType
      /\ WorldInv /\ TickInv /\ ClientInv /\ CopyIsCurrent
  BY InvParts
<1>2. /\ pc = "clear" /\ pc' = "drain" /\ captured' = {} /\ near' = {}
      /\ updates' = IF captured = {} THEN updates ELSE NoUpdates
      /\ UNCHANGED << store, view, loading, waiting, leaving, todo, turn, playerVars, streamVars, clientVars >>
  BY DEF Clear
<1>3. captured # {} => \A k \in Chunks, b \in Locals : updates'[k][b] = NoUpdate
  BY <1>2 DEF NoUpdates
<1>4. Queued' = IF captured = {} THEN Queued ELSE {}
  BY <1>2, <1>3 DEF Queued, Places
<1>5. WorldType'
  <2>1. NoUpdates \in [Chunks -> [Locals -> States \cup {NoUpdate}]] BY DEF NoUpdates
  <2> QED BY <1>1, <1>2, <2>1 DEF WorldType
<1>6. WorldInv'
  <2>1. \A k \in Chunks : Shown(k)' => view'[k] = store'[k] /\ waiting'[k] = {}
    BY <1>1, <1>2 DEF WorldInv, Shown
  <2>2. \A q \in Queued' : updates'[q[1]][q[2]] = store'[q[1]][q[2]] \/ q[2] \in waiting'[q[1]]
    BY <1>1, <1>2, <1>4 DEF WorldInv
  <2> QED BY <2>1, <2>2 DEF WorldInv
<1>7. leaving' \subseteq Chunks BY <1>1, <1>2
<1>8. TickType' BY <1>1, <1>2 DEF TickType
<1>9. PlayerType' /\ SendType' /\ CopyType'
  BY <1>1, <1>2 DEF PlayerType, SendType, CopyType, playerVars, streamVars, clientVars
<1>10. turn = NoTurn BY <1>1, <1>2 DEF TickInv
<1>11. TickInv' BY <1>2, <1>10 DEF TickInv
<1>12. ClientInv' BY <1>1, <1>2, ClientFrame DEF playerVars, streamVars, clientVars
<1>13. CopyIsCurrent'
  <2> SUFFICES ASSUME NEW c \in Clients, NEW k \in sent[c], NEW b \in Locals
               PROVE  Current(c, k, b)'
    BY <1>2 DEF streamVars, CopyIsCurrent, Current
  <2>1. Current(c, k, b) BY <1>1, CurrentCopies
  <2>2. OnItsWay(c, << k, b >>) => OnItsWay(c, << k, b >>)'
    BY <1>2, <1>4 DEF OnItsWay
  <2> QED BY <1>2, <2>1, <2>2 DEF Current, clientVars
<1> QED BY <1>5, <1>6, <1>7, <1>8, <1>9, <1>11, <1>12, <1>13, InvParts

-----------------------------------------------------------------------------
(* A client's turn.                                                        *)

\* A new turn, and the stages of one.
LEMMA TurnStages ==
    ASSUME NEW c \in Clients, NEW stage \in {"tick", "stream", "send"}
    PROVE  /\ Serve(c, stage) \in Stages /\ Serve(c, stage).c = c /\ Serve(c, stage).stage = stage
           /\ Serve(c, stage) # NoTurn
           /\ \A t \in {"tick", "stream", "send"} :
                 [Serve(c, stage) EXCEPT !.stage = t] = Serve(c, t)
BY StreamAssumption DEF Serve, Stages, NoTurn

\* The broadcast brings a client that is play_ready up to date.
LEMMA TurnBeginHolds ==
    ASSUME StreamInv, NEW c \in Clients, TurnBegin(c)
    PROVE  StreamInv'
<1>1. /\ WorldType /\ leaving \subseteq Chunks /\ TickType /\ PlayerType /\ SendType /\ CopyType
      /\ WorldInv /\ TickInv /\ ClientInv /\ CopyIsCurrent
  BY InvParts
<1>2. /\ pc = "clients" /\ Idle /\ c \in todo /\ Playing(c) /\ Broadcast(c)
      /\ acks' = [acks EXCEPT ![c] = {}] /\ todo' = todo \ {c}
      /\ near' = near \cup Keeps[at[c]] /\ turn' = Serve(c, "tick")
      /\ UNCHANGED << worldVars, pc, captured, playerVars, streamVars >>
  BY DEF TurnBegin
<1>3. WorldType' /\ WorldInv' /\ Queued' = Queued BY <1>1, <1>2, WorldFrame DEF worldVars
<1>4. leaving' \subseteq Chunks BY <1>1, <1>2 DEF worldVars
<1>5. Serve(c, "tick") \in Stages /\ Serve(c, "tick").c = c BY TurnStages
<1>6. TickType'
  <2>1. Keeps[at[c]] \subseteq Chunks BY <1>1, <1>2, StreamAssumption DEF ClientInv, ClientGood
  <2> QED BY <1>1, <1>2, <1>5, <2>1 DEF TickType
<1>7. PlayerType' /\ SendType'
  BY <1>1, <1>2 DEF PlayerType, SendType, playerVars, streamVars
<1>8. \A k \in Chunks, b \in Locals : << k, b >> \in captured => updates[k][b] \in States
  BY <1>1 DEF TickInv, WorldType, Queued
<1>9. ASSUME ready[c] PROVE CopyType' /\ ClientInv' /\ CopyIsCurrent'
  <2>1. /\ copy' = [copy EXCEPT ![c] = Received(c)]
        /\ behind' = [behind EXCEPT ![c] = @ \ captured]
    BY <1>2, <1>9 DEF Broadcast
  <2>2. ASSUME NEW k \in sent[c]
        PROVE  /\ k \in Chunks /\ Received(c)[k] \in Blocks /\ NotReady \notin Blocks
               /\ \A b \in Locals : Received(c)[k][b] =
                    IF << k, b >> \in captured THEN updates[k][b] ELSE copy[c][k][b]
    <3>1. k \in Chunks BY <1>1 DEF SendType
    <3>2. copy[c][k] \in [Locals -> States]
      BY <1>1, <3>1 DEF ClientInv, ClientGood, CopyType, Blocks
    <3>3. Received(c)[k] = [b \in Locals |-> IF << k, b >> \in captured THEN updates[k][b] ELSE copy[c][k][b]]
      BY <3>1 DEF Received
    <3>4. Received(c)[k] \in Blocks BY <1>8, <3>1, <3>2, <3>3 DEF Blocks
    <3> QED BY <3>1, <3>3, <3>4, StreamAssumption DEF Blocks
  <2>3. \A k \in Chunks \ sent[c] : Received(c)[k] = copy[c][k] BY DEF Received
  <2>4. Received(c) \in [Chunks -> Blocks \cup {NotReady}]
    <3>1. \A k \in Chunks : Received(c)[k] \in Blocks \cup {NotReady}
      <4>1. \A k \in Chunks : copy[c][k] \in Blocks \cup {NotReady} BY <1>1 DEF CopyType
      <4> QED BY <2>2, <2>3, <4>1
    <3>2. Received(c) = [k \in Chunks |-> Received(c)[k]] BY DEF Received
    <3> QED BY <3>1, <3>2
  <2>5. /\ copy'[c] = Received(c) /\ \A d \in Clients \ {c} : copy'[d] = copy[d]
        /\ behind'[c] = behind[c] \ captured /\ \A d \in Clients \ {c} : behind'[d] = behind[d]
        /\ acks'[c] = {} /\ \A d \in Clients \ {c} : acks'[d] = acks[d]
    BY <1>1, <1>2, <2>1 DEF CopyType
  <2>6. CopyType'
    <3> HIDE DEF Received
    <3> QED BY <1>1, <1>2, <2>1, <2>4 DEF CopyType
  <2>7. \A k \in Chunks : copy'[c][k] # NotReady <=> copy[c][k] # NotReady
    BY <1>1, <2>2, <2>3, <2>5 DEF ClientInv, ClientGood
  <2>8. ClientInv'
    <3> SUFFICES ASSUME NEW d \in Clients PROVE ClientGood(d)'
      BY DEF ClientInv
    <3>1. ClientGood(d) BY <1>1 DEF ClientInv
    <3>2. CASE d # c BY <1>2, <2>5, <3>1, <3>2, GoodFrame DEF playerVars, streamVars
    <3>3. CASE d = c
      BY <1>2, <2>5, <2>7, <3>1, <3>3 DEF ClientGood, Playing, playerVars, streamVars
    <3> QED BY <3>2, <3>3
  <2>9. CopyIsCurrent'
    <3> SUFFICES ASSUME NEW d \in Clients, NEW k \in sent[d], NEW b \in Locals
                 PROVE  Current(d, k, b)'
      BY <1>2 DEF streamVars, CopyIsCurrent, Current
    <3>1. Current(d, k, b) BY <1>1, CurrentCopies
    <3>2. k \in Chunks BY <1>1 DEF SendType
    <3>3. CASE d # c
      <4>1. OnItsWay(d, << k, b >>) => OnItsWay(d, << k, b >>)'
        BY <1>2, <1>3, <3>3 DEF OnItsWay, worldVars
      <4> QED BY <1>2, <2>5, <3>1, <3>3, <4>1 DEF Current, worldVars
    <3>4. CASE d = c /\ << k, b >> \in captured
      <4>1. copy'[c][k][b] = updates[k][b] BY <2>2, <2>5, <3>4
      <4>2. updates[k][b] = store[k][b] \/ b \in waiting[k] BY <1>1, <3>4 DEF TickInv, WorldInv
      <4> QED BY <1>2, <3>4, <4>1, <4>2 DEF Current, OnItsWay, worldVars
    <3>5. CASE d = c /\ << k, b >> \notin captured
      <4>1. copy'[c][k][b] = copy[c][k][b] BY <2>2, <2>5, <3>5
      <4>2. OnItsWay(c, << k, b >>) => OnItsWay(c, << k, b >>)'
        BY <1>2, <1>3, <3>5 DEF OnItsWay, worldVars
      <4> QED BY <1>2, <2>5, <3>1, <3>5, <4>1, <4>2 DEF Current, worldVars
    <3> QED BY <3>3, <3>4, <3>5
  <2> QED BY <2>6, <2>8, <2>9
<1>10. ASSUME ~ready[c] PROVE CopyType' /\ ClientInv' /\ CopyIsCurrent'
  <2>1. /\ behind' = [behind EXCEPT ![c] = @ \cup Missed(c, captured)]
        /\ UNCHANGED copy
    BY <1>2, <1>10 DEF Broadcast
  <2>2. /\ behind'[c] = behind[c] \cup Missed(c, captured) /\ \A d \in Clients \ {c} : behind'[d] = behind[d]
        /\ acks'[c] = {} /\ \A d \in Clients \ {c} : acks'[d] = acks[d]
    BY <1>1, <1>2, <2>1 DEF CopyType
  <2>3. CopyType'
    <3>1. Missed(c, captured) \subseteq Places BY <1>1 DEF TickType, Missed
    <3> QED BY <1>1, <1>2, <2>1, <3>1 DEF CopyType
  <2>4. ClientInv'
    <3> SUFFICES ASSUME NEW d \in Clients PROVE ClientGood(d)'
      BY DEF ClientInv
    <3>1. ClientGood(d) BY <1>1 DEF ClientInv
    <3> QED BY <1>2, <2>1, <2>2, <3>1 DEF ClientGood, Playing, playerVars, streamVars
  <2>5. CopyIsCurrent'
    <3> SUFFICES ASSUME NEW d \in Clients, NEW k \in sent[d], NEW b \in Locals
                 PROVE  Current(d, k, b)'
      BY <1>2 DEF streamVars, CopyIsCurrent, Current
    <3>1. Current(d, k, b) BY <1>1, CurrentCopies
    <3>2. behind[d] \subseteq behind'[d] BY <2>2
    <3>3. CASE d = c /\ << k, b >> \in captured
      BY <1>2, <2>2, <3>3 DEF Current, Missed
    <3>4. CASE ~(d = c /\ << k, b >> \in captured)
      <4>1. OnItsWay(d, << k, b >>) => OnItsWay(d, << k, b >>)'
        BY <1>2, <1>3, <3>4 DEF OnItsWay, worldVars
      <4> QED BY <1>2, <2>1, <3>1, <3>2, <4>1 DEF Current, worldVars
    <3> QED BY <3>3, <3>4
  <2> QED BY <2>3, <2>4, <2>5
<1>11. TickInv'
  <2>1. Playing(c)' BY <1>2 DEF Playing, playerVars
  <2> QED BY <1>1, <1>2, <1>3, <1>5, <2>1 DEF TickInv
<1> QED BY <1>3, <1>4, <1>6, <1>7, <1>9, <1>10, <1>11, InvParts

\* A client that is closing has no chunks, and is passed over.
LEMMA SkipClosingHolds ==
    ASSUME StreamInv, NEW c \in Clients, SkipClosing(c)
    PROVE  StreamInv'
<1>1. TickType /\ TickInv /\ ClientInv /\ leaving \subseteq Chunks BY InvParts
<1>2. /\ todo' = todo \ {c} /\ ~Playing(c)
      /\ UNCHANGED << worldVars, pc, captured, turn, near, playerVars, streamVars, clientVars >>
  BY DEF SkipClosing
<1>3. UNCHANGED Queued BY <1>2 DEF worldVars, Queued
<1>4. TickType' BY <1>1, <1>2 DEF TickType
<1>5. TickInv' BY <1>1, <1>2, <1>3 DEF TickInv, Playing, playerVars
<1>6. ASSUME NEW d \in Clients, NEW k \in Chunks, NEW b \in Locals,
             k \in sent[d], OnItsWay(d, << k, b >>)
      PROVE  OnItsWay(d, << k, b >>)'
  <2>1. d # c BY <1>1, <1>2, <1>6 DEF ClientInv, ClientGood
  <2> QED BY <1>2, <1>3, <1>6, <2>1 DEF OnItsWay, worldVars
<1> QED BY <1>1, <1>2, <1>4, <1>5, <1>6, StageHolds DEF worldVars

\* A turn without a change of the open furnace goes on.
LEMMA TurnNoFurnaceHolds ==
    ASSUME StreamInv, NEW c \in Clients, TurnNoFurnace(c)
    PROVE  StreamInv'
<1>1. TickType /\ TickInv /\ leaving \subseteq Chunks BY InvParts
<1>2. /\ turn = Serve(c, "tick") /\ turn' = Serve(c, "stream")
      /\ UNCHANGED << worldVars, pc, captured, todo, near, playerVars, streamVars, clientVars >>
  BY TurnStages DEF TurnNoFurnace
<1>3. UNCHANGED Queued BY <1>2 DEF worldVars, Queued
<1>4. TickType' BY <1>1, <1>2, TurnStages DEF TickType
<1>5. TickInv' BY <1>1, <1>2, <1>3, TurnStages DEF TickInv, Playing, playerVars
<1>6. ASSUME NEW d \in Clients, NEW k \in Chunks, NEW b \in Locals, OnItsWay(d, << k, b >>)
      PROVE  OnItsWay(d, << k, b >>)'
  BY <1>2, <1>3, <1>6 DEF OnItsWay, worldVars
<1> QED BY <1>1, <1>2, <1>4, <1>5, <1>6, StageHolds DEF worldVars

-----------------------------------------------------------------------------
(* The packet handlers.                                                    *)

\* A client whose copies stay the same chunks, and whose new acknowledgements
\* are not of furnaces, is as it should be.
LEMMA CopiesGood ==
    ASSUME ClientInv, UNCHANGED << state, at, center, pending, sent >>,
           \A d \in Clients, j \in Chunks : copy'[d][j] # NotReady <=> copy[d][j] # NotReady,
           \A d \in Clients : acks'[d] \subseteq Chunks \X (Locals \ FurnaceLocals)
    PROVE  ClientInv'
<1> SUFFICES ASSUME NEW d \in Clients PROVE ClientGood(d)'
  BY DEF ClientInv
<1>1. ClientGood(d) BY DEF ClientInv
<1> QED BY <1>1 DEF ClientGood, Playing

\* A block of one client's copy is written.
Written(c, k, b, s) == copy' = [copy EXCEPT ![c][k][b] = s]

\* One block written to one client changes that block of it alone.
LEMMA TellCopy ==
    ASSUME CopyType, SendType, ClientInv, NEW c \in Clients, NEW k \in sent[c], NEW b \in Locals,
           NEW s \in States, Written(c, k, b, s)
    PROVE  /\ copy' \in [Clients -> [Chunks -> Blocks \cup {NotReady}]]
           /\ \A d \in Clients, j \in Chunks : copy'[d][j] # NotReady <=> copy[d][j] # NotReady
           /\ copy'[c][k][b] = s
           /\ \A d \in Clients, j \in Chunks, a \in Locals :
                 d # c \/ j # k \/ a # b => copy'[d][j][a] = copy[d][j][a]
<1>1. /\ k \in Chunks /\ copy \in [Clients -> [Chunks -> Blocks \cup {NotReady}]]
      /\ NotReady \notin Blocks
  BY StreamAssumption DEF SendType, CopyType, Blocks
<1>2. copy[c][k] \in [Locals -> States] BY <1>1 DEF ClientInv, ClientGood, Blocks
<1> DEFINE new == [copy[c][k] EXCEPT ![b] = s]
           mine == [copy[c] EXCEPT ![k] = new]
<1>3. new \in Blocks /\ new[b] = s /\ \A a \in Locals : a # b => new[a] = copy[c][k][a]
  BY <1>2 DEF Blocks
<1>4. copy' = [copy EXCEPT ![c] = [copy[c] EXCEPT ![k] = [copy[c][k] EXCEPT ![b] = s]]]
  BY DEF Written
<1> HIDE DEF new
<1>5. /\ mine \in [Chunks -> Blocks \cup {NotReady}] /\ mine[k] = new
      /\ \A j \in Chunks : j # k => mine[j] = copy[c][j]
  BY <1>1, <1>3
<1>6. copy' = [copy EXCEPT ![c] = mine] BY <1>4 DEF new
<1> HIDE DEF mine
<1>7. /\ copy' \in [Clients -> [Chunks -> Blocks \cup {NotReady}]] /\ copy'[c] = mine
      /\ \A d \in Clients : d # c => copy'[d] = copy[d]
  BY <1>1, <1>5, <1>6
<1>8. copy[c][k] # NotReady BY <1>1 DEF ClientInv, ClientGood
<1>9. \A d \in Clients, j \in Chunks : copy'[d][j] # NotReady <=> copy[d][j] # NotReady
  BY <1>1, <1>3, <1>5, <1>7, <1>8
<1>10. \A d \in Clients, j \in Chunks, a \in Locals :
         d # c \/ j # k \/ a # b => copy'[d][j][a] = copy[d][j][a]
  BY <1>3, <1>5, <1>7
<1> QED BY <1>3, <1>5, <1>7, <1>9, <1>10

\* What a block action leaves to be shown.
LEMMA ActHolds ==
    ASSUME StreamInv, NEW c \in Clients, NEW k \in Chunks, NEW b \in Locals, Acts(c, k, b),
           WorldType', WorldInv', Queued \subseteq Queued',
           copy' \in [Clients -> [Chunks -> Blocks \cup {NotReady}]],
           behind' \in [Clients -> SUBSET Places],
           \A d \in Clients, j \in Chunks : copy'[d][j] # NotReady <=> copy[d][j] # NotReady,
           \A d \in Clients, j \in Chunks, a \in Locals : j \in sent[d] => Current(d, j, a)'
    PROVE  StreamInv'
<1>1. /\ leaving \subseteq Chunks /\ TickType /\ PlayerType /\ SendType /\ CopyType
      /\ TickInv /\ ClientInv
  BY InvParts
<1>2. /\ pc = "drain" /\ b \notin FurnaceLocals
      /\ acks' = [acks EXCEPT ![c] = @ \cup {<< k, b >>}]
      /\ UNCHANGED << leaving, tickVars, playerVars, streamVars >>
  BY DEF Acts
<1>3. TickType' /\ PlayerType' /\ SendType'
  BY <1>1, <1>2 DEF TickType, PlayerType, SendType, tickVars, playerVars, streamVars
<1>4. CopyType' BY <1>1, <1>2 DEF CopyType, Places
<1>5. TickInv' BY <1>1, <1>2, TickFrame DEF tickVars, playerVars
<1>6. ClientInv'
  <2>1. \A d \in Clients : acks[d] \subseteq Chunks \X (Locals \ FurnaceLocals)
    BY <1>1 DEF ClientInv, ClientGood
  <2>2. \A d \in Clients : acks'[d] \subseteq acks[d] \cup {<< k, b >>} BY <1>1, <1>2 DEF CopyType
  <2>3. << k, b >> \in Chunks \X (Locals \ FurnaceLocals) BY <1>2
  <2>4. \A d \in Clients : acks'[d] \subseteq Chunks \X (Locals \ FurnaceLocals)
    BY <2>1, <2>2, <2>3
  <2> QED BY <1>1, <1>2, <2>4, CopiesGood DEF playerVars, streamVars
<1>7. CopyIsCurrent' BY <1>1, <1>2 DEF CopyIsCurrent, Current, SendType, streamVars
<1>8. leaving' \subseteq Chunks BY <1>1, <1>2
<1> QED BY <1>3, <1>4, <1>5, <1>6, <1>7, <1>8, InvParts

\* A break or a placement that is accepted: the client is told of it at once,
\* or it is told something else and the update waits for the chunk.
LEMMA ActWriteHolds ==
    ASSUME StreamInv, NEW c \in Clients, NEW k \in Chunks, NEW b \in Locals, Acts(c, k, b),
           NEW s \in States, NEW t \in States, SetBlock(k, b, s), Tell(c, k, b, t),
           Shown(k) => t = s
    PROVE  StreamInv'
<1>1. /\ WorldType /\ WorldInv /\ SendType /\ CopyType /\ ClientInv
      /\ CopyIsCurrent
  BY InvParts
<1>2. /\ Written(c, k, b, t)
      /\ behind' = [behind EXCEPT ![c] = @ \ {<< k, b >>}]
  BY DEF Tell, Written
<1>3. /\ pc = "drain" /\ k \in sent[c] /\ UNCHANGED << pc, captured, todo >>
  BY DEF Acts, tickVars
<1>4. /\ copy' \in [Clients -> [Chunks -> Blocks \cup {NotReady}]]
      /\ \A d \in Clients, j \in Chunks : copy'[d][j] # NotReady <=> copy[d][j] # NotReady
      /\ copy'[c][k][b] = t
      /\ \A d \in Clients, j \in Chunks, a \in Locals :
            d # c \/ j # k \/ a # b => copy'[d][j][a] = copy[d][j][a]
  BY <1>1, <1>2, <1>3, TellCopy
<1>5. behind' \in [Clients -> SUBSET Places] BY <1>1, <1>2 DEF CopyType
<1>6. ASSUME NEW d \in Clients, NEW j \in Chunks, NEW a \in Locals, j \in sent[d]
      PROVE  Current(d, j, a)'
  <2>1. Current(d, j, a) BY <1>1, <1>6, CurrentCopies
  <2>2. CASE d # c \/ j # k \/ a # b
    <3>1. copy'[d][j][a] = copy[d][j][a] BY <1>4, <2>2
    <3>2. << j, a >> \in behind[d] => << j, a >> \in behind'[d] BY <1>1, <1>2, <2>2 DEF CopyType
    <3> QED BY <1>1, <1>3, <2>1, <3>1, <3>2, WriteCurrent
  <2>3. CASE d = c /\ j = k /\ a = b
    <3>1. store'[k][b] = s /\ (~Shown(k) => b \in waiting'[k]) BY <1>1, WriteTells
    <3> QED BY <1>4, <2>3, <3>1 DEF Current, OnItsWay
  <2> QED BY <2>2, <2>3
<1>7. WorldType' /\ WorldInv' /\ Queued \subseteq Queued' BY <1>1, WriteTells, WriteKeeps
<1> QED BY <1>4, <1>5, <1>6, <1>7, ActHolds

\* Digging.
LEMMA DigHolds ==
    ASSUME StreamInv, NEW c \in Clients, NEW k \in Chunks, NEW b \in Locals, Dig(c, k, b)
    PROVE  StreamInv'
<1>1. /\ WorldType /\ WorldInv /\ CopyType /\ CopyIsCurrent BY InvParts
<1>2. Acts(c, k, b) BY DEF Dig
<1>3. CASE Shown(k)
  <2>1. SetBlock(k, b, Air) /\ Tell(c, k, b, Air) BY <1>3 DEF Dig
  <2> QED BY <1>2, <1>3, <2>1, ActWriteHolds, StreamAssumption
<1>4. CASE ~Shown(k)
  <2>1. Request(k) /\ UNCHANGED << store, view, waiting, updates, copy, behind >>
    BY <1>4 DEF Dig
  <2>2. loading' \subseteq Chunks BY <1>1, <2>1 DEF Request, WorldType
  <2>3. WorldType' /\ WorldInv' /\ Queued' = Queued
    BY <1>1, <2>1, <2>2 DEF WorldType, WorldInv, Queued, Shown
  <2>4. ASSUME NEW d \in Clients, NEW j \in Chunks, NEW a \in Locals, j \in sent[d]
        PROVE  Current(d, j, a)'
    <3>1. Current(d, j, a) BY <1>1, <2>4, CurrentCopies
    <3>2. OnItsWay(d, << j, a >>) => OnItsWay(d, << j, a >>)'
      BY <1>2, <2>1, <2>3, StillOnItsWay DEF Acts, tickVars
    <3> QED BY <2>1, <3>1, <3>2 DEF Current
  <2> QED BY <1>1, <1>2, <2>1, <2>3, <2>4, ActHolds DEF CopyType
<1> QED BY <1>3, <1>4

\* Placing.
LEMMA PlaceHolds ==
    ASSUME StreamInv, NEW c \in Clients, NEW k \in Chunks, NEW b \in Locals, NEW s \in States,
           Place(c, k, b, s)
    PROVE  StreamInv'
<1> DEFINE t == IF Shown(k) THEN s ELSE Air
<1>1. Acts(c, k, b) /\ SetBlock(k, b, s) /\ Tell(c, k, b, t) BY DEF Place
<1>2. t \in States /\ (Shown(k) => t = s) BY StreamAssumption
<1> HIDE DEF t
<1> QED BY <1>1, <1>2, ActWriteHolds

\* A refusal tells what is there, or notes that it could not.
LEMMA RefuseHolds ==
    ASSUME StreamInv, NEW c \in Clients, NEW k \in Chunks, NEW b \in Locals, Refuse(c, k, b)
    PROVE  StreamInv'
<1>1. /\ WorldType /\ WorldInv /\ SendType /\ CopyType /\ ClientInv /\ CopyIsCurrent
  BY InvParts
<1> DEFINE t == IF Shown(k) THEN store[k][b] ELSE Air
<1>2. /\ Acts(c, k, b) /\ Request(k)
      /\ Written(c, k, b, t)
      /\ behind' = [behind EXCEPT ![c] = IF Shown(k) THEN @ \ {<< k, b >>} ELSE @ \cup {<< k, b >>}]
      /\ UNCHANGED << store, view, waiting, updates >>
  BY DEF Refuse, Written
<1>3. t \in States BY <1>1, StreamAssumption DEF WorldType, Blocks
<1>4. Shown(k) => t = store[k][b] OBVIOUS
<1> HIDE DEF t
<1>5. k \in sent[c] BY <1>2 DEF Acts
<1>6. /\ copy' \in [Clients -> [Chunks -> Blocks \cup {NotReady}]]
      /\ \A d \in Clients, j \in Chunks : copy'[d][j] # NotReady <=> copy[d][j] # NotReady
      /\ copy'[c][k][b] = t
      /\ \A d \in Clients, j \in Chunks, a \in Locals :
            d # c \/ j # k \/ a # b => copy'[d][j][a] = copy[d][j][a]
  BY <1>1, <1>2, <1>3, <1>5, TellCopy
<1>7. << k, b >> \in Places BY DEF Places
<1>8. behind' \in [Clients -> SUBSET Places] BY <1>1, <1>2, <1>7 DEF CopyType
<1>9. loading' \subseteq Chunks BY <1>1, <1>2 DEF Request, WorldType
<1>10. WorldType' /\ WorldInv' /\ Queued' = Queued
  BY <1>1, <1>2, <1>9 DEF WorldType, WorldInv, Queued, Shown
<1>11. ASSUME NEW d \in Clients, NEW j \in Chunks, NEW a \in Locals, j \in sent[d]
       PROVE  Current(d, j, a)'
  <2>1. Current(d, j, a) BY <1>1, <1>11, CurrentCopies
  <2>2. OnItsWay(d, << j, a >>) => OnItsWay(d, << j, a >>)'
    BY <1>2, <1>10, StillOnItsWay DEF Acts, tickVars
  <2>3. CASE d # c \/ j # k \/ a # b
    <3>1. copy'[d][j][a] = copy[d][j][a] BY <1>6, <2>3
    <3>2. << j, a >> \in behind[d] => << j, a >> \in behind'[d] BY <1>1, <1>2, <2>3 DEF CopyType
    <3> QED BY <1>2, <2>1, <2>2, <3>1, <3>2 DEF Current
  <2>4. CASE d = c /\ j = k /\ a = b
    <3>1. Shown(k) \/ << k, b >> \in behind'[c] BY <1>1, <1>2 DEF CopyType
    <3> QED BY <1>2, <1>4, <1>6, <2>4, <3>1 DEF Current
  <2> QED BY <2>3, <2>4
<1> QED BY <1>2, <1>6, <1>8, <1>10, <1>11, ActHolds

\* A client that is ready, or moves.
LEMMA MoveHolds ==
    ASSUME StreamInv, NEW c \in Clients, Confirm(c) \/ \E p \in Centers : Move(c, p)
    PROVE  StreamInv'
<1>1. /\ WorldType /\ leaving \subseteq Chunks /\ TickType /\ PlayerType /\ SendType /\ CopyType
      /\ WorldInv /\ TickInv /\ ClientInv /\ CopyIsCurrent
  BY InvParts
<1>2. UNCHANGED << worldVars, tickVars, state, streamVars, clientVars >> BY DEF Confirm, Move
<1>3. /\ ready' \in [Clients -> BOOLEAN] /\ at' \in [Clients -> Centers \cup {NoCenter}]
      /\ \A d \in Clients : at[d] \in Centers => at'[d] \in Centers
  BY <1>1 DEF Confirm, Move, PlayerType
<1>4. WorldType' /\ WorldInv' /\ Queued' = Queued /\ leaving' \subseteq Chunks
  BY <1>1, <1>2, WorldFrame DEF worldVars
<1>5. TickType' /\ SendType' /\ CopyType' /\ PlayerType'
  BY <1>1, <1>2, <1>3 DEF TickType, SendType, CopyType, PlayerType, tickVars, streamVars, clientVars
<1>6. TickInv' BY <1>1, <1>2, <1>4, TickFrame DEF tickVars
<1>7. ClientInv'
  <2> SUFFICES ASSUME NEW d \in Clients PROVE ClientGood(d)'
    BY DEF ClientInv
  <2>1. ClientGood(d) BY <1>1 DEF ClientInv
  <2> QED BY <1>2, <1>3, <2>1 DEF ClientGood, Playing, streamVars, clientVars
<1>8. CopyIsCurrent'
  <2>1. ASSUME NEW d \in Clients, NEW k \in Chunks, NEW b \in Locals, OnItsWay(d, << k, b >>)
        PROVE  OnItsWay(d, << k, b >>)'
    BY <1>2, <1>4, <2>1, StillOnItsWay DEF tickVars, worldVars
  <2> QED BY <1>1, <1>2, <2>1, CopiesFrame DEF streamVars, clientVars, worldVars
<1> QED BY <1>4, <1>5, <1>6, <1>7, <1>8, InvParts

\* A client that leaves has nothing any more, and is not being served.
LEMMA LeaveHolds ==
    ASSUME StreamInv, NEW c \in Clients, Leave(c)
    PROVE  StreamInv'
<1>1. /\ WorldType /\ leaving \subseteq Chunks /\ TickType /\ PlayerType /\ SendType /\ CopyType
      /\ WorldInv /\ TickInv /\ ClientInv /\ CopyIsCurrent
  BY InvParts
<1>2. /\ turn = NoTurn \/ turn.c # c
      /\ state' = [state EXCEPT ![c] = "closing"] /\ ready' = [ready EXCEPT ![c] = FALSE]
      /\ at' = [at EXCEPT ![c] = NoCenter] /\ center' = [center EXCEPT ![c] = NoCenter]
      /\ pending' = [pending EXCEPT ![c] = << >>] /\ sent' = [sent EXCEPT ![c] = {}]
      /\ pinged' = [pinged EXCEPT ![c] = FALSE] /\ copy' = [copy EXCEPT ![c] = NoCopies]
      /\ acks' = [acks EXCEPT ![c] = {}] /\ behind' = [behind EXCEPT ![c] = {}]
      /\ UNCHANGED << worldVars, tickVars >>
  BY DEF Leave, Idle
<1>3. WorldType' /\ WorldInv' /\ Queued' = Queued /\ leaving' \subseteq Chunks
  BY <1>1, <1>2, WorldFrame DEF worldVars
<1>4. TickType' /\ PlayerType' BY <1>1, <1>2 DEF TickType, PlayerType, tickVars
<1>5. << >> \in Seq(Chunks) OBVIOUS
<1>6. SendType' BY <1>1, <1>2, <1>5 DEF SendType
<1>7. NoCopies \in [Chunks -> Blocks \cup {NotReady}] BY DEF NoCopies
<1>8. CopyType' BY <1>1, <1>2, <1>7 DEF CopyType
<1>9. TickInv'
  <2>1. turn # NoTurn => turn.c # c /\ turn.c \in Clients BY <1>1, <1>2 DEF TickType, Stages
  <2> QED BY <1>1, <1>2, <1>3, <2>1 DEF TickInv, Playing, PlayerType, tickVars
<1>10. /\ \A d \in Clients \ {c} :
             /\ state'[d] = state[d] /\ at'[d] = at[d] /\ center'[d] = center[d]
             /\ pending'[d] = pending[d] /\ sent'[d] = sent[d] /\ copy'[d] = copy[d]
             /\ acks'[d] = acks[d] /\ behind'[d] = behind[d]
       /\ state'[c] = "closing" /\ sent'[c] = {} /\ copy'[c] = NoCopies /\ acks'[c] = {}
  BY <1>1, <1>2 DEF PlayerType, SendType, CopyType
<1>11. ClientInv'
  <2> SUFFICES ASSUME NEW d \in Clients PROVE ClientGood(d)'
    BY DEF ClientInv
  <2>1. ClientGood(d) BY <1>1 DEF ClientInv
  <2>2. CASE d # c BY <1>10, <2>1, <2>2, GoodFrame
  <2>3. CASE d = c BY <1>10, <2>3 DEF ClientGood, Playing, NoCopies
  <2> QED BY <2>2, <2>3
<1>12. CopyIsCurrent'
  <2> SUFFICES ASSUME NEW d \in Clients, NEW k \in sent'[d], NEW b \in Locals
               PROVE  Current(d, k, b)'
    BY DEF CopyIsCurrent, Current
  <2>1. d # c /\ k \in sent[d] BY <1>10
  <2>2. Current(d, k, b) BY <1>1, <2>1, CurrentCopies
  <2>3. OnItsWay(d, << k, b >>) => OnItsWay(d, << k, b >>)'
    BY <1>2, <1>3, StillOnItsWay DEF tickVars, worldVars
  <2> QED BY <1>2, <1>10, <2>1, <2>2, <2>3 DEF Current, worldVars
<1> QED BY <1>3, <1>4, <1>6, <1>8, <1>9, <1>11, <1>12, InvParts

\* The container blocks sent again are the accepted ones.
LEMMA PongHolds ==
    ASSUME StreamInv, NEW c \in Clients, Pong(c)
    PROVE  StreamInv'
<1>1. /\ WorldType /\ leaving \subseteq Chunks /\ TickType /\ PlayerType /\ SendType /\ CopyType
      /\ WorldInv /\ TickInv /\ ClientInv /\ CopyIsCurrent
  BY InvParts
<1> DEFINE again(k) == [b \in Locals |-> IF b \in FurnaceLocals THEN store[k][b] ELSE copy[c][k][b]]
           mine == [k \in Chunks |-> IF k \in sent[c] /\ Shown(k) THEN again(k) ELSE copy[c][k]]
<1>2. /\ pinged' = [pinged EXCEPT ![c] = FALSE]
      /\ loading' = loading \cup {k \in sent[c] : ~Shown(k)}
      /\ copy' = [copy EXCEPT ![c] = mine]
      /\ behind' = [behind EXCEPT ![c] = {q \in @ : ~(Shown(q[1]) /\ q[2] \in FurnaceLocals)}]
      /\ UNCHANGED << store, view, waiting, updates, leaving, tickVars, playerVars,
                      center, pending, sent, acks >>
  BY DEF Pong
<1>3. sent[c] \subseteq Chunks BY <1>1 DEF SendType
<1>4. NotReady \notin Blocks BY StreamAssumption DEF Blocks
<1>5. ASSUME NEW k \in sent[c] PROVE again(k) \in Blocks /\ copy[c][k] # NotReady
  <2>1. copy[c][k] \in [Locals -> States] /\ copy[c][k] # NotReady
    BY <1>1, <1>3 DEF ClientInv, ClientGood, CopyType, Blocks
  <2>2. store[k] \in [Locals -> States] BY <1>1, <1>3 DEF WorldType, Blocks
  <2> QED BY <2>1, <2>2 DEF Blocks
<1>6. \A k \in Chunks, b \in Locals :
        mine[k][b] = IF k \in sent[c] /\ Shown(k) /\ b \in FurnaceLocals THEN store[k][b] ELSE copy[c][k][b]
  OBVIOUS
<1>7. \A k \in Chunks : mine[k] = IF k \in sent[c] /\ Shown(k) THEN again(k) ELSE copy[c][k]
  OBVIOUS
<1>8. mine \in [Chunks -> Blocks \cup {NotReady}]
  <2>1. \A k \in Chunks : copy[c][k] \in Blocks \cup {NotReady} BY <1>1 DEF CopyType
  <2>2. \A k \in Chunks : (IF k \in sent[c] /\ Shown(k) THEN again(k) ELSE copy[c][k]) \in Blocks \cup {NotReady}
    BY <1>5, <2>1
  <2> QED BY <2>2
<1>9. \A k \in Chunks : mine[k] # NotReady <=> copy[c][k] # NotReady
  BY <1>4, <1>5, <1>7
<1> HIDE DEF mine, again
<1>10. /\ copy'[c] = mine /\ \A d \in Clients \ {c} : copy'[d] = copy[d] /\ behind'[d] = behind[d]
       /\ behind'[c] = {q \in behind[c] : ~(Shown(q[1]) /\ q[2] \in FurnaceLocals)}
  BY <1>1, <1>2 DEF CopyType
<1>11. CopyType' BY <1>1, <1>2, <1>8 DEF CopyType
<1>12. WorldType' /\ WorldInv' /\ Queued' = Queued /\ leaving' \subseteq Chunks
  <2>1. loading' \subseteq Chunks BY <1>1, <1>2, <1>3 DEF WorldType
  <2> QED BY <1>1, <1>2, <2>1 DEF WorldType, WorldInv, Queued, Shown
<1>13. TickType' /\ PlayerType' /\ SendType'
  BY <1>1, <1>2 DEF TickType, PlayerType, SendType, tickVars, playerVars
<1>14. TickInv' BY <1>1, <1>2, <1>12, TickFrame DEF tickVars, playerVars
<1>15. ClientInv'
  <2>1. \A d \in Clients, j \in Chunks : copy'[d][j] # NotReady <=> copy[d][j] # NotReady
    BY <1>9, <1>10
  <2>2. \A d \in Clients : acks[d] \subseteq Chunks \X (Locals \ FurnaceLocals)
    BY <1>1 DEF ClientInv, ClientGood
  <2> QED BY <1>1, <1>2, <2>1, <2>2, CopiesGood DEF playerVars
<1>16. CopyIsCurrent'
  <2> SUFFICES ASSUME NEW d \in Clients, NEW k \in sent[d], NEW b \in Locals
               PROVE  Current(d, k, b)'
    BY <1>2 DEF CopyIsCurrent, Current
  <2>1. Current(d, k, b) BY <1>1, CurrentCopies
  <2>2. k \in Chunks BY <1>1 DEF SendType
  <2>3. OnItsWay(d, << k, b >>) => OnItsWay(d, << k, b >>)'
    BY <1>2, <1>12, StillOnItsWay DEF tickVars
  <2> QED BY <1>2, <1>6, <1>10, <2>1, <2>2, <2>3 DEF Current
<1> QED BY <1>11, <1>12, <1>13, <1>14, <1>15, <1>16, InvParts

-----------------------------------------------------------------------------
(* The stream.                                                             *)

\* A rebuilt stream: what is sent stays in view, the rest of the view is
\* pending, once, and no other client is touched.
LEMMA RebuildWhat ==
    ASSUME WorldType, SendType, CopyType, NEW c \in Clients, NEW p \in Centers,
           NEW have \in SUBSET sent[c], Rebuild(c, p, have)
    PROVE  /\ center' \in [Clients -> Centers \cup {NoCenter}] /\ center'[c] = p
           /\ sent' \in [Clients -> SUBSET Chunks] /\ sent'[c] = have \cap Range(Rings[p])
           /\ pending' \in [Clients -> Seq(Chunks)] /\ IsInjective(pending'[c])
           /\ Range(pending'[c]) = Range(Rings[p]) \ sent'[c]
           /\ copy' \in [Clients -> [Chunks -> Blocks \cup {NotReady}]]
           /\ \A k \in Chunks : copy'[c][k] = IF k \in sent'[c] THEN copy[c][k] ELSE NotReady
           /\ behind' \in [Clients -> SUBSET Places]
           /\ \A q \in behind[c] : q[1] \in sent'[c] => q \in behind'[c]
           /\ \A d \in Clients : d # c =>
                 /\ center'[d] = center[d] /\ sent'[d] = sent[d] /\ pending'[d] = pending[d]
                 /\ copy'[d] = copy[d] /\ behind'[d] = behind[d]
           /\ loading' \subseteq Chunks
<1> DEFINE both == have \cap Range(Rings[p])
           mine == [k \in Chunks |-> IF k \in both THEN copy[c][k] ELSE NotReady]
<1>1. Rings[p] \in Seq(Chunks) /\ Missing(p, have) \in SUBSET Range(Rings[p])
  BY StreamAssumption DEF Missing
<1>2. PICK list \in SetToSeqs(Missing(p, have)) : pending' = [pending EXCEPT ![c] = list]
  BY DEF Rebuild
<1>3. list \in Seq(Chunks) /\ IsInjective(list) /\ Range(list) = Missing(p, have)
  BY <1>1, <1>2, OrderOfSome
<1>4. /\ center' = [center EXCEPT ![c] = p] /\ sent' = [sent EXCEPT ![c] = both]
      /\ copy' = [copy EXCEPT ![c] = mine]
      /\ behind' = [behind EXCEPT ![c] = {q \in @ : q[1] \in both}]
      /\ loading' = loading \cup {k \in Missing(p, have) : ~Shown(k)}
  BY DEF Rebuild
<1>5. both \subseteq Chunks BY DEF SendType
<1>6. \A k \in Chunks : mine[k] = IF k \in both THEN copy[c][k] ELSE NotReady
  OBVIOUS
<1>7. mine \in [Chunks -> Blocks \cup {NotReady}]
  <2>1. \A k \in Chunks : copy[c][k] \in Blocks \cup {NotReady} BY DEF CopyType
  <2>2. \A k \in Chunks : (IF k \in both THEN copy[c][k] ELSE NotReady) \in Blocks \cup {NotReady}
    BY <2>1
  <2> QED BY <2>2
<1>8. Range(list) = Range(Rings[p]) \ both BY <1>3 DEF Missing
<1>9. Missing(p, have) \subseteq Chunks BY <1>3 DEF Range
<1> HIDE DEF mine, both
<1>10. loading' \subseteq Chunks BY <1>4, <1>9 DEF WorldType
<1>11. /\ pending' \in [Clients -> Seq(Chunks)] /\ pending'[c] = list
       /\ \A d \in Clients : d # c => pending'[d] = pending[d]
  BY <1>2, <1>3 DEF SendType
<1>12. /\ center' \in [Clients -> Centers \cup {NoCenter}] /\ center'[c] = p
       /\ sent' \in [Clients -> SUBSET Chunks] /\ sent'[c] = both
       /\ \A d \in Clients : d # c => center'[d] = center[d] /\ sent'[d] = sent[d]
  BY <1>4, <1>5 DEF SendType
<1>13. /\ copy' \in [Clients -> [Chunks -> Blocks \cup {NotReady}]] /\ copy'[c] = mine
       /\ \A d \in Clients : d # c => copy'[d] = copy[d]
  BY <1>4, <1>7 DEF CopyType
<1>14. /\ behind' \in [Clients -> SUBSET Places] /\ behind'[c] = {q \in behind[c] : q[1] \in both}
       /\ \A d \in Clients : d # c => behind'[d] = behind[d]
  BY <1>4 DEF CopyType
<1>15. both = have \cap Range(Rings[p]) BY DEF both
<1> QED BY <1>3, <1>6, <1>8, <1>10, <1>11, <1>12, <1>13, <1>14, <1>15

\* A rebuilt stream is a good one.
LEMMA RebuildHolds ==
    ASSUME StreamInv, NEW c \in Clients, NEW p \in Centers, NEW have \in SUBSET sent[c],
           Rebuild(c, p, have), TickType', TickInv', PlayerType', pinged' \in [Clients -> BOOLEAN],
           state'[c] = "play", at'[c] \in Centers,
           \A d \in Clients : d # c => state'[d] = state[d] /\ at'[d] = at[d],
           UNCHANGED << store, view, waiting, updates, leaving, pc, captured, todo, acks >>
    PROVE  StreamInv'
<1>1. /\ WorldType /\ leaving \subseteq Chunks /\ TickType /\ PlayerType /\ SendType /\ CopyType
      /\ WorldInv /\ TickInv /\ ClientInv /\ CopyIsCurrent
  BY InvParts
<1>2. /\ center' \in [Clients -> Centers \cup {NoCenter}] /\ center'[c] = p
      /\ sent' \in [Clients -> SUBSET Chunks] /\ sent'[c] = have \cap Range(Rings[p])
      /\ pending' \in [Clients -> Seq(Chunks)] /\ IsInjective(pending'[c])
      /\ Range(pending'[c]) = Range(Rings[p]) \ sent'[c]
      /\ copy' \in [Clients -> [Chunks -> Blocks \cup {NotReady}]]
      /\ \A k \in Chunks : copy'[c][k] = IF k \in sent'[c] THEN copy[c][k] ELSE NotReady
      /\ behind' \in [Clients -> SUBSET Places]
      /\ \A q \in behind[c] : q[1] \in sent'[c] => q \in behind'[c]
      /\ \A d \in Clients : d # c =>
            /\ center'[d] = center[d] /\ sent'[d] = sent[d] /\ pending'[d] = pending[d]
            /\ copy'[d] = copy[d] /\ behind'[d] = behind[d]
      /\ loading' \subseteq Chunks
  BY <1>1, RebuildWhat
<1>3. WorldType' /\ WorldInv' /\ Queued' = Queued
  BY <1>1, <1>2 DEF WorldType, WorldInv, Queued, Shown
<1>4. SendType' /\ CopyType' BY <1>1, <1>2 DEF SendType, CopyType
<1>5. sent'[c] \subseteq sent[c] /\ sent'[c] \subseteq Range(Rings[p]) BY <1>2
<1>6. ClientInv'
  <2> SUFFICES ASSUME NEW d \in Clients PROVE ClientGood(d)'
    BY DEF ClientInv
  <2>1. ClientGood(d) BY <1>1 DEF ClientInv
  <2>2. CASE d # c BY <1>2, <2>1, <2>2, GoodFrame
  <2>3. CASE d = c
    <3>1. \A k \in Chunks : copy'[c][k] # NotReady <=> k \in sent'[c]
      BY <1>2, <1>5, <2>1, <2>3 DEF ClientGood
    <3> QED BY <1>2, <1>5, <2>1, <2>3, <3>1 DEF ClientGood, Playing
  <2> QED BY <2>2, <2>3
<1>7. CopyIsCurrent'
  <2> SUFFICES ASSUME NEW d \in Clients, NEW k \in sent'[d], NEW b \in Locals
               PROVE  Current(d, k, b)'
    BY DEF CopyIsCurrent, Current
  <2>1. k \in sent[d] /\ k \in Chunks BY <1>2, <1>5
  <2>2. Current(d, k, b) BY <1>1, <2>1, CurrentCopies
  <2>3. OnItsWay(d, << k, b >>) => OnItsWay(d, << k, b >>)' BY <1>3, StillOnItsWay
  <2>4. copy'[d][k] = copy[d][k] BY <1>2, <2>1
  <2>5. << k, b >> \in behind[d] => << k, b >> \in behind'[d] BY <1>2
  <2> QED BY <2>2, <2>3, <2>4, <2>5 DEF Current
<1> QED BY <1>1, <1>3, <1>4, <1>6, <1>7, InvParts

\* Entering the world.
LEMMA JoinHolds ==
    ASSUME StreamInv, NEW c \in Clients, NEW p \in Centers, Join(c, p)
    PROVE  StreamInv'
<1>1. TickType /\ TickInv /\ PlayerType /\ SendType BY InvParts
<1>2. /\ pc = "drain" /\ Idle
      /\ state' = [state EXCEPT ![c] = "play"] /\ at' = [at EXCEPT ![c] = p]
      /\ Rebuild(c, p, {}) /\ turn' = Serve(c, "send")
      /\ UNCHANGED << store, view, waiting, updates, leaving, pc, captured, todo, near,
                      ready, pinged, acks >>
  BY DEF Join
<1>3. /\ PlayerType' /\ state'[c] = "play" /\ at'[c] = p
      /\ \A d \in Clients : d # c => state'[d] = state[d] /\ at'[d] = at[d]
  BY <1>1, <1>2 DEF PlayerType
<1>4. TickType' BY <1>1, <1>2, TurnStages DEF TickType
<1>5. UNCHANGED Queued BY <1>2 DEF Queued
<1>6. TickInv' BY <1>1, <1>2, <1>3, <1>5, TurnStages DEF TickInv, Playing
<1>7. pinged' \in [Clients -> BOOLEAN] BY <1>1, <1>2 DEF SendType
<1> QED BY <1>2, <1>3, <1>4, <1>6, <1>7, RebuildHolds

\* Coming back to life.
LEMMA RespawnHolds ==
    ASSUME StreamInv, NEW c \in Clients, NEW p \in Centers, Respawn(c, p)
    PROVE  StreamInv'
<1>1. TickType /\ TickInv /\ PlayerType /\ SendType BY InvParts
<1>2. /\ pc = "drain" /\ Idle /\ Playing(c)
      /\ at' = [at EXCEPT ![c] = p] /\ pinged' = [pinged EXCEPT ![c] = FALSE]
      /\ Rebuild(c, p, {}) /\ turn' = Serve(c, "send")
      /\ UNCHANGED << store, view, waiting, updates, leaving, pc, captured, todo, near,
                      state, ready, acks >>
  BY DEF Respawn
<1>3. /\ PlayerType' /\ state'[c] = "play" /\ at'[c] = p
      /\ \A d \in Clients : d # c => state'[d] = state[d] /\ at'[d] = at[d]
  BY <1>1, <1>2 DEF PlayerType, Playing
<1>4. TickType' BY <1>1, <1>2, TurnStages DEF TickType
<1>5. UNCHANGED Queued BY <1>2 DEF Queued
<1>6. TickInv' BY <1>1, <1>2, <1>3, <1>5, TurnStages DEF TickInv, Playing
<1>7. pinged' \in [Clients -> BOOLEAN] BY <1>1, <1>2 DEF SendType
<1> QED BY <1>2, <1>3, <1>4, <1>6, <1>7, RebuildHolds

\* The stream part of a turn follows the player.
LEMMA TurnStreamHolds ==
    ASSUME StreamInv, NEW c \in Clients, TurnStream(c)
    PROVE  StreamInv'
<1>1. TickType /\ TickInv /\ PlayerType /\ SendType /\ ClientInv /\ leaving \subseteq Chunks
  BY InvParts
<1>2. /\ turn = Serve(c, "stream") /\ turn' = Serve(c, "send")
      /\ IF at[c] # center[c]
         THEN Rebuild(c, at[c], sent[c])
         ELSE UNCHANGED << loading, center, sent, pending, copy, behind >>
      /\ UNCHANGED << store, view, waiting, updates, leaving, pc, captured, todo, near,
                      playerVars, pinged, acks >>
  BY TurnStages DEF TurnStream
<1>3. /\ turn # NoTurn /\ turn.c = c /\ turn' # NoTurn /\ turn'.c = c /\ turn'.stage = "send"
      /\ turn' \in Stages
  BY <1>2, TurnStages
<1>4. Playing(c) /\ pc \in {"drain", "clients"} BY <1>1, <1>3 DEF TickInv
<1>5. at[c] \in Centers BY <1>1, <1>4 DEF ClientInv, ClientGood
<1>6. TickType' BY <1>1, <1>2, <1>3 DEF TickType
<1>7. UNCHANGED Queued BY <1>2 DEF Queued
<1>8. TickInv' BY <1>1, <1>2, <1>3, <1>4, <1>7 DEF TickInv, Playing, playerVars
<1>9. PlayerType' /\ pinged' \in [Clients -> BOOLEAN]
  BY <1>1, <1>2 DEF PlayerType, SendType, playerVars
<1>10. CASE at[c] # center[c]
  BY <1>2, <1>4, <1>5, <1>6, <1>8, <1>9, <1>10, RebuildHolds DEF playerVars, Playing
<1>11. CASE at[c] = center[c]
  <2>1. ASSUME NEW d \in Clients, NEW k \in Chunks, NEW b \in Locals, OnItsWay(d, << k, b >>)
        PROVE  OnItsWay(d, << k, b >>)'
    BY <1>2, <1>7, <2>1, StillOnItsWay
  <2> QED BY <1>1, <1>2, <1>6, <1>8, <1>11, <2>1, StageHolds DEF streamVars, clientVars
<1> QED BY <1>10, <1>11

\* A turn whose furnace is in a chunk that is gone requests the chunk.
LEMMA TurnFurnaceGoneHolds ==
    ASSUME StreamInv, NEW c \in Clients, NEW k \in Chunks, TurnFurnaceGone(c, k)
    PROVE  StreamInv'
<1>1. /\ WorldType /\ leaving \subseteq Chunks /\ TickType /\ PlayerType /\ SendType /\ CopyType
      /\ WorldInv /\ TickInv /\ ClientInv /\ CopyIsCurrent
  BY InvParts
<1>2. /\ turn = Serve(c, "tick") /\ turn' = Serve(c, "stream")
      /\ UNCHANGED << store, view, waiting, updates, leaving, pc, captured, todo, near,
                      playerVars, streamVars, clientVars >>
  BY TurnStages DEF TurnFurnaceGone
<1>3. loading' \subseteq Chunks BY <1>1 DEF TurnFurnaceGone, Request, WorldType
<1>4. WorldType' /\ WorldInv' /\ Queued' = Queued
  BY <1>1, <1>2, <1>3 DEF WorldType, WorldInv, Queued, Shown
<1>5. TickType' BY <1>1, <1>2, TurnStages DEF TickType
<1>6. TickInv' BY <1>1, <1>2, <1>4, TurnStages DEF TickInv, Playing, playerVars
<1>7. PlayerType' /\ SendType' /\ CopyType'
  BY <1>1, <1>2 DEF PlayerType, SendType, CopyType, playerVars, streamVars, clientVars
<1>8. ClientInv' BY <1>1, <1>2, ClientFrame DEF playerVars, streamVars, clientVars
<1>9. CopyIsCurrent'
  <2>1. ASSUME NEW d \in Clients, NEW j \in Chunks, NEW b \in Locals, OnItsWay(d, << j, b >>)
        PROVE  OnItsWay(d, << j, b >>)'
    BY <1>2, <1>4, <2>1, StillOnItsWay
  <2> QED BY <1>1, <1>2, <2>1, CopiesFrame DEF streamVars, clientVars
<1> QED BY <1>1, <1>2, <1>4, <1>5, <1>6, <1>7, <1>8, <1>9, InvParts

\* The furnace the client has open changes in the middle of the broadcast:
\* those it does not reach any more are noted.
LEMMA TurnFurnaceHolds ==
    ASSUME StreamInv, NEW c \in Clients, NEW k \in Chunks, NEW b \in Locals, NEW s \in States,
           TurnFurnace(c, k, b, s)
    PROVE  StreamInv'
<1>1. /\ WorldType /\ leaving \subseteq Chunks /\ TickType /\ PlayerType /\ SendType /\ CopyType
      /\ WorldInv /\ TickInv /\ ClientInv /\ CopyIsCurrent
  BY InvParts
<1>2. /\ turn = Serve(c, "tick") /\ turn' = Serve(c, "stream")
      /\ b \in FurnaceLocals /\ Shown(k) /\ store[k][b] # s
      /\ SetBlock(k, b, s)
      /\ IF k \in sent[c] THEN Written(c, k, b, s) ELSE copy' = copy
      /\ UNCHANGED << leaving, pc, captured, todo, near, playerVars, streamVars, acks >>
  BY TurnStages DEF TurnFurnace, Written
<1>3. behind' = [d \in Clients |->
                   IF d = c THEN behind[d] \ {<< k, b >>}
                   ELSE IF d \in Unreached(c, << k, b >>)
                        THEN behind[d] \cup Missed(d, {<< k, b >>})
                        ELSE behind[d]]
  BY DEF TurnFurnace
<1>4. /\ turn # NoTurn /\ turn.c = c /\ turn.stage = "tick" /\ turn' # NoTurn /\ turn'.c = c
      /\ turn'.stage = "stream" /\ turn' \in Stages
  BY <1>2, TurnStages
<1>5. pc = "clients" /\ Playing(c) BY <1>1, <1>4 DEF TickInv
<1>6. /\ WorldType' /\ store'[k][b] = s /\ updates'[k][b] = s
      /\ \A j \in Chunks, a \in Locals : j # k \/ a # b => store'[j][a] = store[j][a]
      /\ UNCHANGED waiting
  BY <1>1, <1>2, WriteTells
<1>7. WorldInv' /\ Queued \subseteq Queued' /\ Queued' \subseteq Queued \cup {<< k, b >>}
  BY <1>1, <1>2, WriteKeeps
<1>8. << k, b >> \in Queued' /\ << k, b >> \in Places
  BY <1>6, StreamAssumption DEF Queued, Places
<1>9. TickType' BY <1>1, <1>2, <1>4 DEF TickType
<1>10. PlayerType' /\ SendType' /\ leaving' \subseteq Chunks
  BY <1>1, <1>2 DEF PlayerType, SendType, playerVars, streamVars
<1>11. /\ copy' \in [Clients -> [Chunks -> Blocks \cup {NotReady}]]
       /\ \A d \in Clients, j \in Chunks : copy'[d][j] # NotReady <=> copy[d][j] # NotReady
       /\ k \in sent[c] => copy'[c][k][b] = s
       /\ \A d \in Clients, j \in Chunks, a \in Locals :
             d # c \/ j # k \/ a # b => copy'[d][j][a] = copy[d][j][a]
  <2>1. CASE k \in sent[c] BY <1>1, <1>2, <2>1, TellCopy
  <2>2. CASE k \notin sent[c] BY <1>1, <1>2, <2>2 DEF CopyType
  <2> QED BY <2>1, <2>2
<1>12. CopyType'
  <2>1. \A d \in Clients : Missed(d, {<< k, b >>}) \subseteq {<< k, b >>} BY DEF Missed
  <2>2. behind' \in [Clients -> SUBSET Places] BY <1>1, <1>3, <1>8, <2>1 DEF CopyType
  <2> QED BY <1>1, <1>2, <1>11, <2>2 DEF CopyType
<1>13. TickInv'
  <2>1. \A q \in Queued' \ captured' : q[2] \in FurnaceLocals
    BY <1>1, <1>2, <1>5, <1>7 DEF TickInv
  <2> QED BY <1>1, <1>2, <1>4, <1>5, <1>7, <2>1 DEF TickInv, Playing, playerVars
<1>14. ClientInv'
  <2>1. \A d \in Clients : acks[d] \subseteq Chunks \X (Locals \ FurnaceLocals)
    BY <1>1 DEF ClientInv, ClientGood
  <2> QED BY <1>1, <1>2, <1>11, <2>1, CopiesGood DEF playerVars, streamVars
<1>15. CopyIsCurrent'
  <2> SUFFICES ASSUME NEW d \in Clients, NEW j \in sent[d], NEW a \in Locals
               PROVE  Current(d, j, a)'
    BY <1>2 DEF streamVars, CopyIsCurrent, Current
  <2>1. Current(d, j, a) BY <1>1, CurrentCopies
  <2>2. j \in Chunks BY <1>1 DEF SendType
  <2>3. CASE j # k \/ a # b
    <3>1. copy'[d][j][a] = copy[d][j][a] /\ store'[j][a] = store[j][a] BY <1>6, <1>11, <2>2, <2>3
    <3>2. OnItsWay(d, << j, a >>) => OnItsWay(d, << j, a >>)'
      <4>1. a \in waiting[j] => a \in waiting'[j] BY <1>6
      <4> QED BY <1>2, <1>7, <4>1, StillOnItsWay
    <3>3. << j, a >> \in behind[d] => << j, a >> \in behind'[d] BY <1>3, <2>3
    <3> QED BY <2>1, <3>1, <3>2, <3>3 DEF Current
  <2>4. CASE j = k /\ a = b /\ d = c BY <1>6, <1>11, <2>4 DEF Current
  <2>5. CASE j = k /\ a = b /\ d # c /\ d \in Unreached(c, << k, b >>)
    <3>1. Playing(d) BY <1>1 DEF ClientInv, ClientGood
    <3>2. << k, b >> \in Missed(d, {<< k, b >>}) BY <2>5, <3>1 DEF Missed
    <3>3. << k, b >> \in behind'[d] BY <1>3, <2>5, <3>2
    <3> QED BY <2>5, <3>3 DEF Current
  <2>6. CASE j = k /\ a = b /\ d # c /\ d \notin Unreached(c, << k, b >>)
    <3>1. captured = {} \/ (d \in todo /\ << k, b >> \in captured) BY <2>6 DEF Unreached
    <3> QED BY <1>2, <1>5, <1>8, <2>6, <3>1 DEF Current, OnItsWay
  <2> QED BY <2>3, <2>4, <2>5, <2>6
<1> QED BY <1>6, <1>7, <1>9, <1>10, <1>12, <1>13, <1>14, <1>15, InvParts

\* A chunk from the front of the queue is sent as it is, or waits at the end.
LEMMA SendHolds ==
    ASSUME StreamInv, NEW c \in Clients, turn # NoTurn, turn.c = c, turn.stage = "send",
           turn.sends # ChunksPerTick, pending[c] # << >>, SendChunk(c, Head(pending[c])),
           UNCHANGED << store, view, waiting, updates, leaving, pc, captured, todo, near,
                        playerVars, center, acks >>
    PROVE  StreamInv'
<1> DEFINE k == Head(pending[c])
<1>1. /\ WorldType /\ leaving \subseteq Chunks /\ TickType /\ PlayerType /\ SendType /\ CopyType
      /\ WorldInv /\ TickInv /\ ClientInv /\ CopyIsCurrent
  BY InvParts
<1>2. /\ Shown(k) /\ pending' = [pending EXCEPT ![c] = Tail(@)]
      /\ sent' = [sent EXCEPT ![c] = @ \cup {k}]
      /\ copy' = [copy EXCEPT ![c] = [copy[c] EXCEPT ![k] = view[k]]]
      /\ behind' = [behind EXCEPT ![c] = @ \ ({k} \X Locals)]
      /\ pinged' = [pinged EXCEPT ![c] = TRUE]
      /\ turn' = [turn EXCEPT !.sends = @ + 1] /\ UNCHANGED loading
  BY DEF SendChunk
<1>3. Playing(c) /\ ClientGood(c) /\ pending[c] \in Seq(Chunks)
  BY <1>1 DEF TickInv, ClientInv, SendType
<1>4. IsInjective(pending[c]) BY <1>3 DEF ClientGood
<1>5. /\ Tail(pending[c]) \in Seq(Chunks) /\ IsInjective(Tail(pending[c])) /\ k \in Chunks
      /\ Range(Tail(pending[c])) = Range(pending[c]) \ {k} /\ k \in Range(pending[c])
  BY <1>3, <1>4, TailList
<1> HIDE DEF k
<1>6. WorldType' /\ WorldInv' /\ Queued' = Queued BY <1>1, <1>2, WorldFrame
<1>7. view[k] = store[k] /\ view[k] \in Blocks /\ view[k] # NotReady
  BY <1>1, <1>2, <1>5 DEF WorldInv, Shown, WorldType
<1>8. /\ turn' \in Stages /\ turn' # NoTurn /\ turn'.c = c /\ turn'.stage = "send"
  <2>1. turn \in Stages BY <1>1 DEF TickType
  <2>2. turn.sends \in 0 .. ChunksPerTick /\ ChunksPerTick \in Nat
    BY <2>1, StreamAssumption DEF Stages
  <2>3. turn.sends + 1 \in 0 .. ChunksPerTick BY <2>2
  <2> QED BY <1>2, <2>1, <2>3 DEF Stages, NoTurn
<1>9. TickType' BY <1>1, <1>8 DEF TickType
<1>10. TickInv' BY <1>1, <1>3, <1>6, <1>8 DEF TickInv, Playing, playerVars
<1> DEFINE mine == [copy[c] EXCEPT ![k] = view[k]]
<1>11. /\ mine \in [Chunks -> Blocks \cup {NotReady}] /\ mine[k] = view[k]
       /\ \A j \in Chunks : j # k => mine[j] = copy[c][j]
  BY <1>1, <1>5, <1>7 DEF CopyType
<1>12. copy' = [copy EXCEPT ![c] = mine] BY <1>2
<1> HIDE DEF mine
<1>13. /\ CopyType' /\ copy'[c] = mine /\ behind'[c] = behind[c] \ ({k} \X Locals)
       /\ \A d \in Clients : d # c => copy'[d] = copy[d] /\ behind'[d] = behind[d]
  <2>1. /\ copy \in [Clients -> [Chunks -> Blocks \cup {NotReady}]]
        /\ acks \in [Clients -> SUBSET Places] /\ behind \in [Clients -> SUBSET Places]
    BY <1>1 DEF CopyType
  <2>2. /\ copy' \in [Clients -> [Chunks -> Blocks \cup {NotReady}]] /\ copy'[c] = mine
        /\ \A d \in Clients : d # c => copy'[d] = copy[d]
    BY <1>11, <1>12, <2>1
  <2>3. /\ behind' \in [Clients -> SUBSET Places] /\ behind'[c] = behind[c] \ ({k} \X Locals)
        /\ \A d \in Clients : d # c => behind'[d] = behind[d]
    BY <1>2, <2>1
  <2>4. acks' \in [Clients -> SUBSET Places]
    BY <2>1
  <2> QED BY <2>2, <2>3, <2>4 DEF CopyType
<1>14. /\ SendType' /\ pending'[c] = Tail(pending[c]) /\ sent'[c] = sent[c] \cup {k}
       /\ \A d \in Clients : d # c => pending'[d] = pending[d] /\ sent'[d] = sent[d]
  BY <1>1, <1>2, <1>5 DEF SendType
<1>15. PlayerType' /\ leaving' \subseteq Chunks BY <1>1 DEF PlayerType, playerVars
<1>16. ClientInv'
  <2> SUFFICES ASSUME NEW d \in Clients PROVE ClientGood(d)'
    BY DEF ClientInv
  <2>1. ClientGood(d) BY <1>1 DEF ClientInv
  <2>2. CASE d # c BY <1>13, <1>14, <2>1, <2>2, GoodFrame DEF playerVars
  <2>3. CASE d = c
    <3>1. \A j \in Chunks : copy'[c][j] # NotReady <=> j \in sent'[c]
      BY <1>3, <1>7, <1>11, <1>13, <1>14 DEF ClientGood
    <3>2. /\ at[c] \in Centers /\ center[c] \in Centers
          /\ Range(pending[c]) = Range(Rings[center[c]]) \ sent[c]
          /\ sent[c] \subseteq Range(Rings[center[c]])
      BY <1>3 DEF ClientGood
    <3>3. /\ Range(pending'[c]) = Range(Rings[center[c]]) \ sent'[c]
          /\ sent'[c] \subseteq Range(Rings[center[c]])
      BY <1>5, <1>14, <3>2
    <3> QED BY <1>3, <1>5, <1>14, <2>3, <3>1, <3>2, <3>3 DEF ClientGood, Playing, playerVars
  <2> QED BY <2>2, <2>3
<1>17. CopyIsCurrent'
  <2> SUFFICES ASSUME NEW d \in Clients, NEW j \in sent'[d], NEW b \in Locals
               PROVE  Current(d, j, b)'
    BY DEF CopyIsCurrent, Current
  <2>1. CASE d = c /\ j = k BY <1>7, <1>11, <1>13, <2>1 DEF Current
  <2>2. CASE d # c \/ j # k
    <3>1. j \in sent[d] /\ j \in Chunks BY <1>1, <1>14, <2>2 DEF SendType
    <3>2. Current(d, j, b) BY <1>1, <3>1, CurrentCopies
    <3>3. OnItsWay(d, << j, b >>) => OnItsWay(d, << j, b >>)' BY <1>6, StillOnItsWay
    <3>4. copy'[d][j] = copy[d][j] BY <1>11, <1>13, <2>2, <3>1
    <3>5. << j, b >> \in behind[d] => << j, b >> \in behind'[d] BY <1>13, <2>2
    <3> QED BY <3>2, <3>3, <3>4, <3>5 DEF Current
  <2> QED BY <2>1, <2>2
<1> QED BY <1>6, <1>9, <1>10, <1>13, <1>14, <1>15, <1>16, <1>17, InvParts

\* A chunk that is not READY is requested and waits at the end of the queue.
LEMMA RequeueHolds ==
    ASSUME StreamInv, NEW c \in Clients, turn # NoTurn, turn.c = c, turn.stage = "send",
           turn.scans # ScanLimit, pending[c] # << >>, Requeue(c, Head(pending[c])),
           UNCHANGED << store, view, waiting, updates, leaving, pc, captured, todo, near,
                        playerVars, center, acks >>
    PROVE  StreamInv'
<1> DEFINE k == Head(pending[c])
           list == Append(Tail(pending[c]), k)
<1>1. /\ WorldType /\ leaving \subseteq Chunks /\ TickType /\ PlayerType /\ SendType /\ CopyType
      /\ WorldInv /\ TickInv /\ ClientInv /\ CopyIsCurrent
  BY InvParts
<1>2. /\ Request(k) /\ pending' = [pending EXCEPT ![c] = list]
      /\ turn' = [turn EXCEPT !.scans = @ + 1]
      /\ UNCHANGED << sent, pinged, copy, behind >>
  BY DEF Requeue
<1>3. Playing(c) /\ ClientGood(c) /\ pending[c] \in Seq(Chunks)
  BY <1>1 DEF TickInv, ClientInv, SendType
<1>4. IsInjective(pending[c]) BY <1>3 DEF ClientGood
<1>5. list \in Seq(Chunks) /\ IsInjective(list) /\ Range(list) = Range(pending[c])
  BY <1>3, <1>4, RequeueList
<1>6. k \in Chunks BY <1>3, TailElements
<1> HIDE DEF k, list
<1>7. WorldType' /\ WorldInv' /\ Queued' = Queued
  <2>1. loading' \subseteq Chunks BY <1>1, <1>2, <1>6 DEF Request, WorldType
  <2> QED BY <1>1, <2>1 DEF WorldType, WorldInv, Queued, Shown
<1>8. /\ turn' \in Stages /\ turn' # NoTurn /\ turn'.c = c /\ turn'.stage = "send"
  <2>1. turn \in Stages BY <1>1 DEF TickType
  <2>2. turn.scans \in 0 .. ScanLimit /\ ScanLimit \in Nat
    BY <2>1, StreamAssumption DEF Stages
  <2>3. turn.scans + 1 \in 0 .. ScanLimit BY <2>2
  <2> QED BY <1>2, <2>1, <2>3 DEF Stages, NoTurn
<1>9. TickType' BY <1>1, <1>8 DEF TickType
<1>10. TickInv' BY <1>1, <1>3, <1>7, <1>8 DEF TickInv, Playing, playerVars
<1>11. /\ SendType' /\ pending'[c] = list
       /\ \A d \in Clients : d # c => pending'[d] = pending[d]
  BY <1>1, <1>2, <1>5 DEF SendType
<1>12. PlayerType' /\ CopyType' /\ leaving' \subseteq Chunks
  BY <1>1, <1>2 DEF PlayerType, playerVars, CopyType
<1>13. ClientInv'
  <2> SUFFICES ASSUME NEW d \in Clients PROVE ClientGood(d)'
    BY DEF ClientInv
  <2>1. ClientGood(d) BY <1>1 DEF ClientInv
  <2>2. CASE d # c BY <1>2, <1>11, <2>1, <2>2, GoodFrame DEF playerVars
  <2>3. CASE d = c BY <1>2, <1>5, <1>11, <2>1, <2>3 DEF ClientGood, Playing, playerVars
  <2> QED BY <2>2, <2>3
<1>14. CopyIsCurrent'
  <2>1. ASSUME NEW d \in Clients, NEW j \in Chunks, NEW b \in Locals, OnItsWay(d, << j, b >>)
        PROVE  OnItsWay(d, << j, b >>)'
    BY <1>7, <2>1, StillOnItsWay
  <2> QED BY <1>1, <1>2, <2>1, CopiesFrame
<1> QED BY <1>7, <1>9, <1>10, <1>11, <1>12, <1>13, <1>14, InvParts

\* One chunk of the stream.
LEMMA StreamOneHolds ==
    ASSUME StreamInv, StreamOne
    PROVE  StreamInv'
<1> DEFINE c == turn.c
<1>1. /\ turn # NoTurn /\ turn.stage = "send" /\ pending[c] # << >>
      /\ turn.sends # ChunksPerTick /\ turn.scans # ScanLimit
      /\ SendChunk(c, Head(pending[c])) \/ Requeue(c, Head(pending[c]))
      /\ UNCHANGED << store, view, waiting, updates, leaving, pc, captured, todo, near,
                      playerVars, center, acks >>
  BY DEF StreamOne, Streaming, Exhausted
<1>2. c \in Clients
  <2>1. TickType BY InvParts
  <2> QED BY <1>1, <2>1 DEF TickType, Stages
<1> QED BY <1>1, <1>2, SendHolds, RequeueHolds

\* The stream part of a turn ends.
LEMMA StreamEndHolds ==
    ASSUME StreamInv, StreamEnd
    PROVE  StreamInv'
<1>1. TickType /\ TickInv /\ leaving \subseteq Chunks BY InvParts
<1>2. /\ turn' = NoTurn
      /\ UNCHANGED << worldVars, pc, captured, todo, near, playerVars, streamVars, clientVars >>
  BY DEF StreamEnd
<1>3. UNCHANGED Queued BY <1>2 DEF worldVars, Queued
<1>4. TickType' BY <1>1, <1>2 DEF TickType
<1>5. TickInv' BY <1>1, <1>2, <1>3 DEF TickInv, Playing, playerVars
<1>6. ASSUME NEW d \in Clients, NEW k \in Chunks, NEW b \in Locals, OnItsWay(d, << k, b >>)
      PROVE  OnItsWay(d, << k, b >>)'
  BY <1>2, <1>3, <1>6, StillOnItsWay DEF worldVars
<1> QED BY <1>1, <1>2, <1>4, <1>5, <1>6, StageHolds DEF worldVars

-----------------------------------------------------------------------------
(* The theorems.                                                           *)

\* At the start nobody plays, and nothing is shown or queued.
LEMMA StreamBegins == Init => StreamInv
<1> SUFFICES ASSUME Init PROVE StreamInv
  OBVIOUS
<1> USE StreamAssumption
<1>1. WorldType BY DEF Init, BSInit, WorldType, Blocks, NoUpdates
<1>2. TickType BY DEF Init, TickType
<1>3. PlayerType BY DEF Init, PlayerType
<1>4. SendType
  <2>1. << >> \in Seq(Chunks) OBVIOUS
  <2> QED BY <2>1 DEF Init, SendType
<1>5. CopyType BY DEF Init, CopyType, NoCopies
<1>6. Queued = {}
  <2>1. \A k \in Chunks, b \in Locals : updates[k][b] = NoUpdate BY DEF Init, NoUpdates
  <2> QED BY <2>1 DEF Queued, Places
<1>7. \A k \in Chunks : ~Shown(k) BY DEF Init, BSInit, Shown
<1>8. WorldInv BY <1>6, <1>7 DEF WorldInv
<1>9. TickInv BY DEF Init, TickInv
<1>10. ClientInv
  <2> SUFFICES ASSUME NEW c \in Clients PROVE ClientGood(c)
    BY DEF ClientInv
  <2>1. state[c] = "out" /\ sent[c] = {} /\ acks[c] = {} /\ copy[c] = NoCopies BY DEF Init
  <2> QED BY <2>1 DEF ClientGood, Playing, NoCopies
<1>11. CopyIsCurrent BY DEF Init, CopyIsCurrent
<1>12. leaving \subseteq Chunks BY DEF Init
<1> QED BY <1>1, <1>2, <1>3, <1>4, <1>5, <1>8, <1>9, <1>10, <1>11, <1>12, InvParts

\* A step that changes nothing.
LEMMA StreamStutters ==
    ASSUME StreamInv, UNCHANGED vars
    PROVE  StreamInv'
<1>1. UNCHANGED << worldVars, tickVars, playerVars, streamVars, clientVars >> BY DEF vars
<1>2. loading' \subseteq Chunks /\ UNCHANGED << store, view, waiting, updates, leaving >>
  BY <1>1, InvParts DEF worldVars, WorldType
<1> QED BY <1>1, <1>2, RequestHolds

\* No step breaks the invariant.
LEMMA StreamStepKeeps == StreamInv /\ [Next]_vars => StreamInv'
<1> SUFFICES ASSUME StreamInv, [Next]_vars PROVE StreamInv'
  OBVIOUS
<1>1. CASE World
  <2>1. PICK k \in Chunks :
           \/ ChunkReady(k) \/ ChunkGone(k)
           \/ \E b \in Locals, s \in States : FurnaceTick(k, b, s) \/ Command(k, b, s)
    BY <1>1 DEF World
  <2> QED BY <2>1, ChunkReadyHolds, ChunkGoneHolds, FurnaceTickHolds, CommandHolds
<1>2. CASE TickLoop
  BY <1>2, DrainEndHolds, CaptureHolds, ClientsEndHolds, ClearHolds, StreamOneHolds, StreamEndHolds
     DEF TickLoop
<1>3. ASSUME NEW c \in Clients, Client(c) PROVE StreamInv'
  <2>1. CASE Confirm(c) \/ \E p \in Centers : Move(c, p) BY <2>1, MoveHolds
  <2>2. CASE Pong(c) BY <2>2, PongHolds
  <2>3. CASE Leave(c) BY <2>3, LeaveHolds
  <2>4. CASE \E p \in Centers : Join(c, p) \/ Respawn(c, p) BY <2>4, JoinHolds, RespawnHolds
  <2>5. CASE \E k \in Chunks, b \in Locals :
                Dig(c, k, b) \/ Refuse(c, k, b) \/ \E s \in States \ {Air} : Place(c, k, b, s)
    BY <2>5, DigHolds, RefuseHolds, PlaceHolds
  <2> QED BY <1>3, <2>1, <2>2, <2>3, <2>4, <2>5 DEF Client
<1>4. ASSUME NEW c \in Clients, Turn(c) PROVE StreamInv'
  BY <1>4, TurnBeginHolds, SkipClosingHolds, TurnNoFurnaceHolds, TurnStreamHolds, TurnFurnaceHolds,
     TurnFurnaceGoneHolds DEF Turn
<1>5. CASE UNCHANGED vars BY <1>5, StreamStutters
<1> QED BY <1>1, <1>2, <1>3, <1>4, <1>5 DEF Next

\* The stream, the copies and the tick keep their shape: a turn never sends
\* more than CHUNKS_PER_TICK chunks or looks at more than the scan limit.
THEOREM StreamTypeCorrect == Spec => []TypeOK
<1>1. StreamInv => TypeOK BY DEF StreamInv
<1> QED BY <1>1, StreamBegins, StreamStepKeeps, PTL DEF Spec

\* However chunks load, leave and load again while clients stream, move and
\* respawn, what a client has of a block it was sent is the accepted value, or
\* an update is on its way, or it was left behind in a way that is named.
THEOREM CopyIsCurrentCorrect == Spec => []CopyIsCurrent
<1>1. StreamInv => CopyIsCurrent BY DEF StreamInv
<1> QED BY <1>1, StreamBegins, StreamStepKeeps, PTL DEF Spec

\* rebuild_chunk_stream and chunk_stream_tick forget no chunk in view and send
\* none twice.
THEOREM StreamCoversViewCorrect == Spec => []StreamCoversView
<1>1. StreamInv => StreamCoversView
  <2> SUFFICES ASSUME StreamInv, NEW c \in Clients, Playing(c)
               PROVE  /\ Range(pending[c]) = Range(Rings[center[c]]) \ sent[c]
                      /\ IsInjective(pending[c])
                      /\ sent[c] \subseteq Range(Rings[center[c]])
                      /\ {k \in Chunks : copy[c][k] # NotReady} = sent[c]
    BY DEF StreamCoversView
  <2>1. ClientGood(c) /\ SendType BY InvParts DEF ClientInv
  <2>2. {k \in Chunks : copy[c][k] # NotReady} = sent[c] BY <2>1 DEF ClientGood, SendType
  <2> QED BY <2>1, <2>2 DEF ClientGood
<1> QED BY <1>1, StreamBegins, StreamStepKeeps, PTL DEF Spec

\* Only the beginning of a turn, or the end of the connection, takes what a
\* client waits to have acknowledged.
LEMMA AcksTaken ==
    ASSUME StreamInv, [Next]_vars, NEW c \in Clients, Playing(c)', acks'[c] = {}
    PROVE  acks[c] = {} \/ TurnBegin(c)
<1>1. CopyType /\ PlayerType BY InvParts
<1>2. ASSUME NEW d \in Clients, NEW k, NEW b, Acts(d, k, b) PROVE acks'[c] # {} \/ acks[c] = {}
  BY <1>1, <1>2 DEF Acts, CopyType
<1>3. ASSUME NEW d \in Clients, Leave(d) PROVE acks[c] = {}
  <2>1. d # c BY <1>1, <1>3 DEF Leave, Playing, PlayerType
  <2> QED BY <1>1, <1>3, <2>1 DEF Leave, CopyType
<1>4. ASSUME NEW d \in Clients, TurnBegin(d) PROVE acks[c] = {} \/ TurnBegin(c)
  BY <1>1, <1>4 DEF TurnBegin, CopyType
<1>5. CASE World BY <1>5 DEF World, ChunkReady, ChunkGone, FurnaceTick, Command, clientVars
<1>6. CASE TickLoop
  BY <1>6 DEF TickLoop, DrainEnd, WorldEnd, Capture, ClientsEnd, EvictEnd, Clear, StreamOne, StreamEnd, clientVars
<1>7. ASSUME NEW d \in Clients, Client(d) PROVE acks[c] = {}
  <2>1. CASE Confirm(d) \/ Pong(d) \/ \E p \in Centers : Join(d, p) \/ Move(d, p) \/ Respawn(d, p)
    BY <2>1 DEF Confirm, Pong, Join, Move, Respawn, clientVars
  <2>2. CASE Leave(d) BY <2>2, <1>3
  <2>3. CASE \E k \in Chunks, b \in Locals :
                Dig(d, k, b) \/ Refuse(d, k, b) \/ \E s \in States \ {Air} : Place(d, k, b, s)
    BY <2>3, <1>2 DEF Dig, Refuse, Place
  <2> QED BY <1>7, <2>1, <2>2, <2>3 DEF Client
<1>8. ASSUME NEW d \in Clients, Turn(d) PROVE acks[c] = {} \/ TurnBegin(c)
  BY <1>4, <1>8 DEF Turn, SkipClosing, TurnNoFurnace, TurnStream, TurnFurnace, TurnFurnaceGone,
     clientVars
<1>9. CASE UNCHANGED vars BY <1>9 DEF vars, clientVars
<1> QED BY <1>5, <1>6, <1>7, <1>8, <1>9 DEF Next

\* A block change is acknowledged only after the client was sent what became
\* of it (flush_queued_block_changed_ack_packet), if its chunk is READY then
\* and the client was not left behind.
THEOREM AckSeesReadyCorrect == Spec => AckSeesReady
<1> DEFINE Seen == \A c \in Clients : Playing(c)' /\ acks'[c] = {} =>
                      AckedAfter(c, {q \in acks[c] \ behind'[c] : Shown(q[1])})
<1>1. StreamInv /\ StreamInv' /\ [Next]_vars => [Seen]_vars
  <2> SUFFICES ASSUME StreamInv, StreamInv', [Next]_vars, NEW c \in Clients, Playing(c)', acks'[c] = {},
                      NEW q \in acks[c], q \notin behind'[c], Shown(q[1]), q[1] \in sent'[c]
               PROVE  copy'[c][q[1]][q[2]] = store'[q[1]][q[2]]
    BY DEF AckedAfter
  <2>1. TurnBegin(c) BY AcksTaken
  <2>2. /\ pc = "clients" /\ todo' = todo \ {c}
        /\ UNCHANGED << worldVars, pc, captured >>
    BY <2>1 DEF TurnBegin
  <2>3. TickInv /\ WorldInv /\ ClientInv BY InvParts
  <2>4. PICK k \in Chunks, b \in Locals \ FurnaceLocals : q = << k, b >>
    BY <2>3 DEF ClientInv, ClientGood
  <2>5. Current(c, k, b)' BY <2>4, InvParts DEF CopyIsCurrent, Current
  <2>6. waiting'[k] = {} BY <2>2, <2>3, <2>4 DEF WorldInv, worldVars
  <2>7. ~OnItsWay(c, << k, b >>)'
    <3>1. Queued' = Queued BY <2>2 DEF Queued, worldVars
    <3>2. << k, b >> \in Queued => << k, b >> \in captured BY <2>2, <2>3, <2>4 DEF TickInv
    <3> QED BY <2>2, <2>6, <3>1, <3>2 DEF OnItsWay
  <2> QED BY <2>4, <2>5, <2>7 DEF Current
<1>2. AckSeesReady <=> [][Seen]_vars BY DEF AckSeesReady
<1> QED BY <1>1, <1>2, StreamBegins, StreamStepKeeps, PTL DEF Spec

\* Stream uses the world as the block store that World implements
\* (ImplementsBlockStoreCorrect): what its steps do to store and view are
\* writes, chunks that are shown and chunks that are hidden.
THEOREM StreamUsesBlockStore == Spec => BSSpec
<1>1. Init => BSInit BY DEF Init
<1>2. ASSUME NEW k \in Chunks, NEW b \in Locals, NEW s \in States, SetBlock(k, b, s)
      PROVE  BSNext
  BY <1>2 DEF SetBlock, BSNext
<1>3. [Next]_vars => [BSNext]_bsVars
  <2> SUFFICES ASSUME [Next]_vars PROVE BSNext \/ UNCHANGED bsVars
    OBVIOUS
  <2>1. CASE World
    <3>1. PICK k \in Chunks :
             \/ ChunkReady(k) \/ ChunkGone(k)
             \/ \E b \in Locals, s \in States : FurnaceTick(k, b, s) \/ Command(k, b, s)
      BY <2>1 DEF World
    <3>2. CASE ChunkReady(k) \/ ChunkGone(k) BY <3>2 DEF ChunkReady, ChunkGone, BSNext
    <3>3. CASE \E b \in Locals, s \in States : FurnaceTick(k, b, s) \/ Command(k, b, s)
      BY <1>2, <3>3 DEF FurnaceTick, Command, bsVars
    <3> QED BY <3>1, <3>2, <3>3
  <2>2. CASE TickLoop
    BY <2>2 DEF TickLoop, DrainEnd, WorldEnd, Capture, ClientsEnd, EvictEnd, Clear, StreamOne, StreamEnd,
                worldVars, bsVars
  <2>3. ASSUME NEW c \in Clients, Client(c) PROVE BSNext \/ UNCHANGED bsVars
    <3>1. CASE Confirm(c) \/ Pong(c) \/ Leave(c) \/ \E p \in Centers : Join(c, p) \/ Move(c, p) \/ Respawn(c, p)
      BY <3>1 DEF Confirm, Pong, Leave, Join, Move, Respawn, worldVars, bsVars
    <3>2. CASE \E k \in Chunks, b \in Locals :
                  Dig(c, k, b) \/ Refuse(c, k, b) \/ \E s \in States \ {Air} : Place(c, k, b, s)
      BY <1>2, <3>2, StreamAssumption DEF Dig, Refuse, Place, bsVars
    <3> QED BY <2>3, <3>1, <3>2 DEF Client
  <2>4. ASSUME NEW c \in Clients, Turn(c) PROVE BSNext \/ UNCHANGED bsVars
    BY <1>2, <2>4 DEF Turn, TurnBegin, SkipClosing, TurnNoFurnace, TurnStream, TurnFurnace, TurnFurnaceGone,
     worldVars, bsVars
  <2>5. CASE UNCHANGED vars BY <2>5 DEF vars, worldVars, bsVars
  <2> QED BY <2>1, <2>2, <2>3, <2>4, <2>5 DEF Next
<1> QED BY <1>1, <1>3, PTL DEF Spec, BSSpec
===============================================================================
