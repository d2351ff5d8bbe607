---------------------------- MODULE WorldProofs -----------------------------
(***************************************************************************)
(* Theorems about World.tla, for every value of its constants.  First      *)
(* facts about the operators it is built from: the job queue, the chunk    *)
(* list and its cursor, the replay of pending writes.  None of them        *)
(* mentions a variable.  Then types, list and loads; last, that no         *)
(* accepted write is lost and that World implements BlockStore.            *)
(***************************************************************************)
EXTENDS World, ListLemmas

-----------------------------------------------------------------------------
(* The job queue, the chunk list and its cursor.                           *)

\* job_queue_push_locked puts the new job somewhere among the old ones, whose
\* order it keeps.
LEMMA PushJobElements ==
    ASSUME NEW q \in Seq(Job), NEW j \in Job
    PROVE  /\ PushJob(q, j) \in Seq(Job)
           /\ \E i \in 1 .. Len(q) + 1 :
                 /\ Len(PushJob(q, j)) = Len(q) + 1
                 /\ PushJob(q, j)[i] = j
                 /\ \A n \in 1 .. i - 1 : PushJob(q, j)[n] = q[n]
                 /\ \A n \in i + 1 .. Len(q) + 1 : PushJob(q, j)[n] = q[n - 1]
<1> DEFINE S == {0} \cup {i \in DOMAIN q : q[i].prio >= j.prio}
<1>1. S \in SUBSET (0 .. Len(q)) /\ S # {} /\ Len(q) \in Nat
  OBVIOUS
<1>2. Max(S) \in 0 .. Len(q)
  BY <1>1, MaxOfBounded
<1> DEFINE i == 1 + Max(S)
<1>3. i \in 1 .. Len(q) + 1
  BY <1>1, <1>2
<1>4. PushJob(q, j) = InsertAt(q, i, j)
  BY DEF PushJob
<1> HIDE DEF i, S
<1>5. /\ InsertAt(q, i, j) \in Seq(Job)
      /\ Len(InsertAt(q, i, j)) = Len(q) + 1
      /\ InsertAt(q, i, j)[i] = j
      /\ \A n \in 1 .. i - 1 : InsertAt(q, i, j)[n] = q[n]
      /\ \A n \in i + 1 .. Len(q) + 1 : InsertAt(q, i, j)[n] = q[n - 1]
  BY <1>3, InsertElements
<1> QED BY <1>3, <1>4, <1>5

NoRepeats(list) == \A i, j \in DOMAIN list : list[i] = list[j] => i = j

\* chunk_list_remove: the last entry moves to the free position.
LEMMA ListRemoveElements ==
    ASSUME NEW list \in Seq(Chunks), NoRepeats(list), NEW n \in DOMAIN list
    PROVE  /\ ListIndex(list, list[n]) = n
           /\ ListRemove(list, list[n]) \in Seq(Chunks)
           /\ Len(ListRemove(list, list[n])) = Len(list) - 1
           /\ \A j \in 1 .. Len(list) - 1 :
                 ListRemove(list, list[n])[j] = IF j = n THEN list[Len(list)] ELSE list[j]
<1>1. ListIndex(list, list[n]) = n
  BY DEF ListIndex, NoRepeats
<1>2. list # << >> /\ Len(list) \in Nat /\ n \in 1 .. Len(list) /\ DOMAIN list = 1 .. Len(list)
  OBVIOUS
<1>3. Last(list) = list[Len(list)] /\ Last(list) \in Chunks
  BY <1>2, FrontElements
<1> DEFINE l == [list EXCEPT ![n] = Last(list)]
<1>4. /\ l \in Seq(Chunks) /\ Len(l) = Len(list) /\ l # << >>
      /\ \A j \in 1 .. Len(list) : l[j] = IF j = n THEN Last(list) ELSE list[j]
  BY <1>2, <1>3
<1> HIDE DEF l
<1>5. ListRemove(list, list[n]) = Front(l)
  BY <1>1 DEF ListRemove, l
<1>6. /\ Front(l) \in Seq(Chunks)
      /\ Len(Front(l)) = Len(l) - 1
      /\ \A j \in 1 .. Len(l) - 1 : Front(l)[j] = l[j]
  BY <1>4, FrontElements
<1>7. \A j \in 1 .. Len(list) - 1 : Front(l)[j] = IF j = n THEN list[Len(list)] ELSE list[j]
  BY <1>2, <1>3, <1>4, <1>6
<1> QED BY <1>1, <1>4, <1>5, <1>6, <1>7

\* ... so that exactly the removed chunk leaves the list and none repeats.
LEMMA ListRemoveContents ==
    ASSUME NEW list \in Seq(Chunks), NoRepeats(list), NEW n \in DOMAIN list
    PROVE  LET short == ListRemove(list, list[n])
           IN  /\ NoRepeats(short)
               /\ \A c \in Chunks :
                     (\E j \in DOMAIN short : short[j] = c)
                       <=> c # list[n] /\ (\E j \in DOMAIN list : list[j] = c)
<1> DEFINE short == ListRemove(list, list[n])
           m == Len(list)
<1>1. /\ m \in Nat /\ DOMAIN list = 1 .. m /\ n \in 1 .. m
      /\ \A i, j \in 1 .. m : list[i] = list[j] => i = j
  BY DEF NoRepeats
<1>2. /\ DOMAIN short = 1 .. m - 1
      /\ \A j \in 1 .. m - 1 : short[j] = IF j = n THEN list[m] ELSE list[j]
  BY ListRemoveElements
<1> HIDE DEF short, m
<1>3. NoRepeats(short)
  BY <1>1, <1>2 DEF NoRepeats
<1>4. ASSUME NEW c \in Chunks, NEW j \in 1 .. m - 1, short[j] = c
      PROVE  c # list[n] /\ \E i \in 1 .. m : list[i] = c
  BY <1>1, <1>2, <1>4
<1>5. ASSUME NEW c \in Chunks, c # list[n], NEW i \in 1 .. m, list[i] = c
      PROVE  \E j \in 1 .. m - 1 : short[j] = c
  <2>1. CASE i = m
    <3>1. n \in 1 .. m - 1 /\ short[n] = c
      BY <1>1, <1>2, <1>5, <2>1
    <3> QED BY <3>1
  <2>2. CASE i # m
    <3>1. i \in 1 .. m - 1 /\ short[i] = c
      BY <1>1, <1>2, <1>5, <2>2
    <3> QED BY <3>1
  <2> QED BY <2>1, <2>2
<1>6. \A c \in Chunks : (\E j \in 1 .. m - 1 : short[j] = c)
                          <=> c # list[n] /\ (\E j \in 1 .. m : list[j] = c)
  BY <1>4, <1>5
<1> QED BY <1>1, <1>2, <1>3, <1>6 DEF short, m

\* chunk_list_remove leaves the save cursor inside the shorter list.
LEMMA CursorInRange ==
    ASSUME NEW cursor \in Nat, NEW i \in Nat, NEW n \in Nat
    PROVE  /\ CursorAfter(cursor, i, n) \in Nat
           /\ CursorAfter(cursor, i, n) = 0 \/ CursorAfter(cursor, i, n) < n
BY DEF CursorAfter

-----------------------------------------------------------------------------
(* Normalisation and replay.                                               *)

\* Normalised blocks are blocks, and normalising them again changes nothing.
LEMMA NormalizedType ==
    ASSUME NEW blocks \in Blocks
    PROVE  /\ Normalized(blocks) \in Blocks
           /\ Normalized(Normalized(blocks)) = Normalized(blocks)
BY StateAssumption DEF Normalized, Blocks

\* Replaying writes over values of V gives values of V or written states.
LEMMA ReplayType ==
    ASSUME NEW V, States \subseteq V, NEW f \in [Locals -> V], NEW q \in Seq(Mod)
    PROVE  Replay(f, q) \in [Locals -> V]
<1> SUFFICES ASSUME NEW b \in Locals, Hits(q, b) # {}
             PROVE  q[Max(Hits(q, b))].state \in States
  BY DEF Replay
<1>1. Hits(q, b) \in SUBSET (0 .. Len(q)) /\ Hits(q, b) \subseteq DOMAIN q /\ Len(q) \in Nat
  BY DEF Hits
<1>2. Max(Hits(q, b)) \in DOMAIN q
  BY <1>1, MaxOfBounded
<1>3. q[Max(Hits(q, b))] \in Mod
  BY <1>2
<1> QED BY <1>3 DEF Mod

\* apply_pending_mods without a pending write changes no block.
LEMMA ReplayNothing ==
    ASSUME NEW V, NEW f \in [Locals -> V]
    PROVE  Replay(f, << >>) = f
BY DEF Replay, Hits

\* One write more: the block it names takes its value.
LEMMA ReplayAppend ==
    ASSUME NEW f, NEW q \in Seq(Mod), NEW m \in Mod
    PROVE  Replay(f, Append(q, m)) = [Replay(f, q) EXCEPT ![m.b] = m.state]
<1> DEFINE r == Append(q, m)
           n == Len(q) + 1
<1>1. /\ Len(q) \in Nat /\ DOMAIN q = 1 .. Len(q) /\ DOMAIN r = 1 .. n /\ r[n] = m
      /\ \A i \in 1 .. Len(q) : r[i] = q[i]
  OBVIOUS
<1> HIDE DEF r
<1>2. ASSUME NEW b \in Locals, b # m.b
      PROVE  /\ Hits(r, b) = Hits(q, b)
             /\ Hits(q, b) # {} => r[Max(Hits(r, b))] = q[Max(Hits(q, b))]
  <2>1. Hits(r, b) = Hits(q, b)
    BY <1>1, <1>2 DEF Hits
  <2>2. Hits(q, b) \in SUBSET (0 .. Len(q)) /\ Hits(q, b) \subseteq 1 .. Len(q)
    BY <1>1 DEF Hits
  <2>3. Hits(q, b) # {} => Max(Hits(q, b)) \in 1 .. Len(q)
    BY <1>1, <2>2, MaxOfBounded
  <2> QED BY <1>1, <2>1, <2>3
<1>3. Hits(r, m.b) # {} /\ r[Max(Hits(r, m.b))] = m
  <2>1. Hits(r, m.b) \in SUBSET (0 .. n) /\ n \in Hits(r, m.b) /\ n \in Nat
    BY <1>1 DEF Hits
  <2>2. Max(Hits(r, m.b)) = n
    <3>1. Max(Hits(r, m.b)) \in 0 .. n /\ Max(Hits(r, m.b)) >= n
      BY <2>1, MaxOfBounded
    <3> QED BY <3>1, <2>1
  <2> QED BY <1>1, <2>1, <2>2
<1>4. Replay(f, r) = [b \in Locals |-> IF b = m.b THEN m.state ELSE Replay(f, q)[b]]
  BY <1>2, <1>3 DEF Replay
<1>5. [Replay(f, q) EXCEPT ![m.b] = m.state]
        = [b \in Locals |-> IF b = m.b THEN m.state ELSE Replay(f, q)[b]]
  BY DEF Replay, Mod
<1> QED BY <1>4, <1>5 DEF r

-----------------------------------------------------------------------------
(* The entries of a queue that are for one chunk.                          *)

Single(S) == \E x \in S : S = {x}

\* A pushed job adds one place to the jobs of its chunk and none to the others'.
LEMMA KeyedPush ==
    ASSUME NEW q \in Seq(Job), NEW j \in Job, NEW c
    PROVE  LET r == PushJob(q, j)
           IN  /\ c # j.key /\ Keyed(q, c) = {} => Keyed(r, c) = {}
               /\ c # j.key /\ Single(Keyed(q, c)) => Single(Keyed(r, c))
               /\ c = j.key /\ Keyed(q, c) = {} => Single(Keyed(r, c))
<1> DEFINE r == PushJob(q, j)
           m == Len(q)
<1>1. m \in Nat /\ DOMAIN q = 1 .. m /\ r \in Seq(Job)
  BY PushJobElements
<1>2. PICK n \in 1 .. m + 1 :
         /\ Len(r) = m + 1 /\ r[n] = j
         /\ \A i \in 1 .. n - 1 : r[i] = q[i]
         /\ \A i \in n + 1 .. m + 1 : r[i] = q[i - 1]
  BY PushJobElements
<1>3. DOMAIN r = 1 .. m + 1
  BY <1>1, <1>2
<1> HIDE DEF r, m
<1>4. ASSUME NEW i \in Keyed(r, c), i # n
      PROVE  (IF i < n THEN i ELSE i - 1) \in Keyed(q, c)
  BY <1>1, <1>2, <1>3, <1>4 DEF Keyed
<1>5. ASSUME NEW i \in Keyed(q, c)
      PROVE  (IF i < n THEN i ELSE i + 1) \in Keyed(r, c) \ {n}
  BY <1>1, <1>2, <1>3 DEF Keyed
<1>6. n \in Keyed(r, c) <=> c = j.key
  BY <1>2, <1>3 DEF Keyed
<1>7. ASSUME c # j.key, Keyed(q, c) = {} PROVE Keyed(r, c) = {}
  BY <1>4, <1>6, <1>7
<1>8. ASSUME c = j.key, Keyed(q, c) = {} PROVE Single(Keyed(r, c))
  BY <1>4, <1>6, <1>8 DEF Single
<1>9. ASSUME c # j.key, Single(Keyed(q, c)) PROVE Single(Keyed(r, c))
  <2>1. PICK x \in Keyed(q, c) : Keyed(q, c) = {x}
    BY <1>9 DEF Single
  <2> DEFINE y == IF x < n THEN x ELSE x + 1
  <2>2. y \in Keyed(r, c)
    BY <1>5
  <2>3. \A i \in Keyed(r, c) : i \in 1 .. m + 1 /\ i # n /\ (IF i < n THEN i ELSE i - 1) = x
    BY <1>3, <1>4, <1>6, <1>9, <2>1 DEF Keyed
  <2>4. \A i \in Keyed(r, c) : i = y
    BY <1>1, <1>2, <2>3
  <2> QED BY <2>2, <2>4 DEF Single
<1> QED BY <1>7, <1>8, <1>9 DEF r

\* A pushed result adds one place to the results of its chunk.
LEMMA KeyedAppend ==
    ASSUME NEW T, NEW q \in Seq(T), NEW e \in T, NEW c
    PROVE  Keyed(Append(q, e), c) =
               IF e.key = c THEN Keyed(q, c) \cup {Len(q) + 1} ELSE Keyed(q, c)
BY DEF Keyed

\* Popping the last job takes one place from the jobs of its chunk.
LEMMA KeyedFront ==
    ASSUME NEW T, NEW q \in Seq(T), q # << >>, NEW c
    PROVE  /\ Keyed(Front(q), c) = Keyed(q, c) \ {Len(q)}
           /\ Len(q) \in Keyed(q, Last(q).key)
           /\ Len(q) \in Keyed(q, c) => c = Last(q).key
<1> DEFINE f == Front(q)
           m == Len(q)
<1>1. /\ m \in Nat /\ m >= 1 /\ DOMAIN q = 1 .. m /\ DOMAIN f = 1 .. m - 1
      /\ \A i \in 1 .. m - 1 : f[i] = q[i]
      /\ Last(q) = q[m]
  BY FrontElements
<1> HIDE DEF f, m
<1>2. Keyed(f, c) = Keyed(q, c) \ {m}
  BY <1>1 DEF Keyed
<1> QED BY <1>1, <1>2 DEF Keyed, f, m

\* Taking the first result takes one place from the results of its chunk.
LEMMA KeyedTail ==
    ASSUME NEW T, NEW q \in Seq(T), q # << >>, NEW c
    PROVE  /\ \A i \in Keyed(Tail(q), c) : i + 1 \in Keyed(q, c) /\ Tail(q)[i] = q[i + 1]
           /\ \A i \in Keyed(q, c) \ {1} : i - 1 \in Keyed(Tail(q), c) /\ Tail(q)[i - 1] = q[i]
           /\ 1 \in Keyed(q, Head(q).key)
           /\ 1 \in Keyed(q, c) => c = Head(q).key
           /\ Keyed(q, c) \subseteq Nat /\ Keyed(Tail(q), c) \subseteq Nat \ {0}
<1> DEFINE t == Tail(q)
           m == Len(q)
<1>1. /\ m \in Nat /\ m >= 1 /\ DOMAIN q = 1 .. m /\ DOMAIN t = 1 .. m - 1
      /\ \A i \in 1 .. m - 1 : t[i] = q[i + 1]
      /\ Head(q) = q[1]
  BY TailElements
<1> HIDE DEF t, m
<1>2. \A i \in Keyed(t, c) : i + 1 \in Keyed(q, c) /\ t[i] = q[i + 1]
  BY <1>1 DEF Keyed
<1>3. \A i \in Keyed(q, c) \ {1} : i - 1 \in Keyed(t, c) /\ t[i - 1] = q[i]
  <2> SUFFICES ASSUME NEW i \in Keyed(q, c) \ {1}
               PROVE  i - 1 \in Keyed(t, c) /\ t[i - 1] = q[i]
    OBVIOUS
  <2>1. i \in 1 .. m /\ q[i].key = c /\ i # 1
    BY <1>1 DEF Keyed
  <2>2. i - 1 \in 1 .. m - 1 /\ t[i - 1] = q[i]
    BY <1>1, <2>1
  <2> QED BY <1>1, <2>1, <2>2 DEF Keyed
<1> QED BY <1>1, <1>2, <1>3 DEF Keyed, t

\* What the results for a chunk hold.
Objects(q, c) == {q[i].obj : i \in Keyed(q, c)}

\* Taking the first result leaves what the results of the other chunks hold.
LEMMA KeyedTailObjects ==
    ASSUME NEW T, NEW q \in Seq(T), q # << >>, NEW t, t = Tail(q), NEW c, c # Head(q).key
    PROVE  Objects(t, c) = Objects(q, c)
<1> DEFINE m == Len(q)
<1>1. /\ m \in Nat /\ m >= 1 /\ DOMAIN q = 1 .. m /\ DOMAIN t = 1 .. m - 1
      /\ \A i \in 1 .. m - 1 : t[i] = q[i + 1]
      /\ Head(q) = q[1]
  BY TailElements
<1> HIDE DEF m
<1>2. \A i \in Keyed(t, c) : i + 1 \in Keyed(q, c) /\ t[i].obj = q[i + 1].obj
  BY <1>1 DEF Keyed
<1>3. ASSUME NEW i \in Keyed(q, c)
      PROVE  \E j \in Keyed(t, c) : t[j].obj = q[i].obj
  <2>1. i \in 1 .. m /\ q[i].key = c /\ i # 1
    <3>1. i \in 1 .. m /\ q[i].key = c
      BY <1>1, <1>3 DEF Keyed
    <3>2. q[1].key # c
      BY <1>1
    <3> QED BY <3>1, <3>2
  <2>2. i - 1 \in 1 .. m - 1 /\ t[i - 1] = q[i]
    <3>1. i - 1 \in 1 .. m - 1 /\ (i - 1) + 1 = i
      BY <1>1, <2>1
    <3> QED BY <1>1, <3>1
  <2>3. i - 1 \in Keyed(t, c)
    BY <1>1, <2>1, <2>2 DEF Keyed
  <2> QED BY <2>2, <2>3
<1>4. ASSUME NEW o \in Objects(t, c) PROVE o \in Objects(q, c)
  <2>1. PICK i \in Keyed(t, c) : o = t[i].obj
    BY Zenon DEF Objects
  <2>2. i + 1 \in Keyed(q, c) /\ o = q[i + 1].obj
    BY <1>2, <2>1
  <2> QED BY <2>2, Zenon DEF Objects
<1>5. ASSUME NEW o \in Objects(q, c) PROVE o \in Objects(t, c)
  <2>1. PICK i \in Keyed(q, c) : o = q[i].obj
    BY Zenon DEF Objects
  <2>2. PICK j \in Keyed(t, c) : o = t[j].obj
    BY <1>3, <2>1
  <2> QED BY <2>2, Zenon DEF Objects
<1> QED BY <1>4, <1>5

\* Taking the head of a queue away.
LEMMA KeyedTailSize ==
    ASSUME NEW T, NEW q \in Seq(T), q # << >>, NEW c
    PROVE  /\ Keyed(q, c) = {} => Keyed(Tail(q), c) = {}
           /\ c # Head(q).key /\ Single(Keyed(q, c)) => Single(Keyed(Tail(q), c))
           /\ c = Head(q).key /\ Single(Keyed(q, c)) => Keyed(Tail(q), c) = {}
           /\ Single(Keyed(q, Head(q).key)) => Keyed(q, Head(q).key) = {1}
<1> DEFINE a == Keyed(q, c)
           b == Keyed(Tail(q), c)
<1>1. /\ \A i \in b : i + 1 \in a /\ i \in Nat \ {0}
      /\ \A i \in a \ {1} : i - 1 \in b /\ i \in Nat
      /\ 1 \in Keyed(q, Head(q).key)
      /\ 1 \in a => c = Head(q).key
  BY KeyedTail
<1> HIDE DEF a, b
<1>2. a = {} => b = {}
  BY <1>1
<1>3. ASSUME c # Head(q).key, Single(a) PROVE Single(b)
  <2>1. PICK x \in a : a = {x}
    BY <1>3 DEF Single
  <2>2. x # 1 /\ x - 1 \in b /\ x \in Nat
    BY <1>1, <1>3, <2>1
  <2>3. \A i \in b : i = x - 1
    BY <1>1, <2>1, <2>2
  <2> QED BY <2>2, <2>3 DEF Single
<1>4. Single(Keyed(q, Head(q).key)) => Keyed(q, Head(q).key) = {1}
  BY <1>1 DEF Single
<1>5. ASSUME c = Head(q).key, Single(a) PROVE b = {}
  <2>1. a = {1}
    BY <1>4, <1>5 DEF a
  <2> QED BY <1>1, <2>1
<1> QED BY <1>2, <1>3, <1>4, <1>5 DEF a, b

-----------------------------------------------------------------------------
(* The chunk map and the chunk list.                                       *)

\* A READY entry, and no other, has a chunk.
ReadyHasChunk == \A k \in Chunks : slot[k] = "ready" <=> chunk[k] # NoChunk

MapType ==
    /\ slot \in [Chunks -> {"absent", "loading", "ready"}]
    /\ chunk \in [Chunks -> ChunkObject \cup {NoChunk}]
    /\ pending \in [Chunks -> Seq(Mod)]
    /\ chunkList \in Seq(Chunks)
    /\ saveCursor \in Nat

MapInv == MapType /\ ListMatchesMap /\ ReadyHasChunk

\* The variables beside the map.
RestType ==
    /\ jobs \in Seq(Job)
    /\ worker \in [Workers -> {Idle, Exited} \cup Reading \cup Loaded]
    /\ done \in Seq(Done)
    /\ updates \in [Chunks -> [Locals -> States \cup {NoUpdate}]]
    /\ disk \in [Chunks -> Blocks \cup {NoFile, Torn}]
    /\ pc \in {"idle", "integrate", "evict", "stopping", "drain", "lastsave", "destroyed"}
    /\ batch \in Seq(Done)
    /\ keep \in SUBSET Chunks
    /\ scan \in Nat
    /\ pc \in {"evict", "lastsave"} => scan # 0
    /\ evicted \in Nat
    /\ accepted \in [Chunks -> Blocks]

\* The two parts of the type invariant together are TypeOK.
LEMMA TypeSplit == MapType /\ RestType => TypeOK
BY DEF TypeOK, MapType, RestType

\* A step that leaves the map alone keeps its invariant.
LEMMA MapUnchanged == MapInv /\ UNCHANGED mapVars => MapInv'
BY DEF MapInv, MapType, ListMatchesMap, ReadyHasChunk, mapVars

\* A READY entry holds a chunk.
LEMMA ReadyChunk ==
    ASSUME MapInv, NEW k \in Chunks, slot[k] = "ready"
    PROVE  /\ chunk[k] \in ChunkObject
           /\ chunk[k].at \in Chunks /\ chunk[k].blocks \in Blocks
           /\ chunk[k].dirty \in BOOLEAN /\ chunk[k].evict \in BOOLEAN
<1>1. chunk[k] \in ChunkObject
  BY DEF MapInv, MapType, ReadyHasChunk
<1> QED BY <1>1 DEF ChunkObject

\* The list holds READY entries, so each of them has a chunk.
LEMMA ListedChunk ==
    ASSUME MapInv, NEW i \in DOMAIN chunkList
    PROVE  /\ chunkList[i] \in Chunks
           /\ slot[chunkList[i]] = "ready"
BY DEF MapInv, MapType, ListMatchesMap

\* Replacing the chunk of a READY entry by another one keeps the map in order.
LEMMA ChunkReplaced ==
    ASSUME MapInv, NEW k \in Chunks, slot[k] = "ready", NEW o \in ChunkObject,
           chunk' = [chunk EXCEPT ![k] = o],
           UNCHANGED << slot, pending, chunkList, saveCursor >>
    PROVE  MapInv'
<1>1. MapType'
  BY DEF MapInv, MapType
<1>2. ListMatchesMap'
  BY DEF MapInv, ListMatchesMap
<1>3. ReadyHasChunk'
  BY NoChunkAssumption DEF MapInv, MapType, ReadyHasChunk
<1> QED BY <1>1, <1>2, <1>3 DEF MapInv

\* chunk_map_remove_key keeps the map in order.
LEMMA RemoveKeyKeepsMap ==
    ASSUME MapInv, NEW k \in Chunks, NEW cur \in Nat,
           cur = 0 \/ cur < Len(chunkList),
           NEW ch \in [Chunks -> ChunkObject \cup {NoChunk}],
           \A c \in Chunks : slot[c] = "ready" <=> ch[c] # NoChunk,
           RemoveKey(k, ch, cur)
    PROVE  MapInv'
<1> USE DEF MapInv, MapType
<1>1. CASE slot[k] # "ready"
  <2>1. /\ slot' = [slot EXCEPT ![k] = "absent"] /\ pending' = [pending EXCEPT ![k] = << >>]
        /\ chunk' = ch /\ saveCursor' = cur /\ chunkList' = chunkList
    BY <1>1 DEF RemoveKey
  <2>2. MapType'
    BY <2>1
  <2>3. ListMatchesMap'
    BY <2>1, <1>1 DEF ListMatchesMap
  <2>4. ReadyHasChunk'
    BY <2>1, <1>1 DEF ReadyHasChunk
  <2> QED BY <2>2, <2>3, <2>4
<1>2. CASE slot[k] = "ready"
  <2>1. PICK n \in DOMAIN chunkList : chunkList[n] = k
    BY <1>2 DEF ListMatchesMap
  <2>2. NoRepeats(chunkList)
    BY DEF ListMatchesMap, NoRepeats
  <2>3. /\ slot' = [slot EXCEPT ![k] = "absent"] /\ pending' = [pending EXCEPT ![k] = << >>]
        /\ chunk' = [ch EXCEPT ![k] = NoChunk]
        /\ chunkList' = ListRemove(chunkList, k)
        /\ saveCursor' = CursorAfter(cur, ListIndex(chunkList, k) - 1, Len(chunkList) - 1)
    BY <1>2 DEF RemoveKey
  <2>4. /\ chunkList' \in Seq(Chunks) /\ Len(chunkList') = Len(chunkList) - 1
        /\ ListIndex(chunkList, k) = n
    BY <2>1, <2>2, <2>3, ListRemoveElements
  <2>5. /\ NoRepeats(chunkList')
        /\ \A c \in Chunks : (\E j \in DOMAIN chunkList' : chunkList'[j] = c)
                               <=> c # k /\ (\E j \in DOMAIN chunkList : chunkList[j] = c)
    BY <2>1, <2>2, <2>3, ListRemoveContents
  <2>6. n - 1 \in Nat /\ Len(chunkList) - 1 \in Nat
    OBVIOUS
  <2>7. saveCursor' \in Nat /\ (saveCursor' = 0 \/ saveCursor' < Len(chunkList'))
    BY <2>3, <2>4, <2>6, CursorInRange
  <2>8. MapType'
    BY <2>3, <2>4, <2>7
  <2>9. ListMatchesMap'
    BY <2>3, <2>5, <2>7 DEF ListMatchesMap, NoRepeats
  <2>10. ReadyHasChunk'
    BY <2>3 DEF ReadyHasChunk
  <2> QED BY <2>8, <2>9, <2>10
<1> QED BY <1>1, <1>2

\* The tick that makes an entry READY appends its chunk to the list.
LEMMA IntegrateKeepsMap ==
    ASSUME MapInv, RestType, NEW k \in Chunks, NEW o \in ChunkObject, Integrate(k, o)
    PROVE  MapInv' /\ updates' \in [Chunks -> [Locals -> States \cup {NoUpdate}]]
<1> DEFINE q == IF o.at = k THEN pending[k] ELSE << >>
           c == [o EXCEPT !.blocks = Replay(o.blocks, q), !.dirty = o.dirty \/ q # << >>]
<1>1. q \in Seq(Mod)
  BY DEF MapInv, MapType
<1>2. o.blocks \in [Locals -> States] /\ o.dirty \in BOOLEAN
  BY DEF ChunkObject, Blocks
<1>3. Replay(o.blocks, q) \in Blocks
  BY <1>1, <1>2, ReplayType DEF Blocks
<1>4. c \in ChunkObject
  BY <1>2, <1>3 DEF ChunkObject
<1>5. /\ slot[k] = "loading" /\ slot' = [slot EXCEPT ![k] = "ready"]
      /\ chunk' = [chunk EXCEPT ![k] = c]
      /\ pending' = [pending EXCEPT ![k] = << >>]
      /\ chunkList' = Append(chunkList, k)
      /\ updates' = [updates EXCEPT ![k] = Replay(updates[k], q)]
      /\ saveCursor' = saveCursor
  BY DEF Integrate
<1>6. updates[k] \in [Locals -> States \cup {NoUpdate}]
  BY DEF RestType
<1>7. Replay(updates[k], q) \in [Locals -> States \cup {NoUpdate}]
  <2>1. States \subseteq States \cup {NoUpdate}
    OBVIOUS
  <2> QED BY <1>1, <1>6, <2>1, ReplayType
<1> HIDE DEF c, q
<1>8. updates' \in [Chunks -> [Locals -> States \cup {NoUpdate}]]
  BY <1>5, <1>7 DEF RestType
<1>9. MapType'
  BY <1>4, <1>5 DEF MapInv, MapType
<1>10. ListMatchesMap'
  <2> DEFINE n == Len(chunkList)
  <2>1. n \in Nat /\ DOMAIN chunkList = 1 .. n
    BY DEF MapInv, MapType
  <2>2. /\ DOMAIN chunkList' = 1 .. n + 1 /\ Len(chunkList') = n + 1
        /\ chunkList'[n + 1] = k
        /\ \A i \in 1 .. n : chunkList'[i] = chunkList[i]
    BY <1>5 DEF MapInv, MapType
  <2> HIDE DEF n
  <2>3. \A j \in Chunks : (\E i \in DOMAIN chunkList' : chunkList'[i] = j)
                             <=> j = k \/ (\E i \in DOMAIN chunkList : chunkList[i] = j)
    BY <2>1, <2>2
  <2>4. \A j \in Chunks : slot'[j] = "ready" <=> j = k \/ slot[j] = "ready"
    BY <1>5 DEF MapInv, MapType
  <2>5. \A i \in DOMAIN chunkList : chunkList[i] # k
    BY <1>5 DEF MapInv, ListMatchesMap
  <2>6. \A i, j \in DOMAIN chunkList' : chunkList'[i] = chunkList'[j] => i = j
    BY <2>1, <2>2, <2>5 DEF MapInv, ListMatchesMap
  <2>7. saveCursor' = 0 \/ saveCursor' < Len(chunkList')
    BY <1>5, <2>1, <2>2 DEF MapInv, MapType, ListMatchesMap, n
  <2> QED BY <2>3, <2>4, <2>6, <2>7 DEF MapInv, ListMatchesMap
<1>11. ReadyHasChunk'
  BY <1>4, <1>5, NoChunkAssumption DEF MapInv, MapType, ReadyHasChunk
<1> QED BY <1>8, <1>9, <1>10, <1>11 DEF MapInv

\* chunk_map_put_loading on an entry that is not READY keeps the map invariant.
LEMMA RequestLoadKeepsMap ==
    ASSUME MapInv, RestType, NEW k \in Chunks, NEW prio \in Priorities,
           slot[k] # "ready", RequestLoad(k, prio),
           UNCHANGED << chunk, chunkList, saveCursor >>,
           pending' \in [Chunks -> Seq(Mod)]
    PROVE  MapInv' /\ jobs' \in Seq(Job)
<1>1. [key |-> k, prio |-> prio] \in Job
  BY DEF Job
<1>2. jobs' \in Seq(Job)
  BY <1>1, PushJobElements DEF RequestLoad, RestType
<1>3. MapInv'
  BY DEF MapInv, MapType, ListMatchesMap, ReadyHasChunk, RequestLoad
<1> QED BY <1>2, <1>3

\* Writing one file leaves blocks, no file or a torn file everywhere.
LEMMA WriteFileType ==
    ASSUME RestType, NEW k \in Chunks, NEW blocks \in Blocks, NEW outcome \in WriteOutcomes
    PROVE  WriteFile(disk, k, blocks, outcome) \in [Chunks -> Blocks \cup {NoFile, Torn}]
BY FileAssumption DEF RestType, WriteFile

\* What the next load of a chunk will find is normalised blocks.
LEMMA ImageType ==
    ASSUME RestType, NEW k \in Chunks
    PROVE  /\ Image(k) \in Blocks
           /\ Readable(k) => disk[k] \in Blocks
<1>1. Readable(k) => disk[k] \in Blocks
  BY DEF RestType, Readable
<1> QED BY <1>1, NormalizedType, StateAssumption DEF Image

\* A worker that holds a chunk holds a chunk object.
LEMMA LoadedType ==
    ASSUME RestType, NEW w \in Workers
    PROVE  /\ worker[w].pc = "read" => worker[w] \in Reading
           /\ worker[w].pc \in {"resave", "push"} => worker[w] \in Loaded
BY DEF RestType, Idle, Exited, Reading, Loaded

-----------------------------------------------------------------------------
(* One lemma per action: it keeps the map in order and every type.         *)

TypeInv == MapInv /\ RestType

\* mc_world_create establishes the type invariant.
LEMMA InitType == Init => TypeInv
<1> SUFFICES ASSUME Init PROVE TypeInv
  OBVIOUS
<1>1. disk \in [Chunks -> Blocks \cup {NoFile, Torn}]
  BY FileAssumption DEF Init
<1>2. \A k \in Chunks : Readable(k) => disk[k] \in Blocks
  BY <1>1 DEF Readable
<1>3. \A k \in Chunks : Image(k) \in Blocks
  BY <1>2, NormalizedType, StateAssumption DEF Image
<1>4. accepted \in [Chunks -> Blocks]
  BY <1>3 DEF Init
<1>5. RestType
  BY <1>1, <1>4 DEF Init, RestType, Idle
<1>6. MapInv
  BY DEF Init, MapInv, MapType, ListMatchesMap, ReadyHasChunk
<1> QED BY <1>5, <1>6 DEF TypeInv

\* mc_world_get_chunk keeps the types.
LEMMA GetChunkType ==
    ASSUME TypeInv, NEW k \in Chunks, NEW prio \in Priorities, GetChunk(k, prio)
    PROVE  TypeInv'
<1>1. MapInv' /\ jobs' \in Seq(Job)
  BY RequestLoadKeepsMap DEF TypeInv, GetChunk, MapInv, MapType
<1> QED BY <1>1 DEF TypeInv, RestType, GetChunk, loopVars

\* mc_world_set_block keeps the types.
LEMMA SetBlockType ==
    ASSUME TypeInv, NEW k \in Chunks, NEW b \in Locals, NEW s \in States, SetBlock(k, b, s)
    PROVE  TypeInv'
<1> DEFINE v == Norm[s]
<1>1. v \in States
  BY StateAssumption
<1> HIDE DEF v
<1>2. SetReady(k, b, v) \/ SetPending(k, b, v)
  BY DEF SetBlock, v
<1>3. accepted' \in [Chunks -> Blocks]
  BY <1>1 DEF TypeInv, RestType, SetBlock, Blocks, v
<1>4. CASE SetReady(k, b, v)
  <2>1. CASE chunk[k].blocks[b] = v
    BY <1>3, <1>4, <2>1, MapUnchanged
    DEF TypeInv, RestType, SetReady, SetBlock, mapVars, loopVars
  <2>2. CASE chunk[k].blocks[b] # v
    <3> DEFINE o == [chunk[k] EXCEPT !.blocks[b] = v, !.dirty = TRUE]
    <3>1. o \in ChunkObject
      BY <1>1, <1>4, ReadyChunk DEF TypeInv, SetReady, ChunkObject, Blocks
    <3>2. chunk' = [chunk EXCEPT ![k] = o]
      BY <1>4, <2>2 DEF SetReady, TypeInv, MapInv, MapType
    <3> HIDE DEF o
    <3>3. MapInv'
      BY <1>4, <3>1, <3>2, ChunkReplaced DEF TypeInv, SetReady, SetBlock
    <3>4. updates' \in [Chunks -> [Locals -> States \cup {NoUpdate}]]
      <4> DEFINE u == [updates[k] EXCEPT ![b] = v]
      <4>1. u \in [Locals -> States \cup {NoUpdate}]
        BY <1>1 DEF TypeInv, RestType
      <4>2. updates' = [updates EXCEPT ![k] = u]
        BY <1>4, <2>2 DEF SetReady, TypeInv, RestType
      <4> HIDE DEF u
      <4> QED BY <4>1, <4>2 DEF TypeInv, RestType
    <3> QED BY <1>3, <1>4, <3>3, <3>4 DEF TypeInv, RestType, SetReady, SetBlock, loopVars
  <2> QED BY <2>1, <2>2
<1>5. CASE SetPending(k, b, v)
  <2>1. pending' \in [Chunks -> Seq(Mod)]
    <3>1. [b |-> b, state |-> v] \in Mod
      BY <1>1 DEF Mod
    <3>2. Append(pending[k], [b |-> b, state |-> v]) \in Seq(Mod)
      BY <3>1 DEF TypeInv, MapInv, MapType
    <3> QED BY <1>5, <3>2 DEF TypeInv, MapInv, MapType, SetPending
  <2>2. MapInv' /\ jobs' \in Seq(Job)
    <3>1. CASE slot[k] = "absent"
      BY <1>5, <2>1, <3>1, RequestLoadKeepsMap, BoundAssumption DEF TypeInv, SetPending, SetBlock
    <3>2. CASE slot[k] # "absent"
      BY <1>5, <2>1, <3>2
      DEF TypeInv, SetPending, SetBlock, MapInv, MapType, ListMatchesMap, ReadyHasChunk, RestType
    <3> QED BY <3>1, <3>2
  <2> QED BY <1>3, <1>5, <2>2 DEF TypeInv, RestType, SetPending, SetBlock, loopVars
<1> QED BY <1>2, <1>4, <1>5

\* mc_world_mark_chunk_dirty_at keeps the types.
LEMMA MarkDirtyType ==
    ASSUME TypeInv, NEW k \in Chunks, MarkDirty(k)
    PROVE  TypeInv'
<1> DEFINE o == [chunk[k] EXCEPT !.dirty = TRUE]
<1>1. o \in ChunkObject
  BY ReadyChunk DEF TypeInv, MarkDirty, ChunkObject
<1>2. chunk' = [chunk EXCEPT ![k] = o]
  BY DEF MarkDirty, TypeInv, MapInv, MapType
<1> HIDE DEF o
<1>3. MapInv'
  BY <1>1, <1>2, ChunkReplaced DEF TypeInv, MarkDirty
<1> QED BY <1>3 DEF TypeInv, RestType, MarkDirty, loadVars, loopVars

\* save_chunk_to_store, whoever calls it on a READY chunk.
LEMMA SavedType ==
    ASSUME TypeInv, NEW k \in Chunks, slot[k] = "ready",
           NEW outcome \in WriteOutcomes, Saved(k, outcome),
           UNCHANGED << slot, pending, chunkList, saveCursor >>
    PROVE  MapInv' /\ disk' \in [Chunks -> Blocks \cup {NoFile, Torn}]
<1> DEFINE o == [chunk[k] EXCEPT !.dirty = (outcome # "ok")]
<1>1. o \in ChunkObject
  BY ReadyChunk DEF TypeInv, ChunkObject
<1>2. chunk' = [chunk EXCEPT ![k] = o]
  BY DEF Saved, TypeInv, MapInv, MapType
<1> HIDE DEF o
<1>3. MapInv'
  BY <1>1, <1>2, ChunkReplaced DEF TypeInv
<1>4. disk' \in [Chunks -> Blocks \cup {NoFile, Torn}]
  BY ReadyChunk, WriteFileType DEF TypeInv, Saved
<1> QED BY <1>3, <1>4

\* mc_world_flush_block keeps the types.
LEMMA FlushBlockType ==
    ASSUME TypeInv, NEW k \in Chunks, FlushBlock(k)
    PROVE  TypeInv'
<1>1. MapInv' /\ disk' \in [Chunks -> Blocks \cup {NoFile, Torn}]
  BY SavedType DEF FlushBlock
<1> QED BY <1>1 DEF TypeInv, RestType, FlushBlock, loadVars, loopVars

\* mc_world_clear_updates keeps the types.
LEMMA ClearUpdatesType == TypeInv /\ ClearUpdates => TypeInv'
BY MapUnchanged DEF TypeInv, RestType, ClearUpdates, loadVars, loopVars

\* A worker taking a job keeps the types.
LEMMA WorkerPopType ==
    ASSUME TypeInv, NEW w \in Workers, WorkerPop(w)
    PROVE  TypeInv'
<1>1. Last(jobs) \in Job /\ Front(jobs) \in Seq(Job)
  BY FrontElements DEF TypeInv, RestType, WorkerPop
<1>2. [pc |-> "read", key |-> Last(jobs).key] \in Reading
  BY <1>1 DEF Job, Reading
<1> QED BY <1>1, <1>2, MapUnchanged DEF TypeInv, RestType, WorkerPop, loopVars

\* A worker reading or generating a chunk keeps the types.
LEMMA WorkerReadType ==
    ASSUME TypeInv, NEW w \in Workers, WorkerRead(w)
    PROVE  TypeInv'
<1> DEFINE k       == worker[w].key
           decoded == Readable(k) /\ k \notin Unreadable \cup Undecodable
           zeroed  == Readable(k) /\ k \in Undecodable \ Unreadable
           raw     == IF decoded THEN disk[k] ELSE Terrain
           changed == Normalized(raw) # raw
           obj     == [at |-> IF zeroed THEN Origin ELSE k, blocks |-> Normalized(raw),
                       dirty |-> changed \/ ~decoded, evict |-> FALSE]
           next    == [pc |-> IF changed THEN "resave" ELSE "push", key |-> k, obj |-> obj]
<1>1. k \in Chunks
  BY LoadedType DEF TypeInv, WorkerRead, Reading
<1>2. raw \in Blocks
  BY <1>1, ImageType, StateAssumption DEF TypeInv
<1>3. Normalized(raw) \in Blocks
  BY <1>2, NormalizedType
<1>4. obj \in ChunkObject
  BY <1>1, <1>3, ChunkAssumption DEF ChunkObject
<1>5. worker' = [worker EXCEPT ![w] = next]
  BY DEF WorkerRead
<1> HIDE DEF obj, changed
<1>6. next \in Loaded
  BY <1>1, <1>4 DEF Loaded
<1> HIDE DEF next, raw, decoded, zeroed, k
<1>7. UNCHANGED << mapVars, jobs, done, updates, disk, loopVars, accepted >>
  BY DEF WorkerRead
<1>8. MapInv'
  BY <1>7, MapUnchanged DEF TypeInv
<1> QED BY <1>5, <1>6, <1>7, <1>8 DEF TypeInv, RestType, loopVars

\* A worker saving a rewritten chunk keeps the types.
LEMMA WorkerResaveType ==
    ASSUME TypeInv, NEW w \in Workers, WorkerResave(w)
    PROVE  TypeInv'
<1>1. worker[w] \in Loaded
  BY LoadedType DEF TypeInv, WorkerResave
<1>2. PICK outcome \in WriteOutcomes :
         /\ disk' = WriteFile(disk, worker[w].obj.at, worker[w].obj.blocks, outcome)
         /\ worker' = [worker EXCEPT ![w].pc = "push", ![w].obj.dirty = (outcome # "ok")]
  BY DEF WorkerResave
<1>3. /\ worker[w].obj \in ChunkObject
      /\ worker[w].obj.at \in Chunks /\ worker[w].obj.blocks \in Blocks
  BY <1>1 DEF Loaded, ChunkObject
<1>4. disk' \in [Chunks -> Blocks \cup {NoFile, Torn}]
  BY <1>2, <1>3, WriteFileType DEF TypeInv
<1> DEFINE next == [worker[w] EXCEPT !.pc = "push", !.obj.dirty = (outcome # "ok")]
<1>5. next \in Loaded
  BY <1>1 DEF Loaded, ChunkObject
<1>6. worker' = [worker EXCEPT ![w] = next]
  BY <1>2 DEF TypeInv, RestType
<1> HIDE DEF next
<1> QED BY <1>4, <1>5, <1>6, MapUnchanged DEF TypeInv, RestType, WorkerResave, loopVars

\* A worker handing over its chunk keeps the types.
LEMMA WorkerPushType ==
    ASSUME TypeInv, NEW w \in Workers, WorkerPush(w)
    PROVE  TypeInv'
<1>1. worker[w] \in Loaded
  BY LoadedType DEF TypeInv, WorkerPush
<1>2. [key |-> worker[w].key, obj |-> worker[w].obj] \in Done
  BY <1>1 DEF Loaded, Done
<1>3. done' \in Seq(Done)
  BY <1>2 DEF TypeInv, RestType, WorkerPush
<1> QED BY <1>3, MapUnchanged DEF TypeInv, RestType, WorkerPush, loopVars

\* A worker leaving its loop keeps the types.
LEMMA WorkerExitType ==
    ASSUME TypeInv, NEW w \in Workers, WorkerExit(w)
    PROVE  TypeInv'
BY MapUnchanged DEF TypeInv, RestType, WorkerExit, loopVars

\* Draining the done queue keeps the types.
LEMMA TickBeginType == TypeInv /\ TickBegin => TypeInv'
BY MapUnchanged DEF TypeInv, RestType, TickBegin

\* Integrating or discarding one result keeps the types.
LEMMA IntegrateOneType == TypeInv /\ IntegrateOne => TypeInv'
<1> SUFFICES ASSUME TypeInv, IntegrateOne PROVE TypeInv'
  OBVIOUS
<1>1. Head(batch) \in Done /\ batch' \in Seq(Done)
  BY TailElements DEF TypeInv, RestType, IntegrateOne
<1>2. Head(batch).key \in Chunks /\ Head(batch).obj \in ChunkObject
  BY <1>1 DEF Done
<1>3. CASE Integrate(Head(batch).key, Head(batch).obj)
  <2>1. MapInv' /\ updates' \in [Chunks -> [Locals -> States \cup {NoUpdate}]]
    BY <1>2, <1>3, IntegrateKeepsMap DEF TypeInv
  <2> QED BY <1>1, <2>1 DEF TypeInv, RestType, IntegrateOne, loadVars
<1>4. CASE Discard(Head(batch).key)
  BY <1>1, <1>4, MapUnchanged DEF TypeInv, RestType, IntegrateOne, loadVars, Discard
<1> QED BY <1>3, <1>4 DEF IntegrateOne

\* The one save attempt of a tick keeps the types.
LEMMA SaveAttemptType ==
    ASSUME TypeInv, NEW k \in Chunks, slot[k] = "ready", NEW next \in Nat,
           next = 0 \/ next < Len(chunkList),
           NEW outcome \in WriteOutcomes, SaveAttempt(k, next, outcome)
    PROVE  MapInv' /\ disk' \in [Chunks -> Blocks \cup {NoFile, Torn}]
<1> DEFINE o  == [chunk[k] EXCEPT !.dirty = (outcome # "ok")]
           ch == [chunk EXCEPT ![k].dirty = (outcome # "ok")]
<1>1. o \in ChunkObject /\ chunk[k].at \in Chunks
  BY ReadyChunk DEF TypeInv, ChunkObject
<1>2. ch = [chunk EXCEPT ![k] = o]
  BY DEF TypeInv, MapInv, MapType
<1> HIDE DEF o
<1>3. disk' \in [Chunks -> Blocks \cup {NoFile, Torn}]
  BY ReadyChunk, WriteFileType DEF TypeInv, SaveAttempt
<1>4. CASE outcome = "ok" /\ chunk[k].evict
  <2>1. RemoveKey(chunk[k].at, ch, next)
    BY <1>4 DEF SaveAttempt
  <2> HIDE DEF ch
  <2>2. /\ ch \in [Chunks -> ChunkObject \cup {NoChunk}]
        /\ \A c \in Chunks : slot[c] = "ready" <=> ch[c] # NoChunk
    BY <1>1, <1>2, NoChunkAssumption DEF TypeInv, MapInv, MapType, ReadyHasChunk
  <2>3. MapInv
    BY DEF TypeInv
  <2>4. MapInv'
    BY <1>1, <2>1, <2>2, <2>3, RemoveKeyKeepsMap
  <2> QED BY <1>3, <2>4
<1>5. CASE ~(outcome = "ok" /\ chunk[k].evict)
  <2>1. chunk' = ch /\ saveCursor' = next /\ UNCHANGED << slot, pending, chunkList >>
    BY <1>5 DEF SaveAttempt
  <2> HIDE DEF ch
  <2>2. MapType' /\ ListMatchesMap'
    BY <1>1, <1>2, <2>1 DEF TypeInv, MapInv, MapType, ListMatchesMap
  <2>3. ReadyHasChunk'
    BY <1>1, <1>2, <2>1, NoChunkAssumption DEF TypeInv, MapInv, MapType, ReadyHasChunk
  <2> QED BY <1>3, <2>2, <2>3 DEF MapInv
<1> QED BY <1>4, <1>5

\* The position TickSave picks is one of the list, and so is the next one.
LEMMA SavePosition ==
    ASSUME TypeInv, NEW cursor \in Nat, DirtyOffsets(cursor) # {}
    PROVE  LET i == Position(cursor, Min(DirtyOffsets(cursor)))
           IN  /\ i + 1 \in DOMAIN chunkList
               /\ (i + 1) % Len(chunkList) \in Nat
               /\ (i + 1) % Len(chunkList) < Len(chunkList)
<1> DEFINE n == Len(chunkList)
           d == Min(DirtyOffsets(cursor))
<1>1. n \in Nat /\ DOMAIN chunkList = 1 .. n
  BY DEF TypeInv, MapInv, MapType
<1>2. DirtyOffsets(cursor) \subseteq 0 .. n - 1
  BY DEF DirtyOffsets
<1>3. n > 0
  BY <1>1, <1>2
<1>4. DirtyOffsets(cursor) \in SUBSET Nat
  BY <1>1, <1>2
<1>5. d \in DirtyOffsets(cursor)
  BY <1>4, MinOfNat
<1>6. d \in Nat
  BY <1>4, <1>5
<1> HIDE DEF d, n
<1>7. (cursor + d) % n \in 0 .. n - 1
  BY <1>1, <1>3, <1>6
<1>8. Position(cursor, d) = (cursor + d) % n
  BY DEF Position, n
<1>9. (Position(cursor, d) + 1) % n \in 0 .. n - 1 /\ Position(cursor, d) + 1 \in 1 .. n
  BY <1>1, <1>3, <1>7, <1>8
<1> QED BY <1>1, <1>9 DEF n, d

\* The save part of a tick keeps the types.
LEMMA TickSaveType == TypeInv /\ TickSave => TypeInv'
<1> SUFFICES ASSUME TypeInv, TickSave PROVE TypeInv'
  OBVIOUS
<1> DEFINE cursor == IF saveCursor >= Len(chunkList) THEN 0 ELSE saveCursor
<1>1. cursor \in Nat /\ (cursor = 0 \/ cursor < Len(chunkList))
  BY DEF TypeInv, MapInv, MapType
<1>2. CASE DirtyOffsets(cursor) = {}
  <2>1. saveCursor' = cursor /\ UNCHANGED << slot, chunk, pending, chunkList, disk >>
    BY <1>2 DEF TickSave
  <2> HIDE DEF cursor
  <2>2. MapInv'
    BY <1>1, <2>1 DEF TypeInv, MapInv, MapType, ListMatchesMap, ReadyHasChunk
  <2> QED BY <2>1, <2>2 DEF TypeInv, RestType, TickSave, loadVars
<1>3. CASE DirtyOffsets(cursor) # {}
  <2> DEFINE i == Position(cursor, Min(DirtyOffsets(cursor)))
  <2>1. PICK outcome \in WriteOutcomes :
           SaveAttempt(chunkList[i + 1], (i + 1) % Len(chunkList), outcome)
    BY <1>3 DEF TickSave
  <2>2. /\ i + 1 \in DOMAIN chunkList
        /\ (i + 1) % Len(chunkList) \in Nat
        /\ (i + 1) % Len(chunkList) < Len(chunkList)
    BY <1>1, <1>3, SavePosition
  <2> HIDE DEF i
  <2>3. chunkList[i + 1] \in Chunks /\ slot[chunkList[i + 1]] = "ready"
    BY <2>2, ListedChunk DEF TypeInv
  <2>4. MapInv' /\ disk' \in [Chunks -> Blocks \cup {NoFile, Torn}]
    BY <2>1, <2>2, <2>3, SaveAttemptType
  <2> QED BY <2>4 DEF TypeInv, RestType, TickSave, loadVars
<1> QED BY <1>2, <1>3

\* Starting an eviction pass keeps the types.
LEMMA EvictBeginType ==
    ASSUME TypeInv, NEW near \in SUBSET Chunks, EvictBegin(near)
    PROVE  TypeInv'
BY MapUnchanged DEF TypeInv, RestType, EvictBegin, loadVars

\* One turn of the eviction loop keeps the types.
LEMMA EvictStepType == TypeInv /\ EvictStep => TypeInv'
<1> SUFFICES ASSUME TypeInv, EvictStep PROVE TypeInv'
  OBVIOUS
<1> DEFINE k == chunkList[scan]
<1>1. scan \in DOMAIN chunkList
  BY DEF EvictStep, TypeInv, RestType, MapInv, MapType
<1>2. k \in Chunks /\ slot[k] = "ready" /\ chunk[k] \in ChunkObject /\ chunk[k].at \in Chunks
  BY <1>1, ListedChunk, ReadyChunk DEF TypeInv
<1> HIDE DEF k
<1>3. ASSUME NEW o \in ChunkObject, chunk' = [chunk EXCEPT ![k] = o],
             UNCHANGED << slot, pending, chunkList, saveCursor, evicted >>, scan' = scan + 1
      PROVE  TypeInv'
  <2>1. MapInv'
    BY <1>2, <1>3, ChunkReplaced DEF TypeInv
  <2> QED BY <1>3, <2>1 DEF TypeInv, RestType, EvictStep, loadVars
<1>4. CASE EvictSkip(k)
  <2>1. CASE chunk' = [chunk EXCEPT ![k].evict = FALSE]
    <3> DEFINE o == [chunk[k] EXCEPT !.evict = FALSE]
    <3>1. o \in ChunkObject /\ chunk' = [chunk EXCEPT ![k] = o]
      BY <1>2, <2>1 DEF ChunkObject, TypeInv, MapInv, MapType
    <3> QED BY <1>3, <1>4, <3>1 DEF EvictSkip
  <2>2. CASE chunk' = [chunk EXCEPT ![k].evict = TRUE]
    <3> DEFINE o == [chunk[k] EXCEPT !.evict = TRUE]
    <3>1. o \in ChunkObject /\ chunk' = [chunk EXCEPT ![k] = o]
      BY <1>2, <2>2 DEF ChunkObject, TypeInv, MapInv, MapType
    <3> QED BY <1>3, <1>4, <3>1 DEF EvictSkip
  <2>3. CASE UNCHANGED chunk
    <3>1. MapInv'
      BY <1>4, <2>3, MapUnchanged DEF TypeInv, EvictSkip, mapVars
    <3> QED BY <1>4, <3>1 DEF TypeInv, RestType, EvictStep, EvictSkip, loadVars
  <2> QED BY <1>4, <2>1, <2>2, <2>3 DEF EvictSkip
<1>5. CASE EvictNow(k)
  <2>1. RemoveKey(chunk[k].at, chunk, saveCursor) /\ MapInv
    BY <1>5 DEF EvictNow, TypeInv
  <2>2. /\ saveCursor \in Nat /\ (saveCursor = 0 \/ saveCursor < Len(chunkList))
        /\ chunk \in [Chunks -> ChunkObject \cup {NoChunk}]
        /\ \A c \in Chunks : slot[c] = "ready" <=> chunk[c] # NoChunk
    BY DEF TypeInv, MapInv, MapType, ListMatchesMap, ReadyHasChunk
  <2>3. MapInv'
    BY <1>2, <2>1, <2>2, RemoveKeyKeepsMap
  <2> QED BY <1>5, <2>3 DEF TypeInv, RestType, EvictStep, EvictNow, loadVars
<1> QED BY <1>4, <1>5 DEF EvictStep, k

\* Leaving the eviction loop keeps the types.
LEMMA EvictEndType == TypeInv /\ EvictEnd => TypeInv'
BY MapUnchanged DEF TypeInv, RestType, EvictEnd, loadVars

\* The steps of mc_world_destroy between its loops keep the types.
LEMMA DestroyLoopType ==
    ASSUME TypeInv, DestroyBegin \/ DestroyJoined \/ DestroyDrained \/ DestroyEnd
    PROVE  TypeInv'
<1>1. MapInv'
  BY MapUnchanged DEF TypeInv, DestroyBegin, DestroyJoined, DestroyDrained, DestroyEnd
<1>2. CASE DestroyBegin
  BY <1>1, <1>2 DEF TypeInv, RestType, DestroyBegin, loadVars
<1>3. CASE DestroyJoined
  BY <1>1, <1>3 DEF TypeInv, RestType, DestroyJoined, loadVars
<1>4. CASE DestroyDrained
  BY <1>1, <1>4 DEF TypeInv, RestType, DestroyDrained, loadVars
<1>5. CASE DestroyEnd
  BY <1>1, <1>5 DEF TypeInv, RestType, DestroyEnd, loadVars
<1> QED BY <1>2, <1>3, <1>4, <1>5

\* One turn of the last save keeps the types.
LEMMA DestroySaveType == TypeInv /\ DestroySave => TypeInv'
<1> SUFFICES ASSUME TypeInv, DestroySave PROVE TypeInv'
  OBVIOUS
<1> DEFINE k == chunkList[scan]
<1>1. scan \in DOMAIN chunkList
  BY DEF DestroySave, TypeInv, RestType, MapInv, MapType
<1>2. k \in Chunks /\ slot[k] = "ready"
  BY <1>1, ListedChunk DEF TypeInv
<1>3. CASE chunk[k].dirty
  <2>1. PICK outcome \in WriteOutcomes : Saved(k, outcome)
    BY <1>3 DEF DestroySave
  <2>2. MapInv' /\ disk' \in [Chunks -> Blocks \cup {NoFile, Torn}]
    BY <1>2, <2>1, SavedType DEF DestroySave
  <2> QED BY <2>2 DEF TypeInv, RestType, DestroySave, loadVars
<1>4. CASE ~chunk[k].dirty
  BY <1>4, MapUnchanged DEF TypeInv, RestType, DestroySave, loadVars, mapVars
<1> QED BY <1>3, <1>4

\* Every step keeps the types and the list in step with the map.
LEMMA NextType == TypeInv /\ [Next]_vars => TypeInv'
<1> SUFFICES ASSUME TypeInv, [Next]_vars PROVE TypeInv'
  OBVIOUS
<1>1. CASE Caller
  BY <1>1, GetChunkType, SetBlockType, MarkDirtyType, FlushBlockType DEF Caller
<1>2. CASE \E w \in Workers : Worker(w)
  BY <1>2, WorkerPopType, WorkerReadType, WorkerResaveType, WorkerPushType, WorkerExitType
  DEF Worker
<1>3. CASE Tick
  BY <1>3, TickBeginType, IntegrateOneType, TickSaveType, ClearUpdatesType DEF Tick
<1>4. CASE Evict
  BY <1>4, EvictBeginType, EvictStepType, EvictEndType DEF Evict
<1>5. CASE Destroy
  BY <1>5, DestroyLoopType, DestroySaveType DEF Destroy
<1>6. CASE UNCHANGED vars
  BY <1>6, MapUnchanged DEF vars, TypeInv, RestType, loadVars, loopVars
<1> QED BY <1>1, <1>2, <1>3, <1>4, <1>5, <1>6 DEF Next, Stopped

\* The types and the list invariant hold in every reachable state.
LEMMA TypeInvariant == Spec => []TypeInv
BY InitType, NextType, PTL DEF Spec

\* Every variable keeps its type.
THEOREM TypeCorrect == Spec => []TypeOK
<1>1. TypeInv => TypeOK
  BY TypeSplit DEF TypeInv, MapInv
<1> QED BY <1>1, TypeInvariant, PTL

\* chunk_list, its swap-removal and the save cursor never fall out of step
\* with the map, whatever is loaded, saved, evicted or fails to decode.
THEOREM ListCorrect == Spec => []ListMatchesMap
<1>1. TypeInv => ListMatchesMap
  BY DEF TypeInv, MapInv
<1> QED BY <1>1, TypeInvariant, PTL

-----------------------------------------------------------------------------
(* That a chunk is loaded by one job at a time (OneLoader of World.tla),   *)
(* with the invariant it needs.  It holds for worlds whose chunk files,    *)
(* when they inflate, also decode (Undecodable = {}); MCWorldOverwritten   *)
(* shows what the others do.                                               *)

-----------------------------------------------------------------------------
(* Where the load of a chunk is.                                           *)

OneLoad(k) ==
    \/ /\ Single(Keyed(jobs, k)) /\ BusyOn(k) = {}
       /\ Keyed(done, k) = {} /\ Keyed(batch, k) = {}
    \/ /\ Keyed(jobs, k) = {} /\ Single(BusyOn(k))
       /\ Keyed(done, k) = {} /\ Keyed(batch, k) = {}
    \/ /\ Keyed(jobs, k) = {} /\ BusyOn(k) = {}
       /\ Single(Keyed(done, k)) /\ Keyed(batch, k) = {}
    \/ /\ Keyed(jobs, k) = {} /\ BusyOn(k) = {}
       /\ Keyed(done, k) = {} /\ Single(Keyed(batch, k))

NoLoad(k) ==
    /\ Keyed(jobs, k) = {} /\ BusyOn(k) = {}
    /\ Keyed(done, k) = {} /\ Keyed(batch, k) = {}

\* A LOADING entry has one load, and only the integration loops have a batch.
LoadInv ==
    /\ \A k \in Chunks : IF slot[k] = "loading" THEN OneLoad(k) ELSE NoLoad(k)
    /\ pc \notin {"integrate", "drain"} => batch = << >>

\* A step that changes no queue, worker or entry moves no load.
LEMMA LoadFrame ==
    ASSUME LoadInv, UNCHANGED << jobs, worker, done, batch >>,
           \A k \in Chunks : slot'[k] = "loading" <=> slot[k] = "loading",
           pc' \notin {"integrate", "drain"} => batch = << >>
    PROVE  LoadInv'
<1>1. ASSUME NEW k \in Chunks PROVE (OneLoad(k)' <=> OneLoad(k)) /\ (NoLoad(k)' <=> NoLoad(k))
  BY DEF OneLoad, NoLoad, BusyOn, Busy
<1> QED BY <1>1 DEF LoadInv

\* mc_world_get_chunk and mc_world_set_block push a job for an absent entry.
LEMMA RequestKeepsLoads ==
    ASSUME TypeInv, LoadInv, NEW k \in Chunks, NEW prio \in Priorities,
           slot[k] = "absent", RequestLoad(k, prio),
           UNCHANGED << worker, done, batch, pc >>
    PROVE  LoadInv'
<1> DEFINE j == [key |-> k, prio |-> prio]
<1>1. j \in Job /\ j.key = k
  BY DEF Job
<1>2. jobs \in Seq(Job) /\ jobs' = PushJob(jobs, j)
  BY DEF RequestLoad, TypeInv, RestType
<1>3. \A c \in Chunks : BusyOn(c)' = BusyOn(c)
  BY DEF BusyOn, Busy
<1> HIDE DEF j
<1>4. ASSUME NEW c \in Chunks
      PROVE  /\ c # k /\ Keyed(jobs, c) = {} => Keyed(jobs', c) = {}
             /\ c # k /\ Single(Keyed(jobs, c)) => Single(Keyed(jobs', c))
             /\ c = k /\ Keyed(jobs, c) = {} => Single(Keyed(jobs', c))
  BY <1>1, <1>2, KeyedPush
<1>5. ASSUME NEW c \in Chunks, c # k
      PROVE  IF slot'[c] = "loading" THEN OneLoad(c)' ELSE NoLoad(c)'
  <2>1. slot'[c] = slot[c]
    BY <1>5 DEF RequestLoad, TypeInv, MapInv, MapType
  <2> QED BY <1>3, <1>4, <1>5, <2>1 DEF LoadInv, OneLoad, NoLoad
<1>6. slot'[k] = "loading" /\ OneLoad(k)'
  BY <1>3, <1>4 DEF LoadInv, OneLoad, NoLoad, RequestLoad, TypeInv, MapInv, MapType
<1> QED BY <1>5, <1>6 DEF LoadInv

\* A worker taking a job takes its load over from the queue.
LEMMA PopKeepsLoads ==
    ASSUME TypeInv, LoadInv, NEW w \in Workers, WorkerPop(w)
    PROVE  LoadInv'
<1>1. jobs \in Seq(Job) /\ jobs # << >> /\ jobs' = Front(jobs) /\ worker[w] = Idle
  BY DEF WorkerPop, TypeInv, RestType
<1>3. PICK k \in Chunks : k = Last(jobs).key
  <2>1. Last(jobs) \in Job
    BY <1>1, FrontElements
  <2> QED BY <2>1 DEF Job
<1>2. \A c : /\ Keyed(jobs', c) = Keyed(jobs, c) \ {Len(jobs)}
             /\ Len(jobs) \in Keyed(jobs, k)
             /\ Len(jobs) \in Keyed(jobs, c) => c = k
  BY <1>1, <1>3, KeyedFront
<1>4. worker' = [worker EXCEPT ![w] = [pc |-> "read", key |-> k]]
  BY <1>3 DEF WorkerPop
<1>5. \A c \in Chunks : BusyOn(c)' = IF c = k THEN BusyOn(c) \cup {w} ELSE BusyOn(c)
  BY <1>1, <1>4 DEF BusyOn, Busy, Idle, TypeInv, RestType
<1>6. UNCHANGED << slot, done, batch, pc >>
  BY DEF WorkerPop, mapVars, loopVars
<1>7. ASSUME NEW c \in Chunks, c # k
      PROVE  IF slot'[c] = "loading" THEN OneLoad(c)' ELSE NoLoad(c)'
  <2>1. Keyed(jobs', c) = Keyed(jobs, c)
    BY <1>2, <1>7
  <2> QED BY <1>5, <1>6, <1>7, <2>1 DEF LoadInv, OneLoad, NoLoad
<1>8. slot'[k] = "loading" /\ OneLoad(k)'
  <2>1. slot[k] = "loading" /\ OneLoad(k)
    BY <1>2, <1>3 DEF LoadInv, NoLoad
  <2>2. /\ Single(Keyed(jobs, k)) /\ BusyOn(k) = {}
        /\ Keyed(done, k) = {} /\ Keyed(batch, k) = {}
    BY <1>2, <2>1 DEF OneLoad
  <2>3. Keyed(jobs', k) = {} /\ BusyOn(k)' = {w}
    BY <1>2, <1>3, <1>5, <2>2 DEF Single
  <2> QED BY <1>6, <2>1, <2>2, <2>3 DEF OneLoad, Single
<1> QED BY <1>6, <1>7, <1>8 DEF LoadInv

\* What WorkerResave does to the worker that holds the chunk.
LEMMA ResaveStep ==
    ASSUME TypeInv, NEW w \in Workers, WorkerResave(w)
    PROVE  /\ worker[w] \in Loaded /\ worker[w].pc = "resave"
           /\ \E outcome \in WriteOutcomes :
                 /\ disk' = WriteFile(disk, worker[w].obj.at, worker[w].obj.blocks, outcome)
                 /\ worker' = [worker EXCEPT ![w] =
                       [worker[w] EXCEPT !.pc = "push", !.obj.dirty = (outcome # "ok")]]
<1>1. worker[w] \in Loaded /\ worker[w].pc = "resave"
  BY LoadedType DEF TypeInv, WorkerResave
<1>2. PICK outcome \in WriteOutcomes :
         /\ disk' = WriteFile(disk, worker[w].obj.at, worker[w].obj.blocks, outcome)
         /\ worker' = [worker EXCEPT ![w].pc = "push", ![w].obj.dirty = (outcome # "ok")]
  BY DEF WorkerResave
<1>3. worker' = [worker EXCEPT ![w] =
                   [worker[w] EXCEPT !.pc = "push", !.obj.dirty = (outcome # "ok")]]
  BY <1>2 DEF TypeInv, RestType
<1> QED BY <1>1, <1>2, <1>3

\* Reading and saving again keep the worker busy on the same chunk.
LEMMA BusyKeepsLoads ==
    ASSUME TypeInv, LoadInv, NEW w \in Workers, WorkerRead(w) \/ WorkerResave(w)
    PROVE  LoadInv'
<1>1. \A c \in Chunks : BusyOn(c)' = BusyOn(c)
  <2>1. CASE WorkerRead(w)
    BY <2>1 DEF WorkerRead, BusyOn, Busy, TypeInv, RestType
  <2>2. CASE WorkerResave(w)
    <3>1. /\ worker[w].pc = "resave" /\ worker'[w].pc = "push"
          /\ worker'[w].key = worker[w].key
          /\ \A v \in Workers : v # w => worker'[v] = worker[v]
      <4>1. PICK outcome \in WriteOutcomes :
               worker' = [worker EXCEPT ![w] =
                  [worker[w] EXCEPT !.pc = "push", !.obj.dirty = (outcome # "ok")]]
        BY <2>2, ResaveStep
      <4>2. worker'[w] = [worker[w] EXCEPT !.pc = "push", !.obj.dirty = (outcome # "ok")]
        BY <4>1 DEF TypeInv, RestType
      <4>3. worker[w] \in Loaded /\ worker[w].pc = "resave"
        BY <2>2, ResaveStep
      <4>4. worker'[w].pc = "push" /\ worker'[w].key = worker[w].key
        BY <4>2, <4>3 DEF Loaded
      <4> QED BY <4>1, <4>3, <4>4 DEF TypeInv, RestType
    <3> QED BY <3>1 DEF BusyOn, Busy
  <2> QED BY <2>1, <2>2
<1>2. UNCHANGED << slot, jobs, done, batch, pc >>
  BY DEF WorkerRead, WorkerResave, mapVars, loopVars
<1> QED BY <1>1, <1>2 DEF LoadInv, OneLoad, NoLoad

\* A worker handing over its chunk hands its load over to the done queue.
LEMMA PushKeepsLoads ==
    ASSUME TypeInv, LoadInv, NEW w \in Workers, WorkerPush(w)
    PROVE  LoadInv'
<1>1. worker[w] \in Loaded
  BY LoadedType DEF TypeInv, WorkerPush
<1>0. PICK k \in Chunks : k = worker[w].key
  BY <1>1 DEF Loaded
<1> DEFINE e == [key |-> k, obj |-> worker[w].obj]
<1>2. e \in Done /\ e.key = k
  BY <1>0, <1>1 DEF Loaded, Done
<1>3. done' = Append(done, e) /\ done \in Seq(Done) /\ worker' = [worker EXCEPT ![w] = Idle]
  BY <1>0 DEF WorkerPush, TypeInv, RestType
<1>4. w \in BusyOn(k)
  BY <1>0 DEF WorkerPush, BusyOn, Busy
<1> HIDE DEF e
<1>5. \A c \in Chunks :
         Keyed(done', c) = IF c = k THEN Keyed(done, c) \cup {Len(done) + 1} ELSE Keyed(done, c)
  BY <1>2, <1>3, KeyedAppend
<1>6. \A c \in Chunks : BusyOn(c)' = BusyOn(c) \ {w}
  BY <1>3 DEF BusyOn, Busy, Idle, TypeInv, RestType
<1>7. \A c \in Chunks : c # k => w \notin BusyOn(c)
  BY <1>0 DEF BusyOn
<1>8. UNCHANGED << slot, jobs, batch, pc >>
  BY DEF WorkerPush, mapVars, loopVars
<1>9. ASSUME NEW c \in Chunks, c # k
      PROVE  IF slot'[c] = "loading" THEN OneLoad(c)' ELSE NoLoad(c)'
  <2>1. BusyOn(c)' = BusyOn(c) /\ Keyed(done', c) = Keyed(done, c)
    BY <1>5, <1>6, <1>7, <1>9
  <2> QED BY <1>8, <2>1 DEF LoadInv, OneLoad, NoLoad
<1>10. slot'[k] = "loading" /\ OneLoad(k)'
  <2>1. slot[k] = "loading" /\ OneLoad(k)
    BY <1>2, <1>4 DEF LoadInv, NoLoad
  <2>2. /\ Keyed(jobs, k) = {} /\ Single(BusyOn(k))
        /\ Keyed(done, k) = {} /\ Keyed(batch, k) = {}
    BY <1>4, <2>1 DEF OneLoad
  <2>3. BusyOn(k)' = {} /\ Keyed(done', k) = {Len(done) + 1}
    BY <1>2, <1>4, <1>5, <1>6, <2>2 DEF Single
  <2> QED BY <1>8, <2>1, <2>2, <2>3 DEF OneLoad, Single
<1> QED BY <1>8, <1>9, <1>10 DEF LoadInv

\* done_queue_drain moves the whole queue into an empty batch.
LEMMA DrainKeepsLoads ==
    ASSUME TypeInv, LoadInv, TickBegin \/ DestroyJoined
    PROVE  LoadInv'
<1>1. /\ batch = << >> /\ batch' = done /\ done' = << >>
      /\ UNCHANGED << slot, jobs, worker >> /\ pc' \in {"integrate", "drain"}
  BY DEF TickBegin, DestroyJoined, LoadInv, mapVars
<1>2. \A c \in Chunks : /\ BusyOn(c)' = BusyOn(c) /\ Keyed(done', c) = {}
                        /\ Keyed(batch', c) = Keyed(done, c) /\ Keyed(batch, c) = {}
  BY <1>1 DEF BusyOn, Busy, Keyed
<1> QED BY <1>1, <1>2 DEF LoadInv, OneLoad, NoLoad

\* A loaded chunk and a READY one carry the coordinates they are kept under.
HomeInv ==
    /\ \A k \in Chunks : slot[k] = "ready" => chunk[k].at = k
    /\ \A w \in Workers : Holding(w) => worker[w].obj.at = worker[w].key
    /\ \A i \in DOMAIN done : done[i].obj.at = done[i].key
    /\ \A i \in DOMAIN batch : batch[i].obj.at = batch[i].key

\* Integrating a result ends its load and makes its entry READY.
LEMMA IntegrateKeepsLoads ==
    ASSUME TypeInv, LoadInv, HomeInv, IntegrateOne
    PROVE  LoadInv'
<1>1. batch \in Seq(Done) /\ batch # << >> /\ batch' = Tail(batch) /\ Head(batch) \in Done
  BY TailElements DEF TypeInv, RestType, IntegrateOne
<1>2. PICK k \in Chunks : k = Head(batch).key
  BY <1>1 DEF Done
<1>3. \A c : /\ Keyed(batch, c) = {} => Keyed(batch', c) = {}
             /\ c # k /\ Single(Keyed(batch, c)) => Single(Keyed(batch', c))
             /\ c = k /\ Single(Keyed(batch, c)) => Keyed(batch', c) = {}
  BY <1>1, <1>2, KeyedTailSize
<1>4. 1 \in Keyed(batch, k)
  BY <1>1, <1>2, KeyedTail
<1>5. UNCHANGED << jobs, worker, done, pc >> /\ \A c : BusyOn(c)' = BusyOn(c)
  BY DEF IntegrateOne, loadVars, BusyOn, Busy
<1>6. slot[k] = "loading" /\ OneLoad(k)
  BY <1>4 DEF LoadInv, NoLoad
<1>7. slot' = [slot EXCEPT ![k] = "ready"]
  BY <1>2, <1>6 DEF IntegrateOne, Integrate, Discard
<1>8. NoLoad(k)'
  BY <1>3, <1>4, <1>5, <1>6 DEF OneLoad, NoLoad
<1>9. ASSUME NEW c \in Chunks, c # k
      PROVE  IF slot'[c] = "loading" THEN OneLoad(c)' ELSE NoLoad(c)'
  <2>1. slot'[c] = slot[c]
    BY <1>7, <1>9 DEF TypeInv, MapInv, MapType
  <2> QED BY <1>3, <1>5, <1>9, <2>1 DEF LoadInv, OneLoad, NoLoad
<1>10. slot'[k] # "loading"
  BY <1>7 DEF TypeInv, MapInv, MapType
<1> QED BY <1>5, <1>8, <1>9, <1>10 DEF LoadInv, IntegrateOne

-----------------------------------------------------------------------------
(* No chunk claims the coordinates of another.                             *)

\* A step that changes no chunk object in the map, a worker or a queue keeps HomeInv.
LEMMA HomeFrame ==
    ASSUME HomeInv, UNCHANGED << worker, done, batch >>,
           \A k \in Chunks : slot'[k] = "ready" => slot[k] = "ready" /\ chunk'[k].at = chunk[k].at
    PROVE  HomeInv'
BY DEF HomeInv, Holding

\* What the chunk map becomes when a chunk that is at home leaves it.
LEMMA RemovedAtHome ==
    ASSUME TypeInv, NEW k \in Chunks, slot[k] = "ready", NEW ch, NEW cur, RemoveKey(k, ch, cur)
    PROVE  /\ slot' = [slot EXCEPT ![k] = "absent"]
           /\ pending' = [pending EXCEPT ![k] = << >>]
           /\ chunk' = [ch EXCEPT ![k] = NoChunk]
BY DEF RemoveKey

\* SaveAttempt and EvictNow change an entry's chunk or remove the entry.
LEMMA SaveAttemptStep ==
    ASSUME TypeInv, HomeInv, NEW k \in Chunks, slot[k] = "ready", NEW next,
           NEW outcome \in WriteOutcomes, SaveAttempt(k, next, outcome)
    PROVE  /\ disk' = WriteFile(disk, k, chunk[k].blocks, outcome)
           /\ \/ /\ chunk' = [chunk EXCEPT ![k] = [chunk[k] EXCEPT !.dirty = (outcome # "ok")]]
                 /\ UNCHANGED << slot, pending >>
              \/ /\ outcome = "ok"
                 /\ slot' = [slot EXCEPT ![k] = "absent"]
                 /\ pending' = [pending EXCEPT ![k] = << >>]
                 /\ chunk' = [chunk EXCEPT ![k] = NoChunk]
<1> DEFINE o  == [chunk[k] EXCEPT !.dirty = (outcome # "ok")]
           ch == [chunk EXCEPT ![k].dirty = (outcome # "ok")]
<1>1. chunk[k].at = k /\ chunk[k] \in ChunkObject
  BY ReadyChunk DEF HomeInv, TypeInv
<1>2. o \in ChunkObject /\ ch = [chunk EXCEPT ![k] = o]
  BY <1>1 DEF ChunkObject, TypeInv, MapInv, MapType
<1>3. disk' = WriteFile(disk, k, chunk[k].blocks, outcome)
  BY <1>1 DEF SaveAttempt
<1>4. CASE outcome = "ok" /\ chunk[k].evict
  <2>1. RemoveKey(k, ch, next)
    BY <1>1, <1>4 DEF SaveAttempt
  <2> HIDE DEF ch
  <2>2. /\ slot' = [slot EXCEPT ![k] = "absent"]
        /\ pending' = [pending EXCEPT ![k] = << >>]
        /\ chunk' = [ch EXCEPT ![k] = NoChunk]
    BY <2>1, RemovedAtHome
  <2> HIDE DEF o
  <2>3. chunk' = [chunk EXCEPT ![k] = NoChunk]
    BY <1>2, <2>2 DEF TypeInv, MapInv, MapType
  <2> QED BY <1>2, <1>3, <1>4, <2>2, <2>3 DEF o
<1>5. CASE ~(outcome = "ok" /\ chunk[k].evict)
  <2>1. chunk' = ch /\ UNCHANGED << slot, pending >>
    BY <1>5 DEF SaveAttempt
  <2> QED BY <1>2, <1>3, <2>1
<1> QED BY <1>4, <1>5

\* A turn of the eviction loop changes marks only, or removes one READY entry.
LEMMA EvictStepCases ==
    ASSUME TypeInv, HomeInv, EvictStep
    PROVE  \E k \in Chunks :
              /\ slot[k] = "ready" /\ chunk[k] \in ChunkObject
              /\ \/ /\ \E e \in BOOLEAN : chunk' = [chunk EXCEPT ![k] = [chunk[k] EXCEPT !.evict = e]]
                    /\ UNCHANGED << slot, pending >>
                 \/ UNCHANGED << slot, pending, chunk >>
                 \/ /\ ~chunk[k].dirty /\ k \notin keep
                    /\ slot' = [slot EXCEPT ![k] = "absent"]
                    /\ pending' = [pending EXCEPT ![k] = << >>]
                    /\ chunk' = [chunk EXCEPT ![k] = NoChunk]
<1>1. scan \in DOMAIN chunkList
  BY DEF EvictStep, TypeInv, RestType, MapInv, MapType
<1>2. PICK k \in Chunks : k = chunkList[scan] /\ slot[k] = "ready" /\ chunk[k] \in ChunkObject
  BY <1>1, ListedChunk, ReadyChunk DEF TypeInv
<1>3. chunk[k].at = k
  BY <1>2 DEF HomeInv
<1>4. CASE EvictSkip(k)
  <2>1. UNCHANGED << slot, pending >>
    BY <1>4 DEF EvictSkip
  <2>2. CASE chunk' = [chunk EXCEPT ![k].evict = FALSE]
    <3>1. chunk' = [chunk EXCEPT ![k] = [chunk[k] EXCEPT !.evict = FALSE]]
      BY <2>2 DEF TypeInv, MapInv, MapType
    <3> QED BY <1>2, <2>1, <3>1
  <2>3. CASE chunk' = [chunk EXCEPT ![k].evict = TRUE]
    <3>1. chunk' = [chunk EXCEPT ![k] = [chunk[k] EXCEPT !.evict = TRUE]]
      BY <2>3 DEF TypeInv, MapInv, MapType
    <3> QED BY <1>2, <2>1, <3>1
  <2>4. CASE UNCHANGED chunk
    BY <1>2, <2>1, <2>4
  <2> QED BY <1>4, <2>2, <2>3, <2>4 DEF EvictSkip
<1>5. CASE EvictNow(k)
  <2>1. RemoveKey(k, chunk, saveCursor) /\ ~chunk[k].dirty /\ k \notin keep
    BY <1>3, <1>5 DEF EvictNow
  <2>2. /\ slot' = [slot EXCEPT ![k] = "absent"]
        /\ pending' = [pending EXCEPT ![k] = << >>]
        /\ chunk' = [chunk EXCEPT ![k] = NoChunk]
    BY <1>2, <2>1, RemovedAtHome
  <2> QED BY <1>2, <2>1, <2>2
<1> QED BY <1>2, <1>4, <1>5 DEF EvictStep

\* The tick's save part is one attempt on a READY chunk, or none.
LEMMA TickSaveCases ==
    ASSUME TypeInv, TickSave
    PROVE  \/ UNCHANGED << slot, chunk, pending, disk >>
           \/ \E k \in Chunks, next \in Nat, outcome \in WriteOutcomes :
                 slot[k] = "ready" /\ SaveAttempt(k, next, outcome)
<1> DEFINE cursor == IF saveCursor >= Len(chunkList) THEN 0 ELSE saveCursor
<1>1. CASE DirtyOffsets(cursor) = {}
  BY <1>1 DEF TickSave
<1>2. CASE DirtyOffsets(cursor) # {}
  <2> DEFINE i == Position(cursor, Min(DirtyOffsets(cursor)))
  <2>1. PICK outcome \in WriteOutcomes :
           SaveAttempt(chunkList[i + 1], (i + 1) % Len(chunkList), outcome)
    BY <1>2 DEF TickSave
  <2>2. cursor \in Nat
    BY DEF TypeInv, MapInv, MapType
  <2>3. i + 1 \in DOMAIN chunkList /\ (i + 1) % Len(chunkList) \in Nat
    BY <1>2, <2>2, SavePosition
  <2> HIDE DEF i
  <2>4. chunkList[i + 1] \in Chunks /\ slot[chunkList[i + 1]] = "ready"
    BY <2>3, ListedChunk DEF TypeInv
  <2> QED BY <2>1, <2>3, <2>4
<1> QED BY <1>1, <1>2

\* Every step keeps the objects at home while every file decodes.
LEMMA HomeNext ==
    ASSUME Undecodable = {}, TypeInv, HomeInv, [Next]_vars
    PROVE  HomeInv'
<1>1. ASSUME NEW k \in Chunks, NEW prio \in Priorities, GetChunk(k, prio) PROVE HomeInv'
  BY <1>1, HomeFrame DEF GetChunk, RequestLoad, TypeInv, MapInv, MapType, loopVars
<1>2. ASSUME NEW k \in Chunks, NEW b \in Locals, NEW s \in States, SetBlock(k, b, s) PROVE HomeInv'
  <2>1. CASE SetReady(k, b, Norm[s])
    <3>1. \A c \in Chunks : slot'[c] = "ready" => slot[c] = "ready" /\ chunk'[c].at = chunk[c].at
      <4> DEFINE o == [chunk[k] EXCEPT !.blocks[b] = Norm[s], !.dirty = TRUE]
      <4>1. chunk' = chunk \/ chunk' = [chunk EXCEPT ![k] = o]
        BY <2>1 DEF SetReady, TypeInv, MapInv, MapType
      <4>2. o.at = chunk[k].at
        BY <2>1, ReadyChunk DEF SetReady, TypeInv, ChunkObject
      <4>3. slot' = slot
        BY <2>1 DEF SetReady
      <4> HIDE DEF o
      <4> QED BY <4>1, <4>2, <4>3 DEF TypeInv, MapInv, MapType
    <3> QED BY <1>2, <2>1, <3>1, HomeFrame DEF SetBlock, loopVars
  <2>2. CASE SetPending(k, b, Norm[s])
    BY <1>2, <2>2, HomeFrame
    DEF SetBlock, SetPending, RequestLoad, TypeInv, MapInv, MapType, loopVars
  <2> QED BY <1>2, <2>1, <2>2 DEF SetBlock
<1>3. ASSUME NEW k \in Chunks, MarkDirty(k) \/ FlushBlock(k) PROVE HomeInv'
  <2>1. \E d \in BOOLEAN : chunk' = [chunk EXCEPT ![k] = [chunk[k] EXCEPT !.dirty = d]]
    BY <1>3 DEF MarkDirty, FlushBlock, Saved, TypeInv, MapInv, MapType
  <2>2. chunk[k] \in ChunkObject
    BY <1>3, ReadyChunk DEF MarkDirty, FlushBlock, TypeInv
  <2> QED BY <1>3, <2>1, <2>2, HomeFrame
          DEF MarkDirty, FlushBlock, ChunkObject, TypeInv, MapInv, MapType, loadVars, loopVars
<1>4. CASE ClearUpdates \/ TickBegin \/ DestroyJoined
  BY <1>4 DEF ClearUpdates, TickBegin, DestroyJoined, HomeInv, Holding, mapVars, loadVars, loopVars
<1>5. ASSUME NEW w \in Workers, WorkerPop(w) \/ WorkerExit(w) PROVE HomeInv'
  BY <1>5 DEF WorkerPop, WorkerExit, HomeInv, Holding, Exited, TypeInv, RestType, mapVars, loopVars
<1>6. ASSUME NEW w \in Workers, WorkerRead(w) PROVE HomeInv'
  <2>1. worker'[w].obj.at = worker'[w].key
    BY <1>6 DEF WorkerRead, TypeInv, RestType
  <2>2. \A v \in Workers : v # w => worker'[v] = worker[v]
    BY <1>6 DEF WorkerRead, TypeInv, RestType
  <2> QED BY <1>6, <2>1, <2>2 DEF WorkerRead, HomeInv, Holding, mapVars, loopVars
<1>7. ASSUME NEW w \in Workers, WorkerResave(w) PROVE HomeInv'
  <2>1. PICK outcome \in WriteOutcomes :
           worker' = [worker EXCEPT ![w] =
              [worker[w] EXCEPT !.pc = "push", !.obj.dirty = (outcome # "ok")]]
    BY <1>7, ResaveStep
  <2>2. worker[w] \in Loaded /\ worker[w].pc = "resave"
    BY <1>7, ResaveStep
  <2>3. worker'[w].key = worker[w].key /\ worker'[w].obj.at = worker[w].obj.at
    BY <2>1, <2>2 DEF Loaded, ChunkObject, TypeInv, RestType
  <2>4. \A v \in Workers : v # w => worker'[v] = worker[v]
    BY <2>1 DEF TypeInv, RestType
  <2> QED BY <1>7, <2>2, <2>3, <2>4 DEF WorkerResave, HomeInv, Holding, mapVars, loopVars
<1>8. ASSUME NEW w \in Workers, WorkerPush(w) PROVE HomeInv'
  <2>1. worker[w].obj.at = worker[w].key /\ worker[w] \in Loaded
    BY <1>8, LoadedType DEF WorkerPush, HomeInv, Holding, TypeInv
  <2>2. [key |-> worker[w].key, obj |-> worker[w].obj] \in Done
    BY <2>1 DEF Loaded, Done
  <2>3. \A i \in DOMAIN done' : done'[i].obj.at = done'[i].key
    BY <1>8, <2>1, <2>2 DEF WorkerPush, HomeInv, TypeInv, RestType
  <2> QED BY <1>8, <2>3 DEF WorkerPush, HomeInv, Holding, Idle, TypeInv, RestType, mapVars, loopVars
<1>9. CASE IntegrateOne
  <2>1. batch \in Seq(Done) /\ batch # << >> /\ batch' = Tail(batch)
    BY <1>9 DEF IntegrateOne, TypeInv, RestType
  <2>2. \A i \in DOMAIN batch' : batch'[i].obj.at = batch'[i].key
    BY <2>1, TailElements DEF HomeInv
  <2>3. PICK h \in Done : h = Head(batch) /\ h.obj.at = h.key
    BY <2>1, TailElements DEF HomeInv
  <2>4. \A k \in Chunks : slot'[k] = "ready" => chunk'[k].at = k
    <3>1. CASE Integrate(h.key, h.obj)
      BY <2>3, <3>1 DEF Integrate, Done, ChunkObject, HomeInv, TypeInv, MapInv, MapType
    <3>2. CASE Discard(h.key)
      BY <3>2 DEF Discard, HomeInv, mapVars
    <3> QED BY <1>9, <2>3, <3>1, <3>2 DEF IntegrateOne
  <2> QED BY <1>9, <2>2, <2>4 DEF IntegrateOne, HomeInv, Holding, loadVars
<1>10. CASE TickSave
  <2>1. CASE UNCHANGED << slot, chunk, pending, disk >>
    BY <1>10, <2>1, HomeFrame DEF TickSave, loadVars
  <2>2. ASSUME NEW k \in Chunks, slot[k] = "ready", NEW next, NEW outcome \in WriteOutcomes,
               SaveAttempt(k, next, outcome)
        PROVE  HomeInv'
    <3> DEFINE o == [chunk[k] EXCEPT !.dirty = (outcome # "ok")]
    <3>1. chunk[k] \in ChunkObject
      BY <2>2, ReadyChunk DEF TypeInv
    <3>2. o.at = chunk[k].at
      BY <3>1 DEF ChunkObject
    <3>3. \/ chunk' = [chunk EXCEPT ![k] = o] /\ slot' = slot
          \/ slot' = [slot EXCEPT ![k] = "absent"] /\ chunk' = [chunk EXCEPT ![k] = NoChunk]
      BY <2>2, SaveAttemptStep
    <3> HIDE DEF o
    <3> QED BY <1>10, <3>2, <3>3, HomeFrame DEF TickSave, loadVars, TypeInv, MapInv, MapType
  <2> QED BY <1>10, <2>1, <2>2, TickSaveCases
<1>11. CASE EvictStep
  <2>1. \A k \in Chunks : slot'[k] = "ready" => slot[k] = "ready" /\ chunk'[k].at = chunk[k].at
    <3>1. PICK j \in Chunks :
              /\ slot[j] = "ready" /\ chunk[j] \in ChunkObject
              /\ \/ /\ \E e \in BOOLEAN : chunk' = [chunk EXCEPT ![j] = [chunk[j] EXCEPT !.evict = e]]
                    /\ slot' = slot
                 \/ slot' = slot /\ chunk' = chunk
                 \/ slot' = [slot EXCEPT ![j] = "absent"] /\ chunk' = [chunk EXCEPT ![j] = NoChunk]
      BY <1>11, EvictStepCases
    <3>2. DOMAIN slot = Chunks /\ DOMAIN chunk = Chunks
      BY DEF TypeInv, MapInv, MapType
    <3>3. CASE \E e \in BOOLEAN : chunk' = [chunk EXCEPT ![j] = [chunk[j] EXCEPT !.evict = e]] /\ slot' = slot
      <4>1. PICK e \in BOOLEAN : chunk' = [chunk EXCEPT ![j] = [chunk[j] EXCEPT !.evict = e]] /\ slot' = slot
        BY <3>3
      <4> DEFINE o == [chunk[j] EXCEPT !.evict = e]
      <4>2. o.at = chunk[j].at
        BY <3>1 DEF ChunkObject
      <4>3. chunk' = [chunk EXCEPT ![j] = o]
        BY <4>1
      <4> HIDE DEF o
      <4> QED BY <3>2, <4>1, <4>2, <4>3
    <3>4. CASE slot' = slot /\ chunk' = chunk
      BY <3>4
    <3>5. CASE slot' = [slot EXCEPT ![j] = "absent"] /\ chunk' = [chunk EXCEPT ![j] = NoChunk]
      BY <3>2, <3>5
    <3> QED BY <3>1, <3>3, <3>4, <3>5
  <2> QED BY <1>11, <2>1, HomeFrame DEF EvictStep, loadVars
<1>12. CASE DestroySave
  <2>1. PICK k \in Chunks : k = chunkList[scan] /\ slot[k] = "ready" /\ chunk[k] \in ChunkObject
    BY <1>12, ListedChunk, ReadyChunk DEF DestroySave, TypeInv, RestType, MapInv, MapType
  <2>2. chunk' = chunk \/ \E d \in BOOLEAN : chunk' = [chunk EXCEPT ![k] = [chunk[k] EXCEPT !.dirty = d]]
    BY <1>12, <2>1 DEF DestroySave, Saved, TypeInv, MapInv, MapType
  <2>3. \A c \in Chunks : chunk'[c].at = chunk[c].at
    <3>1. CASE chunk' = chunk
      BY <3>1
    <3>2. ASSUME NEW d \in BOOLEAN, chunk' = [chunk EXCEPT ![k] = [chunk[k] EXCEPT !.dirty = d]]
          PROVE  \A c \in Chunks : chunk'[c].at = chunk[c].at
      <4>1. [chunk[k] EXCEPT !.dirty = d].at = chunk[k].at
        BY <2>1 DEF ChunkObject
      <4> QED BY <3>2, <4>1 DEF TypeInv, MapInv, MapType
    <3> QED BY <2>2, <3>1, <3>2
  <2> QED BY <1>12, <2>3, HomeFrame DEF DestroySave, loadVars
<1>13. CASE \/ \E near \in SUBSET Chunks : EvictBegin(near)
            \/ EvictEnd \/ DestroyBegin \/ DestroyDrained \/ DestroyEnd \/ UNCHANGED vars
  BY <1>13, HomeFrame
  DEF EvictBegin, EvictEnd, DestroyBegin, DestroyDrained, DestroyEnd, vars, mapVars, loadVars, loopVars
<1> QED
  BY <1>1, <1>2, <1>3, <1>4, <1>5, <1>6, <1>7, <1>8, <1>9, <1>10, <1>11, <1>12, <1>13
  DEF Next, Caller, Worker, Tick, Evict, Destroy, Stopped

-----------------------------------------------------------------------------
(* One load per chunk.                                                     *)

\* Every step keeps exactly one load per LOADING entry while every file decodes.
LEMMA LoadNext ==
    ASSUME TypeInv, LoadInv, HomeInv, [Next]_vars
    PROVE  LoadInv'
<1>1. ASSUME NEW k \in Chunks, NEW prio \in Priorities, GetChunk(k, prio) PROVE LoadInv'
  BY <1>1, RequestKeepsLoads DEF GetChunk, loopVars
<1>2. ASSUME NEW k \in Chunks, NEW b \in Locals, NEW s \in States, SetBlock(k, b, s) PROVE LoadInv'
  <2>1. UNCHANGED << worker, done, batch, pc >>
    BY <1>2 DEF SetBlock, loopVars
  <2>2. CASE SetPending(k, b, Norm[s]) /\ slot[k] = "absent"
    BY <2>1, <2>2, RequestKeepsLoads, BoundAssumption DEF SetPending
  <2>3. CASE ~(SetPending(k, b, Norm[s]) /\ slot[k] = "absent")
    <3>1. UNCHANGED << slot, jobs >>
      BY <1>2, <2>3 DEF SetBlock, SetReady, SetPending
    <3> QED BY <2>1, <3>1, LoadFrame DEF LoadInv
  <2> QED BY <2>2, <2>3
<1>3. ASSUME NEW k \in Chunks, MarkDirty(k) \/ FlushBlock(k) PROVE LoadInv'
  BY <1>3, LoadFrame DEF MarkDirty, FlushBlock, loadVars, loopVars, LoadInv
<1>4. CASE ClearUpdates
  BY <1>4, LoadFrame DEF ClearUpdates, mapVars, loadVars, loopVars, LoadInv
<1>5. ASSUME NEW w \in Workers, Worker(w) PROVE LoadInv'
  <2>1. CASE WorkerExit(w)
    <3>1. \A c : BusyOn(c)' = BusyOn(c)
      BY <2>1 DEF WorkerExit, BusyOn, Busy, Idle, Exited, TypeInv, RestType
    <3> QED BY <2>1, <3>1 DEF WorkerExit, LoadInv, OneLoad, NoLoad, mapVars, loopVars
  <2> QED BY <1>5, <2>1, PopKeepsLoads, BusyKeepsLoads, PushKeepsLoads DEF Worker
<1>6. CASE TickBegin \/ DestroyJoined
  BY <1>6, DrainKeepsLoads
<1>7. CASE IntegrateOne
  BY <1>7, IntegrateKeepsLoads
<1>8. ASSUME NEW k \in Chunks, slot[k] = "ready",
             slot' = slot \/ slot' = [slot EXCEPT ![k] = "absent"],
             UNCHANGED << jobs, worker, done, batch >>,
             pc' \notin {"integrate", "drain"} => batch = << >>
      PROVE  LoadInv'
  <2>1. \A c \in Chunks : slot'[c] = "loading" <=> slot[c] = "loading"
    BY <1>8 DEF TypeInv, MapInv, MapType
  <2> QED BY <1>8, <2>1, LoadFrame
<1>9. CASE TickSave
  <2>1. UNCHANGED << jobs, worker, done, batch >> /\ batch = << >>
    BY <1>9 DEF TickSave, loadVars
  <2>2. CASE UNCHANGED << slot, chunk, pending, disk >>
    BY <2>1, <2>2, LoadFrame
  <2>3. ASSUME NEW k \in Chunks, slot[k] = "ready", NEW next, NEW outcome \in WriteOutcomes,
               SaveAttempt(k, next, outcome)
        PROVE  LoadInv'
    <3>1. slot' = slot \/ slot' = [slot EXCEPT ![k] = "absent"]
      BY <2>3, SaveAttemptStep
    <3> QED BY <1>8, <2>1, <2>3, <3>1
  <2> QED BY <1>9, <2>2, <2>3, TickSaveCases
<1>10. CASE EvictStep
  <2>1. UNCHANGED << jobs, worker, done, batch, pc >>
    BY <1>10 DEF EvictStep, loadVars
  <2>2. PICK k \in Chunks : slot[k] = "ready" /\ (slot' = slot \/ slot' = [slot EXCEPT ![k] = "absent"])
    BY <1>10, EvictStepCases
  <2> QED BY <1>8, <2>1, <2>2 DEF LoadInv
<1>11. CASE \/ \E near \in SUBSET Chunks : EvictBegin(near)
            \/ EvictEnd \/ DestroyBegin \/ DestroyDrained \/ DestroySave \/ DestroyEnd
            \/ UNCHANGED vars
  <2>1. UNCHANGED << slot, jobs, worker, done, batch >>
    BY <1>11 DEF EvictBegin, EvictEnd, DestroyBegin, DestroyDrained, DestroySave, DestroyEnd,
                 vars, mapVars, loadVars, loopVars
  <2>2. pc' \notin {"integrate", "drain"} => batch = << >>
    BY <1>11 DEF EvictBegin, EvictEnd, DestroyBegin, DestroyDrained, DestroySave, DestroyEnd,
                 vars, loopVars, LoadInv
  <2> QED BY <2>1, <2>2, LoadFrame
<1> QED
  BY <1>1, <1>2, <1>3, <1>4, <1>5, <1>6, <1>7, <1>9, <1>10, <1>11
  DEF Next, Caller, Tick, Evict, Destroy, Stopped

\* No load is under way when the world was just created.
LEMMA LoadInit == Init => LoadInv /\ HomeInv
BY DEF Init, LoadInv, NoLoad, HomeInv, Keyed, BusyOn, Busy, Holding, Idle

\* The load invariants hold in every reachable state while every file decodes.
LEMMA LoadInvariant ==
    ASSUME Undecodable = {}
    PROVE  Spec => [](TypeInv /\ LoadInv /\ HomeInv)
<1>1. Init => TypeInv /\ LoadInv /\ HomeInv
  BY InitType, LoadInit
<1>2. TypeInv /\ LoadInv /\ HomeInv /\ [Next]_vars => (TypeInv /\ LoadInv /\ HomeInv)'
  BY NextType, LoadNext, HomeNext
<1> QED BY <1>1, <1>2, PTL DEF Spec

\* A LOADING entry has exactly one load under way, any other entry none, for
\* any number of chunks, workers, priorities and waiting writes.
THEOREM OneLoaderCorrect ==
    ASSUME Undecodable = {}
    PROVE  Spec => []OneLoader
<1>1. ASSUME LoadInv, NEW k \in Chunks
      PROVE  IF slot[k] = "loading" THEN \E t \in Loads(k) : Loads(k) = {t} ELSE Loads(k) = {}
  <2>1. CASE slot[k] # "loading"
    BY <1>1, <2>1 DEF LoadInv, NoLoad, Loads
  <2>2. CASE slot[k] = "loading"
    <3>1. OneLoad(k)
      BY <1>1, <2>2 DEF LoadInv
    <3>2. \E t : Loads(k) = {t}
      <4>1. CASE /\ Single(Keyed(jobs, k)) /\ BusyOn(k) = {}
               /\ Keyed(done, k) = {} /\ Keyed(batch, k) = {}
      <5>1. PICK x : Keyed(jobs, k) = {x}
        BY <4>1 DEF Single
      <5>2. Loads(k) = {<< "job", x >>}
        BY <4>1, <5>1 DEF Loads
      <5> QED BY <5>2
    <4>2. CASE /\ Keyed(jobs, k) = {} /\ Single(BusyOn(k))
               /\ Keyed(done, k) = {} /\ Keyed(batch, k) = {}
      <5>1. PICK x : BusyOn(k) = {x}
        BY <4>2 DEF Single
      <5>2. Loads(k) = {<< "worker", x >>}
        BY <4>2, <5>1 DEF Loads
      <5> QED BY <5>2
    <4>3. CASE /\ Keyed(jobs, k) = {} /\ BusyOn(k) = {}
               /\ Single(Keyed(done, k)) /\ Keyed(batch, k) = {}
      <5>1. PICK x : Keyed(done, k) = {x}
        BY <4>3 DEF Single
      <5>2. Loads(k) = {<< "done", x >>}
        BY <4>3, <5>1 DEF Loads
      <5> QED BY <5>2
    <4>4. CASE /\ Keyed(jobs, k) = {} /\ BusyOn(k) = {}
               /\ Keyed(done, k) = {} /\ Single(Keyed(batch, k))
      <5>1. PICK x : Keyed(batch, k) = {x}
        BY <4>4 DEF Single
      <5>2. Loads(k) = {<< "batch", x >>}
        BY <4>4, <5>1 DEF Loads
      <5> QED BY <5>2
    <4> QED BY <3>1, <4>1, <4>2, <4>3, <4>4 DEF OneLoad
    <3> QED BY <2>2, <3>2
  <2> QED BY <2>1, <2>2
<1>2. LoadInv => OneLoader
  BY <1>1 DEF OneLoader
<1> QED BY <1>2, LoadInvariant, PTL

-----------------------------------------------------------------------------
(***************************************************************************)
(* No accepted write is lost, for every number of chunks, blocks, workers  *)
(* and waiting writes: NoLostWrite, CleanIsSaved, TornFileHasCopy and      *)
(* UpdatesAreCurrent of World.tla, proved together.                        *)
(*                                                                         *)
(* What they say of a chunk depends on that chunk alone: on its entry, the *)
(* objects loaded for it, its file, what was accepted and what is queued.  *)
(* ChunkSound says it of those values.  The first part proves, without any *)
(* variable, that each operation on a chunk keeps it sound; the second     *)
(* that each action of World.tla is such an operation on one chunk and     *)
(* leaves the others alone.                                                *)
(***************************************************************************)

\* What the next load finds in a file d.
FileImage(d) == Normalized(IF d \notin {NoFile, Torn} THEN d ELSE Terrain)

\* The part of an entry that is not in the map yet or not any more.
HiddenSound(k, q, L, d, a, u) ==
    /\ \A o \in L :
          /\ ~o.dirty => d = o.blocks
          /\ k \in Healthy => Replay(o.blocks, q) = a
          /\ k \in Healthy => \A b \in Locals : u[b] # NoUpdate => u[b] = o.blocks[b]
    /\ L = {} /\ k \in Healthy =>
          /\ Replay(FileImage(d), q) = a
          /\ \A b \in Locals : u[b] # NoUpdate => u[b] = FileImage(d)[b]
    /\ d = Torn => L # {} /\ \A o \in L : o.dirty

\* A READY chunk.
ShownSound(k, c, d, a, u) ==
    /\ ~c.dirty => d = c.blocks
    /\ k \in Healthy => c.blocks = a
    /\ k \in Healthy => \A b \in Locals : u[b] # NoUpdate => u[b] = c.blocks[b]
    /\ d = Torn => c.dirty

\* An entry in state s whose chunk is c, whose pending writes are q, whose
\* loaded objects are L and whose file is d; a is accepted, u is queued.
ChunkSound(k, s, c, q, L, d, a, u) ==
    /\ Normalized(a) = a
    /\ s # "loading" => q = << >> /\ L = {}
    /\ IF s = "ready" THEN ShownSound(k, c, d, a, u)
                      ELSE HiddenSound(k, q, L, d, a, u)

-----------------------------------------------------------------------------
(* Operations on one chunk.                                                *)

\* A normalised value written into normalised blocks leaves them normalised.
LEMMA NormalizedWrite ==
    ASSUME NEW a \in Blocks, Normalized(a) = a, NEW b \in Locals, NEW s \in States
    PROVE  /\ [a EXCEPT ![b] = Norm[s]] \in Blocks
           /\ Normalized([a EXCEPT ![b] = Norm[s]]) = [a EXCEPT ![b] = Norm[s]]
<1>1. Norm[s] \in States /\ Norm[Norm[s]] = Norm[s]
  BY StateAssumption
<1>2. \A i \in Locals : Norm[a[i]] = a[i]
  <2>1. \A i \in Locals : Normalized(a)[i] = Norm[a[i]]
    BY DEF Normalized
  <2> QED BY <2>1
<1> QED BY <1>1, <1>2 DEF Normalized, Blocks

\* A write to a READY chunk that changes the block.
LEMMA WriteShown ==
    ASSUME NEW k \in Chunks, NEW c \in ChunkObject, NEW d, NEW a \in Blocks,
           NEW u \in [Locals -> States \cup {NoUpdate}], NEW b \in Locals, NEW v \in States,
           ShownSound(k, c, d, a, u)
    PROVE  ShownSound(k, [c EXCEPT !.blocks[b] = v, !.dirty = TRUE], d,
                      [a EXCEPT ![b] = v], [u EXCEPT ![b] = v])
<1> DEFINE o == [c EXCEPT !.blocks[b] = v, !.dirty = TRUE]
<1>1. o.dirty = TRUE /\ o.blocks = [c.blocks EXCEPT ![b] = v] /\ c.blocks \in [Locals -> States]
  BY DEF ChunkObject, Blocks
<1> HIDE DEF o
<1>2. ShownSound(k, o, d, [a EXCEPT ![b] = v], [u EXCEPT ![b] = v])
  BY <1>1 DEF ShownSound, Blocks
<1> QED BY <1>2 DEF o

\* A write to a READY chunk that already has the value.
LEMMA WriteShownSame ==
    ASSUME NEW k \in Chunks, NEW c \in ChunkObject, NEW d, NEW a \in Blocks,
           NEW u, NEW b \in Locals, NEW v \in States,
           c.blocks[b] = v, ShownSound(k, c, d, a, u)
    PROVE  ShownSound(k, c, d, [a EXCEPT ![b] = v], u)
BY DEF ShownSound, ChunkObject, Blocks

\* A write to a chunk that is not READY waits behind the others.
LEMMA WriteHidden ==
    ASSUME NEW k \in Chunks, NEW q \in Seq(Mod), NEW L \in SUBSET ChunkObject,
           NEW d \in Blocks \cup {NoFile, Torn}, NEW a \in Blocks,
           NEW u, NEW b \in Locals, NEW v \in States,
           HiddenSound(k, q, L, d, a, u)
    PROVE  HiddenSound(k, Append(q, [b |-> b, state |-> v]), L, d, [a EXCEPT ![b] = v], u)
<1>1. PICK m \in Mod : m = [b |-> b, state |-> v] /\ m.b = b /\ m.state = v
  <2>1. [b |-> b, state |-> v] \in Mod
    BY DEF Mod
  <2> QED BY <2>1
<1>2. FileImage(d) \in [Locals -> States]
  BY NormalizedType, StateAssumption DEF FileImage, Blocks
<1>3. ASSUME NEW f \in [Locals -> States]
      PROVE  Replay(f, Append(q, m)) = [Replay(f, q) EXCEPT ![b] = v]
  <2>1. Replay(f, Append(q, m)) = [Replay(f, q) EXCEPT ![m.b] = m.state]
    BY <1>1, <1>3, ReplayAppend
  <2> QED BY <1>1, <2>1
<1>4. \A o \in L : o.blocks \in [Locals -> States]
  BY DEF ChunkObject, Blocks
<1>5. HiddenSound(k, Append(q, m), L, d, [a EXCEPT ![b] = v], u)
  BY <1>2, <1>3, <1>4 DEF HiddenSound
<1> QED BY <1>1, <1>5

\* A save of a READY chunk, whatever comes of it.
LEMMA SaveShown ==
    ASSUME NEW k \in Chunks, NEW c \in ChunkObject, NEW d, NEW a, NEW u,
           NEW outcome \in WriteOutcomes,
           disk \in [Chunks -> Blocks \cup {NoFile, Torn}], disk[k] = d,
           ShownSound(k, c, d, a, u)
    PROVE  ShownSound(k, [c EXCEPT !.dirty = (outcome # "ok")],
                      WriteFile(disk, k, c.blocks, outcome)[k], a, u)
<1> DEFINE o == [c EXCEPT !.dirty = (outcome # "ok")]
           e == WriteFile(disk, k, c.blocks, outcome)[k]
<1>1. o.dirty = (outcome # "ok") /\ o.blocks = c.blocks /\ c.blocks \in Blocks
  BY DEF ChunkObject
<1>2. /\ outcome = "ok" => e = c.blocks
      /\ outcome \in {"ok", "refused", "torn"}
  BY FileAssumption DEF WriteFile
<1>3. c.blocks # Torn
  BY <1>1, FileAssumption
<1>4. outcome = "refused" => e = d
  BY DEF WriteFile
<1> HIDE DEF o, e
<1>5. ShownSound(k, o, e, a, u)
  BY <1>1, <1>2, <1>3, <1>4 DEF ShownSound
<1> QED BY <1>5 DEF o, e

\* A chunk that leaves the map when its file holds its blocks.
LEMMA HideShown ==
    ASSUME NEW k \in Chunks, NEW c \in ChunkObject, NEW d, NEW a \in Blocks, NEW u,
           d = c.blocks, Normalized(a) = a, ShownSound(k, c, d, a, u)
    PROVE  HiddenSound(k, << >>, {}, d, a, u)
<1>1. d \in Blocks
  BY DEF ChunkObject
<1>2. d \notin {NoFile, Torn}
  BY <1>1, FileAssumption
<1>3. FileImage(d) = Normalized(d)
  BY <1>2 DEF FileImage
<1>4. Replay(a, << >>) = a
  BY ReplayNothing DEF Blocks
<1> QED BY <1>1, <1>2, <1>3, <1>4 DEF ShownSound, HiddenSound

\* A loaded chunk whose waiting writes are replayed becomes READY.
LEMMA ShowHidden ==
    ASSUME NEW k \in Chunks, NEW o \in ChunkObject, NEW q \in Seq(Mod), NEW d, NEW a,
           NEW u \in [Locals -> States \cup {NoUpdate}],
           HiddenSound(k, q, {o}, d, a, u)
    PROVE  ShownSound(k, [o EXCEPT !.blocks = Replay(o.blocks, q),
                                   !.dirty = o.dirty \/ q # << >>],
                      d, a, Replay(u, q))
<1> DEFINE c == [o EXCEPT !.blocks = Replay(o.blocks, q), !.dirty = o.dirty \/ q # << >>]
<1>1. c.blocks = Replay(o.blocks, q) /\ c.dirty = (o.dirty \/ q # << >>)
  BY DEF ChunkObject
<1>2. o.blocks \in [Locals -> States] /\ o.dirty \in BOOLEAN
  BY DEF ChunkObject, Blocks
<1>3. q = << >> => Replay(o.blocks, q) = o.blocks
  BY <1>2, ReplayNothing
<1>4. ASSUME NEW b \in Locals, Replay(u, q)[b] # NoUpdate, k \in Healthy
      PROVE  Replay(u, q)[b] = Replay(o.blocks, q)[b]
  <2>1. u[b] # NoUpdate => u[b] = o.blocks[b]
    BY <1>4 DEF HiddenSound
  <2>2. \/ Replay(u, q)[b] = Replay(o.blocks, q)[b]
        \/ Replay(u, q)[b] = u[b] /\ Replay(o.blocks, q)[b] = o.blocks[b]
    BY DEF Replay
  <2> QED BY <1>4, <2>1, <2>2
<1> HIDE DEF c
<1>5. ShownSound(k, c, d, a, Replay(u, q))
  BY <1>1, <1>2, <1>3, <1>4 DEF HiddenSound, ShownSound
<1> QED BY <1>5 DEF c

\* The file as the worker read it, or terrain: what the load of a chunk without
\* waiting objects brings.
LEMMA LoadHidden ==
    ASSUME NEW k \in Chunks, NEW o \in ChunkObject, NEW q, NEW d, NEW a, NEW u,
           HiddenSound(k, q, {}, d, a, u),
           ~o.dirty => d = o.blocks, k \in Healthy => o.blocks = FileImage(d)
    PROVE  HiddenSound(k, q, {o}, d, a, u)
BY DEF HiddenSound

\* A worker saves the object it has loaded, whatever comes of it.
LEMMA SaveHidden ==
    ASSUME NEW k \in Chunks, NEW o \in ChunkObject, NEW q, NEW a, NEW u,
           NEW outcome \in WriteOutcomes,
           disk \in [Chunks -> Blocks \cup {NoFile, Torn}],
           HiddenSound(k, q, {o}, disk[k], a, u)
    PROVE  HiddenSound(k, q, {[o EXCEPT !.dirty = (outcome # "ok")]},
                       WriteFile(disk, k, o.blocks, outcome)[k], a, u)
<1>1. PICK p \in ChunkObject : /\ p = [o EXCEPT !.dirty = (outcome # "ok")]
                               /\ p.dirty = (outcome # "ok") /\ p.blocks = o.blocks
  <2>1. [o EXCEPT !.dirty = (outcome # "ok")] \in ChunkObject
    BY DEF ChunkObject
  <2> QED BY <2>1 DEF ChunkObject
<1>2. PICK e : e = WriteFile(disk, k, o.blocks, outcome)[k]
  OBVIOUS
<1>3. /\ outcome \in {"ok", "refused", "torn"}
      /\ outcome = "ok" => e = o.blocks
      /\ o.blocks \in Blocks /\ o.blocks # Torn
  BY <1>2, FileAssumption DEF WriteFile, ChunkObject
<1>4. HiddenSound(k, q, {p}, e, a, u)
  BY <1>1, <1>3 DEF HiddenSound
<1> QED BY <1>1, <1>2, <1>4

-----------------------------------------------------------------------------
(* The chunks of a state.                                                  *)

SoundAt(k) ==
    ChunkSound(k, slot[k], chunk[k], pending[k], LoadedFor(k), disk[k], accepted[k], updates[k])

DataInv == \A k \in Chunks : SoundAt(k)

SafeInv == TypeInv /\ LoadInv /\ HomeInv /\ DataInv

\* A chunk whose entry, objects, file and values stay is as sound as before.
LEMMA SoundFrame ==
    ASSUME NEW k \in Chunks, SoundAt(k),
           slot'[k] = slot[k], chunk'[k] = chunk[k], pending'[k] = pending[k],
           LoadedFor(k)' = LoadedFor(k), disk'[k] = disk[k],
           accepted'[k] = accepted[k], updates'[k] = updates[k]
    PROVE  SoundAt(k)'
BY DEF SoundAt

\* The objects loaded for a chunk move with the workers and the queues only.
LEMMA LoadedFrame ==
    ASSUME UNCHANGED << worker, done, batch >>, NEW k
    PROVE  LoadedFor(k)' = LoadedFor(k)
BY DEF LoadedFor, BusyOn, Busy, Holding

\* An entry that is not LOADING has no loaded object.
LEMMA NoneLoaded ==
    ASSUME NEW k \in Chunks, NoLoad(k)
    PROVE  LoadedFor(k) = {}
BY DEF NoLoad, LoadedFor

\* Loaded objects are chunk objects.
LEMMA LoadedForType ==
    ASSUME TypeInv, NEW k
    PROVE  LoadedFor(k) \in SUBSET ChunkObject
<1>1. \A w \in Workers : Holding(w) => worker[w].obj \in ChunkObject
  BY LoadedType DEF Holding, TypeInv, Loaded
<1>2. \A i \in Keyed(done, k) : done[i].obj \in ChunkObject
  <2>1. \A i \in DOMAIN done : done[i] \in Done
    BY DEF TypeInv, RestType
  <2> QED BY <2>1 DEF Keyed, Done
<1>3. \A i \in Keyed(batch, k) : batch[i].obj \in ChunkObject
  <2>1. \A i \in DOMAIN batch : batch[i] \in Done
    BY DEF TypeInv, RestType
  <2> QED BY <2>1 DEF Keyed, Done
<1> QED BY <1>1, <1>2, <1>3 DEF LoadedFor, BusyOn

\* mc_world_get_chunk.
LEMMA GetChunkSound ==
    ASSUME SafeInv, NEW k \in Chunks, NEW prio \in Priorities, GetChunk(k, prio)
    PROVE  DataInv'
<1>1. \A c : LoadedFor(c)' = LoadedFor(c)
  BY LoadedFrame DEF GetChunk, loopVars
<1>2. ASSUME NEW c \in Chunks, c # k PROVE SoundAt(c)'
  BY <1>1, <1>2, SoundFrame
  DEF SafeInv, DataInv, TypeInv, MapInv, MapType, GetChunk, RequestLoad
<1>3. SoundAt(k)'
  <2>1. slot[k] = "absent" /\ slot'[k] = "loading"
    BY DEF GetChunk, RequestLoad, SafeInv, TypeInv, MapInv, MapType
  <2>2. SoundAt(k) /\ UNCHANGED << chunk, pending, disk, accepted, updates >>
    BY DEF SafeInv, DataInv, GetChunk
  <2> QED BY <1>1, <2>1, <2>2 DEF SoundAt, ChunkSound
<1> QED BY <1>2, <1>3 DEF DataInv

\* mc_world_set_block.
LEMMA SetBlockSound ==
    ASSUME SafeInv, NEW k \in Chunks, NEW b \in Locals, NEW s \in States, SetBlock(k, b, s)
    PROVE  DataInv'
<1>1. \A c : LoadedFor(c)' = LoadedFor(c)
  BY LoadedFrame DEF SetBlock, loopVars
<1>2. PICK v \in States : v = Norm[s]
  BY StateAssumption
<1>3. accepted' = [accepted EXCEPT ![k] = [accepted[k] EXCEPT ![b] = v]] /\ disk' = disk
  BY <1>2 DEF SetBlock, SafeInv, TypeInv, RestType
<1>4. accepted[k] \in Blocks /\ Normalized(accepted[k]) = accepted[k] /\ SoundAt(k)
  BY DEF SafeInv, DataInv, SoundAt, ChunkSound, TypeInv, RestType
<1>5. Normalized([accepted[k] EXCEPT ![b] = v]) = [accepted[k] EXCEPT ![b] = v]
  BY <1>2, <1>4, NormalizedWrite
<1>6. ASSUME NEW c \in Chunks, c # k PROVE SoundAt(c)'
  <2>1. /\ slot'[c] = slot[c] /\ chunk'[c] = chunk[c] /\ pending'[c] = pending[c]
        /\ updates'[c] = updates[c] /\ accepted'[c] = accepted[c]
    BY <1>3, <1>6 DEF SetBlock, SetReady, SetPending, RequestLoad, SafeInv, TypeInv, MapInv, MapType, RestType
  <2> QED BY <1>1, <1>3, <2>1, SoundFrame DEF SafeInv, DataInv
<1>7. PICK a : a = [accepted[k] EXCEPT ![b] = v] /\ accepted'[k] = a
  BY <1>3 DEF SafeInv, TypeInv, RestType
<1>8. ASSUME SetReady(k, b, v) PROVE SoundAt(k)'
  <2>1. slot[k] = "ready" /\ chunk[k] \in ChunkObject /\ UNCHANGED << slot, pending >>
    BY <1>8, ReadyChunk DEF SetReady, SafeInv, TypeInv
  <2>2. ShownSound(k, chunk[k], disk[k], accepted[k], updates[k])
    BY <1>4, <2>1 DEF SoundAt, ChunkSound
  <2>3. ShownSound(k, chunk'[k], disk[k], a, updates'[k])
    <3>1. CASE chunk[k].blocks[b] = v
      <4>1. UNCHANGED << chunk, updates >>
        BY <1>8, <3>1 DEF SetReady
      <4> QED BY <1>4, <1>7, <2>1, <2>2, <3>1, <4>1, WriteShownSame
    <3>2. CASE chunk[k].blocks[b] # v
      <4>1. chunk'[k] = [chunk[k] EXCEPT !.blocks[b] = v, !.dirty = TRUE]
        BY <1>8, <3>2 DEF SetReady, SafeInv, TypeInv, MapInv, MapType
      <4>2. updates'[k] = [updates[k] EXCEPT ![b] = v]
        BY <1>8, <3>2 DEF SetReady, SafeInv, TypeInv, RestType
      <4>3. updates[k] \in [Locals -> States \cup {NoUpdate}]
        BY DEF SafeInv, TypeInv, RestType
      <4>4. ShownSound(k, [chunk[k] EXCEPT !.blocks[b] = v, !.dirty = TRUE], disk[k],
                       [accepted[k] EXCEPT ![b] = v], [updates[k] EXCEPT ![b] = v])
        BY <1>4, <2>1, <2>2, <4>3, WriteShown
      <4> QED BY <1>7, <4>1, <4>2, <4>4
    <3> QED BY <3>1, <3>2
  <2> QED BY <1>1, <1>3, <1>4, <1>5, <1>7, <2>1, <2>3 DEF SoundAt, ChunkSound
<1>9. ASSUME SetPending(k, b, v) PROVE SoundAt(k)'
  <2>1. /\ slot[k] # "ready" /\ slot'[k] = "loading"
        /\ pending'[k] = Append(pending[k], [b |-> b, state |-> v])
        /\ UNCHANGED << chunk, updates >>
    BY <1>9 DEF SetPending, RequestLoad, SafeInv, TypeInv, MapInv, MapType
  <2>2. /\ HiddenSound(k, pending[k], LoadedFor(k), disk[k], accepted[k], updates[k])
        /\ pending[k] \in Seq(Mod) /\ disk[k] \in Blocks \cup {NoFile, Torn}
        /\ LoadedFor(k) \in SUBSET ChunkObject
    BY <1>4, <2>1, LoadedForType DEF SoundAt, ChunkSound, SafeInv, TypeInv, MapInv, MapType, RestType
  <2>3. HiddenSound(k, pending'[k], LoadedFor(k), disk[k], a, updates[k])
    <3>1. HiddenSound(k, Append(pending[k], [b |-> b, state |-> v]), LoadedFor(k), disk[k],
                      [accepted[k] EXCEPT ![b] = v], updates[k])
      BY <1>4, <2>2, WriteHidden
    <3> QED BY <1>7, <2>1, <3>1
  <2> QED BY <1>1, <1>3, <1>5, <1>7, <2>1, <2>3 DEF SoundAt, ChunkSound
<1> QED BY <1>2, <1>6, <1>8, <1>9 DEF DataInv, SetBlock

\* A READY chunk is replaced, and its file perhaps, by a pair that fits.
LEMMA ShownReplaced ==
    ASSUME SafeInv, NEW k \in Chunks, slot[k] = "ready", NEW o,
           chunk' = [chunk EXCEPT ![k] = o], \A c \in Chunks : c # k => disk'[c] = disk[c],
           UNCHANGED << slot, pending, worker, done, batch, accepted, updates >>,
           ShownSound(k, o, disk'[k], accepted[k], updates[k])
    PROVE  DataInv'
<1>1. \A c : LoadedFor(c)' = LoadedFor(c)
  BY LoadedFrame
<1>2. ASSUME NEW c \in Chunks, c # k PROVE SoundAt(c)'
  BY <1>1, <1>2, SoundFrame DEF SafeInv, DataInv, TypeInv, MapInv, MapType
<1>3. SoundAt(k)'
  <2>1. chunk'[k] = o
    BY DEF SafeInv, TypeInv, MapInv, MapType
  <2>2. SoundAt(k)
    BY DEF SafeInv, DataInv
  <2> QED BY <1>1, <2>1, <2>2 DEF SoundAt, ChunkSound
<1> QED BY <1>2, <1>3 DEF DataInv

\* A READY chunk is what SoundAt says of it.
LEMMA ReadySound ==
    ASSUME SafeInv, NEW k \in Chunks, slot[k] = "ready"
    PROVE  /\ chunk[k] \in ChunkObject /\ chunk[k].at = k
           /\ ShownSound(k, chunk[k], disk[k], accepted[k], updates[k])
           /\ accepted[k] \in Blocks /\ Normalized(accepted[k]) = accepted[k]
           /\ LoadedFor(k) = {}
BY ReadyChunk DEF SafeInv, HomeInv, DataInv, SoundAt, ChunkSound, TypeInv, RestType

\* save_chunk_to_store on a READY chunk (flush, autosave, last save).
LEMMA SavedSound ==
    ASSUME SafeInv, NEW k \in Chunks, slot[k] = "ready", NEW outcome \in WriteOutcomes,
           disk' = WriteFile(disk, k, chunk[k].blocks, outcome),
           chunk' = [chunk EXCEPT ![k] = [chunk[k] EXCEPT !.dirty = (outcome # "ok")]],
           UNCHANGED << slot, pending, worker, done, batch, accepted, updates >>
    PROVE  DataInv'
<1>1. ShownSound(k, [chunk[k] EXCEPT !.dirty = (outcome # "ok")],
                 WriteFile(disk, k, chunk[k].blocks, outcome)[k], accepted[k], updates[k])
  BY ReadySound, SaveShown DEF SafeInv, TypeInv, RestType
<1>2. \A c \in Chunks : c # k => disk'[c] = disk[c]
  BY FileAssumption DEF WriteFile, SafeInv, TypeInv, RestType
<1> QED BY <1>1, <1>2, ShownReplaced

\* A READY chunk whose blocks are in its file leaves the map.
LEMMA RemovedSound ==
    ASSUME SafeInv, NEW k \in Chunks, slot[k] = "ready",
           disk'[k] = chunk[k].blocks, \A c \in Chunks : c # k => disk'[c] = disk[c],
           slot' = [slot EXCEPT ![k] = "absent"],
           pending' = [pending EXCEPT ![k] = << >>],
           chunk' = [chunk EXCEPT ![k] = NoChunk],
           UNCHANGED << worker, done, batch, accepted, updates >>
    PROVE  DataInv'
<1>1. \A c : LoadedFor(c)' = LoadedFor(c)
  BY LoadedFrame
<1>2. ASSUME NEW c \in Chunks, c # k PROVE SoundAt(c)'
  BY <1>1, <1>2, SoundFrame DEF SafeInv, DataInv, TypeInv, MapInv, MapType
<1>3. SoundAt(k)'
  <2>1. slot'[k] = "absent" /\ pending'[k] = << >>
    BY DEF SafeInv, TypeInv, MapInv, MapType
  <2>2. ShownSound(k, chunk[k], disk'[k], accepted[k], updates[k])
    <3>1. chunk[k].blocks # Torn
      BY ReadySound, FileAssumption DEF ChunkObject
    <3> QED BY <3>1, ReadySound DEF ShownSound
  <2>3. HiddenSound(k, << >>, {}, disk'[k], accepted[k], updates[k])
    BY <2>2, ReadySound, HideShown
  <2> QED BY <1>1, <2>1, <2>3, ReadySound DEF SoundAt, ChunkSound
<1> QED BY <1>2, <1>3 DEF DataInv

\* mc_world_mark_chunk_dirty_at and mc_world_flush_block.
LEMMA MarkFlushSound ==
    ASSUME SafeInv, NEW k \in Chunks, MarkDirty(k) \/ FlushBlock(k)
    PROVE  DataInv'
<1>1. UNCHANGED << slot, pending, worker, done, batch, accepted, updates >> /\ slot[k] = "ready"
  BY DEF MarkDirty, FlushBlock, loadVars, loopVars
<1>2. CASE MarkDirty(k)
  <2>1. PICK o : o = [chunk[k] EXCEPT !.dirty = TRUE]
    OBVIOUS
  <2>2. o.dirty = TRUE /\ o.blocks = chunk[k].blocks
    BY <1>1, <2>1, ReadySound DEF ChunkObject
  <2>3. chunk' = [chunk EXCEPT ![k] = o] /\ disk' = disk
    BY <1>2, <2>1 DEF MarkDirty, SafeInv, TypeInv, MapInv, MapType
  <2>4. ShownSound(k, o, disk'[k], accepted[k], updates[k])
    BY <1>1, <2>2, <2>3, ReadySound DEF ShownSound
  <2> QED BY <1>1, <2>3, <2>4, ShownReplaced
<1>3. CASE FlushBlock(k)
  <2>1. PICK outcome \in WriteOutcomes : Saved(k, outcome)
    BY <1>3 DEF FlushBlock
  <2>2. /\ disk' = WriteFile(disk, k, chunk[k].blocks, outcome)
        /\ chunk' = [chunk EXCEPT ![k] = [chunk[k] EXCEPT !.dirty = (outcome # "ok")]]
    BY <1>1, <2>1, ReadySound DEF Saved, SafeInv, TypeInv, MapInv, MapType
  <2> QED BY <1>1, <2>2, SavedSound
<1> QED BY <1>2, <1>3

-----------------------------------------------------------------------------
(* The workers.                                                            *)

\* What it is to be loaded for a chunk and not in the map yet.
LEMMA LoadedMember ==
    ASSUME NEW k, NEW o
    PROVE  o \in LoadedFor(k) <=>
              \/ \E w \in Workers : Holding(w) /\ worker[w].key = k /\ worker[w].obj = o
              \/ \E i \in Keyed(done, k) : done[i].obj = o
              \/ \E i \in Keyed(batch, k) : batch[i].obj = o
BY DEF LoadedFor, BusyOn, Busy, Holding

\* A step of a worker that holds no chunk before or after moves no object.
LEMMA WorkerFrame ==
    ASSUME UNCHANGED << done, batch >>,
           \A w \in Workers : /\ Holding(w)' <=> Holding(w)
                              /\ Holding(w) => worker'[w] = worker[w],
           NEW k
    PROVE  LoadedFor(k)' = LoadedFor(k)
<1>1. {w \in BusyOn(k) : Holding(w)}' = {w \in BusyOn(k) : Holding(w)}
  BY DEF BusyOn, Busy, Holding
<1>2. {worker[w].obj : w \in {v \in BusyOn(k) : Holding(v)}}'
        = {worker[w].obj : w \in {v \in BusyOn(k) : Holding(v)}}
  BY <1>1 DEF BusyOn
<1> QED BY <1>2 DEF LoadedFor

\* A worker taking a job, or leaving its loop.
LEMMA PopExitSound ==
    ASSUME SafeInv, NEW w \in Workers, WorkerPop(w) \/ WorkerExit(w)
    PROVE  DataInv'
<1>1. \A v \in Workers : (Holding(v)' <=> Holding(v)) /\ (Holding(v) => worker'[v] = worker[v])
  BY DEF WorkerPop, WorkerExit, Holding, Idle, Exited, SafeInv, TypeInv, RestType
<1>2. UNCHANGED << slot, chunk, pending, disk, accepted, updates, done, batch >>
  BY DEF WorkerPop, WorkerExit, mapVars, loopVars
<1>3. \A c : LoadedFor(c)' = LoadedFor(c)
  BY <1>1, <1>2, WorkerFrame
<1> QED BY <1>2, <1>3 DEF SafeInv, DataInv, SoundAt

\* While a worker is busy on a chunk, nothing else is loaded for it.
LEMMA BusyAlone ==
    ASSUME SafeInv, NEW w \in Workers, Busy(w)
    PROVE  /\ worker[w].key \in Chunks /\ slot[worker[w].key] = "loading"
           /\ BusyOn(worker[w].key) = {w}
           /\ Keyed(done, worker[w].key) = {} /\ Keyed(batch, worker[w].key) = {}
<1>1. worker[w] \in Reading \cup Loaded
  BY LoadedType DEF SafeInv, TypeInv, Busy
<1>2. PICK k \in Chunks : k = worker[w].key
  BY <1>1 DEF Reading, Loaded
<1>3. w \in BusyOn(k)
  BY <1>2 DEF BusyOn
<1>4. slot[k] = "loading" /\ OneLoad(k)
  BY <1>3 DEF SafeInv, LoadInv, NoLoad
<1> QED BY <1>2, <1>3, <1>4 DEF OneLoad, Single

\* A worker reads or generates a chunk.
LEMMA ReadSound ==
    ASSUME Undecodable = {}, SafeInv, NEW w \in Workers, WorkerRead(w)
    PROVE  DataInv'
<1>1. worker[w].pc = "read" /\ Busy(w) /\ ~Holding(w)
  BY DEF WorkerRead, Busy, Holding
<1>2. PICK k \in Chunks :
         /\ k = worker[w].key /\ slot[k] = "loading" /\ BusyOn(k) = {w}
         /\ Keyed(done, k) = {} /\ Keyed(batch, k) = {}
  BY <1>1, BusyAlone
<1>3. PICK raw : raw = IF Readable(k) /\ k \notin Unreadable THEN disk[k] ELSE Terrain
  OBVIOUS
<1>4. raw \in Blocks /\ Normalized(raw) \in Blocks
  BY <1>3, ImageType, NormalizedType, StateAssumption DEF SafeInv, TypeInv
<1>5. PICK o \in ChunkObject :
         /\ o.blocks = Normalized(raw)
         /\ o.dirty = (Normalized(raw) # raw \/ ~(Readable(k) /\ k \notin Unreadable))
         /\ worker'[w].obj = o /\ worker'[w].key = k /\ worker'[w].pc \in {"resave", "push"}
  <2>1. PICK o : o = [at |-> k, blocks |-> Normalized(raw),
                      dirty |-> Normalized(raw) # raw \/ ~(Readable(k) /\ k \notin Unreadable),
                      evict |-> FALSE]
    OBVIOUS
  <2>2. o \in ChunkObject
    BY <1>4, <2>1 DEF ChunkObject
  <2>3. worker'[w] = [pc |-> IF Normalized(raw) # raw THEN "resave" ELSE "push",
                      key |-> k, obj |-> o]
    BY <1>2, <1>3, <2>1 DEF WorkerRead, SafeInv, TypeInv, RestType
  <2> QED BY <2>1, <2>2, <2>3
<1>6. \A v \in Workers : v # w => worker'[v] = worker[v]
  BY DEF WorkerRead, SafeInv, TypeInv, RestType
<1>7. UNCHANGED << slot, chunk, pending, disk, accepted, updates, done, batch >>
  BY DEF WorkerRead, mapVars, loopVars
<1>8. LoadedFor(k) = {}
  BY <1>1, <1>2 DEF LoadedFor
<1>9. LoadedFor(k)' = {o}
  <2>1. Holding(w)' /\ BusyOn(k)' = {w}
    BY <1>2, <1>5, <1>6 DEF Holding, BusyOn, Busy
  <2>2. {v \in BusyOn(k) : Holding(v)}' = {w}
    BY <2>1
  <2>3. Keyed(done', k) = {} /\ Keyed(batch', k) = {}
    BY <1>2, <1>7
  <2> QED BY <1>5, <2>2, <2>3 DEF LoadedFor
<1>10. ASSUME NEW c \in Chunks, c # k PROVE LoadedFor(c)' = LoadedFor(c)
  <2>1. {v \in BusyOn(c) : Holding(v)}' = {v \in BusyOn(c) : Holding(v)}
    BY <1>1, <1>2, <1>5, <1>6, <1>10 DEF BusyOn, Busy, Holding
  <2>2. w \notin BusyOn(c)
    BY <1>2, <1>10 DEF BusyOn
  <2>3. {worker[v].obj : v \in {x \in BusyOn(c) : Holding(x)}}'
          = {worker[v].obj : v \in {x \in BusyOn(c) : Holding(x)}}
    BY <1>6, <2>1, <2>2 DEF BusyOn
  <2> QED BY <1>7, <2>3 DEF LoadedFor
<1>11. SoundAt(k)'
  <2>1. HiddenSound(k, pending[k], {}, disk[k], accepted[k], updates[k]) /\ SoundAt(k)
    BY <1>2, <1>8 DEF SafeInv, DataInv, SoundAt, ChunkSound
  <2>2. ~o.dirty => disk[k] = o.blocks
    BY <1>3, <1>5
  <2>3. k \in Healthy => o.blocks = FileImage(disk[k])
    BY <1>3, <1>5 DEF Healthy, FileImage, Readable
  <2>4. HiddenSound(k, pending[k], {o}, disk[k], accepted[k], updates[k])
    BY <2>1, <2>2, <2>3, LoadHidden
  <2> QED BY <1>2, <1>7, <1>9, <2>1, <2>4 DEF SoundAt, ChunkSound
<1>12. ASSUME NEW c \in Chunks, c # k PROVE SoundAt(c)'
  BY <1>7, <1>10, <1>12, SoundFrame DEF SafeInv, DataInv
<1> QED BY <1>11, <1>12 DEF DataInv

\* A worker saves the chunk whose states it rewrote.
LEMMA ResaveSound ==
    ASSUME SafeInv, NEW w \in Workers, WorkerResave(w)
    PROVE  DataInv'
<1>1. worker[w].pc = "resave" /\ Busy(w) /\ Holding(w) /\ worker[w] \in Loaded
  BY ResaveStep DEF WorkerResave, Busy, Holding, SafeInv
<1>2. PICK k \in Chunks :
         /\ k = worker[w].key /\ slot[k] = "loading" /\ BusyOn(k) = {w}
         /\ Keyed(done, k) = {} /\ Keyed(batch, k) = {}
  BY <1>1, BusyAlone
<1>3. PICK o \in ChunkObject : o = worker[w].obj /\ o.at = k
  BY <1>1, <1>2 DEF Loaded, SafeInv, HomeInv
<1>4. PICK outcome \in WriteOutcomes :
         /\ disk' = WriteFile(disk, k, o.blocks, outcome)
         /\ worker' = [worker EXCEPT ![w] =
               [worker[w] EXCEPT !.pc = "push", !.obj.dirty = (outcome # "ok")]]
  BY <1>3, ResaveStep DEF SafeInv
<1>5. PICK p : p = [o EXCEPT !.dirty = (outcome # "ok")]
  OBVIOUS
<1>6. worker'[w].obj = p /\ worker'[w].key = k /\ worker'[w].pc = "push"
  <2>1. worker'[w] = [worker[w] EXCEPT !.pc = "push", !.obj.dirty = (outcome # "ok")]
    BY <1>4 DEF SafeInv, TypeInv, RestType
  <2> QED BY <1>1, <1>2, <1>3, <1>5, <2>1 DEF Loaded
<1>7. \A v \in Workers : v # w => worker'[v] = worker[v]
  BY <1>4 DEF SafeInv, TypeInv, RestType
<1>8. UNCHANGED << slot, chunk, pending, accepted, updates, done, batch >>
  BY DEF WorkerResave, mapVars, loopVars
<1>9. LoadedFor(k) = {o}
  <2>1. {v \in BusyOn(k) : Holding(v)} = {w}
    BY <1>1, <1>2
  <2> QED BY <1>2, <1>3, <2>1 DEF LoadedFor
<1>10. LoadedFor(k)' = {p}
  <2>1. {v \in BusyOn(k) : Holding(v)}' = {w}
    BY <1>1, <1>2, <1>6, <1>7 DEF Holding, BusyOn, Busy
  <2>2. Keyed(done', k) = {} /\ Keyed(batch', k) = {}
    BY <1>2, <1>8
  <2> QED BY <1>6, <2>1, <2>2 DEF LoadedFor
<1>11. ASSUME NEW c \in Chunks, c # k PROVE LoadedFor(c)' = LoadedFor(c)
  <2>1. {v \in BusyOn(c) : Holding(v)}' = {v \in BusyOn(c) : Holding(v)}
    BY <1>2, <1>6, <1>7, <1>11 DEF BusyOn, Busy, Holding
  <2>2. w \notin BusyOn(c)
    BY <1>2, <1>11 DEF BusyOn
  <2>3. {worker[v].obj : v \in {x \in BusyOn(c) : Holding(x)}}'
          = {worker[v].obj : v \in {x \in BusyOn(c) : Holding(x)}}
    BY <1>7, <2>1, <2>2 DEF BusyOn
  <2> QED BY <1>8, <2>3 DEF LoadedFor
<1>12. SoundAt(k)'
  <2>1. HiddenSound(k, pending[k], {o}, disk[k], accepted[k], updates[k]) /\ SoundAt(k)
    BY <1>2, <1>9 DEF SafeInv, DataInv, SoundAt, ChunkSound
  <2>2. HiddenSound(k, pending[k], {p}, disk'[k], accepted[k], updates[k])
    BY <1>4, <1>5, <2>1, SaveHidden DEF SafeInv, TypeInv, RestType
  <2> QED BY <1>2, <1>8, <1>10, <2>1, <2>2 DEF SoundAt, ChunkSound
<1>13. ASSUME NEW c \in Chunks, c # k PROVE SoundAt(c)'
  <2>1. disk'[c] = disk[c]
    BY <1>4, <1>13, FileAssumption DEF WriteFile, SafeInv, TypeInv, RestType
  <2> QED BY <1>8, <1>11, <1>13, <2>1, SoundFrame DEF SafeInv, DataInv
<1> QED BY <1>12, <1>13 DEF DataInv

\* A worker hands its chunk over: the object moves to the done queue.
LEMMA PushSound ==
    ASSUME SafeInv, NEW w \in Workers, WorkerPush(w)
    PROVE  DataInv'
<1>1. worker[w] \in Loaded /\ Holding(w)
  BY LoadedType DEF WorkerPush, Holding, SafeInv, TypeInv
<1>2. PICK e \in Done : e = [key |-> worker[w].key, obj |-> worker[w].obj]
  BY <1>1 DEF Loaded, Done
<1>3. done' = Append(done, e) /\ done \in Seq(Done) /\ worker' = [worker EXCEPT ![w] = Idle]
  BY <1>2 DEF WorkerPush, SafeInv, TypeInv, RestType
<1>4. UNCHANGED << slot, chunk, pending, disk, accepted, updates, batch >>
  BY DEF WorkerPush, mapVars, loopVars
<1>5. ASSUME NEW c PROVE LoadedFor(c)' = LoadedFor(c)
  <2>1. ASSUME NEW o PROVE o \in LoadedFor(c)' <=> o \in LoadedFor(c)
    <3>1. (\E v \in Workers : Holding(v) /\ worker[v].key = c /\ worker[v].obj = o)
            <=> (\E v \in Workers : Holding(v) /\ worker[v].key = c /\ worker[v].obj = o)'
                \/ (e.key = c /\ e.obj = o)
      BY <1>1, <1>2, <1>3 DEF Holding, Idle, SafeInv, TypeInv, RestType
    <3>2. (\E i \in Keyed(done', c) : done'[i].obj = o)
            <=> (\E i \in Keyed(done, c) : done[i].obj = o) \/ (e.key = c /\ e.obj = o)
      <4>1. /\ Keyed(done', c) = IF e.key = c THEN Keyed(done, c) \cup {Len(done) + 1}
                                              ELSE Keyed(done, c)
            /\ done'[Len(done) + 1] = e
            /\ \A i \in Keyed(done, c) : done'[i] = done[i]
        BY <1>3, KeyedAppend DEF Keyed
      <4> QED BY <4>1
    <3>3. Keyed(batch', c) = Keyed(batch, c) /\ batch' = batch
      BY <1>4
    <3>4. o \in LoadedFor(c)' <=>
             \/ (\E v \in Workers : Holding(v) /\ worker[v].key = c /\ worker[v].obj = o)'
             \/ \E i \in Keyed(done', c) : done'[i].obj = o
             \/ \E i \in Keyed(batch', c) : batch'[i].obj = o
      BY DEF LoadedFor, BusyOn, Busy, Holding
    <3> QED BY <3>1, <3>2, <3>3, <3>4, LoadedMember
  <2> QED BY <2>1
<1> QED BY <1>4, <1>5 DEF SafeInv, DataInv, SoundAt

-----------------------------------------------------------------------------
(* The tick, eviction and mc_world_destroy.                                *)

\* done_queue_drain.
LEMMA DrainSound ==
    ASSUME SafeInv, TickBegin \/ DestroyJoined
    PROVE  DataInv'
<1>1. /\ batch = << >> /\ batch' = done /\ done' = << >>
      /\ UNCHANGED << slot, chunk, pending, worker, disk, accepted, updates >>
  BY DEF TickBegin, DestroyJoined, SafeInv, LoadInv, mapVars
<1>2. ASSUME NEW c PROVE LoadedFor(c)' = LoadedFor(c)
  BY <1>1 DEF LoadedFor, BusyOn, Busy, Holding, Keyed
<1> QED BY <1>1, <1>2 DEF SafeInv, DataInv, SoundAt

\* A result becomes a READY chunk with the writes that waited for it.
LEMMA IntegrateSound ==
    ASSUME SafeInv, IntegrateOne
    PROVE  DataInv'
<1>1. batch \in Seq(Done) /\ batch # << >> /\ batch' = Tail(batch)
  BY DEF IntegrateOne, SafeInv, TypeInv, RestType
<1>2. PICK h \in Done : h = Head(batch) /\ h = batch[1] /\ h.obj.at = h.key
  BY <1>1, TailElements DEF SafeInv, HomeInv
<1>3. PICK k \in Chunks : k = h.key
  BY <1>2 DEF Done
<1>4. PICK o \in ChunkObject : o = h.obj /\ o.at = k
  BY <1>2, <1>3 DEF Done
<1>5. 1 \in Keyed(batch, k)
  BY <1>1, <1>2, <1>3, KeyedTail
<1>6. slot[k] = "loading" /\ OneLoad(k)
  BY <1>5 DEF SafeInv, LoadInv, NoLoad
<1>7. LoadedFor(k) = {o}
  <2>1. BusyOn(k) = {} /\ Keyed(done, k) = {} /\ Keyed(batch, k) = {1}
    BY <1>5, <1>6 DEF OneLoad, Single
  <2> QED BY <1>2, <1>4, <2>1 DEF LoadedFor
<1>8. Integrate(k, o)
  BY <1>2, <1>3, <1>4, <1>6 DEF IntegrateOne, Discard
<1>9. UNCHANGED << worker, done, disk, accepted >>
  BY DEF IntegrateOne, loadVars
<1>10. ASSUME NEW c \in Chunks, c # k PROVE LoadedFor(c)' = LoadedFor(c)
  <2>1. Objects(batch', c) = Objects(batch, c)
    <3>1. c # Head(batch).key
      BY <1>2, <1>3, <1>10
    <3> QED BY <1>1, <3>1, KeyedTailObjects
  <2> QED BY <1>9, <2>1 DEF LoadedFor, Objects, BusyOn, Busy, Holding
<1>11. PICK c : c = [o EXCEPT !.blocks = Replay(o.blocks, pending[k]),
                              !.dirty = o.dirty \/ pending[k] # << >>]
  OBVIOUS
<1>12. /\ slot' = [slot EXCEPT ![k] = "ready"] /\ chunk' = [chunk EXCEPT ![k] = c]
       /\ pending' = [pending EXCEPT ![k] = << >>]
       /\ updates' = [updates EXCEPT ![k] = Replay(updates[k], pending[k])]
  BY <1>4, <1>8, <1>11 DEF Integrate, SafeInv, TypeInv, RestType
<1>13. SoundAt(k)'
  <2>1. /\ slot'[k] = "ready" /\ chunk'[k] = c /\ pending'[k] = << >>
        /\ updates'[k] = Replay(updates[k], pending[k])
    BY <1>12 DEF SafeInv, TypeInv, MapInv, MapType, RestType
  <2>2. LoadedFor(k)' = {}
    <3>1. LoadInv'
      BY IntegrateKeepsLoads DEF SafeInv
    <3>2. NoLoad(k)'
      BY <2>1, <3>1 DEF LoadInv
    <3> QED BY <3>2 DEF NoLoad, LoadedFor
  <2>3. HiddenSound(k, pending[k], {o}, disk[k], accepted[k], updates[k]) /\ SoundAt(k)
    BY <1>6, <1>7 DEF SafeInv, DataInv, SoundAt, ChunkSound
  <2>4. pending[k] \in Seq(Mod) /\ updates[k] \in [Locals -> States \cup {NoUpdate}]
    BY DEF SafeInv, TypeInv, MapInv, MapType, RestType
  <2>5. ShownSound(k, [o EXCEPT !.blocks = Replay(o.blocks, pending[k]),
                                !.dirty = o.dirty \/ pending[k] # << >>],
                   disk[k], accepted[k], Replay(updates[k], pending[k]))
    BY <2>3, <2>4, ShowHidden
  <2>6. ShownSound(k, c, disk[k], accepted[k], Replay(updates[k], pending[k]))
    BY <1>11, <2>5
  <2> QED BY <1>9, <2>1, <2>2, <2>3, <2>6 DEF SoundAt, ChunkSound
<1>14. ASSUME NEW d \in Chunks, d # k PROVE SoundAt(d)'
  <2>1. /\ slot'[d] = slot[d] /\ chunk'[d] = chunk[d] /\ pending'[d] = pending[d]
        /\ updates'[d] = updates[d]
    BY <1>12, <1>14 DEF SafeInv, TypeInv, MapInv, MapType, RestType
  <2> QED BY <1>9, <1>10, <1>14, <2>1, SoundFrame DEF SafeInv, DataInv
<1> QED BY <1>13, <1>14 DEF DataInv

\* The save part of a tick.
LEMMA TickSaveSound ==
    ASSUME SafeInv, TickSave
    PROVE  DataInv'
<1>1. UNCHANGED << worker, done, batch, accepted, updates >>
  BY DEF TickSave, loadVars
<1>2. CASE UNCHANGED << slot, chunk, pending, disk >>
  BY <1>1, <1>2, LoadedFrame DEF SafeInv, DataInv, SoundAt
<1>3. ASSUME NEW k \in Chunks, slot[k] = "ready", NEW next, NEW outcome \in WriteOutcomes,
             SaveAttempt(k, next, outcome)
      PROVE  DataInv'
  <2>1. /\ disk' = WriteFile(disk, k, chunk[k].blocks, outcome)
        /\ \/ /\ chunk' = [chunk EXCEPT ![k] = [chunk[k] EXCEPT !.dirty = (outcome # "ok")]]
              /\ UNCHANGED << slot, pending >>
           \/ /\ outcome = "ok"
              /\ slot' = [slot EXCEPT ![k] = "absent"]
              /\ pending' = [pending EXCEPT ![k] = << >>]
              /\ chunk' = [chunk EXCEPT ![k] = NoChunk]
    BY <1>3, SaveAttemptStep DEF SafeInv
  <2>2. CASE /\ chunk' = [chunk EXCEPT ![k] = [chunk[k] EXCEPT !.dirty = (outcome # "ok")]]
             /\ UNCHANGED << slot, pending >>
    BY <1>1, <1>3, <2>1, <2>2, SavedSound
  <2>3. CASE /\ outcome = "ok"
             /\ slot' = [slot EXCEPT ![k] = "absent"]
             /\ pending' = [pending EXCEPT ![k] = << >>]
             /\ chunk' = [chunk EXCEPT ![k] = NoChunk]
    <3>1. disk' = [disk EXCEPT ![k] = chunk[k].blocks]
      BY <2>1, <2>3 DEF WriteFile
    <3>2. disk'[k] = chunk[k].blocks /\ \A c \in Chunks : c # k => disk'[c] = disk[c]
      BY <3>1 DEF SafeInv, TypeInv, RestType
    <3> QED BY <1>1, <1>3, <2>3, <3>2, RemovedSound
  <2> QED BY <2>1, <2>2, <2>3
<1> QED BY <1>2, <1>3, TickSaveCases DEF SafeInv

\* One turn of the eviction loop.
LEMMA EvictStepSound ==
    ASSUME SafeInv, EvictStep
    PROVE  DataInv'
<1>1. UNCHANGED << worker, done, batch, accepted, updates, disk >>
  BY DEF EvictStep, loadVars
<1>2. PICK k \in Chunks :
         /\ slot[k] = "ready" /\ chunk[k] \in ChunkObject
         /\ \/ /\ \E e \in BOOLEAN : chunk' = [chunk EXCEPT ![k] = [chunk[k] EXCEPT !.evict = e]]
               /\ UNCHANGED << slot, pending >>
            \/ UNCHANGED << slot, pending, chunk >>
            \/ /\ ~chunk[k].dirty /\ k \notin keep
               /\ slot' = [slot EXCEPT ![k] = "absent"]
               /\ pending' = [pending EXCEPT ![k] = << >>]
               /\ chunk' = [chunk EXCEPT ![k] = NoChunk]
  BY EvictStepCases DEF SafeInv
<1>3. ASSUME NEW e \in BOOLEAN, chunk' = [chunk EXCEPT ![k] = [chunk[k] EXCEPT !.evict = e]],
             UNCHANGED << slot, pending >>
      PROVE  DataInv'
  <2>0. PICK o : o = [chunk[k] EXCEPT !.evict = e]
    OBVIOUS
  <2>1. o = [chunk[k] EXCEPT !.evict = e] /\ o.blocks = chunk[k].blocks /\ o.dirty = chunk[k].dirty
    BY <1>2, <2>0 DEF ChunkObject
  <2>2. ShownSound(k, o, disk'[k], accepted[k], updates[k])
    BY <1>1, <1>2, <2>1, ReadySound DEF ShownSound
  <2> QED BY <1>1, <1>2, <1>3, <2>1, <2>2, ShownReplaced
<1>4. CASE UNCHANGED << slot, pending, chunk >>
  BY <1>1, <1>4, LoadedFrame DEF SafeInv, DataInv, SoundAt
<1>5. CASE /\ ~chunk[k].dirty /\ k \notin keep
           /\ slot' = [slot EXCEPT ![k] = "absent"]
           /\ pending' = [pending EXCEPT ![k] = << >>]
           /\ chunk' = [chunk EXCEPT ![k] = NoChunk]
  <2>1. disk'[k] = chunk[k].blocks
    BY <1>1, <1>2, <1>5, ReadySound DEF ShownSound
  <2> QED BY <1>1, <1>2, <1>5, <2>1, RemovedSound
<1> QED BY <1>2, <1>3, <1>4, <1>5

\* One turn of the last save.
LEMMA DestroySaveSound ==
    ASSUME SafeInv, DestroySave
    PROVE  DataInv'
<1>1. UNCHANGED << slot, pending, worker, done, batch, accepted, updates >>
  BY DEF DestroySave, loadVars
<1>2. PICK k \in Chunks : k = chunkList[scan] /\ slot[k] = "ready"
  BY ListedChunk DEF DestroySave, SafeInv, TypeInv, RestType, MapInv, MapType
<1>3. CASE UNCHANGED << chunk, disk >>
  BY <1>1, <1>3, LoadedFrame DEF SafeInv, DataInv, SoundAt
<1>4. ASSUME NEW outcome \in WriteOutcomes, Saved(k, outcome) PROVE DataInv'
  <2>1. /\ disk' = WriteFile(disk, k, chunk[k].blocks, outcome)
        /\ chunk' = [chunk EXCEPT ![k] = [chunk[k] EXCEPT !.dirty = (outcome # "ok")]]
    BY <1>2, <1>4, ReadySound DEF Saved, SafeInv, TypeInv, MapInv, MapType
  <2> QED BY <1>1, <1>2, <1>4, <2>1, SavedSound
<1> QED BY <1>2, <1>3, <1>4 DEF DestroySave

-----------------------------------------------------------------------------
(* The theorems.                                                           *)

\* Every step keeps every chunk sound while every file decodes.
LEMMA DataNext ==
    ASSUME Undecodable = {}, SafeInv, [Next]_vars
    PROVE  DataInv'
<1>1. CASE ClearUpdates
  <2>1. \A c : LoadedFor(c)' = LoadedFor(c)
    BY <1>1, LoadedFrame DEF ClearUpdates, loadVars, loopVars
  <2>2. UNCHANGED << slot, chunk, pending, disk, accepted >>
    BY <1>1 DEF ClearUpdates, mapVars
  <2>3. \A k \in Chunks, b \in Locals : updates'[k][b] = NoUpdate
    BY <1>1 DEF ClearUpdates
  <2> QED BY <2>1, <2>2, <2>3
          DEF SafeInv, DataInv, SoundAt, ChunkSound, ShownSound, HiddenSound
<1>2. CASE \/ \E near \in SUBSET Chunks : EvictBegin(near)
           \/ EvictEnd \/ DestroyBegin \/ DestroyDrained \/ DestroyEnd \/ UNCHANGED vars
  <2>1. UNCHANGED << slot, chunk, pending, worker, done, batch, disk, accepted, updates >>
    BY <1>2 DEF EvictBegin, EvictEnd, DestroyBegin, DestroyDrained, DestroyEnd,
                vars, mapVars, loadVars, loopVars
  <2> QED BY <2>1, LoadedFrame DEF SafeInv, DataInv, SoundAt
<1> QED
  BY <1>1, <1>2, GetChunkSound, SetBlockSound, MarkFlushSound, PopExitSound, ReadSound,
     ResaveSound, PushSound, DrainSound, IntegrateSound, TickSaveSound, EvictStepSound,
     DestroySaveSound
  DEF Next, Caller, Worker, Tick, Evict, Destroy, Stopped

\* A new world is sound: nothing is loaded, and the files are all there is.
LEMMA DataInit == Init => DataInv
<1> SUFFICES ASSUME Init, NEW k \in Chunks PROVE SoundAt(k)
  BY DEF DataInv
<1>1. TypeInv
  BY InitType
<1>2. slot[k] = "absent" /\ pending[k] = << >> /\ \A b \in Locals : updates[k][b] = NoUpdate
  BY DEF Init
<1>3. LoadedFor(k) = {}
  BY LoadInit, NoneLoaded, <1>2 DEF LoadInv
<1>4. disk[k] # Torn
  BY FileAssumption DEF Init
<1>5. accepted[k] = Image(k) /\ Image(k) = FileImage(disk[k])
  BY DEF Init, Image, FileImage, Readable
<1>6. Image(k) \in Blocks
  BY <1>1, ImageType DEF TypeInv
<1>7. Normalized(Image(k)) = Image(k) /\ Replay(Image(k), << >>) = Image(k)
  <2>1. (IF Readable(k) THEN disk[k] ELSE Terrain) \in Blocks
    BY <1>1, ImageType, StateAssumption DEF TypeInv
  <2> QED BY <1>6, <2>1, NormalizedType, ReplayNothing DEF Image, Blocks
<1> QED BY <1>2, <1>3, <1>4, <1>5, <1>7 DEF SoundAt, ChunkSound, HiddenSound

\* Every chunk is sound in every reachable state while every file decodes.
LEMMA DataInvariant ==
    ASSUME Undecodable = {}
    PROVE  Spec => []SafeInv
<1>1. Init => SafeInv
  BY InitType, LoadInit, DataInit DEF SafeInv
<1>2. SafeInv /\ [Next]_vars => SafeInv'
  BY NextType, LoadNext, HomeNext, DataNext DEF SafeInv
<1> QED BY <1>1, <1>2, PTL DEF Spec

\* The image of a chunk is what FileImage says of its file.
LEMMA ImageIsFileImage == \A k : Image(k) = FileImage(disk[k])
BY DEF Image, FileImage, Readable

\* A READY chunk reflects every write the server accepted, whatever was loaded,
\* saved, refused, torn or evicted before; any other chunk still has them all.
THEOREM NoLostWriteCorrect ==
    ASSUME Undecodable = {}
    PROVE  Spec => []NoLostWrite
<1>1. SafeInv => NoLostWrite
  BY ImageIsFileImage
  DEF SafeInv, DataInv, SoundAt, ChunkSound, ShownSound, HiddenSound, NoLostWrite,
      ReadyHoldsAccepted, Healthy
<1> QED BY <1>1, DataInvariant, PTL

\* What eviction drops and the last save skips is in its file.
THEOREM CleanIsSavedCorrect ==
    ASSUME Undecodable = {}
    PROVE  Spec => []CleanIsSaved
<1>1. SafeInv => CleanIsSaved
  BY DEF SafeInv, DataInv, SoundAt, ChunkSound, ShownSound, HiddenSound, CleanIsSaved
<1> QED BY <1>1, DataInvariant, PTL

\* A file that a failed write cut short is never the only copy of its chunk.
THEOREM TornFileHasCopyCorrect ==
    ASSUME Undecodable = {}
    PROVE  Spec => []TornFileHasCopy
<1>1. SafeInv => TornFileHasCopy
  BY DEF SafeInv, DataInv, SoundAt, ChunkSound, ShownSound, HiddenSound, TornFileHasCopy,
         TypeInv, MapInv, MapType
<1> QED BY <1>1, DataInvariant, PTL

\* A queued update carries the current value of its block.
THEOREM UpdatesAreCurrentCorrect ==
    ASSUME Undecodable = {}
    PROVE  Spec => []UpdatesAreCurrent
<1>1. SafeInv => UpdatesAreCurrent
  BY ImageIsFileImage
  DEF SafeInv, DataInv, SoundAt, ChunkSound, ShownSound, HiddenSound, UpdatesAreCurrent, Healthy
<1> QED BY <1>1, DataInvariant, PTL

-----------------------------------------------------------------------------
(* The refinement of BlockStore.                                           *)

\* At most one chunk becomes READY or stops being it in a step, and only
\* mc_world_set_block, which shows and hides nothing, changes what is accepted.
LEMMA StepKinds ==
    ASSUME SafeInv, [Next]_vars
    PROVE  \/ /\ accepted' = accepted
              /\ \E k \in Chunks : \A c \in Chunks : c # k => (slot'[c] = "ready" <=> slot[c] = "ready")
           \/ /\ \E k \in Chunks, b \in Locals, v \in States :
                    accepted' = [accepted EXCEPT ![k] = [accepted[k] EXCEPT ![b] = v]]
              /\ \A c \in Chunks : slot'[c] = "ready" <=> slot[c] = "ready"
<1> DEFINE Moves == \E k \in Chunks : \A c \in Chunks : c # k => (slot'[c] = "ready" <=> slot[c] = "ready")
<1>1. ASSUME UNCHANGED slot PROVE Moves
  BY <1>1, ChunkAssumption
<1>2. ASSUME NEW k \in Chunks, NEW x, slot' = [slot EXCEPT ![k] = x] PROVE Moves
  BY <1>2 DEF SafeInv, TypeInv, MapInv, MapType
<1> HIDE DEF Moves
<1>3. ASSUME NEW k \in Chunks, NEW prio \in Priorities, GetChunk(k, prio)
      PROVE  accepted' = accepted /\ Moves
  BY <1>2, <1>3 DEF GetChunk, RequestLoad
<1>4. ASSUME NEW k \in Chunks, NEW b \in Locals, NEW s \in States, SetBlock(k, b, s)
      PROVE  /\ \E v \in States : accepted' = [accepted EXCEPT ![k] = [accepted[k] EXCEPT ![b] = v]]
             /\ \A c \in Chunks : slot'[c] = "ready" <=> slot[c] = "ready"
  <2>1. Norm[s] \in States
    BY StateAssumption
  <2>2. accepted' = [accepted EXCEPT ![k] = [accepted[k] EXCEPT ![b] = Norm[s]]]
    BY <1>4 DEF SetBlock, SafeInv, TypeInv, RestType
  <2>3. \A c \in Chunks : slot'[c] = "ready" <=> slot[c] = "ready"
    BY <1>4 DEF SetBlock, SetReady, SetPending, RequestLoad, SafeInv, TypeInv, MapInv, MapType
  <2> QED BY <2>1, <2>2, <2>3
<1>5. CASE IntegrateOne
  <2>1. Head(batch) \in Done
    BY <1>5, TailElements DEF IntegrateOne, SafeInv, TypeInv, RestType
  <2>2. PICK k \in Chunks : k = Head(batch).key
    BY <2>1 DEF Done
  <2>3. UNCHANGED slot \/ slot' = [slot EXCEPT ![k] = "ready"]
    BY <1>5, <2>2 DEF IntegrateOne, Integrate, Discard, mapVars
  <2> QED BY <1>1, <1>2, <1>5, <2>3 DEF IntegrateOne, Moves
<1>6. CASE TickSave
  <2>1. CASE UNCHANGED << slot, chunk, pending, disk >>
    BY <1>1, <1>6, <2>1 DEF TickSave, Moves
  <2>2. ASSUME NEW k \in Chunks, slot[k] = "ready", NEW next, NEW outcome \in WriteOutcomes,
               SaveAttempt(k, next, outcome)
        PROVE  Moves
    <3>1. UNCHANGED slot \/ slot' = [slot EXCEPT ![k] = "absent"]
      BY <2>2, SaveAttemptStep DEF SafeInv
    <3> QED BY <1>1, <1>2, <3>1
  <2> QED BY <1>6, <2>1, <2>2, TickSaveCases DEF SafeInv, TickSave, Moves
<1>7. CASE EvictStep
  <2>1. PICK k \in Chunks : UNCHANGED slot \/ slot' = [slot EXCEPT ![k] = "absent"]
    BY <1>7, EvictStepCases DEF SafeInv
  <2> QED BY <1>1, <1>2, <1>7, <2>1 DEF EvictStep, Moves
<1>8. ASSUME UNCHANGED << slot, accepted >> PROVE accepted' = accepted /\ Moves
  BY <1>1, <1>8
<1>9. CASE \/ \E k \in Chunks : MarkDirty(k) \/ FlushBlock(k)
           \/ \E w \in Workers : Worker(w)
           \/ TickBegin \/ ClearUpdates
           \/ (\E near \in SUBSET Chunks : EvictBegin(near)) \/ EvictEnd
           \/ Destroy \/ Stopped \/ UNCHANGED vars
  BY <1>8, <1>9
  DEF MarkDirty, FlushBlock, Worker, WorkerPop, WorkerRead, WorkerResave, WorkerPush, WorkerExit,
      TickBegin, ClearUpdates, EvictBegin, EvictEnd, Destroy, DestroyBegin, DestroyJoined,
      DestroyDrained, DestroySave, DestroyEnd, Stopped, vars, mapVars, Moves
<1> QED BY <1>3, <1>4, <1>5, <1>6, <1>7, <1>9 DEF Next, Caller, Tick, Evict, Moves

\* The abstract view shows what was accepted of the READY chunks.
ViewInv == View = [k \in Healthy |-> IF slot[k] = "ready" THEN accepted[k] ELSE NoChunk]

\* The view of a sound state is that, and no accepted chunk is the hidden one.
LEMMA ViewShown ==
    ASSUME SafeInv
    PROVE  /\ ViewInv
           /\ Store \in [Healthy -> Blocks]
           /\ \A k \in Healthy : k \in Chunks /\ accepted[k] # NoChunk
<1>1. \A k \in Healthy : k \in Chunks /\ accepted[k] \in Blocks
  BY DEF Healthy, SafeInv, TypeInv, RestType
<1>2. \A k \in Healthy : slot[k] = "ready" => chunk[k].blocks = accepted[k]
  BY <1>1 DEF SafeInv, DataInv, SoundAt, ChunkSound, ShownSound
<1> QED BY <1>1, <1>2, NoChunkAssumption DEF ViewInv, View, Store

\* The world is a block store: every step is a write, a chunk shown or hidden,
\* or invisible.
THEOREM ImplementsBlockStoreCorrect ==
    ASSUME Undecodable = {}
    PROVE  Spec => ImplementsBlockStore
<1>1. Init => Abstract!BSInit
  <2> SUFFICES ASSUME Init PROVE Abstract!BSInit
    OBVIOUS
  <2>1. SafeInv
    BY InitType, LoadInit, DataInit DEF SafeInv
  <2>2. View = [k \in Healthy |-> NoChunk]
    BY DEF View, Init, Healthy
  <2>3. Store \in [Healthy -> Blocks]
    BY <2>1, ViewShown
  <2> QED BY <2>2, <2>3 DEF Abstract!BSInit, Blocks
<1>2. SafeInv => ViewInv
  BY ViewShown
<1>3. SafeInv' => ViewInv'
  BY <1>2, PTL
<1>4. SafeInv /\ SafeInv' /\ [Next]_vars => [Abstract!BSNext]_(Abstract!bsVars)
  <2> SUFFICES ASSUME SafeInv, SafeInv', [Next]_vars
               PROVE  Abstract!BSNext \/ UNCHANGED << Store, View >>
    BY DEF Abstract!bsVars
  <2>1. /\ View = [k \in Healthy |-> IF slot[k] = "ready" THEN accepted[k] ELSE NoChunk]
        /\ \A k \in Healthy : k \in Chunks /\ accepted[k] # NoChunk
    BY ViewShown DEF ViewInv
  <2>2. View' = [k \in Healthy |-> IF slot'[k] = "ready" THEN accepted'[k] ELSE NoChunk]
    BY <1>3 DEF ViewInv, Healthy
  <2>3. Store = [k \in Healthy |-> accepted[k]] /\ Store' = [k \in Healthy |-> accepted'[k]]
    BY DEF Store, Healthy
  <2>4. ASSUME NEW k \in Chunks, accepted' = accepted,
               \A c \in Chunks : c # k => (slot'[c] = "ready" <=> slot[c] = "ready")
        PROVE  Abstract!BSNext \/ UNCHANGED << Store, View >>
    <3>1. Store' = Store
      BY <2>3, <2>4
    <3>2. CASE k \notin Healthy \/ (slot'[k] = "ready" <=> slot[k] = "ready")
      BY <2>1, <2>2, <2>4, <3>1, <3>2
    <3>3. CASE k \in Healthy /\ slot'[k] = "ready" /\ slot[k] # "ready"
      <4>1. View[k] = NoChunk /\ View' = [View EXCEPT ![k] = Store[k]]
        BY <2>1, <2>2, <2>3, <2>4, <3>3
      <4> QED BY <3>1, <3>3, <4>1 DEF Abstract!BSNext, Abstract!Show
    <3>4. CASE k \in Healthy /\ slot'[k] # "ready" /\ slot[k] = "ready"
      <4>1. View[k] # NoChunk /\ View' = [View EXCEPT ![k] = NoChunk]
        BY <2>1, <2>2, <2>4, <3>4
      <4> QED BY <3>1, <3>4, <4>1 DEF Abstract!BSNext, Abstract!Hide
    <3> QED BY <3>2, <3>3, <3>4
  <2>5. ASSUME NEW k \in Chunks, NEW b \in Locals, NEW v \in States,
               accepted' = [accepted EXCEPT ![k] = [accepted[k] EXCEPT ![b] = v]],
               \A c \in Chunks : slot'[c] = "ready" <=> slot[c] = "ready"
        PROVE  Abstract!BSNext \/ UNCHANGED << Store, View >>
    <3>1. accepted \in [Chunks -> Blocks]
      BY DEF SafeInv, TypeInv, RestType
    <3>2. CASE k \notin Healthy
      <4>1. \A c \in Healthy : accepted'[c] = accepted[c]
        BY <2>1, <2>5, <3>1, <3>2
      <4> QED BY <2>1, <2>2, <2>3, <2>5, <4>1
    <3>3. CASE k \in Healthy
      <4>1. Store' = [Store EXCEPT ![k] = [Store[k] EXCEPT ![b] = v]]
        BY <2>1, <2>3, <2>5, <3>1, <3>3
      <4>2. View' = IF View[k] = NoChunk THEN View ELSE [View EXCEPT ![k] = Store'[k]]
        BY <2>1, <2>2, <2>3, <2>5, <3>1, <3>3
      <4> QED BY <3>3, <4>1, <4>2 DEF Abstract!BSNext, Abstract!Write
    <3> QED BY <3>2, <3>3
  <2> QED BY <2>4, <2>5, StepKinds
<1> QED BY <1>1, <1>4, DataInvariant, PTL DEF Spec, ImplementsBlockStore, Abstract!BSSpec

=============================================================================
