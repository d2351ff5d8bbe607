----------------------------- MODULE GoodsProofs -----------------------------
(***************************************************************************)
(* Goods in windows, for every number of players, containers, window ids   *)
(* and main cells and every stack size: they are made or lost only where a *)
(* stale click is copied.                                                  *)
(*                                                                         *)
(* Total is taken apart into the shares of the players, of the containers  *)
(* and of the ground, and each action of Windows.tla moves goods among     *)
(* these.  A click whose packet crossed none of the server's is true of    *)
(* the window it is handled in (ByIds).                                    *)
(*                                                                         *)
(* Then what a client shows when nothing is under way: for every client    *)
(* the views it will have as it receives what is sent are followed to the  *)
(* last, which is the server's inventory and window (RestInv).             *)
(***************************************************************************)
EXTENDS WindowProofs

-----------------------------------------------------------------------------
(* The goods there are, as sums.                                           *)

\* Empty cells hold nothing.
LEMMA AmountOfNothing ==
    ASSUME NEW U, IsFiniteSet(U), NEW f, \A x \in U : f[x] = Nothing
    PROVE  Amount(f, U) = 0
<1> DEFINE Q == {T \in SUBSET U : Amount(f, T) = 0}
<1>1. {} \in Q
  BY AmountOfNone
<1>2. \A T \in SUBSET U, x \in U : T \in Q /\ x \notin T => T \cup {x} \in Q
  <2> SUFFICES ASSUME NEW T \in SUBSET U, NEW x \in U, T \in Q, x \notin T PROVE T \cup {x} \in Q
    OBVIOUS
  <2>1. IsFiniteSet(T) /\ Amount(f, T) = 0 /\ \A y \in T \cup {x} : f[y] \in Stacks
    BY FS_Subset, NothingIs
  <2>2. Amount(f, T \cup {x}) = Amount(f, T) + f[x].n
    BY <2>1, AmountBut
  <2>3. f[x].n = 0
    BY NothingIs
  <2> QED BY <2>1, <2>2, <2>3
<1>3. U \in Q
  <2> HIDE DEF Q
  <2> QED BY <1>1, <1>2, GrowSet
<1> QED BY <1>3

\* The goods in a box are the amount in its cells.
LEMMA InBoxIs ==
    ASSUME NEW f, \A x \in BoxCells : f[x] \in Stacks
    PROVE  Amount(f, BoxCells) = InBox(f) /\ InBox(f) \in Nat
<1>1. BoxCells = {"in"} \cup {"out"} /\ "out" \notin {"in"} /\ IsFiniteSet({"in"}) /\ IsFiniteSet({})
      /\ {"in"} = {} \cup {"in"}
  BY FS_Singleton, FS_EmptySet DEF BoxCells
<1>2. f["in"] \in Stacks /\ f["out"] \in Stacks
  BY <1>1
<1>3. \A y \in {"in"} \cup {"out"} : f[y] \in Stacks
  BY <1>1
<1>4. Amount(f, {"in"} \cup {"out"}) = Amount(f, {"in"}) + f["out"].n /\ f["out"].n \in Nat
  BY <1>1, <1>3, AmountBut
<1>5. Amount(f, {} \cup {"in"}) = Amount(f, {}) + f["in"].n /\ f["in"].n \in Nat
  <2>1. "in" \notin {} /\ \A y \in {} \cup {"in"} : f[y] \in Stacks
    BY <1>2
  <2> QED BY <1>1, <2>1, AmountBut
<1>6. Amount(f, {}) = 0
  BY AmountOfNone
<1>7. Amount(f, BoxCells) = f["in"].n + f["out"].n
  BY <1>1, <1>4, <1>5, <1>6
<1> QED BY <1>4, <1>5, <1>7 DEF InBox

\* An empty box holds nothing.
LEMMA InEmptyBox == InBox(EmptyBox) = 0
<1>1. EmptyBox["in"] = Nothing /\ EmptyBox["out"] = Nothing
  BY DEF EmptyBox, BoxCells
<1> QED BY <1>1, NothingIs DEF InBox

\* What emptying cell x takes away.
LEMMA EmptiedFalls ==
    ASSUME NEW D, NEW U \in SUBSET D, IsFiniteSet(U), NEW x \in U, NEW f \in [D -> Stacks]
    PROVE  /\ Amount(Emptied(f, {x}), U) + f[x].n = Amount(f, U)
           /\ Amount(Emptied(f, {x}), U) \in Nat /\ f[x].n \in Nat /\ Amount(f, {x}) = f[x].n
<1> DEFINE g == Emptied(f, {x})
           V == U \ {x}
<1>1. g \in [D -> Stacks] /\ g[x] = Nothing /\ \A y \in V : g[y] = f[y]
  <2>1. \A y \in D : Emptied(f, {x})[y] = IF y \in {x} THEN Nothing ELSE f[y]
    BY EmptiedIs
  <2>2. g \in [D -> Stacks]
    BY EmptiedIs
  <2> HIDE DEF g
  <2> QED BY <2>1, <2>2 DEF g
<1> HIDE DEF g
<1>2. IsFiniteSet(V) /\ x \notin V /\ U = V \cup {x}
  BY FS_Subset
<1> HIDE DEF V
<1>3. \A y \in U : f[y] \in Stacks /\ g[y] \in Stacks
  BY <1>1
<1>4. Amount(f, U) = Amount(f, V) + f[x].n /\ Amount(f, V) \in Nat /\ f[x].n \in Nat
  BY <1>2, <1>3, AmountBut
<1>5. Amount(g, U) = Amount(g, V) + g[x].n
  BY <1>2, <1>3, AmountBut
<1>6. Amount(g, V) = Amount(f, V)
  <2>1. \A y \in V : f[y] \in Stacks /\ g[y].n = f[y].n
    BY <1>1, <1>2, <1>3
  <2> QED BY <1>2, <2>1, AmountSame
<1>7. g[x].n = 0
  BY <1>1, NothingIs
<1>8. Amount(f, {x}) = f[x].n
  <2>1. {x} = {} \cup {x} /\ x \notin {} /\ IsFiniteSet({}) /\ \A y \in {} \cup {x} : f[y] \in Stacks
    BY <1>3, FS_EmptySet
  <2>2. Amount(f, {} \cup {x}) = Amount(f, {}) + f[x].n
    BY <2>1, AmountBut
  <2> QED BY <1>4, <2>1, <2>2, AmountOfNone
<1> QED BY <1>4, <1>5, <1>6, <1>7, <1>8 DEF g

\* What a player of life l with window w, inventory v, ender chest stack e and
\* file s has; and what is in the container at p.
PlayerGoods(l, w, v, e, s) ==
    IF l = "off" THEN Amount(s.inv, Kept) + s.ender.n
    ELSE Amount(v, Kept) + e.n + (IF w.kind = "table" THEN w.box["in"].n ELSE 0)
Mine(c) == PlayerGoods(life[c], win[c], inv[c], ender[c], file[c])
InEntity(p) == IF block[p] \in Stored /\ be[p] # NoBox THEN InBox(be[p]) ELSE 0
There(p) == IF p \in shared THEN Held(p) ELSE InEntity(p)
AllMine == SumFunctionOnSet([c \in Conn |-> Mine(c)], Conn)
AllThere == SumFunctionOnSet([p \in Pos |-> There(p)], Pos)

\* What a player owns is a number.
LEMMA PlayerIs ==
    ASSUME NEW f, \A x \in Kept : f[x] \in Stacks, NEW e \in Stacks
    PROVE  OfPlayer(f, e) = Amount(f, Kept) + e.n /\ Amount(f, Kept) \in Nat /\ e.n \in Nat
<1>1. Kept = (MainCells \cup {"grid"}) \cup {"cursor"} /\ "grid" \notin MainCells
      /\ "cursor" \notin MainCells \cup {"grid"}
  BY CellsAre
<1>2. IsFiniteSet(MainCells) /\ IsFiniteSet(MainCells \cup {"grid"})
  BY MainIsFinite, FS_AddElement
<1>3. Amount(f, Kept) = Amount(f, MainCells \cup {"grid"}) + f["cursor"].n /\ f["cursor"].n \in Nat
  BY <1>1, <1>2, AmountBut
<1>4. Amount(f, MainCells \cup {"grid"}) = Amount(f, MainCells) + f["grid"].n /\ f["grid"].n \in Nat
      /\ Amount(f, MainCells) \in Nat
  <2>1. \A y \in MainCells \cup {"grid"} : f[y] \in Stacks
    BY <1>1
  <2> QED BY <1>1, <1>2, <2>1, AmountBut
<1>5. e.n \in Nat
  BY StackIs, Sizes
<1>6. OfPlayer(f, e) = f["grid"].n + f["cursor"].n + e.n + Amount(f, MainCells)
  BY OfPlayerIs
<1> QED BY <1>3, <1>4, <1>5, <1>6

\* Goods is the share of a player.
LEMMA GoodsIs == Typed => \A c \in Conn : Goods(c) = Mine(c) /\ Mine(c) \in Nat
<1> SUFFICES ASSUME Typed, NEW c \in Conn PROVE Goods(c) = Mine(c) /\ Mine(c) \in Nat
  OBVIOUS
<1>1. /\ inv[c] \in Inventories /\ ender[c] \in Stacks /\ file[c].inv \in Inventories
      /\ file[c].ender \in Stacks /\ win[c] \in Windows
  BY DEF Typed, GoodsTyped, WorldTyped
<1>2. (\A x \in Kept : inv[c][x] \in Stacks) /\ (\A x \in Kept : file[c].inv[x] \in Stacks)
  BY <1>1, CellsAre DEF Inventories
<1>3. OfPlayer(inv[c], ender[c]) = Amount(inv[c], Kept) + ender[c].n /\ Amount(inv[c], Kept) \in Nat /\ ender[c].n \in Nat
  BY <1>1, <1>2, PlayerIs
<1>4. OfPlayer(file[c].inv, file[c].ender) = Amount(file[c].inv, Kept) + file[c].ender.n
      /\ Amount(file[c].inv, Kept) \in Nat /\ file[c].ender.n \in Nat
  BY <1>1, <1>2, PlayerIs
<1>5. win[c].box["in"].n \in Nat
  <2>1. win[c].box["in"] \in Stacks
    BY <1>1, WindowIs DEF Boxes, BoxCells
  <2> QED BY <2>1, StackIs, Sizes
<1>6. CASE life[c] = "off"
  BY <1>4, <1>6 DEF Goods, Mine, PlayerGoods
<1>7. CASE life[c] # "off" /\ win[c].kind = "table"
  BY <1>3, <1>5, <1>7 DEF Goods, Mine, PlayerGoods
<1>8. CASE life[c] # "off" /\ win[c].kind # "table"
  BY <1>3, <1>5, <1>8 DEF Goods, Mine, PlayerGoods
<1> QED BY <1>6, <1>7, <1>8

\* Held is the share of a container.
LEMMA HeldIs == Typed /\ Durable => \A p \in Pos : Held(p) = There(p) /\ There(p) \in Nat
<1> SUFFICES ASSUME Typed, Durable, NEW p \in Pos PROVE Held(p) = There(p) /\ There(p) \in Nat
  OBVIOUS
<1>1. be[p] \in Boxes \cup {NoBox} /\ \A c \in Conn : win[c] \in Windows
  BY DEF Typed, WorldTyped
<1>2. be[p] # NoBox => InBox(be[p]) \in Nat
  BY <1>1, SmeltedIs
<1>3. InEntity(p) \in Nat
  BY <1>2 DEF InEntity
<1> DEFINE users == Viewers(p, block[p])
<1>4. CASE block[p] \notin Stored
  <2>1. Held(p) = 0 /\ InEntity(p) = 0
    BY <1>4 DEF Held, InEntity
  <2> QED BY <2>1 DEF There
<1>5. CASE block[p] \in Stored /\ users # {}
  <2> DEFINE d == CHOOSE c \in users : TRUE
  <2>1. d \in users
    BY <1>5
  <2>2. Held(p) = InBox(win[d].box)
    BY <1>5 DEF Held
  <2> HIDE DEF d
  <2>3. d \in Conn /\ win[d].pos = p /\ win[d].kind = block[p]
    BY <2>1 DEF Viewers
  <2>4. CASE p \in shared
    <3>1. win[d].box \in Boxes
      BY <1>1, <2>3, WindowIs
    <3>2. InBox(win[d].box) \in Nat
      BY <3>1, SmeltedIs
    <3> QED BY <2>2, <2>4, <3>2 DEF There
  <2>5. CASE p \notin shared
    <3>1. be[p] # NoBox /\ InBox(be[p]) = InBox(win[d].box)
      BY <1>5, <2>3, <2>5 DEF Durable, Backed, BackedBy
    <3> QED BY <1>3, <1>5, <2>2, <2>5, <3>1 DEF There, InEntity
  <2> QED BY <2>4, <2>5
<1>6. CASE block[p] \in Stored /\ users = {}
  <2>1. Held(p) = IF be[p] = NoBox THEN 0 ELSE InBox(be[p])
    BY <1>6 DEF Held
  <2>2. Held(p) = InEntity(p)
    BY <1>6, <2>1 DEF InEntity
  <2> QED BY <1>3, <2>2 DEF There
<1> QED BY <1>4, <1>5, <1>6

\* The walks by which Total sums.
GoodsWalk(it) ==
    it = [s \in SUBSET Conn |->
            IF s = {} THEN 0 ELSE LET x == CHOOSE x \in s : TRUE IN Goods(x) + it[s \ {x}]]
HeldWalk(it) ==
    it = [s \in SUBSET Pos |->
            IF s = {} THEN 0 ELSE LET x == CHOOSE x \in s : TRUE IN Held(x) + it[s \ {x}]]

\* The sum of what the players have.
LEMMA GoodsSum == MapThenSumSet(Goods, Conn) = (CHOOSE it : GoodsWalk(it))[Conn]
BY Zenon DEF MapThenSumSet, MapThenFoldSet, GoodsWalk

\* The sum of what the containers hold.
LEMMA HeldSum == MapThenSumSet(Held, Pos) = (CHOOSE it : HeldWalk(it))[Pos]
BY Zenon DEF MapThenSumSet, MapThenFoldSet, HeldWalk

\* The players have a number of goods.
LEMMA AllMineIs == ASSUME \A c \in Conn : Goods(c) = Mine(c) /\ Mine(c) \in Nat
                   PROVE  MapThenSumSet(Goods, Conn) = AllMine /\ AllMine \in Nat
<1> DEFINE h == [c \in Conn |-> Mine(c)]
           it == CHOOSE it : GoodsWalk(it)
<1>1. \A x \in Conn : h[x] \in Nat /\ h[x] = Goods(x)
  OBVIOUS
<1>2. IsFiniteSet(Conn)
  BY Sizes
<1> HIDE DEF h
<1>3. PICK g : SumWalk(g, Conn, h)
  BY <1>1, <1>2, SumsUpExists
<1>4. \A s \in SUBSET Conn : s # {} => (CHOOSE x \in s : TRUE) \in s
  OBVIOUS
<1>5. GoodsWalk(g)
  <2>1. g = [s \in SUBSET Conn |-> IF s = {} THEN 0
                  ELSE LET x == CHOOSE x \in s : TRUE IN h[x] + g[s \ {x}]]
    BY <1>3 DEF SumWalk
  <2>2. \A s \in SUBSET Conn : s # {} => h[CHOOSE x \in s : TRUE] = Goods(CHOOSE x \in s : TRUE)
    BY <1>1, <1>4
  <2>3. g = [s \in SUBSET Conn |-> IF s = {} THEN 0
                  ELSE LET x == CHOOSE x \in s : TRUE IN Goods(x) + g[s \ {x}]]
    BY <2>1, <2>2
  <2> QED BY <2>3 DEF GoodsWalk
<1>6. GoodsWalk(it)
  <2> DEFINE E(k) == GoodsWalk(k)
  <2>1. \E k : E(k)
    BY <1>5
  <2>2. E(CHOOSE k : E(k))
    <3> HIDE DEF E
    <3> QED BY <2>1
  <2> QED BY <2>2
<1> HIDE DEF it
<1>7. SumsUp(it, Conn, h)
  <2>1. it = [s \in SUBSET Conn |-> IF s = {} THEN 0
                  ELSE LET x == CHOOSE x \in s : TRUE IN Goods(x) + it[s \ {x}]]
    BY <1>6 DEF GoodsWalk
  <2>2. it[{}] = 0
    BY <2>1
  <2>3. \A s \in SUBSET Conn : s # {} => it[s] = Goods(CHOOSE x \in s : TRUE) + it[s \ {CHOOSE x \in s : TRUE}]
    BY <2>1
  <2>4. \A s \in SUBSET Conn : s # {} => h[CHOOSE x \in s : TRUE] = Goods(CHOOSE x \in s : TRUE)
    BY <1>1, <1>4
  <2> QED BY <1>4, <2>2, <2>3, <2>4 DEF SumsUp
<1>8. it[Conn] = SumFunctionOnSet(h, Conn)
  BY <1>1, <1>2, <1>7, SumsUpIsSum
<1>9. SumFunctionOnSet(h, Conn) \in Nat
  BY <1>1, <1>2, SumIsNat
<1> QED BY <1>8, <1>9, GoodsSum DEF AllMine, h, it

\* The containers hold a number of goods.
LEMMA AllThereIs == ASSUME \A c \in Pos : Held(c) = There(c) /\ There(c) \in Nat
                    PROVE  MapThenSumSet(Held, Pos) = AllThere /\ AllThere \in Nat
<1> DEFINE h == [c \in Pos |-> There(c)]
           it == CHOOSE it : HeldWalk(it)
<1>1. \A x \in Pos : h[x] \in Nat /\ h[x] = Held(x)
  OBVIOUS
<1>2. IsFiniteSet(Pos)
  BY Sizes
<1> HIDE DEF h
<1>3. PICK g : SumWalk(g, Pos, h)
  BY <1>1, <1>2, SumsUpExists
<1>4. \A s \in SUBSET Pos : s # {} => (CHOOSE x \in s : TRUE) \in s
  OBVIOUS
<1>5. HeldWalk(g)
  <2>1. g = [s \in SUBSET Pos |-> IF s = {} THEN 0
                  ELSE LET x == CHOOSE x \in s : TRUE IN h[x] + g[s \ {x}]]
    BY <1>3 DEF SumWalk
  <2>2. \A s \in SUBSET Pos : s # {} => h[CHOOSE x \in s : TRUE] = Held(CHOOSE x \in s : TRUE)
    BY <1>1, <1>4
  <2>3. g = [s \in SUBSET Pos |-> IF s = {} THEN 0
                  ELSE LET x == CHOOSE x \in s : TRUE IN Held(x) + g[s \ {x}]]
    BY <2>1, <2>2
  <2> QED BY <2>3 DEF HeldWalk
<1>6. HeldWalk(it)
  <2> DEFINE E(k) == HeldWalk(k)
  <2>1. \E k : E(k)
    BY <1>5
  <2>2. E(CHOOSE k : E(k))
    <3> HIDE DEF E
    <3> QED BY <2>1
  <2> QED BY <2>2
<1> HIDE DEF it
<1>7. SumsUp(it, Pos, h)
  <2>1. it = [s \in SUBSET Pos |-> IF s = {} THEN 0
                  ELSE LET x == CHOOSE x \in s : TRUE IN Held(x) + it[s \ {x}]]
    BY <1>6 DEF HeldWalk
  <2>2. it[{}] = 0
    BY <2>1
  <2>3. \A s \in SUBSET Pos : s # {} => it[s] = Held(CHOOSE x \in s : TRUE) + it[s \ {CHOOSE x \in s : TRUE}]
    BY <2>1
  <2>4. \A s \in SUBSET Pos : s # {} => h[CHOOSE x \in s : TRUE] = Held(CHOOSE x \in s : TRUE)
    BY <1>1, <1>4
  <2> QED BY <1>4, <2>2, <2>3, <2>4 DEF SumsUp
<1>8. it[Pos] = SumFunctionOnSet(h, Pos)
  BY <1>1, <1>2, <1>7, SumsUpIsSum
<1>9. SumFunctionOnSet(h, Pos) \in Nat
  BY <1>1, <1>2, SumIsNat
<1> QED BY <1>8, <1>9, HeldSum DEF AllThere, h, it

OnGround == ground[Raw] + ground[Made]

\* All the goods there are, and that they can be counted.
TotalAdds ==
    /\ Total = AllMine + AllThere + OnGround
    /\ AllMine \in Nat /\ AllThere \in Nat /\ OnGround \in Nat
    /\ \A c \in Conn : Mine(c) \in Nat
    /\ \A p \in Pos : There(p) \in Nat

\* Total is what the players have, what the containers hold and what lies on the ground.
LEMMA TotalIs == Typed /\ Durable => TotalAdds
<1> SUFFICES ASSUME Typed, Durable PROVE TotalAdds
  OBVIOUS
<1>1. MapThenSumSet(Goods, Conn) = AllMine /\ AllMine \in Nat
  BY GoodsIs, AllMineIs
<1>2. MapThenSumSet(Held, Pos) = AllThere /\ AllThere \in Nat
  BY HeldIs, AllThereIs
<1>3. ground[Raw] \in Nat /\ ground[Made] \in Nat
  BY DEF Typed, GoodsTyped, Items
<1>4. Total = AllMine + AllThere + ground[Raw] + ground[Made]
  BY <1>1, <1>2, Zenon DEF Total
<1>5. Total = AllMine + AllThere + OnGround /\ OnGround \in Nat
  BY <1>1, <1>2, <1>3, <1>4 DEF OnGround
<1> QED BY <1>1, <1>2, <1>5, GoodsIs, HeldIs DEF TotalAdds

\* A step that leaves the shared containers alone.
Calm == \A p \in Pos : p \in shared \cup shared' =>
    /\ be'[p] = be[p] /\ block'[p] = block[p] /\ There(p)' = There(p)
    /\ \A c \in Conn : c \in Users(p) \cup Users(p)' => win'[c] = win[c] /\ life'[c] = life[c]

\* Such a step between two states in which the goods can be counted.
Counts == TotalAdds /\ TotalAdds' /\ Calm

\* What There says of a container is what the players find in it.
HeldThere == \A p \in Pos : Held(p) = There(p)

\* In a typed and durable step Total can be counted in these parts.
LEMMA StepCounts == Typed /\ Durable /\ (Typed /\ Durable)' /\ ~TouchesShared => Counts
<1>1. Typed /\ Durable => TotalAdds
  BY TotalIs
<1>2. (Typed /\ Durable)' => TotalAdds'
  BY <1>1, PTL
<1>7. Typed /\ Durable => HeldThere
  BY HeldIs DEF HeldThere
<1>8. (Typed /\ Durable)' => HeldThere'
  BY <1>7, PTL
<1>3. Typed /\ Durable => \A p \in Pos : Held(p) = There(p)
  BY <1>7 DEF HeldThere
<1>4. (Typed /\ Durable)' => \A p \in Pos : Held(p)' = There(p)'
  BY <1>8 DEF HeldThere
<1>5. ASSUME Typed, Durable, (Typed /\ Durable)', ~TouchesShared PROVE Calm
  <2> SUFFICES ASSUME NEW p \in Pos, p \in shared \cup shared'
               PROVE  /\ be'[p] = be[p] /\ block'[p] = block[p] /\ There(p)' = There(p)
                      /\ \A c \in Conn : c \in Users(p) \cup Users(p)' => win'[c] = win[c] /\ life'[c] = life[c]
    BY DEF Calm
  <2>1. /\ be'[p] = be[p] /\ block'[p] = block[p]
        /\ \A c \in Users(p) \cup Users(p)' : win'[c] = win[c] /\ life'[c] = life[c]
    BY <1>5 DEF TouchesShared
  <2>2. CASE block[p] \notin Stored
    BY <1>3, <1>4, <1>5, <2>1, <2>2 DEF Held
  <2>3. CASE block[p] \in Stored
    <3>1. ASSUME NEW c \in Conn PROVE c \in Viewers(p, block[p]) <=> c \in Viewers(p, block[p])'
      <4>1. CASE c \in Viewers(p, block[p])
        <5>1. c \in Users(p)
          BY <2>3, <4>1 DEF Viewers, Users
        <5> QED BY <2>1, <4>1, <5>1 DEF Viewers, Open
      <4>2. CASE c \in Viewers(p, block[p])'
        <5>1. c \in Users(p)'
          BY <2>1, <2>3, <4>2 DEF Viewers, Users
        <5> QED BY <2>1, <4>2, <5>1 DEF Viewers, Open
      <4> QED BY <4>1, <4>2
    <3>2. Viewers(p, block[p])' = Viewers(p, block[p])
      BY <3>1 DEF Viewers
    <3> DEFINE V == Viewers(p, block[p])
    <3>3. CASE V = {}
      BY <1>3, <1>4, <1>5, <2>1, <2>3, <3>2, <3>3 DEF Held
    <3>4. CASE V # {}
      <4> DEFINE d == CHOOSE c \in V : TRUE
      <4>1. d \in V
        BY <3>4
      <4>2. Held(p) = InBox(win[d].box)
        BY <2>3, <3>4 DEF Held
      <4>3. Held(p)' = InBox(win'[d].box)
        <5>1. Held(p)' = InBox(win'[CHOOSE c \in Viewers(p, block[p])' : TRUE].box)
          BY <2>1, <2>3, <3>2, <3>4, Zenon DEF Held, InBox
        <5> QED BY <3>2, <5>1, Zenon
      <4> HIDE DEF d
      <4>4. d \in Users(p)
        BY <2>3, <4>1 DEF Viewers, Users
      <4> QED BY <1>3, <1>4, <1>5, <2>1, <4>2, <4>3, <4>4
    <3> QED BY <2>1, <3>3, <3>4
  <2> QED BY <2>1, <2>2, <2>3
<1> QED BY <1>1, <1>2, <1>5 DEF Counts

\* What a container holds, in such a step.
LEMMA ThereOr ==
    ASSUME Counts, NEW p \in Pos
    PROVE  \/ /\ p \in shared \cup shared' /\ There(p)' = There(p) /\ be'[p] = be[p] /\ block'[p] = block[p]
           \/ /\ p \notin shared \cup shared' /\ There(p) = InEntity(p) /\ There(p)' = InEntity(p)'
<1>1. CASE p \in shared \cup shared'
  BY <1>1 DEF Counts, Calm
<1>2. CASE p \notin shared \cup shared'
  BY <1>2 DEF There
<1> QED BY <1>1, <1>2

\* A container that is not touched holds what it held.
LEMMA ThereKept ==
    ASSUME Counts, NEW p \in Pos, block'[p] = block[p], be'[p] = be[p] PROVE There(p)' = There(p)
<1>1. InEntity(p)' = InEntity(p)
  BY DEF InEntity
<1> QED BY <1>1, ThereOr

\* Only the goods of player c change hands.
LEMMA MineChanges ==
    ASSUME Counts, NEW c \in Conn, \A d \in Conn : d # c => Mine(d)' = Mine(d)
    PROVE  AllMine' + Mine(c) = AllMine + Mine(c)'
<1> DEFINE h == [d \in Conn |-> Mine(d)]
           h2 == [d \in Conn |-> Mine(d)']
<1>1. \A d \in Conn : h[d] = Mine(d) /\ h2[d] = Mine(d)' /\ Mine(d) \in Nat /\ Mine(d)' \in Nat
  BY DEF Counts, TotalAdds
<1>2. AllMine = SumFunctionOnSet(h, Conn) /\ AllMine' = SumFunctionOnSet(h2, Conn)
  BY DEF AllMine
<1> HIDE DEF h, h2
<1>3. /\ \A d \in Conn : h[d] \in Nat /\ h2[d] \in Nat
      /\ \A d \in Conn \ {c} : h2[d] = h[d]
  BY <1>1
<1>4. SumFunctionOnSet(h2, Conn) + h[c] = SumFunctionOnSet(h, Conn) + h2[c]
  BY <1>3, Sizes, SumChangesAt
<1> QED BY <1>1, <1>2, <1>4

\* What the players have stays when each has what he had.
LEMMA MineStays ==
    ASSUME Counts, \A d \in Conn : Mine(d)' = Mine(d)
    PROVE  AllMine' = AllMine
<1> DEFINE h == [d \in Conn |-> Mine(d)]
           h2 == [d \in Conn |-> Mine(d)']
<1>1. h = h2
  OBVIOUS
<1> QED BY <1>1 DEF AllMine

\* Only the goods in the container at p change.
LEMMA ThereChanges ==
    ASSUME Counts, NEW p \in Pos, \A q \in Pos : q # p => There(q)' = There(q)
    PROVE  AllThere' + There(p) = AllThere + There(p)'
<1> DEFINE h == [q \in Pos |-> There(q)]
           h2 == [q \in Pos |-> There(q)']
<1>1. \A q \in Pos : h[q] = There(q) /\ h2[q] = There(q)' /\ There(q) \in Nat /\ There(q)' \in Nat
  BY DEF Counts, TotalAdds
<1>2. AllThere = SumFunctionOnSet(h, Pos) /\ AllThere' = SumFunctionOnSet(h2, Pos)
  BY DEF AllThere
<1> HIDE DEF h, h2
<1>3. /\ \A d \in Pos : h[d] \in Nat /\ h2[d] \in Nat
      /\ \A d \in Pos \ {p} : h2[d] = h[d]
  BY <1>1
<1>4. SumFunctionOnSet(h2, Pos) + h[p] = SumFunctionOnSet(h, Pos) + h2[p]
  BY <1>3, Sizes, SumChangesAt
<1> QED BY <1>1, <1>2, <1>4

\* What the containers hold stays when each holds what it held.
LEMMA ThereStays ==
    ASSUME Counts, \A q \in Pos : There(q)' = There(q)
    PROVE  AllThere' = AllThere
<1> DEFINE h == [q \in Pos |-> There(q)]
           h2 == [q \in Pos |-> There(q)']
<1>1. h = h2
  OBVIOUS
<1> QED BY <1>1 DEF AllThere

\* The parts of Total, before and after.
LEMMA CountsIs == 
    ASSUME Counts
    PROVE  /\ AllMine \in Nat /\ AllThere \in Nat /\ OnGround \in Nat
           /\ AllMine' \in Nat /\ AllThere' \in Nat /\ OnGround' \in Nat
           /\ \A c \in Conn : Mine(c) \in Nat /\ Mine(c)' \in Nat
           /\ \A p \in Pos : There(p) \in Nat /\ There(p)' \in Nat
           /\ AllMine' + AllThere' + OnGround' = AllMine + AllThere + OnGround => Total' = Total
BY DEF Counts, TotalAdds

\* What is in the grid of window w, if it is a table's.
InTable(w) == IF w.kind = "table" THEN w.box["in"].n ELSE 0

\* The share of a player.
LEMMA MineIs ==
    ASSUME NEW c \in Conn
    PROVE  /\ life[c] = "off" => Mine(c) = Amount(file[c].inv, Kept) + file[c].ender.n
           /\ life[c] # "off" => Mine(c) = Amount(inv[c], Kept) + ender[c].n + InTable(win[c])
BY DEF Mine, PlayerGoods, InTable

\* The share of a player after a step.
LEMMA MineIsThen ==
    ASSUME NEW c \in Conn
    PROVE  /\ life'[c] = "off" => Mine(c)' = Amount(file'[c].inv, Kept) + file'[c].ender.n
           /\ life'[c] # "off" => Mine(c)' = Amount(inv'[c], Kept) + ender'[c].n + InTable(win'[c])
BY DEF Mine, PlayerGoods, InTable

\* A share depends on few values.
LEMMA MineSame ==
    ASSUME NEW d \in Conn, life'[d] = "off" <=> life[d] = "off", InTable(win'[d]) = InTable(win[d]),
           inv'[d] = inv[d], ender'[d] = ender[d], file'[d] = file[d]
    PROVE  Mine(d)' = Mine(d)
BY DEF Mine, PlayerGoods, InTable

\* What a crafting table adds to a share is a number.
LEMMA InTableIs == ASSUME NEW w \in Windows PROVE InTable(w) \in Nat /\ InTable(Closed) = 0
<1>1. w.box["in"] \in Stacks
  BY WindowIs DEF Boxes, BoxCells
<1>2. w.box["in"].n \in Nat
  BY <1>1, StackIs, Sizes
<1> QED BY <1>2, ClosedIs DEF InTable

\* The goods of an inventory are those of its kept cells.
LEMMA KeptAmount ==
    ASSUME NEW f, \A x \in Kept : f[x] \in Stacks, NEW g, \A x \in Kept : g[x] = f[x]
    PROVE  Amount(g, Kept) = Amount(f, Kept) /\ Amount(f, Kept) \in Nat
<1>1. IsFiniteSet(Kept)
  BY CellsAreFinite
<1>2. \A x \in Kept : g[x].n = f[x].n
  OBVIOUS
<1> QED BY <1>1, <1>2, AmountSame, AmountIsNat

\* What the players have after c saved f and e.
LEMMA MineAfterSave ==
    ASSUME GoodsTyped, NEW c \in Conn, NEW A, InvCells \subseteq A, NEW f \in [A -> Stacks],
           NEW e \in Stacks, Save(c, f, e), life' = life, life[c] # "off",
           \A d \in Conn : d # c => win'[d] = win[d]
    PROVE  /\ Mine(c)' = Amount(f, Kept) + e.n + InTable(win'[c])
           /\ \A d \in Conn : d # c => Mine(d)' = Mine(d)
           /\ Amount(f, Kept) \in Nat /\ e.n \in Nat
<1>1. /\ \A x \in InvCells : inv'[c][x] = f[x]
      /\ ender'[c] = e
      /\ \A d \in Conn : d # c => inv'[d] = inv[d] /\ ender'[d] = ender[d] /\ file'[d] = file[d]
  BY SaveIs
<1>2. (\A x \in Kept : f[x] \in Stacks) /\ (\A x \in Kept : inv'[c][x] = f[x])
  BY <1>1, CellsAre
<1>3. Amount(inv'[c], Kept) = Amount(f, Kept) /\ Amount(f, Kept) \in Nat
  BY <1>2, KeptAmount
<1>4. Mine(c)' = Amount(inv'[c], Kept) + ender'[c].n + InTable(win'[c])
  BY MineIsThen
<1>5. ASSUME NEW d \in Conn, d # c PROVE Mine(d)' = Mine(d)
  BY <1>1, <1>5, MineSame
<1>6. e.n \in Nat
  BY StackIs, Sizes
<1> QED BY <1>1, <1>3, <1>4, <1>5, <1>6

\* Leaving a window takes nothing away.
LEMMA LeaveGoods ==
    ASSUME Typed, NEW c \in Conn, NEW b \in [Pos -> Boxes \cup {NoBox}]
    PROVE  LET left == Leave(c, b)
           IN  /\ Amount(left.inv, Kept) + left.ground[Raw] + left.ground[Made]
                  = Amount(inv[c], Kept) + InTable(win[c]) + OnGround
               /\ Amount(left.inv, Kept) \in Nat /\ Amount(inv[c], Kept) \in Nat
               /\ InTable(win[c]) \in Nat /\ OnGround \in Nat
               /\ left.ground[Raw] \in Nat /\ left.ground[Made] \in Nat
               /\ win[c].kind # "table" => left.inv = inv[c]
<1> DEFINE left == Leave(c, b)
<1>1. WorldTyped /\ GoodsTyped /\ win[c] \in Windows /\ inv[c] \in [InvCells -> Stacks]
      /\ ground \in [Items -> Nat]
  BY DEF Typed, WorldTyped, GoodsTyped, Inventories
<1>2. InTable(win[c]) \in Nat
  BY <1>1, InTableIs
<1>3. ground[Raw] \in Nat /\ ground[Made] \in Nat /\ OnGround = ground[Raw] + ground[Made] /\ OnGround \in Nat
  BY <1>1 DEF Items, OnGround
<1>4. \A x \in Kept : inv[c][x] \in Stacks
  BY <1>1, CellsAre
<1>5. Amount(inv[c], Kept) \in Nat
  BY <1>4, KeptAmount
<1>6. left.inv \in [InvCells -> Stacks] /\ left.ground \in [Items -> Nat]
  BY <1>1, LeaveTyped DEF Inventories
<1>7. left.ground[Raw] \in Nat /\ left.ground[Made] \in Nat
  <2> HIDE DEF left
  <2> QED BY <1>6 DEF Items
<1>8. CASE win[c].kind # "table"
  <2>1. left.inv = inv[c] /\ left.ground = ground
    BY <1>8 DEF Leave
  <2>2. InTable(win[c]) = 0
    BY <1>8 DEF InTable
  <2> HIDE DEF left
  <2>3. Amount(left.inv, Kept) + left.ground[Raw] + left.ground[Made]
        = Amount(inv[c], Kept) + InTable(win[c]) + OnGround
    BY <1>3, <1>5, <2>1, <2>2
  <2> QED BY <1>2, <1>3, <1>5, <1>7, <2>1, <2>3 DEF left
<1>9. CASE win[c].kind = "table"
  <2> DEFINE f == Returned(Cells(c), "out", "in")
             g == WithResult(f, "result", "grid")
             V == Kept \cup {"in"}
  <2>1. left.inv = Restrict(g, InvCells) /\ left.ground = Fallen(ground, f, {"in"})
    BY <1>9 DEF Leave
  <2>2. Cells(c) \in [Cell -> Stacks] /\ \A x \in Kept : Cells(c)[x] = inv[c][x]
    BY <1>1, CellsTyped, CellsAre
  <2>3. f \in Moves(Cell, MainCells \cup {"in"}, {"out"}, Cells(c))
    BY <2>2, ReturnedIs, CellsAre
  <2>4. f \in [Cell -> Stacks]
    BY <2>3 DEF Moves
  <2> HIDE DEF f
  <2>5. f \in Moves(Cell, V, {"out"}, Cells(c))
    <3>1. V \in SUBSET Cell /\ MainCells \cup {"in"} \in SUBSET V /\ {"out"} \cap V = {} /\ IsFiniteSet(V)
      BY CellsAre, CellsAreFinite, FS_AddElement
    <3> HIDE DEF V
    <3> QED BY <2>2, <2>3, <3>1, MovesWider
  <2>6. Amount(f, V) = Amount(Cells(c), V)
    BY <2>5 DEF Moves
  <2>7. IsFiniteSet(Kept) /\ "in" \notin Kept /\ (\A y \in V : f[y] \in Stacks /\ Cells(c)[y] \in Stacks) 
    BY <2>2, <2>4, CellsAre, CellsAreFinite
  <2>8. Amount(f, V) = Amount(f, Kept) + f["in"].n /\ Amount(f, Kept) \in Nat /\ f["in"].n \in Nat
    BY <2>7, AmountBut
  <2>9. Amount(Cells(c), V) = Amount(Cells(c), Kept) + Cells(c)["in"].n
    BY <2>7, AmountBut
  <2>10. Amount(Cells(c), Kept) = Amount(inv[c], Kept)
    BY <1>4, <2>2, KeptAmount
  <2>11. Cells(c)["in"].n = InTable(win[c])
    <3>1. Cells(c)["in"] = win[c].box["in"]
      BY <1>1, CellsTyped, CellsAre
    <3> QED BY <1>9, <3>1 DEF InTable
  <2>12. g \in [Cell -> Stacks] /\ \A x \in Cell : x # "result" => g[x] = f[x]
    <3>1. "grid" \in Cell
      BY CellsAre
    <3> HIDE DEF left, V
    <3> QED BY <2>4, <3>1, WithResultIs
  <2> HIDE DEF g
  <2>13. Amount(left.inv, Kept) = Amount(f, Kept)
    <3>1. \A x \in Kept : left.inv[x] = f[x] /\ f[x] \in Stacks
      <4>1. \A x \in InvCells : Restrict(g, InvCells)[x] = g[x]
        BY DEF Restrict
      <4> QED BY <2>1, <2>4, <2>12, <4>1, CellsAre
    <3> QED BY <3>1, KeptAmount
  <2>14. left.ground[Raw] + left.ground[Made] = ground[Raw] + ground[Made] + f["in"].n
    <3>1. IsFiniteSet({"in"}) /\ \A x \in {"in"} : f[x] \in Stacks
      BY <2>4, CellsAre, FS_Singleton
    <3>2. Fallen(ground, f, {"in"})[Raw] + Fallen(ground, f, {"in"})[Made] = ground[Raw] + ground[Made] + Amount(f, {"in"})
      BY <1>1, <3>1, FallenIs
    <3>3. Amount(f, {"in"}) = f["in"].n
      <4>1. IsFiniteSet({"in"}) /\ "in" \in {"in"} /\ {"in"} \in SUBSET Cell
        BY <3>1, CellsAre
      <4> QED BY <2>4, <4>1, EmptiedFalls
    <3> QED BY <2>1, <3>2, <3>3
  <2> HIDE DEF left
  <2>15. Amount(left.inv, Kept) + f["in"].n = Amount(inv[c], Kept) + InTable(win[c])
    BY <2>6, <2>8, <2>9, <2>10, <2>11, <2>13, Zenon
  <2> DEFINE A == Amount(left.inv, Kept)
             R == left.ground[Raw]
             M == left.ground[Made]
             B == Amount(inv[c], Kept)
             I == InTable(win[c])
             fi == f["in"].n
             G == OnGround
  <2>16. A \in Nat /\ fi \in Nat /\ R \in Nat /\ M \in Nat /\ B \in Nat /\ I \in Nat /\ G \in Nat
    BY <1>2, <1>3, <1>5, <1>7, <2>8, <2>13
  <2>17. A + fi = B + I /\ R + M = G + fi
    BY <1>3, <2>14, <2>15
  <2>18. A + R + M = B + I + G
    <3> HIDE DEF A, R, M, B, I, fi, G
    <3> QED BY <2>16, <2>17
  <2> QED BY <1>2, <1>3, <1>5, <1>7, <1>9, <2>16, <2>18 DEF left
<1> QED BY <1>8, <1>9

\* The containers after c left its window.
LEMMA LeaveThere ==
    ASSUME Typed, Durable, Counts, NEW c \in Conn, NEW b \in [Pos -> Boxes \cup {NoBox}], FreshOf(b),
           block' = block, be' = Leave(c, b).be
    PROVE  \A q \in Pos : There(q)' = There(q)
<1> SUFFICES ASSUME NEW q \in Pos, q \notin shared PROVE There(q)' = There(q)
  BY ThereOr
<1>1. /\ be'[q] = NoBox <=> b[q] = NoBox
      /\ b[q] # NoBox => InBox(be'[q]) = InBox(b[q])
  BY LeaveBe DEF Typed
<1>2. InEntity(q)' = IF block[q] \in Stored /\ be'[q] # NoBox THEN InBox(be'[q]) ELSE 0
  BY DEF InEntity
<1>3. InEntity(q)' = InEntity(q)
  <2>1. CASE b[q] = be[q]
    BY <1>1, <1>2, <2>1 DEF InEntity
  <2>2. CASE be[q] = NoBox /\ b[q] = EmptyBox
    BY <1>1, <1>2, <2>2, InEmptyBox DEF InEntity
  <2> QED BY <2>1, <2>2 DEF FreshOf
<1> QED BY <1>3, ThereOr

\* Containers that are not touched hold what they held.
LEMMA SameThere ==
    ASSUME Counts, block' = block, be' = be PROVE \A q \in Pos : There(q)' = There(q)
BY ThereKept

\* What falls on the ground.
LEMMA FallenGround ==
    ASSUME NEW g \in [Items -> Nat], NEW S, IsFiniteSet(S), NEW f, \A x \in S : f[x] \in Stacks,
           ground' = Fallen(g, f, S)
    PROVE  OnGround' = g[Raw] + g[Made] + Amount(f, S) /\ Amount(f, S) \in Nat
           /\ g[Raw] \in Nat /\ g[Made] \in Nat
<1>1. Fallen(g, f, S)[Raw] + Fallen(g, f, S)[Made] = g[Raw] + g[Made] + Amount(f, S)
  BY FallenIs
<1>2. Amount(f, S) \in Nat
  BY AmountIsNat
<1> QED BY <1>1, <1>2 DEF OnGround, Items

\* Sums that balance.
LEMMA Balance ==
    ASSUME NEW a \in Nat, NEW b \in Nat, NEW m \in Nat, NEW n \in Nat, NEW g \in Nat, NEW h \in Nat,
           b + m = a + n, h + n = g + m
    PROVE  b + h = a + g
OBVIOUS

\* Arithmetic: what one part loses another gains.
LEMMA BalanceLeft ==
    ASSUME NEW A \in Nat, NEW R \in Nat, NEW M \in Nat, NEW B \in Nat, NEW I \in Nat, NEW G \in Nat,
           NEW F \in Nat, NEW S \in Nat, NEW e \in Nat, A + R + M = B + I + S, G + F = A
    PROVE  (R + M + F) + (G + e) = S + (B + e + I)
OBVIOUS

\* The goods of one player and those on the ground change together.
LEMMA MineAndGround ==
    ASSUME Counts, NEW c \in Conn, \A d \in Conn : d # c => Mine(d)' = Mine(d),
           \A q \in Pos : There(q)' = There(q), OnGround' + Mine(c)' = OnGround + Mine(c)
    PROVE  Total' = Total
<1> DEFINE a == AllMine
           b == AllMine'
           t == AllThere
           u == AllThere'
           g == OnGround
           h == OnGround'
           m == Mine(c)
           n == Mine(c)'
<1>1. a \in Nat /\ b \in Nat /\ t \in Nat /\ u \in Nat /\ g \in Nat /\ h \in Nat /\ m \in Nat /\ n \in Nat
  BY CountsIs
<1>2. b + m = a + n
  BY MineChanges
<1>3. u = t
  BY ThereStays
<1>4. h + n = g + m
  OBVIOUS
<1>5. b + u + h = a + t + g => Total' = Total
  BY CountsIs
<1> HIDE DEF a, b, t, u, g, h, m, n
<1>6. b + h = a + g
  BY <1>1, <1>2, <1>4
<1>7. b + t + h = a + t + g
  BY <1>1, <1>6
<1> QED BY <1>3, <1>5, <1>7

\* The grid goes back to the inventory, and what is left in it falls.
LEMMA ReturnedAmount ==
    ASSUME NEW v \in [InvCells -> Stacks]
    PROVE  LET f == Returned(v, "result", "grid")
               g == Emptied(f, {"grid"})
           IN  /\ Amount(g, Kept) + Amount(f, {"grid"}) = Amount(v, Kept)
               /\ Amount(g, Kept) \in Nat /\ Amount(f, {"grid"}) \in Nat /\ Amount(v, Kept) \in Nat
               /\ f \in [InvCells -> Stacks] /\ g \in [InvCells -> Stacks]
<1> DEFINE f == Returned(v, "result", "grid")
           g == Emptied(f, {"grid"})
<1>1. f \in Moves(InvCells, MainCells \cup {"grid"}, {"result"}, v) /\ f \in [InvCells -> Stacks]
  BY InventoryCells DEF Inventories
<1> HIDE DEF f
<1>2. Kept \in SUBSET InvCells /\ MainCells \cup {"grid"} \in SUBSET Kept /\ {"result"} \cap Kept = {}
      /\ IsFiniteSet(Kept) /\ "grid" \in Kept
  BY CellsAre, CellsAreFinite
<1>3. Amount(f, Kept) = Amount(v, Kept)
  <2>1. f \in Moves(InvCells, Kept, {"result"}, v)
    BY <1>1, <1>2, MovesWider
  <2> QED BY <2>1 DEF Moves
<1>4. /\ Amount(g, Kept) + f["grid"].n = Amount(f, Kept)
      /\ Amount(g, Kept) \in Nat /\ f["grid"].n \in Nat /\ Amount(f, {"grid"}) = f["grid"].n
  <2>1. /\ Amount(Emptied(f, {"grid"}), Kept) + f["grid"].n = Amount(f, Kept)
        /\ Amount(Emptied(f, {"grid"}), Kept) \in Nat /\ f["grid"].n \in Nat
        /\ Amount(f, {"grid"}) = f["grid"].n
    <3> HIDE DEF g
    <3>1. ASSUME NEW y \in Kept
          PROVE  /\ Amount(Emptied(f, {y}), Kept) + f[y].n = Amount(f, Kept)
                 /\ Amount(Emptied(f, {y}), Kept) \in Nat /\ f[y].n \in Nat
                 /\ Amount(f, {y}) = f[y].n
      <4>1. f \in [InvCells -> Stacks] /\ Kept \in SUBSET InvCells /\ IsFiniteSet(Kept)
        BY <1>1, <1>2
      <4> QED BY <4>1, EmptiedFalls
    <3> QED BY <1>2, <3>1
  <2> QED BY <2>1
<1>5. g \in [InvCells -> Stacks]
  BY <1>1, EmptiedIs
<1> HIDE DEF g
<1>6. Amount(v, Kept) \in Nat
  BY <1>3, <1>4
<1> QED BY <1>1, <1>3, <1>4, <1>5, <1>6 DEF g, f

\* Join leaves the total.
LEMMA JoinTotal == ASSUME Typed, Counts, NEW c \in Conn, Durable, Join(c) PROVE Total' = Total
<1> DEFINE f == WithResult(file[c].inv, "result", "grid")
<1>1. GoodsTyped /\ WorldTyped /\ LifeTyped
  BY DEF Typed
<1>2. life[c] = "off" /\ life' = [life EXCEPT ![c] = "on"] /\ inv' = [inv EXCEPT ![c] = f]
      /\ ender' = [ender EXCEPT ![c] = file[c].ender] /\ UNCHANGED <<block, be, win, file, ground>>
  BY DEF Join
<1>3. file[c].inv \in Inventories /\ inv \in [Conn -> Inventories] /\ ender \in [Conn -> Stacks]
      /\ life \in [Conn -> {"on", "closing", "off"}]
  BY <1>1 DEF GoodsTyped, LifeTyped
<1>4. \A x \in Kept : f[x] = file[c].inv[x] /\ file[c].inv[x] \in Stacks
  <2> DEFINE m == file[c].inv
  <2>1. m \in Inventories
    BY <1>3
  <2> HIDE DEF m
  <2>2. \A x \in InvCells : x # "result" => WithResult(m, "result", "grid")[x] = m[x]
    BY <2>1, InventoryCells
  <2>3. \A x \in InvCells : m[x] \in Stacks
    BY <2>1 DEF Inventories
  <2>4. \A x \in Kept : x \in InvCells /\ x # "result"
    BY CellsAre
  <2> QED BY <2>2, <2>3, <2>4 DEF m
<1>5. win[c] = Closed
  BY <1>2 DEF Durable, Backed, BackedBy
<1> HIDE DEF f
<1>6. inv'[c] = f /\ ender'[c] = file[c].ender /\ life'[c] = "on"
      /\ \A d \in Conn : d # c => inv'[d] = inv[d] /\ ender'[d] = ender[d] /\ life'[d] = life[d]
  BY <1>2, <1>3
<1>7. Mine(c)' = Mine(c)
  <2>1. Amount(f, Kept) = Amount(file[c].inv, Kept)
    BY <1>4, KeptAmount
  <2>2. InTable(win'[c]) = 0
    BY <1>2, <1>5, InTableIs, ClosedIs
  <2>3. Mine(c) = Amount(file[c].inv, Kept) + file[c].ender.n
    BY <1>2, MineIs
  <2>4. Mine(c)' = Amount(f, Kept) + file[c].ender.n + 0
    BY <1>6, <2>2, MineIsThen
  <2>5. Mine(c) \in Nat
    BY CountsIs
  <2> QED BY <2>1, <2>3, <2>4, <2>5
<1>8. \A d \in Conn : d # c => Mine(d)' = Mine(d)
  BY <1>2, <1>6, MineSame
<1>9. AllMine' = AllMine
  BY <1>7, <1>8, MineStays
<1>10. AllThere' = AllThere
  BY <1>2, SameThere, ThereStays
<1> QED BY <1>2, <1>9, <1>10, CountsIs DEF OnGround

\* Disconnect leaves the total.
LEMMA DisconnectTotal == ASSUME Typed, Counts, NEW c \in Conn, Disconnect(c) PROVE Total' = Total
<1>1. life[c] = "on" /\ life' = [life EXCEPT ![c] = "closing"]
      /\ UNCHANGED <<block, be, win, inv, ender, file, ground>>
  BY DEF Disconnect
<1>2. life \in [Conn -> {"on", "closing", "off"}]
  BY DEF Typed, LifeTyped
<1>3. \A d \in Conn : life'[d] = "off" <=> life[d] = "off"
  BY <1>1, <1>2
<1>4. \A d \in Conn : Mine(d)' = Mine(d)
  BY <1>1, <1>3, MineSame
<1>5. AllMine' = AllMine /\ AllThere' = AllThere
  BY <1>1, <1>4, MineStays, SameThere, ThereStays
<1> QED BY <1>1, <1>5, CountsIs DEF OnGround

\* Cleanup leaves the total.
LEMMA CleanupTotal == ASSUME Typed, Counts, Durable, NEW c \in Conn, Cleanup(c) PROVE Total' = Total
<1> DEFINE left == Leave(c, be)
           f == Returned(left.inv, "result", "grid")
           g == Emptied(f, {"grid"})
<1>1. /\ life[c] = "closing" /\ life' = [life EXCEPT ![c] = "off"] /\ be' = left.be
      /\ win' = [win EXCEPT ![c] = Closed] /\ block' = block
      /\ inv' = [inv EXCEPT ![c] = EmptyInv] /\ ender' = [ender EXCEPT ![c] = Nothing]
      /\ ground' = Fallen(left.ground, f, {"grid"})
      /\ file' = [file EXCEPT ![c] = [inv |-> g, ender |-> ender[c]]]
  BY DEF Cleanup
<1>2. /\ life \in [Conn -> {"on", "closing", "off"}] /\ inv \in [Conn -> Inventories] /\ win \in [Conn -> Windows]
      /\ ender \in [Conn -> Stacks] /\ file \in [Conn -> [inv : Inventories, ender : Stacks]]
      /\ WorldTyped /\ GoodsTyped /\ be \in [Pos -> Boxes \cup {NoBox}]
  BY DEF Typed, LifeTyped, GoodsTyped, WorldTyped
<1>3. left.inv \in [InvCells -> Stacks] /\ left.ground \in [Items -> Nat]
  BY <1>2, LeaveTyped DEF Inventories
<1>4. /\ Amount(left.inv, Kept) + left.ground[Raw] + left.ground[Made]
           = Amount(inv[c], Kept) + InTable(win[c]) + OnGround
      /\ Amount(left.inv, Kept) \in Nat /\ Amount(inv[c], Kept) \in Nat
      /\ InTable(win[c]) \in Nat /\ OnGround \in Nat
      /\ left.ground[Raw] \in Nat /\ left.ground[Made] \in Nat
  BY <1>2, LeaveGoods
<1>5. \A q \in Pos : There(q)' = There(q)
  BY <1>1, <1>2, LeaveThere, FreshSelf
<1> HIDE DEF left
<1>6. /\ Amount(g, Kept) + Amount(f, {"grid"}) = Amount(left.inv, Kept)
      /\ Amount(g, Kept) \in Nat /\ Amount(f, {"grid"}) \in Nat
      /\ f \in [InvCells -> Stacks] /\ g \in [InvCells -> Stacks]
  BY <1>3, ReturnedAmount
<1> HIDE DEF f, g
<1>7. OnGround' = left.ground[Raw] + left.ground[Made] + Amount(f, {"grid"})
  <2>1. IsFiniteSet({"grid"}) /\ \A x \in {"grid"} : f[x] \in Stacks
    BY <1>6, FS_Singleton, CellsAre
  <2> QED BY <1>1, <1>3, <2>1, FallenGround
<1>8. life'[c] = "off" /\ file'[c] = [inv |-> g, ender |-> ender[c]]
      /\ \A d \in Conn : d # c => 
         life'[d] = life[d] /\ inv'[d] = inv[d] /\ ender'[d] = ender[d] /\ file'[d] = file[d] /\ win'[d] = win[d]
  BY <1>1, <1>2
<1>9. Mine(c)' = Amount(g, Kept) + ender[c].n
  <2>1. file'[c].inv = g /\ file'[c].ender = ender[c]
    BY <1>8
  <2> QED BY <1>8, <2>1, MineIsThen
<1>10. Mine(c) = Amount(inv[c], Kept) + ender[c].n + InTable(win[c])
  BY <1>1, MineIs
<1>11. \A d \in Conn : d # c => Mine(d)' = Mine(d)
  BY <1>8, MineSame
<1>12. ender[c].n \in Nat
  <2>1. ender[c] \in Stacks
    BY <1>2
  <2> QED BY <2>1, StackIs, Sizes
<1>13. OnGround' + Mine(c)' = OnGround + Mine(c)
  BY <1>4, <1>6, <1>7, <1>9, <1>10, <1>12, BalanceLeft
<1> QED BY <1>5, <1>11, <1>13, MineAndGround

\* OpenContainer leaves the total.
LEMMA OpenTotal == ASSUME Typed, Counts, Durable, NEW c \in Conn, NEW p \in Pos, OpenContainer(c, p)
                   PROVE  Total' = Total
<1> DEFINE left == Leave(c, FreshBe(p))
           w == WindowFor(c, p)
<1>1. WorldTyped /\ GoodsTyped /\ win \in [Conn -> Windows] /\ win[c] \in Windows /\ ender[c] \in Stacks
      /\ life[c] \in {"on", "closing", "off"}
  BY DEF Typed, WorldTyped, GoodsTyped, LifeTyped
<1>2. /\ block[p] \in Kinds /\ be' = left.be /\ ground' = left.ground
      /\ IF win[c].kind \in {"table", "ender"} THEN Save(c, left.inv, ender[c])
                 ELSE UNCHANGED <<inv, ender, file>>
      /\ win' = [win EXCEPT ![c] = w] /\ UNCHANGED <<block, life, dead>> /\ Acts(c)
  BY OpenIs
<1>3. /\ FreshBe(p) \in [Pos -> Boxes \cup {NoBox}] /\ FreshOf(FreshBe(p))
      /\ block[p] = "table" => BoxFor(c, p) = EmptyBox
  BY <1>2, OpenMakes
<1>4. \A q \in Pos : There(q)' = There(q)
  BY <1>2, <1>3, LeaveThere
<1>5. /\ Amount(left.inv, Kept) + left.ground[Raw] + left.ground[Made]
           = Amount(inv[c], Kept) + InTable(win[c]) + OnGround
      /\ Amount(left.inv, Kept) \in Nat /\ Amount(inv[c], Kept) \in Nat
      /\ InTable(win[c]) \in Nat /\ OnGround \in Nat
      /\ left.ground[Raw] \in Nat /\ left.ground[Made] \in Nat
      /\ win[c].kind # "table" => left.inv = inv[c]
  BY <1>3, LeaveGoods
<1>6. left.inv \in [InvCells -> Stacks]
  BY <1>1, <1>3, LeaveTyped DEF Inventories
<1> HIDE DEF left
<1>7. InTable(w) = 0
  <2>1. w.kind = block[p] /\ w.box = BoxFor(c, p)
    BY DEF WindowFor
  <2>2. EmptyBox["in"].n = 0
    BY EmptyIs, NothingIs DEF BoxCells
  <2> HIDE DEF w
  <2> QED BY <1>3, <2>1, <2>2 DEF InTable
<1> HIDE DEF w
<1>8. win'[c] = w /\ \A d \in Conn : d # c => win'[d] = win[d]
  BY <1>1, <1>2
<1>9. life[c] = "on"
  BY <1>2 DEF Acts
<1>10. Mine(c)' = Amount(left.inv, Kept) + ender[c].n + 0 /\ \A d \in Conn : d # c => Mine(d)' = Mine(d)
  <2>1. CASE win[c].kind \in {"table", "ender"}
    <3>1. Save(c, left.inv, ender[c]) /\ life' = life /\ life[c] # "off"
      BY <1>2, <1>9, <2>1
    <3> QED BY <1>1, <1>6, <1>7, <1>8, <3>1, MineAfterSave
  <2>2. CASE win[c].kind \notin {"table", "ender"}
    <3>1. UNCHANGED <<inv, ender, file, life>> /\ left.inv = inv[c]
      BY <1>2, <1>5, <2>2
    <3>2. Mine(c)' = Amount(inv'[c], Kept) + ender'[c].n + InTable(win'[c])
      BY <1>9, <3>1, MineIsThen
    <3>3. \A d \in Conn : d # c => Mine(d)' = Mine(d)
      BY <1>8, <3>1, MineSame
    <3> QED BY <1>7, <1>8, <3>1, <3>2, <3>3
  <2> QED BY <2>1, <2>2
<1>11. Mine(c) = Amount(inv[c], Kept) + ender[c].n + InTable(win[c])
  BY <1>9, MineIs
<1>12. ender[c].n \in Nat
  BY <1>1, StackIs, Sizes
<1>13. OnGround' = left.ground[Raw] + left.ground[Made]
  BY <1>2 DEF OnGround
<1>14. OnGround' + Mine(c)' = OnGround + Mine(c)
  <2>1. Amount(left.inv, Kept) + 0 = Amount(left.inv, Kept)
    BY <1>5
  <2>2. (left.ground[Raw] + left.ground[Made] + 0) + (Amount(left.inv, Kept) + ender[c].n)
        = OnGround + (Amount(inv[c], Kept) + ender[c].n + InTable(win[c]))
    BY <1>5, <1>12, <2>1, BalanceLeft
  <2>3. Mine(c)' = Amount(left.inv, Kept) + ender[c].n
    BY <1>5, <1>10, <1>12
  <2>4. left.ground[Raw] + left.ground[Made] + 0 = left.ground[Raw] + left.ground[Made]
    BY <1>5
  <2> QED BY <1>11, <1>13, <2>2, <2>3, <2>4, Zenon
<1> QED BY <1>4, <1>10, <1>14, MineAndGround

\* What the players and the ground have does not change, what one container has
\* falls on the ground.
LEMMA ThereAndGround ==
    ASSUME Counts, NEW p \in Pos, \A d \in Conn : Mine(d)' = Mine(d),
           \A q \in Pos : q # p => There(q)' = There(q), OnGround' + There(p)' = OnGround + There(p)
    PROVE  Total' = Total
<1> DEFINE a == AllThere
           b == AllThere'
           t == AllMine
           u == AllMine'
           g == OnGround
           h == OnGround'
           m == There(p)
           n == There(p)'
<1>1. a \in Nat /\ b \in Nat /\ t \in Nat /\ u \in Nat /\ g \in Nat /\ h \in Nat /\ m \in Nat /\ n \in Nat
  BY CountsIs
<1>2. b + m = a + n
  BY ThereChanges
<1>3. u = t
  BY MineStays
<1>4. h + n = g + m
  OBVIOUS
<1>5. u + b + h = t + a + g => Total' = Total
  BY CountsIs
<1> HIDE DEF a, b, t, u, g, h, m, n
<1>6. b + h = a + g
  BY <1>1, <1>2, <1>4
<1>7. t + b + h = t + a + g
  BY <1>1, <1>6
<1> QED BY <1>3, <1>5, <1>7

\* What leaves the server alone leaves the total.
LEMMA ServerTotal == ASSUME Counts, UNCHANGED serverVars PROVE Total' = Total
<1>1. (\A d \in Conn : Mine(d)' = Mine(d)) /\ (\A q \in Pos : There(q)' = There(q)) /\ OnGround' = OnGround
  BY MineSame, SameThere DEF serverVars, OnGround
<1>2. AllMine' = AllMine /\ AllThere' = AllThere
  BY <1>1, MineStays, ThereStays
<1> QED BY <1>1, <1>2, CountsIs

\* BreakContainer leaves the total.
LEMMA BreakTotal == ASSUME Typed, Counts, Durable, NEW p \in Pos, BreakContainer(p) PROVE Total' = Total
<1>1. /\ \E box \in Copies(p) : ground' = Fallen(ground, box, BoxCells)
      /\ win' = [d \in Conn |-> IF d \in Shut(p) THEN Closed ELSE win[d]]
      /\ block' = [block EXCEPT ![p] = "air"] /\ be' = [be EXCEPT ![p] = NoBox]
      /\ UNCHANGED <<lastId, inv, ender, file, life, dead>>
  BY BreakIs
<1>2. block \in [Pos -> Kinds \cup {"air"}] /\ be \in [Pos -> Boxes \cup {NoBox}]
      /\ (\A d \in Conn : win[d] \in Windows) /\ ground \in [Items -> Nat]
  BY DEF Typed, WorldTyped, GoodsTyped
<1>3. PICK box \in Copies(p) : ground' = Fallen(ground, box, BoxCells)
  BY <1>1
<1>4. \A d \in Shut(p) : d \in Conn /\ win[d].pos = p /\ win[d].kind = block[p] /\ block[p] # "table"
  BY DEF Shut, Viewers
<1>0. /\ p \notin shared /\ be'[p] = NoBox /\ block'[p] = "air"
      /\ There(p) = InEntity(p) /\ There(p)' = InEntity(p)'
  <2>1. be'[p] = NoBox /\ block'[p] = "air" /\ block[p] # "air"
    BY <1>1, <1>2, BreakIs
  <2> QED BY <2>1, ThereOr
<1>5. box \in Boxes /\ InBox(box) = There(p)
  <2>1. EmptyBox \in Boxes
    BY EmptyIs
  <2>2. CASE block[p] \notin Stored
    BY <1>0, <2>1, <2>2, InEmptyBox DEF Copies, InEntity
  <2>3. CASE block[p] \in Stored /\ Shut(p) # {}
    <3>1. Copies(p) = {win[d].box : d \in Shut(p)}
      BY <2>3 DEF Copies
    <3>2. PICK d \in Shut(p) : box = win[d].box
      BY <3>1
    <3>3. d \in Conn /\ win[d].pos = p /\ win[d].kind = block[p]
      BY <1>4
    <3>4. be[p] # NoBox /\ InBox(be[p]) = InBox(win[d].box)
      BY <1>0, <2>3, <3>3 DEF Durable, Backed, BackedBy
    <3>5. win[d].box \in Boxes
      BY <1>2, <3>3, WindowIs
    <3> QED BY <1>0, <2>3, <3>2, <3>4, <3>5 DEF InEntity
  <2>4. CASE block[p] \in Stored /\ Shut(p) = {}
    <3>1. box = IF be[p] = NoBox THEN EmptyBox ELSE be[p]
      BY <2>4 DEF Copies
    <3> QED BY <1>0, <1>2, <2>1, <2>4, <3>1, InEmptyBox DEF InEntity
  <2> QED BY <2>2, <2>3, <2>4
<1>6. OnGround' = OnGround + There(p)
  <2>1. \A x \in BoxCells : box[x] \in Stacks
    BY <1>5 DEF Boxes
  <2>2. OnGround' = ground[Raw] + ground[Made] + Amount(box, BoxCells)
    BY <1>2, <1>3, <2>1, CellsAreFinite, FallenGround
  <2>3. Amount(box, BoxCells) = InBox(box)
    BY <2>1, InBoxIs
  <2> QED BY <1>5, <2>2, <2>3 DEF OnGround
<1>7. There(p)' = 0 /\ \A q \in Pos : q # p => There(q)' = There(q)
  <2>1. \A q \in Pos : q # p => be'[q] = be[q] /\ block'[q] = block[q]
    BY <1>1, <1>2
  <2>2. InEntity(p)' = 0
    BY <1>0 DEF InEntity
  <2> QED BY <1>0, <2>1, <2>2, ThereKept
<1>8. \A d \in Conn : Mine(d)' = Mine(d)
  <2> SUFFICES ASSUME NEW d \in Conn PROVE Mine(d)' = Mine(d)
    OBVIOUS
  <2>1. InTable(win'[d]) = InTable(win[d])
    <3>1. CASE d \in Shut(p)
      <4>1. win'[d] = Closed /\ win[d].kind # "table"
        BY <1>1, <1>4, <3>1
      <4> QED BY <4>1, ClosedIs DEF InTable
    <3>2. CASE d \notin Shut(p)
      BY <1>1, <3>2
    <3> QED BY <3>1, <3>2
  <2> QED BY <1>1, <2>1, MineSame
<1>9. OnGround' + There(p)' = OnGround + There(p)
  BY <1>6, <1>7, CountsIs
<1> QED BY <1>7, <1>8, <1>9, ThereAndGround

\* PlaceContainer leaves the total.
LEMMA PlaceTotal == ASSUME Typed, Counts, NEW p \in Pos, NEW kind \in Kinds, PlaceContainer(p, kind)
                    PROVE  Total' = Total
<1>1. /\ block[p] = "air" /\ block' = [block EXCEPT ![p] = kind]
      /\ be' = [be EXCEPT ![p] = IF kind \in Stored THEN EmptyBox ELSE NoBox]
      /\ UNCHANGED <<win, inv, ender, file, ground, life>>
  BY DEF PlaceContainer
<1>2. block \in [Pos -> Kinds \cup {"air"}] /\ be \in [Pos -> Boxes \cup {NoBox}]
  BY DEF Typed, WorldTyped
<1>3. InEntity(p) = 0
  BY <1>1, StoredAre DEF InEntity
<1>4. InEntity(p)' = 0
  <2>1. block'[p] = kind /\ be'[p] = IF kind \in Stored THEN EmptyBox ELSE NoBox
    BY <1>1, <1>2
  <2>2. InEntity(p)' = IF block'[p] \in Stored /\ be'[p] # NoBox THEN InBox(be'[p]) ELSE 0
    BY DEF InEntity
  <2> QED BY <2>1, <2>2, InEmptyBox
<1>5. \A q \in Pos : q # p => There(q)' = There(q)
  BY <1>1, <1>2, ThereKept
<1>6. \A q \in Pos : There(q)' = There(q)
  BY <1>3, <1>4, <1>5, ThereOr
<1>7. \A d \in Conn : Mine(d)' = Mine(d)
  BY <1>1, MineSame
<1>8. AllMine' = AllMine /\ AllThere' = AllThere /\ OnGround' = OnGround
  BY <1>1, <1>6, <1>7, MineStays, ThereStays DEF OnGround
<1> QED BY <1>8, CountsIs

\* SmeltOpen leaves the total.
LEMMA SmeltOpenTotal == ASSUME Typed, Counts, NEW c \in Conn, SmeltOpen(c) PROVE Total' = Total
<1>1. /\ win[c].kind = "furnace" /\ win'[c].kind = win[c].kind
      /\ \A d \in Conn : d # c => win'[d] = win[d]
      /\ UNCHANGED <<block, be, lastId, inv, ender, file, ground, life, dead>>
  BY SmeltOpenIs
<1>2. \A d \in Conn : InTable(win'[d]) = InTable(win[d])
  BY <1>1 DEF InTable
<1>3. \A d \in Conn : Mine(d)' = Mine(d)
  BY <1>1, <1>2, MineSame
<1>4. AllMine' = AllMine /\ AllThere' = AllThere /\ OnGround' = OnGround
  BY <1>1, <1>3, MineStays, SameThere, ThereStays DEF OnGround
<1> QED BY <1>4, CountsIs

\* SmeltStored leaves the total.
LEMMA SmeltStoredTotal == ASSUME Typed, Counts, NEW p \in Pos, SmeltStored(p) PROVE Total' = Total
<1>1. be[p] # NoBox /\ be' = [be EXCEPT ![p] = Smelted(be[p])] /\ block[p] = "furnace"
      /\ UNCHANGED <<block, win, lastId, inv, ender, file, ground, life, dead, clientVars>>
  BY DEF SmeltStored
<1>2. be \in [Pos -> Boxes \cup {NoBox}]
  BY DEF Typed, WorldTyped
<1>3. InBox(Smelted(be[p])) = InBox(be[p]) /\ Smelted(be[p]) # NoBox
  BY <1>1, <1>2, SmeltedIs, GoodsAssumption DEF Boxes
<1>4. be'[p] = Smelted(be[p]) /\ \A q \in Pos : q # p => be'[q] = be[q]
  BY <1>1, <1>2
<1>5. \A q \in Pos : There(q)' = There(q)
  <2>1. InEntity(p)' = InEntity(p)
    BY <1>1, <1>3, <1>4 DEF InEntity
  <2>2. There(p)' = There(p)
    BY <2>1, ThereOr
  <2> QED BY <1>1, <1>4, <2>2, ThereKept
<1>6. \A d \in Conn : Mine(d)' = Mine(d)
  BY <1>1, MineSame
<1>7. AllMine' = AllMine /\ AllThere' = AllThere /\ OnGround' = OnGround
  BY <1>1, <1>5, <1>6, MineStays, ThereStays DEF OnGround
<1> QED BY <1>7, CountsIs

\* A player with window w saves f, which holds as much as its inventory did but
\* for what the ground got or lost.
LEMMA SaveTotal ==
    ASSUME Typed, Counts, NEW c \in Conn, NEW A, InvCells \subseteq A, NEW f \in [A -> Stacks],
           Save(c, f, ender[c]), life' = life, life[c] # "off",
           \A d \in Conn : d # c => win'[d] = win[d],
           \A q \in Pos : There(q)' = There(q),
           OnGround' + Amount(f, Kept) + InTable(win'[c]) = OnGround + Amount(inv[c], Kept) + InTable(win[c]),
           InTable(win'[c]) \in Nat
    PROVE  Total' = Total
<1> DEFINE a == Amount(f, Kept)
           b == Amount(inv[c], Kept)
           i == InTable(win[c])
           j == InTable(win'[c])
           e == ender[c].n
           g == OnGround
           h == OnGround'
<1>1. GoodsTyped /\ ender[c] \in Stacks /\ win[c] \in Windows /\ inv[c] \in Inventories
  BY DEF Typed, GoodsTyped, WorldTyped
<1>2. /\ Mine(c)' = a + e + j
      /\ \A d \in Conn : d # c => Mine(d)' = Mine(d)
      /\ a \in Nat /\ e \in Nat
  BY <1>1, MineAfterSave
<1>3. Mine(c) = b + e + i
  BY MineIs
<1>4. b \in Nat
  <2>1. \A x \in Kept : inv[c][x] \in Stacks
    BY <1>1, CellsAre DEF Inventories
  <2> QED BY <2>1, KeptAmount
<1>5. i \in Nat /\ j \in Nat /\ g \in Nat /\ h \in Nat
  BY <1>1, InTableIs, CountsIs
<1>6. h + a + j = g + b + i
  OBVIOUS
<1>7. h + (a + e + j) = g + (b + e + i)
  <2> HIDE DEF a, b, i, j, e, g, h
  <2> QED BY <1>2, <1>4, <1>5, <1>6
<1>8. OnGround' + Mine(c)' = OnGround + Mine(c)
  BY <1>2, <1>3, <1>7
<1> QED BY <1>2, <1>8, MineAndGround

\* Respawn leaves the total.
LEMMA RespawnTotal == ASSUME Typed, Counts, NEW c \in Conn, Respawn(c) PROVE Total' = Total
<1> DEFINE f == WithResult(inv[c], "result", "grid")
<1>1. Save(c, f, ender[c]) /\ UNCHANGED <<block, be, win, life, ground>> /\ life[c] # "off"
  BY DEF Respawn
<1>2. f \in [InvCells -> Stacks] /\ \A x \in Kept : f[x] = inv[c][x] /\ inv[c][x] \in Stacks
  <2>1. inv[c] \in Inventories
    BY DEF Typed, GoodsTyped
  <2> QED BY <2>1, InventoryCells, CellsAre DEF Inventories
<1> HIDE DEF f
<1>3. Amount(f, Kept) = Amount(inv[c], Kept)
  BY <1>2, KeptAmount
<1>4. InTable(win'[c]) \in Nat
  BY <1>1, InTableIs DEF Typed, WorldTyped
<1>5. OnGround' + Amount(f, Kept) + InTable(win'[c]) = OnGround + Amount(inv[c], Kept) + InTable(win[c])
  BY <1>1, <1>3 DEF OnGround
<1> QED BY <1>1, <1>2, <1>4, <1>5, SameThere, SaveTotal

\* Die leaves the total.
LEMMA DieTotal == ASSUME Typed, Counts, Durable, NEW c \in Conn, Die(c) PROVE Total' = Total
<1> DEFINE left == Leave(c, be)
           f == [left.inv EXCEPT !["result"] = Nothing]
<1>1. /\ life[c] = "on" /\ left.inv \in [InvCells -> Stacks] /\ f \in [InvCells -> Stacks]
      /\ be' = left.be /\ ground' = Fallen(left.ground, f, InvCells)
      /\ Save(c, EmptyInv, ender[c]) /\ win' = [win EXCEPT ![c] = Closed] /\ UNCHANGED <<block, lastId, life>>
  BY DieIs
<1>2. /\ WorldTyped /\ GoodsTyped /\ be \in [Pos -> Boxes \cup {NoBox}] /\ win \in [Conn -> Windows]
      /\ EmptyInv \in [InvCells -> Stacks]
  BY EmptyIs DEF Typed, WorldTyped, Inventories
<1>3. left.ground \in [Items -> Nat]
  BY <1>2, LeaveTyped
<1>4. /\ Amount(left.inv, Kept) + left.ground[Raw] + left.ground[Made]
           = Amount(inv[c], Kept) + InTable(win[c]) + OnGround
      /\ Amount(left.inv, Kept) \in Nat /\ Amount(inv[c], Kept) \in Nat
      /\ InTable(win[c]) \in Nat /\ OnGround \in Nat
      /\ left.ground[Raw] \in Nat /\ left.ground[Made] \in Nat
  BY <1>2, LeaveGoods
<1>5. \A q \in Pos : There(q)' = There(q)
  BY <1>1, <1>2, LeaveThere, FreshSelf
<1> HIDE DEF left
<1>6. f["result"] = Nothing /\ \A x \in Kept : f[x] = left.inv[x] /\ f[x] \in Stacks
  <2>1. "result" \in InvCells /\ \A x \in Kept : x \in InvCells /\ x # "result"
    BY CellsAre
  <2> QED BY <1>1, <2>1
<1> HIDE DEF f
<1>7. Amount(f, InvCells) = Amount(left.inv, Kept)
  <2>1. Amount(f, Kept) = Amount(left.inv, Kept)
    BY <1>1, <1>6, CellsAre, KeptAmount
  <2>2. InvCells = Kept \cup {"result"} /\ "result" \notin Kept /\ IsFiniteSet(Kept)
    BY CellsAre, CellsAreFinite
  <2>3. \A y \in Kept \cup {"result"} : f[y] \in Stacks
    BY <1>1, <2>2
  <2>4. Amount(f, Kept \cup {"result"}) = Amount(f, Kept) + f["result"].n /\ Amount(f, Kept) \in Nat
    BY <2>2, <2>3, AmountBut
  <2>5. f["result"].n = 0
    BY <1>6, NothingIs
  <2> QED BY <2>1, <2>2, <2>4, <2>5
<1>8. OnGround' = left.ground[Raw] + left.ground[Made] + Amount(left.inv, Kept)
  <2>1. IsFiniteSet(InvCells) /\ \A x \in InvCells : f[x] \in Stacks
    BY <1>1, CellsAreFinite
  <2> QED BY <1>1, <1>3, <1>7, <2>1, FallenGround
<1>9. win'[c] = Closed /\ \A d \in Conn : d # c => win'[d] = win[d]
  BY <1>1, <1>2
<1>10. InTable(win'[c]) = 0
  BY <1>2, <1>9, InTableIs, ClosedIs
<1>11. Amount(EmptyInv, Kept) = 0
  BY EmptyIs, CellsAre, CellsAreFinite, AmountOfNothing
<1>12. OnGround' + Amount(EmptyInv, Kept) + InTable(win'[c]) = OnGround + Amount(inv[c], Kept) + InTable(win[c])
  <2> DEFINE A == Amount(left.inv, Kept)
             R == left.ground[Raw]
             M == left.ground[Made]
             B == Amount(inv[c], Kept)
             I == InTable(win[c])
             g == OnGround
             h == OnGround'
             z == Amount(EmptyInv, Kept)
             j == InTable(win'[c])
  <2>1. /\ A \in Nat /\ R \in Nat /\ M \in Nat /\ B \in Nat /\ I \in Nat /\ g \in Nat
        /\ A + R + M = B + I + g /\ h = R + M + A /\ z = 0 /\ j = 0
    BY <1>4, <1>8, <1>10, <1>11
  <2> HIDE DEF A, R, M, B, I, g, h, z, j
  <2>2. h + z + j = g + B + I
    BY <2>1
  <2> QED BY <2>2 DEF B, I, g, h, z, j
<1> QED BY <1>1, <1>2, <1>5, <1>9, <1>10, <1>12, SaveTotal

\* PickUp leaves the total.
LEMMA PickUpTotal == ASSUME Typed, Counts, NEW c \in Conn, NEW i \in Items, PickUp(c, i) PROVE Total' = Total
<1> DEFINE h(n) == Over(inv[c], [ground |-> Stack(i, n)])
           f(n) == Absorb(h(n), "ground")
           g(n) == WithResult(f(n), "result", "grid")
           D == InvCells \cup {"ground"}
<1>0. PICK n \in 1 .. MaxStack : PickedUp(c, i, n)
  BY PickUpIs
<1>1. /\ n <= ground[i] /\ f(n)["ground"].n < n /\ f(n)["ground"].n \in Nat
      /\ ground' = [ground EXCEPT ![i] = @ - (n - f(n)["ground"].n)]
      /\ h(n) \in [D -> Stacks] /\ h(n)["ground"].n = n /\ \A x \in InvCells : h(n)[x] = inv[c][x]
      /\ f(n) \in Moves(D, MainCells \cup {"ground"}, {}, h(n))
      /\ f(n) \in [D -> Stacks] /\ g(n) \in [D -> Stacks]
      /\ \A x \in D : x # "result" => g(n)[x] = f(n)[x]
      /\ Save(c, g(n), ender[c]) /\ SendTo(c, clicks, <<Contents(0, g(n))>>)
      /\ life[c] = "on" /\ c \notin dead /\ win[c].id = 0
      /\ UNCHANGED <<block, be, win, lastId, life, dead>>
  BY <1>0, Zenon DEF PickedUp
<1> DEFINE hh == h(n)
           ff == f(n)
           gg == g(n)
           k == ff["ground"].n
<1>2. /\ n <= ground[i] /\ k < n /\ k \in Nat
      /\ ground' = [ground EXCEPT ![i] = @ - (n - k)]
      /\ hh \in [D -> Stacks] /\ hh["ground"].n = n /\ \A x \in InvCells : hh[x] = inv[c][x]
      /\ ff \in Moves(D, MainCells \cup {"ground"}, {}, hh)
      /\ ff \in [D -> Stacks] /\ gg \in [D -> Stacks]
      /\ \A x \in D : x # "result" => gg[x] = ff[x]
      /\ Save(c, gg, ender[c]) /\ life[c] = "on" /\ UNCHANGED <<block, be, win, lastId, life, dead>>
  BY <1>1
<1> HIDE DEF h, f, g, hh, ff, gg
<1>3. ground \in [Items -> Nat] /\ inv[c] \in [InvCells -> Stacks] /\ win[c] \in Windows
  BY DEF Typed, GoodsTyped, WorldTyped, Inventories
<1>4. ground'[i] = ground[i] - (n - k) /\ \A j \in Items : j # i => ground'[j] = ground[j]
  BY <1>2, <1>3
<1> HIDE DEF k
<1>5. OnGround' + n = OnGround + k
  <2>1. i = Raw \/ i = Made
    BY DEF Items
  <2>2. ground[Raw] \in Nat /\ ground[Made] \in Nat /\ Raw # Made /\ Raw \in Items /\ Made \in Items
    BY <1>3, Sizes DEF Items
  <2>3. CASE i = Raw
    <3>1. ground'[Raw] = ground[Raw] - (n - k) /\ ground'[Made] = ground[Made]
      BY <1>4, <2>2, <2>3
    <3> QED BY <1>2, <2>2, <3>1 DEF OnGround
  <2>4. CASE i = Made
    <3>1. ground'[Made] = ground[Made] - (n - k) /\ ground'[Raw] = ground[Raw]
      BY <1>4, <2>2, <2>4
    <3> QED BY <1>2, <2>2, <3>1 DEF OnGround
  <2> QED BY <2>1, <2>3, <2>4
<1>6. Amount(gg, Kept) + k = Amount(inv[c], Kept) + n /\ Amount(gg, Kept) \in Nat /\ Amount(inv[c], Kept) \in Nat
  <2> DEFINE V == Kept \cup {"ground"}
  <2>1. "ground" \notin Kept /\ IsFiniteSet(Kept) /\ IsFiniteSet(V) /\ V \in SUBSET D
        /\ MainCells \cup {"ground"} \in SUBSET V /\ {} \cap V = {}
    BY CellsAre, CellsAreFinite, FS_AddElement
  <2>2. ff \in Moves(D, V, {}, hh)
    <3> HIDE DEF V, D
    <3> QED BY <1>2, <2>1, MovesWider
  <2>3. Amount(ff, V) = Amount(hh, V)
    BY <2>2 DEF Moves
  <2>4. \A y \in V : ff[y] \in Stacks /\ hh[y] \in Stacks
    BY <1>2, <2>1
  <2>5. Amount(ff, V) = Amount(ff, Kept) + ff["ground"].n /\ Amount(ff, Kept) \in Nat
    BY <2>1, <2>4, AmountBut
  <2>6. Amount(hh, V) = Amount(hh, Kept) + hh["ground"].n /\ Amount(hh, Kept) \in Nat
    BY <2>1, <2>4, AmountBut
  <2>7. Amount(gg, Kept) = Amount(ff, Kept)
    <3>1. \A x \in Kept : gg[x] = ff[x] /\ ff[x] \in Stacks
      BY <1>2, CellsAre
    <3> QED BY <3>1, KeptAmount
  <2>8. Amount(hh, Kept) = Amount(inv[c], Kept)
    <3>1. \A x \in Kept : hh[x] = inv[c][x] /\ inv[c][x] \in Stacks
      BY <1>2, <1>3, CellsAre
    <3> QED BY <3>1, KeptAmount
  <2>9. ff["ground"].n = k
    BY DEF k
  <2>10. hh["ground"].n = n
    BY <1>2
  <2> QED BY <2>3, <2>5, <2>6, <2>7, <2>8, <2>9, <2>10
<1>7. InTable(win[c]) \in Nat /\ InTable(win'[c]) = InTable(win[c])
  BY <1>2, <1>3, InTableIs
<1>8. OnGround' + Amount(gg, Kept) + InTable(win'[c]) = OnGround + Amount(inv[c], Kept) + InTable(win[c])
  <2> DEFINE a == Amount(gg, Kept)
             b == Amount(inv[c], Kept)
             x == OnGround
             y == OnGround'
             t == InTable(win[c])
  <2>1. a \in Nat /\ b \in Nat /\ x \in Nat /\ y \in Nat /\ t \in Nat /\ n \in Nat /\ k \in Nat
        /\ y + n = x + k /\ a + k = b + n
    BY <1>2, <1>5, <1>6, <1>7, CountsIs
  <2> HIDE DEF a, b, x, y, t
  <2>2. y + a + t = x + b + t
    BY <2>1
  <2>3. y + a + InTable(win'[c]) = x + b + t
    BY <1>7, <2>2 DEF t
  <2> QED BY <2>3 DEF a, b, x, y, t
<1>9. life[c] # "off" /\ InTable(win'[c]) \in Nat /\ (\A d \in Conn : d # c => win'[d] = win[d])
      /\ life' = life /\ (\A q \in Pos : There(q)' = There(q)) /\ Save(c, gg, ender[c])
  BY <1>2, <1>7, SameThere
<1>10. InvCells \subseteq D
  OBVIOUS
<1> HIDE DEF D
<1> QED BY <1>2, <1>8, <1>9, <1>10, SaveTotal

\* HandleClose leaves the total.
LEMMA HandleCloseTotal == ASSUME Typed, Counts, Durable, NEW c \in Conn, HandleClose(c) PROVE Total' = Total
<1> DEFINE m == Head(clicks[c])
           left == Leave(c, be)
           f == Returned(inv[c], "result", "grid")
           g == Emptied(f, {"grid"})
<1>1. /\ life[c] = "on"
      /\ m.id = 0 => /\ ground' = Fallen(ground, f, {"grid"}) /\ Save(c, g, ender[c]) /\ win' = win /\ be' = be
      /\ m.id # 0 => /\ ground' = left.ground /\ be' = left.be /\ win' = [win EXCEPT ![c] = Closed]
                     /\ IF win[c].kind \in {"table", "ender"} THEN Save(c, left.inv, ender[c])
                        ELSE UNCHANGED <<inv, ender, file>>
      /\ UNCHANGED <<block, lastId, life, dead>>
  BY HandleCloseIs
<1>2. /\ WorldTyped /\ GoodsTyped /\ be \in [Pos -> Boxes \cup {NoBox}] /\ win \in [Conn -> Windows]
      /\ inv[c] \in [InvCells -> Stacks] /\ ground \in [Items -> Nat] /\ InTable(win[c]) \in Nat
  BY InTableIs DEF Typed, WorldTyped, GoodsTyped, Inventories
<1> HIDE DEF m
<1>3. CASE m.id = 0
  <2>1. /\ Amount(g, Kept) + Amount(f, {"grid"}) = Amount(inv[c], Kept)
        /\ Amount(g, Kept) \in Nat /\ Amount(f, {"grid"}) \in Nat
        /\ f \in [InvCells -> Stacks] /\ g \in [InvCells -> Stacks]
    BY <1>2, ReturnedAmount
  <2> HIDE DEF f, g, left
  <2>2. OnGround' = ground[Raw] + ground[Made] + Amount(f, {"grid"})
    <3>1. IsFiniteSet({"grid"}) /\ \A x \in {"grid"} : f[x] \in Stacks
      BY <2>1, FS_Singleton, CellsAre
    <3> QED BY <1>1, <1>2, <1>3, <3>1, FallenGround
  <2>3. OnGround' + Amount(g, Kept) + InTable(win'[c]) = OnGround + Amount(inv[c], Kept) + InTable(win[c])
    <3> DEFINE a == Amount(g, Kept)
               b == Amount(inv[c], Kept)
               q == Amount(f, {"grid"})
               x == OnGround
               y == OnGround'
               t == InTable(win[c])
    <3>1. a \in Nat /\ q \in Nat /\ x \in Nat /\ t \in Nat /\ y = x + q /\ a + q = b
      BY <1>2, <2>1, <2>2, CountsIs DEF OnGround
    <3> HIDE DEF a, b, q, x, y, t
    <3>2. y + a + t = x + b + t
      BY <3>1
    <3> QED BY <1>1, <1>3, <3>2 DEF a, b, x, y, t
  <2>4. life[c] # "off" /\ InTable(win'[c]) \in Nat /\ (\A d \in Conn : d # c => win'[d] = win[d])
        /\ life' = life /\ (\A q \in Pos : There(q)' = There(q)) /\ Save(c, g, ender[c])
    BY <1>1, <1>2, <1>3, SameThere
  <2> QED BY <2>1, <2>3, <2>4, SaveTotal
<1>4. CASE m.id # 0
  <2> HIDE DEF f, g
  <2>1. left.inv \in [InvCells -> Stacks]
    BY <1>2, LeaveTyped DEF Inventories
  <2>2. /\ Amount(left.inv, Kept) + left.ground[Raw] + left.ground[Made]
             = Amount(inv[c], Kept) + InTable(win[c]) + OnGround
        /\ Amount(left.inv, Kept) \in Nat /\ Amount(inv[c], Kept) \in Nat
        /\ InTable(win[c]) \in Nat /\ OnGround \in Nat
        /\ left.ground[Raw] \in Nat /\ left.ground[Made] \in Nat
        /\ win[c].kind # "table" => left.inv = inv[c]
    BY <1>2, LeaveGoods
  <2>3. \A q \in Pos : There(q)' = There(q)
    BY <1>1, <1>2, <1>4, LeaveThere, FreshSelf
  <2> HIDE DEF left
  <2>4. win'[c] = Closed /\ \A d \in Conn : d # c => win'[d] = win[d]
    BY <1>1, <1>2, <1>4
  <2>5. InTable(win'[c]) = 0
    BY <1>2, <2>4, InTableIs, ClosedIs
  <2>6. OnGround' = left.ground[Raw] + left.ground[Made]
    BY <1>1, <1>4 DEF OnGround
  <2>7. CASE win[c].kind \in {"table", "ender"}
    <3>1. OnGround' + Amount(left.inv, Kept) + InTable(win'[c]) = OnGround + Amount(inv[c], Kept) + InTable(win[c])
      <4> DEFINE A == Amount(left.inv, Kept)
                 R == left.ground[Raw]
                 M == left.ground[Made]
                 B == Amount(inv[c], Kept)
                 I == InTable(win[c])
                 x == OnGround
                 y == OnGround'
                 j == InTable(win'[c])
      <4>1. A \in Nat /\ R \in Nat /\ M \in Nat /\ B \in Nat /\ I \in Nat /\ x \in Nat
            /\ A + R + M = B + I + x /\ y = R + M /\ j = 0
        BY <2>2, <2>5, <2>6
      <4> HIDE DEF A, R, M, B, I, x, y, j
      <4>2. y + A + j = x + B + I
        BY <4>1
      <4> QED BY <4>2 DEF A, B, I, x, y, j
    <3>2. Save(c, left.inv, ender[c]) /\ life' = life /\ life[c] # "off" /\ InTable(win'[c]) \in Nat
      BY <1>1, <1>4, <2>5, <2>7
    <3> QED BY <2>1, <2>3, <2>4, <3>1, <3>2, SaveTotal
  <2>8. CASE win[c].kind \notin {"table", "ender"}
    <3>1. UNCHANGED <<inv, ender, file, life>> /\ left.inv = inv[c]
      BY <1>1, <1>4, <2>2, <2>8
    <3>2. InTable(win[c]) = 0
      BY <2>8 DEF InTable
    <3>3. \A d \in Conn : InTable(win'[d]) = InTable(win[d])
      BY <2>4, <2>5, <3>2
    <3>4. \A d \in Conn : Mine(d)' = Mine(d)
      BY <3>1, <3>3, MineSame
    <3>5. OnGround' = OnGround
      <4> DEFINE A == Amount(left.inv, Kept)
                 R == left.ground[Raw]
                 M == left.ground[Made]
                 I == InTable(win[c])
                 x == OnGround
                 y == OnGround'
      <4>1. A \in Nat /\ R \in Nat /\ M \in Nat /\ x \in Nat
            /\ A + R + M = A + I + x /\ y = R + M /\ I = 0
        BY <2>2, <2>6, <3>1, <3>2
      <4> HIDE DEF A, R, M, I, x, y
      <4>2. y = x
        BY <4>1
      <4> QED BY <4>2 DEF x, y
    <3>6. AllMine' = AllMine /\ AllThere' = AllThere
      BY <2>3, <3>4, MineStays, ThereStays
    <3> QED BY <3>5, <3>6, CountsIs
  <2> QED BY <2>7, <2>8
<1> QED BY <1>3, <1>4

\* The kind of the window a click with that id is about: none, for the player's own.
KindOf(c, id) == IF id = 0 THEN "none" ELSE win[c].kind

\* Arithmetic: the same for two parts.
LEMMA TwoBalance ==
    ASSUME NEW a \in Nat, NEW b \in Nat, NEW t \in Nat, NEW u \in Nat, NEW g \in Nat, NEW f \in Nat,
           NEW h \in Nat, NEW k \in Nat, b + g = a + f, u + h = t + k
    PROVE  b + u + (g + h) = a + t + (f + k)
OBVIOUS

\* What a click that leaves f changes.
LEMMA ClickedKeeps ==
    ASSUME Typed, Durable, Durable', Counts, NEW c \in Conn, NEW id \in 0 .. Ids,
           id # 0 => win[c].id # 0, life[c] = "on",
           NEW f \in [Cell -> Stacks], NEW dirty \in BOOLEAN, AfterClick(c, id, f, dirty),
           dirty => win[c].kind \in Stored
    PROVE  /\ AllMine' + AllThere' + Amount(Cells(c), Counted(KindOf(c, id)))
              = AllMine + AllThere + Amount(f, Counted(KindOf(c, id)))
           /\ Amount(Cells(c), Counted(KindOf(c, id))) \in Nat /\ Amount(f, Counted(KindOf(c, id))) \in Nat
<1> DEFINE K == KindOf(c, id)
           U == Counted(K)
           e == IF id # 0 /\ win[c].kind = "ender" THEN f["in"] ELSE ender[c]
           g == Cells(c)
           a == AllMine
           a2 == AllMine'
           t == AllThere
           t2 == AllThere'
           i == InTable(win[c])
           i2 == InTable(win'[c])
           fk == Amount(f, Kept)
           gk == Amount(g, Kept)
           n == ender[c].n
           n2 == e.n
<1>1. /\ id = 0 => win' = win /\ be' = be
      /\ \A d \in Conn : d # c => win'[d] = win[d]
      /\ win'[c].kind = win[c].kind /\ win'[c].pos = win[c].pos
      /\ id # 0 => /\ win'[c].box \in Boxes /\ \A x \in BoxCells : win'[c].box[x] = f[x]
                   /\ be' = IF dirty /\ block[win[c].pos] \in Stored
                            THEN [be EXCEPT ![win[c].pos] = win'[c].box] ELSE be
      /\ Save(c, f, e) /\ UNCHANGED <<block, life>>
  <2> HIDE DEF K, U, g, a, a2, t, t2, i, i2, fk, gk, n, n2
  <2> QED BY Zenon DEF AfterClick
<1>2. GoodsTyped /\ WorldTyped /\ win[c] \in Windows /\ be \in [Pos -> Boxes \cup {NoBox}]
      /\ inv[c] \in [InvCells -> Stacks] /\ ender[c] \in Stacks
  BY DEF Typed, WorldTyped, GoodsTyped, Inventories
<1>3. /\ g \in [Cell -> Stacks] /\ \A x \in InvCells : g[x] = inv[c][x]
      /\ \A x \in BoxCells : g[x] = win[c].box[x]
  <2> HIDE DEF K, U, e
  <2> QED BY <1>2, CellsTyped
<1>4. e \in Stacks /\ InvCells \subseteq Cell
  <2>1. f["in"] \in Stacks
    BY CellsAre
  <2> QED BY <1>2, <2>1, CellsAre
<1> HIDE DEF e, g
<1>5. /\ Mine(c)' = fk + n2 + i2
      /\ \A d \in Conn : d # c => Mine(d)' = Mine(d)
      /\ fk \in Nat /\ n2 \in Nat
  BY <1>1, <1>2, <1>4, MineAfterSave
<1>6. Mine(c) = gk + n + i /\ gk \in Nat
  <2>1. (\A x \in Kept : inv[c][x] \in Stacks) /\ \A x \in Kept : g[x] = inv[c][x]
    BY <1>2, <1>3, CellsAre
  <2>2. Amount(g, Kept) = Amount(inv[c], Kept) /\ Amount(g, Kept) \in Nat
    BY <2>1, KeptAmount
  <2>3. Mine(c) = Amount(inv[c], Kept) + n + i
    BY MineIs
  <2> QED BY <2>2, <2>3
<1>7. /\ a \in Nat /\ a2 \in Nat /\ t \in Nat /\ t2 \in Nat /\ i \in Nat /\ n \in Nat
      /\ (AllMine' + Mine(c) = AllMine + Mine(c)') 
  BY <1>2, <1>5, MineChanges, CountsIs, InTableIs, StackIs, Sizes
<1>8. a2 + (gk + n + i) = a + (fk + n2 + i2)
  BY <1>5, <1>6, <1>7
<1>9. win[c].kind \in Kinds \cup {"none"} /\ (id # 0 => win[c].kind \in Kinds)
  BY <1>2, WindowIs, KindsAre
<1>10. IsFiniteSet(Kept) /\ "in" \notin Kept /\ Kept \subseteq Cell /\ "in" \in Cell /\ BoxCells \subseteq Cell /\ Kept \cap BoxCells = {}
       /\ IsFiniteSet(BoxCells) /\ "in" \in BoxCells
  BY CellsAre, CellsAreFinite
\* The player's own window.
<1>11. CASE id = 0
  <2>1. U = Kept
    BY <1>11, CountedIs DEF KindOf
  <2>2. i2 = i /\ n2 = n
    BY <1>1, <1>11 DEF e
  <2>3. t2 = t
    BY <1>1, <1>11, SameThere, ThereStays
  <2>4. a2 + t2 + gk = a + t + fk
    <3> HIDE DEF a, a2, t, t2, i, i2, fk, gk, n, n2
    <3>1. a2 + (gk + n + i) = a + (fk + n + i)
      BY <1>8, <2>2
    <3>2. a2 + gk = a + fk
      BY <1>5, <1>6, <1>7, <3>1
    <3> QED BY <1>5, <1>6, <1>7, <2>3, <3>2
  <2> QED BY <1>5, <1>6, <2>1, <2>4 DEF g
\* A crafting table or an ender chest.
<1>12. ASSUME id # 0, win[c].kind \in {"table", "ender"}
       PROVE  /\ U = Kept \cup {"in"}
              /\ Amount(f, U) = fk + f["in"].n /\ Amount(g, U) = gk + g["in"].n
              /\ f["in"].n \in Nat /\ g["in"].n \in Nat /\ t2 = t
              /\ g["in"] = win[c].box["in"] /\ win'[c].box["in"] = f["in"]
  <2>1. U = Kept \cup {"in"}
    <3>1. K = win[c].kind /\ K \in Kinds \cup {"none"}
      BY <1>9, <1>12 DEF KindOf
    <3> HIDE DEF K
    <3> QED BY <1>12, <3>1, CountedIs
  <2>2. \A y \in Kept \cup {"in"} : f[y] \in Stacks /\ g[y] \in Stacks
    BY <1>3, <1>10
  <2>3. Amount(f, Kept \cup {"in"}) = Amount(f, Kept) + f["in"].n /\ f["in"].n \in Nat
    BY <1>10, <2>2, AmountBut
  <2>4. Amount(g, Kept \cup {"in"}) = Amount(g, Kept) + g["in"].n /\ g["in"].n \in Nat
    BY <1>10, <2>2, AmountBut
  <2>5. be' = be
    BY <1>1, <1>12, StoredAre
  <2>6. t2 = t
    BY <1>1, <2>5, SameThere, ThereStays
  <2> QED BY <1>1, <1>3, <1>10, <1>12, <2>1, <2>3, <2>4, <2>6
<1>13. CASE id # 0 /\ win[c].kind = "table"
  <2>1. i = g["in"].n /\ i2 = f["in"].n
    BY <1>1, <1>12, <1>13 DEF InTable
  <2>2. n2 = n
    BY <1>13 DEF e
  <2>3. a2 + t2 + Amount(g, U) = a + t + Amount(f, U)
    <3>1. Amount(f, U) = fk + i2 /\ Amount(g, U) = gk + i /\ t2 = t /\ i2 \in Nat
      BY <1>12, <1>13, <2>1
    <3> HIDE DEF a, a2, t, t2, i, i2, fk, gk, n, n2
    <3>2. a2 + (gk + i) = a + (fk + i2)
      BY <1>5, <1>6, <1>7, <1>8, <2>2, <3>1
    <3>3. a2 + t + (gk + i) = a + t + (fk + i2)
      BY <1>5, <1>6, <1>7, <3>1, <3>2
    <3> QED BY <3>1, <3>3
  <2> QED BY <1>5, <1>6, <1>12, <1>13, <2>3 DEF g
<1>14. CASE id # 0 /\ win[c].kind = "ender"
  <2>1. i = 0 /\ i2 = 0
    BY <1>1, <1>14 DEF InTable
  <2>2. n2 = f["in"].n
    BY <1>14 DEF e
  <2>3. n = g["in"].n
    <3>1. win[c].box["in"] = ender[c]
      BY <1>14 DEF Durable, Backed, BackedBy
    <3> QED BY <1>12, <1>14, <3>1
  <2>4. a2 + t2 + Amount(g, U) = a + t + Amount(f, U)
    <3>1. Amount(f, U) = fk + n2 /\ Amount(g, U) = gk + n /\ t2 = t
      BY <1>12, <1>14, <2>2, <2>3
    <3> HIDE DEF a, a2, t, t2, i, i2, fk, gk, n, n2
    <3>2. a2 + (gk + n) = a + (fk + n2)
      BY <1>5, <1>6, <1>7, <1>8, <2>1
    <3>3. a2 + t + (gk + n) = a + t + (fk + n2)
      BY <1>5, <1>6, <1>7, <3>1, <3>2
    <3> QED BY <3>1, <3>3
  <2> QED BY <1>5, <1>6, <1>12, <1>14, <2>4 DEF g
\* A chest or a furnace.
<1>15. CASE id # 0 /\ win[c].kind \in Stored
  <2>6. win[c].pos \in Pos
    BY <1>2, <1>15, WindowIs, ClosedIs, StoredAre
  <2>0. PICK p \in Pos : p = win[c].pos
    BY <2>6
  <2> DEFINE gb == Amount(g, BoxCells)
             fb == Amount(f, BoxCells)
  <2>1. U = Kept \cup BoxCells
    <3>1. K = win[c].kind /\ K \in Kinds \cup {"none"}
      BY <1>9, <1>15 DEF KindOf
    <3> HIDE DEF K
    <3> QED BY <1>15, <3>1, CountedIs
  <2>2. \A y \in Kept \cup BoxCells : f[y] \in Stacks /\ g[y] \in Stacks
    BY <1>3, <1>10
  <2>3. Amount(f, U) = fk + fb /\ Amount(g, U) = gk + gb
    BY <1>10, <2>1, <2>2, AmountOfUnion
  <2>4. fb \in Nat /\ gb \in Nat /\ fb = InBox(f) /\ gb = InBox(g)
    BY <2>2, InBoxIs
  <2>5. fb = InBox(win'[c].box) /\ gb = InBox(win[c].box)
    BY <1>1, <1>3, <1>15, <2>4 DEF InBox, BoxCells
  <2>9. \A q \in Pos : q # p => There(q)' = There(q)
    <3>1. \A q \in Pos : q # p => be'[q] = be[q]
      BY <1>1, <1>2, <1>15, <2>0
    <3> QED BY <1>1, <3>1, ThereKept
  <2>7. ASSUME p \in shared \cup shared' PROVE t2 + gb = t + fb
    <3>1. c \in Users(p)
      BY <1>15, <2>0 DEF Users
    <3>2. win'[c] = win[c]
      BY <2>7, <3>1 DEF Counts, Calm
    <3>3. There(p)' = There(p)
      BY <2>7, ThereOr
    <3>4. t2 = t
      BY <2>9, <3>3, ThereStays
    <3>5. fb = gb
      BY <2>5, <3>2
    <3> HIDE DEF t, t2, fb, gb
    <3> QED BY <3>4, <3>5
  <2>8. ASSUME p \notin shared \cup shared' PROVE t2 + gb = t + fb
    <3>1. BackedBy(win'[c], life'[c], ender'[c], block', be', shared')
      BY DEF Durable, Backed
    <3>5. BackedBy(win[c], life[c], ender[c], block, be, shared)
      BY DEF Durable, Backed
    <3>6. There(p) = InEntity(p) /\ There(p)' = InEntity(p)'
      BY <2>8, ThereOr
    <3>2. be'[p] # NoBox /\ InBox(be'[p]) = InBox(win'[c].box) /\ block'[p] \in Stored
      <4>1. win'[c].kind = win[c].kind /\ win'[c].pos = win[c].pos
        BY <1>1, <1>2, <1>15
      <4> QED BY <1>15, <2>0, <2>8, <3>1, <4>1 DEF BackedBy
    <3>7. be[p] # NoBox /\ InBox(be[p]) = InBox(win[c].box) /\ block[p] \in Stored
      BY <1>15, <2>0, <2>8, <3>5 DEF BackedBy
    <3> HIDE DEF fb, gb
    <3>3. There(p)' = fb
      BY <2>5, <3>2, <3>6 DEF InEntity
    <3>4. There(p) = gb
      BY <2>5, <3>6, <3>7 DEF InEntity
    <3>8. AllThere' + There(p) = AllThere + There(p)'
      BY <2>9, ThereChanges
    <3> QED BY <3>3, <3>4, <3>8
  <2>10. t2 + gb = t + fb
    BY <2>7, <2>8
  <2>11. i = 0 /\ i2 = 0 /\ n2 = n
    BY <1>1, <1>15, StoredAre DEF InTable, e
  <2>12. a2 + t2 + Amount(g, U) = a + t + Amount(f, U)
    <3> HIDE DEF a, a2, t, t2, i, i2, fk, gk, n, n2, fb, gb
    <3>2. a2 + gk = a + fk
      BY <1>5, <1>6, <1>7, <1>8, <2>11
    <3>3. a2 + t2 + (gk + gb) = a + t + (fk + fb)
      <4>1. /\ a \in Nat /\ a2 \in Nat /\ t \in Nat /\ t2 \in Nat
            /\ fk \in Nat /\ gk \in Nat /\ fb \in Nat /\ gb \in Nat
        BY <1>5, <1>6, <1>7, <2>4
      <4> QED BY <2>10, <3>2, <4>1, TwoBalance
    <3> QED BY <2>3, <3>3
  <2>13. Amount(g, U) \in Nat /\ Amount(f, U) \in Nat
    BY <1>5, <1>6, <2>3, <2>4
  <2> QED BY <2>12, <2>13 DEF g
<1>16. id # 0 => win[c].kind \in {"table", "ender"} \/ win[c].kind \in Stored
  BY <1>9, KindsAre, StoredAre
<1> QED BY <1>11, <1>13, <1>14, <1>15, <1>16

-----------------------------------------------------------------------------
(* Clicks that make or lose nothing.                                       *)

\* Click m moves goods within a window of that kind, throws one item out of it,
\* or is on its result.
TrueClick(m, kind) ==
    /\ DOMAIN m.new = DOMAIN m.seen
    /\ \/ m.cell = ResultOf(kind) /\ m.cell # "none"
       \/ /\ m.cell \in Counted(kind) /\ DOMAIN m.new \subseteq Counted(kind)
          /\ m.mode # "throw" => Amount(m.new, DOMAIN m.new) = Amount(m.seen, DOMAIN m.new)
          /\ m.mode = "throw" => /\ m.cell \in DOMAIN m.new /\ m.seen[m.cell] # Nothing
                                 /\ m.new[m.cell] = Less(m.seen[m.cell], 1)
                                 /\ \A x \in DOMAIN m.new : x # m.cell => m.new[x] = m.seen[x]

\* The result and the grid of a window by its kind.
LEMMA ResultsAre ==
    ASSUME NEW c \in Conn, NEW id, win[c] \in Windows, id # 0 => win[c].id # 0
    PROVE  /\ ResultCell(c, id) = ResultOf(KindOf(c, id)) /\ GridCell(c, id) = GridOf(KindOf(c, id))
           /\ KindOf(c, id) \in Kinds \cup {"none"} /\ (id = 0 <=> KindOf(c, id) = "none")
<1>1. KindOf(c, id) \in Kinds \cup {"none"} /\ (id = 0 <=> KindOf(c, id) = "none")
  BY WindowIs, KindsAre DEF KindOf
<1>2. CASE id = 0
  BY <1>2, CraftCells DEF ResultOf, GridOf, KindOf
<1>3. CASE id # 0
  <2>1. KindOf(c, id) # "none" /\ KindOf(c, id) = win[c].kind
    BY <1>1, <1>3 DEF KindOf
  <2>2. ResultOf(win[c].kind) = IF win[c].kind = "table" THEN "out" ELSE "none"
    BY <2>1 DEF ResultOf
  <2>3. ResultCell(c, id) = IF win[c].kind = "table" THEN "out" ELSE "none"
    BY <1>3, CraftCells
  <2>4. GridCell(c, id) = "in" /\ GridOf(win[c].kind) = "in"
    BY <1>3, <2>1, CraftCells DEF GridOf
  <2> QED BY <1>1, <2>1, <2>2, <2>3, <2>4
<1> QED BY <1>1, <1>2, <1>3

\* Copying a click that saw what there is takes away what it drops, and nothing else.
LEMMA FreshKeeps ==
    ASSUME Typed, NEW c \in Conn, NEW m \in Packets, IsClick(m), m.id # 0 => win[c].id # 0,
           TrueClick(m, KindOf(c, m.id)), m.cell # ResultCell(c, m.id),
           \A x \in DOMAIN m.seen : Cells(c)[x] = m.seen[x]
    PROVE  LET U == Counted(KindOf(c, m.id))
           IN  Amount(Copied(c, m), U) + Dropped(c, m).n = Amount(Cells(c), U)
<1> DEFINE k == KindOf(c, m.id)
           U == Counted(k)
           N == DOMAIN m.new
           f == Cells(c)
           g == Copied(c, m)
           r == ResultCell(c, m.id)
           d == Dropped(c, m).n
<1>1. WorldTyped /\ GoodsTyped /\ win[c] \in Windows
  BY DEF Typed, WorldTyped
<1>2. f \in [Cell -> Stacks]
  BY <1>1, CellsTyped
<1>3. /\ g \in [Cell -> Stacks]
      /\ \A x \in Cell : x # r => g[x] = IF x \in N THEN m.new[x] ELSE f[x]
      /\ Dropped(c, m) \in Stacks
      /\ d = IF /\ m.mode = "throw" /\ g[m.cell].n < f[m.cell].n
                /\ g[m.cell].item \in {f[m.cell].item, NoItem}
             THEN f[m.cell].n - g[m.cell].n ELSE 0
  <2> HIDE DEF k, U
  <2> QED BY <1>1, CopiedTyped
<1>4. r = ResultOf(k) /\ k \in Kinds \cup {"none"}
  BY <1>1, ResultsAre
<1>5. U \subseteq Cell /\ IsFiniteSet(U) /\ r \notin U
  <2> HIDE DEF k, r
  <2> QED BY <1>4, CountedIs
<1>6. /\ N = DOMAIN m.seen /\ m.cell \in U /\ N \subseteq U
      /\ m.mode # "throw" => Amount(m.new, N) = Amount(m.seen, N)
      /\ m.mode = "throw" => /\ m.cell \in N /\ m.seen[m.cell] # Nothing
                             /\ m.new[m.cell] = Less(m.seen[m.cell], 1)
                             /\ \A x \in N : x # m.cell => m.new[x] = m.seen[x]
  BY <1>4 DEF TrueClick
<1>7. \A x \in N : f[x] = m.seen[x]
  BY <1>6
<1> HIDE DEF k, U, N, f, g, r, d
<1>8. \A x \in U : g[x] = IF x \in N THEN m.new[x] ELSE f[x]
  BY <1>3, <1>5
<1>9. \A x \in U : f[x] \in Stacks /\ g[x] \in Stacks
  BY <1>2, <1>3, <1>5
<1>10. Amount(g, U) + d = Amount(f, U)
  <2>1. CASE m.mode = "throw"
    <3> DEFINE x == m.cell
               W == U \ {x}
    <3>1. x \in U /\ f[x] # Nothing /\ g[x] = Less(f[x], 1)
      BY <1>6, <1>7, <1>8, <2>1
    <3>2. \A y \in W : g[y] = f[y]
      BY <1>6, <1>7, <1>8, <2>1
    <3>3. IsFiniteSet(W) /\ x \notin W /\ U = W \cup {x}
      BY <1>5, <3>1, FS_Subset
    <3> HIDE DEF W, x
    <3>4. \A y \in W \cup {x} : f[y] \in Stacks /\ g[y] \in Stacks
      BY <1>9, <3>3
    <3>5. Amount(f, W \cup {x}) = Amount(f, W) + f[x].n /\ Amount(f, W) \in Nat /\ f[x].n \in Nat
      BY <3>3, <3>4, AmountBut
    <3>6. Amount(g, W \cup {x}) = Amount(g, W) + g[x].n
      BY <3>3, <3>4, AmountBut
    <3>7. Amount(g, W) = Amount(f, W)
      BY <3>2, <3>3, <3>4, AmountSame
    <3>8. f[x].n # 0 /\ f[x] \in Stacks
      BY <3>1, <3>3, <3>4, StackIs
    <3>9. 1 \in 0 .. f[x].n
      BY <3>5, <3>8
    <3>10. g[x].n = f[x].n - 1 /\ (f[x].n # 1 => g[x].item = f[x].item) /\ g[x] \in Stacks
      BY <3>1, <3>8, <3>9, LessMade
    <3>11. g[x].item \in {f[x].item, NoItem}
      <4>1. f[x].n = 1 => g[x].n = 0
        BY <3>10
      <4>2. g[x].n = 0 => g[x].item = NoItem
        BY <3>10, StackIs, NothingIs
      <4> QED BY <3>10, <4>1, <4>2
    <3>12. d = f[x].n - g[x].n
      BY <1>3, <2>1, <3>5, <3>10, <3>11 DEF x
    <3> QED BY <3>3, <3>5, <3>6, <3>7, <3>10, <3>12
  <2>2. CASE m.mode # "throw"
    <3> DEFINE W == U \ N
    <3>1. IsFiniteSet(W) /\ IsFiniteSet(N) /\ W \cap N = {} /\ U = W \cup N
      BY <1>5, <1>6, FS_Subset
    <3>2. \A y \in W : g[y] = f[y]
      BY <1>8
    <3>3. \A y \in N : g[y] = m.new[y] /\ f[y] = m.seen[y]
      BY <1>6, <1>7, <1>8
    <3> HIDE DEF W
    <3>4. \A y \in W \cup N : f[y] \in Stacks /\ g[y] \in Stacks
      BY <1>9, <3>1
    <3>5. Amount(f, W \cup N) = Amount(f, W) + Amount(f, N) /\ Amount(g, W \cup N) = Amount(g, W) + Amount(g, N)
      BY <3>1, <3>4, AmountOfUnion
    <3>6. Amount(g, W) = Amount(f, W)
      BY <3>1, <3>2, <3>4, AmountSame
    <3>7. Amount(g, N) = Amount(f, N)
      <4>1. \A y \in N : g[y] \in Stacks /\ f[y] \in Stacks /\ m.new[y].n = g[y].n /\ m.seen[y].n = f[y].n
        BY <3>3, <3>4
      <4>2. Amount(m.new, N) = Amount(g, N) /\ Amount(m.seen, N) = Amount(f, N)
        BY <3>1, <4>1, AmountSame
      <4> QED BY <1>6, <2>2, <4>2
    <3>8. d = 0
      BY <1>3, <2>2
    <3>9. Amount(g, U) = Amount(f, U)
      BY <3>1, <3>5, <3>6, <3>7
    <3>10. Amount(f, U) \in Nat
      BY <1>5, <1>9, AmountIsNat
    <3> QED BY <3>8, <3>9, <3>10
  <2> QED BY <2>1, <2>2
<1> QED BY <1>10 DEF U, k, g, f, d

\* Where what the players and containers have changes by what the ground gets.
LEMMA ClickTotal ==
    ASSUME Counts, NEW x \in Nat, NEW y \in Nat, NEW d \in Nat,
           AllMine' + AllThere' + x = AllMine + AllThere + y, y + d = x, OnGround' = OnGround + d
    PROVE  Total' = Total
<1> DEFINE a == AllMine
           b == AllMine'
           t == AllThere
           u == AllThere'
           g == OnGround
           h == OnGround'
<1>1. a \in Nat /\ b \in Nat /\ t \in Nat /\ u \in Nat /\ g \in Nat /\ h \in Nat
  BY CountsIs
<1>2. b + u + x = a + t + y /\ h = g + d
  OBVIOUS
<1>3. b + u + h = a + t + g => Total' = Total
  BY CountsIs
<1> HIDE DEF a, b, t, u, g, h
<1>4. b + u + d = a + t
  BY <1>1, <1>2
<1>5. b + u + h = a + t + g
  BY <1>1, <1>2, <1>4
<1> QED BY <1>3, <1>5

\* The next packet of c, if it is a click on a window that is open, is true.
HeadTrue(c) ==
    LET m == Head(clicks[c])
    IN  IsClick(m) /\ Current(c, m) => TrueClick(m, KindOf(c, m.id))

\* A handled click that makes or loses goods copies something stale.
LEMMA HandleClickTotal ==
    ASSUME Typed, Durable, Durable', Counts, NEW c \in Conn, HeadTrue(c), HandleClick(c)
    PROVE  Total' = Total \/ CopiesStale(c)
<1> DEFINE m == Head(clicks[c])
           k == KindOf(c, m.id)
           U == Counted(k)
<1>1. /\ clicks[c] # <<>> /\ m \in Packets /\ IsClick(m) /\ Current(c, m)
      /\ m.id \in 0 .. Ids /\ (m.id # 0 => win[c].id # 0 /\ m.id = win[c].id)
      /\ life[c] = "on" /\ c \notin dead
      /\ ThrowResult(c, m) \/ TakeResult(c, m) \/ MoveInFurnace(c, m) \/ CopyCells(c, m)
  BY HeadIs
<1>2. WorldTyped /\ GoodsTyped /\ win[c] \in Windows /\ clicks[c] \in Seq(Packets)
  BY DEF Typed, WorldTyped, ClientsTyped
<1>3. Cells(c) \in [Cell -> Stacks]
  BY <1>2, CellsTyped
<1>4. m.mode \in {"pickup", "quick", "throw"} /\ m.cell \in Cell /\ m.new \in Named
  BY <1>1, ClickIs
<1>5. /\ ResultCell(c, m.id) = ResultOf(k) /\ GridCell(c, m.id) = GridOf(k)
      /\ k \in Kinds \cup {"none"} /\ (m.id = 0 <=> k = "none")
  BY <1>1, <1>2, ResultsAre
<1>6. TrueClick(m, k)
  BY <1>1 DEF HeadTrue
<1>7. U \subseteq Cell /\ IsFiniteSet(U) /\ ResultOf(k) \notin U /\ Kept \subseteq U
  <2> HIDE DEF k
  <2> QED BY <1>5, CountedIs
<1> HIDE DEF m
\* What is left where the click moved goods within the window.
<1>8. ASSUME NEW f \in [Cell -> Stacks], NEW dirty \in BOOLEAN, Clicked(c, m.id, f, dirty),
             dirty => win[c].kind \in Stored, NEW d \in Nat, Amount(f, U) + d = Amount(Cells(c), U),
             OnGround' = OnGround + d
      PROVE  Total' = Total
  <2> HIDE DEF U, k
  <2>1. AfterClick(c, m.id, f, dirty)
    BY <1>1, <1>8, ClickedIs
  <2>2. /\ AllMine' + AllThere' + Amount(Cells(c), U) = AllMine + AllThere + Amount(f, U)
        /\ Amount(Cells(c), U) \in Nat /\ Amount(f, U) \in Nat
    BY <1>1, <1>8, <2>1, ClickedKeeps DEF U, k
  <2> QED BY <1>8, <2>2, ClickTotal
<1>9. CASE ThrowResult(c, m)
  BY <1>9, ServerTotal DEF ThrowResult
<1>10. CASE TakeResult(c, m)
  <2> DEFINE r == ResultCell(c, m.id)
             g == GridCell(c, m.id)
             f == IF m.mode = "pickup" THEN Take(Cells(c), r, g) ELSE CraftToMain(Cells(c), r, g)
  <2>1. m.cell = r /\ Clicked(c, m.id, f, FALSE) /\ ground' = ground
    BY <1>10 DEF TakeResult
  <2>2. r # "none" /\ r = ResultOf(k) /\ g = GridOf(k)
    BY <1>4, <1>5, <2>1, CellsAre
  <2>3. r \in Cell \ MainCells /\ g \in Cell \ MainCells /\ r # g /\ r # "cursor" /\ g # "cursor" /\ g \in U
    <3> HIDE DEF k
    <3> QED BY <1>5, <2>2, CountedIs
  <2>4. r \notin U /\ {g, "cursor"} \in SUBSET U /\ MainCells \cup {g} \in SUBSET U
    BY <1>7, <2>2, <2>3, CellsAre
  <2> HIDE DEF r, g, U
  <2>5. f \in [Cell -> Stacks] /\ f \in Moves(Cell, U, {r}, Cells(c))
    <3>1. /\ Take(Cells(c), r, g) \in Moves(Cell, {g, "cursor"}, {r}, Cells(c))
          /\ CraftToMain(Cells(c), r, g) \in Moves(Cell, MainCells \cup {g}, {r}, Cells(c))
          /\ Take(Cells(c), r, g) \in [Cell -> Stacks] /\ CraftToMain(Cells(c), r, g) \in [Cell -> Stacks]
      BY <1>3, <2>3, CraftedIs
    <3>2. {r} \cap U = {} /\ U \in SUBSET Cell
      BY <1>7, <2>4
    <3>3. Take(Cells(c), r, g) \in Moves(Cell, U, {r}, Cells(c))
      BY <1>3, <1>7, <2>4, <3>1, <3>2, MovesWider
    <3>4. CraftToMain(Cells(c), r, g) \in Moves(Cell, U, {r}, Cells(c))
      BY <1>3, <1>7, <2>4, <3>1, <3>2, MovesWider
    <3> QED BY <3>1, <3>3, <3>4
  <2> HIDE DEF f
  <2>6. Amount(f, U) = Amount(Cells(c), U)
    BY <2>5 DEF Moves
  <2>7. Amount(Cells(c), U) \in Nat
    <3>1. \A x \in U : Cells(c)[x] \in Stacks
      BY <1>3, <1>7
    <3> QED BY <1>7, <3>1, AmountIsNat
  <2>8. Amount(f, U) + 0 = Amount(Cells(c), U) /\ OnGround' = OnGround + 0 /\ 0 \in Nat /\ FALSE \in BOOLEAN
    BY <2>1, <2>6, <2>7, CountsIs DEF OnGround
  <2>9. Total' = Total
    BY <1>8, <2>1, <2>5, <2>8
  <2> QED BY <2>9
<1>11. CASE MoveInFurnace(c, m)
  <2> DEFINE f == FurnaceMove(Cells(c), m.cell)
  <2>1. m.id # 0 /\ win[c].kind = "furnace" /\ (UNCHANGED serverVars \/ (Clicked(c, m.id, f, TRUE) /\ ground' = ground))
    BY <1>11 DEF MoveInFurnace, MovesInFurnace
  <2>2. k = "furnace"
    BY <2>1 DEF KindOf
  <2>3. m.cell \in U /\ MainCells \cup BoxCells \subseteq U
    <3>1. ResultOf(k) = "none"
      BY <2>2 DEF ResultOf
    <3>2. m.cell \in U
      BY <1>4, <1>6, <3>1, CellsAre DEF TrueClick
    <3>3. U = Kept \cup BoxCells
      <4>1. k \in Stored
        BY <2>2, StoredAre
      <4> HIDE DEF k
      <4> QED BY <1>5, <4>1, CountedIs
    <3> QED BY <3>2, <3>3, CellsAre
  <2> HIDE DEF U
  <2>4. f \in [Cell -> Stacks] /\ f \in Moves(Cell, U, {}, Cells(c))
    BY <1>3, <1>7, <2>3, FurnaceMoveIs
  <2> HIDE DEF f
  <2>5. CASE Clicked(c, m.id, f, TRUE) /\ ground' = ground
    <3>1. Amount(f, U) = Amount(Cells(c), U)
      BY <2>4 DEF Moves
    <3>2. Amount(Cells(c), U) \in Nat
      <4>1. \A x \in U : Cells(c)[x] \in Stacks
        BY <1>3, <1>7
      <4> QED BY <1>7, <4>1, AmountIsNat
    <3>3. Amount(f, U) + 0 = Amount(Cells(c), U) /\ OnGround' = OnGround + 0 /\ 0 \in Nat /\ TRUE \in BOOLEAN
      BY <2>5, <3>1, <3>2, CountsIs DEF OnGround
    <3>4. Total' = Total
      BY <1>8, <2>1, <2>4, <2>5, <3>3, StoredAre
    <3> QED BY <3>4
  <2> QED BY <2>1, <2>5, ServerTotal
<1>12. CASE CopyCells(c, m)
  <2> DEFINE dirty == win[c].kind \in Stored /\ (win[c].dirty \/ DOMAIN m.new \cap BoxCells # {})
  <2>1. /\ Clicked(c, m.id, Copied(c, m), dirty) /\ m.cell # ResultCell(c, m.id) /\ ~MovesInFurnace(c, m)
        /\ ground' = Fallen(ground, [x \in {m.cell} |-> Dropped(c, m)], {m.cell})
    BY <1>12, CopyIs
  <2>2. Copied(c, m) \in [Cell -> Stacks] /\ Dropped(c, m) \in Stacks
    BY <1>1, <1>2, CopiedTyped
  <2>3. dirty \in BOOLEAN /\ (dirty => win[c].kind \in Stored)
    OBVIOUS
  <2> HIDE DEF dirty
  <2>4. CASE \A x \in DOMAIN m.seen : Cells(c)[x] = m.seen[x]
    <3> DEFINE s == [x \in {m.cell} |-> Dropped(c, m)]
    <3>1. Amount(Copied(c, m), U) + Dropped(c, m).n = Amount(Cells(c), U)
      BY <1>1, <1>6, <2>1, <2>4, FreshKeeps
    <3>2. s \in [{m.cell} -> Stacks] /\ s[m.cell] = Dropped(c, m) /\ IsFiniteSet({m.cell})
          /\ \A x \in {m.cell} : s[x] \in Stacks
      BY <2>2, FS_Singleton
    <3>3. ground' = Fallen(ground, s, {m.cell})
      BY <2>1
    <3> HIDE DEF s
    <3>4. Amount(s, {m.cell}) = s[m.cell].n
      <4>1. m.cell \in {m.cell} /\ {m.cell} \in SUBSET {m.cell}
        OBVIOUS
      <4> QED BY <3>2, <4>1, EmptiedFalls
    <3>5. ground \in [Items -> Nat]
      BY <1>2 DEF GoodsTyped
    <3>6. OnGround' = ground[Raw] + ground[Made] + Amount(s, {m.cell})
      BY <3>2, <3>3, <3>5, FallenGround
    <3>7. OnGround' = OnGround + Dropped(c, m).n
      BY <3>2, <3>4, <3>6 DEF OnGround
    <3>8. Dropped(c, m).n \in Nat
      BY <2>2, StackIs, Sizes
    <3> HIDE DEF U
    <3>9. Total' = Total
      BY <1>8, <2>1, <2>2, <2>3, <3>1, <3>7, <3>8
    <3> QED BY <3>9
  <2>5. CASE \E x \in DOMAIN m.seen : Cells(c)[x] # m.seen[x]
    <3>1. AfterClick(c, m.id, Copied(c, m), dirty)
      <4> HIDE DEF k, U
      <4> QED BY <1>1, <2>1, <2>2, <2>3, ClickedIs
    <3>2. SendTo(c, Rest(c), <<Contents(m.id, Copied(c, m))>>) /\ life' = life
      <4> HIDE DEF k, U
      <4> QED BY <3>1, Zenon DEF AfterClick
    <3>3. clicks' = Rest(c)
      BY <3>2 DEF SendTo, Send
    <3>4. clicks'[c] = Tail(clicks[c])
      BY <1>1, <3>3, RestTyped DEF Typed
    <3>5. Len(clicks'[c]) < Len(clicks[c])
      BY <1>1, <1>2, <3>4
    <3>6. CopiesStale(c)
      <4> HIDE DEF k, U
      <4> QED BY <1>1, <2>1, <2>5, <3>2, <3>5, Zenon DEF CopiesStale, m
    <3> QED BY <3>6
  <2> QED BY <2>4, <2>5
<1> QED BY <1>1, <1>9, <1>10, <1>11, <1>12

-----------------------------------------------------------------------------
(* The window a click is for is the one its client saw.                    *)

\* What a client proposes makes and loses nothing by itself.
LEMMA ProposedTrue ==
    ASSUME NEW kind \in Kinds \cup {"none"}, NEW f \in [Cell -> Stacks], NEW id \in 0 .. Ids,
           NEW mode \in {"pickup", "quick", "throw"}, NEW x, NEW g, Proposal(kind, f, mode, x, g)
    PROVE  TrueClick(ClickOn(id, mode, x, f, g), kind)
<1> DEFINE N == NamedIn(f, g)
           n == Restrict(g, N)
           s == Restrict(f, N)
           m == ClickOn(id, mode, x, f, g)
           U == Counted(kind)
<1>1. g \in [Cell -> Stacks] /\ x \in Cell
  BY ProposedIs
<1>2. /\ N \in SUBSET Cell /\ "cursor" \in N /\ n \in [N -> Stacks] /\ s \in [N -> Stacks]
      /\ \A y \in N : n[y] = g[y] /\ s[y] = f[y]
      /\ \A y \in Cell : y \notin N => g[y] = f[y]
  BY <1>1, ClickOnIs
<1>3. m.new = n /\ m.seen = s /\ m.cell = x /\ m.mode = mode
  BY DEF ClickOn
<1>4. U \subseteq Cell /\ IsFiniteSet(U) /\ Kept \subseteq U /\ "cursor" \in U /\ "none" \notin Cell
  BY CountedIs, CellsAre
<1>5. \A y \in Cell : y \in N /\ y # "cursor" => g[y] # f[y]
  BY DEF NamedIn
<1> HIDE DEF N, n, s, m
<1>6. DOMAIN m.new = N /\ DOMAIN m.seen = N
  BY <1>2, <1>3
<1>7. CASE CraftsIt(kind, f, mode, x, g)
  <2>1. x = ResultOf(kind) /\ x # "none"
    BY <1>7 DEF CraftsIt
  <2> QED BY <1>3, <1>6, <2>1 DEF TrueClick, m
<1>8. CASE ThrowsIt(kind, f, mode, x, g)
  <2>1. mode = "throw" /\ x \in U /\ f[x] # Nothing /\ g = [f EXCEPT ![x] = Less(f[x], 1)]
    BY <1>8 DEF ThrowsIt
  <2>2. g[x] = Less(f[x], 1) /\ \A y \in Cell : y # x => g[y] = f[y]
    BY <1>1, <2>1
  <2>3. f[x].n # 0 /\ f[x] \in Stacks /\ f[x].n \in Nat
    BY <1>1, <2>1, StackIs, Sizes
  <2>4. Less(f[x], 1).n = f[x].n - 1
    <3>1. 1 \in 0 .. f[x].n
      BY <2>3
    <3> QED BY <2>3, <3>1, LessMade
  <2>5. g[x] # f[x]
    <3>1. g[x].n = f[x].n - 1
      BY <2>2, <2>4
    <3>2. f[x].n - 1 # f[x].n
      BY <2>3
    <3> QED BY <3>1, <3>2
  <2>6. x \in N
    BY <1>1, <1>2, <2>5
  <2>7. N \subseteq U
    <3> SUFFICES ASSUME NEW y \in N PROVE y \in U
      OBVIOUS
    <3> QED BY <1>2, <1>4, <1>5, <2>1, <2>2
  <2>8. n[x] = Less(s[x], 1) /\ s[x] # Nothing /\ \A y \in N : y # x => n[y] = s[y]
    BY <1>2, <2>1, <2>2, <2>6
  <2> HIDE DEF U
  <2> QED BY <1>3, <1>6, <2>1, <2>6, <2>7, <2>8 DEF TrueClick, m, U
<1>9. CASE MovesIt(kind, f, mode, x, g)
  <2>1. mode # "throw" /\ x \in U /\ g \in Moves(Cell, U, {}, f)
    BY <1>9 DEF MovesIt
  <2>2. (\A y \in Cell : y \notin U => g[y] = f[y]) /\ Amount(g, U) = Amount(f, U)
    BY <2>1 DEF Moves
  <2>3. N \subseteq U
    <3> SUFFICES ASSUME NEW y \in N PROVE y \in U
      OBVIOUS
    <3> QED BY <1>2, <1>4, <1>5, <2>2
  <2> DEFINE W == U \ N
  <2>4. IsFiniteSet(W) /\ IsFiniteSet(N) /\ W \cap N = {} /\ U = W \cup N
    BY <1>4, <2>3, FS_Subset
  <2>5. \A y \in W : g[y] = f[y]
    BY <1>2, <1>4
  <2>6. \A y \in W \cup N : f[y] \in Stacks /\ g[y] \in Stacks
    BY <1>1, <1>2, <1>4
  <2> HIDE DEF W, U
  <2>7. Amount(f, W \cup N) = Amount(f, W) + Amount(f, N) /\ Amount(g, W \cup N) = Amount(g, W) + Amount(g, N)
    BY <2>4, <2>6, AmountOfUnion
  <2>8. Amount(g, W) = Amount(f, W)
    BY <2>4, <2>5, <2>6, AmountSame
  <2>9. \A y \in N : g[y] \in Stacks /\ f[y] \in Stacks /\ n[y].n = g[y].n /\ s[y].n = f[y].n
    BY <1>2, <2>6
  <2>10. Amount(n, N) = Amount(g, N) /\ Amount(s, N) = Amount(f, N)
    BY <2>4, <2>9, AmountSame
  <2>11. Amount(f, W) \in Nat /\ Amount(f, N) \in Nat /\ Amount(g, N) \in Nat
    BY <2>4, <2>6, AmountIsNat
  <2>12. Amount(n, N) = Amount(s, N)
    BY <2>2, <2>4, <2>7, <2>8, <2>10, <2>11
  <2> QED BY <1>3, <1>6, <2>1, <2>3, <2>12 DEF TrueClick, U, m
<1> QED BY <1>7, <1>8, <1>9 DEF Proposal, m

\* Packet m, if it is a click on the player's window or on w, makes and loses
\* nothing there.
ClickTrue(m, w) ==
    IsClick(m) => /\ m.id = 0 => TrueClick(m, "none")
                  /\ m.id # 0 /\ m.id = w.id => TrueClick(m, w.kind)

\* Message i of q, if it opens a window, opens w or one so recent, the last
\* being l, that its id was not used since.
OpenTrue(q, i, w, l) ==
    q[i].type = "open" =>
        /\ q[i].id = w.id => q[i].kind = w.kind
        /\ \E k \in 0 .. Len(q) - i : q[i].id + k = l \/ q[i].id + k = l + Ids

\* What is known of a connection with the packets s, messages q, view v, window w,
\* last id l and life on.
ById(s, q, v, w, l, on) ==
    /\ \A i \in 1 .. Len(s) : ClickTrue(s[i], w)
    /\ \A i \in 1 .. Len(q) : OpenTrue(q, i, w, l)
    /\ v.id = w.id => v.kind = w.kind
    /\ on # "on" => q = <<>>
ByIds == \A c \in Conn : ById(clicks[c], syncs[c], view[c], win[c], lastId[c], life[c])

NoOpens(ms) == \A i \in 1 .. Len(ms) : ms[i].type # "open"

\* The window goes on, or is closed.
GoesOn(w, z) == z = Closed \/ (z.id = w.id /\ z.kind = w.kind)

\* A click true of a window is true of it later.
LEMMA ClickGoesOn ==
    ASSUME NEW w, NEW z, GoesOn(w, z), NEW m, ClickTrue(m, w)
    PROVE  ClickTrue(m, z)
BY ClosedIs DEF ClickTrue, GoesOn

\* What is known of ids survives contents, closings and handled packets.
LEMMA KeepsIds ==
    ASSUME NEW s \in Seq(Packets), NEW q \in Seq(Messages), NEW v \in Views, NEW w, NEW l, NEW on,
           ById(s, q, v, w, l, on), NEW z, GoesOn(w, z),
           NEW r \in Seq(Packets), r = s \/ (s # <<>> /\ r = Tail(s)),
           NEW ms \in Seq(Messages), NoOpens(ms), ms # <<>> => on = "on"
    PROVE  ById(r, q \o ms, v, z, l, on)
<1>1. ASSUME NEW i \in 1 .. Len(r) PROVE ClickTrue(r[i], z)
  <2> HIDE DEF Packets
  <2>1. CASE r = s
    BY <2>1, ClickGoesOn DEF ById
  <2>2. CASE s # <<>> /\ r = Tail(s)
    <3>1. r[i] = s[i + 1] /\ i + 1 \in 1 .. Len(s)
      BY <2>2
    <3> QED BY <3>1, ClickGoesOn DEF ById
  <2> QED BY <2>1, <2>2
<1>2. ASSUME NEW i \in 1 .. Len(q \o ms) PROVE OpenTrue(q \o ms, i, z, l)
  <2> HIDE DEF Messages
  <2> DEFINE t == q \o ms
  <2>1. Len(t) = Len(q) + Len(ms) /\ Len(q) \in Nat /\ Len(ms) \in Nat
        /\ t[i] = IF i <= Len(q) THEN q[i] ELSE ms[i - Len(q)]
    OBVIOUS
  <2>2. CASE i <= Len(q)
    <3>1. i \in 1 .. Len(q) /\ t[i] = q[i]
      BY <2>1, <2>2
    <3> HIDE DEF t
    <3>2. OpenTrue(q, i, w, l)
      BY <3>1 DEF ById
    <3> SUFFICES ASSUME q[i].type = "open" PROVE OpenTrue(t, i, z, l)
      BY <3>1 DEF OpenTrue, t
    <3>3. PICK k \in 0 .. Len(q) - i : q[i].id + k = l \/ q[i].id + k = l + Ids
      BY <3>2 DEF OpenTrue
    <3>4. k \in 0 .. Len(t) - i
      BY <2>1, <3>1
    <3>5. q[i].id = z.id => q[i].kind = z.kind
      <4>1. q[i] \in Messages
        BY <3>1
      <4>2. q[i].id # 0
        BY <4>1, Sizes DEF Messages
      <4> QED BY <3>2, <4>2, ClosedIs DEF OpenTrue, GoesOn
    <3> QED BY <3>1, <3>3, <3>4, <3>5 DEF OpenTrue
  <2>3. CASE i > Len(q)
    <3>1. i - Len(q) \in 1 .. Len(ms) /\ t[i] = ms[i - Len(q)]
      BY <2>1, <2>3
    <3> HIDE DEF t
    <3> QED BY <3>1 DEF NoOpens, OpenTrue, t
  <2> QED BY <2>1, <2>2, <2>3
<1>3. v.id = z.id => v.kind = z.kind
  BY ViewIs, ClosedIs DEF GoesOn, ById
<1>4. on # "on" => q \o ms = <<>>
  BY DEF ById
<1> QED BY <1>1, <1>2, <1>3, <1>4 DEF ById

\* A step that opens no window, shows nothing new and starts or ends no
\* connection.
Plain ==
    /\ \A d \in Conn : /\ clicks'[d] = clicks[d] \/ (clicks[d] # <<>> /\ clicks'[d] = Tail(clicks[d]))
                       /\ GoesOn(win[d], win'[d])
                       /\ \E ms \in Seq(Messages) : /\ NoOpens(ms) /\ (ms # <<>> => life[d] = "on")
                                                    /\ syncs'[d] = syncs[d] \o ms
    /\ UNCHANGED <<view, lastId, life>>

\* Plain steps keep what is known of ids.
LEMMA PlainKeeps == ASSUME Typed, Typed', ByIds, Plain PROVE ByIds'
<1> SUFFICES ASSUME NEW d \in Conn
             PROVE ById(clicks'[d], syncs'[d], view'[d], win'[d], lastId'[d], life'[d])
  BY DEF ByIds
<1> DEFINE s == clicks[d]
           q == syncs[d]
           r == clicks'[d]
           w == win[d]
           z == win'[d]
           v == view[d]
<1>1. s \in Seq(Packets) /\ q \in Seq(Messages) /\ r \in Seq(Packets) /\ v \in Views
  BY DEF Typed, ClientsTyped
<1>2. ById(s, q, v, w, lastId[d], life[d])
  BY DEF ByIds
<1>3. GoesOn(w, z) /\ (r = s \/ (s # <<>> /\ r = Tail(s))) /\ view'[d] = v /\ lastId'[d] = lastId[d] /\ life'[d] = life[d]
  BY DEF Plain
<1>4. PICK ms \in Seq(Messages) : NoOpens(ms) /\ (ms # <<>> => life[d] = "on") /\ syncs'[d] = q \o ms
  BY DEF Plain
<1> HIDE DEF s, q, r, w, z, v
<1>5. ById(r, q \o ms, v, z, lastId[d], life[d])
  BY <1>1, <1>2, <1>3, <1>4, KeepsIds
<1> QED BY <1>3, <1>4, <1>5 DEF r, z

\* What is sent to one client.
LEMMA SentTo ==
    ASSUME ClientsTyped, NEW c \in Conn, NEW rest, NEW ms \in Seq(Messages), SendTo(c, rest, ms)
    PROVE  /\ clicks' = rest /\ view' = view
           /\ syncs'[c] = syncs[c] \o ms
           /\ \A d \in Conn : d # c => syncs'[d] = syncs[d] /\ syncs'[d] = syncs[d] \o <<>>
           /\ ms # <<>> => Len(syncs[c]) < MaxSyncs
<1> DEFINE sent == [d \in Conn |-> IF d = c THEN ms ELSE <<>>]
<1>1. Send(rest, sent)
  BY DEF SendTo
<1>2. sent[c] = ms /\ \A d \in Conn : d # c => sent[d] = <<>>
  OBVIOUS
<1> HIDE DEF sent
<1>3. /\ clicks' = rest /\ view' = view /\ syncs' = [d \in Conn |-> syncs[d] \o sent[d]]
      /\ \A d \in Conn : sent[d] # <<>> => Len(syncs[d]) < MaxSyncs
  BY <1>1 DEF Send
<1>4. \A d \in Conn : syncs'[d] = syncs[d] \o sent[d]
  BY <1>3
<1>5. ASSUME NEW d \in Conn, d # c PROVE syncs[d] \o <<>> = syncs[d]
  <2>1. syncs[d] \in Seq(Messages)
    BY DEF ClientsTyped
  <2> HIDE DEF Messages
  <2> QED BY <2>1
<1> QED BY <1>2, <1>3, <1>4, <1>5

\* Most steps are plain: they send contents to one client.
LEMMA SendsPlain ==
    ASSUME Typed, NEW c \in Conn, NEW rest, rest = clicks \/ (clicks[c] # <<>> /\ rest = Rest(c)),
           NEW ms \in Seq(Messages), NoOpens(ms), SendTo(c, rest, ms), life[c] = "on",
           \A d \in Conn : GoesOn(win[d], win'[d]), UNCHANGED <<lastId, life>>
    PROVE  Plain
<1>1. ClientsTyped
  BY DEF Typed
<1>2. /\ clicks' = rest /\ view' = view
      /\ syncs'[c] = syncs[c] \o ms
      /\ \A d \in Conn : d # c => syncs'[d] = syncs[d] \o <<>>
  BY <1>1, SentTo
<1>3. ASSUME NEW d \in Conn
      PROVE  \E us \in Seq(Messages) : NoOpens(us) /\ (us # <<>> => life[d] = "on") /\ syncs'[d] = syncs[d] \o us
  <2>1. CASE d = c
    BY <1>2, <2>1
  <2>2. CASE d # c
    <3>1. <<>> \in Seq(Messages) /\ NoOpens(<<>>)
      BY DEF NoOpens
    <3> QED BY <1>2, <2>2, <3>1
  <2> QED BY <2>1, <2>2
<1>4. ASSUME NEW d \in Conn
      PROVE  clicks'[d] = clicks[d] \/ (clicks[d] # <<>> /\ clicks'[d] = Tail(clicks[d]))
  BY <1>1, <1>2, RestTyped
<1> QED BY <1>2, <1>3, <1>4 DEF Plain

\* Contents open nothing.
LEMMA ContentsAre == ASSUME NEW id, NEW f PROVE NoOpens(<<Contents(id, f)>>)
BY DEF NoOpens, Contents

\* Leaving a window opens nothing.
LEMMA LeaveSends == ASSUME NEW c \in Conn, NEW b PROVE NoOpens(Leave(c, b).sent)
                    /\ (Leave(c, b).sent = <<>> \/ Len(Leave(c, b).sent) = 1)
<1>1. NoOpens(<<>>)
  BY DEF NoOpens
<1> QED BY <1>1, ContentsAre DEF Leave

\* Windows that do not change go on.
LEMMA SameGoes == ASSUME win' = win, NEW d PROVE GoesOn(win[d], win'[d])
BY DEF GoesOn

\* ByIds holds at first.
LEMMA InitIds == Init => ByIds
<1> SUFFICES ASSUME Init, NEW c \in Conn
             PROVE ById(clicks[c], syncs[c], view[c], win[c], lastId[c], life[c])
  BY DEF ByIds
<1>1. clicks[c] = <<>> /\ syncs[c] = <<>> /\ view[c].id = 0 /\ view[c].kind = "none" /\ win[c] = Closed
  BY DEF Init
<1> QED BY <1>1, ClosedIs DEF ById

\* Where nothing changes ByIds stays.
LEMMA SameIds == ASSUME ByIds, UNCHANGED vars PROVE ByIds'
BY DEF ByIds, vars, serverVars, clientVars

\* Join keeps ByIds.
LEMMA JoinIds == ASSUME Typed, ByIds, NEW c \in Conn, Join(c) PROVE ByIds'
<1> DEFINE f == WithResult(file[c].inv, "result", "grid")
           q == <<Contents(0, f)>>
<1>1. /\ life' = [life EXCEPT ![c] = "on"] /\ syncs' = [syncs EXCEPT ![c] = q]
      /\ UNCHANGED <<win, lastId, view, clicks>>
  BY DEF Join
<1>2. NoOpens(q)
  BY ContentsAre
<1> HIDE DEF q
<1>3. life'[c] = "on" /\ syncs'[c] = q /\ \A d \in Conn : d # c => life'[d] = life[d] /\ syncs'[d] = syncs[d]
  BY <1>1 DEF Typed, LifeTyped, ClientsTyped
<1>4. ASSUME NEW d \in Conn PROVE ById(clicks'[d], syncs'[d], view'[d], win'[d], lastId'[d], life'[d])
  <2>1. ById(clicks[d], syncs[d], view[d], win[d], lastId[d], life[d])
    BY DEF ByIds
  <2>2. CASE d # c
    BY <1>1, <1>3, <2>1, <2>2
  <2>3. CASE d = c
    <3>1. \A i \in 1 .. Len(q) : OpenTrue(q, i, win[d], lastId[d])
      BY <1>2 DEF NoOpens, OpenTrue
    <3> QED BY <1>1, <1>3, <2>1, <2>3, <3>1 DEF ById
  <2> QED BY <2>2, <2>3
<1> QED BY <1>4 DEF ByIds

\* Disconnect keeps ByIds.
LEMMA DisconnectIds == ASSUME Typed, ByIds, NEW c \in Conn, Disconnect(c) PROVE ByIds'
<1> DEFINE v == [id |-> 0, kind |-> "none", cells |-> Over(EmptyInv, EmptyBox)]
<1>1. /\ life' = [life EXCEPT ![c] = "closing"] /\ clicks' = [clicks EXCEPT ![c] = <<>>]
      /\ syncs' = [syncs EXCEPT ![c] = <<>>] /\ view' = [view EXCEPT ![c] = v]
      /\ UNCHANGED <<win, lastId>>
  BY DEF Disconnect
<1>2. v.id = 0 /\ v.kind = "none"
  OBVIOUS
<1> HIDE DEF v
<1>3. /\ life'[c] = "closing" /\ syncs'[c] = <<>> /\ clicks'[c] = <<>> /\ view'[c] = v
      /\ \A d \in Conn : d # c => life'[d] = life[d] /\ syncs'[d] = syncs[d] /\ clicks'[d] = clicks[d] /\ view'[d] = view[d]
  BY <1>1 DEF Typed, LifeTyped, ClientsTyped
<1>4. ASSUME NEW d \in Conn PROVE ById(clicks'[d], syncs'[d], view'[d], win'[d], lastId'[d], life'[d])
  <2>1. ById(clicks[d], syncs[d], view[d], win[d], lastId[d], life[d])
    BY DEF ByIds
  <2>2. CASE d # c
    BY <1>1, <1>3, <2>1, <2>2
  <2>3. CASE d = c
    <3>1. win[d] \in Windows
      BY DEF Typed, WorldTyped
    <3>2. win[d].id = 0 => win[d].kind = "none"
      BY <3>1, WindowIs
    <3> QED BY <1>1, <1>2, <1>3, <2>3, <3>2 DEF ById
  <2> QED BY <2>2, <2>3
<1> QED BY <1>4 DEF ByIds

\* Cleanup keeps ByIds.
LEMMA CleanupIds == ASSUME Typed, ByIds, NEW c \in Conn, Cleanup(c) PROVE ByIds'
<1>1. /\ life[c] = "closing" /\ life' = [life EXCEPT ![c] = "off"] /\ win' = [win EXCEPT ![c] = Closed]
      /\ lastId' = [lastId EXCEPT ![c] = Ids] /\ UNCHANGED <<view, clicks, syncs>>
  BY DEF Cleanup, clientVars
<1>2. /\ life'[c] = "off" /\ win'[c] = Closed
      /\ \A d \in Conn : d # c => life'[d] = life[d] /\ win'[d] = win[d] /\ lastId'[d] = lastId[d]
  BY <1>1 DEF Typed, LifeTyped, WorldTyped
<1>3. ASSUME NEW d \in Conn PROVE ById(clicks'[d], syncs'[d], view'[d], win'[d], lastId'[d], life'[d])
  <2>1. ById(clicks[d], syncs[d], view[d], win[d], lastId[d], life[d])
    BY DEF ByIds
  <2>2. CASE d # c
    BY <1>1, <1>2, <2>1, <2>2
  <2>3. CASE d = c
    <3>1. syncs[d] = <<>>
      BY <1>1, <2>1, <2>3 DEF ById
    <3>2. \A i \in 1 .. Len(clicks[d]) : ClickTrue(clicks[d][i], Closed)
      BY <2>1, ClickGoesOn DEF ById, GoesOn
    <3>3. view[d] \in Views
      BY DEF Typed, ClientsTyped
    <3>4. view[d].id = Closed.id => view[d].kind = Closed.kind
      BY <3>3, ViewIs, ClosedIs
    <3> QED BY <1>1, <1>2, <2>3, <3>1, <3>2, <3>4 DEF ById
  <2> QED BY <2>2, <2>3
<1> QED BY <1>3 DEF ByIds

\* Die is a plain step.
LEMMA DiePlain == ASSUME Typed, NEW c \in Conn, Die(c) PROVE Plain
<1>1. /\ life[c] = "on" /\ SendTo(c, clicks, DeathSends(c)) /\ win' = [win EXCEPT ![c] = Closed]
      /\ UNCHANGED <<block, lastId, life>>
  BY DieIs
<1>2. WorldTyped /\ GoodsTyped /\ be \in [Pos -> Boxes \cup {NoBox}] /\ EmptyInv \in [InvCells -> Stacks] /\ 0 \in 0 .. Ids
  BY EmptyIs, Sizes DEF Typed, WorldTyped, Inventories
<1> DEFINE a == IF Open(c) THEN <<CloseIt(win[c].id)>> ELSE <<>>
           b == Leave(c, be).sent
           e == <<Contents(0, EmptyInv)>>
<1>3. a \in Seq(Messages) /\ NoOpens(a)
  <2>1. CASE Open(c)
    <3>1. win[c].id \in 1 .. Ids
      BY <1>2, <2>1, WindowIs DEF WorldTyped, Open
    <3>2. NoOpens(<<CloseIt(win[c].id)>>)
      BY DEF NoOpens, CloseIt
    <3> QED BY <2>1, <3>1, <3>2, CloseTyped
  <2>2. CASE ~Open(c)
    BY <2>2 DEF NoOpens
  <2> QED BY <2>1, <2>2
<1>4. b \in Seq(Messages) /\ NoOpens(b)
  BY <1>2, LeaveTyped, LeaveSends
<1>5. e \in Seq(Messages) /\ NoOpens(e)
  BY <1>2, ContentsTyped, ContentsAre
<1>6. DeathSends(c) = a \o b \o e
  BY DEF DeathSends
<1> HIDE DEF a, b, e
<1>7. a \o b \o e \in Seq(Messages) /\ NoOpens(a \o b \o e)
  <2> HIDE DEF Messages
  <2>1. a \o b \in Seq(Messages) /\ NoOpens(a \o b)
    BY <1>3, <1>4 DEF NoOpens
  <2> DEFINE t == a \o b
  <2> HIDE DEF t
  <2>2. t \o e \in Seq(Messages) /\ NoOpens(t \o e)
    BY <1>5, <2>1 DEF NoOpens, t
  <2> QED BY <2>2 DEF t
<1>8. \A d \in Conn : GoesOn(win[d], win'[d])
  BY <1>1, <1>2 DEF WorldTyped, GoesOn
<1> QED BY <1>1, <1>6, <1>7, <1>8, SendsPlain

\* Respawn is a plain step.
LEMMA RespawnPlain == ASSUME Typed, NEW c \in Conn, Respawn(c) PROVE Plain
<1> DEFINE f == WithResult(inv[c], "result", "grid")
<1>1. /\ life[c] = "on" /\ SendTo(c, clicks, <<Contents(0, f)>>) /\ UNCHANGED <<win, lastId, life>>
  BY DEF Respawn
<1>2. f \in [InvCells -> Stacks] /\ 0 \in 0 .. Ids
  BY InventoryCells, Sizes DEF Typed, GoodsTyped, Inventories
<1> HIDE DEF f
<1>3. <<Contents(0, f)>> \in Seq(Messages) /\ NoOpens(<<Contents(0, f)>>)
  BY <1>2, ContentsTyped, ContentsAre
<1>4. \A d \in Conn : GoesOn(win[d], win'[d])
  BY <1>1, SameGoes
<1> QED BY <1>1, <1>3, <1>4, SendsPlain

\* SmeltOpen is a plain step.
LEMMA SmeltOpenPlain == ASSUME Typed, NEW c \in Conn, SmeltOpen(c) PROVE Plain
<1> DEFINE box == Smelted(win[c].box)
           f == Over(inv[c], box)
           id == win[c].id
<1>1. /\ life[c] = "on" /\ id \in 1 .. Ids /\ box \in Boxes
      /\ win'[c].id = win[c].id /\ win'[c].kind = win[c].kind
      /\ \A d \in Conn : d # c => win'[d] = win[d]
      /\ SendTo(c, clicks, <<Contents(id, f)>>)
      /\ UNCHANGED <<block, be, lastId, inv, ender, file, ground, life, dead>>
  BY SmeltOpenIs
<1>2. inv[c] \in [InvCells -> Stacks]
  BY DEF Typed, GoodsTyped, Inventories
<1> HIDE DEF box, id
<1>3. f \in [Cell -> Stacks]
  BY <1>1, <1>2, OverIs DEF Boxes, Cell
<1> HIDE DEF f
<1>4. <<Contents(id, f)>> \in Seq(Messages) /\ NoOpens(<<Contents(id, f)>>)
  <2>1. id # 0 /\ id \in 0 .. Ids /\ ContentCells \subseteq Cell
    BY <1>1, Sizes, ContentCellsAre
  <2> QED BY <1>3, <2>1, ContentsTyped, ContentsAre
<1>5. \A d \in Conn : GoesOn(win[d], win'[d])
  BY <1>1 DEF GoesOn
<1> QED BY <1>1, <1>4, <1>5, SendsPlain

\* PickUp is a plain step.
LEMMA PickUpPlain == ASSUME Typed, NEW c \in Conn, NEW i \in Items, PickUp(c, i) PROVE Plain
<1>1. PICK g : g \in [InvCells \cup {"ground"} -> Stacks] /\ SendTo(c, clicks, <<Contents(0, g)>>)
                /\ life[c] = "on" /\ UNCHANGED <<win, lastId, life>>
  <2>1. PICK n \in 1 .. MaxStack : PickedUp(c, i, n)
    BY PickUpIs
  <2> QED BY <2>1 DEF PickedUp
<1>2. <<Contents(0, g)>> \in Seq(Messages) /\ NoOpens(<<Contents(0, g)>>)
  <2>1. InvCells \subseteq InvCells \cup {"ground"} /\ 0 \in 0 .. Ids
    BY Sizes
  <2> QED BY <1>1, <2>1, ContentsTyped, ContentsAre
<1>3. \A d \in Conn : GoesOn(win[d], win'[d])
  BY <1>1, SameGoes
<1> QED BY <1>1, <1>2, <1>3, SendsPlain

\* HandleClose is a plain step.
LEMMA HandleClosePlain == ASSUME Typed, NEW c \in Conn, HandleClose(c) PROVE Plain
<1> DEFINE m == Head(clicks[c])
           left == Leave(c, be)
           g == Emptied(Returned(inv[c], "result", "grid"), {"grid"})
<1>1. /\ life[c] = "on" /\ clicks[c] # <<>> /\ g \in [InvCells -> Stacks]
      /\ m.id = 0 => SendTo(c, Rest(c), <<Contents(0, g)>>) /\ win' = win
      /\ m.id # 0 => win' = [win EXCEPT ![c] = Closed] /\ SendTo(c, Rest(c), left.sent)
      /\ UNCHANGED <<lastId, life>>
  BY HandleCloseIs
<1>2. WorldTyped /\ GoodsTyped /\ be \in [Pos -> Boxes \cup {NoBox}]
  BY DEF Typed, WorldTyped
<1> HIDE DEF m, g
<1>3. CASE m.id = 0
  <2>1. <<Contents(0, g)>> \in Seq(Messages) /\ NoOpens(<<Contents(0, g)>>)
    <3>1. 0 \in 0 .. Ids
      BY Sizes
    <3> QED BY <1>1, <3>1, ContentsTyped, ContentsAre
  <2>2. \A d \in Conn : GoesOn(win[d], win'[d])
    BY <1>1, <1>3, SameGoes
  <2> QED BY <1>1, <1>3, <2>1, <2>2, SendsPlain
<1>4. CASE m.id # 0
  <2>1. left.sent \in Seq(Messages) /\ NoOpens(left.sent)
    BY <1>2, LeaveTyped, LeaveSends
  <2>2. \A d \in Conn : GoesOn(win[d], win'[d])
    BY <1>1, <1>2, <1>4 DEF WorldTyped, GoesOn
  <2> HIDE DEF left
  <2> QED BY <1>1, <1>4, <2>1, <2>2, SendsPlain
<1> QED BY <1>3, <1>4

\* What a handled click sends: contents of its window.
LEMMA ClickSends ==
    ASSUME Typed, NEW c \in Conn, HandleClick(c)
    PROVE  LET m == Head(clicks[c])
           IN  /\ \E f \in [Cell -> Stacks] : SendTo(c, Rest(c), <<Contents(m.id, f)>>)
               /\ \A d \in Conn : GoesOn(win[d], win'[d])
               /\ UNCHANGED <<lastId, life>>
<1> DEFINE m == Head(clicks[c])
<1>1. /\ clicks[c] # <<>> /\ m \in Packets /\ IsClick(m) /\ Current(c, m)
      /\ m.id \in 0 .. Ids /\ (m.id # 0 => win[c].id # 0 /\ m.id = win[c].id)
      /\ ThrowResult(c, m) \/ TakeResult(c, m) \/ MoveInFurnace(c, m) \/ CopyCells(c, m)
  BY HeadIs
<1>2. WorldTyped /\ GoodsTyped /\ win[c] \in Windows /\ Cells(c) \in [Cell -> Stacks]
  BY CellsTyped DEF Typed, WorldTyped
<1> HIDE DEF m
<1>3. ASSUME NEW f \in [Cell -> Stacks], NEW dirty \in BOOLEAN, Clicked(c, m.id, f, dirty)
      PROVE  /\ SendTo(c, Rest(c), <<Contents(m.id, f)>>) /\ (\A d \in Conn : GoesOn(win[d], win'[d]))
             /\ UNCHANGED <<lastId, life>>
  <2>1. AfterClick(c, m.id, f, dirty)
    BY <1>1, <1>3, ClickedIs
  <2>2. SendTo(c, Rest(c), <<Contents(m.id, f)>>) /\ UNCHANGED <<lastId, life>>
    BY <2>1, Zenon DEF AfterClick
  <2>3. \A d \in Conn : GoesOn(win[d], win'[d])
    BY <2>1 DEF AfterClick, GoesOn
  <2> QED BY <2>2, <2>3
<1>4. CASE ThrowResult(c, m)
  <2>1. SendTo(c, Rest(c), <<Contents(m.id, Cells(c))>>) /\ UNCHANGED <<win, lastId, life>>
    BY <1>4 DEF ThrowResult, serverVars
  <2> QED BY <1>2, <2>1, SameGoes DEF m
<1>5. CASE TakeResult(c, m)
  <2> DEFINE r == ResultCell(c, m.id)
             g == GridCell(c, m.id)
             f == IF m.mode = "pickup" THEN Take(Cells(c), r, g) ELSE CraftToMain(Cells(c), r, g)
  <2>1. m.cell = r /\ Clicked(c, m.id, f, FALSE)
    BY <1>5 DEF TakeResult
  <2>2. m.cell \in Cell
    BY <1>1, ClickIs
  <2>3. r \in Cell \ MainCells /\ g \in Cell \ MainCells /\ r # g /\ r # "cursor" /\ g # "cursor"
    BY <1>1, <1>2, <2>1, <2>2, CraftCells, CellsAre
  <2> HIDE DEF r, g
  <2>4. f \in [Cell -> Stacks] /\ FALSE \in BOOLEAN
    BY <1>2, <2>3, CraftedIs
  <2> HIDE DEF f
  <2> QED BY <1>3, <2>1, <2>4 DEF m
<1>6. CASE MoveInFurnace(c, m)
  <2> DEFINE f == FurnaceMove(Cells(c), m.cell)
  <2>1. \/ SendTo(c, Rest(c), <<Contents(m.id, f)>>) /\ UNCHANGED serverVars
        \/ Clicked(c, m.id, f, TRUE)
    BY <1>6 DEF MoveInFurnace
  <2>2. f \in [Cell -> Stacks]
    <3>1. m.cell \in Cell
      BY <1>1, ClickIs
    <3> QED BY <1>2, <3>1, FurnaceMoveIs, CellsAre
  <2> HIDE DEF f
  <2>3. CASE SendTo(c, Rest(c), <<Contents(m.id, f)>>) /\ UNCHANGED serverVars
    BY <2>2, <2>3, SameGoes DEF m, serverVars
  <2>4. CASE Clicked(c, m.id, f, TRUE)
    BY <1>3, <2>2, <2>4 DEF m
  <2> QED BY <2>1, <2>3, <2>4
<1>7. CASE CopyCells(c, m)
  <2> DEFINE dirty == win[c].kind \in Stored /\ (win[c].dirty \/ DOMAIN m.new \cap BoxCells # {})
  <2>1. Clicked(c, m.id, Copied(c, m), dirty)
    BY <1>7, CopyIs
  <2>2. Copied(c, m) \in [Cell -> Stacks]
    BY <1>1, <1>2, CopiedTyped
  <2>3. dirty \in BOOLEAN
    OBVIOUS
  <2> HIDE DEF dirty
  <2> QED BY <1>3, <2>1, <2>2, <2>3 DEF m
<1> QED BY <1>1, <1>4, <1>5, <1>6, <1>7

\* HandleClick is a plain step.
LEMMA HandleClickPlain == ASSUME Typed, NEW c \in Conn, HandleClick(c) PROVE Plain
<1> DEFINE m == Head(clicks[c])
<1>1. clicks[c] # <<>> /\ m.id \in 0 .. Ids /\ life[c] = "on"
  BY HeadIs
<1>2. PICK f \in [Cell -> Stacks] : SendTo(c, Rest(c), <<Contents(m.id, f)>>)
  BY ClickSends
<1>3. (\A d \in Conn : GoesOn(win[d], win'[d])) /\ UNCHANGED <<lastId, life>>
  BY ClickSends
<1> HIDE DEF m
<1>4. <<Contents(m.id, f)>> \in Seq(Messages) /\ NoOpens(<<Contents(m.id, f)>>)
  <2>1. InvCells \subseteq Cell /\ ContentCells \subseteq Cell
    BY CellsAre, ContentCellsAre
  <2> QED BY <1>1, <2>1, ContentsTyped, ContentsAre
<1> QED BY <1>1, <1>2, <1>3, <1>4, SendsPlain

\* Ignore is a plain step.
LEMMA IgnorePlain == ASSUME Typed, NEW c \in Conn, Ignore(c) PROVE Plain
<1>1. clicks[c] # <<>> /\ clicks' = Rest(c) /\ UNCHANGED <<serverVars, view, syncs>>
  BY DEF Ignore
<1>2. ASSUME NEW d \in Conn
      PROVE  clicks'[d] = clicks[d] \/ (clicks[d] # <<>> /\ clicks'[d] = Tail(clicks[d]))
  BY <1>1, RestTyped DEF Typed
<1>3. ASSUME NEW d \in Conn
      PROVE  \E ms \in Seq(Messages) : NoOpens(ms) /\ (ms # <<>> => life[d] = "on") /\ syncs'[d] = syncs[d] \o ms
  <2>1. <<>> \in Seq(Messages) /\ NoOpens(<<>>)
    BY DEF NoOpens
  <2>2. syncs[d] \in Seq(Messages)
    BY DEF Typed, ClientsTyped
  <2>3. syncs[d] \o <<>> = syncs[d]
    <3> HIDE DEF Messages
    <3> QED BY <2>2
  <2> QED BY <1>1, <2>1, <2>3
<1> QED BY <1>1, <1>2, <1>3, SameGoes DEF Plain, serverVars

\* BreakContainer is a plain step.
LEMMA BreakPlain == ASSUME Typed, NEW p \in Pos, BreakContainer(p) PROVE Plain
<1> DEFINE sent == [d \in Conn |-> IF d \in Shut(p) THEN <<CloseIt(win[d].id)>> ELSE <<>>]
<1>1. /\ win' = [d \in Conn |-> IF d \in Shut(p) THEN Closed ELSE win[d]] /\ Send(clicks, sent)
      /\ UNCHANGED <<lastId, life>>
  BY BreakIs
<1>2. clicks' = clicks /\ view' = view /\ \A d \in Conn : syncs'[d] = syncs[d] \o sent[d]
  <2> HIDE DEF sent
  <2> QED BY <1>1 DEF Send
<1>3. ASSUME NEW d \in Conn
      PROVE  sent[d] \in Seq(Messages) /\ NoOpens(sent[d]) /\ (sent[d] # <<>> => life[d] = "on")
  <2>1. CASE d \in Shut(p)
    <3>1. life[d] = "on" /\ win[d].id # 0
      BY <2>1 DEF Shut, Viewers, Open
    <3>2. win[d].id \in 1 .. Ids
      BY <3>1, WindowIs DEF Typed, WorldTyped
    <3>3. NoOpens(<<CloseIt(win[d].id)>>)
      BY DEF NoOpens, CloseIt
    <3> QED BY <2>1, <3>1, <3>2, <3>3, CloseTyped
  <2>2. CASE d \notin Shut(p)
    BY <2>2 DEF NoOpens
  <2> QED BY <2>1, <2>2
<1> HIDE DEF sent
<1>4. \A d \in Conn : GoesOn(win[d], win'[d])
  BY <1>1 DEF GoesOn
<1> QED BY <1>1, <1>2, <1>3, <1>4 DEF Plain

\* An id given now is not one of those in flight.
LEMMA OpenIds ==
    ASSUME MaxSyncs <= Ids, Typed, ByIds, NEW c \in Conn, NEW p \in Pos, OpenContainer(c, p)
    PROVE  ByIds'
<1> DEFINE id == NextId(c)
           kind == block[p]
           w == WindowFor(c, p)
           o == Opened(id, kind, Over(Leave(c, FreshBe(p)).inv, BoxFor(c, p)))
           a == Leave(c, FreshBe(p)).sent
           ms == a \o <<o>>
           q == syncs[c]
           l == lastId[c]
<1>1. /\ Acts(c) /\ kind \in Kinds /\ win' = [win EXCEPT ![c] = w] /\ lastId' = [lastId EXCEPT ![c] = id]
      /\ SendTo(c, clicks, ms) /\ UNCHANGED <<block, life, dead>>
  BY OpenIs
<1>2. FreshBe(p) \in [Pos -> Boxes \cup {NoBox}] /\ BoxFor(c, p) \in Boxes /\ id \in 1 .. Ids
  BY <1>1, OpenMakes
<1>3. WorldTyped /\ GoodsTyped /\ ClientsTyped /\ l \in 1 .. Ids /\ q \in Seq(Messages)
  BY DEF Typed, WorldTyped, ClientsTyped
<1>4. Leave(c, FreshBe(p)).inv \in Inventories /\ a \in Seq(Messages) /\ NoOpens(a)
  BY <1>2, <1>3, LeaveTyped, LeaveSends
<1>5. Over(Leave(c, FreshBe(p)).inv, BoxFor(c, p)) \in [Cell -> Stacks]
  BY <1>2, <1>4, OverIs DEF Inventories, Boxes, Cell
<1>6. o \in Messages /\ <<o>> \in Seq(Messages) /\ o.id = id /\ o.kind = kind /\ o.type = "open"
  <2>1. /\ o \in [type : {"open"}, id : 1 .. Ids, kind : Kinds, cells : [ContentCells -> Stacks]]
        /\ <<o>> \in Seq(Messages) /\ o.id = id /\ o.kind = kind /\ o.type = "open"
    <3> HIDE DEF id, kind
    <3> QED BY <1>1, <1>2, <1>5, OpenedTyped
  <2> HIDE DEF o
  <2> QED BY <2>1 DEF Messages
<1>7. w.id = id /\ w.kind = kind
  BY DEF WindowFor
<1>8. id = IF l = Ids THEN 1 ELSE l + 1
  BY <1>3, NextIdIs DEF NextId
<1>9. life[c] = "on" /\ clicks[c] = <<>> /\ view[c].id = 0
  BY <1>1 DEF Acts
<1> HIDE DEF w, o, a, id, kind
<1>10. ms \in Seq(Messages) /\ ms # <<>> /\ Len(ms) = Len(a) + 1 /\ Len(a) \in Nat
      /\ ms[Len(ms)] = o /\ \A i \in 1 .. Len(a) : ms[i] = a[i]
  <2> HIDE DEF Messages
  <2> QED BY <1>4, <1>6
<1> HIDE DEF ms
<1>11. /\ clicks' = clicks /\ view' = view /\ syncs'[c] = q \o ms /\ Len(q) < MaxSyncs
       /\ \A d \in Conn : d # c => syncs'[d] = syncs[d]
  BY <1>1, <1>3, <1>10, SentTo
<1>12. ById(clicks[c], q, view[c], win[c], l, life[c])
  BY DEF ByIds
<1>13. Ids \in Nat /\ MaxSyncs \in Nat /\ MaxSyncs <= Ids
  BY Sizes, WindowsAssumption
<1>14. ASSUME NEW i \in 1 .. Len(q \o ms) PROVE OpenTrue(q \o ms, i, w, id)
  <2> HIDE DEF Messages, l, q
  <2> DEFINE t == q \o ms
  <2>1. Len(t) = Len(q) + Len(a) + 1 /\ Len(q) \in Nat /\ Len(a) \in Nat /\ i \in 1 .. Len(t)
        /\ t[i] = IF i <= Len(q) THEN q[i] ELSE ms[i - Len(q)]
    BY <1>3, <1>10
  <2> HIDE DEF t
  <2> SUFFICES ASSUME t[i].type = "open"
               PROVE  /\ t[i].id = w.id => t[i].kind = w.kind
                      /\ \E k \in 0 .. Len(t) - i : t[i].id + k = id \/ t[i].id + k = id + Ids
    BY DEF OpenTrue, t
  <2>2. CASE i <= Len(q)
    <3>1. i \in 1 .. Len(q) /\ t[i] = q[i]
      BY <2>1, <2>2
    <3>2. PICK k \in 0 .. Len(q) - i : t[i].id + k = l \/ t[i].id + k = l + Ids
      BY <1>12, <3>1 DEF ById, OpenTrue
    <3>3. t[i].id \in 1 .. Ids
      <4>1. t[i] \in Messages /\ t[i].type = "open"
        BY <1>3, <3>1
      <4> QED BY <4>1 DEF Messages
    <3> DEFINE n == t[i].id
    <3>4. n \in 1 .. Ids /\ l \in 1 .. Ids /\ k \in Nat /\ k <= Len(q) - i /\ i >= 1 /\ Len(q) < MaxSyncs /\ (n + k = l \/ n + k = l + Ids)
      BY <1>3, <1>11, <2>1, <3>1, <3>2, <3>3 DEF l, q
    <3> HIDE DEF n
    <3>5. k + 2 <= Ids
      BY <1>13, <2>1, <3>1, <3>4
    <3>6. n # id /\ (n + (k + 1) = id \/ n + (k + 1) = id + Ids)
      BY <1>8, <1>13, <3>4, <3>5
    <3>7. k + 1 \in 0 .. Len(t) - i
      BY <2>1, <3>1, <3>4
    <3> QED BY <1>7, <3>6, <3>7 DEF n
  <2>3. CASE i > Len(q) /\ i < Len(t)
    <3>1. i - Len(q) \in 1 .. Len(a)
      BY <2>1, <2>3
    <3>2. t[i] = a[i - Len(q)]
      BY <1>10, <2>1, <2>3, <3>1
    <3> QED BY <1>4, <3>1, <3>2 DEF NoOpens
  <2>4. CASE i = Len(t)
    <3>1. i - Len(q) = Len(ms) /\ ~(i <= Len(q))
      BY <1>10, <2>1, <2>4
    <3>2. t[i] = o
      BY <1>10, <2>1, <3>1
    <3>3. 0 \in 0 .. Len(t) - i /\ id + 0 = id
      BY <1>2, <2>1, <2>4
    <3> QED BY <1>6, <1>7, <3>2, <3>3
  <2> QED BY <2>1, <2>2, <2>3, <2>4
<1>15. ASSUME NEW d \in Conn PROVE ById(clicks'[d], syncs'[d], view'[d], win'[d], lastId'[d], life'[d])
  <2>1. CASE d # c
    <3>1. ById(clicks[d], syncs[d], view[d], win[d], lastId[d], life[d])
      BY DEF ByIds
    <3>2. win'[d] = win[d] /\ lastId'[d] = lastId[d]
      BY <1>1, <1>3, <2>1 DEF WorldTyped
    <3> QED BY <1>1, <1>11, <2>1, <3>1, <3>2
  <2>2. CASE d = c
    <3>1. win'[c] = w /\ lastId'[c] = id
      BY <1>1, <1>3 DEF WorldTyped
    <3>2. view[c].id # w.id
      BY <1>2, <1>7, <1>9
    <3>3. ById(<<>>, q \o ms, view[c], w, id, life[c])
      BY <1>9, <1>14, <3>2 DEF ById
    <3> QED BY <1>1, <1>9, <1>11, <2>2, <3>1, <3>3
  <2> QED BY <2>1, <2>2
<1> QED BY <1>15 DEF ByIds

\* Receive keeps ByIds.
LEMMA ReceiveById == ASSUME Typed, ByIds, NEW c \in Conn, Receive(c) PROVE ByIds'
<1> DEFINE q == syncs[c]
           m == Head(q)
           v == view[c]
           w == win[c]
           l == lastId[c]
<1>1. /\ q # <<>> /\ m \in Messages /\ view' = [view EXCEPT ![c] = Taken(m, v)]
      /\ syncs' = [syncs EXCEPT ![c] = Tail(@)] /\ UNCHANGED <<serverVars, clicks, crossed>>
  BY ReceiveIs DEF Typed
<1>2. q \in Seq(Messages) /\ v \in Views /\ w \in Windows
  BY DEF Typed, WorldTyped, ClientsTyped
<1>3. ById(clicks[c], q, v, w, l, life[c])
  BY DEF ByIds
<1>4. view'[c] = Taken(m, v) /\ syncs'[c] = Tail(q)
      /\ \A d \in Conn : d # c => view'[d] = view[d] /\ syncs'[d] = syncs[d]
  BY <1>1 DEF Typed, ClientsTyped
<1>5. Tail(q) \in Seq(Messages) /\ Len(Tail(q)) = Len(q) - 1 /\ Len(q) \in Nat /\ Len(q) >= 1 /\ q[1] = m
      /\ \A i \in 1 .. Len(Tail(q)) : Tail(q)[i] = q[i + 1] /\ i + 1 \in 1 .. Len(q)
  <2> DEFINE t == q
  <2>1. t \in Seq(Messages) /\ t # <<>>
    BY <1>1, <1>2
  <2> HIDE DEF Messages, t
  <2>2. Tail(t) \in Seq(Messages) /\ Len(Tail(t)) = Len(t) - 1 /\ Len(t) \in Nat /\ Len(t) >= 1 /\ t[1] = Head(t)
        /\ \A i \in 1 .. Len(Tail(t)) : Tail(t)[i] = t[i + 1] /\ i + 1 \in 1 .. Len(t)
    BY <2>1
  <2> QED BY <2>2 DEF t
<1> HIDE DEF q, m, v, w, l
<1>6. Taken(m, v).id = w.id => Taken(m, v).kind = w.kind
  <2>1. v.id = w.id => v.kind = w.kind
    BY <1>3 DEF ById
  <2>2. 1 \in 1 .. Len(q)
    BY <1>5
  <2>3. m.type = "open" => (m.id = w.id => m.kind = w.kind)
    BY <1>3, <1>5, <2>2 DEF ById, OpenTrue
  <2>4. Hidden(v).id = w.id => Hidden(v).kind = w.kind
    BY <1>2, HiddenIs, WindowIs
  <2>5. m.type \in {"open", "contents", "close"}
    BY <1>1 DEF Messages
  <2> QED BY <1>1, <1>2, <2>1, <2>3, <2>4, <2>5, TakenIs
<1>7. ASSUME NEW i \in 1 .. Len(Tail(q)) PROVE OpenTrue(Tail(q), i, w, l)
  <2>1. Tail(q)[i] = q[i + 1] /\ i + 1 \in 1 .. Len(q) /\ Len(q) - (i + 1) = Len(Tail(q)) - i
    BY <1>5
  <2>2. OpenTrue(q, i + 1, w, l)
    BY <1>3, <2>1 DEF ById
  <2> QED BY <2>1, <2>2 DEF OpenTrue
<1>8. ASSUME NEW d \in Conn PROVE ById(clicks'[d], syncs'[d], view'[d], win'[d], lastId'[d], life'[d])
  <2>1. CASE d # c
    <3>1. ById(clicks[d], syncs[d], view[d], win[d], lastId[d], life[d])
      BY DEF ByIds
    <3> QED BY <1>1, <1>4, <2>1, <3>1 DEF serverVars
  <2>2. CASE d = c
    <3>1. life[c] = "on"
      BY <1>1, <1>3 DEF ById
    <3>2. ById(clicks[c], Tail(q), Taken(m, v), w, l, life[c])
      BY <1>3, <1>6, <1>7, <3>1 DEF ById
    <3> QED BY <1>1, <1>4, <2>2, <3>2 DEF serverVars, w, l
  <2> QED BY <2>1, <2>2
<1> QED BY <1>8 DEF ByIds

\* A client adds a packet that is true of what it shows.
LEMMA AddsIds ==
    ASSUME Typed, ByIds, NEW c \in Conn, NEW m \in Packets,
           ClickTrue(m, win[c]), NEW v, v.id = win[c].id => v.kind = win[c].kind,
           clicks' = [clicks EXCEPT ![c] = Append(@, m)], view' = [view EXCEPT ![c] = v],
           UNCHANGED <<serverVars, syncs>>
    PROVE  ByIds'
<1> DEFINE s == clicks[c]
<1>1. clicks'[c] = Append(s, m) /\ view'[c] = v /\ s \in Seq(Packets)
      /\ \A d \in Conn : d # c => clicks'[d] = clicks[d] /\ view'[d] = view[d]
  BY DEF Typed, ClientsTyped
<1>2. ById(s, syncs[c], view[c], win[c], lastId[c], life[c])
  BY DEF ByIds
<1> HIDE DEF s
<1>3. ASSUME NEW i \in 1 .. Len(Append(s, m)) PROVE ClickTrue(Append(s, m)[i], win[c])
  <2> HIDE DEF Packets
  <2>1. (i = Len(s) + 1 /\ Append(s, m)[i] = m) \/ (i \in 1 .. Len(s) /\ Append(s, m)[i] = s[i])
    BY <1>1
  <2> QED BY <1>2, <2>1 DEF ById
<1>4. ASSUME NEW d \in Conn PROVE ById(clicks'[d], syncs'[d], view'[d], win'[d], lastId'[d], life'[d])
  <2>1. CASE d # c
    <3>1. ById(clicks[d], syncs[d], view[d], win[d], lastId[d], life[d])
      BY DEF ByIds
    <3> QED BY <1>1, <2>1, <3>1 DEF serverVars
  <2>2. CASE d = c
    <3>1. ById(Append(s, m), syncs[c], v, win[c], lastId[c], life[c])
      BY <1>2, <1>3 DEF ById
    <3> QED BY <1>1, <2>2, <3>1 DEF serverVars
  <2> QED BY <2>1, <2>2
<1> QED BY <1>4 DEF ByIds

\* CloseScreen keeps ByIds.
LEMMA CloseScreenIds == ASSUME Typed, ByIds, NEW c \in Conn, CloseScreen(c) PROVE ByIds'
<1> DEFINE m == CloseIt(view[c].id)
           v == Hidden(view[c])
<1>1. /\ clicks' = [clicks EXCEPT ![c] = Append(@, m)] /\ view' = [view EXCEPT ![c] = v]
      /\ UNCHANGED <<serverVars, syncs>>
  BY DEF CloseScreen
<1>2. view[c] \in Views /\ win[c] \in Windows
  BY DEF Typed, ClientsTyped, WorldTyped
<1>3. m \in Packets /\ ~IsClick(m)
  BY <1>2, ViewIs DEF CloseIt, Packets, IsClick
<1>4. v.id = win[c].id => v.kind = win[c].kind
  BY <1>2, HiddenIs, WindowIs
<1> HIDE DEF m, v
<1>5. ClickTrue(m, win[c])
  BY <1>3 DEF ClickTrue
<1> QED BY <1>1, <1>3, <1>4, <1>5, AddsIds

\* Propose keeps ByIds.
LEMMA ProposeIds ==
    ASSUME Typed, ByIds, NEW c \in Conn, NEW mode \in {"pickup", "quick", "throw"}, NEW x, NEW g,
           Proposal(view[c].kind, view[c].cells, mode, x, g), Propose(c, mode, x, g)
    PROVE  ByIds'
<1> DEFINE f == view[c].cells
           id == view[c].id
           kind == view[c].kind
           m == ClickOn(id, mode, x, f, g)
           v == [view[c] EXCEPT !.cells = g]
<1>1. view[c] \in Views /\ win[c] \in Windows
  BY DEF Typed, ClientsTyped, WorldTyped
<1>2. /\ id \in 0 .. Ids /\ kind \in Kinds \cup {"none"} /\ f \in [Cell -> Stacks] /\ (id = 0 <=> kind = "none")
      /\ view[c] = [id |-> id, kind |-> kind, cells |-> f]
  BY <1>1, ViewIs
<1>3. /\ clicks' = [clicks EXCEPT ![c] = Append(@, m)] /\ view' = [view EXCEPT ![c] = v]
      /\ UNCHANGED <<serverVars, syncs>>
  BY ProposeIs
<1>4. v.id = id /\ v.kind = kind
  BY <1>2
<1>5. m.id = id
  BY DEF ClickOn
<1> HIDE DEF v, m, f, id, kind
<1>6. g \in [Cell -> Stacks] /\ x \in Cell
  BY <1>2, ProposedIs DEF f, kind
<1>7. m \in Packets
  BY <1>2, <1>6, ClickOnIs DEF m
<1>8. TrueClick(m, kind)
  BY <1>2, ProposedTrue DEF m, f, kind
<1>9. id = win[c].id => kind = win[c].kind
  BY DEF ByIds, ById, id, kind
<1>10. ClickTrue(m, win[c])
  BY <1>2, <1>5, <1>8, <1>9 DEF ClickTrue
<1> QED BY <1>3, <1>4, <1>7, <1>9, <1>10, AddsIds

\* Client keeps ByIds.
LEMMA ClientIds == ASSUME Typed, ByIds, NEW c \in Conn, Client(c) PROVE ByIds'
<1>1. ClientsTyped
  BY DEF Typed
<1> QED BY <1>1, ClientIs, ReceiveById, CloseScreenIds, ProposeIds

\* Every step keeps ByIds.
LEMMA NextIds == ASSUME MaxSyncs <= Ids, Typed, Typed', ByIds, [Next]_vars PROVE ByIds'
<1>1. CASE UNCHANGED vars
  BY <1>1, SameIds
<1>2. ASSUME NEW c \in Conn, Session(c) PROVE ByIds'
  BY <1>2, JoinIds, DisconnectIds, CleanupIds, DiePlain, RespawnPlain, PlainKeeps DEF Session
<1>3. ASSUME NEW c \in Conn, Handle(c) PROVE ByIds'
  BY <1>3, HandleClickPlain, HandleClosePlain, IgnorePlain, PlainKeeps DEF Handle
<1>4. ASSUME NEW c \in Conn, SmeltOpen(c) \/ Client(c) PROVE ByIds'
  BY <1>4, SmeltOpenPlain, PlainKeeps, ClientIds
<1>5. ASSUME NEW c \in Conn, NEW p \in Pos, OpenContainer(c, p) PROVE ByIds'
  BY <1>5, OpenIds
<1>6. ASSUME NEW p \in Pos, BreakContainer(p) PROVE ByIds'
  BY <1>6, BreakPlain, PlainKeeps
<1>7. ASSUME NEW p \in Pos, NEW kind \in Kinds, PlaceContainer(p, kind) PROVE ByIds'
  BY <1>7 DEF PlaceContainer, ByIds, clientVars
<1>8. ASSUME NEW c \in Conn, NEW i \in Items, PickUp(c, i) PROVE ByIds'
  BY <1>8, PickUpPlain, PlainKeeps
<1>9. ASSUME NEW p \in Pos, SmeltStored(p) PROVE ByIds'
  BY <1>9 DEF SmeltStored, ByIds, clientVars
<1> QED BY <1>1, <1>2, <1>3, <1>4, <1>5, <1>6, <1>7, <1>8, <1>9 DEF Next

\* Every click that is handled for a window is one its client made in it.
THEOREM AlwaysByIds == ASSUME MaxSyncs <= Ids PROVE Spec => []ByIds
<1>1. Init => ByIds
  BY InitIds
<1>2. Typed /\ Typed' /\ ByIds /\ [Next]_vars => ByIds'
  BY NextIds
<1> QED BY <1>1, <1>2, AlwaysTyped, PTL DEF Spec

\* The next click that is handled is true.
LEMMA ByIdsTrue ==
    ASSUME Typed, ByIds, NEW c \in Conn, HandleClick(c)
    PROVE  HeadTrue(c)
<1> DEFINE m == Head(clicks[c])
<1>1. /\ clicks[c] # <<>> /\ m \in Packets /\ IsClick(m) /\ m.id \in 0 .. Ids
      /\ (m.id # 0 => win[c].id # 0 /\ m.id = win[c].id)
  BY HeadIs
<1>2. ClickTrue(m, win[c])
  <2>1. clicks[c] \in Seq(Packets)
    BY DEF Typed, ClientsTyped
  <2>2. 1 \in 1 .. Len(clicks[c]) /\ m = clicks[c][1]
    <3> HIDE DEF Packets
    <3> QED BY <1>1, <2>1
  <2> QED BY <2>2 DEF ByIds, ById
<1> QED BY <1>1, <1>2 DEF HeadTrue, ClickTrue, KindOf

\* No step makes or loses goods but by a stale click or at a shared container.
LEMMA NextTotal ==
    ASSUME Typed, Durable, ByIds, [Next]_vars, Typed', Durable', ~TouchesShared
    PROVE  Total' = Total \/ \E c \in Conn : CopiesStale(c)
<1>1. Counts
  BY StepCounts
<1>2. CASE UNCHANGED vars
  BY <1>1, <1>2, ServerTotal DEF vars
<1>3. ASSUME NEW c \in Conn, Session(c) PROVE Total' = Total
  BY <1>1, <1>3, JoinTotal, DisconnectTotal, CleanupTotal, DieTotal, RespawnTotal DEF Session
<1>4. ASSUME NEW c \in Conn, Handle(c) PROVE Total' = Total \/ CopiesStale(c)
  <2>1. CASE HandleClick(c)
    BY <1>1, <2>1, ByIdsTrue, HandleClickTotal
  <2>2. CASE HandleClose(c)
    BY <1>1, <2>2, HandleCloseTotal
  <2>3. CASE Ignore(c)
    BY <1>1, <2>3, ServerTotal DEF Ignore
  <2> QED BY <1>4, <2>1, <2>2, <2>3 DEF Handle
<1>5. ASSUME NEW c \in Conn, SmeltOpen(c) \/ Client(c) PROVE Total' = Total
  BY <1>1, <1>5, SmeltOpenTotal, ClientServer, ServerTotal DEF Typed
<1>6. ASSUME NEW c \in Conn, NEW p \in Pos, OpenContainer(c, p) PROVE Total' = Total
  BY <1>1, <1>6, OpenTotal
<1>7. ASSUME NEW p \in Pos, BreakContainer(p) \/ SmeltStored(p) PROVE Total' = Total
  BY <1>1, <1>7, BreakTotal, SmeltStoredTotal
<1>8. ASSUME NEW p \in Pos, NEW kind \in Kinds, PlaceContainer(p, kind) PROVE Total' = Total
  BY <1>1, <1>8, PlaceTotal
<1>9. ASSUME NEW c \in Conn, NEW i \in Items, PickUp(c, i) PROVE Total' = Total
  BY <1>1, <1>9, PickUpTotal
<1> QED BY <1>2, <1>3, <1>4, <1>5, <1>6, <1>7, <1>8, <1>9 DEF Next

\* Goods are made or lost only where a stale click is copied or several players
\* have a container open.
THEOREM OnlyStaleClicksMakeOrLoseCorrect ==
    ASSUME MaxSyncs <= Ids PROVE Spec => OnlyStaleClicksMakeOrLose
<1>1. Typed /\ Durable /\ ByIds /\ [Next]_vars /\ Typed' /\ Durable'
      => [Total' = Total \/ TouchesShared \/ \E c \in Conn : CopiesStale(c)]_vars
  BY NextTotal
<1> QED BY <1>1, AlwaysTyped, AlwaysDurable, AlwaysByIds, PTL DEF Spec, OnlyStaleClicksMakeOrLose

-----------------------------------------------------------------------------
(* What a client shows once it has received what was sent.                 *)

\* The cells of the inventory that come with a window.
SharedCells == MainCells \cup {"cursor"}

\* After the first n packets of s the window w is closed.
Gone(s, n, w) == w.id # 0 /\ \E i \in 1 .. n : ~IsClick(s[i]) /\ s[i].id = w.id

\* View v shows inventory e and window w, or that the player left it.
Shows(v, w, e, gone) ==
    /\ \A x \in InvCells : v.cells[x] = e[x]
    /\ v.id = IF gone THEN 0 ELSE w.id
    /\ v.id # 0 => v.kind = w.kind /\ \A x \in BoxCells : v.cells[x] = w.box[x]

\* Contents of a window other than the player's own tell a client with view v
\* nothing of its inventory that it did not know.
NoNews(m, v) == m.type = "contents" /\ m.id # 0 => \A x \in SharedCells : v.cells[x] = m.cells[x]

\* t are the views of a client that receives the messages q.
Follows(t, q, v) ==
    /\ t \in [0 .. Len(q) -> Views] /\ t[0] = v
    /\ \A i \in 1 .. Len(q) : t[i] = Taken(q[i], t[i - 1]) /\ NoNews(q[i], t[i - 1])

\* A client with view v that receives the messages q shows w and e.
Ends(q, v, w, e, gone) == \E t : Follows(t, q, v) /\ Shows(t[Len(q)], w, e, gone)

\* A client that has nothing to receive shows what it will show.
LEMMA EndsNone ==
    ASSUME NEW v \in Views, NEW w, NEW e, NEW gone
    PROVE  Ends(<<>>, v, w, e, gone) <=> Shows(v, w, e, gone)
<1>1. Len(<<>>) = 0
  OBVIOUS
<1>2. ASSUME Ends(<<>>, v, w, e, gone) PROVE Shows(v, w, e, gone)
  <2>1. PICK t : Follows(t, <<>>, v) /\ Shows(t[0], w, e, gone)
    BY <1>1, <1>2 DEF Ends
  <2>2. t[0] = v
    BY <2>1 DEF Follows
  <2> QED BY <2>1, <2>2
<1>3. ASSUME Shows(v, w, e, gone) PROVE Ends(<<>>, v, w, e, gone)
  <2> DEFINE t == [i \in 0 .. 0 |-> v]
  <2>1. t \in [0 .. Len(<<>>) -> Views] /\ t[0] = v /\ t[Len(<<>>)] = v
    BY <1>1
  <2> HIDE DEF t
  <2>2. Follows(t, <<>>, v)
    BY <1>1, <2>1 DEF Follows
  <2> QED BY <1>3, <2>1, <2>2 DEF Ends
<1> QED BY <1>2, <1>3

\* One more message.
LEMMA EndsMore ==
    ASSUME NEW q \in Seq(Messages), NEW v, NEW w, NEW e, NEW gone, Ends(q, v, w, e, gone),
           NEW m \in Messages, NEW z, NEW f, NEW left,
           \A u \in Views : Shows(u, w, e, gone) => NoNews(m, u) /\ Shows(Taken(m, u), z, f, left)
    PROVE  Ends(q \o <<m>>, v, z, f, left)
<1>1. PICK t : Follows(t, q, v) /\ Shows(t[Len(q)], w, e, gone)
  BY DEF Ends
<1>2. t \in [0 .. Len(q) -> Views] /\ t[0] = v
      /\ \A i \in 1 .. Len(q) : t[i] = Taken(q[i], t[i - 1]) /\ NoNews(q[i], t[i - 1])
  BY <1>1 DEF Follows
<1> DEFINE n == Len(q)
           u == t[n]
           y == Taken(m, u)
           r == q \o <<m>>
<1>3. n \in Nat /\ n \in 0 .. n /\ Len(r) = n + 1 /\ r[n + 1] = m /\ \A i \in 1 .. n : r[i] = q[i]
  <2> HIDE DEF Messages
  <2> QED OBVIOUS
<1>4. u \in Views
  BY <1>2, <1>3
<1>5. NoNews(m, u) /\ Shows(y, z, f, left)
  BY <1>1, <1>4
<1>6. y \in Views
  BY <1>4, TakenIs
<1> HIDE DEF r, y
<1> DEFINE x == [i \in 0 .. n + 1 |-> IF i = n + 1 THEN y ELSE t[i]]
<1>7. x \in [0 .. n + 1 -> Views] /\ x[n + 1] = y /\ \A i \in 0 .. n : x[i] = t[i]
  <2> HIDE DEF n
  <2> QED BY <1>2, <1>3, <1>6 DEF n
<1> HIDE DEF x
<1>8. x[0] = v
  BY <1>2, <1>3, <1>7
<1>9. ASSUME NEW i \in 1 .. n + 1 PROVE x[i] = Taken(r[i], x[i - 1]) /\ NoNews(r[i], x[i - 1])
  <2> HIDE DEF n
  <2>1. CASE i = n + 1
    <3>1. i - 1 = n /\ x[i - 1] = u /\ r[i] = m /\ x[i] = y
      BY <1>3, <1>7, <2>1
    <3> QED BY <1>5, <3>1 DEF y
  <2>2. CASE i # n + 1
    <3>1. i \in 1 .. n /\ i \in 0 .. n /\ i - 1 \in 0 .. n
      BY <1>3, <2>2
    <3>2. x[i] = t[i] /\ x[i - 1] = t[i - 1] /\ r[i] = q[i]
      BY <1>3, <1>7, <3>1
    <3>3. t[i] = Taken(q[i], t[i - 1]) /\ NoNews(q[i], t[i - 1])
      BY <1>2, <3>1 DEF n
    <3> QED BY <3>2, <3>3
  <2> QED BY <2>1, <2>2
<1>10. Follows(x, r, v)
  BY <1>3, <1>7, <1>8, <1>9 DEF Follows
<1>11. Shows(x[Len(r)], z, f, left)
  BY <1>3, <1>5, <1>7
<1> QED BY <1>10, <1>11 DEF Ends, r

\* No message, where the server is shown the same.
LEMMA EndsAs ==
    ASSUME NEW q \in Seq(Messages), NEW v, NEW w, NEW e, NEW gone, Ends(q, v, w, e, gone),
           NEW z, NEW f, NEW left,
           \A u \in Views : Shows(u, w, e, gone) => Shows(u, z, f, left)
    PROVE  Ends(q, v, z, f, left)
<1>1. PICK t : Follows(t, q, v) /\ Shows(t[Len(q)], w, e, gone)
  BY DEF Ends
<1>2. t[Len(q)] \in Views
  <2>1. Len(q) \in 0 .. Len(q)
    <3> HIDE DEF Messages
    <3> QED OBVIOUS
  <2> QED BY <1>1, <2>1 DEF Follows
<1> QED BY <1>1, <1>2 DEF Ends

\* The first message is received.
LEMMA EndsReceived ==
    ASSUME NEW q \in Seq(Messages), q # <<>>, NEW v, NEW w, NEW e, NEW gone, Ends(q, v, w, e, gone)
    PROVE  Ends(Tail(q), Taken(Head(q), v), w, e, gone)
<1>1. PICK t : Follows(t, q, v) /\ Shows(t[Len(q)], w, e, gone)
  BY DEF Ends
<1>2. t \in [0 .. Len(q) -> Views] /\ t[0] = v
      /\ \A i \in 1 .. Len(q) : t[i] = Taken(q[i], t[i - 1]) /\ NoNews(q[i], t[i - 1])
  BY <1>1 DEF Follows
<1> DEFINE n == Len(q)
           r == Tail(q)
           k == n - 1
<1>3. n \in Nat /\ n # 0 /\ k \in Nat /\ Len(r) = k /\ q[1] = Head(q) /\ \A i \in 1 .. k : r[i] = q[i + 1]
  <2> HIDE DEF Messages
  <2> QED OBVIOUS
<1> DEFINE x == [i \in 0 .. k |-> t[i + 1]]
<1>4. x \in [0 .. k -> Views] /\ \A i \in 0 .. k : x[i] = t[i + 1]
  <2>1. \A i \in 0 .. k : i + 1 \in 0 .. n
    BY <1>3
  <2> QED BY <1>2, <2>1
<1> HIDE DEF x, r
<1>5. x[0] = Taken(Head(q), v)
  <2>1. 0 \in 0 .. k /\ 1 \in 1 .. n /\ 0 + 1 = 1 /\ 1 - 1 = 0
    BY <1>3
  <2>2. x[0] = t[1] /\ t[1] = Taken(q[1], t[1 - 1])
    BY <1>2, <1>4, <2>1
  <2> QED BY <1>2, <1>3, <2>1, <2>2
<1>6. ASSUME NEW i \in 1 .. k PROVE x[i] = Taken(r[i], x[i - 1]) /\ NoNews(r[i], x[i - 1])
  <2>1. i \in 0 .. k /\ i - 1 \in 0 .. k /\ i + 1 \in 1 .. n /\ (i - 1) + 1 = i /\ (i + 1) - 1 = i
    BY <1>3
  <2>2. x[i] = t[i + 1] /\ x[i - 1] = t[i] /\ r[i] = q[i + 1]
    <3>1. x[i] = t[i + 1]
      BY <1>4, <2>1
    <3>2. x[i - 1] = t[(i - 1) + 1]
      BY <1>4, <2>1
    <3> QED BY <1>3, <2>1, <3>1, <3>2
  <2>3. t[i + 1] = Taken(q[i + 1], t[(i + 1) - 1]) /\ NoNews(q[i + 1], t[(i + 1) - 1])
    BY <1>2, <2>1
  <2> QED BY <2>1, <2>2, <2>3
<1>7. Follows(x, r, Taken(Head(q), v))
  BY <1>3, <1>4, <1>5, <1>6 DEF Follows
<1>8. x[Len(r)] = t[Len(q)]
  <2>1. k \in 0 .. k /\ k + 1 = n
    BY <1>3
  <2> QED BY <1>3, <1>4, <2>1
<1> QED BY <1>1, <1>7, <1>8 DEF Ends, r

\* The contents of its own window bring a client the whole inventory.
LEMMA OwnShown ==
    ASSUME NEW m \in Messages, m.type = "contents", m.id = 0, NEW v \in Views, NEW w, NEW e, NEW gone,
           Shows(v, w, e, gone), NEW f, \A x \in InvCells : m.cells[x] = f[x]
    PROVE  NoNews(m, v) /\ Shows(Taken(m, v), w, f, gone)
<1>1. NoNews(m, v)
  BY DEF NoNews
<1>2. /\ Taken(m, v).id = v.id /\ Taken(m, v).kind = v.kind
      /\ \A x \in InvCells : Taken(m, v).cells[x] = m.cells[x]
      /\ \A x \in BoxCells : Taken(m, v).cells[x] = v.cells[x]
  BY TakenIs
<1> QED BY <1>1, <1>2 DEF Shows

\* The cells of a window are its own and those of the inventory it shares.
LEMMA SharedAre == ContentCells = BoxCells \cup SharedCells /\ SharedCells \subseteq InvCells
                   /\ (\A x \in InvCells : x \notin SharedCells => x \notin ContentCells)
                   /\ InvCells \subseteq Cell
BY CellsAre DEF ContentCells, SharedCells

\* The contents of an open window bring a client the box.
LEMMA WindowShown ==
    ASSUME NEW m \in Messages, m.type = "contents", m.id # 0, NEW v \in Views, NEW w, NEW e, NEW gone,
           Shows(v, w, e, gone), m.id = w.id, \A x \in SharedCells : m.cells[x] = e[x],
           NEW z, z.id = w.id, z.kind = w.kind, \A x \in BoxCells : z.box[x] = m.cells[x]
    PROVE  NoNews(m, v) /\ Shows(Taken(m, v), z, e, gone)
<1>1. NoNews(m, v)
  BY SharedAre DEF NoNews, Shows
<1>2. CASE m.id = v.id
  <2>1. /\ Taken(m, v).id = v.id /\ Taken(m, v).kind = v.kind
        /\ \A x \in ContentCells : Taken(m, v).cells[x] = m.cells[x]
        /\ \A x \in Cell : x \notin ContentCells => Taken(m, v).cells[x] = v.cells[x]
    BY <1>2, TakenIs
  <2>2. \A x \in InvCells : Taken(m, v).cells[x] = e[x]
    <3> SUFFICES ASSUME NEW x \in InvCells PROVE Taken(m, v).cells[x] = e[x]
      OBVIOUS
    <3>1. CASE x \in SharedCells
      BY <2>1, <3>1, SharedAre
    <3>2. CASE x \notin SharedCells
      BY <2>1, <3>2, SharedAre DEF Shows
    <3> QED BY <3>1, <3>2
  <2>3. \A x \in BoxCells : Taken(m, v).cells[x] = z.box[x]
    BY <2>1, SharedAre
  <2> QED BY <1>1, <2>1, <2>2, <2>3 DEF Shows
<1>3. CASE m.id # v.id
  <2>1. Taken(m, v) = v
    BY <1>3, TakenIs
  <2>2. v.id = 0
    BY <1>3 DEF Shows
  <2> QED BY <1>1, <2>1, <2>2 DEF Shows
<1> QED BY <1>2, <1>3

\* A close of the window leaves the client with none.
LEMMA CloseShown ==
    ASSUME NEW m \in Messages, m.type = "close", NEW v \in Views, NEW w, NEW e, NEW gone,
           Shows(v, w, e, gone), m.id = w.id
    PROVE  NoNews(m, v) /\ Shows(Taken(m, v), Closed, e, FALSE)
<1>1. NoNews(m, v) /\ Closed.id = 0
  BY ClosedIs DEF NoNews
<1>2. CASE m.id = v.id
  <2>1. Taken(m, v) = Hidden(v)
    BY <1>2, TakenIs
  <2> QED BY <1>1, <2>1, HiddenIs DEF Shows
<1>3. CASE m.id # v.id
  <2>1. Taken(m, v) = v /\ v.id = 0
    BY <1>3, TakenIs DEF Shows
  <2> QED BY <1>1, <2>1 DEF Shows
<1> QED BY <1>2, <1>3

\* An open brings a client the new window, whatever it showed before.
LEMMA OpenShown ==
    ASSUME NEW m \in Messages, m.type = "open", NEW v \in Views, NEW w, NEW e, NEW gone,
           Shows(v, w, e, gone), \A x \in SharedCells : m.cells[x] = e[x],
           NEW z, z.id = m.id, z.kind = m.kind, \A x \in BoxCells : z.box[x] = m.cells[x]
    PROVE  NoNews(m, v) /\ Shows(Taken(m, v), z, e, FALSE)
<1>1. NoNews(m, v)
  BY DEF NoNews
<1>2. /\ Taken(m, v).id = m.id /\ Taken(m, v).kind = m.kind
      /\ \A x \in ContentCells : Taken(m, v).cells[x] = m.cells[x]
      /\ \A x \in Cell : x \notin ContentCells => Taken(m, v).cells[x] = v.cells[x]
  BY TakenIs
<1>3. \A x \in InvCells : Taken(m, v).cells[x] = e[x]
  <2> SUFFICES ASSUME NEW x \in InvCells PROVE Taken(m, v).cells[x] = e[x]
    OBVIOUS
  <2>1. CASE x \in SharedCells
    BY <1>2, <2>1, SharedAre
  <2>2. CASE x \notin SharedCells
    BY <1>2, <2>2, SharedAre DEF Shows
  <2> QED BY <2>1, <2>2
<1>4. \A x \in BoxCells : Taken(m, v).cells[x] = z.box[x]
  BY <1>2, SharedAre
<1> QED BY <1>1, <1>2, <1>3, <1>4 DEF Shows

\* Where a window was left or is closed nothing is shown.
LEMMA LeftShown ==
    ASSUME NEW v, NEW w, NEW e, Shows(v, w, e, TRUE)
    PROVE  Shows(v, Closed, e, FALSE)
BY ClosedIs DEF Shows

\* Views with the same cells.
LEMMA ViewSame ==
    ASSUME NEW u \in Views, NEW v \in Views, u.id = v.id, u.kind = v.kind,
           \A x \in Cell : u.cells[x] = v.cells[x]
    PROVE  u = v
<1>1. u.cells \in [Cell -> Stacks] /\ v.cells \in [Cell -> Stacks]
      /\ u = [id |-> u.id, kind |-> u.kind, cells |-> u.cells]
      /\ v = [id |-> v.id, kind |-> v.kind, cells |-> v.cells]
  BY ViewIs
<1>2. u.cells = v.cells
  BY <1>1
<1> QED BY <1>1, <1>2

\* A view whose screen is closed shows no box.
LEMMA HiddenBox == ASSUME NEW v \in Views PROVE \A x \in BoxCells : Hidden(v).cells[x] = Nothing
<1>1. v.cells \in [Cell -> Stacks]
  BY ViewIs
<1> DEFINE e == [x \in BoxCells |-> Nothing]
<1>2. e \in [BoxCells -> Stacks] /\ \A x \in BoxCells : e[x] = Nothing
  BY NothingIs
<1> HIDE DEF e
<1>3. \A x \in BoxCells : Over(e, v.cells)[x] = Nothing
  BY <1>1, <1>2, CellsAre DEF Over
<1>4. Hidden(v).cells = Over(e, v.cells)
  BY DEF Hidden, e
<1> QED BY <1>3, <1>4

\* Without its window only the inventory counts.
LEMMA HiddenSame ==
    ASSUME NEW u \in Views, NEW v \in Views, u.id = 0, \A x \in BoxCells : u.cells[x] = Nothing,
           \A x \in InvCells : u.cells[x] = v.cells[x]
    PROVE  u = Hidden(v)
<1>1. Hidden(v) \in Views /\ Hidden(v).id = 0 /\ Hidden(v).kind = "none"
      /\ \A x \in InvCells : Hidden(v).cells[x] = v.cells[x]
  BY HiddenIs
<1>2. \A x \in BoxCells : Hidden(v).cells[x] = Nothing
  BY HiddenBox
<1>3. u.kind = "none"
  BY ViewIs
<1>4. \A x \in Cell : u.cells[x] = Hidden(v).cells[x]
  BY <1>1, <1>2, CellsAre
<1> QED BY <1>1, <1>3, <1>4, ViewSame

\* A client that has left its window takes the next message as it would have,
\* but that it still shows no window.
LEMMA HiddenTakes ==
    ASSUME NEW m \in Messages, NEW v \in Views, NoNews(m, v)
    PROVE  /\ NoNews(m, Hidden(v))
           /\ m.type = "open" => Taken(m, Hidden(v)) = Taken(m, v)
           /\ m.type # "open" => Taken(m, Hidden(v)) = Hidden(Taken(m, v))
<1> DEFINE h == Hidden(v)
           y == Taken(m, v)
           z == Taken(m, h)
<1>1. /\ h \in Views /\ h.id = 0 /\ h.kind = "none" /\ y \in Views /\ z \in Views
      /\ \A x \in InvCells : h.cells[x] = v.cells[x]
      /\ \A x \in BoxCells : h.cells[x] = Nothing
  BY HiddenIs, HiddenBox, TakenIs
<1>2. NoNews(m, h)
  BY <1>1, SharedAre DEF NoNews
<1>3. ASSUME m.type = "open" PROVE z = y
  <2>1. /\ y.id = m.id /\ y.kind = m.kind /\ z.id = m.id /\ z.kind = m.kind
        /\ \A x \in ContentCells : y.cells[x] = m.cells[x] /\ z.cells[x] = m.cells[x]
        /\ \A x \in Cell : x \notin ContentCells => y.cells[x] = v.cells[x] /\ z.cells[x] = h.cells[x]
    BY <1>1, <1>3, TakenIs
  <2>2. \A x \in Cell : y.cells[x] = z.cells[x]
    <3> SUFFICES ASSUME NEW x \in Cell PROVE y.cells[x] = z.cells[x]
      OBVIOUS
    <3>1. CASE x \in ContentCells
      BY <2>1, <3>1
    <3>2. CASE x \notin ContentCells
      BY <1>1, <2>1, <3>2, SharedAre, CellsAre
    <3> QED BY <3>1, <3>2
  <2> HIDE DEF y, z
  <2> QED BY <1>1, <2>1, <2>2, ViewSame
<1>4. ASSUME m.type # "open" PROVE z = Hidden(y)
  <2>1. z.id = 0 /\ (\A x \in BoxCells : z.cells[x] = Nothing) /\ \A x \in InvCells : z.cells[x] = y.cells[x]
    <3>1. CASE m.type = "contents" /\ m.id = 0
      BY <1>1, <3>1, TakenIs
    <3>2. CASE m.type = "contents" /\ m.id # 0
      <4>1. z = h
        BY <1>1, <3>2, TakenIs
      <4>2. CASE m.id = v.id
        <5>1. /\ \A x \in ContentCells : y.cells[x] = m.cells[x]
              /\ \A x \in Cell : x \notin ContentCells => y.cells[x] = v.cells[x]
          BY <3>2, <4>2, TakenIs
        <5>2. \A x \in InvCells : y.cells[x] = v.cells[x]
          <6> SUFFICES ASSUME NEW x \in InvCells PROVE y.cells[x] = v.cells[x]
            OBVIOUS
          <6>1. CASE x \in SharedCells
            BY <3>2, <5>1, <6>1, SharedAre DEF NoNews
          <6>2. CASE x \notin SharedCells
            BY <5>1, <6>2, SharedAre
          <6> QED BY <6>1, <6>2
        <5> QED BY <1>1, <4>1, <5>2
      <4>3. CASE m.id # v.id
        BY <1>1, <3>2, <4>1, <4>3, TakenIs
      <4> QED BY <4>2, <4>3
    <3>3. CASE m.type = "close"
      <4>1. m.id # 0
        BY <3>3, Sizes DEF Messages
      <4>2. z = h
        BY <1>1, <3>3, <4>1, TakenIs
      <4>3. y = h \/ y = v
        BY <3>3, TakenIs
      <4> QED BY <1>1, <4>2, <4>3
    <3>4. m.type \in {"contents", "open", "close"}
      BY DEF Messages
    <3> QED BY <1>4, <3>1, <3>2, <3>3, <3>4
  <2> HIDE DEF y, z
  <2> QED BY <1>1, <2>1, HiddenSame
<1> QED BY <1>2, <1>3, <1>4

\* Messages that open windows open different ones, and none that is shown.
Differ(q, v) ==
    /\ \A i, j \in 1 .. Len(q) : i # j /\ q[i].type = "open" /\ q[j].type = "open" => q[i].id # q[j].id
    /\ \A i \in 1 .. Len(q) : q[i].type = "open" /\ v.id # 0 => q[i].id # v.id

\* A window opens among the first n messages of q.
OpensIn(q, n) == \E i \in 1 .. n : q[i].type = "open"

\* What a client shows that receives q: no window, the one it showed, or one of q.
LEMMA ShownOf ==
    ASSUME NEW q \in Seq(Messages), NEW v, NEW t, Follows(t, q, v), NEW n \in 0 .. Len(q)
    PROVE  \/ t[n].id = 0
           \/ ~OpensIn(q, n) /\ t[n].id = v.id
           \/ \E i \in 1 .. n : q[i].type = "open" /\ t[n].id = q[i].id
<1> DEFINE Ok(k) == \/ t[k].id = 0
                    \/ ~OpensIn(q, k) /\ t[k].id = v.id
                    \/ \E i \in 1 .. k : q[i].type = "open" /\ t[k].id = q[i].id
           S == {k \in Nat : Ok(k)}
           l == Len(q)
<1>1. l \in Nat /\ t \in [0 .. l -> Views] /\ t[0] = v /\ \A i \in 1 .. l : q[i] \in Messages
  <2>1. Len(q) \in Nat /\ \A i \in 1 .. Len(q) : q[i] \in Messages
    <3> HIDE DEF Messages
    <3> QED OBVIOUS
  <2> QED BY <2>1 DEF Follows
<1>2. \A i \in 1 .. l : t[i] = Taken(q[i], t[i - 1])
  BY DEF Follows
<1>3. 0 \in S
  BY <1>1 DEF OpensIn
<1>4. ASSUME NEW k \in 0 .. l, k < l, k \in S PROVE k + 1 \in S
  <2> DEFINE m == q[k + 1]
  <2> HIDE DEF l
  <2>1. k + 1 \in 1 .. l /\ (k + 1) - 1 = k /\ k + 1 \in Nat
    BY <1>1, <1>4
  <2>2. t[k + 1] = Taken(m, t[k])
    BY <1>2, <2>1
  <2>3. m \in Messages /\ t[k] \in Views
    BY <1>1, <2>1
  <2>4. Ok(k)
    BY <1>4
  <2>5. ASSUME NEW i \in 1 .. k + 1 PROVE i \in 1 .. k \/ i = k + 1
    BY <1>1
  <2>6. \A i \in 1 .. k : i \in 1 .. k + 1
    BY <1>1
  <2>7. k + 1 \in 1 .. k + 1
    BY <1>1
  <2>8. CASE m.type = "open"
    BY <2>2, <2>3, <2>7, <2>8, TakenIs, <2>1
  <2>9. CASE m.type # "open"
    <3>1. t[k + 1].id = 0 \/ t[k + 1].id = t[k].id
      BY <2>2, <2>3, <2>9, TakenIs, HiddenIs DEF Messages
    <3>2. OpensIn(q, k + 1) => OpensIn(q, k)
      BY <2>5, <2>9 DEF OpensIn
    <3> HIDE DEF m
    <3> QED BY <2>1, <2>4, <2>6, <3>1, <3>2
  <2> QED BY <2>8, <2>9
<1> HIDE DEF S
<1>5. \A k \in 0 .. l : k \in S
  BY <1>1, <1>3, <1>4, CountUp
<1> QED BY <1>5 DEF S

\* The client leaves the window it shows before it receives the messages.
LEMMA EndsHides ==
    ASSUME NEW q \in Seq(Messages), NEW v \in Views, NEW w, NEW e, NEW gone \in BOOLEAN,
           Ends(q, v, w, e, gone), Differ(q, v)
    PROVE  Ends(q, Hidden(v), w, e, gone \/ (w.id # 0 /\ v.id = w.id))
<1> DEFINE l == Len(q)
           left == gone \/ (w.id # 0 /\ v.id = w.id)
<1>1. PICK t : Follows(t, q, v) /\ Shows(t[l], w, e, gone)
  BY DEF Ends
<1>2. t \in [0 .. l -> Views] /\ t[0] = v
      /\ \A i \in 1 .. l : t[i] = Taken(q[i], t[i - 1]) /\ NoNews(q[i], t[i - 1])
  BY <1>1 DEF Follows
<1>3. l \in Nat /\ l \in 0 .. l /\ \A i \in 1 .. l : q[i] \in Messages
  <2> HIDE DEF Messages
  <2> QED OBVIOUS
<1> DEFINE x == [i \in 0 .. l |-> IF OpensIn(q, i) THEN t[i] ELSE Hidden(t[i])]
<1> HIDE DEF l
<1>4. \A i \in 0 .. l : t[i] \in Views /\ Hidden(t[i]) \in Views
  BY <1>2, HiddenIs
<1>5. x \in [0 .. l -> Views]
      /\ \A i \in 0 .. l : x[i] = IF OpensIn(q, i) THEN t[i] ELSE Hidden(t[i])
  BY <1>4
<1> HIDE DEF x
<1>6. x[0] = Hidden(v)
  <2>1. ~OpensIn(q, 0) /\ 0 \in 0 .. l
    BY <1>3 DEF OpensIn
  <2> QED BY <1>2, <1>5, <2>1
<1>7. ASSUME NEW i \in 1 .. l PROVE x[i] = Taken(q[i], x[i - 1]) /\ NoNews(q[i], x[i - 1])
  <2>1. i \in 0 .. l /\ i - 1 \in 0 .. l /\ i \in 1 .. i /\ i \in Nat
    BY <1>3
  <2> DEFINE k == i - 1
             u == t[k]
             m == q[i]
  <2>2. u \in Views /\ m \in Messages /\ t[i] = Taken(m, u) /\ NoNews(m, u)
    BY <1>2, <1>3, <1>4, <2>1
  <2>3. /\ NoNews(m, Hidden(u))
        /\ m.type = "open" => Taken(m, Hidden(u)) = Taken(m, u)
        /\ m.type # "open" => Taken(m, Hidden(u)) = Hidden(Taken(m, u))
    BY <2>2, HiddenTakes
  <2>4. OpensIn(q, i) <=> OpensIn(q, k) \/ m.type = "open"
    <3>1. \A j \in 1 .. i : j \in 1 .. k \/ j = i
      BY <2>1
    <3>2. \A j \in 1 .. k : j \in 1 .. i
      BY <2>1
    <3> HIDE DEF k
    <3> QED BY <2>1, <3>1, <3>2 DEF OpensIn
  <2>5. x[i] = (IF OpensIn(q, i) THEN t[i] ELSE Hidden(t[i])) /\ x[k] = IF OpensIn(q, k) THEN u ELSE Hidden(u)
    BY <1>5, <2>1
  <2> HIDE DEF k, u, m
  <2>6. x[i] = Taken(m, x[k]) /\ NoNews(m, x[k])
    <3>1. CASE OpensIn(q, k)
      BY <2>2, <2>4, <2>5, <3>1
    <3>2. CASE ~OpensIn(q, k) /\ m.type = "open"
      BY <2>2, <2>3, <2>4, <2>5, <3>2
    <3>3. CASE ~OpensIn(q, k) /\ m.type # "open"
      BY <2>2, <2>3, <2>4, <2>5, <3>3
    <3> QED BY <3>1, <3>2, <3>3
  <2> QED BY <2>6 DEF k, m
<1>8. Follows(x, q, Hidden(v))
  BY <1>5, <1>6, <1>7 DEF Follows, l
<1>9. Shows(x[l], w, e, left)
  <2> DEFINE y == t[l]
  <2>1. y \in Views /\ Shows(y, w, e, gone) /\ x[l] = IF OpensIn(q, l) THEN y ELSE Hidden(y)
    BY <1>1, <1>3, <1>4, <1>5
  <2>2. \/ y.id = 0
        \/ ~OpensIn(q, l) /\ y.id = v.id
        \/ \E i \in 1 .. l : q[i].type = "open" /\ y.id = q[i].id
    <3>1. l \in 0 .. Len(q)
      BY <1>3 DEF l
    <3> HIDE DEF Messages
    <3> QED BY <1>1, <3>1, ShownOf
  <2> HIDE DEF y
  <2>3. CASE OpensIn(q, l)
    <3>1. gone \/ w.id = 0 \/ v.id # w.id
      <4> SUFFICES ASSUME ~gone, w.id # 0, v.id = w.id PROVE FALSE
        OBVIOUS
      <4>1. y.id = w.id
        BY <2>1 DEF Shows
      <4>2. PICK i \in 1 .. l : q[i].type = "open" /\ y.id = q[i].id
        BY <2>2, <2>3, <4>1
      <4> QED BY <4>1, <4>2 DEF Differ, l
    <3>2. left <=> gone
      BY <3>1
    <3> QED BY <2>1, <2>3, <3>2 DEF Shows
  <2>4. CASE ~OpensIn(q, l)
    <3>1. y.id = 0 \/ y.id = v.id
      BY <2>2, <2>4 DEF OpensIn
    <3>2. x[l] = Hidden(y) /\ Hidden(y).id = 0 /\ \A z \in InvCells : Hidden(y).cells[z] = y.cells[z]
      BY <2>1, <2>4, HiddenIs
    <3>3. left \/ w.id = 0
      BY <2>1, <3>1 DEF Shows
    <3> QED BY <2>1, <3>2, <3>3 DEF Shows
  <2> QED BY <2>3, <2>4
<1> QED BY <1>8, <1>9 DEF Ends, l

-----------------------------------------------------------------------------
(* What is known of a client that is not mistaken, with packets s, messages *)
(* q, view v, window w and inventory e.                                    *)

NoClick(s) == \A i \in 1 .. Len(s) : ~IsClick(s[i])
OnlyClick(s, k) == IsClick(s[k]) /\ \A i \in 1 .. Len(s) : i # k => ~IsClick(s[i])

\* Packet k is a click of a client that showed u, which was right when the
\* packets before it are handled, and which closed its screen since, or waits.
ClickSeen(s, k, v, w, e, u, mode, x, g) ==
    /\ u \in Views /\ mode \in {"pickup", "quick", "throw"}
    /\ Proposal(u.kind, u.cells, mode, x, g)
    /\ s[k] = ClickOn(u.id, mode, x, u.cells, g)
    /\ Shows(u, w, e, Gone(s, k - 1, w))
    /\ k = Len(s) => v = [u EXCEPT !.cells = g]
    /\ k # Len(s) => v = Hidden([u EXCEPT !.cells = g]) /\ s[k + 1] = CloseIt(u.id)
OneClick(s, k, v, w, e) == \E u, mode, x, g : ClickSeen(s, k, v, w, e, u, mode, x, g)

\* Without clicks under way the client will show what the server has; with a
\* click there is nothing for it to receive.
Rests(s, q, v, w, e) ==
    /\ NoClick(s) => Ends(q, v, w, e, Gone(s, Len(s), w))
    /\ ~NoClick(s) => q = <<>>
    /\ \A k \in 1 .. Len(s) : OnlyClick(s, k) => OneClick(s, k, v, w, e)

\* Without a click only what the client will show counts.
LEMMA Quiet ==
    ASSUME NEW s, NoClick(s), NEW q, NEW v, NEW w, NEW e
    PROVE  Rests(s, q, v, w, e) <=> Ends(q, v, w, e, Gone(s, Len(s), w))
<1>1. \A k \in 1 .. Len(s) : ~OnlyClick(s, k)
  BY DEF NoClick, OnlyClick
<1> QED BY <1>1 DEF Rests

\* One more message after which the client shows what the server then has.
LEMMA RestsMore ==
    ASSUME NEW s, NoClick(s), NEW q \in Seq(Messages), NEW v, NEW w, NEW e, Rests(s, q, v, w, e),
           NEW m \in Messages, NEW z, NEW f,
           \A u \in Views : Shows(u, w, e, Gone(s, Len(s), w))
                            => NoNews(m, u) /\ Shows(Taken(m, u), z, f, Gone(s, Len(s), z))
    PROVE  Rests(s, q \o <<m>>, v, z, f)
<1>1. Ends(q, v, w, e, Gone(s, Len(s), w))
  BY Quiet
<1>2. Ends(q \o <<m>>, v, z, f, Gone(s, Len(s), z))
  BY <1>1, EndsMore
<1> QED BY <1>2, Quiet

\* Gone is a condition, and no window cannot be gone.
LEMMA GoneIs == ASSUME NEW s, NEW n, NEW w PROVE Gone(s, n, w) \in BOOLEAN /\ (w.id = 0 => ~Gone(s, n, w))
BY DEF Gone

\* Nothing is under way any more of a window that is closed.
LEMMA RestsReceived ==
    ASSUME NEW s, NEW q \in Seq(Messages), q # <<>>, NEW v, NEW w, NEW e, Rests(s, q, v, w, e)
    PROVE  Rests(s, Tail(q), Taken(Head(q), v), w, e)
<1>1. NoClick(s)
  BY DEF Rests
<1>2. Ends(q, v, w, e, Gone(s, Len(s), w))
  BY <1>1, Quiet
<1>3. Ends(Tail(q), Taken(Head(q), v), w, e, Gone(s, Len(s), w))
  BY <1>2, EndsReceived
<1> QED BY <1>1, <1>3, Quiet

\* The rest of the packets.
LEMMA TailIs ==
    ASSUME NEW s \in Seq(Packets), s # <<>>
    PROVE  /\ Len(s) \in Nat \ {0} /\ Len(Tail(s)) = Len(s) - 1 /\ Head(s) = s[1] /\ Head(s) \in Packets
           /\ \A i \in 1 .. Len(s) - 1 : Tail(s)[i] = s[i + 1]
           /\ Tail(s) \in Seq(Packets)
<1> HIDE DEF Packets
<1> QED OBVIOUS

\* The clicks left when the first packet is handled.
LEMMA TailClicks ==
    ASSUME NEW s \in Seq(Packets), s # <<>>
    PROVE  /\ NoClick(s) => NoClick(Tail(s))
           /\ ~IsClick(Head(s)) /\ NoClick(Tail(s)) => NoClick(s)
           /\ OnlyClick(s, 1) <=> IsClick(Head(s)) /\ NoClick(Tail(s))
           /\ ~IsClick(Head(s)) => \A k \in 1 .. Len(Tail(s)) : OnlyClick(Tail(s), k) => OnlyClick(s, k + 1)
<1> DEFINE n == Len(s)
           r == Tail(s)
<1>1. n \in Nat \ {0} /\ Len(r) = n - 1 /\ Head(s) = s[1] /\ \A i \in 1 .. n - 1 : r[i] = s[i + 1]
  BY TailIs
<1>2. \A i \in 1 .. n : i = 1 \/ (i - 1 \in 1 .. n - 1 /\ s[i] = r[i - 1])
  <2> SUFFICES ASSUME NEW i \in 1 .. n, i # 1 PROVE i - 1 \in 1 .. n - 1 /\ s[i] = r[i - 1]
    OBVIOUS
  <2>1. i - 1 \in 1 .. n - 1 /\ (i - 1) + 1 = i
    BY <1>1
  <2>2. r[i - 1] = s[(i - 1) + 1]
    BY <1>1, <2>1
  <2> QED BY <2>1, <2>2
<1>3. \A i \in 1 .. n - 1 : i + 1 \in 1 .. n /\ i + 1 # 1
  BY <1>1
<1>4. 1 \in 1 .. n
  BY <1>1
<1> HIDE DEF n, r
<1>5. NoClick(s) => NoClick(r)
  BY <1>1, <1>3 DEF NoClick, n
<1>6. ~IsClick(Head(s)) /\ NoClick(r) => NoClick(s)
  BY <1>1, <1>2 DEF NoClick, n
<1>7. OnlyClick(s, 1) => IsClick(Head(s)) /\ NoClick(r)
  BY <1>1, <1>3 DEF NoClick, OnlyClick, n
<1>8. IsClick(Head(s)) /\ NoClick(r) => OnlyClick(s, 1)
  BY <1>1, <1>2 DEF NoClick, OnlyClick, n
<1>9. ASSUME ~IsClick(Head(s)), NEW k \in 1 .. Len(r), OnlyClick(r, k) PROVE OnlyClick(s, k + 1)
  <2>1. k \in 1 .. n - 1 /\ r[k] = s[k + 1]
    BY <1>1, <1>9
  <2>2. ASSUME NEW i \in 1 .. n, i # k + 1 PROVE ~IsClick(s[i])
    <3>1. CASE i = 1
      BY <1>1, <1>9, <3>1
    <3>2. CASE i # 1
      <4>1. i - 1 \in 1 .. Len(r) /\ s[i] = r[i - 1]
        BY <1>1, <1>2, <3>2
      <4>2. i - 1 # k
        BY <2>1, <2>2, <1>1
      <4> QED BY <1>9, <4>1, <4>2 DEF OnlyClick
    <3> QED BY <3>1, <3>2
  <2> QED BY <1>9, <2>1, <2>2 DEF OnlyClick, n
<1> QED BY <1>5, <1>6, <1>7, <1>8, <1>9 DEF r

\* What is left of the window w after a packet to close window id.
After(id, w) == IF w.id # 0 /\ id = w.id THEN Closed ELSE w

\* A handled close counts in the window instead of among the packets.
LEMMA AfterShown ==
    ASSUME NEW s \in Seq(Packets), s # <<>>, ~IsClick(Head(s)), NEW n \in 1 .. Len(s), NEW u, NEW w, NEW e,
           Shows(u, w, e, Gone(s, n, w))
    PROVE  Shows(u, After(Head(s).id, w), e, Gone(Tail(s), n - 1, After(Head(s).id, w)))
<1> DEFINE m == Head(s)
           z == After(m.id, w)
           r == Tail(s)
<1>1. Len(s) \in Nat /\ m = s[1] /\ (\A i \in 1 .. Len(s) - 1 : r[i] = s[i + 1]) /\ n \in Nat /\ 1 \in 1 .. n
  BY TailIs
<1>2. CASE w.id # 0 /\ m.id = w.id
  <2>1. Gone(s, n, w) = TRUE
    BY <1>1, <1>2 DEF Gone
  <2>2. z = Closed /\ Gone(r, n - 1, Closed) = FALSE
    BY <1>2, ClosedIs DEF After, Gone
  <2>3. Shows(u, w, e, TRUE)
    BY <2>1
  <2> HIDE DEF z, r
  <2>4. Shows(u, Closed, e, FALSE)
    BY <2>3, LeftShown
  <2> QED BY <2>2, <2>4 DEF z, r
<1>3. CASE ~(w.id # 0 /\ m.id = w.id)
  <2>1. z = w
    BY <1>3 DEF After
  <2>2. Gone(r, n - 1, w) => Gone(s, n, w)
    <3> SUFFICES ASSUME Gone(r, n - 1, w) PROVE Gone(s, n, w)
      OBVIOUS
    <3>1. PICK i \in 1 .. n - 1 : ~IsClick(r[i]) /\ r[i].id = w.id
      BY DEF Gone
    <3>2. i \in 1 .. Len(s) - 1 /\ i + 1 \in 1 .. n
      BY <1>1
    <3> QED BY <1>1, <3>1, <3>2 DEF Gone
  <2>3. Gone(s, n, w) => Gone(r, n - 1, w)
    <3> SUFFICES ASSUME Gone(s, n, w) PROVE Gone(r, n - 1, w)
      OBVIOUS
    <3>1. PICK i \in 1 .. n : ~IsClick(s[i]) /\ s[i].id = w.id
      BY DEF Gone
    <3>2. w.id # 0 /\ i # 1
      BY <1>1, <1>3, <3>1 DEF Gone
    <3>3. i - 1 \in 1 .. n - 1 /\ i - 1 \in 1 .. Len(s) - 1 /\ (i - 1) + 1 = i
      BY <1>1, <3>2
    <3>4. r[i - 1] = s[(i - 1) + 1]
      BY <1>1, <3>3
    <3> QED BY <3>1, <3>2, <3>3, <3>4 DEF Gone
  <2>4. Gone(r, n - 1, w) = Gone(s, n, w)
    BY <2>2, <2>3, GoneIs
  <2> HIDE DEF r
  <2> QED BY <2>1, <2>4 DEF r
<1> QED BY <1>2, <1>3

\* A packet that closes a window is taken from the packets.
LEMMA RestsClosed ==
    ASSUME NEW s \in Seq(Packets), s # <<>>, ~IsClick(Head(s)),
           NEW q \in Seq(Messages), NEW v, NEW w, NEW e, Rests(s, q, v, w, e)
    PROVE  Rests(Tail(s), q, v, After(Head(s).id, w), e)
<1> DEFINE r == Tail(s)
           z == After(Head(s).id, w)
           n == Len(s)
<1>1. n \in Nat \ {0} /\ Len(r) = n - 1 /\ n \in 1 .. n /\ \A i \in 1 .. n - 1 : r[i] = s[i + 1]
  BY TailIs
<1>2. NoClick(r) <=> NoClick(s)
  BY TailClicks
<1>3. ASSUME NoClick(r) PROVE Ends(q, v, z, e, Gone(r, Len(r), z))
  <2>1. Ends(q, v, w, e, Gone(s, n, w))
    BY <1>2, <1>3 DEF Rests
  <2>2. \A u \in Views : Shows(u, w, e, Gone(s, n, w)) => Shows(u, z, e, Gone(r, n - 1, z))
    BY <1>1, AfterShown
  <2> HIDE DEF n, z, r
  <2>3. Ends(q, v, z, e, Gone(r, n - 1, z))
    BY <2>1, <2>2, EndsAs
  <2> QED BY <1>1, <2>3
<1>4. ASSUME NEW k \in 1 .. Len(r), OnlyClick(r, k) PROVE OneClick(r, k, v, z, e)
  <2>1. OnlyClick(s, k + 1)
    BY <1>4, TailClicks
  <2> DEFINE j == Len(r)
  <2> HIDE DEF j, n, r
  <2>8. j = n - 1 /\ n \in Nat /\ k \in 1 .. j
    BY <1>1 DEF j
  <2>9. k \in Nat /\ k + 1 \in 1 .. n /\ k \in 1 .. n /\ (k + 1) - 1 = k /\ (k = j <=> k + 1 = n)
        /\ k \in 1 .. n - 1 /\ (k # j => k + 1 \in 1 .. n - 1)
    BY <2>8
  <2>2. k + 1 \in 1 .. n /\ k \in 1 .. n /\ (k + 1) - 1 = k /\ (k = Len(r) <=> k + 1 = n)
        /\ r[k] = s[k + 1] /\ (k # Len(r) => r[k + 1] = s[(k + 1) + 1])
    BY <1>1, <2>9 DEF j
  <2>3. PICK u, mode, x, g : ClickSeen(s, k + 1, v, w, e, u, mode, x, g)
    BY <2>1, <2>2 DEF Rests, OneClick, n
  <2>4. Shows(u, w, e, Gone(s, k, w))
    BY <2>2, <2>3 DEF ClickSeen
  <2>5. Shows(u, z, e, Gone(r, k - 1, z))
    BY <2>2, <2>4, AfterShown DEF r, n
  <2> HIDE DEF z
  <2>6. ClickSeen(r, k, v, z, e, u, mode, x, g)
    BY <2>2, <2>3, <2>5 DEF ClickSeen, n
  <2> QED BY <2>6 DEF OneClick
<1>5. ~NoClick(r) => q = <<>>
  BY <1>2 DEF Rests
<1> HIDE DEF r, z
<1> QED BY <1>3, <1>4, <1>5 DEF Rests, r, z

\* A packet more.
LEMMA MoreIs ==
    ASSUME NEW s \in Seq(Packets), NEW m
    PROVE  /\ Len(s) \in Nat /\ Len(Append(s, m)) = Len(s) + 1 /\ Append(s, m)[Len(s) + 1] = m
           /\ \A i \in 1 .. Len(s) : Append(s, m)[i] = s[i]
           /\ \A i \in 1 .. Len(s) + 1 : i \in 1 .. Len(s) \/ i = Len(s) + 1
           /\ \A i \in 1 .. Len(s) : i \in 1 .. Len(s) + 1 /\ i # Len(s) + 1
<1>1. Len(s) \in Nat /\ Len(Append(s, m)) = Len(s) + 1 /\ Append(s, m)[Len(s) + 1] = m
      /\ \A i \in 1 .. Len(s) : Append(s, m)[i] = s[i]
  <2> HIDE DEF Packets
  <2> QED OBVIOUS
<1>2. \A i \in 1 .. Len(s) + 1 : i \in 1 .. Len(s) \/ i = Len(s) + 1
  BY <1>1
<1>3. \A i \in 1 .. Len(s) : i \in 1 .. Len(s) + 1 /\ i # Len(s) + 1
  BY <1>1
<1> QED BY <1>1, <1>2, <1>3

\* One more packet: whether the window is gone.
LEMMA GoneMore ==
    ASSUME NEW s \in Seq(Packets), NEW m, NEW r, r = Append(s, m), NEW w
    PROVE  /\ \A n \in 0 .. Len(s) : (Gone(r, n, w) <=> Gone(s, n, w))
           /\ Gone(r, Len(s) + 1, w)
                 <=> (Gone(s, Len(s), w) \/ (w.id # 0 /\ ~IsClick(m) /\ m.id = w.id))
<1> DEFINE l == Len(s)
<1>1. /\ l \in Nat /\ r[l + 1] = m /\ \A i \in 1 .. l : r[i] = s[i]
      /\ \A i \in 1 .. l + 1 : i \in 1 .. l \/ i = l + 1
      /\ \A i \in 1 .. l : i \in 1 .. l + 1 /\ i # l + 1
  BY MoreIs
<1> HIDE DEF l
<1>2. l + 1 \in 1 .. l + 1
  BY <1>1
<1>3. ASSUME NEW n \in 0 .. l PROVE (Gone(r, n, w) <=> Gone(s, n, w))
  <2>1. \A i \in 1 .. n : i \in 1 .. l
    BY <1>1
  <2> QED BY <1>1, <2>1 DEF Gone
<1>4. Gone(r, l + 1, w) <=> (Gone(s, l, w) \/ (w.id # 0 /\ ~IsClick(m) /\ m.id = w.id))
  BY <1>1, <1>2 DEF Gone
<1> QED BY <1>3, <1>4 DEF l

\* The client leaves the window it shows.
LEMMA RestsHides ==
    ASSUME NEW s \in Seq(Packets), NEW q \in Seq(Messages), NEW v \in Views, NEW w, NEW e,
           Rests(s, q, v, w, e), Differ(q, v)
    PROVE  Rests(Append(s, CloseIt(v.id)), q, Hidden(v), w, e)
<1> DEFINE m == CloseIt(v.id)
           r == Append(s, m)
           l == Len(s)
           h == Hidden(v)
<1>1. ~IsClick(m) /\ m.id = v.id
  BY DEF CloseIt, IsClick
<1>2. /\ l \in Nat /\ Len(r) = l + 1 /\ r[l + 1] = m /\ \A i \in 1 .. l : r[i] = s[i]
      /\ \A i \in 1 .. l + 1 : i \in 1 .. l \/ i = l + 1
      /\ \A i \in 1 .. l : i \in 1 .. l + 1 /\ i # l + 1
  BY MoreIs
<1>3. /\ \A n \in 0 .. l : (Gone(r, n, w) <=> Gone(s, n, w))
      /\ Gone(r, l + 1, w) <=> (Gone(s, l, w) \/ (w.id # 0 /\ ~IsClick(m) /\ m.id = w.id))
  <2> r = Append(s, m)
    OBVIOUS
  <2> HIDE DEF m, r
  <2> QED BY GoneMore
<1> HIDE DEF r, l, m
<1>4. NoClick(r) <=> NoClick(s)
  BY <1>1, <1>2 DEF NoClick, l
<1>5. ASSUME NoClick(r) PROVE Ends(q, h, w, e, Gone(r, Len(r), w))
  <2>1. Ends(q, v, w, e, Gone(s, l, w)) /\ Gone(s, l, w) \in BOOLEAN
    BY <1>4, <1>5, GoneIs DEF Rests, l
  <2>2. Ends(q, h, w, e, Gone(s, l, w) \/ (w.id # 0 /\ v.id = w.id))
    BY <2>1, EndsHides
  <2>3. Gone(r, Len(r), w) = (Gone(s, l, w) \/ (w.id # 0 /\ v.id = w.id))
    BY <1>1, <1>2, <1>3, GoneIs
  <2> QED BY <2>2, <2>3
<1>6. ASSUME NEW k \in 1 .. Len(r), OnlyClick(r, k) PROVE OneClick(r, k, h, w, e)
  <2>1. k # l + 1 /\ k \in 1 .. l
    BY <1>1, <1>2, <1>6 DEF OnlyClick
  <2>2. OnlyClick(s, k)
    BY <1>2, <1>6, <2>1 DEF OnlyClick, l
  <2>3. PICK u, mode, x, g : ClickSeen(s, k, v, w, e, u, mode, x, g)
    BY <2>1, <2>2 DEF Rests, OneClick, l
  <2>4. k - 1 \in 0 .. l
    BY <1>2, <2>1
  <2>5. r[k] = s[k] /\ Gone(r, k - 1, w) = Gone(s, k - 1, w) /\ k # Len(r)
    BY <1>2, <1>3, <2>1, <2>4, GoneIs
  <2> DEFINE y == [u EXCEPT !.cells = g]
  <2>6. y \in Views /\ y.id = u.id
    <3>1. u \in Views /\ u.kind \in Kinds \cup {"none"} /\ u.cells \in [Cell -> Stacks]
      BY <2>3, ViewIs DEF ClickSeen
    <3>2. g \in [Cell -> Stacks]
      BY <2>3, <3>1, ProposedIs DEF ClickSeen
    <3>3. y \in Views /\ y.id = u.id
      BY <3>1, <3>2, ViewShows, ViewIs
    <3> QED BY <3>3
  <2>7. h = Hidden(y) /\ r[k + 1] = CloseIt(u.id)
    <3>1. CASE k = l
      <4>1. v = y
        BY <2>3, <3>1 DEF ClickSeen, l
      <4>2. r[k + 1] = CloseIt(v.id)
        BY <1>2, <3>1 DEF m
      <4> HIDE DEF y
      <4> QED BY <2>6, <4>1, <4>2
    <3>2. CASE k # l
      <4>1. v = Hidden(y) /\ s[k + 1] = CloseIt(u.id)
        BY <2>3, <3>2 DEF ClickSeen, l
      <4>2. k + 1 \in 1 .. l
        BY <1>2, <2>1, <3>2
      <4>3. r[k + 1] = CloseIt(u.id)
        BY <1>2, <4>1, <4>2
      <4> HIDE DEF y
      <4>4. Hidden(y) \in Views /\ Hidden(y).id = 0
        BY <2>6, HiddenIs
      <4>5. \A b \in BoxCells : Hidden(y).cells[b] = Nothing
        BY <2>6, HiddenBox
      <4>6. Hidden(y) = Hidden(Hidden(y))
        BY <4>4, <4>5, HiddenSame
      <4> QED BY <4>1, <4>3, <4>6
    <3> QED BY <3>1, <3>2
  <2>8. ClickSeen(r, k, h, w, e, u, mode, x, g)
    BY <2>3, <2>5, <2>7 DEF ClickSeen
  <2> QED BY <2>8 DEF OneClick
<1>7. ~NoClick(r) => q = <<>>
  BY <1>4 DEF Rests
<1> HIDE DEF h
<1>8. Rests(r, q, h, w, e)
  BY <1>5, <1>6, <1>7 DEF Rests
<1> QED BY <1>8 DEF r, m, h

\* The client proposes, with nothing on the way to it.
LEMMA RestsProposed ==
    ASSUME NEW s \in Seq(Packets), NEW v \in Views, NEW w, NEW e, Rests(s, <<>>, v, w, e),
           NEW mode \in {"pickup", "quick", "throw"}, NEW x, NEW g, Proposal(v.kind, v.cells, mode, x, g)
    PROVE  Rests(Append(s, ClickOn(v.id, mode, x, v.cells, g)), <<>>, [v EXCEPT !.cells = g], w, e)
<1> DEFINE m == ClickOn(v.id, mode, x, v.cells, g)
           r == Append(s, m)
           l == Len(s)
           y == [v EXCEPT !.cells = g]
<1>1. IsClick(m)
  BY DEF ClickOn, IsClick
<1>2. /\ l \in Nat /\ Len(r) = l + 1 /\ r[l + 1] = m /\ \A i \in 1 .. l : r[i] = s[i]
      /\ \A i \in 1 .. l + 1 : i \in 1 .. l \/ i = l + 1
      /\ \A i \in 1 .. l : i \in 1 .. l + 1 /\ i # l + 1
  BY MoreIs
<1>3. \A n \in 0 .. l : (Gone(r, n, w) <=> Gone(s, n, w))
  <2> r = Append(s, m)
    OBVIOUS
  <2> HIDE DEF m, r
  <2> QED BY GoneMore
<1> HIDE DEF r, l
<1>4. l + 1 \in 1 .. l + 1 /\ (l + 1) - 1 = l /\ l \in 0 .. l
  BY <1>2
<1>5. ~NoClick(r)
  BY <1>1, <1>2, <1>4 DEF NoClick
<1>6. ASSUME NEW k \in 1 .. Len(r), OnlyClick(r, k) PROVE OneClick(r, k, y, w, e)
  <2>1. k = l + 1
    BY <1>1, <1>2, <1>4, <1>6 DEF OnlyClick
  <2>2. NoClick(s)
    BY <1>2, <1>6, <2>1 DEF OnlyClick, NoClick, l
  <2>3. Ends(<<>>, v, w, e, Gone(s, l, w))
    BY <2>2 DEF Rests, l
  <2>4. Shows(v, w, e, Gone(s, l, w))
    BY <2>3, EndsNone
  <2>5. Gone(r, k - 1, w) = Gone(s, l, w) /\ k = Len(r) /\ r[k] = m
    BY <1>2, <1>3, <1>4, <2>1, GoneIs
  <2>6. ClickSeen(r, k, y, w, e, v, mode, x, g)
    BY <2>4, <2>5 DEF ClickSeen
  <2> QED BY <2>6 DEF OneClick
<1> HIDE DEF y, m
<1>7. Rests(r, <<>>, y, w, e)
  BY <1>5, <1>6 DEF Rests
<1> QED BY <1>7 DEF r, m, y

\* Click m is one of a client that shows the window w and the inventory e, and
\* makes g of the inventory.
Drawn(m, w, e, g) ==
    \E u \in Views : \E mode \in {"pickup", "quick", "throw"} : \E x :
        /\ Proposal(u.kind, u.cells, mode, x, g)
        /\ m = ClickOn(u.id, mode, x, u.cells, g)
        /\ Shows(u, w, e, FALSE)

\* The server answers the only click with contents that are, of the inventory,
\* what the client drew.
LEMMA RestsAnswered ==
    ASSUME NEW s \in Seq(Packets), s # <<>>, OnlyClick(s, 1), NEW q, NEW v \in Views,
           NEW w, NEW e, Rests(s, q, v, w, e),
           NEW m \in Messages, m.type = "contents", m.id = Head(s).id, NEW z, NEW f,
           m.id = 0 => z = w /\ \A y \in InvCells : m.cells[y] = f[y],
           m.id # 0 => /\ z.id = w.id /\ z.kind = w.kind /\ \A y \in BoxCells : z.box[y] = m.cells[y]
                       /\ \A y \in SharedCells : m.cells[y] = f[y]
                       /\ \A g : Drawn(Head(s), w, e, g) => \A y \in InvCells : f[y] = g[y]
    PROVE  Rests(Tail(s), q \o <<m>>, v, z, f)
<1> DEFINE r == Tail(s)
           l == Len(s)
<1>1. /\ l \in Nat \ {0} /\ Len(r) = l - 1 /\ Head(s) = s[1] /\ \A i \in 1 .. l - 1 : r[i] = s[i + 1]
      /\ 1 \in 1 .. l
  BY TailIs
<1>2. NoClick(r) /\ ~NoClick(s)
  BY <1>1, TailClicks DEF NoClick, OnlyClick
<1>3. q = <<>>
  BY <1>2 DEF Rests
<1>4. PICK u, mode, x, g : ClickSeen(s, 1, v, w, e, u, mode, x, g)
  BY <1>1 DEF Rests, OneClick
<1>5. Gone(s, 1 - 1, w) = FALSE
  BY DEF Gone
<1>6. Shows(u, w, e, FALSE) /\ u \in Views /\ s[1] = ClickOn(u.id, mode, x, u.cells, g)
      /\ mode \in {"pickup", "quick", "throw"} /\ Proposal(u.kind, u.cells, mode, x, g)
  BY <1>4, <1>5 DEF ClickSeen
<1>7. m.id = u.id
  BY <1>1, <1>6 DEF ClickOn
<1> DEFINE y == [u EXCEPT !.cells = g]
           gone == Gone(r, Len(r), w)
<1>8. y \in Views /\ y.id = u.id /\ y.kind = u.kind /\ y.cells = g
  <2>1. u.kind \in Kinds \cup {"none"} /\ u.cells \in [Cell -> Stacks]
        /\ u = [id |-> u.id, kind |-> u.kind, cells |-> u.cells]
    BY <1>6, ViewIs
  <2>2. g \in [Cell -> Stacks]
    BY <1>6, <2>1, ProposedIs
  <2>3. y \in Views
    BY <1>6, <2>2, ViewShows
  <2>4. y = [id |-> u.id, kind |-> u.kind, cells |-> g]
    BY <2>1
  <2> QED BY <2>3, <2>4
<1>9. (l = 1 => v = y) /\ (l # 1 => v = Hidden(y) /\ s[2] = CloseIt(u.id))
  BY <1>4 DEF ClickSeen
<1> HIDE DEF r, y
<1>10. u.id = w.id
  BY <1>6 DEF Shows
<1>11. v.id = (IF gone THEN 0 ELSE w.id) /\ (v.id # 0 => v = y)
       /\ \A b \in InvCells : v.cells[b] = g[b]
  <2>1. CASE l = 1
    <3>1. gone = FALSE
      BY <1>1, <2>1 DEF Gone
    <3> QED BY <1>8, <1>9, <1>10, <2>1, <3>1
  <2>2. CASE l # 1
    <3>1. v.id = 0 /\ \A b \in InvCells : v.cells[b] = g[b]
      BY <1>8, <1>9, <2>2, HiddenIs
    <3>2. 1 \in 1 .. l - 1 /\ 1 \in 1 .. Len(r) /\ 1 + 1 = 2
      BY <1>1, <2>2
    <3>3. r[1] = CloseIt(w.id)
      BY <1>1, <1>9, <1>10, <2>2, <3>2
    <3>4. ~IsClick(r[1]) /\ r[1].id = w.id
      BY <3>3 DEF CloseIt, IsClick
    <3>5. gone \/ w.id = 0
      BY <3>2, <3>4 DEF Gone
    <3> QED BY <3>1, <3>5
  <2> QED BY <2>1, <2>2
<1>12. Ends(<<>> \o <<m>>, v, z, f, Gone(r, Len(r), z))
  <2>1. CASE m.id = 0
    <3>1. Shows(v, w, v.cells, gone)
      BY <1>7, <1>10, <1>11, <2>1 DEF Shows
    <3>2. \A t \in Views : Shows(t, w, v.cells, gone) => NoNews(m, t) /\ Shows(Taken(m, t), z, f, gone)
      BY <2>1, OwnShown
    <3>3. gone = Gone(r, Len(r), z)
      BY <2>1
    <3> HIDE DEF gone
    <3>4. Ends(<<>>, v, w, v.cells, gone)
      BY <3>1, EndsNone
    <3>5. <<>> \in Seq(Messages)
      <4> HIDE DEF Messages
      <4> QED OBVIOUS
    <3>6. Ends(<<>> \o <<m>>, v, z, f, gone)
      BY <3>2, <3>4, <3>5, EndsMore
    <3> QED BY <3>3, <3>6
  <2>2. CASE m.id # 0
    <3> DEFINE a == [id |-> w.id, kind |-> w.kind, box |-> y.cells]
    <3>1. a.id = w.id /\ a.kind = w.kind /\ a.box = y.cells
      OBVIOUS
    <3> HIDE DEF a
    <3>2. Shows(v, a, v.cells, gone)
      <4>1. v.id # 0 => v.kind = w.kind /\ \A b \in BoxCells : v.cells[b] = a.box[b]
        BY <1>6, <1>7, <1>8, <1>11, <2>2, <3>1 DEF Shows
      <4> QED BY <1>11, <3>1, <4>1 DEF Shows
    <3>3. Drawn(Head(s), w, e, g)
      BY <1>1, <1>6 DEF Drawn
    <3>4. \A b \in InvCells : f[b] = v.cells[b]
      BY <1>11, <2>2, <3>3
    <3>5. \A b \in SharedCells : m.cells[b] = v.cells[b]
      BY <2>2, <3>4, SharedAre
    <3>6. z.id = a.id /\ z.kind = a.kind /\ m.id = a.id /\ \A b \in BoxCells : z.box[b] = m.cells[b]
      BY <1>7, <1>10, <2>2, <3>1
    <3>7. ASSUME NEW t \in Views, Shows(t, a, v.cells, gone) PROVE NoNews(m, t) /\ Shows(Taken(m, t), z, f, gone)
      <4>1. NoNews(m, t) /\ Shows(Taken(m, t), z, v.cells, gone)
        <5> HIDE DEF gone
        <5> QED BY <2>2, <3>5, <3>6, <3>7, WindowShown
      <4> QED BY <3>4, <4>1 DEF Shows
    <3>8. gone <=> Gone(r, Len(r), z)
      BY <2>2 DEF Gone
    <3>9. gone = Gone(r, Len(r), z)
      BY <3>8, GoneIs
    <3> HIDE DEF gone
    <3>10. Ends(<<>>, v, a, v.cells, gone)
      BY <3>2, EndsNone
    <3>11. <<>> \in Seq(Messages)
      <4> HIDE DEF Messages
      <4> QED OBVIOUS
    <3>12. Ends(<<>> \o <<m>>, v, z, f, gone)
      BY <3>7, <3>10, <3>11, EndsMore
    <3> QED BY <3>9, <3>12
  <2> QED BY <2>1, <2>2
<1>13. Rests(r, <<>> \o <<m>>, v, z, f)
  BY <1>2, <1>12, Quiet
<1> QED BY <1>3, <1>13 DEF r

-----------------------------------------------------------------------------
(* The clients that are not mistaken, through every step.                  *)

\* What holds of every connection: on is its life.
Still(on, s, q, v, w) ==
    /\ on # "on" => s = <<>> /\ q = <<>> /\ v.id = 0
    /\ on = "off" => w = Closed
    /\ Differ(q, v)
RestOf(c) ==
    /\ Still(life[c], clicks[c], syncs[c], view[c], win[c])
    /\ c \in dead => win[c] = Closed
    /\ life[c] = "on" /\ c \notin crossed => Rests(clicks[c], syncs[c], view[c], win[c], inv[c])
RestInv == \A c \in Conn : RestOf(c)

\* Client d is left alone.
Spared(d) ==
    /\ life'[d] = life[d] /\ clicks'[d] = clicks[d] /\ syncs'[d] = syncs[d] /\ view'[d] = view[d]
    /\ win'[d] = win[d] /\ inv'[d] = inv[d] /\ (d \in dead' => d \in dead) /\ (d \in crossed => d \in crossed')

\* A client that is left alone stays as it was.
LEMMA SparedRests == ASSUME NEW d, RestOf(d), Spared(d) PROVE RestOf(d)'
BY DEF RestOf, Spared

\* It is enough to look at the one client of a step.
LEMMA OneRests ==
    ASSUME RestInv, NEW c \in Conn, \A d \in Conn : d # c => Spared(d), RestOf(c)'
    PROVE  RestInv'
BY SparedRests DEF RestInv

\* Messages that open nothing keep the opens apart.
LEMMA DifferMore ==
    ASSUME NEW q \in Seq(Messages), NEW v, Differ(q, v), NEW ms \in Seq(Messages), NoOpens(ms)
    PROVE  Differ(q \o ms, v)
<1> DEFINE r == q \o ms
           l == Len(q)
<1>1. /\ l \in Nat /\ Len(r) = l + Len(ms) /\ Len(ms) \in Nat
      /\ \A i \in 1 .. Len(r) : r[i] = IF i <= l THEN q[i] ELSE ms[i - l]
  <2> HIDE DEF Messages
  <2> QED OBVIOUS
<1> HIDE DEF r
<1>2. ASSUME NEW i \in 1 .. Len(r), r[i].type = "open" PROVE i \in 1 .. l /\ r[i] = q[i]
  <2>1. CASE i <= l
    BY <1>1, <2>1
  <2>2. CASE ~(i <= l)
    <3>1. i - l \in 1 .. Len(ms) /\ r[i] = ms[i - l]
      BY <1>1, <2>2
    <3> QED BY <1>2, <3>1 DEF NoOpens
  <2> QED BY <2>1, <2>2
<1> HIDE DEF l
<1>3. \A i, j \in 1 .. Len(r) : i # j /\ r[i].type = "open" /\ r[j].type = "open" => r[i].id # r[j].id
  BY <1>2 DEF Differ, l
<1>4. \A i \in 1 .. Len(r) : r[i].type = "open" /\ v.id # 0 => r[i].id # v.id
  BY <1>2 DEF Differ, l
<1> QED BY <1>3, <1>4 DEF Differ, r

\* No messages hold no two opens.
LEMMA DifferNone == ASSUME NEW v PROVE Differ(<<>>, v)
BY DEF Differ

\* Who is mistaken after something was sent to c.
LEMMA SentCrosses ==
    ASSUME NEW c \in Conn, NEW rest, NEW ms, SendTo(c, rest, ms)
    PROVE  /\ \A d \in Conn : d \in crossed => d \in crossed'
           /\ c \notin crossed' => c \notin crossed /\ (ms = <<>> \/ NoClick(rest[c]))
<1> DEFINE sent == [d \in Conn |-> IF d = c THEN ms ELSE <<>>]
<1>1. Send(rest, sent) /\ sent[c] = ms
  BY DEF SendTo
<1> HIDE DEF sent
<1>2. crossed' = crossed \cup {d \in Conn : sent[d] # <<>> /\ \E i \in 1 .. Len(rest[d]) : IsClick(rest[d][i])}
  BY <1>1 DEF Send
<1> QED BY <1>1, <1>2 DEF NoClick

\* A step that sends the messages ms to c, with rest left of the packets.
LEMMA SendRests ==
    ASSUME Typed, RestInv, NEW c \in Conn, NEW rest, rest = clicks \/ (clicks[c] # <<>> /\ rest = Rest(c)),
           NEW ms \in Seq(Messages), SendTo(c, rest, ms), Differ(syncs[c] \o ms, view[c]),
           life[c] = "on", life' = life,
           \A d \in Conn : d # c => win'[d] = win[d] /\ inv'[d] = inv[d] /\ (d \in dead' => d \in dead),
           c \in dead' => win'[c] = Closed,
           c \notin crossed /\ (ms = <<>> \/ NoClick(rest[c]))
               => Rests(rest[c], syncs[c] \o ms, view[c], win'[c], inv'[c])
    PROVE  RestInv'
<1>1. ClientsTyped
  BY DEF Typed
<1>2. /\ clicks' = rest /\ view' = view /\ syncs'[c] = syncs[c] \o ms
      /\ \A d \in Conn : d # c => syncs'[d] = syncs[d]
  BY <1>1, SentTo
<1>3. /\ \A d \in Conn : d \in crossed => d \in crossed'
      /\ c \notin crossed' => c \notin crossed /\ (ms = <<>> \/ NoClick(rest[c]))
  BY SentCrosses
<1>4. ASSUME NEW d \in Conn, d # c PROVE Spared(d)
  <2>1. rest[d] = clicks[d]
    BY <1>1, <1>4, RestTyped
  <2> QED BY <1>2, <1>3, <1>4, <2>1 DEF Spared
<1>5. RestOf(c)'
  <2>1. Still(life'[c], rest[c], syncs[c] \o ms, view[c], win'[c])
    BY DEF Still
  <2>2. c \notin crossed' => Rests(rest[c], syncs[c] \o ms, view[c], win'[c], inv'[c])
    BY <1>3
  <2> QED BY <1>2, <2>1, <2>2 DEF RestOf
<1> QED BY <1>4, <1>5, OneRests

\* No connection, no window and no message at first.
LEMMA InitRests == Init => RestInv
<1> SUFFICES ASSUME Init, NEW c \in Conn PROVE RestOf(c)
  BY DEF RestInv
<1>1. clicks[c] = <<>> /\ syncs[c] = <<>> /\ view[c].id = 0 /\ win[c] = Closed /\ life[c] = "off" /\ dead = {}
  BY DEF Init
<1> QED BY <1>1, DifferNone DEF RestOf, Still

\* A stutter keeps RestInv.
LEMMA SameRests == ASSUME RestInv, UNCHANGED vars PROVE RestInv'
<1>1. \A d \in Conn : Spared(d)
  BY DEF Spared, vars, serverVars, clientVars
<1> QED BY <1>1, SparedRests DEF RestInv

\* Join keeps RestInv.
LEMMA JoinRests == ASSUME Typed, RestInv, NEW c \in Conn, Join(c) PROVE RestInv'
<1> DEFINE f == WithResult(file[c].inv, "result", "grid")
           m == Contents(0, f)
           v == view[c]
<1>1. /\ life[c] = "off" /\ life' = [life EXCEPT ![c] = "on"] /\ syncs' = [syncs EXCEPT ![c] = <<m>>]
      /\ inv' = [inv EXCEPT ![c] = f]
      /\ UNCHANGED <<win, dead, view, clicks, crossed>>
  BY DEF Join
<1>2. file[c].inv \in [InvCells -> Stacks] /\ f \in [InvCells -> Stacks] /\ 0 \in 0 .. Ids
  BY InventoryCells, Sizes DEF Typed, GoodsTyped, Inventories
<1>3. <<m>> \in Seq(Messages) /\ NoOpens(<<m>>)
  BY <1>2, ContentsTyped, ContentsAre
<1>4. m \in Messages /\ m.type = "contents" /\ m.id = 0 /\ \A y \in InvCells : m.cells[y] = f[y]
  <2>1. m \in Messages
    <3> HIDE DEF m, Messages
    <3>1. <<m>>[1] \in Messages
      BY <1>3
    <3> QED BY <3>1
  <2>2. m.cells = Restrict(f, InvCells) /\ m.type = "contents" /\ m.id = 0
    BY DEF Contents
  <2>3. \A y \in InvCells : Restrict(f, InvCells)[y] = f[y]
    BY <1>2 DEF Restrict
  <2> QED BY <2>1, <2>2, <2>3
<1> HIDE DEF m, f
<1>5. /\ life'[c] = "on" /\ syncs'[c] = <<m>> /\ inv'[c] = f
      /\ \A d \in Conn : d # c => Spared(d)
  BY <1>1 DEF Typed, LifeTyped, ClientsTyped, GoodsTyped, Spared
<1>6. clicks[c] = <<>> /\ syncs[c] = <<>> /\ v.id = 0 /\ win[c] = Closed /\ v \in Views
  BY <1>1 DEF RestInv, RestOf, Still, Typed, ClientsTyped
<1>7. Rests(<<>>, <<m>>, v, Closed, f)
  <2>1. <<>> \in Seq(Messages) /\ NoClick(<<>>) /\ <<>> \o <<m>> = <<m>> /\ Gone(<<>>, Len(<<>>), Closed) = FALSE
    <3>1. <<>> \in Seq(Messages) /\ <<>> \o <<m>> = <<m>>
      <4> HIDE DEF Messages
      <4> QED BY <1>4
    <3>2. NoClick(<<>>)
      BY DEF NoClick
    <3>3. Gone(<<>>, Len(<<>>), Closed) = FALSE
      BY ClosedIs DEF Gone
    <3> QED BY <3>1, <3>2, <3>3
  <2>2. Shows(v, Closed, v.cells, FALSE)
    BY <1>6, ClosedIs DEF Shows
  <2>3. Ends(<<>>, v, Closed, v.cells, FALSE)
    BY <1>6, <2>2, EndsNone
  <2>4. \A u \in Views : Shows(u, Closed, v.cells, FALSE) => NoNews(m, u) /\ Shows(Taken(m, u), Closed, f, FALSE)
    BY <1>4, OwnShown
  <2>5. Ends(<<>> \o <<m>>, v, Closed, f, FALSE)
    BY <1>4, <2>1, <2>3, <2>4, EndsMore
  <2>6. Ends(<<m>>, v, Closed, f, Gone(<<>>, Len(<<>>), Closed))
    BY <2>1, <2>5
  <2> QED BY <2>1, <2>6, Quiet
<1>8. Differ(<<m>>, v)
  BY <1>4 DEF Differ
<1>9. RestOf(c)'
  BY <1>1, <1>5, <1>6, <1>7, <1>8 DEF RestOf, Still
<1> QED BY <1>5, <1>9, OneRests

\* Disconnect keeps RestInv.
LEMMA DisconnectRests == ASSUME Typed, RestInv, NEW c \in Conn, Disconnect(c) PROVE RestInv'
<1> DEFINE v == [id |-> 0, kind |-> "none", cells |-> Over(EmptyInv, EmptyBox)]
<1>1. /\ life' = [life EXCEPT ![c] = "closing"] /\ clicks' = [clicks EXCEPT ![c] = <<>>]
      /\ syncs' = [syncs EXCEPT ![c] = <<>>] /\ view' = [view EXCEPT ![c] = v]
      /\ crossed' = crossed \ {c} /\ UNCHANGED <<win, inv, dead>>
  BY DEF Disconnect
<1>2. v.id = 0
  OBVIOUS
<1> HIDE DEF v
<1>3. /\ life'[c] = "closing" /\ syncs'[c] = <<>> /\ clicks'[c] = <<>> /\ view'[c] = v
      /\ \A d \in Conn : d # c => Spared(d)
  BY <1>1 DEF Typed, LifeTyped, ClientsTyped, Spared
<1>4. c \in dead => win[c] = Closed
  BY DEF RestInv, RestOf
<1>5. RestOf(c)'
  BY <1>1, <1>2, <1>3, <1>4, DifferNone DEF RestOf, Still
<1> QED BY <1>3, <1>5, OneRests

\* Cleanup keeps RestInv.
LEMMA CleanupRests == ASSUME Typed, RestInv, NEW c \in Conn, Cleanup(c) PROVE RestInv'
<1>1. /\ life[c] = "closing" /\ life' = [life EXCEPT ![c] = "off"] /\ win' = [win EXCEPT ![c] = Closed]
      /\ inv' = [inv EXCEPT ![c] = EmptyInv] /\ dead' = dead \ {c} /\ UNCHANGED <<view, clicks, syncs, crossed>>
  BY DEF Cleanup, clientVars
<1>2. /\ life'[c] = "off" /\ win'[c] = Closed
      /\ \A d \in Conn : d # c => Spared(d)
  BY <1>1 DEF Typed, LifeTyped, WorldTyped, GoodsTyped, Spared
<1>3. clicks[c] = <<>> /\ syncs[c] = <<>> /\ view[c].id = 0 /\ Differ(syncs[c], view[c])
  BY <1>1 DEF RestInv, RestOf, Still
<1>4. RestOf(c)'
  BY <1>1, <1>2, <1>3 DEF RestOf, Still
<1> QED BY <1>2, <1>4, OneRests

\* Nothing of what a client sees changes.
LEMMA WorldRests ==
    ASSUME RestInv, UNCHANGED <<win, inv, life, dead, clientVars>>
    PROVE  RestInv'
<1>1. \A d \in Conn : Spared(d)
  BY DEF Spared, clientVars
<1> QED BY <1>1, SparedRests DEF RestInv

\* PlaceContainer keeps RestInv.
LEMMA PlaceRests ==
    ASSUME RestInv, NEW p \in Pos, NEW kind \in Kinds, PlaceContainer(p, kind) PROVE RestInv'
BY WorldRests DEF PlaceContainer

\* SmeltStored keeps RestInv.
LEMMA SmeltStoredRests == ASSUME RestInv, NEW p \in Pos, SmeltStored(p) PROVE RestInv'
BY WorldRests DEF SmeltStored

\* Receive keeps RestInv.
LEMMA ReceiveRests == ASSUME Typed, RestInv, NEW c \in Conn, Receive(c) PROVE RestInv'
<1> DEFINE q == syncs[c]
           v == view[c]
           m == Head(q)
<1>1. ClientsTyped
  BY DEF Typed
<1>2. /\ q # <<>> /\ m \in Messages
      /\ view' = [view EXCEPT ![c] = Taken(m, v)]
      /\ syncs' = [syncs EXCEPT ![c] = Tail(@)]
      /\ UNCHANGED <<serverVars, clicks, crossed>>
  BY <1>1, ReceiveIs
<1>3. v \in Views /\ q \in Seq(Messages)
  BY <1>1 DEF ClientsTyped
<1>4. /\ view'[c] = Taken(m, v) /\ syncs'[c] = Tail(q) /\ \A d \in Conn : d # c => Spared(d)
  BY <1>1, <1>2 DEF ClientsTyped, Spared, serverVars
<1>5. RestOf(c)
  BY DEF RestInv
<1> HIDE DEF m
<1>6. Differ(Tail(q), Taken(m, v))
  <2> DEFINE r == Tail(q)
             n == Len(q)
             u == Taken(m, v)
  <2>1. n \in Nat \ {0} /\ Len(r) = n - 1 /\ m = q[1] /\ \A i \in 1 .. n - 1 : r[i] = q[i + 1]
    <3> HIDE DEF Messages
    <3> QED BY <1>2, <1>3 DEF m
  <2>2. \A i \in 1 .. n - 1 : i + 1 \in 1 .. n /\ i + 1 # 1 /\ i \in Nat
    BY <2>1
  <2>3. 1 \in 1 .. n
    BY <2>1
  <2>4. \/ m.type = "open" /\ u.id = m.id
        \/ u.id = v.id
        \/ u.id = 0
    BY <1>2, <1>3, TakenIs, HiddenIs DEF Messages
  <2>5. Differ(q, v)
    BY <1>5 DEF RestOf, Still
  <2> HIDE DEF r, n, u, q
  <2>6. \A i, j \in 1 .. n - 1 : i # j /\ r[i].type = "open" /\ r[j].type = "open" => r[i].id # r[j].id
    <3> SUFFICES ASSUME NEW i \in 1 .. n - 1, NEW j \in 1 .. n - 1, i # j, r[i].type = "open", r[j].type = "open"
                 PROVE  r[i].id # r[j].id
      OBVIOUS
    <3>1. i + 1 # j + 1
      BY <2>2
    <3> QED BY <2>1, <2>2, <2>5, <3>1 DEF Differ, n
  <2>7. \A i \in 1 .. n - 1 : r[i].type = "open" /\ u.id # 0 => r[i].id # u.id
    BY <2>1, <2>2, <2>3, <2>4, <2>5 DEF Differ, n
  <2> QED BY <2>1, <2>6, <2>7 DEF Differ, r, u, q
<1>7. life[c] = "on"
  BY <1>2, <1>5 DEF RestOf, Still
<1>8. c \notin crossed => Rests(clicks[c], Tail(q), Taken(m, v), win[c], inv[c])
  <2> HIDE DEF q, v
  <2>1. c \notin crossed => Rests(clicks[c], q, v, win[c], inv[c])
    BY <1>5, <1>7 DEF RestOf, q, v
  <2> QED BY <1>2, <1>3, <2>1, RestsReceived DEF m
<1>9. RestOf(c)'
  <2> HIDE DEF q, v
  <2> QED BY <1>2, <1>4, <1>5, <1>6, <1>7, <1>8 DEF RestOf, Still, serverVars
<1> QED BY <1>4, <1>9, OneRests

\* Ignore keeps RestInv.
LEMMA IgnoreRests == ASSUME Typed, RestInv, NEW c \in Conn, Ignore(c) PROVE RestInv'
<1> DEFINE s == clicks[c]
           m == Head(s)
           w == win[c]
<1>1. /\ life[c] = "on" /\ s # <<>> /\ (c \in dead \/ ~Current(c, m))
      /\ crossed' = IF IsClick(m) THEN crossed \cup {c} ELSE crossed
      /\ clicks' = Rest(c) /\ UNCHANGED <<serverVars, view, syncs>>
  BY DEF Ignore
<1>2. ClientsTyped /\ w \in Windows
  BY DEF Typed, WorldTyped
<1>3. /\ clicks'[c] = Tail(s) /\ (\A d \in Conn : d # c => clicks'[d] = clicks[d])
      /\ s \in Seq(Packets) /\ syncs[c] \in Seq(Messages)
  BY <1>1, <1>2, RestTyped DEF ClientsTyped
<1>4. \A d \in Conn : d # c => Spared(d)
  BY <1>1, <1>3 DEF Spared, serverVars
<1>5. RestOf(c)
  BY DEF RestInv
<1>6. c \notin crossed' => Rests(Tail(s), syncs[c], view[c], w, inv[c])
  <2> SUFFICES ASSUME c \notin crossed' PROVE Rests(Tail(s), syncs[c], view[c], w, inv[c])
    OBVIOUS
  <2>1. ~IsClick(m) /\ c \notin crossed
    BY <1>1
  <2>2. Rests(s, syncs[c], view[c], w, inv[c])
    BY <1>1, <1>5, <2>1 DEF RestOf
  <2>3. After(m.id, w) = w
    <3>1. CASE c \in dead
      BY <1>5, <3>1 DEF RestOf, After
    <3>2. CASE ~Current(c, m)
      BY <3>2 DEF Current, Open, After
    <3> QED BY <1>1, <3>1, <3>2
  <2> HIDE DEF s, w
  <2>4. Rests(Tail(s), syncs[c], view[c], After(m.id, w), inv[c])
    BY <1>1, <1>3, <2>1, <2>2, RestsClosed
  <2> QED BY <2>3, <2>4
<1>7. RestOf(c)'
  <2>1. Still(life'[c], clicks'[c], syncs'[c], view'[c], win'[c])
    BY <1>1, <1>5 DEF RestOf, Still, serverVars
  <2> QED BY <1>1, <1>3, <1>5, <1>6, <2>1 DEF RestOf, serverVars
<1> QED BY <1>4, <1>7, OneRests

\* CloseScreen keeps RestInv.
LEMMA CloseScreenRests ==
    ASSUME Typed, RestInv, NEW c \in Conn, life[c] = "on", CloseScreen(c) PROVE RestInv'
<1> DEFINE s == clicks[c]
           v == view[c]
           r == Append(s, CloseIt(v.id))
<1>1. /\ clicks' = [clicks EXCEPT ![c] = r] /\ view' = [view EXCEPT ![c] = Hidden(v)]
      /\ UNCHANGED <<serverVars, syncs, crossed>>
  BY DEF CloseScreen
<1>2. s \in Seq(Packets) /\ syncs[c] \in Seq(Messages) /\ v \in Views
  BY DEF Typed, ClientsTyped
<1> HIDE DEF r
<1>3. clicks'[c] = r /\ view'[c] = Hidden(v) /\ \A d \in Conn : d # c => Spared(d)
  BY <1>1 DEF Typed, ClientsTyped, Spared, serverVars
<1>4. RestOf(c)
  BY DEF RestInv
<1>5. Differ(syncs[c], v) /\ Hidden(v).id = 0
  BY <1>2, <1>4, HiddenIs DEF RestOf, Still
<1>6. Differ(syncs[c], Hidden(v))
  BY <1>5 DEF Differ
<1>7. c \notin crossed => Rests(r, syncs[c], Hidden(v), win[c], inv[c])
  <2>1. c \notin crossed => Rests(s, syncs[c], v, win[c], inv[c])
    BY <1>4 DEF RestOf
  <2> HIDE DEF s, v
  <2> QED BY <1>2, <1>5, <2>1, RestsHides DEF r
<1>8. RestOf(c)'
  <2>1. Still(life'[c], clicks'[c], syncs'[c], view'[c], win'[c])
    BY <1>1, <1>3, <1>6 DEF Still, serverVars
  <2> QED BY <1>1, <1>3, <1>4, <1>7, <2>1 DEF RestOf, serverVars
<1> QED BY <1>3, <1>8, OneRests

\* Propose keeps RestInv.
LEMMA ProposeRests ==
    ASSUME Typed, RestInv, NEW c \in Conn, life[c] = "on",
           NEW mode \in {"pickup", "quick", "throw"}, NEW x, NEW g,
           Proposal(view[c].kind, view[c].cells, mode, x, g), Propose(c, mode, x, g)
    PROVE  RestInv'
<1> DEFINE s == clicks[c]
           v == view[c]
           r == Append(s, ClickOn(v.id, mode, x, v.cells, g))
           u == [v EXCEPT !.cells = g]
<1>1. /\ clicks' = [clicks EXCEPT ![c] = r] /\ view' = [view EXCEPT ![c] = u]
      /\ crossed' = IF syncs[c] = <<>> THEN crossed ELSE crossed \cup {c}
      /\ UNCHANGED <<serverVars, syncs>>
  BY ProposeIs
<1>2. s \in Seq(Packets) /\ syncs[c] \in Seq(Messages) /\ v \in Views
  BY DEF Typed, ClientsTyped
<1>3. u.id = v.id
  <2>1. v = [id |-> v.id, kind |-> v.kind, cells |-> v.cells]
    BY <1>2, ViewIs
  <2> HIDE DEF v
  <2> QED BY <2>1
<1> HIDE DEF r, u
<1>4. clicks'[c] = r /\ view'[c] = u /\ \A d \in Conn : d # c => Spared(d)
  BY <1>1 DEF Typed, ClientsTyped, Spared, serverVars
<1>5. RestOf(c)
  BY DEF RestInv
<1>6. Differ(syncs[c], u)
  BY <1>3, <1>5 DEF Differ, RestOf, Still
<1>7. c \notin crossed' => Rests(r, syncs[c], u, win[c], inv[c])
  <2> SUFFICES ASSUME c \notin crossed' PROVE Rests(r, syncs[c], u, win[c], inv[c])
    OBVIOUS
  <2>1. syncs[c] = <<>> /\ c \notin crossed
    BY <1>1
  <2>2. Rests(s, <<>>, v, win[c], inv[c])
    BY <1>5, <2>1 DEF RestOf
  <2>3. Proposal(v.kind, v.cells, mode, x, g)
    OBVIOUS
  <2> HIDE DEF s, v
  <2>4. Rests(r, <<>>, u, win[c], inv[c])
    BY <1>2, <2>2, <2>3, RestsProposed DEF r, u
  <2> QED BY <2>1, <2>4
<1>8. RestOf(c)'
  <2>1. Still(life'[c], clicks'[c], syncs'[c], view'[c], win'[c])
    BY <1>1, <1>4, <1>6 DEF Still, serverVars
  <2> QED BY <1>1, <1>4, <1>5, <1>7, <2>1 DEF RestOf, serverVars
<1> QED BY <1>4, <1>8, OneRests

\* Client keeps RestInv.
LEMMA ClientRests == ASSUME Typed, RestInv, NEW c \in Conn, Client(c) PROVE RestInv'
<1>1. ClientsTyped
  BY DEF Typed
<1>2. \/ Receive(c)
      \/ life[c] = "on" /\ CloseScreen(c)
      \/ /\ life[c] = "on"
         /\ \E mode \in {"pickup", "quick", "throw"} : \E x, g :
              Proposal(view[c].kind, view[c].cells, mode, x, g) /\ Propose(c, mode, x, g)
  BY <1>1, ClientIs
<1> QED BY <1>2, ReceiveRests, CloseScreenRests, ProposeRests

\* The contents message and the cells it carries.
LEMMA ContentsIs ==
    ASSUME NEW A, NEW f \in [A -> Stacks], NEW id \in 0 .. Ids,
           IF id = 0 THEN InvCells \subseteq A ELSE ContentCells \subseteq A
    PROVE  /\ Contents(id, f) \in Messages /\ <<Contents(id, f)>> \in Seq(Messages)
           /\ Contents(id, f).type = "contents" /\ Contents(id, f).id = id
           /\ id = 0 => \A x \in InvCells : Contents(id, f).cells[x] = f[x]
           /\ id # 0 => \A x \in ContentCells : Contents(id, f).cells[x] = f[x]
<1> DEFINE m == Contents(id, f)
<1>1. <<m>> \in Seq(Messages)
  BY ContentsTyped
<1>2. m.type = "contents" /\ m.id = id /\ m.cells = IF id = 0 THEN Restrict(f, InvCells)
                                                     ELSE Restrict(f, ContentCells)
  BY DEF Contents, ContentCells, MainCells
<1> HIDE DEF m
<1>3. m \in Messages
  <2> HIDE DEF Messages
  <2>1. <<m>>[1] \in Messages
    BY <1>1
  <2> QED BY <2>1
<1>4. \A y \in InvCells : Restrict(f, InvCells)[y] = f[y]
  BY DEF Restrict
<1>5. \A y \in ContentCells : Restrict(f, ContentCells)[y] = f[y]
  BY DEF Restrict
<1> QED BY <1>1, <1>2, <1>3, <1>4, <1>5 DEF m

\* The inventory is sent.
LEMMA OwnRests ==
    ASSUME NEW s, NoClick(s), NEW q \in Seq(Messages), NEW v, NEW w, NEW e, Rests(s, q, v, w, e),
           NEW A, InvCells \subseteq A, NEW f \in [A -> Stacks], NEW h, \A x \in InvCells : h[x] = f[x]
    PROVE  Rests(s, q \o <<Contents(0, f)>>, v, w, h)
<1> DEFINE m == Contents(0, f)
<1>1. m \in Messages /\ m.type = "contents" /\ m.id = 0 /\ \A x \in InvCells : m.cells[x] = h[x]
  BY Sizes, ContentsIs
<1> HIDE DEF m
<1>2. \A u \in Views : Shows(u, w, e, Gone(s, Len(s), w))
                       => NoNews(m, u) /\ Shows(Taken(m, u), w, h, Gone(s, Len(s), w))
  BY <1>1, OwnShown
<1> QED BY <1>1, <1>2, RestsMore DEF m

\* The contents of the open window are sent.
LEMMA WindowRests ==
    ASSUME NEW s, NoClick(s), NEW q \in Seq(Messages), NEW v, NEW w, NEW e, Rests(s, q, v, w, e),
           NEW f \in [Cell -> Stacks], w.id \in 1 .. Ids, \A x \in SharedCells : f[x] = e[x],
           NEW z, z.id = w.id, z.kind = w.kind, \A x \in BoxCells : z.box[x] = f[x]
    PROVE  Rests(s, q \o <<Contents(w.id, f)>>, v, z, e)
<1> DEFINE i == w.id
           m == Contents(i, f)
<1>1. i \in 0 .. Ids /\ i # 0 /\ ContentCells \subseteq Cell
  BY Sizes, ContentCellsAre
<1>2. m \in Messages /\ m.type = "contents" /\ m.id = i /\ \A x \in ContentCells : m.cells[x] = f[x]
  <2> HIDE DEF i
  <2> QED BY <1>1, ContentsIs
<1> HIDE DEF m
<1>3. (\A x \in SharedCells : m.cells[x] = e[x]) /\ \A x \in BoxCells : z.box[x] = m.cells[x]
  BY <1>2, SharedAre
<1>4. \A u \in Views : Shows(u, w, e, Gone(s, Len(s), w))
                       => NoNews(m, u) /\ Shows(Taken(m, u), z, e, Gone(s, Len(s), w))
  BY <1>1, <1>2, <1>3, WindowShown
<1>5. Gone(s, Len(s), w) <=> Gone(s, Len(s), z)
  BY DEF Gone
<1>6. Gone(s, Len(s), w) = Gone(s, Len(s), z)
  BY <1>5, GoneIs
<1> QED BY <1>2, <1>4, <1>6, RestsMore DEF m

\* What inventory c has after Save.
LEMMA SavedIs ==
    ASSUME GoodsTyped, NEW c \in Conn, NEW A, InvCells \subseteq A, NEW f \in [A -> Stacks],
           NEW e, Save(c, f, e)
    PROVE  /\ inv'[c] \in Inventories /\ \A x \in InvCells : inv'[c][x] = f[x]
           /\ \A d \in Conn : d # c => inv'[d] = inv[d]
<1>1. inv' = [inv EXCEPT ![c] = Restrict(f, InvCells)]
  BY DEF Save
<1>2. Restrict(f, InvCells) \in [InvCells -> Stacks] /\ \A x \in InvCells : Restrict(f, InvCells)[x] = f[x]
  BY DEF Restrict
<1>3. inv'[c] = Restrict(f, InvCells) /\ \A d \in Conn : d # c => inv'[d] = inv[d]
  BY <1>1 DEF GoodsTyped
<1> QED BY <1>2, <1>3 DEF Inventories

\* An inventory and the contents of a container.
LEMMA ShownOver ==
    ASSUME NEW e \in [InvCells -> Stacks], NEW b \in [BoxCells -> Stacks]
    PROVE  /\ Over(e, b) \in [Cell -> Stacks] /\ (\A x \in InvCells : Over(e, b)[x] = e[x])
           /\ \A x \in BoxCells : Over(e, b)[x] = b[x]
<1>1. \A x \in BoxCells : x \notin InvCells
  BY CellsAre
<1> QED BY <1>1 DEF Over, Cell

\* Respawn keeps RestInv.
LEMMA RespawnRests == ASSUME Typed, RestInv, NEW c \in Conn, Respawn(c) PROVE RestInv'
<1> DEFINE f == WithResult(inv[c], "result", "grid")
<1>1. /\ life[c] = "on" /\ c \in dead /\ clicks[c] = <<>> /\ dead' = dead \ {c}
      /\ Save(c, f, ender[c]) /\ SendTo(c, clicks, <<Contents(0, f)>>)
      /\ UNCHANGED <<block, be, win, lastId, ground, life>>
  BY DEF Respawn
<1>2. GoodsTyped /\ inv[c] \in [InvCells -> Stacks] /\ f \in [InvCells -> Stacks]
  BY InventoryCells DEF Typed, GoodsTyped, Inventories
<1> HIDE DEF f
<1>3. <<Contents(0, f)>> \in Seq(Messages) /\ NoOpens(<<Contents(0, f)>>)
  BY <1>2, ContentsIs, ContentsAre, Sizes
<1>4. /\ \A x \in InvCells : inv'[c][x] = f[x]
      /\ \A d \in Conn : d # c => inv'[d] = inv[d]
  BY <1>1, <1>2, SavedIs
<1>5. RestOf(c) /\ syncs[c] \in Seq(Messages)
  BY DEF RestInv, Typed, ClientsTyped
<1>6. Differ(syncs[c] \o <<Contents(0, f)>>, view[c])
  BY <1>3, <1>5, DifferMore DEF RestOf, Still
<1>7. c \notin crossed /\ NoClick(clicks[c])
      => Rests(clicks[c], syncs[c] \o <<Contents(0, f)>>, view[c], win'[c], inv'[c])
  <2> SUFFICES ASSUME c \notin crossed, NoClick(clicks[c])
               PROVE  Rests(clicks[c], syncs[c] \o <<Contents(0, f)>>, view[c], win[c], inv'[c])
    BY <1>1
  <2>1. Rests(clicks[c], syncs[c], view[c], win[c], inv[c])
    BY <1>1, <1>5 DEF RestOf
  <2> QED BY <1>2, <1>4, <1>5, <2>1, OwnRests
<1>8. /\ life' = life /\ c \notin dead'
      /\ \A d \in Conn : d # c => win'[d] = win[d] /\ inv'[d] = inv[d] /\ (d \in dead' => d \in dead)
  BY <1>1, <1>4
<1>9. c \notin crossed /\ (<<Contents(0, f)>> = <<>> \/ NoClick(clicks[c]))
      => Rests(clicks[c], syncs[c] \o <<Contents(0, f)>>, view[c], win'[c], inv'[c])
  BY <1>7
<1> QED BY <1>1, <1>3, <1>6, <1>8, <1>9, SendRests

\* PickUp keeps RestInv.
LEMMA PickUpRests == ASSUME Typed, RestInv, NEW c \in Conn, NEW i \in Items, PickUp(c, i) PROVE RestInv'
<1>1. PICK n \in 1 .. MaxStack : PickedUp(c, i, n)
  BY PickUpIs
<1> DEFINE g == WithResult(Absorb(Over(inv[c], [ground |-> Stack(i, n)]), "ground"), "result", "grid")
           D == InvCells \cup {"ground"}
<1>2. /\ g \in [D -> Stacks] /\ Save(c, g, ender[c]) /\ SendTo(c, clicks, <<Contents(0, g)>>)
      /\ life[c] = "on" /\ c \notin dead /\ UNCHANGED <<block, be, win, lastId, life, dead>>
  BY <1>1 DEF PickedUp
<1>3. InvCells \subseteq D /\ GoodsTyped
  BY DEF Typed
<1> HIDE DEF g, D
<1> DEFINE ms == <<Contents(0, g)>>
<1>4. ms \in Seq(Messages) /\ NoOpens(ms)
  BY <1>2, <1>3, ContentsIs, ContentsAre, Sizes
<1>5. /\ \A x \in InvCells : inv'[c][x] = g[x]
      /\ \A d \in Conn : d # c => inv'[d] = inv[d]
  BY <1>2, <1>3, SavedIs
<1>6. RestOf(c) /\ syncs[c] \in Seq(Messages)
  BY DEF RestInv, Typed, ClientsTyped
<1>7. ms # <<>>
  OBVIOUS
<1>8. c \notin crossed /\ NoClick(clicks[c]) => Rests(clicks[c], syncs[c] \o ms, view[c], win[c], inv'[c])
  <2> SUFFICES ASSUME c \notin crossed, NoClick(clicks[c])
               PROVE  Rests(clicks[c], syncs[c] \o ms, view[c], win[c], inv'[c])
    OBVIOUS
  <2>1. Rests(clicks[c], syncs[c], view[c], win[c], inv[c])
    BY <1>2, <1>6 DEF RestOf
  <2> QED BY <1>2, <1>3, <1>5, <1>6, <2>1, OwnRests
<1> HIDE DEF ms
<1>9. Differ(syncs[c] \o ms, view[c])
  BY <1>4, <1>6, DifferMore DEF RestOf, Still
<1>10. /\ life' = life /\ c \notin dead' /\ SendTo(c, clicks, ms)
       /\ \A d \in Conn : d # c => win'[d] = win[d] /\ inv'[d] = inv[d] /\ (d \in dead' => d \in dead)
  BY <1>2, <1>5 DEF ms
<1>11. c \notin crossed /\ (ms = <<>> \/ NoClick(clicks[c]))
       => Rests(clicks[c], syncs[c] \o ms, view[c], win'[c], inv'[c])
  BY <1>2, <1>7, <1>8
<1> QED BY <1>2, <1>4, <1>9, <1>10, <1>11, SendRests

\* SmeltOpen keeps RestInv.
LEMMA SmeltOpenRests == ASSUME Typed, RestInv, NEW c \in Conn, SmeltOpen(c) PROVE RestInv'
<1> DEFINE box == Smelted(win[c].box)
           f == Over(inv[c], box)
           ms == <<Contents(win[c].id, f)>>
           w == win[c]
           z == win'[c]
<1>1. /\ life[c] = "on" /\ w.id \in 1 .. Ids /\ box \in Boxes
      /\ z.id = w.id /\ z.kind = w.kind /\ z.box = box
      /\ \A d \in Conn : d # c => win'[d] = win[d]
      /\ SendTo(c, clicks, ms) /\ UNCHANGED <<block, be, lastId, inv, ender, file, ground, life, dead>>
  BY SmeltOpenIs
<1>2. inv[c] \in [InvCells -> Stacks] /\ box \in [BoxCells -> Stacks]
  BY <1>1 DEF Typed, GoodsTyped, Inventories, Boxes
<1> HIDE DEF box
<1>3. /\ f \in [Cell -> Stacks] /\ (\A x \in InvCells : f[x] = inv[c][x])
      /\ \A x \in BoxCells : f[x] = box[x]
  BY <1>2, ShownOver
<1> HIDE DEF f
<1>4. ms \in Seq(Messages) /\ NoOpens(ms) /\ ms # <<>>
  <2>1. w.id \in 0 .. Ids /\ w.id # 0
    BY <1>1, Sizes
  <2> QED BY <1>3, <2>1, ContentsIs, ContentsAre, ContentCellsAre
<1>5. RestOf(c) /\ syncs[c] \in Seq(Messages)
  BY DEF RestInv, Typed, ClientsTyped
<1>6. \A x \in SharedCells : f[x] = inv[c][x]
  BY <1>3, SharedAre
<1>7. c \notin crossed /\ NoClick(clicks[c]) => Rests(clicks[c], syncs[c] \o ms, view[c], z, inv[c])
  <2> SUFFICES ASSUME c \notin crossed, NoClick(clicks[c])
               PROVE  Rests(clicks[c], syncs[c] \o ms, view[c], z, inv[c])
    OBVIOUS
  <2>1. Rests(clicks[c], syncs[c], view[c], w, inv[c])
    BY <1>1, <1>5 DEF RestOf
  <2>2. \A x \in BoxCells : z.box[x] = f[x]
    BY <1>1, <1>3
  <2>3. ms = <<Contents(w.id, f)>>
    OBVIOUS
  <2>4. w.id \in 1 .. Ids /\ z.id = w.id /\ z.kind = w.kind
    BY <1>1
  <2> HIDE DEF ms, w, z
  <2>5. Rests(clicks[c], syncs[c] \o <<Contents(w.id, f)>>, view[c], z, inv[c])
    BY <1>3, <1>5, <1>6, <2>1, <2>2, <2>4, WindowRests
  <2> QED BY <2>3, <2>5
<1> HIDE DEF ms
<1>8. Differ(syncs[c] \o ms, view[c])
  BY <1>4, <1>5, DifferMore DEF RestOf, Still
<1>9. c \notin dead'
  <2>1. c \notin dead
    BY <1>1, <1>5, ClosedIs, Sizes DEF RestOf
  <2> QED BY <1>1, <2>1
<1>10. /\ life' = life
       /\ \A d \in Conn : d # c => win'[d] = win[d] /\ inv'[d] = inv[d] /\ (d \in dead' => d \in dead)
  BY <1>1
<1>11. c \notin crossed /\ (ms = <<>> \/ NoClick(clicks[c]))
       => Rests(clicks[c], syncs[c] \o ms, view[c], win'[c], inv'[c])
  BY <1>1, <1>4, <1>7
<1> QED BY <1>1, <1>4, <1>8, <1>9, <1>10, <1>11, SendRests

\* Appending one after the other.
LEMMA InThree ==
    ASSUME NEW S, NEW a \in Seq(S), NEW b \in Seq(S), NEW e \in Seq(S)
    PROVE  a \o b \in Seq(S) /\ (a \o b) \o e = a \o (b \o e)
OBVIOUS

\* The length of two sequences in a row.
LEMMA LenOf == ASSUME NEW S, NEW t \in Seq(S), NEW e \in Seq(S)
               PROVE  Len(t \o e) = Len(t) + Len(e) /\ Len(t) \in Nat
OBVIOUS

\* A sequence with something appended is not empty.
LEMMA LongerIs ==
    ASSUME NEW S, NEW t \in Seq(S), NEW e \in Seq(S), Len(e) = 1
    PROVE  t \o e # <<>>
<1>1. Len(t \o e) = Len(t) + Len(e) /\ Len(t) \in Nat
  BY LenOf
<1>2. Len(t \o e) # 0
  BY <1>1
<1> QED BY <1>2

\* The window is left: a table's grid goes back and the inventory is sent.
LEMMA LeaveRests ==
    ASSUME WorldTyped, GoodsTyped, NEW c \in Conn, NEW b,
           NEW s, NEW q \in Seq(Messages), NEW v, NEW w, Rests(s, q, v, w, inv[c]),
           Leave(c, b).sent = <<>> \/ NoClick(s),
           NEW h \in Inventories, \A x \in InvCells : h[x] = Leave(c, b).inv[x]
    PROVE  Rests(s, q \o Leave(c, b).sent, v, w, h)
<1> DEFINE f == Returned(Cells(c), "out", "in")
           g == WithResult(f, "result", "grid")
<1>1. CASE win[c].kind = "table"
  <2>1. Leave(c, b).inv = Restrict(g, InvCells) /\ Leave(c, b).sent = <<Contents(0, g)>>
    BY <1>1 DEF Leave
  <2>2. Cells(c) \in [Cell -> Stacks]
    BY CellsTyped
  <2>3. f \in [Cell -> Stacks]
    <3>1. f \in Moves(Cell, MainCells \cup {"in"}, {"out"}, Cells(c))
      <4>1. MainCells \subseteq Cell /\ "out" \in Cell \ MainCells /\ "in" \in Cell \ MainCells /\ "out" # "in"
        BY CellsAre
      <4> QED BY <2>2, <4>1, ReturnedIs
    <3> QED BY <3>1 DEF Moves
  <2> HIDE DEF f
  <2>4. g \in [Cell -> Stacks]
    <3>1. "grid" \in Cell
      BY CellsAre
    <3> QED BY <2>3, <3>1, WithResultIs
  <2> HIDE DEF g
  <2>5. \A x \in InvCells : h[x] = g[x]
    BY <2>1 DEF Restrict
  <2>6. InvCells \subseteq Cell /\ NoClick(s)
    BY <2>1, CellsAre
  <2>7. Rests(s, q \o <<Contents(0, g)>>, v, w, h)
    BY <2>4, <2>5, <2>6, OwnRests
  <2> QED BY <2>1, <2>7
<1>2. CASE win[c].kind # "table"
  <2>1. Leave(c, b).inv = inv[c] /\ Leave(c, b).sent = <<>>
    BY <1>2 DEF Leave
  <2>2. h = inv[c]
    BY <2>1 DEF GoodsTyped, Inventories
  <2>3. q \o <<>> = q
    <3> HIDE DEF Messages
    <3> QED OBVIOUS
  <2> QED BY <2>1, <2>2, <2>3
<1> QED BY <1>1, <1>2

\* The inventory of c after its window was left: it is saved where that may have
\* changed something.
LEMMA LeftSaved ==
    ASSUME WorldTyped, GoodsTyped, NEW c \in Conn, NEW b \in [Pos -> Boxes \cup {NoBox}], NEW e,
           IF win[c].kind \in {"table", "ender"} THEN Save(c, Leave(c, b).inv, e)
           ELSE UNCHANGED <<inv, ender, file>>
    PROVE  /\ inv'[c] \in Inventories /\ \A x \in InvCells : inv'[c][x] = Leave(c, b).inv[x]
           /\ \A d \in Conn : d # c => inv'[d] = inv[d]
<1>1. Leave(c, b).inv \in [InvCells -> Stacks]
  BY LeaveTyped DEF Inventories
<1>2. CASE win[c].kind \in {"table", "ender"}
  BY <1>1, <1>2, SavedIs
<1>3. CASE win[c].kind \notin {"table", "ender"}
  <2>1. Leave(c, b).inv = inv[c]
    BY <1>3 DEF Leave
  <2> QED BY <1>3, <2>1 DEF GoodsTyped
<1> QED BY <1>2, <1>3

\* HandleClose keeps RestInv.
LEMMA HandleCloseRests == ASSUME Typed, RestInv, NEW c \in Conn, HandleClose(c) PROVE RestInv'
<1> DEFINE s == clicks[c]
           m == Head(s)
           w == win[c]
           r == Rest(c)
           f == Emptied(Returned(inv[c], "result", "grid"), {"grid"})
           a == Leave(c, be)
<1>1. /\ life[c] = "on" /\ c \notin dead /\ s # <<>> /\ ~IsClick(m)
      /\ f \in [InvCells -> Stacks] /\ UNCHANGED <<block, lastId, life, dead>>
      /\ m.id = 0 => Save(c, f, ender[c]) /\ SendTo(c, r, <<Contents(0, f)>>) /\ win' = win
      /\ m.id # 0 => /\ win' = [win EXCEPT ![c] = Closed]
                     /\ IF w.kind \in {"table", "ender"} THEN Save(c, a.inv, ender[c])
                        ELSE UNCHANGED <<inv, ender, file>>
                     /\ SendTo(c, r, a.sent) /\ m.id = w.id
  BY HandleCloseIs
<1>2. /\ WorldTyped /\ GoodsTyped /\ ClientsTyped /\ be \in [Pos -> Boxes \cup {NoBox}]
      /\ syncs[c] \in Seq(Messages) /\ s \in Seq(Packets) /\ r[c] = Tail(s)
  BY <1>1, RestTyped DEF Typed, WorldTyped, ClientsTyped
<1>3. RestOf(c)
  BY DEF RestInv
<1>4. c \notin crossed => Rests(r[c], syncs[c], view[c], After(m.id, w), inv[c])
  <2>1. c \notin crossed => Rests(s, syncs[c], view[c], w, inv[c])
    BY <1>1, <1>3 DEF RestOf
  <2> HIDE DEF s, w
  <2> QED BY <1>1, <1>2, <2>1, RestsClosed
<1>5. \A d \in Conn : d \in dead' => d \in dead
  BY <1>1
<1> HIDE DEF f, a
<1>6. CASE m.id = 0
  <2> DEFINE ms == <<Contents(0, f)>>
  <2>1. ms \in Seq(Messages) /\ NoOpens(ms) /\ ms # <<>>
    BY <1>1, ContentsIs, ContentsAre, Sizes
  <2>2. /\ \A x \in InvCells : inv'[c][x] = f[x]
        /\ \A d \in Conn : d # c => inv'[d] = inv[d]
    <3>1. Save(c, f, ender[c]) /\ f \in [InvCells -> Stacks]
      BY <1>1, <1>6
    <3> QED BY <1>2, <3>1, SavedIs
  <2>3. After(m.id, w) = w
    BY <1>6 DEF After
  <2>4. c \notin crossed /\ NoClick(r[c]) => Rests(r[c], syncs[c] \o ms, view[c], w, inv'[c])
    <3> SUFFICES ASSUME c \notin crossed, NoClick(r[c])
                 PROVE  Rests(r[c], syncs[c] \o ms, view[c], w, inv'[c])
      OBVIOUS
    <3>1. Rests(r[c], syncs[c], view[c], w, inv[c])
      BY <1>4, <2>3
    <3> HIDE DEF w, r
    <3> QED BY <1>1, <1>2, <2>2, <3>1, OwnRests
  <2>5. SendTo(c, r, ms) /\ win' = win
    BY <1>1, <1>6
  <2> HIDE DEF ms
  <2>6. Differ(syncs[c] \o ms, view[c])
    BY <1>2, <1>3, <2>1, DifferMore DEF RestOf, Still
  <2>7. c \notin crossed /\ (ms = <<>> \/ NoClick(r[c]))
        => Rests(r[c], syncs[c] \o ms, view[c], win'[c], inv'[c])
    BY <2>1, <2>4, <2>5
  <2> QED BY <1>1, <1>5, <2>1, <2>2, <2>5, <2>6, <2>7, SendRests
<1>7. CASE m.id # 0
  <2> DEFINE ms == a.sent
  <2>1. ms \in Seq(Messages) /\ NoOpens(ms)
    BY <1>2, LeaveTyped, LeaveSends DEF a
  <2>2. /\ inv'[c] \in Inventories /\ \A x \in InvCells : inv'[c][x] = a.inv[x]
        /\ \A d \in Conn : d # c => inv'[d] = inv[d]
    BY <1>1, <1>2, <1>7, LeftSaved DEF a
  <2>3. After(m.id, w) = Closed /\ win'[c] = Closed /\ \A d \in Conn : d # c => win'[d] = win[d]
    BY <1>1, <1>2, <1>7 DEF After, WorldTyped
  <2>4. c \notin crossed /\ (ms = <<>> \/ NoClick(r[c]))
        => Rests(r[c], syncs[c] \o ms, view[c], Closed, inv'[c])
    <3> SUFFICES ASSUME c \notin crossed, ms = <<>> \/ NoClick(r[c])
                 PROVE  Rests(r[c], syncs[c] \o ms, view[c], Closed, inv'[c])
      OBVIOUS
    <3>1. Rests(r[c], syncs[c], view[c], Closed, inv[c])
      BY <1>4, <2>3
    <3> HIDE DEF w, r
    <3> QED BY <1>2, <2>2, <3>1, LeaveRests DEF a
  <2>5. SendTo(c, r, ms)
    BY <1>1, <1>7
  <2> HIDE DEF ms
  <2>6. Differ(syncs[c] \o ms, view[c])
    BY <1>2, <1>3, <2>1, DifferMore DEF RestOf, Still
  <2>7. c \notin crossed /\ (ms = <<>> \/ NoClick(r[c]))
        => Rests(r[c], syncs[c] \o ms, view[c], win'[c], inv'[c])
    BY <2>3, <2>4
  <2> QED BY <1>1, <1>5, <2>1, <2>2, <2>3, <2>5, <2>6, <2>7, SendRests
<1> QED BY <1>6, <1>7

\* The open window is closed by the server.
LEMMA ShutRests ==
    ASSUME NEW s, NoClick(s), NEW q \in Seq(Messages), NEW v, NEW w, NEW e, Rests(s, q, v, w, e),
           w.id \in 1 .. Ids
    PROVE  Rests(s, q \o <<CloseIt(w.id)>>, v, Closed, e)
<1> DEFINE m == CloseIt(w.id)
<1>1. m \in Messages /\ m.type = "close" /\ m.id = w.id
  BY DEF CloseIt, Messages
<1> HIDE DEF m
<1>2. ~Gone(s, Len(s), Closed) /\ Gone(s, Len(s), Closed) = FALSE
  BY ClosedIs, GoneIs
<1>3. \A u \in Views : Shows(u, w, e, Gone(s, Len(s), w))
                       => NoNews(m, u) /\ Shows(Taken(m, u), Closed, e, Gone(s, Len(s), Closed))
  BY <1>1, <1>2, CloseShown
<1> QED BY <1>1, <1>3, RestsMore DEF m

\* Die keeps RestInv.
LEMMA DieRests == ASSUME Typed, RestInv, NEW c \in Conn, Die(c) PROVE RestInv'
<1>1. /\ life[c] = "on" /\ dead' = dead \cup {c} /\ Save(c, EmptyInv, ender[c])
      /\ SendTo(c, clicks, DeathSends(c)) /\ win' = [win EXCEPT ![c] = Closed]
      /\ UNCHANGED <<block, lastId, life>>
  BY DieIs
<1>2. /\ WorldTyped /\ GoodsTyped /\ be \in [Pos -> Boxes \cup {NoBox}]
      /\ EmptyInv \in [InvCells -> Stacks] /\ 0 \in 0 .. Ids /\ syncs[c] \in Seq(Messages)
  BY EmptyIs, Sizes DEF Typed, WorldTyped, Inventories, ClientsTyped
<1> DEFINE w == win[c]
           a == IF Open(c) THEN <<CloseIt(w.id)>> ELSE <<>>
           b == Leave(c, be).sent
           e == <<Contents(0, EmptyInv)>>
           s == clicks[c]
           q == syncs[c]
           v == view[c]
<1>3. a \in Seq(Messages) /\ NoOpens(a)
  <2>1. CASE Open(c)
    <3>1. win[c].id \in 1 .. Ids
      BY <1>2, <2>1, WindowIs DEF WorldTyped, Open
    <3>2. NoOpens(<<CloseIt(win[c].id)>>)
      BY DEF NoOpens, CloseIt
    <3> QED BY <2>1, <3>1, <3>2, CloseTyped
  <2>2. CASE ~Open(c)
    BY <2>2 DEF NoOpens
  <2> QED BY <2>1, <2>2
<1>4. b \in Seq(Messages) /\ NoOpens(b) /\ Leave(c, be).inv \in Inventories
  BY <1>2, LeaveTyped, LeaveSends
<1>5. e \in Seq(Messages) /\ NoOpens(e)
  BY <1>2, ContentsTyped, ContentsAre
<1>6. DeathSends(c) = a \o b \o e
  BY DEF DeathSends
<1>7. RestOf(c)
  BY DEF RestInv
<1>8. c \notin crossed /\ NoClick(s) => Rests(s, q \o a, v, Closed, inv[c])
  <2> SUFFICES ASSUME c \notin crossed, NoClick(s) PROVE Rests(s, q \o a, v, Closed, inv[c])
    OBVIOUS
  <2>1. Rests(s, q, v, w, inv[c])
    BY <1>1, <1>7 DEF RestOf
  <2>2. CASE Open(c)
    <3>1. w.id \in 1 .. Ids /\ a = <<CloseIt(w.id)>>
      BY <1>2, <2>2, WindowIs DEF WorldTyped, Open
    <3> DEFINE e0 == inv[c]
    <3>2. Rests(s, q, v, w, e0) /\ q \in Seq(Messages)
      BY <1>2, <2>1
    <3> HIDE DEF w, s, q, v, a, e0
    <3>3. Rests(s, q \o <<CloseIt(w.id)>>, v, Closed, e0)
      BY <3>1, <3>2, ShutRests
    <3> QED BY <3>1, <3>3 DEF e0
  <2>3. CASE ~Open(c)
    <3>1. w = Closed /\ a = <<>>
      BY <1>2, <2>3, WindowIs DEF WorldTyped, Open
    <3>2. q \o <<>> = q
      <4> HIDE DEF Messages
      <4> QED BY <1>2
    <3> QED BY <2>1, <3>1, <3>2
  <2> QED BY <2>2, <2>3
<1> HIDE DEF a, e, s, q, v, w
<1>9. q \o a \in Seq(Messages) /\ (q \o a) \o b \in Seq(Messages)
  <2> HIDE DEF Messages, b
  <2>1. q \o a \in Seq(Messages)
    BY <1>2, <1>3 DEF q
  <2> DEFINE t == q \o a
  <2> HIDE DEF t
  <2>2. t \o b \in Seq(Messages)
    BY <1>4, <2>1 DEF t
  <2> QED BY <2>1, <2>2 DEF t
<1> DEFINE ms == a \o b \o e
<1>10. c \notin crossed /\ NoClick(s) => Rests(s, q \o ms, v, Closed, inv'[c])
  <2> SUFFICES ASSUME c \notin crossed, NoClick(s) PROVE Rests(s, q \o ms, v, Closed, inv'[c])
    OBVIOUS
  <2>1. Rests(s, (q \o a) \o b, v, Closed, Leave(c, be).inv)
    <3> DEFINE t == q \o a
    <3>1. t \in Seq(Messages) /\ Rests(s, t, v, Closed, inv[c])
      BY <1>8, <1>9
    <3> HIDE DEF t
    <3>2. Rests(s, t \o b, v, Closed, Leave(c, be).inv)
      BY <1>2, <1>4, <3>1, LeaveRests
    <3> QED BY <3>2 DEF t
  <2>2. \A x \in InvCells : inv'[c][x] = EmptyInv[x]
    BY <1>1, <1>2, SavedIs
  <2> DEFINE t == (q \o a) \o b
  <2> HIDE DEF b
  <2>3. t \in Seq(Messages) /\ Rests(s, t, v, Closed, Leave(c, be).inv)
    BY <1>9, <2>1
  <2> HIDE DEF t
  <2>4. Rests(s, t \o e, v, Closed, inv'[c])
    BY <1>2, <2>2, <2>3, OwnRests DEF e
  <2>5. t \o e = q \o ms
    <3>1. q \in Seq(Messages) /\ a \in Seq(Messages) /\ b \in Seq(Messages) /\ e \in Seq(Messages)
      BY <1>2, <1>3, <1>4, <1>5 DEF q, b
    <3> HIDE DEF Messages, ms
    <3> DEFINE j == a \o b
               k == q \o a
    <3>2. j \in Seq(Messages) /\ k \o b = q \o j
      BY <3>1, InThree
    <3> HIDE DEF j
    <3>3. (q \o j) \o e = q \o (j \o e)
      BY <3>1, <3>2, InThree
    <3>4. t = q \o j /\ ms = j \o e
      BY <3>2 DEF t, ms, j
    <3> HIDE DEF t, ms
    <3> QED BY <3>3, <3>4
  <2> QED BY <2>4, <2>5
<1>11. ms \in Seq(Messages) /\ NoOpens(ms) /\ ms # <<>>
  <2> HIDE DEF Messages, b, ms
  <2>1. a \o b \in Seq(Messages) /\ NoOpens(a \o b)
    BY <1>3, <1>4 DEF NoOpens
  <2> DEFINE t == a \o b
  <2> HIDE DEF t
  <2>2. t \o e \in Seq(Messages) /\ NoOpens(t \o e)
    BY <1>5, <2>1 DEF NoOpens, t
  <2>3. Len(e) = 1
    BY DEF e
  <2>4. t \o e # <<>>
    BY <1>5, <2>1, <2>3, LongerIs DEF t
  <2>5. ms = t \o e
    BY DEF ms, t
  <2> QED BY <2>2, <2>4, <2>5
<1>12. SendTo(c, clicks, ms)
  BY <1>1, <1>6
<1> HIDE DEF ms
<1>13. Differ(q \o ms, v)
  BY <1>2, <1>7, <1>11, DifferMore DEF RestOf, Still, q, v
<1>14. /\ win'[c] = Closed
       /\ \A d \in Conn : d # c => win'[d] = win[d] /\ inv'[d] = inv[d] /\ (d \in dead' => d \in dead)
  <2>1. win'[c] = Closed /\ \A d \in Conn : d # c => win'[d] = win[d]
    BY <1>1, <1>2 DEF WorldTyped
  <2>2. \A d \in Conn : d # c => inv'[d] = inv[d]
    BY <1>1, <1>2, SavedIs
  <2> QED BY <1>1, <2>1, <2>2
<1>15. c \notin crossed /\ (ms = <<>> \/ NoClick(clicks[c]))
       => Rests(clicks[c], syncs[c] \o ms, view[c], win'[c], inv'[c])
  BY <1>10, <1>11, <1>14 DEF s, q, v
<1>16. life' = life /\ Differ(syncs[c] \o ms, view[c])
  BY <1>1, <1>13 DEF q, v
<1> QED BY <1>1, <1>11, <1>12, <1>14, <1>15, <1>16, SendRests

\* The answer to a click in window id: the contents h, which the server has now.
Answers(c, id, h) ==
    /\ SendTo(c, Rest(c), <<Contents(id, h)>>)
    /\ \A x \in InvCells : inv'[c][x] = h[x]
    /\ \A d \in Conn : d # c => win'[d] = win[d] /\ inv'[d] = inv[d]
    /\ id = 0 => win' = win
    /\ id # 0 => /\ win'[c].id = win[c].id /\ win'[c].kind = win[c].kind
                 /\ \A x \in BoxCells : win'[c].box[x] = h[x]
    /\ life' = life /\ dead' = dead

\* The client that drew the click m has the same inventory.
Predicted(c, m, h) ==
    m.id # 0 => \A g : Drawn(m, win[c], inv[c], g) => \A y \in InvCells : h[y] = g[y]

\* A click that was applied is answered with its result.
LEMMA ClickedAnswers ==
    ASSUME Typed, NEW c \in Conn, NEW id \in 0 .. Ids, id # 0 => win[c].id # 0,
           NEW f \in [Cell -> Stacks], NEW dirty \in BOOLEAN, Clicked(c, id, f, dirty)
    PROVE  Answers(c, id, f)
<1>1. AfterClick(c, id, f, dirty)
  BY ClickedIs
<1>2. /\ id = 0 => win' = win /\ be' = be
      /\ \A d \in Conn : d # c => win'[d] = win[d]
      /\ win'[c].id = win[c].id /\ win'[c].kind = win[c].kind
      /\ id # 0 => \A x \in BoxCells : win'[c].box[x] = f[x]
      /\ UNCHANGED <<block, lastId, life, dead>>
  BY <1>1 DEF AfterClick
<1>3. /\ \E e : Save(c, f, e)
      /\ SendTo(c, Rest(c), <<Contents(id, f)>>)
  BY <1>1, Zenon DEF AfterClick
<1>4. PICK e : Save(c, f, e)
  BY <1>3
<1>5. /\ \A x \in InvCells : inv'[c][x] = f[x]
      /\ \A d \in Conn : d # c => inv'[d] = inv[d]
  <2>1. GoodsTyped /\ InvCells \subseteq Cell
    BY CellsAre DEF Typed
  <2> QED BY <1>4, <2>1, SavedIs
<1> QED BY <1>2, <1>3, <1>5 DEF Answers

\* A click that changes nothing is answered with the cells as they are.
LEMMA SameAnswers ==
    ASSUME Typed, NEW c \in Conn, NEW id,
           SendTo(c, Rest(c), <<Contents(id, Cells(c))>>), UNCHANGED serverVars
    PROVE  Answers(c, id, Cells(c))
<1>1. /\ \A x \in InvCells : Cells(c)[x] = inv[c][x]
      /\ \A x \in BoxCells : Cells(c)[x] = win[c].box[x]
  BY CellsTyped DEF Typed
<1>2. win' = win /\ inv' = inv /\ life' = life /\ dead' = dead
  BY DEF serverVars
<1> QED BY <1>1, <1>2 DEF Answers

\* A click drawn on what the server has.
LEMMA DrawnIs ==
    ASSUME Typed, NEW c \in Conn, NEW m \in Packets, m.id # 0, m.id = win[c].id,
           NEW g, Drawn(m, win[c], inv[c], g)
    PROVE  LET f == Cells(c)
               kind == win[c].kind
           IN  /\ Proposal(kind, f, m.mode, m.cell, g) /\ g \in [Cell -> Stacks]
               /\ f \in [Cell -> Stacks] /\ kind \in Kinds
               /\ m.new = Restrict(g, NamedIn(f, g))
               /\ m.cell \in Cell /\ m.mode \in {"pickup", "quick", "throw"}
               /\ ResultCell(c, m.id) = ResultOf(kind) /\ GridCell(c, m.id) = GridOf(kind)
<1> DEFINE f == Cells(c)
           kind == win[c].kind
<1>1. /\ f \in [Cell -> Stacks] /\ (\A x \in InvCells : f[x] = inv[c][x])
      /\ \A x \in BoxCells : f[x] = win[c].box[x]
  BY CellsTyped DEF Typed
<1>2. PICK u \in Views : \E mode \in {"pickup", "quick", "throw"} : \E x :
         /\ Proposal(u.kind, u.cells, mode, x, g)
         /\ m = ClickOn(u.id, mode, x, u.cells, g)
         /\ Shows(u, win[c], inv[c], FALSE)
  BY DEF Drawn
<1>2a. PICK mode \in {"pickup", "quick", "throw"} : \E x :
         /\ Proposal(u.kind, u.cells, mode, x, g)
         /\ m = ClickOn(u.id, mode, x, u.cells, g)
         /\ Shows(u, win[c], inv[c], FALSE)
  BY <1>2
<1>2b. PICK x : /\ Proposal(u.kind, u.cells, mode, x, g)
               /\ m = ClickOn(u.id, mode, x, u.cells, g)
               /\ Shows(u, win[c], inv[c], FALSE)
  BY <1>2a
<1>3. /\ m.id = u.id /\ m.mode = mode /\ m.cell = x /\ m.new = Restrict(g, NamedIn(u.cells, g))
  BY <1>2b DEF ClickOn
<1>4. u.kind = kind /\ (\A y \in InvCells : u.cells[y] = inv[c][y])
      /\ \A y \in BoxCells : u.cells[y] = win[c].box[y]
  BY <1>2b, <1>3 DEF Shows
<1>5. u.cells \in [Cell -> Stacks] /\ u.kind \in Kinds \cup {"none"}
  BY <1>2, ViewIs
<1>6. u.cells = f
  <2>1. \A y \in Cell : u.cells[y] = f[y]
    BY <1>1, <1>4, CellsAre
  <2> HIDE DEF f
  <2> QED BY <1>1, <1>5, <2>1
<1>7. Proposal(kind, f, mode, x, g)
  BY <1>2b, <1>4, <1>6
<1>8. g \in [Cell -> Stacks] /\ x \in Cell
  BY <1>1, <1>4, <1>5, <1>7, ProposedIs
<1>9. kind \in Kinds
  BY WindowIs DEF Typed, WorldTyped
<1>10. ResultCell(c, m.id) = ResultOf(kind) /\ GridCell(c, m.id) = GridOf(kind)
  <2>1. kind # "none"
    BY <1>9, KindsAre
  <2> QED BY <2>1, CraftCells DEF ResultOf, GridOf
<1> HIDE DEF f, kind
<1> QED BY <1>1, <1>2a, <1>3, <1>6, <1>7, <1>8, <1>9, <1>10 DEF f, kind

\* The client foresaw a thrown result.
LEMMA ThrowPredicted ==
    ASSUME Typed, NEW c \in Conn, NEW m \in Packets, m.id # 0 => m.id = win[c].id, ThrowResult(c, m)
    PROVE  Predicted(c, m, Cells(c))
<1> SUFFICES ASSUME m.id # 0, NEW g, Drawn(m, win[c], inv[c], g) PROVE \A y \in InvCells : Cells(c)[y] = g[y]
  BY DEF Predicted
<1> DEFINE f == Cells(c)
           kind == win[c].kind
<1>1. /\ Proposal(kind, f, m.mode, m.cell, g) /\ kind \in Kinds
      /\ ResultCell(c, m.id) = ResultOf(kind)
  BY DrawnIs
<1> HIDE DEF f
<1>2. m.mode = "throw" /\ m.cell = ResultOf(kind)
  BY <1>1 DEF ThrowResult
<1>3. m.cell \notin Counted(kind)
  BY <1>1, <1>2, CountedIs
<1> HIDE DEF kind
<1>4. g = f
  BY <1>1, <1>2, <1>3, Zenon DEF Proposal, CraftsIt, ThrowsIt, MovesIt
<1> QED BY <1>4 DEF f

\* The client foresaw a result it took.
LEMMA TakePredicted ==
    ASSUME Typed, NEW c \in Conn, NEW m \in Packets, m.id # 0 => m.id = win[c].id, TakeResult(c, m)
    PROVE  Predicted(c, m, IF m.mode = "pickup" THEN Take(Cells(c), ResultCell(c, m.id), GridCell(c, m.id))
                           ELSE CraftToMain(Cells(c), ResultCell(c, m.id), GridCell(c, m.id)))
<1> SUFFICES ASSUME m.id # 0, NEW g, Drawn(m, win[c], inv[c], g)
             PROVE  (IF m.mode = "pickup" THEN Take(Cells(c), ResultCell(c, m.id), GridCell(c, m.id))
                     ELSE CraftToMain(Cells(c), ResultCell(c, m.id), GridCell(c, m.id))) = g
  BY DEF Predicted
<1> DEFINE f == Cells(c)
           kind == win[c].kind
<1>1. /\ Proposal(kind, f, m.mode, m.cell, g) /\ kind \in Kinds
      /\ ResultCell(c, m.id) = ResultOf(kind) /\ GridCell(c, m.id) = GridOf(kind)
  BY DrawnIs
<1> HIDE DEF f
<1>2. m.mode \in {"pickup", "quick"} /\ m.cell = ResultOf(kind)
  BY <1>1 DEF TakeResult
<1>3. m.cell \notin Counted(kind)
  BY <1>1, <1>2, CountedIs
<1> HIDE DEF kind
<1>4. CraftsIt(kind, f, m.mode, m.cell, g)
  BY <1>1, <1>3, Zenon DEF Proposal, ThrowsIt, MovesIt
<1>5. CASE m.mode = "pickup"
  <2>1. g = Take(f, m.cell, GridOf(kind))
    BY <1>4, <1>5 DEF CraftsIt
  <2> QED BY <1>1, <1>2, <1>5, <2>1 DEF f
<1>6. CASE m.mode = "quick"
  <2>1. g = CraftToMain(f, m.cell, GridOf(kind))
    BY <1>4, <1>6 DEF CraftsIt
  <2> QED BY <1>1, <1>2, <1>6, <2>1 DEF f
<1> QED BY <1>2, <1>5, <1>6

\* The client foresaw a move.
LEMMA MovePredicted ==
    ASSUME Typed, NEW c \in Conn, NEW m \in Packets, m.id # 0 => m.id = win[c].id, MoveInFurnace(c, m)
    PROVE  Predicted(c, m, FurnaceMove(Cells(c), m.cell))
<1> SUFFICES ASSUME m.id # 0, NEW g, Drawn(m, win[c], inv[c], g) PROVE g = FurnaceMove(Cells(c), m.cell)
  BY DEF Predicted
<1> DEFINE f == Cells(c)
           kind == win[c].kind
<1>1. Proposal(kind, f, m.mode, m.cell, g) /\ kind \in Kinds /\ m.cell \in Cell
  BY DrawnIs
<1>2. m.mode = "quick" /\ kind = "furnace"
  BY DEF MoveInFurnace, MovesInFurnace
<1> HIDE DEF f, kind
<1>3. ResultOf(kind) = "none"
  BY <1>2 DEF ResultOf
<1>4. MovesIt(kind, f, m.mode, m.cell, g)
  BY <1>1, <1>2, <1>3 DEF Proposal, CraftsIt, ThrowsIt
<1> QED BY <1>2, <1>4 DEF MovesIt, f

\* The client foresaw a copied cell: it is its own drawing.
LEMMA CopyPredicted ==
    ASSUME Typed, NEW c \in Conn, NEW m \in Packets, IsClick(m), m.id # 0 => m.id = win[c].id
    PROVE  Predicted(c, m, Copied(c, m))
<1> SUFFICES ASSUME m.id # 0, NEW g, Drawn(m, win[c], inv[c], g), NEW y \in InvCells
             PROVE  Copied(c, m)[y] = g[y]
  BY DEF Predicted
<1> DEFINE f == Cells(c)
           r == ResultCell(c, m.id)
           N == NamedIn(f, g)
<1>1. f \in [Cell -> Stacks] /\ g \in [Cell -> Stacks] /\ m.new = Restrict(g, N)
  BY DrawnIs
<1>2. y \in Cell /\ y # r
  <2>1. r \in {"out", "none"}
    BY CraftCells
  <2> QED BY <2>1, CellsAre
<1>3. Copied(c, m)[y] = IF y \in DOMAIN m.new THEN m.new[y] ELSE f[y]
  BY <1>2, CopiedTyped DEF Typed
<1> HIDE DEF f, r
<1>4. CASE y \in N
  BY <1>1, <1>3, <1>4 DEF Restrict
<1>5. CASE y \notin N
  <2>1. DOMAIN m.new = N
    BY <1>1 DEF Restrict
  <2>2. g[y] = f[y]
    BY <1>1, <1>2, <1>5 DEF NamedIn
  <2> QED BY <1>3, <1>5, <2>1, <2>2
<1> QED BY <1>4, <1>5

\* Every click is answered with cells that its client foresaw.
LEMMA HandleAnswers ==
    ASSUME Typed, NEW c \in Conn, HandleClick(c)
    PROVE  \E h \in [Cell -> Stacks] :
              Answers(c, Head(clicks[c]).id, h) /\ Predicted(c, Head(clicks[c]), h)
<1> DEFINE m == Head(clicks[c])
<1>1. /\ m \in Packets /\ IsClick(m) /\ m.id \in 0 .. Ids
      /\ (m.id # 0 => win[c].id # 0) /\ (m.id # 0 => m.id = win[c].id)
      /\ ThrowResult(c, m) \/ TakeResult(c, m) \/ MoveInFurnace(c, m) \/ CopyCells(c, m)
  BY HeadIs
<1>2. WorldTyped /\ GoodsTyped /\ Cells(c) \in [Cell -> Stacks]
  BY CellsTyped DEF Typed
<1> HIDE DEF m
<1> SUFFICES \E h \in [Cell -> Stacks] : Answers(c, m.id, h) /\ Predicted(c, m, h)
  BY DEF m
<1>3. ASSUME NEW f \in [Cell -> Stacks], NEW dirty \in BOOLEAN, Clicked(c, m.id, f, dirty)
      PROVE  Answers(c, m.id, f)
  BY <1>1, <1>3, ClickedAnswers
<1>4. CASE ThrowResult(c, m)
  <2>1. SendTo(c, Rest(c), <<Contents(m.id, Cells(c))>>) /\ UNCHANGED serverVars
    BY <1>4 DEF ThrowResult
  <2>2. Answers(c, m.id, Cells(c))
    BY <2>1, SameAnswers
  <2>3. Predicted(c, m, Cells(c))
    BY <1>1, <1>4, ThrowPredicted
  <2> QED BY <1>2, <2>2, <2>3
<1>5. CASE TakeResult(c, m)
  <2> DEFINE r == ResultCell(c, m.id)
             g == GridCell(c, m.id)
             f == IF m.mode = "pickup" THEN Take(Cells(c), r, g) ELSE CraftToMain(Cells(c), r, g)
  <2>1. m.cell = r /\ Clicked(c, m.id, f, FALSE)
    BY <1>5 DEF TakeResult
  <2>2. Predicted(c, m, f)
    BY <1>1, <1>5, TakePredicted
  <2>3. m.cell \in Cell
    BY <1>1, ClickIs
  <2>4. r \in Cell \ MainCells /\ g \in Cell \ MainCells /\ r # g /\ r # "cursor" /\ g # "cursor"
    BY <1>1, <1>2, <2>1, <2>3, CraftCells, CellsAre
  <2> HIDE DEF r, g
  <2>5. f \in [Cell -> Stacks] /\ FALSE \in BOOLEAN
    BY <1>2, <2>4, CraftedIs
  <2> HIDE DEF f
  <2> QED BY <1>3, <2>1, <2>2, <2>5
<1>6. CASE MoveInFurnace(c, m)
  <2> DEFINE f == FurnaceMove(Cells(c), m.cell)
  <2>1. \/ f = Cells(c) /\ SendTo(c, Rest(c), <<Contents(m.id, f)>>) /\ UNCHANGED serverVars
        \/ Clicked(c, m.id, f, TRUE)
    BY <1>6 DEF MoveInFurnace
  <2>2. f \in [Cell -> Stacks]
    <3>1. m.cell \in Cell
      BY <1>1, ClickIs
    <3> QED BY <1>2, <3>1, FurnaceMoveIs, CellsAre
  <2>3. Predicted(c, m, f)
    BY <1>1, <1>6, MovePredicted
  <2> HIDE DEF f
  <2>4. Answers(c, m.id, f)
    <3>1. CASE f = Cells(c) /\ SendTo(c, Rest(c), <<Contents(m.id, f)>>) /\ UNCHANGED serverVars
      BY <3>1, SameAnswers
    <3>2. CASE Clicked(c, m.id, f, TRUE)
      BY <1>3, <2>2, <3>2
    <3> QED BY <2>1, <3>1, <3>2
  <2> QED BY <2>2, <2>3, <2>4
<1>7. CASE CopyCells(c, m)
  <2> DEFINE dirty == win[c].kind \in Stored /\ (win[c].dirty \/ DOMAIN m.new \cap BoxCells # {})
  <2>1. Clicked(c, m.id, Copied(c, m), dirty)
    BY <1>7, CopyIs
  <2>2. Copied(c, m) \in [Cell -> Stacks]
    BY <1>1, <1>2, CopiedTyped
  <2>3. dirty \in BOOLEAN
    OBVIOUS
  <2> HIDE DEF dirty
  <2>4. Predicted(c, m, Copied(c, m))
    BY <1>1, CopyPredicted
  <2> QED BY <1>3, <2>1, <2>2, <2>3, <2>4
<1> QED BY <1>1, <1>4, <1>5, <1>6, <1>7

\* HandleClick keeps RestInv.
LEMMA HandleClickRests == ASSUME Typed, RestInv, NEW c \in Conn, HandleClick(c) PROVE RestInv'
<1> DEFINE s == clicks[c]
           m == Head(s)
           w == win[c]
           r == Rest(c)
<1>1. /\ s # <<>> /\ m \in Packets /\ IsClick(m) /\ m.id \in 0 .. Ids
      /\ (m.id # 0 => w.id # 0 /\ m.id = w.id) /\ life[c] = "on" /\ c \notin dead
  BY HeadIs
<1>2. PICK h \in [Cell -> Stacks] : Answers(c, m.id, h) /\ Predicted(c, m, h)
  BY HandleAnswers
<1>3. /\ ClientsTyped /\ s \in Seq(Packets) /\ syncs[c] \in Seq(Messages) /\ view[c] \in Views
      /\ r[c] = Tail(s)
  BY <1>1, RestTyped DEF Typed, ClientsTyped
<1>4. RestOf(c)
  BY DEF RestInv
<1> DEFINE k == Contents(m.id, h)
           ms == <<k>>
           z == win'[c]
           e == inv'[c]
<1>5. /\ SendTo(c, r, ms) /\ life' = life /\ dead' = dead
      /\ \A d \in Conn : d # c => win'[d] = win[d] /\ inv'[d] = inv[d]
      /\ \A x \in InvCells : e[x] = h[x]
      /\ m.id = 0 => win' = win
      /\ m.id # 0 => /\ z.id = w.id /\ z.kind = w.kind
                     /\ \A x \in BoxCells : z.box[x] = h[x]
  BY <1>2 DEF Answers
<1>6. /\ k \in Messages /\ ms \in Seq(Messages) /\ k.type = "contents" /\ k.id = m.id
      /\ m.id = 0 => \A x \in InvCells : k.cells[x] = h[x]
      /\ m.id # 0 => \A x \in ContentCells : k.cells[x] = h[x]
  <2>1. InvCells \subseteq Cell /\ ContentCells \subseteq Cell
    BY CellsAre, ContentCellsAre
  <2> HIDE DEF m
  <2> QED BY <1>1, <2>1, ContentsIs
<1>7. NoOpens(ms) /\ ms # <<>>
  BY ContentsAre
<1> HIDE DEF k
<1>8. c \notin crossed /\ NoClick(r[c]) => Rests(r[c], syncs[c] \o ms, view[c], z, e)
  <2> SUFFICES ASSUME c \notin crossed, NoClick(Tail(s))
               PROVE  Rests(Tail(s), syncs[c] \o <<k>>, view[c], z, e)
    BY <1>3
  <2>1. OnlyClick(s, 1)
    BY <1>1, <1>3, TailClicks
  <2>2. Rests(s, syncs[c], view[c], w, inv[c])
    BY <1>1, <1>4 DEF RestOf
  <2>3. m.id = 0 => z = w /\ \A y \in InvCells : k.cells[y] = e[y]
    BY <1>5, <1>6
  <2>4. m.id # 0 => /\ z.id = w.id /\ z.kind = w.kind /\ (\A y \in BoxCells : z.box[y] = k.cells[y])
                    /\ \A y \in SharedCells : k.cells[y] = e[y]
    BY <1>5, <1>6, SharedAre
  <2>5. m.id # 0 => \A g : Drawn(m, w, inv[c], g) => \A y \in InvCells : e[y] = g[y]
    BY <1>2, <1>5 DEF Predicted
  <2> DEFINE old == inv[c]
             q == syncs[c]
             v == view[c]
  <2>6. /\ s \in Seq(Packets) /\ s # <<>> /\ v \in Views /\ Rests(s, q, v, w, old)
        /\ m.id # 0 => \A g : Drawn(m, w, old, g) => \A y \in InvCells : e[y] = g[y]
    BY <1>1, <1>3, <2>2, <2>5
  <2> HIDE DEF s, w, z, e, old, q, v
  <2>7. Rests(Tail(s), q \o <<k>>, v, z, e)
    BY <1>6, <2>1, <2>3, <2>4, <2>6, RestsAnswered
  <2> QED BY <2>7 DEF q, v
<1> HIDE DEF ms
<1>9. Differ(syncs[c] \o ms, view[c])
  BY <1>3, <1>4, <1>6, <1>7, DifferMore DEF RestOf, Still
<1>10. c \notin dead'
  BY <1>1, <1>5
<1>11. \A d \in Conn : d # c => win'[d] = win[d] /\ inv'[d] = inv[d] /\ (d \in dead' => d \in dead)
  BY <1>5
<1>12. c \notin crossed /\ (ms = <<>> \/ NoClick(r[c]))
       => Rests(r[c], syncs[c] \o ms, view[c], win'[c], inv'[c])
  BY <1>7, <1>8
<1> QED BY <1>1, <1>5, <1>6, <1>9, <1>10, <1>11, <1>12, SendRests

\* BreakContainer keeps RestInv.
LEMMA BreakRests == ASSUME Typed, RestInv, NEW p \in Pos, BreakContainer(p) PROVE RestInv'
<1> DEFINE sent == [d \in Conn |-> IF d \in Shut(p) THEN <<CloseIt(win[d].id)>> ELSE <<>>]
<1>1. /\ win' = [d \in Conn |-> IF d \in Shut(p) THEN Closed ELSE win[d]] /\ Send(clicks, sent)
      /\ UNCHANGED <<inv, life, dead>>
  BY BreakIs
<1>2. \A d \in Conn : sent[d] = IF d \in Shut(p) THEN <<CloseIt(win[d].id)>> ELSE <<>>
  OBVIOUS
<1> HIDE DEF sent
<1>3. /\ clicks' = clicks /\ view' = view /\ (\A d \in Conn : syncs'[d] = syncs[d] \o sent[d])
      /\ crossed' = crossed \cup {d \in Conn : sent[d] # <<>> /\ \E i \in 1 .. Len(clicks[d]) : IsClick(clicks[d][i])}
  BY <1>1 DEF Send
<1> SUFFICES ASSUME NEW d \in Conn PROVE RestOf(d)'
  BY DEF RestInv
<1>4. RestOf(d) /\ syncs[d] \in Seq(Messages) /\ win[d] \in Windows
  BY DEF RestInv, Typed, ClientsTyped, WorldTyped
<1>5. CASE d \notin Shut(p)
  <2>1. win'[d] = win[d] /\ sent[d] = <<>>
    BY <1>1, <1>2, <1>5
  <2>2. syncs'[d] = syncs[d]
    <3>1. syncs[d] \o <<>> = syncs[d]
      <4> HIDE DEF Messages
      <4> QED BY <1>4
    <3> QED BY <1>3, <2>1, <3>1
  <2>3. Spared(d)
    BY <1>1, <1>3, <2>1, <2>2 DEF Spared
  <2> QED BY <1>4, <2>3, SparedRests
<1>6. CASE d \in Shut(p)
  <2> DEFINE w == win[d]
             s == clicks[d]
             q == syncs[d]
             v == view[d]
             e == inv[d]
  <2>1. life[d] = "on" /\ w.id # 0
    BY <1>6 DEF Shut, Viewers, Open
  <2>2. w.id \in 1 .. Ids
    BY <1>4, <2>1, WindowIs
  <2>3. win'[d] = Closed /\ sent[d] = <<CloseIt(w.id)>> /\ sent[d] # <<>>
    <3>1. win'[d] = Closed
      BY <1>1, <1>6
    <3>2. sent[d] = <<CloseIt(w.id)>>
      BY <1>2, <1>6
    <3>3. <<CloseIt(w.id)>> # <<>>
      OBVIOUS
    <3> HIDE DEF w
    <3> QED BY <3>1, <3>2, <3>3
  <2>4. <<CloseIt(w.id)>> \in Seq(Messages) /\ NoOpens(<<CloseIt(w.id)>>)
    <3>1. NoOpens(<<CloseIt(w.id)>>)
      BY DEF NoOpens, CloseIt
    <3> QED BY <2>2, <3>1, CloseTyped
  <2>5. Differ(q \o <<CloseIt(w.id)>>, v)
    BY <1>4, <2>4, DifferMore DEF RestOf, Still
  <2>6. d \notin crossed' => d \notin crossed /\ NoClick(s)
    BY <1>3, <2>3 DEF NoClick
  <2>7. d \notin crossed' => Rests(s, q \o <<CloseIt(w.id)>>, v, Closed, e)
    <3> SUFFICES ASSUME d \notin crossed' PROVE Rests(s, q \o <<CloseIt(w.id)>>, v, Closed, e)
      OBVIOUS
    <3>1. Rests(s, q, v, w, e) /\ NoClick(s) /\ q \in Seq(Messages)
      BY <1>4, <2>1, <2>6 DEF RestOf
    <3> HIDE DEF w, s, q, v, e
    <3> QED BY <2>2, <3>1, ShutRests
  <2>8. /\ life'[d] = "on" /\ clicks'[d] = s /\ view'[d] = v /\ inv'[d] = e
        /\ syncs'[d] = q \o <<CloseIt(w.id)>>
    BY <1>1, <1>3, <2>1, <2>3
  <2> HIDE DEF w, s, q, v, e
  <2> QED BY <2>3, <2>5, <2>7, <2>8 DEF RestOf, Still
<1> QED BY <1>5, <1>6

\* The id of the next window is none of those on the way.
LEMMA FreshId ==
    ASSUME MaxSyncs <= Ids, Typed, ByIds, NEW c \in Conn, Len(syncs[c]) < MaxSyncs,
           NEW i \in 1 .. Len(syncs[c]), syncs[c][i].type = "open"
    PROVE  syncs[c][i].id # NextId(c)
<1> DEFINE q == syncs[c]
           l == lastId[c]
           id == NextId(c)
           n == q[i].id
<1>1. q \in Seq(Messages) /\ l \in 1 .. Ids
  BY DEF Typed, WorldTyped, ClientsTyped
<1>2. Ids \in Nat /\ MaxSyncs \in Nat
  BY Sizes, WindowsAssumption
<1>3. id = IF l = Ids THEN 1 ELSE l + 1
  BY <1>1, NextIdIs DEF NextId
<1>4. PICK k \in 0 .. Len(q) - i : n + k = l \/ n + k = l + Ids
  <2>1. OpenTrue(q, i, win[c], l)
    BY DEF ByIds, ById
  <2> QED BY <2>1 DEF OpenTrue
<1>5. Len(q) \in Nat
  <2> HIDE DEF Messages, q
  <2> QED BY <1>1
<1>6. n \in 1 .. Ids
  <2>1. q[i] \in Messages
    <3> HIDE DEF Messages
    <3> QED BY <1>1
  <2>2. q[i].type = "open"
    OBVIOUS
  <2> HIDE DEF q
  <2> QED BY <2>1, <2>2 DEF Messages
<1> DEFINE j == Len(q)
<1>7. j < MaxSyncs /\ i \in 1 .. j /\ k \in 0 .. j - i /\ j \in Nat
  BY <1>4, <1>5
<1> HIDE DEF n, l, q, id, j
<1>8. k + 2 <= Ids
  BY <1>2, <1>7
<1>9. n # id
  BY <1>1, <1>2, <1>3, <1>4, <1>6, <1>7, <1>8
<1> QED BY <1>9 DEF n, q, id

\* An open with an id of its own after messages that open nothing.
LEMMA DifferOne ==
    ASSUME NEW q \in Seq(Messages), NEW v, v.id = 0, Differ(q, v), NEW a \in Seq(Messages), NoOpens(a),
           NEW o, \A i \in 1 .. Len(q) : q[i].type = "open" => q[i].id # o.id
    PROVE  Differ((q \o a) \o <<o>>, v)
<1> DEFINE t == q \o a
           r == t \o <<o>>
           l == Len(q)
           k == Len(t)
<1>1. /\ l \in Nat /\ k = l + Len(a) /\ Len(a) \in Nat /\ k \in Nat
      /\ \A i \in 1 .. k : t[i] = IF i <= l THEN q[i] ELSE a[i - l]
      /\ Len(r) = k + 1 /\ r[k + 1] = o /\ \A i \in 1 .. k : r[i] = t[i]
  <2> HIDE DEF Messages
  <2>1. t \in Seq(Messages)
    OBVIOUS
  <2>2. /\ l \in Nat /\ k = l + Len(a) /\ Len(a) \in Nat /\ k \in Nat
        /\ \A i \in 1 .. k : t[i] = IF i <= l THEN q[i] ELSE a[i - l]
    OBVIOUS
  <2> HIDE DEF t, l
  <2>3. Len(r) = k + 1 /\ r[k + 1] = o /\ \A i \in 1 .. k : r[i] = t[i]
    BY <2>1
  <2> QED BY <2>2, <2>3
<1>2. Differ(t, v)
  BY DifferMore
<1> HIDE DEF r, t
<1>3. ASSUME NEW i \in 1 .. k, t[i].type = "open" PROVE t[i].id # o.id
  <2>1. CASE i <= l
    BY <1>1, <1>3, <2>1
  <2>2. CASE ~(i <= l)
    <3>1. i - l \in 1 .. Len(a) /\ t[i] = a[i - l]
      BY <1>1, <2>2
    <3> QED BY <1>3, <3>1 DEF NoOpens
  <2> QED BY <2>1, <2>2
<1> HIDE DEF l, k
<1>4. k \in Nat /\ Len(r) = k + 1 /\ r[k + 1] = o /\ \A i \in 1 .. k : r[i] = t[i]
  BY <1>1
<1>5. \A i \in 1 .. k + 1 : i \in 1 .. k \/ i = k + 1
  <2>1. k \in Nat
    BY <1>4
  <2> QED BY <2>1
<1>6. \A i, j \in 1 .. k : i # j /\ t[i].type = "open" /\ t[j].type = "open" => t[i].id # t[j].id
  BY <1>2 DEF Differ, k
<1>7. \A i, j \in 1 .. k + 1 : i # j /\ r[i].type = "open" /\ r[j].type = "open" => r[i].id # r[j].id
  <2> SUFFICES ASSUME NEW i \in 1 .. k + 1, NEW j \in 1 .. k + 1, i # j,
                      r[i].type = "open", r[j].type = "open"
               PROVE  r[i].id # r[j].id
    OBVIOUS
  <2>1. CASE i \in 1 .. k /\ j \in 1 .. k
    BY <1>4, <1>6, <2>1
  <2>2. CASE i \in 1 .. k /\ j = k + 1
    BY <1>3, <1>4, <2>2
  <2>3. CASE i = k + 1 /\ j \in 1 .. k
    BY <1>3, <1>4, <2>3
  <2> QED BY <1>5, <2>1, <2>2, <2>3
<1>8. Differ(r, v)
  BY <1>4, <1>7 DEF Differ
<1> QED BY <1>8 DEF r, t

\* OpenContainer keeps RestInv.
LEMMA OpenRests ==
    ASSUME MaxSyncs <= Ids, Typed, ByIds, RestInv, NEW c \in Conn, NEW p \in Pos, OpenContainer(c, p)
    PROVE  RestInv'
<1> DEFINE left == Leave(c, FreshBe(p))
           h == Over(left.inv, BoxFor(c, p))
           o == Opened(NextId(c), block[p], h)
           a == left.sent
           q == syncs[c]
           v == view[c]
           w == win[c]
           z == WindowFor(c, p)
           ms == a \o <<o>>
<1>1. /\ Acts(c) /\ block[p] \in Kinds /\ win' = [win EXCEPT ![c] = z] /\ SendTo(c, clicks, ms)
      /\ IF w.kind \in {"table", "ender"} THEN Save(c, left.inv, ender[c]) ELSE UNCHANGED <<inv, ender, file>>
      /\ UNCHANGED <<block, life, dead>>
  BY OpenIs
<1>2. life[c] = "on" /\ c \notin dead /\ clicks[c] = <<>> /\ v.id = 0
  BY <1>1 DEF Acts
<1>3. /\ WorldTyped /\ GoodsTyped /\ ClientsTyped /\ q \in Seq(Messages)
      /\ FreshBe(p) \in [Pos -> Boxes \cup {NoBox}] /\ BoxFor(c, p) \in [BoxCells -> Stacks]
      /\ NextId(c) \in 1 .. Ids
  BY <1>1, OpenMakes DEF Typed, ClientsTyped, Boxes
<1>4. left.inv \in [InvCells -> Stacks] /\ a \in Seq(Messages) /\ NoOpens(a)
  BY <1>3, LeaveTyped, LeaveSends DEF Inventories
<1>5. /\ inv'[c] \in Inventories /\ (\A x \in InvCells : inv'[c][x] = left.inv[x])
      /\ \A d \in Conn : d # c => inv'[d] = inv[d]
  BY <1>1, <1>3, LeftSaved
<1> HIDE DEF left
<1>6. /\ h \in [Cell -> Stacks] /\ (\A x \in InvCells : h[x] = left.inv[x])
      /\ \A x \in BoxCells : h[x] = BoxFor(c, p)[x]
  BY <1>3, <1>4, ShownOver
<1> HIDE DEF h
<1>7. /\ o \in Messages /\ <<o>> \in Seq(Messages) /\ o.type = "open" /\ o.id = NextId(c) /\ o.kind = block[p]
      /\ \A x \in ContentCells : o.cells[x] = h[x]
  <2> DEFINE i == NextId(c)
             kind == block[p]
  <2>1. i \in 1 .. Ids /\ kind \in Kinds
    BY <1>1, <1>3
  <2> HIDE DEF i, kind
  <2>2. /\ Opened(i, kind, h) \in [type : {"open"}, id : 1 .. Ids, kind : Kinds, cells : [ContentCells -> Stacks]]
        /\ <<Opened(i, kind, h)>> \in Seq(Messages)
        /\ Opened(i, kind, h).id = i /\ Opened(i, kind, h).kind = kind /\ Opened(i, kind, h).type = "open"
        /\ \A x \in ContentCells : Opened(i, kind, h).cells[x] = h[x]
    BY <1>6, <2>1, OpenedTyped
  <2>3. Opened(i, kind, h) \in Messages
    BY <2>2 DEF Messages
  <2> QED BY <2>2, <2>3 DEF i, kind
<1>8. z.id = o.id /\ z.kind = o.kind /\ z.box = BoxFor(c, p)
  BY <1>7 DEF WindowFor
<1> HIDE DEF o, z
<1>9. /\ \A x \in SharedCells : o.cells[x] = inv'[c][x]
      /\ \A x \in BoxCells : z.box[x] = o.cells[x]
  BY <1>5, <1>6, <1>7, <1>8, SharedAre
<1>10. ms \in Seq(Messages) /\ ms # <<>> /\ q \o ms = (q \o a) \o <<o>> /\ q \o a \in Seq(Messages)
  <2> HIDE DEF Messages, a, q
  <2>1. q \o a \in Seq(Messages) /\ (q \o a) \o <<o>> = q \o (a \o <<o>>)
    BY <1>3, <1>4, <1>7, InThree
  <2>2. ms \in Seq(Messages)
    BY <1>4, <1>7
  <2>3. Len(<<o>>) = 1
    OBVIOUS
  <2>4. ms # <<>>
    BY <1>4, <1>7, <2>3, LongerIs
  <2> QED BY <2>1, <2>2, <2>4
<1> HIDE DEF ms
<1>11. Len(q) < MaxSyncs
  BY <1>1, <1>3, <1>10, SentTo
<1>12. RestOf(c)
  BY DEF RestInv
<1>13. Differ(q \o ms, v)
  <2>1. \A i \in 1 .. Len(q) : q[i].type = "open" => q[i].id # o.id
    BY <1>7, <1>11, FreshId
  <2>2. Differ(q, v)
    BY <1>12 DEF RestOf, Still
  <2> HIDE DEF q, v, a
  <2>3. Differ((q \o a) \o <<o>>, v)
    BY <1>2, <1>3, <1>4, <2>1, <2>2, DifferOne
  <2> QED BY <1>10, <2>3
<1>14. c \notin crossed => Rests(<<>>, q \o ms, v, z, inv'[c])
  <2> SUFFICES ASSUME c \notin crossed PROVE Rests(<<>>, q \o ms, v, z, inv'[c])
    OBVIOUS
  <2>1. NoClick(<<>>) /\ Gone(<<>>, Len(<<>>), z) = FALSE
    BY DEF NoClick, Gone
  <2>2. Rests(<<>>, q, v, w, inv[c])
    BY <1>2, <1>12 DEF RestOf
  <2> DEFINE f == inv'[c]
             g == inv[c]
             t == q \o a
  <2>3. t \in Seq(Messages) /\ Rests(<<>>, t, v, w, f)
    <3> HIDE DEF q, v, w
    <3>1. Rests(<<>>, q \o Leave(c, FreshBe(p)).sent, v, w, f)
      BY <1>3, <1>5, <2>1, <2>2, LeaveRests DEF left
    <3> QED BY <1>10, <3>1 DEF left
  <2> DEFINE gone == Gone(<<>>, Len(<<>>), w)
             left1 == Gone(<<>>, Len(<<>>), z)
  <2>6. /\ \A x \in SharedCells : o.cells[x] = f[x]
        /\ \A x \in BoxCells : z.box[x] = o.cells[x]
    BY <1>9
  <2>7. left1 = FALSE
    BY <2>1
  <2>4. \A u \in Views : Shows(u, w, f, gone) => NoNews(o, u) /\ Shows(Taken(o, u), z, f, left1)
    <3> HIDE DEF f, w, gone, left1
    <3>1. ASSUME NEW u \in Views, Shows(u, w, f, gone) PROVE NoNews(o, u) /\ Shows(Taken(o, u), z, f, FALSE)
      BY <1>7, <1>8, <2>6, <3>1, OpenShown
    <3> QED BY <2>7, <3>1
  <2> HIDE DEF f, t, q, v, w
  <2>5. Rests(<<>>, t \o <<o>>, v, z, f)
    BY <1>7, <2>1, <2>3, <2>4, RestsMore
  <2> QED BY <1>10, <2>5 DEF t, f
<1>15. win'[c] = z /\ \A d \in Conn : d # c => win'[d] = win[d]
  BY <1>1, <1>3 DEF WorldTyped
<1>16. \A d \in Conn : d # c => win'[d] = win[d] /\ inv'[d] = inv[d] /\ (d \in dead' => d \in dead)
  BY <1>1, <1>5, <1>15
<1>17. c \notin dead' /\ life' = life
  BY <1>1, <1>2
<1>18. c \notin crossed /\ (ms = <<>> \/ NoClick(clicks[c]))
       => Rests(clicks[c], syncs[c] \o ms, view[c], win'[c], inv'[c])
  BY <1>2, <1>14, <1>15
<1> QED BY <1>1, <1>2, <1>10, <1>13, <1>16, <1>17, <1>18, SendRests

\* Every step keeps RestInv.
LEMMA NextRests == ASSUME MaxSyncs <= Ids, Typed, ByIds, RestInv, [Next]_vars PROVE RestInv'
<1>1. CASE UNCHANGED vars
  BY <1>1, SameRests
<1>2. ASSUME NEW c \in Conn, Session(c) PROVE RestInv'
  BY <1>2, JoinRests, DisconnectRests, CleanupRests, DieRests, RespawnRests DEF Session
<1>3. ASSUME NEW c \in Conn, Handle(c) PROVE RestInv'
  BY <1>3, HandleClickRests, HandleCloseRests, IgnoreRests DEF Handle
<1>4. ASSUME NEW c \in Conn, SmeltOpen(c) \/ Client(c) PROVE RestInv'
  BY <1>4, SmeltOpenRests, ClientRests
<1>5. ASSUME NEW c \in Conn, NEW p \in Pos, OpenContainer(c, p) PROVE RestInv'
  BY <1>5, OpenRests
<1>6. ASSUME NEW p \in Pos, BreakContainer(p) PROVE RestInv'
  BY <1>6, BreakRests
<1>7. ASSUME NEW p \in Pos, NEW kind \in Kinds, PlaceContainer(p, kind) PROVE RestInv'
  BY <1>7, PlaceRests
<1>8. ASSUME NEW c \in Conn, NEW i \in Items, PickUp(c, i) PROVE RestInv'
  BY <1>8, PickUpRests
<1>9. ASSUME NEW p \in Pos, SmeltStored(p) PROVE RestInv'
  BY <1>9, SmeltStoredRests
<1> QED BY <1>1, <1>2, <1>3, <1>4, <1>5, <1>6, <1>7, <1>8, <1>9 DEF Next

\* Every client shows what the server has, or will once it has received what is
\* under way to it, or made the one click under way from that.
THEOREM AlwaysRests == ASSUME MaxSyncs <= Ids PROVE Spec => []RestInv
<1>1. Init => RestInv
  BY InitRests
<1>2. Typed /\ ByIds /\ RestInv /\ [Next]_vars => RestInv'
  BY NextRests
<1> QED BY <1>1, <1>2, AlwaysTyped, AlwaysByIds, PTL DEF Spec

\* A client with nothing under way shows what the server has.
LEMMA RestsAgree == ASSUME Typed, RestInv PROVE RestingClientAgrees
<1> SUFFICES ASSUME NEW c \in Conn, life[c] = "on", clicks[c] = <<>>, syncs[c] = <<>>, c \notin crossed
             PROVE  /\ view[c].id = win[c].id
                    /\ \A x \in InvCells \union (IF Open(c) THEN BoxCells ELSE {}) :
                         view[c].cells[x] = Cells(c)[x]
  BY DEF RestingClientAgrees
<1> DEFINE v == view[c]
           w == win[c]
           e == inv[c]
<1>1. NoClick(<<>>) /\ ~Gone(<<>>, Len(<<>>), w) /\ ~Gone(<<>>, 0, w)
  BY DEF NoClick, Gone
<1>2. Rests(<<>>, <<>>, v, w, e) /\ v \in Views
  BY DEF RestInv, RestOf, Typed, ClientsTyped
<1>3. Shows(v, w, e, FALSE)
  <2> DEFINE gone == Gone(<<>>, Len(<<>>), w)
  <2>1. gone = FALSE
    BY <1>1
  <2>2. Ends(<<>>, v, w, e, gone)
    BY <1>1, <1>2 DEF Rests
  <2> HIDE DEF gone, v, w, e
  <2>3. Shows(v, w, e, gone)
    BY <1>2, <2>2, EndsNone
  <2> QED BY <2>1, <2>3
<1>4. /\ \A x \in InvCells : v.cells[x] = e[x]
      /\ v.id = w.id
      /\ v.id # 0 => \A x \in BoxCells : v.cells[x] = w.box[x]
  BY <1>3 DEF Shows
<1>5. (\A x \in InvCells : Cells(c)[x] = e[x]) /\ (\A x \in BoxCells : Cells(c)[x] = w.box[x])
  BY CellsTyped DEF Typed
<1> HIDE DEF v
<1>6. Open(c) => v.id # 0
  BY <1>4 DEF Open
<1>7. view[c].id = w.id /\ view[c] = v
  BY <1>4 DEF v
<1> QED BY <1>4, <1>5, <1>6, <1>7

\* What a client shows is the server's whenever nothing is under way between
\* them: the whole inventory, and of an open window every cell (send_window,
\* handle_click, handle_close, which answer every click and every change).
THEOREM RestingClientAgreesCorrect == ASSUME MaxSyncs <= Ids PROVE Spec => []RestingClientAgrees
<1>1. Typed /\ RestInv => RestingClientAgrees
  BY RestsAgree
<1> QED BY <1>1, AlwaysTyped, AlwaysRests, PTL
=============================================================================
