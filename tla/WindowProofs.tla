----------------------------- MODULE WindowProofs -----------------------------
(***************************************************************************)
(* Theorems about Windows.tla, for every number of players, containers,    *)
(* window ids and main cells and every stack size: the type invariant, and *)
(* that a player's file and a container keep what the player and the       *)
(* windows have (KeptDurable).                                             *)
(*                                                                         *)
(* The operators that move goods come first, without any variable: each    *)
(* keeps the amount of goods in the cells it works on.  The folds among    *)
(* them are walked element by element with CountUp (ListLemmas.tla).       *)
(***************************************************************************)
EXTENDS Windows, ListLemmas

-----------------------------------------------------------------------------
(* Stacks.                                                                 *)

\* The constants are what they are assumed to be.
LEMMA Sizes ==
    /\ MaxStack \in Nat /\ MaxStack # 0 /\ Ids \in Nat /\ Ids # 0
    /\ MaxClicks \in Nat /\ MaxGoods \in Nat /\ Loose \in Nat /\ MaxSyncs \in Nat
    /\ Raw # Made /\ NoItem # Raw /\ NoItem # Made
    /\ IsFiniteSet(Conn) /\ IsFiniteSet(Pos)
BY WindowsAssumption

MainCells == Range(Main)
Cell == InvCells \cup BoxCells

\* The main cells are none of the cells with names.
LEMMA MainIsApart ==
    /\ MainCells \subseteq InvCells /\ Main[1] \in MainCells
    /\ \A y \in MainCells : y \notin {"result", "grid", "cursor", "in", "out", "ground", "none"}
    /\ \A i \in 1 .. Len(Main) : Main[i] \in MainCells
    /\ DOMAIN Main = 1 .. Len(Main) /\ Len(Main) \in Nat /\ Len(Main) # 0
<1>1. Main \in Seq(STRING) /\ Main # <<>>
      /\ MainCells \cap {"result", "grid", "cursor", "in", "out", "ground", "none"} = {}
  BY WindowsAssumption DEF MainCells
<1>2. DOMAIN Main = 1 .. Len(Main) /\ Len(Main) \in Nat /\ Len(Main) # 0
  BY <1>1
<1>3. \A i \in 1 .. Len(Main) : Main[i] \in MainCells
  BY <1>2 DEF MainCells, Range
<1>4. MainCells \subseteq InvCells
  BY DEF MainCells, InvCells
<1> QED BY <1>1, <1>2, <1>3, <1>4

\* There are finitely many main cells.
LEMMA MainIsFinite == IsFiniteSet(MainCells)
<1>1. DOMAIN Main = 1 .. Len(Main) /\ Len(Main) \in Nat
  BY MainIsApart
<1>2. IsFiniteSet(1 .. Len(Main))
  BY <1>1, FS_Interval
<1>3. Main \in Surjection(1 .. Len(Main), MainCells)
  BY <1>1, WindowsAssumption DEF MainCells, Range, Surjection
<1> QED BY <1>2, <1>3, FS_Surjection

\* What a stack is: a kind and a number, or nothing.
LEMMA StackIs ==
    ASSUME NEW s \in Stacks
    PROVE  /\ s.n \in 0 .. MaxStack /\ s.item \in {Raw, Made, NoItem}
           /\ s.n = 0 <=> s = Nothing
           /\ s.item = NoItem <=> s = Nothing
           /\ s = [item |-> s.item, n |-> s.n]
BY Sizes DEF Stacks, Nothing, Items

\* Nothing is a stack, the only empty one.
LEMMA NothingIs == Nothing \in Stacks /\ Nothing.n = 0 /\ Nothing.item = NoItem
BY Sizes DEF Stacks, Nothing, Items

\* Stack makes stacks.
LEMMA StackMade ==
    ASSUME NEW i \in Items, NEW n \in 0 .. MaxStack
    PROVE  /\ Stack(i, n) \in Stacks /\ Stack(i, n).n = n
           /\ n # 0 => Stack(i, n).item = i
BY Sizes DEF Stack, Stacks, Nothing

\* Taking part of a stack leaves a stack.
LEMMA LessMade ==
    ASSUME NEW s \in Stacks, NEW k \in 0 .. s.n
    PROVE  /\ Less(s, k) \in Stacks /\ Less(s, k).n = s.n - k
           /\ s.n # k => Less(s, k).item = s.item
<1>1. CASE s = Nothing
  BY <1>1, NothingIs DEF Less, Stack, Nothing
<1>2. CASE s # Nothing
  <2>1. s.item \in Items /\ s.n - k \in 0 .. MaxStack /\ s.n \in 0 .. MaxStack
    BY <1>2, StackIs, Sizes DEF Items
  <2>2. Less(s, k) = Stack(s.item, s.n - k)
    BY DEF Less
  <2>3. s.n # k => s.n - k # 0
    BY <2>1
  <2> QED BY <2>1, <2>2, <2>3, StackMade
<1> QED BY <1>1, <1>2

\* There is room for no more than what comes, nor than a stack may hold.
LEMMA RoomIs ==
    ASSUME NEW s \in Stacks, NEW t \in Stacks
    PROVE  /\ Room(s, t) \in 0 .. t.n /\ s.n + Room(s, t) <= MaxStack
           /\ Room(s, t) # 0 => t.item \in Items /\ s.item \in {NoItem, t.item}
<1>1. s.n \in 0 .. MaxStack /\ t.n \in 0 .. MaxStack /\ MaxStack \in Nat
  BY StackIs, Sizes
<1>2. CASE s = Nothing
  <2>1. Room(s, t) = Lower(t.n, MaxStack)
    BY <1>2 DEF Room
  <2> QED BY <1>1, <1>2, <2>1, StackIs, NothingIs, Sizes DEF Lower, Items
<1>3. CASE s # Nothing /\ s.item = t.item
  <2>1. Room(s, t) = Lower(t.n, MaxStack - s.n)
    BY <1>3 DEF Room
  <2> QED BY <1>1, <1>3, <2>1, StackIs, Sizes DEF Lower, Items
<1>4. CASE s # Nothing /\ s.item # t.item
  <2>1. Room(s, t) = 0
    BY <1>4 DEF Room
  <2> QED BY <1>1, <2>1
<1> QED BY <1>2, <1>3, <1>4

\* What Move may do: nothing, or take m from x to y, which holds the same or
\* nothing.
LEMMA MoveIs ==
    ASSUME NEW D, NEW f \in [D -> Stacks], NEW x \in D, NEW y \in D, x # y, NEW k \in Nat
    PROVE  LET g == Move(f, x, y, k)
           IN  /\ g \in [D -> Stacks]
               /\ \A z \in D : z \notin {x, y} => g[z] = f[z]
               /\ g[x].n + g[y].n = f[x].n + f[y].n
               /\ f[x].n \in Nat /\ f[y].n \in Nat /\ g[x].n \in Nat /\ g[y].n \in Nat
<1> DEFINE m == Lower(k, Room(f[y], f[x]))
           g == [f EXCEPT ![x] = Less(@, m), ![y] = Stack(f[x].item, @.n + m)]
<1>1. f[x] \in Stacks /\ f[y] \in Stacks
  OBVIOUS
<1>2. /\ Room(f[y], f[x]) \in 0 .. f[x].n /\ f[y].n + Room(f[y], f[x]) <= MaxStack
      /\ f[x].n \in Nat /\ f[y].n \in Nat
  BY <1>1, RoomIs, StackIs
<1>3. m \in 0 .. f[x].n /\ f[y].n + m \in 0 .. MaxStack
  BY <1>2, Sizes DEF Lower
<1>4. CASE m = 0
  <2>1. Move(f, x, y, k) = f
    BY <1>4 DEF Move
  <2> QED BY <1>2, <2>1
<1>5. CASE m # 0
  <2>1. Move(f, x, y, k) = g
    BY <1>5 DEF Move
  <2>2. f[x].item \in Items
    <3>1. Room(f[y], f[x]) # 0
      BY <1>2, <1>5 DEF Lower
    <3> QED BY <1>1, <3>1, RoomIs
  <2>3. g[x] = Less(f[x], m) /\ g[y] = Stack(f[x].item, f[y].n + m)
    OBVIOUS
  <2>4. /\ Less(f[x], m) \in Stacks /\ Less(f[x], m).n = f[x].n - m
    BY <1>1, <1>3, LessMade
  <2>5. /\ Stack(f[x].item, f[y].n + m) \in Stacks
        /\ Stack(f[x].item, f[y].n + m).n = f[y].n + m
    BY <1>3, <2>2, StackMade
  <2>6. g \in [D -> Stacks] /\ \A z \in D : z \notin {x, y} => g[z] = f[z]
    <3> HIDE DEF m
    <3> QED BY <2>4, <2>5
  <2> HIDE DEF g, m
  <2> QED BY <1>2, <1>3, <2>1, <2>3, <2>4, <2>5, <2>6
<1> QED BY <1>4, <1>5

\* Moving all that fits.
LEMMA MoveAllIs ==
    ASSUME NEW D, NEW f \in [D -> Stacks], NEW x \in D, NEW y \in D, x # y
    PROVE  LET g == MoveAll(f, x, y)
           IN  /\ g \in [D -> Stacks]
               /\ \A z \in D : z \notin {x, y} => g[z] = f[z]
               /\ g[x].n + g[y].n = f[x].n + f[y].n
               /\ f[x].n \in Nat /\ f[y].n \in Nat /\ g[x].n \in Nat /\ g[y].n \in Nat
BY MoveIs, Sizes DEF MoveAll

\* A stack of one item goes whole, wherever there is room for it.
LEMMA OneMoves ==
    ASSUME NEW D, NEW f \in [D -> Stacks], NEW x \in D, NEW y \in D, x # y, f[x].n = 1
    PROVE  LET g == MoveAll(f, x, y)
           IN  IF Room(f[y], f[x]) = 0 THEN g = f
               ELSE g[x] = Nothing /\ g[y].n = f[y].n + 1
<1>1. f[x] \in Stacks /\ f[y] \in Stacks /\ MaxStack \in Nat \ {0}
  BY Sizes
<1>2. Room(f[y], f[x]) \in 0 .. 1 /\ f[y].n + Room(f[y], f[x]) <= MaxStack /\ f[y].n \in Nat
  <2>1. Room(f[y], f[x]) \in 0 .. f[x].n /\ f[y].n + Room(f[y], f[x]) <= MaxStack
    BY <1>1, RoomIs
  <2>2. f[y].n \in 0 .. MaxStack
    BY <1>1, StackIs
  <2> QED BY <1>1, <2>1, <2>2
<1>3. CASE Room(f[y], f[x]) = 0
  BY <1>1, <1>3 DEF MoveAll, Move, Lower
<1>4. CASE Room(f[y], f[x]) # 0
  <2>1. Room(f[y], f[x]) = 1
    BY <1>2, <1>4
  <2>2. Lower(MaxStack, 1) = 1
    BY <1>1 DEF Lower
  <2>3. MoveAll(f, x, y) = [f EXCEPT ![x] = Less(@, 1), ![y] = Stack(f[x].item, @.n + 1)]
    <3>1. Lower(MaxStack, Room(f[y], f[x])) = 1
      BY <2>1, <2>2
    <3>2. 1 # 0
      OBVIOUS
    <3> QED BY <3>1, <3>2, Zenon DEF MoveAll, Move
  <2>4. f[x].item \in Items
    BY <1>1, <1>4, RoomIs
  <2>5. f[y].n + 1 \in 0 .. MaxStack
    BY <1>2, <2>1
  <2>6. Stack(f[x].item, f[y].n + 1).n = f[y].n + 1
    BY <2>4, <2>5, StackMade
  <2>7. Less(f[x], 1) = Nothing
    BY DEF Less, Stack
  <2> QED BY <1>4, <2>3, <2>6, <2>7
<1> QED BY <1>3, <1>4

\* A recipe makes one item or nothing.
LEMMA RecipeIs ==
    ASSUME NEW s \in Stacks
    PROVE  /\ Recipe(s) \in Stacks
           /\ Recipe(s) # Nothing => s.n \in 1 .. MaxStack /\ Recipe(s).n = 1 /\ Recipe(s).item = Made
           /\ Recipe(s) = Nothing \/ Recipe(s) = Stack(Made, 1)
<1>1. Stack(Made, 1) \in Stacks /\ Stack(Made, 1).n = 1 /\ Stack(Made, 1).item = Made
  BY StackMade, Sizes DEF Items
<1>2. CASE s.item = Raw
  <2>1. s # Nothing
    BY <1>2, NothingIs, Sizes
  <2> QED BY <1>1, <1>2, <2>1, StackIs, Sizes DEF Recipe
<1>3. CASE s.item # Raw
  BY <1>3, NothingIs, Sizes DEF Recipe
<1> QED BY <1>2, <1>3

\* Showing a result changes the result cell alone.
LEMMA WithResultIs ==
    ASSUME NEW D, NEW f \in [D -> Stacks], NEW r, NEW g \in D
    PROVE  /\ WithResult(f, r, g) \in [D -> Stacks]
           /\ \A z \in D : z # r => WithResult(f, r, g)[z] = f[z]
           /\ r \in D => WithResult(f, r, g)[r] = Recipe(f[g])
<1>1. Recipe(f[g]) \in Stacks
  BY RecipeIs
<1> QED BY <1>1 DEF WithResult

-----------------------------------------------------------------------------
(* Goods in cells, and what moving them keeps.                             *)

\* How much there is in the cells U.
Amount(f, U) == SumFunctionOnSet([x \in U |-> f[x].n], U)

\* f after goods moved among the cells U, while the cells W became anything.
Moves(D, U, W, f) ==
    {g \in [D -> Stacks] : /\ \A z \in D \ (U \cup W) : g[z] = f[z]
                           /\ Amount(g, U) = Amount(f, U)}

\* An amount is a number.
LEMMA AmountIsNat ==
    ASSUME NEW U, IsFiniteSet(U), NEW f, \A x \in U : f[x] \in Stacks
    PROVE  Amount(f, U) \in Nat
<1> DEFINE h == [x \in U |-> f[x].n]
<1>1. \A x \in U : h[x] \in Nat
  BY StackIs, Sizes
<1> HIDE DEF h
<1>2. SumFunctionOnSet(h, U) \in Nat
  BY <1>1, SumIsNat
<1> QED BY <1>2 DEF Amount, h

\* Equal stacks amount to the same.
LEMMA AmountSame ==
    ASSUME NEW U, IsFiniteSet(U), NEW f, NEW g, \A x \in U : f[x] \in Stacks,
           \A x \in U : g[x].n = f[x].n
    PROVE  Amount(g, U) = Amount(f, U)
<1> [x \in U |-> f[x].n] = [x \in U |-> g[x].n]
  OBVIOUS
<1> QED BY DEF Amount

\* No cells hold nothing.
LEMMA AmountOfNone == ASSUME NEW f PROVE Amount(f, {}) = 0
BY SumOfNone DEF Amount

\* An amount, one cell apart.
LEMMA AmountAt ==
    ASSUME NEW U, IsFiniteSet(U), NEW f, \A x \in U : f[x] \in Stacks, NEW y \in U
    PROVE  Amount(f, U) = f[y].n + Amount(f, U \ {y})
<1> DEFINE h == [x \in U |-> f[x].n]
           k == [x \in U \ {y} |-> f[x].n]
<1>1. \A x \in U : h[x] \in Nat
  BY StackIs, Sizes
<1>2. h[y] = f[y].n /\ \A x \in U \ {y} : h[x] = k[x]
  OBVIOUS
<1>3. IsFiniteSet(U \ {y})
  BY FS_Subset
<1> HIDE DEF h, k
<1>4. SumFunctionOnSet(h, U) = h[y] + SumFunctionOnSet(h, U \ {y})
  BY <1>1, SumAdd
<1>5. SumFunctionOnSet(k, U \ {y}) = SumFunctionOnSet(h, U \ {y})
  BY <1>1, <1>2, <1>3, SumOfSame
<1> QED BY <1>2, <1>4, <1>5 DEF Amount, h, k

\* The amount in separate cells adds up.
LEMMA AmountOfUnion ==
    ASSUME NEW U, NEW W, IsFiniteSet(U), IsFiniteSet(W), U \cap W = {},
           NEW f, \A x \in U \cup W : f[x] \in Stacks
    PROVE  Amount(f, U \cup W) = Amount(f, U) + Amount(f, W)
<1> DEFINE h == [x \in U \cup W |-> f[x].n]
           k == [x \in U |-> f[x].n]
           l == [x \in W |-> f[x].n]
<1>1. \A x \in U \cup W : h[x] \in Nat
  BY StackIs, Sizes
<1>2. (\A x \in U : h[x] = k[x]) /\ (\A x \in W : h[x] = l[x])
  OBVIOUS
<1> HIDE DEF h, k, l
<1>3. SumFunctionOnSet(h, U \cup W) = SumFunctionOnSet(h, U) + SumFunctionOnSet(h, W)
  BY <1>1, SumOfUnion
<1>4. SumFunctionOnSet(k, U) = SumFunctionOnSet(h, U)
  BY <1>1, <1>2, SumOfSame
<1>5. SumFunctionOnSet(l, W) = SumFunctionOnSet(h, W)
  BY <1>1, <1>2, SumOfSame
<1> QED BY <1>3, <1>4, <1>5 DEF Amount, h, k, l

\* What leaves one cell for another stays in the amount.
LEMMA AmountMoved ==
    ASSUME NEW U, IsFiniteSet(U), NEW f, NEW g, \A x \in U : f[x] \in Stacks /\ g[x] \in Stacks,
           NEW x \in U, NEW y \in U, x # y, f[x].n + f[y].n = g[x].n + g[y].n,
           \A z \in U : z \notin {x, y} => g[z] = f[z]
    PROVE  Amount(g, U) = Amount(f, U)
<1> DEFINE V == (U \ {x}) \ {y}
<1>1. IsFiniteSet(U \ {x}) /\ IsFiniteSet(V) /\ y \in U \ {x}
  BY FS_Subset
<1>2. Amount(f, U) = f[x].n + Amount(f, U \ {x}) /\ Amount(g, U) = g[x].n + Amount(g, U \ {x})
  BY AmountAt
<1>3. Amount(f, U \ {x}) = f[y].n + Amount(f, V) /\ Amount(g, U \ {x}) = g[y].n + Amount(g, V)
  <2> DEFINE X == U \ {x}
  <2>1. IsFiniteSet(X) /\ y \in X /\ \A z \in X : f[z] \in Stacks /\ g[z] \in Stacks
    BY <1>1
  <2> HIDE DEF X
  <2>2. Amount(f, X) = f[y].n + Amount(f, X \ {y}) /\ Amount(g, X) = g[y].n + Amount(g, X \ {y})
    BY <2>1, AmountAt
  <2> QED BY <2>2 DEF X
<1>4. Amount(g, V) = Amount(f, V) /\ Amount(f, V) \in Nat
  <2>1. \A z \in V : f[z] \in Stacks /\ g[z].n = f[z].n
    OBVIOUS
  <2> HIDE DEF V
  <2> QED BY <1>1, <2>1, AmountSame, AmountIsNat
<1>5. f[x].n \in Nat /\ f[y].n \in Nat /\ g[x].n \in Nat /\ g[y].n \in Nat
  BY StackIs, Sizes
<1> HIDE DEF V
<1> QED BY <1>2, <1>3, <1>4, <1>5

\* Changing nothing is a move.
LEMMA MovesSelf ==
    ASSUME NEW D, NEW U, NEW W, NEW f \in [D -> Stacks]
    PROVE  f \in Moves(D, U, W, f)
BY DEF Moves

\* Two moves are a move.
LEMMA MovesOn ==
    ASSUME NEW D, NEW U, NEW W, NEW f, NEW g \in Moves(D, U, W, f), NEW h \in Moves(D, U, W, g)
    PROVE  h \in Moves(D, U, W, f)
BY DEF Moves

\* Move moves.
LEMMA MoveStays ==
    ASSUME NEW D, NEW U \in SUBSET D, NEW W, IsFiniteSet(U), NEW f \in [D -> Stacks],
           NEW x \in U, NEW y \in U, x # y, NEW k \in Nat
    PROVE  Move(f, x, y, k) \in Moves(D, U, W, f)
<1> DEFINE g == Move(f, x, y, k)
<1>1. /\ g \in [D -> Stacks]
      /\ \A z \in D : z \notin {x, y} => g[z] = f[z]
      /\ g[x].n + g[y].n = f[x].n + f[y].n
  BY MoveIs
<1> HIDE DEF g
<1>2. Amount(g, U) = Amount(f, U)
  <2>1. \A z \in U : f[z] \in Stacks /\ g[z] \in Stacks
    BY <1>1
  <2>2. f[x].n + f[y].n = g[x].n + g[y].n /\ \A z \in U : z \notin {x, y} => g[z] = f[z]
    BY <1>1
  <2> QED BY <2>1, <2>2, AmountMoved
<1>3. g \in Moves(D, U, W, f)
  BY <1>1, <1>2 DEF Moves
<1> QED BY <1>3 DEF g

\* After Move there is no more where it moved from.
LEMMA MoveLess ==
    ASSUME NEW D, NEW f \in [D -> Stacks], NEW x \in D, NEW y \in D, x # y, NEW k \in Nat
    PROVE  Move(f, x, y, k)[x].n <= f[x].n /\ Move(f, x, y, k)[y].n >= f[y].n
<1> DEFINE m == Lower(k, Room(f[y], f[x]))
           g == [f EXCEPT ![x] = Less(@, m), ![y] = Stack(f[x].item, @.n + m)]
<1>1. f[x] \in Stacks /\ f[y] \in Stacks /\ f[x].n \in Nat /\ f[y].n \in Nat
  BY StackIs, Sizes
<1>2. Room(f[y], f[x]) \in 0 .. f[x].n /\ f[y].n + Room(f[y], f[x]) <= MaxStack
  BY <1>1, RoomIs
<1>3. m \in 0 .. f[x].n /\ f[y].n + m \in 0 .. MaxStack
  BY <1>1, <1>2, Sizes DEF Lower
<1>4. CASE m = 0
  BY <1>1, <1>4 DEF Move
<1>5. CASE m # 0
  <2>1. Move(f, x, y, k)[x] = Less(f[x], m) /\ Move(f, x, y, k)[y] = Stack(f[x].item, f[y].n + m)
    BY <1>5 DEF Move
  <2>2. Room(f[y], f[x]) # 0
    BY <1>2, <1>5 DEF Lower
  <2>3. f[x].item \in Items
    BY <1>1, <2>2, RoomIs
  <2>4. Less(f[x], m).n = f[x].n - m
    BY <1>1, <1>3, LessMade
  <2>5. Stack(f[x].item, f[y].n + m).n = f[y].n + m
    BY <1>3, <2>3, StackMade
  <2> HIDE DEF m
  <2> QED BY <1>1, <1>3, <2>1, <2>4, <2>5
<1> QED BY <1>4, <1>5

\* A move among some cells is one among more.
LEMMA MovesWider ==
    ASSUME NEW D, NEW V \in SUBSET D, NEW U \in SUBSET V, NEW W, W \cap V = {}, IsFiniteSet(V),
           NEW f \in [D -> Stacks], NEW g \in Moves(D, U, W, f)
    PROVE  g \in Moves(D, V, W, f)
<1>1. IsFiniteSet(U) /\ IsFiniteSet(V \ U)
  BY FS_Subset
<1>2. Amount(g, V \ U) = Amount(f, V \ U)
  <2>1. \A x \in V \ U : f[x] \in Stacks /\ g[x].n = f[x].n
    BY DEF Moves
  <2> QED BY <1>1, <2>1, AmountSame
<1>3. Amount(f, V) = Amount(f, U) + Amount(f, V \ U) /\ Amount(g, V) = Amount(g, U) + Amount(g, V \ U)
  <2>1. U \cup (V \ U) = V /\ U \cap (V \ U) = {}
    OBVIOUS
  <2>2. \A x \in V : f[x] \in Stacks /\ g[x] \in Stacks
    BY DEF Moves
  <2> QED BY <1>1, <2>1, <2>2, AmountOfUnion
<1>4. Amount(g, U) = Amount(f, U) /\ g \in [D -> Stacks] /\ \A z \in D \ (V \cup W) : g[z] = f[z]
  BY DEF Moves
<1> QED BY <1>2, <1>3, <1>4 DEF Moves

-----------------------------------------------------------------------------
(* Absorbing: two walks along the main cells.                              *)

MergeInto(f, x, g, y) == IF f[y] = Nothing THEN g ELSE MoveAll(g, x, y)
FillInto(x, g, y) == IF g[y] = Nothing THEN MoveAll(g, x, y) ELSE g

\* The folds behind Absorb, as functions on sets of places.
MergeWalk(it, f, x) ==
    it = [s \in SUBSET (DOMAIN Main) |->
            IF s = {} THEN f ELSE MergeInto(f, x, it[s \ {Max(s)}], Main[Max(s)])]
FillWalk(it, f, x) ==
    it = [s \in SUBSET (DOMAIN Main) |->
            IF s = {} THEN f ELSE FillInto(x, it[s \ {Max(s)}], Main[Max(s)])]

\* Absorb walks the main cells twice.
LEMMA AbsorbIsWalk ==
    ASSUME NEW f, NEW x
    PROVE  LET a == CHOOSE it : MergeWalk(it, f, x)
               b == CHOOSE it : FillWalk(it, a[DOMAIN Main], x)
           IN  Absorb(f, x) = b[DOMAIN Main]
BY Zenon DEF Absorb, FoldLeft, MapThenFoldSet, MergeWalk, FillWalk, MergeInto, FillInto

\* A walk of n steps exists, and its value after k steps is what the last step
\* made of the one before.
WalkOf(it, n, base, F) ==
    it = [s \in SUBSET (1 .. n) |-> IF s = {} THEN base ELSE F[<<Max(s), it[s \ {Max(s)}]>>]]

\* Max picks the greatest element.
LEMMA MaxInside == ASSUME NEW n \in Nat, NEW s \in SUBSET (1 .. n), s # {} PROVE Max(s) \in s
<1> s \in SUBSET (0 .. n)
  OBVIOUS
<1> QED BY MaxOfBounded

\* Walks along a list exist.
LEMMA WalkExists ==
    ASSUME NEW n \in Nat, NEW T, NEW base \in T, NEW F \in [(1 .. n) \X T -> T]
    PROVE  \E it : WalkOf(it, n, base, F) /\ it \in [SUBSET (1 .. n) -> T]
<1> DEFINE S == 1 .. n
           c == [s \in SUBSET S |-> Max(s)]
<1>1. \A s \in SUBSET S : s # {} => c[s] \in s /\ c[s] = Max(s)
  BY MaxInside
<1>2. IsFiniteSet(S)
  BY FS_Interval
<1>3. PICK g : FoldsUp(g, S, c, T, base, F)
  <2> HIDE DEF c, S
  <2>1. F \in [S \X T -> T]
    BY DEF S
  <2> QED BY <1>1, <1>2, <2>1, FoldExists
<1>4. g \in [SUBSET S -> T]
  BY <1>3 DEF FoldsUp
<1>5. \A s \in SUBSET S : g[s] = IF s = {} THEN base ELSE F[<<Max(s), g[s \ {Max(s)}]>>]
  <2> HIDE DEF c, S
  <2> QED BY <1>1, <1>3 DEF FoldsUp
<1>6. g = [s \in SUBSET S |-> IF s = {} THEN base ELSE F[<<Max(s), g[s \ {Max(s)}]>>]]
  <2> HIDE DEF c, S
  <2> QED BY <1>4, <1>5
<1>7. WalkOf(g, n, base, F)
  BY <1>6 DEF WalkOf
<1> QED BY <1>4, <1>7

\* A walk that starts in T and stays there with every step ends there.
LEMMA WalkStays ==
    ASSUME NEW n \in Nat, NEW T, NEW it, it[{}] \in T,
           \A k \in 1 .. n : it[1 .. (k - 1)] \in T =>
                it[(1 .. k)] \in T
    PROVE  it[1 .. n] \in T
<1> DEFINE K == {k \in 0 .. n : it[1 .. k] \in T}
<1>1. 0 \in K
  <2>1. 1 .. 0 = {}
    OBVIOUS
  <2> QED BY <2>1
<1>2. \A k \in 0 .. n : k < n /\ k \in K => k + 1 \in K
  <2> SUFFICES ASSUME NEW k \in 0 .. n, k < n, it[1 .. k] \in T
               PROVE  it[1 .. (k + 1)] \in T /\ k + 1 \in 0 .. n
    OBVIOUS
  <2>1. k + 1 \in 0 .. n /\ k + 1 \in 1 .. n /\ (k + 1) - 1 = k
    OBVIOUS
  <2> QED BY <2>1
<1> HIDE DEF K
<1>3. \A k \in 0 .. n : k \in K
  BY <1>1, <1>2, CountUp
<1>4. n \in 0 .. n
  OBVIOUS
<1> QED BY <1>3, <1>4 DEF K

\* Steps that stay in T.
MergeSteps(f, x, T) == \A h \in T, y \in MainCells : MergeInto(f, x, h, y) \in T
FillSteps(x, T) == \A h \in T, y \in MainCells : FillInto(x, h, y) \in T

\* The first walk of Absorb.
LEMMA MergeEnds ==
    ASSUME NEW f, NEW x, NEW T, f \in T, MergeSteps(f, x, T)
    PROVE  LET a == CHOOSE it : MergeWalk(it, f, x) IN a[DOMAIN Main] \in T
<1> DEFINE n == Len(Main)
           F == [e \in (1 .. n) \X T |-> MergeInto(f, x, e[2], Main[e[1]])]
           a == CHOOSE it : MergeWalk(it, f, x)
<1>1. DOMAIN Main = 1 .. n /\ n \in Nat /\ \A i \in 1 .. n : Main[i] \in MainCells
  BY MainIsApart
<1>2. F \in [(1 .. n) \X T -> T]
  BY <1>1 DEF MergeSteps
<1>3. \A i \in 1 .. n, h \in T : F[<<i, h>>] = MergeInto(f, x, h, Main[i])
  OBVIOUS
<1>4. PICK g : WalkOf(g, n, f, F) /\ g \in [SUBSET (1 .. n) -> T]
  <2> HIDE DEF n, F
  <2> QED BY <1>1, <1>2, WalkExists
<1>5. \A s \in SUBSET (1 .. n) : s # {} => Max(s) \in 1 .. n /\ s \ {Max(s)} \in SUBSET (1 .. n)
  BY <1>1, MaxInside
<1>6. \A s \in SUBSET (1 .. n) : s # {} =>
         F[<<Max(s), g[s \ {Max(s)}]>>] = MergeInto(f, x, g[s \ {Max(s)}], Main[Max(s)])
  <2> HIDE DEF n, F
  <2> QED BY <1>3, <1>4, <1>5
<1>7. MergeWalk(g, f, x)
  <2>1. g = [s \in SUBSET (1 .. n) |-> IF s = {} THEN f ELSE F[<<Max(s), g[s \ {Max(s)}]>>]]
    BY <1>4 DEF WalkOf
  <2>2. g = [s \in SUBSET (1 .. n) |-> IF s = {} THEN f
                   ELSE MergeInto(f, x, g[s \ {Max(s)}], Main[Max(s)])]
    <3> HIDE DEF n, F
    <3> QED BY <2>1, <1>6
  <2> QED BY <2>2, <1>1 DEF MergeWalk
<1>8. MergeWalk(a, f, x)
  <2> HIDE DEF n, F
  <2> QED BY <1>7
<1>9. \A s \in SUBSET (1 .. n) :
         a[s] = IF s = {} THEN f ELSE MergeInto(f, x, a[s \ {Max(s)}], Main[Max(s)])
  <2> HIDE DEF a, n, F
  <2> QED BY <1>1, <1>8 DEF MergeWalk
<1> HIDE DEF a, n, F
<1>10. \A k \in 1 .. n : a[1 .. (k - 1)] \in T => a[1 .. k] \in T
  <2> SUFFICES ASSUME NEW k \in 1 .. n, a[1 .. (k - 1)] \in T PROVE a[1 .. k] \in T
    OBVIOUS
  <2>1. Max(1 .. k) = k /\ (1 .. k) \ {k} = 1 .. (k - 1) /\ 1 .. k # {} /\ 1 .. k \in SUBSET (1 .. n)
    <3>1. k \in Nat /\ k # 0 /\ 1 .. k \in SUBSET (1 .. n)
      BY <1>1
    <3> QED BY <3>1, MaxOfInterval
  <2>2. a[(1 .. k)] = MergeInto(f, x, a[(1 .. k) \ {Max(1 .. k)}], Main[Max(1 .. k)])
    BY <1>9, <2>1
  <2>3. a[1 .. k] = MergeInto(f, x, a[1 .. (k - 1)], Main[k])
    BY <2>1, <2>2
  <2> QED BY <1>1, <2>3 DEF MergeSteps
<1>11. a[{}] \in T
  BY <1>9
<1>12. a[1 .. n] \in T
  BY <1>1, <1>10, <1>11, WalkStays
<1> QED BY <1>1, <1>12 DEF a

\* The second.
LEMMA FillEnds ==
    ASSUME NEW f, NEW x, NEW T, f \in T, FillSteps(x, T)
    PROVE  LET a == CHOOSE it : FillWalk(it, f, x) IN a[DOMAIN Main] \in T
<1> DEFINE n == Len(Main)
           F == [e \in (1 .. n) \X T |-> FillInto(x, e[2], Main[e[1]])]
           a == CHOOSE it : FillWalk(it, f, x)
<1>1. DOMAIN Main = 1 .. n /\ n \in Nat /\ \A i \in 1 .. n : Main[i] \in MainCells
  BY MainIsApart
<1>2. F \in [(1 .. n) \X T -> T]
  BY <1>1 DEF FillSteps
<1>3. \A i \in 1 .. n, h \in T : F[<<i, h>>] = FillInto(x, h, Main[i])
  OBVIOUS
<1>4. PICK g : WalkOf(g, n, f, F) /\ g \in [SUBSET (1 .. n) -> T]
  <2> HIDE DEF n, F
  <2> QED BY <1>1, <1>2, WalkExists
<1>5. \A s \in SUBSET (1 .. n) : s # {} => Max(s) \in 1 .. n /\ s \ {Max(s)} \in SUBSET (1 .. n)
  BY <1>1, MaxInside
<1>6. \A s \in SUBSET (1 .. n) : s # {} =>
         F[<<Max(s), g[s \ {Max(s)}]>>] = FillInto(x, g[s \ {Max(s)}], Main[Max(s)])
  <2> HIDE DEF n, F
  <2> QED BY <1>3, <1>4, <1>5
<1>7. FillWalk(g, f, x)
  <2>1. g = [s \in SUBSET (1 .. n) |-> IF s = {} THEN f ELSE F[<<Max(s), g[s \ {Max(s)}]>>]]
    BY <1>4 DEF WalkOf
  <2>2. g = [s \in SUBSET (1 .. n) |-> IF s = {} THEN f
                   ELSE FillInto(x, g[s \ {Max(s)}], Main[Max(s)])]
    <3> HIDE DEF n, F
    <3> QED BY <2>1, <1>6
  <2> QED BY <2>2, <1>1 DEF FillWalk
<1>8. FillWalk(a, f, x)
  <2> HIDE DEF n, F
  <2> QED BY <1>7
<1>9. \A s \in SUBSET (1 .. n) :
         a[s] = IF s = {} THEN f ELSE FillInto(x, a[s \ {Max(s)}], Main[Max(s)])
  <2> HIDE DEF a, n, F
  <2> QED BY <1>1, <1>8 DEF FillWalk
<1> HIDE DEF a, n, F
<1>10. \A k \in 1 .. n : a[1 .. (k - 1)] \in T => a[1 .. k] \in T
  <2> SUFFICES ASSUME NEW k \in 1 .. n, a[1 .. (k - 1)] \in T PROVE a[1 .. k] \in T
    OBVIOUS
  <2>1. Max(1 .. k) = k /\ (1 .. k) \ {k} = 1 .. (k - 1) /\ 1 .. k # {} /\ 1 .. k \in SUBSET (1 .. n)
    <3>1. k \in Nat /\ k # 0 /\ 1 .. k \in SUBSET (1 .. n)
      BY <1>1
    <3> QED BY <3>1, MaxOfInterval
  <2>2. a[(1 .. k)] = FillInto(x, a[(1 .. k) \ {Max(1 .. k)}], Main[Max(1 .. k)])
    BY <1>9, <2>1
  <2>3. a[1 .. k] = FillInto(x, a[1 .. (k - 1)], Main[k])
    BY <2>1, <2>2
  <2> QED BY <1>1, <2>3 DEF FillSteps
<1>11. a[{}] \in T
  BY <1>9
<1>12. a[1 .. n] \in T
  BY <1>1, <1>10, <1>11, WalkStays
<1> QED BY <1>1, <1>12 DEF a

\* What Absorb may do to f: move goods between x and the main cells, and never
\* more into x.
LEMMA AbsorbIs ==
    ASSUME NEW D, MainCells \subseteq D, NEW x \in D \ MainCells, NEW f \in [D -> Stacks]
    PROVE  /\ Absorb(f, x) \in Moves(D, MainCells \cup {x}, {}, f)
           /\ Absorb(f, x)[x].n <= f[x].n
<1> DEFINE U == MainCells \cup {x}
           T == {h \in Moves(D, U, {}, f) : h[x].n <= f[x].n}
           a == CHOOSE it : MergeWalk(it, f, x)
           b == CHOOSE it : FillWalk(it, a[DOMAIN Main], x)
<1>1. IsFiniteSet(U) /\ U \in SUBSET D /\ x \in U
  BY MainIsFinite, FS_AddElement
<1>2. f \in T
  <2>1. f[x].n \in Nat
    BY StackIs, Sizes
  <2> QED BY <2>1, MovesSelf
<1>3. \A h \in T, y \in MainCells : MoveAll(h, x, y) \in T
  <2> SUFFICES ASSUME NEW h \in T, NEW y \in MainCells PROVE MoveAll(h, x, y) \in T
    OBVIOUS
  <2>1. h \in [D -> Stacks] /\ x # y /\ y \in U /\ y \in D /\ MaxStack \in Nat
    BY Sizes DEF Moves
  <2>2. Move(h, x, y, MaxStack) \in Moves(D, U, {}, h)
    <3> HIDE DEF U, T
    <3> QED BY <1>1, <2>1, MoveStays
  <2>3. MoveAll(h, x, y) \in Moves(D, U, {}, f)
    <3>1. h \in Moves(D, U, {}, f)
      OBVIOUS
    <3> HIDE DEF U, T
    <3> QED BY <2>2, <3>1, MovesOn DEF MoveAll
  <2>4. MoveAll(h, x, y)[x].n <= h[x].n
    <3> HIDE DEF U, T
    <3> QED BY <2>1, MoveLess, Sizes DEF MoveAll
  <2>5. h[x].n \in Nat /\ f[x].n \in Nat /\ MoveAll(h, x, y)[x].n \in Nat /\ h[x].n <= f[x].n
    <3>1. MoveAll(h, x, y)[x] \in Stacks
      BY <2>3 DEF Moves
    <3> QED BY <2>1, <3>1, StackIs, Sizes
  <2> QED BY <2>3, <2>4, <2>5
<1> HIDE DEF T
<1>4. MergeSteps(f, x, T)
  BY <1>3 DEF MergeSteps, MergeInto
<1>5. FillSteps(x, T)
  BY <1>3 DEF FillSteps, FillInto
<1>6. a[DOMAIN Main] \in T
  <2> HIDE DEF b
  <2> QED BY <1>2, <1>4, MergeEnds
<1>7. b[DOMAIN Main] \in T
  <2> HIDE DEF a
  <2> QED BY <1>5, <1>6, FillEnds
<1>8. Absorb(f, x) = b[DOMAIN Main]
  BY AbsorbIsWalk
<1> HIDE DEF a, b
<1> QED BY <1>7, <1>8 DEF T

\* The goods in all cells but one.
LEMMA AmountBut ==
    ASSUME NEW U, IsFiniteSet(U), NEW x, x \notin U, NEW f, \A y \in U \cup {x} : f[y] \in Stacks
    PROVE  /\ Amount(f, U \cup {x}) = Amount(f, U) + f[x].n
           /\ Amount(f, U) \in Nat /\ f[x].n \in Nat
<1> DEFINE X == U \cup {x}
<1>1. IsFiniteSet(X) /\ x \in X /\ X \ {x} = U /\ \A y \in X : f[y] \in Stacks
  BY FS_AddElement
<1>2. f[x].n \in Nat /\ Amount(f, U) \in Nat
  BY AmountIsNat, StackIs, Sizes
<1> HIDE DEF X
<1>3. Amount(f, X) = f[x].n + Amount(f, X \ {x})
  BY <1>1, AmountAt
<1>4. Amount(f, X) = f[x].n + Amount(f, U)
  BY <1>1, <1>3
<1> QED BY <1>2, <1>4 DEF X

-----------------------------------------------------------------------------
(* Crafting, smelting and what a player has.                               *)

\* One more crafting of CraftToMain, which also walks.
CraftInto(r, g, h) ==
    LET a == Absorb(WithResult(h, r, g), r)
    IN  IF Recipe(h[g]) = Nothing \/ a[r] # Nothing THEN h ELSE [a EXCEPT ![g] = Less(@, 1)]
CraftWalk(it, f, r, g) ==
    it = [s \in SUBSET (DOMAIN [i \in 1 .. MaxStack |-> i]) |->
            IF s = {} THEN f ELSE CraftInto(r, g, it[s \ {Max(s)}])]
CraftSteps(r, g, T) == \A h \in T : CraftInto(r, g, h) \in T

\* CraftToMain repeats its step MaxStack times.
LEMMA CraftIsWalk ==
    ASSUME NEW f, NEW r, NEW g
    PROVE  LET a == CHOOSE it : CraftWalk(it, f, r, g)
           IN  CraftToMain(f, r, g) = WithResult(a[DOMAIN [i \in 1 .. MaxStack |-> i]], r, g)
BY Zenon DEF CraftToMain, FoldLeft, MapThenFoldSet, CraftWalk, CraftInto

\* The walk of CraftToMain.
LEMMA CraftEnds ==
    ASSUME NEW f, NEW r, NEW g, NEW T, f \in T, CraftSteps(r, g, T)
    PROVE  LET a == CHOOSE it : CraftWalk(it, f, r, g) IN a[DOMAIN [i \in 1 .. MaxStack |-> i]] \in T
<1> DEFINE n == MaxStack
           F == [e \in (1 .. n) \X T |-> CraftInto(r, g, e[2])]
           a == CHOOSE it : CraftWalk(it, f, r, g)
<1>1. DOMAIN [i \in 1 .. MaxStack |-> i] = 1 .. n /\ n \in Nat
  BY Sizes
<1>2. F \in [(1 .. n) \X T -> T]
  BY <1>1 DEF CraftSteps
<1>3. \A i \in 1 .. n, h \in T : F[<<i, h>>] = CraftInto(r, g, h)
  OBVIOUS
<1>4. PICK it : WalkOf(it, n, f, F) /\ it \in [SUBSET (1 .. n) -> T]
  <2> HIDE DEF n, F
  <2> QED BY <1>1, <1>2, WalkExists
<1>5. \A s \in SUBSET (1 .. n) : s # {} => Max(s) \in 1 .. n /\ s \ {Max(s)} \in SUBSET (1 .. n)
  BY <1>1, MaxInside
<1>6. \A s \in SUBSET (1 .. n) : s # {} =>
         F[<<Max(s), it[s \ {Max(s)}]>>] = CraftInto(r, g, it[s \ {Max(s)}])
  <2> HIDE DEF n, F
  <2> QED BY <1>3, <1>4, <1>5
<1>7. CraftWalk(it, f, r, g)
  <2>1. it = [s \in SUBSET (1 .. n) |-> IF s = {} THEN f ELSE F[<<Max(s), it[s \ {Max(s)}]>>]]
    BY <1>4 DEF WalkOf
  <2>2. it = [s \in SUBSET (1 .. n) |-> IF s = {} THEN f
                   ELSE CraftInto(r, g, it[s \ {Max(s)}])]
    <3> HIDE DEF n, F
    <3> QED BY <2>1, <1>6
  <2> QED BY <2>2, <1>1 DEF CraftWalk
<1>8. CraftWalk(a, f, r, g)
  <2> HIDE DEF n, F
  <2> QED BY <1>7
<1>9. \A s \in SUBSET (1 .. n) :
         a[s] = IF s = {} THEN f ELSE CraftInto(r, g, a[s \ {Max(s)}])
  <2> HIDE DEF a, n, F
  <2> QED BY <1>1, <1>8 DEF CraftWalk
<1> HIDE DEF a, n, F
<1>10. \A k \in 1 .. n : a[1 .. (k - 1)] \in T => a[1 .. k] \in T
  <2> SUFFICES ASSUME NEW k \in 1 .. n, a[1 .. (k - 1)] \in T PROVE a[1 .. k] \in T
    OBVIOUS
  <2>1. Max(1 .. k) = k /\ (1 .. k) \ {k} = 1 .. (k - 1) /\ 1 .. k # {} /\ 1 .. k \in SUBSET (1 .. n)
    <3>1. k \in Nat /\ k # 0 /\ 1 .. k \in SUBSET (1 .. n)
      BY <1>1
    <3> QED BY <3>1, MaxOfInterval
  <2>2. a[(1 .. k)] = CraftInto(r, g, a[(1 .. k) \ {Max(1 .. k)}])
    BY <1>9, <2>1
  <2>3. a[1 .. k] = CraftInto(r, g, a[1 .. (k - 1)])
    BY <2>1, <2>2
  <2> QED BY <1>1, <2>3 DEF CraftSteps
<1>11. a[{}] \in T
  BY <1>9
<1>12. a[1 .. n] \in T
  BY <1>1, <1>10, <1>11, WalkStays
<1> QED BY <1>1, <1>12 DEF a

\* Crafting moves goods from the grid g to the main cells, and remakes r.
LEMMA CraftIs ==
    ASSUME NEW D, MainCells \subseteq D, NEW r \in D \ MainCells, NEW g \in D \ MainCells, r # g,
           NEW f \in [D -> Stacks]
    PROVE  CraftToMain(f, r, g) \in Moves(D, MainCells \cup {g}, {r}, f)
<1> DEFINE V == MainCells \cup {g}
           T == Moves(D, V, {r}, f)
           dom == DOMAIN [i \in 1 .. MaxStack |-> i]
           a == CHOOSE it : CraftWalk(it, f, r, g)
<1>1. IsFiniteSet(MainCells) /\ IsFiniteSet(V) /\ V \subseteq D /\ r \notin V
  BY MainIsFinite, FS_AddElement
<1>2. f \in T
  BY MovesSelf
<1>3. \A h \in T : WithResult(h, r, g) \in T
  <2> SUFFICES ASSUME NEW h \in T PROVE WithResult(h, r, g) \in T
    OBVIOUS
  <2>1. h \in [D -> Stacks]
    BY DEF Moves
  <2>2. WithResult(h, r, g) \in [D -> Stacks] /\ \A z \in D : z # r => WithResult(h, r, g)[z] = h[z]
    BY <2>1, WithResultIs
  <2>3. Amount(WithResult(h, r, g), V) = Amount(h, V)
    <3>1. \A x \in V : h[x] \in Stacks /\ WithResult(h, r, g)[x].n = h[x].n
      BY <1>1, <2>1, <2>2
    <3> HIDE DEF V
    <3> QED BY <1>1, <3>1, AmountSame
  <2> HIDE DEF V
  <2> QED BY <1>1, <2>2, <2>3 DEF Moves
<1>4. \A h \in T : CraftInto(r, g, h) \in T
  <2> SUFFICES ASSUME NEW h \in T, Recipe(h[g]) # Nothing, Absorb(WithResult(h, r, g), r)[r] = Nothing
               PROVE  CraftInto(r, g, h) \in T
    <3> HIDE DEF T
    <3> QED BY DEF CraftInto
  <2> DEFINE w == WithResult(h, r, g)
             b == Absorb(w, r)
             d == [b EXCEPT ![g] = Less(@, 1)]
  <2>1. h \in [D -> Stacks] /\ w \in [D -> Stacks] /\ w[r] = Recipe(h[g]) /\ w[r].n = 1 /\ h[g].n \in 1 .. MaxStack
        /\ \A z \in D : z # r => w[z] = h[z]
    <3>1. h \in [D -> Stacks]
      BY DEF Moves
    <3>2. h[g] \in Stacks
      BY <3>1
    <3> QED BY <3>1, <3>2, WithResultIs, RecipeIs
  <2>2. b \in Moves(D, MainCells \cup {r}, {}, w)
    <3> HIDE DEF w
    <3> QED BY <2>1, AbsorbIs
  <2>3. CraftInto(r, g, h) = d
    BY DEF CraftInto
  <2> HIDE DEF w, b
  <2>4. b \in [D -> Stacks] /\ \A z \in D \ (MainCells \cup {r}) : b[z] = w[z]
    BY <2>2 DEF Moves
  <2>5. b[r].n = 0
    BY NothingIs DEF b, w
  <2>6. Amount(b, MainCells) = Amount(w, MainCells) + 1
    <3>1. Amount(b, MainCells \cup {r}) = Amount(w, MainCells \cup {r})
      BY <2>2 DEF Moves
    <3>2. /\ Amount(b, MainCells \cup {r}) = Amount(b, MainCells) + b[r].n
          /\ Amount(b, MainCells) \in Nat /\ b[r].n \in Nat
      BY <1>1, <2>4, AmountBut
    <3>3. /\ Amount(w, MainCells \cup {r}) = Amount(w, MainCells) + w[r].n
          /\ Amount(w, MainCells) \in Nat /\ w[r].n \in Nat
      BY <1>1, <2>1, AmountBut
    <3>4. w[r].n = 1
      BY <2>1
    <3>5. Amount(b, MainCells) + b[r].n = Amount(w, MainCells) + w[r].n
      BY <3>1, <3>2, <3>3, Zenon
    <3> QED BY <2>5, <3>2, <3>3, <3>4, <3>5
  <2>7. d \in [D -> Stacks] /\ d[g].n = h[g].n - 1 /\ \A z \in D : z # g => d[z] = b[z]
    <3>1. b[g] = h[g]
      BY <2>1, <2>4
    <3>2. h[g] \in Stacks /\ 1 \in 0 .. h[g].n
      BY <2>1
    <3>3. Less(b[g], 1) \in Stacks /\ Less(b[g], 1).n = h[g].n - 1
      BY <3>1, <3>2, LessMade
    <3> QED BY <2>4, <3>3
  <2>8. Amount(d, V) = Amount(h, V)
    <3>1. Amount(d, V) = d[g].n + Amount(d, MainCells) /\ Amount(h, V) = h[g].n + Amount(h, MainCells)
      <4>1. g \in V /\ V \ {g} = MainCells /\ \A x \in V : d[x] \in Stacks /\ h[x] \in Stacks
        BY <1>1, <2>1, <2>7
      <4> HIDE DEF V, d
      <4>2. Amount(d, V) = d[g].n + Amount(d, V \ {g}) /\ Amount(h, V) = h[g].n + Amount(h, V \ {g})
        BY <1>1, <4>1, AmountAt
      <4> QED BY <4>1, <4>2
    <3>2. Amount(d, MainCells) = Amount(b, MainCells) /\ Amount(w, MainCells) = Amount(h, MainCells)
      <4>1. \A x \in MainCells : b[x] \in Stacks /\ d[x].n = b[x].n /\ h[x] \in Stacks /\ w[x].n = h[x].n
        BY <2>1, <2>4, <2>7
      <4> QED BY <1>1, <4>1, AmountSame
    <3>3. Amount(h, MainCells) \in Nat /\ h[g].n \in Nat
      <4>1. \A x \in MainCells : h[x] \in Stacks
        BY <2>1
      <4> QED BY <1>1, <2>1, <4>1, AmountIsNat
    <3> HIDE DEF d, V
    <3> QED BY <2>6, <2>7, <3>1, <3>2, <3>3
  <2>9. \A z \in D \ (V \cup {r}) : d[z] = f[z]
    <3>1. \A z \in D \ (V \cup {r}) : h[z] = f[z]
      BY DEF Moves
    <3> HIDE DEF d
    <3> QED BY <2>1, <2>4, <2>7, <3>1
  <2>10. Amount(h, V) = Amount(f, V)
    BY DEF Moves
  <2>11. d \in T
    <3> HIDE DEF d, V
    <3> QED BY <2>7, <2>8, <2>9, <2>10 DEF Moves
  <2> QED BY <2>3, <2>11
<1>5. CraftSteps(r, g, T)
  BY <1>4 DEF CraftSteps
<1>6. a[dom] \in T
  <2> HIDE DEF T
  <2> QED BY <1>2, <1>5, CraftEnds
<1>7. CraftToMain(f, r, g) = WithResult(a[dom], r, g)
  BY CraftIsWalk
<1> HIDE DEF a, dom, T
<1>8. CraftToMain(f, r, g) \in T
  BY <1>3, <1>6, <1>7
<1> QED BY <1>8 DEF T

\* Taking a result moves what the grid makes to the cursor.
LEMMA TakeIs ==
    ASSUME NEW D, "cursor" \in D, NEW r \in D, NEW g \in D, r # g, r # "cursor", g # "cursor",
           NEW f \in [D -> Stacks]
    PROVE  Take(f, r, g) \in Moves(D, {g, "cursor"}, {r}, f)
<1> DEFINE V == {g, "cursor"}
           h == [f EXCEPT ![r] = Recipe(f[g])]
           a == MoveAll(h, r, "cursor")
           b == [a EXCEPT ![g] = Less(@, 1)]
<1>1. IsFiniteSet(V) /\ V \subseteq D /\ r \notin V /\ g \in V /\ "cursor" \in V
  <2>1. IsFiniteSet({g} \cup {"cursor"})
    BY FS_Singleton, FS_AddElement
  <2>2. {g} \cup {"cursor"} = V
    OBVIOUS
  <2> QED BY <2>1, <2>2
<1>2. f[g] \in Stacks /\ Recipe(f[g]) \in Stacks
  BY RecipeIs
<1>3. h \in [D -> Stacks] /\ h[r] = Recipe(f[g]) /\ \A z \in D : z # r => h[z] = f[z]
  BY <1>2
<1>4. Amount(h, V) = Amount(f, V)
  <2>1. \A x \in V : f[x] \in Stacks /\ h[x].n = f[x].n
    BY <1>1, <1>3
  <2> HIDE DEF V, h
  <2> QED BY <1>1, <2>1, AmountSame
<1>5. h \in Moves(D, V, {r}, f)
  <2> HIDE DEF V, h
  <2> QED BY <1>3, <1>4 DEF Moves
<1>6. CASE h[r] = Nothing \/ Room(f["cursor"], h[r]) = 0
  <2>1. Take(f, r, g) = h
    BY <1>6 DEF Take
  <2> QED BY <1>5, <2>1
<1>7. CASE h[r] # Nothing /\ Room(f["cursor"], h[r]) # 0
  <2>1. Take(f, r, g) = WithResult(b, r, g)
    BY <1>7 DEF Take
  <2>2. h[r].n = 1 /\ f[g].n \in 1 .. MaxStack
    BY <1>2, <1>3, <1>7, RecipeIs
  <2>3. a \in [D -> Stacks] /\ a["cursor"].n = f["cursor"].n + 1
        /\ \A z \in D : z \notin {r, "cursor"} => a[z] = f[z]
    <3>1. h["cursor"] = f["cursor"]
      BY <1>3
    <3>2. a \in [D -> Stacks] /\ \A z \in D : z \notin {r, "cursor"} => a[z] = h[z]
      <4> HIDE DEF h
      <4> QED BY <1>3, MoveAllIs
    <3>3. a["cursor"].n = h["cursor"].n + 1
      <4> HIDE DEF h
      <4> QED BY <1>3, <1>7, <2>2, <3>1, OneMoves
    <3> HIDE DEF h, a
    <3> QED BY <1>3, <3>1, <3>2, <3>3
  <2>4. b \in [D -> Stacks] /\ b[g].n = f[g].n - 1 /\ b["cursor"].n = f["cursor"].n + 1
        /\ \A z \in D : z \notin {r, g, "cursor"} => b[z] = f[z]
    <3>1. a[g] = f[g] /\ 1 \in 0 .. f[g].n
      <4> HIDE DEF a, h
      <4>1. a[g] = f[g]
        BY <2>3
      <4>2. 1 \in 0 .. f[g].n
        BY <2>2, Sizes
      <4> QED BY <4>1, <4>2
    <3>2. Less(a[g], 1) \in Stacks /\ Less(a[g], 1).n = f[g].n - 1
      BY <1>2, <3>1, LessMade
    <3> HIDE DEF a
    <3> QED BY <2>3, <3>2
  <2> HIDE DEF a, b, h
  <2>5. WithResult(b, r, g) \in [D -> Stacks] /\ \A z \in D : z # r => WithResult(b, r, g)[z] = b[z]
    BY <2>4, WithResultIs
  <2>6. Amount(WithResult(b, r, g), V) = Amount(f, V)
    <3> DEFINE w == WithResult(b, r, g)
    <3>1. w[g].n = f[g].n - 1 /\ w["cursor"].n = f["cursor"].n + 1
      BY <2>4, <2>5
    <3>2. \A x \in V : f[x] \in Stacks /\ w[x] \in Stacks
      BY <1>1, <2>5
    <3>3. f[g].n + f["cursor"].n = w[g].n + w["cursor"].n
      <4>1. f[g].n \in Nat /\ f["cursor"].n \in Nat
        BY <1>2, StackIs, Sizes
      <4> HIDE DEF w
      <4> QED BY <3>1, <4>1
    <3>4. \A z \in V : z \notin {g, "cursor"} => w[z] = f[z]
      OBVIOUS
    <3> HIDE DEF w, V
    <3>5. Amount(w, V) = Amount(f, V)
      BY <1>1, <3>2, <3>3, <3>4, AmountMoved
    <3> QED BY <3>5 DEF w
  <2>7. \A z \in D \ (V \cup {r}) : WithResult(b, r, g)[z] = f[z]
    BY <2>4, <2>5
  <2>8. WithResult(b, r, g) \in Moves(D, V, {r}, f)
    <3> HIDE DEF V
    <3> QED BY <2>5, <2>6, <2>7 DEF Moves
  <2> QED BY <2>1, <2>8
<1> QED BY <1>6, <1>7

\* A furnace keeps what it holds.
LEMMA SmeltedIs ==
    ASSUME NEW b \in Boxes
    PROVE  Smelted(b) \in Boxes /\ InBox(Smelted(b)) = InBox(b) /\ InBox(b) \in Nat
<1>1. b["in"] \in Stacks /\ b["out"] \in Stacks /\ b["in"].n \in 0 .. MaxStack /\ b["out"].n \in 0 .. MaxStack
  BY StackIs DEF Boxes, BoxCells
<1>2. CASE Recipe(b["in"]) = Nothing \/ Room(b["out"], Recipe(b["in"])) = 0
  BY <1>1, <1>2, Sizes DEF Smelted, InBox
<1>3. CASE Recipe(b["in"]) # Nothing /\ Room(b["out"], Recipe(b["in"])) # 0
  <2> DEFINE made == Recipe(b["in"])
  <2>1. made \in Stacks /\ made.n = 1 /\ b["in"].n \in 1 .. MaxStack
    BY <1>1, <1>3, RecipeIs
  <2>2. Room(b["out"], made) \in 0 .. made.n /\ b["out"].n + Room(b["out"], made) <= MaxStack
    BY <1>1, <2>1, RoomIs
  <2>3. b["out"].n + 1 \in 0 .. MaxStack
    <3> HIDE DEF made
    <3>1. Room(b["out"], made) = 1
      BY <1>3, <2>1, <2>2 DEF made
    <3> QED BY <1>1, <2>2, <3>1, Sizes
  <2>4. Smelted(b) = [in |-> Less(b["in"], 1), out |-> Stack(Made, b["out"].n + 1)]
    BY <1>3 DEF Smelted
  <2>5. Less(b["in"], 1) \in Stacks /\ Less(b["in"], 1).n = b["in"].n - 1
    BY <1>1, <2>1, LessMade
  <2>6. Stack(Made, b["out"].n + 1) \in Stacks /\ Stack(Made, b["out"].n + 1).n = b["out"].n + 1
    BY <2>3, StackMade DEF Items
  <2>7. Smelted(b) \in Boxes
    BY <2>4, <2>5, <2>6 DEF Boxes, BoxCells
  <2> QED BY <1>1, <2>1, <2>4, <2>5, <2>6, <2>7, Sizes DEF InBox
<1> QED BY <1>2, <1>3

\* The sum over the main cells that OfPlayer walks.
CountWalk(it, f) ==
    it = [s \in SUBSET (DOMAIN Main) |-> IF s = {} THEN 0 ELSE it[s \ {Max(s)}] + f[Main[Max(s)]].n]

\* OfPlayer adds up the main cells.
LEMMA OfPlayerIsWalk ==
    ASSUME NEW f, NEW e
    PROVE  LET a == CHOOSE it : CountWalk(it, f)
           IN  OfPlayer(f, e) = f["grid"].n + f["cursor"].n + e.n + a[DOMAIN Main]
BY Zenon DEF OfPlayer, FoldLeft, MapThenFoldSet, CountWalk

\* What the player has: all but the result cell.
Kept == MainCells \cup {"grid", "cursor"}

\* OfPlayer is the amount in the kept cells and the ender chest.
LEMMA OfPlayerIs ==
    ASSUME NEW f, \A x \in Kept : f[x] \in Stacks, NEW e
    PROVE  OfPlayer(f, e) = f["grid"].n + f["cursor"].n + e.n + Amount(f, MainCells)
<1> DEFINE n == Len(Main)
           F == [p \in (1 .. n) \X Nat |-> p[2] + f[Main[p[1]]].n]
           a == CHOOSE it : CountWalk(it, f)
<1>1. DOMAIN Main = 1 .. n /\ n \in Nat /\ \A i \in 1 .. n : Main[i] \in MainCells
  BY MainIsApart
<1>2. \A i \in 1 .. n : f[Main[i]] \in Stacks /\ f[Main[i]].n \in Nat
  BY <1>1, StackIs, Sizes DEF Kept
<1>3. F \in [(1 .. n) \X Nat -> Nat] /\ \A i \in 1 .. n, h \in Nat : F[<<i, h>>] = h + f[Main[i]].n
  BY <1>2
<1>4. PICK g : WalkOf(g, n, 0, F) /\ g \in [SUBSET (1 .. n) -> Nat]
  <2> HIDE DEF n, F
  <2> QED BY <1>1, <1>3, WalkExists
<1>5. \A s \in SUBSET (1 .. n) : s # {} => Max(s) \in 1 .. n /\ s \ {Max(s)} \in SUBSET (1 .. n)
  BY <1>1, MaxInside
<1>6. \A s \in SUBSET (1 .. n) : s # {} =>
         F[<<Max(s), g[s \ {Max(s)}]>>] = g[s \ {Max(s)}] + f[Main[Max(s)]].n
  <2> SUFFICES ASSUME NEW s \in SUBSET (1 .. n), s # {}
               PROVE  F[<<Max(s), g[s \ {Max(s)}]>>] = g[s \ {Max(s)}] + f[Main[Max(s)]].n
    OBVIOUS
  <2> DEFINE i == Max(s)
             t == s \ {i}
  <2> HIDE DEF n, F
  <2>1. i \in 1 .. n /\ t \in SUBSET (1 .. n)
    BY <1>5
  <2> HIDE DEF i, t
  <2>2. g[t] \in Nat
    BY <1>4, <2>1
  <2>3. F[<<i, g[t]>>] = g[t] + f[Main[i]].n
    BY <1>3, <2>1, <2>2
  <2> QED BY <2>3 DEF i, t
<1>7. CountWalk(g, f)
  <2>1. g = [s \in SUBSET (1 .. n) |-> IF s = {} THEN 0 ELSE F[<<Max(s), g[s \ {Max(s)}]>>]]
    BY <1>4, Zenon DEF WalkOf
  <2>2. g = [s \in SUBSET (1 .. n) |-> IF s = {} THEN 0 ELSE g[s \ {Max(s)}] + f[Main[Max(s)]].n]
    <3> HIDE DEF n, F
    <3> QED BY <2>1, <1>6
  <2> QED BY <2>2, <1>1 DEF CountWalk
<1>8. CountWalk(a, f)
  <2> HIDE DEF n, F
  <2> QED BY <1>7
<1>9. \A s \in SUBSET (1 .. n) :
         a[s] = IF s = {} THEN 0 ELSE a[s \ {Max(s)}] + f[Main[Max(s)]].n
  <2> HIDE DEF a, n, F
  <2> QED BY <1>1, <1>8 DEF CountWalk
<1> HIDE DEF a, F
<1> DEFINE C(k) == {Main[i] : i \in 1 .. k}
           K == {k \in 0 .. n : a[1 .. k] = Amount(f, C(k))}
<1>10. 0 \in K
  <2>1. 1 .. 0 = {} /\ C(0) = {}
    OBVIOUS
  <2>2. a[1 .. 0] = 0
    BY <1>9, <2>1
  <2>3. Amount(f, C(0)) = 0
    BY <2>1, AmountOfNone
  <2> QED BY <1>1, <2>2, <2>3
<1>11. \A k \in 0 .. n : k < n /\ k \in K => k + 1 \in K
  <2> SUFFICES ASSUME NEW k \in 0 .. n, k < n, a[1 .. k] = Amount(f, C(k))
               PROVE  a[1 .. (k + 1)] = Amount(f, C(k + 1)) /\ k + 1 \in 0 .. n
    OBVIOUS
  <2>1. k + 1 \in Nat /\ k + 1 # 0 /\ k + 1 \in 0 .. n /\ k + 1 \in 1 .. n /\ (k + 1) - 1 = k
        /\ 1 .. (k + 1) \in SUBSET (1 .. n)
    BY <1>1
  <2>2. Max(1 .. (k + 1)) = k + 1 /\ (1 .. (k + 1)) \ {k + 1} = 1 .. k /\ 1 .. (k + 1) # {}
    <3> HIDE DEF K
    <3> QED BY <2>1, MaxOfInterval
  <2>3. a[(1 .. (k + 1))] = a[(1 .. (k + 1)) \ {Max(1 .. (k + 1))}] + f[Main[Max(1 .. (k + 1))]].n
    BY <1>9, <2>1, <2>2
  <2>4. a[1 .. (k + 1)] = a[1 .. k] + f[Main[k + 1]].n
    BY <2>2, <2>3
  <2>5. C(k + 1) = C(k) \cup {Main[k + 1]} /\ Main[k + 1] \notin C(k) /\ IsFiniteSet(C(k))
    <3>1. Main[k + 1] \notin C(k)
      <4> SUFFICES ASSUME NEW i \in 1 .. k, Main[i] = Main[k + 1] PROVE FALSE
        OBVIOUS
      <4>1. i \in DOMAIN Main /\ k + 1 \in DOMAIN Main /\ i # k + 1
        BY <1>1, <2>1
      <4> QED BY <4>1, WindowsAssumption DEF IsInjective
    <3>2. C(k + 1) = C(k) \cup {Main[k + 1]}
      <4>1. \A i : i \in 1 .. (k + 1) <=> (i \in 1 .. k \/ i = k + 1)
        BY <2>1
      <4> QED BY <4>1
    <3>3. C(k) \subseteq MainCells
      BY <1>1
    <3> QED BY <3>1, <3>2, <3>3, MainIsFinite, FS_Subset
  <2>6. \A y \in C(k) \cup {Main[k + 1]} : f[y] \in Stacks
    BY <1>2, <2>1
  <2>7. Amount(f, C(k) \cup {Main[k + 1]}) = Amount(f, C(k)) + f[Main[k + 1]].n
    <3> DEFINE X == C(k)
               y == Main[k + 1]
    <3>1. IsFiniteSet(X) /\ y \notin X /\ \A z \in X \cup {y} : f[z] \in Stacks
      <4> HIDE DEF C, K
      <4> QED BY <2>5, <2>6
    <3> HIDE DEF X, y
    <3>2. Amount(f, X \cup {y}) = Amount(f, X) + f[y].n
      BY <3>1, AmountBut
    <3> QED BY <3>2 DEF X, y
  <2> HIDE DEF C
  <2> QED BY <2>1, <2>4, <2>5, <2>7
<1>12. n \in K
  <2> HIDE DEF K
  <2>1. \A k \in 0 .. n : k \in K
    BY <1>1, <1>10, <1>11, CountUp
  <2> QED BY <1>1, <2>1
<1>13. C(n) = MainCells
  BY <1>1 DEF MainCells, Range
<1>14. a[DOMAIN Main] = Amount(f, MainCells)
  <2>1. a[1 .. n] = Amount(f, C(n))
    BY <1>12
  <2> QED BY <1>1, <1>13, <2>1
<1>15. OfPlayer(f, e) = f["grid"].n + f["cursor"].n + e.n + a[DOMAIN Main]
  <2> HIDE DEF n, K, C
  <2> QED BY OfPlayerIsWalk DEF a
<1> QED BY <1>14, <1>15

-----------------------------------------------------------------------------
(* Types.                                                                  *)

\* The cells whose contents come with a window.
ContentCells == BoxCells \cup {"cursor"} \cup MainCells
\* What a client names in a click.
Named == UNION {[N -> Stacks] : N \in SUBSET Cell}
Packets == [type : {"click"}, id : 0 .. Ids, mode : {"pickup", "quick", "throw"},
            cell : Cell, new : Named, seen : Named]
           \cup [type : {"close"}, id : 0 .. Ids]
Messages == [type : {"contents"}, id : {0}, cells : Inventories]
            \cup [type : {"contents"}, id : 1 .. Ids, cells : [ContentCells -> Stacks]]
            \cup [type : {"open"}, id : 1 .. Ids, kind : Kinds, cells : [ContentCells -> Stacks]]
            \cup [type : {"close"}, id : 1 .. Ids]
Windows == {Closed} \cup [id : 1 .. Ids, kind : Kinds, pos : Pos, box : Boxes, dirty : BOOLEAN]
Views == [id : {0}, kind : {"none"}, cells : [Cell -> Stacks]]
         \cup [id : 1 .. Ids, kind : Kinds, cells : [Cell -> Stacks]]

WorldTyped == /\ block \in [Pos -> Kinds \cup {"air"}]
              /\ be \in [Pos -> Boxes \cup {NoBox}]
              /\ win \in [Conn -> Windows]
              /\ lastId \in [Conn -> 1 .. Ids]
GoodsTyped == /\ inv \in [Conn -> Inventories] /\ ender \in [Conn -> Stacks]
              /\ file \in [Conn -> [inv : Inventories, ender : Stacks]]
              /\ ground \in [Items -> Nat]
LifeTyped == /\ life \in [Conn -> {"on", "closing", "off"}] /\ dead \in SUBSET Conn
             /\ crossed \in SUBSET Conn
ClientsTyped == /\ view \in [Conn -> Views]
                /\ clicks \in [Conn -> Seq(Packets)]
                /\ syncs \in [Conn -> Seq(Messages)]
Typed == WorldTyped /\ GoodsTyped /\ LifeTyped /\ ClientsTyped

\* The sets of cells.
LEMMA CellsAre ==
    /\ MainCells \subseteq InvCells /\ InvCells \subseteq Cell /\ BoxCells \subseteq Cell
    /\ InvCells = MainCells \cup {"result", "grid", "cursor"} /\ BoxCells = {"in", "out"}
    /\ InvCells \cap BoxCells = {} /\ "none" \notin Cell
    /\ Kept \subseteq InvCells /\ "result" \notin Kept /\ Kept = MainCells \cup {"grid", "cursor"}
    /\ "grid" \notin MainCells /\ "cursor" \notin MainCells /\ "result" \notin MainCells
    /\ "in" \notin MainCells /\ "out" \notin MainCells /\ "ground" \notin Cell
    /\ Cell = InvCells \cup BoxCells
BY MainIsApart DEF Cell, InvCells, BoxCells, MainCells, Kept

\* There are finitely many cells.
LEMMA CellsAreFinite ==
    IsFiniteSet(Cell) /\ IsFiniteSet(InvCells) /\ IsFiniteSet(BoxCells) /\ IsFiniteSet(Kept)
<1>1. IsFiniteSet(MainCells \cup {"grid"})
  BY MainIsFinite, FS_AddElement
<1>2. IsFiniteSet((MainCells \cup {"grid"}) \cup {"cursor"})
  BY <1>1, FS_AddElement
<1>3. Kept = (MainCells \cup {"grid"}) \cup {"cursor"}
  BY DEF Kept
<1>4. IsFiniteSet(Kept \cup {"result"})
  BY <1>2, <1>3, FS_AddElement
<1>5. InvCells = Kept \cup {"result"}
  BY CellsAre
<1>6. IsFiniteSet({"in"} \cup {"out"})
  BY FS_Singleton, FS_AddElement
<1>7. BoxCells = {"in"} \cup {"out"}
  BY DEF BoxCells
<1>8. IsFiniteSet(InvCells \cup BoxCells)
  BY <1>4, <1>5, <1>6, <1>7, FS_Union
<1> QED BY <1>2, <1>3, <1>4, <1>5, <1>6, <1>7, <1>8 DEF Cell

\* Over and Restrict.
LEMMA OverIs ==
    ASSUME NEW A, NEW B, NEW T, NEW f \in [A -> T], NEW g \in [B -> T]
    PROVE  /\ Over(f, g) \in [A \cup B -> T]
           /\ \A x \in A : Over(f, g)[x] = f[x]
           /\ \A x \in B : x \notin A => Over(f, g)[x] = g[x]
BY DEF Over

\* Restrict keeps the values.
LEMMA RestrictIs ==
    ASSUME NEW A, NEW B \in SUBSET A, NEW T, NEW f \in [A -> T]
    PROVE  Restrict(f, B) \in [B -> T] /\ \A x \in B : Restrict(f, B)[x] = f[x]
BY DEF Restrict

\* Empty inventories and boxes.
LEMMA EmptyIs == /\ EmptyInv \in Inventories /\ EmptyBox \in Boxes
                 /\ \A x \in InvCells : EmptyInv[x] = Nothing
                 /\ \A x \in BoxCells : EmptyBox[x] = Nothing
                 /\ Over(EmptyInv, EmptyBox) \in [Cell -> Stacks]
<1>1. EmptyInv \in [InvCells -> Stacks] /\ EmptyBox \in [BoxCells -> Stacks]
  BY NothingIs DEF EmptyInv, EmptyBox
<1>2. Over(EmptyInv, EmptyBox) \in [InvCells \cup BoxCells -> Stacks]
  BY <1>1, OverIs
<1> QED BY <1>1, <1>2 DEF EmptyInv, EmptyBox, Inventories, Boxes, Cell

\* A window is closed, or open on a kind and a position.
LEMMA WindowIs ==
    ASSUME NEW w \in Windows
    PROVE  /\ w.box \in Boxes /\ w.id \in 0 .. Ids
           /\ w.id = 0 => w = Closed
           /\ w.id # 0 => w.id \in 1 .. Ids /\ w.kind \in Kinds /\ w.pos \in Pos /\ w.dirty \in BOOLEAN
           /\ w.kind \in Kinds \cup {"none"}
           /\ w.kind = "none" <=> w = Closed
           /\ w.id = 0 <=> w.kind = "none"
<1>1. CASE w = Closed
  <2>1. "none" \notin Kinds
    BY WindowsAssumption
  <2>2. w.id = 0 /\ w.kind = "none" /\ w.box = EmptyBox
    BY <1>1 DEF Closed
  <2> QED BY <1>1, <2>1, <2>2, EmptyIs, Sizes
<1>2. CASE w \in [id : 1 .. Ids, kind : Kinds, pos : Pos, box : Boxes, dirty : BOOLEAN]
  <2>1. "none" \notin Kinds
    BY WindowsAssumption
  <2>2. w.id \in 1 .. Ids /\ w.kind \in Kinds /\ w.pos \in Pos /\ w.box \in Boxes /\ w.dirty \in BOOLEAN
    BY <1>2
  <2>3. w.id # 0 /\ w.id \in 0 .. Ids /\ w.kind # "none" /\ w.kind \in Kinds \cup {"none"}
    BY <2>1, <2>2, Sizes
  <2>4. w # Closed
    BY <2>3 DEF Closed
  <2> QED BY <2>2, <2>3, <2>4
<1> QED BY <1>1, <1>2 DEF Windows

\* A window with other contents is a window.
LEMMA WindowMade ==
    ASSUME NEW w \in Windows, w.id # 0, NEW b \in Boxes, NEW d \in BOOLEAN
    PROVE  /\ [w EXCEPT !.box = b, !.dirty = d] \in Windows
           /\ [w EXCEPT !.dirty = d] \in Windows
<1>1. w \in [id : 1 .. Ids, kind : Kinds, pos : Pos, box : Boxes, dirty : BOOLEAN]
  BY DEF Windows, Closed
<1> QED BY <1>1 DEF Windows

\* The cells of a window hold stacks: those of the inventory and of its copy.
LEMMA CellsTyped ==
    ASSUME NEW c \in Conn, WorldTyped, GoodsTyped
    PROVE  /\ Cells(c) \in [Cell -> Stacks]
           /\ \A x \in InvCells : Cells(c)[x] = inv[c][x]
           /\ \A x \in BoxCells : Cells(c)[x] = win[c].box[x]
<1>1. inv[c] \in [InvCells -> Stacks]
  BY DEF GoodsTyped, Inventories
<1>2. win[c].box \in [BoxCells -> Stacks]
  BY WindowIs DEF WorldTyped, Boxes
<1>3. InvCells \cap BoxCells = {}
  BY CellsAre
<1> DEFINE f == inv[c]
           g == win[c].box
<1>4. f \in [InvCells -> Stacks] /\ g \in [BoxCells -> Stacks] /\ Cells(c) = Over(f, g)
  BY <1>1, <1>2 DEF Cells
<1>5. /\ Cells(c) \in [Cell -> Stacks]
      /\ \A x \in InvCells : Cells(c)[x] = f[x]
      /\ \A x \in BoxCells : Cells(c)[x] = g[x]
  <2> HIDE DEF f, g
  <2>1. /\ Over(f, g) \in [InvCells \cup BoxCells -> Stacks]
        /\ \A x \in InvCells : Over(f, g)[x] = f[x]
        /\ \A x \in BoxCells : x \notin InvCells => Over(f, g)[x] = g[x]
    <3> DEFINE A == InvCells
               B == BoxCells
    <3>1. f \in [A -> Stacks] /\ g \in [B -> Stacks]
      BY <1>4
    <3> HIDE DEF A, B
    <3>2. /\ Over(f, g) \in [A \cup B -> Stacks]
          /\ \A x \in A : Over(f, g)[x] = f[x]
          /\ \A x \in B : x \notin A => Over(f, g)[x] = g[x]
      BY <3>1 DEF Over
    <3> QED BY <3>2 DEF A, B
  <2>2. \A x \in BoxCells : x \notin InvCells
    BY <1>3
  <2> QED BY <1>4, <2>1, <2>2 DEF Cell
<1> QED BY <1>5

\* Goods that fall reach the ground.
LEMMA FallenIs ==
    ASSUME NEW g \in [Items -> Nat], NEW S, IsFiniteSet(S), NEW f, \A x \in S : f[x] \in Stacks
    PROVE  /\ Fallen(g, f, S) \in [Items -> Nat]
           /\ Fallen(g, f, S)[Raw] + Fallen(g, f, S)[Made] = g[Raw] + g[Made] + Amount(f, S)
<1> DEFINE h(i) == [x \in S |-> IF f[x].item = i THEN f[x].n ELSE 0]
           k == [x \in S |-> f[x].n]
           s(i) == SumFunctionOnSet(h(i), S)
<1>1. \A x \in S : f[x].n \in Nat /\ (f[x].n # 0 => f[x].item \in {Raw, Made})
  BY StackIs, Sizes
<1>2. \A i \in Items : \A x \in S : h(i)[x] \in Nat
  BY <1>1
<1>3. \A i \in Items : s(i) \in Nat
  <2> SUFFICES ASSUME NEW i \in Items PROVE s(i) \in Nat
    OBVIOUS
  <2>1. \A x \in S : h(i)[x] \in Nat
    BY <1>2
  <2> HIDE DEF h
  <2> QED BY <2>1, SumIsNat
<1>4. \A i \in Items : Fallen(g, f, S)[i] = g[i] + s(i)
  BY DEF Fallen
<1>5. Fallen(g, f, S) \in [Items -> Nat]
  <2>1. \A i \in Items : g[i] + s(i) \in Nat
    <3> HIDE DEF s
    <3> QED BY <1>3
  <2>2. Fallen(g, f, S) = [i \in Items |-> g[i] + s(i)]
    BY DEF Fallen
  <2> HIDE DEF s
  <2> QED BY <2>1, <2>2
<1>6. s(Raw) + s(Made) = Amount(f, S)
  <2> DEFINE Q == {T \in SUBSET S : SumFunctionOnSet(h(Raw), T) + SumFunctionOnSet(h(Made), T)
                                    = SumFunctionOnSet(k, T)}
  <2>1. {} \in Q
    <3> HIDE DEF h, k
    <3> QED BY SumOfNone
  <2>2. \A T \in SUBSET S, x \in S : T \in Q /\ x \notin T => T \cup {x} \in Q
    <3> SUFFICES ASSUME NEW T \in SUBSET S, NEW x \in S, T \in Q, x \notin T PROVE T \cup {x} \in Q
      OBVIOUS
    <3> DEFINE U == T \cup {x}
    <3>1. IsFiniteSet(U) /\ x \in U /\ U \ {x} = T /\ U \in SUBSET S
      BY FS_Subset, FS_AddElement
    <3>2. h(Raw)[x] + h(Made)[x] = k[x] /\ h(Raw)[x] \in Nat /\ h(Made)[x] \in Nat
      <4>1. f[x].n \in Nat /\ (f[x].n # 0 => f[x].item \in {Raw, Made}) /\ Raw # Made
        BY <1>1, Sizes
      <4>2. h(Raw)[x] = (IF f[x].item = Raw THEN f[x].n ELSE 0) /\ h(Made)[x] = (IF f[x].item = Made THEN f[x].n ELSE 0)
            /\ k[x] = f[x].n
        OBVIOUS
      <4> HIDE DEF h, k
      <4> QED BY <4>1, <4>2
    <3>3. \A y \in U : h(Raw)[y] \in Nat /\ h(Made)[y] \in Nat /\ k[y] \in Nat
      BY <1>1
    <3>4. SumFunctionOnSet(h(Raw), T) + SumFunctionOnSet(h(Made), T) = SumFunctionOnSet(k, T)
      OBVIOUS
    <3> HIDE DEF h, k, U
    <3>5. /\ SumFunctionOnSet(h(Raw), U) = h(Raw)[x] + SumFunctionOnSet(h(Raw), T)
          /\ SumFunctionOnSet(h(Made), U) = h(Made)[x] + SumFunctionOnSet(h(Made), T)
          /\ SumFunctionOnSet(k, U) = k[x] + SumFunctionOnSet(k, T)
      <4>1. SumFunctionOnSet(h(Raw), U) = h(Raw)[x] + SumFunctionOnSet(h(Raw), U \ {x})
        BY <3>1, <3>3, SumAdd
      <4>2. SumFunctionOnSet(h(Made), U) = h(Made)[x] + SumFunctionOnSet(h(Made), U \ {x})
        BY <3>1, <3>3, SumAdd
      <4>3. SumFunctionOnSet(k, U) = k[x] + SumFunctionOnSet(k, U \ {x})
        BY <3>1, <3>3, SumAdd
      <4> QED BY <3>1, <4>1, <4>2, <4>3
    <3>6. /\ SumFunctionOnSet(h(Raw), T) \in Nat /\ SumFunctionOnSet(h(Made), T) \in Nat
      <4>1. IsFiniteSet(T) /\ \A y \in T : h(Raw)[y] \in Nat /\ h(Made)[y] \in Nat
        BY <3>1, <3>3, FS_Subset DEF U
      <4> QED BY <4>1, SumIsNat
    <3>7. SumFunctionOnSet(h(Raw), U) + SumFunctionOnSet(h(Made), U) = SumFunctionOnSet(k, U)
      BY <3>2, <3>4, <3>5, <3>6
    <3> QED BY <3>1, <3>7 DEF U
  <2>3. S \in Q
    <3> HIDE DEF Q
    <3> QED BY <2>1, <2>2, GrowSet
  <2>4. SumFunctionOnSet(h(Raw), S) + SumFunctionOnSet(h(Made), S) = SumFunctionOnSet(k, S)
    BY <2>3
  <2> QED BY <2>4 DEF Amount
<1>7. Amount(f, S) \in Nat
  BY AmountIsNat
<1>8. Raw \in Items /\ Made \in Items
  BY DEF Items
<1> HIDE DEF s
<1>9. g[Raw] \in Nat /\ g[Made] \in Nat /\ s(Raw) \in Nat /\ s(Made) \in Nat
  BY <1>3, <1>8
<1>10. Fallen(g, f, S)[Raw] = g[Raw] + s(Raw) /\ Fallen(g, f, S)[Made] = g[Made] + s(Made)
  BY <1>4, <1>8
<1> QED BY <1>5, <1>6, <1>7, <1>9, <1>10
\* What is sent, saved and returned has its type.
LEMMA SendTyped ==
    ASSUME ClientsTyped, LifeTyped, NEW rest \in [Conn -> Seq(Packets)],
           NEW sent \in [Conn -> Seq(Messages)], Send(rest, sent)
    PROVE  ClientsTyped' /\ crossed' \in SUBSET Conn
<1>1. view' = view /\ clicks' = rest /\ syncs' = [d \in Conn |-> syncs[d] \o sent[d]]
  BY DEF Send
<1>2. \A d \in Conn : syncs[d] \o sent[d] \in Seq(Messages)
  <2> SUFFICES ASSUME NEW d \in Conn PROVE syncs[d] \o sent[d] \in Seq(Messages)
    OBVIOUS
  <2>1. syncs[d] \in Seq(Messages) /\ sent[d] \in Seq(Messages)
    BY DEF ClientsTyped
  <2> HIDE DEF Messages
  <2> QED BY <2>1
<1>3. crossed' \in SUBSET Conn
  BY DEF Send, LifeTyped
<1> QED BY <1>1, <1>2, <1>3 DEF ClientsTyped

\* Sending to one client keeps the types.
LEMMA SendToTyped ==
    ASSUME ClientsTyped, LifeTyped, NEW rest \in [Conn -> Seq(Packets)], NEW c \in Conn,
           NEW ms \in Seq(Messages), SendTo(c, rest, ms)
    PROVE  ClientsTyped' /\ crossed' \in SUBSET Conn
<1> DEFINE sent == [d \in Conn |-> IF d = c THEN ms ELSE <<>>]
<1>1. sent \in [Conn -> Seq(Messages)]
  OBVIOUS
<1>2. Send(rest, sent)
  BY DEF SendTo
<1> HIDE DEF sent
<1> QED BY <1>1, <1>2, SendTyped

\* The first packet, and the others.
LEMMA RestTyped == ASSUME NEW c \in Conn, ClientsTyped, clicks[c] # <<>>
                   PROVE  /\ Rest(c) \in [Conn -> Seq(Packets)]
                          /\ Head(clicks[c]) \in Packets
                          /\ Rest(c)[c] = Tail(clicks[c])
                          /\ \A d \in Conn : d # c => Rest(c)[d] = clicks[d]
<1>1. clicks \in [Conn -> Seq(Packets)]
  BY DEF ClientsTyped
<1>2. Tail(clicks[c]) \in Seq(Packets) /\ Head(clicks[c]) \in Packets
  <2> clicks[c] \in Seq(Packets)
    BY <1>1
  <2> HIDE DEF Packets
  <2> QED OBVIOUS
<1> QED BY <1>1, <1>2 DEF Rest

\* Contents are a message.
LEMMA ContentsTyped ==
    ASSUME NEW A, NEW f \in [A -> Stacks], NEW id \in 0 .. Ids,
           IF id = 0 THEN InvCells \subseteq A ELSE ContentCells \subseteq A
    PROVE  <<Contents(id, f)>> \in Seq(Messages)
<1>1. CASE id = 0
  <2>1. Restrict(f, InvCells) \in [InvCells -> Stacks]
    BY <1>1, RestrictIs
  <2>2. Contents(id, f) = [type |-> "contents", id |-> 0, cells |-> Restrict(f, InvCells)]
    BY <1>1 DEF Contents
  <2>3. Contents(id, f) \in [type : {"contents"}, id : {0}, cells : Inventories]
    BY <2>1, <2>2 DEF Inventories
  <2> QED BY <2>3 DEF Messages
<1>2. CASE id # 0
  <2>1. Restrict(f, ContentCells) \in [ContentCells -> Stacks]
    BY <1>2, RestrictIs
  <2>2. Contents(id, f) = [type |-> "contents", id |-> id, cells |-> Restrict(f, ContentCells)]
    BY <1>2 DEF Contents, ContentCells, MainCells
  <2>3. Contents(id, f) \in [type : {"contents"}, id : 1 .. Ids, cells : [ContentCells -> Stacks]]
    BY <1>2, <2>1, <2>2
  <2> QED BY <2>3 DEF Messages
<1> QED BY <1>1, <1>2

\* What is sent are cells.
LEMMA ContentCellsAre == ContentCells \subseteq Cell
BY CellsAre DEF ContentCells

\* Opening a window is a message.
LEMMA OpenedTyped ==
    ASSUME NEW f \in [Cell -> Stacks], NEW id \in 1 .. Ids, NEW kind \in Kinds
    PROVE  /\ Opened(id, kind, f) \in [type : {"open"}, id : 1 .. Ids, kind : Kinds,
                                        cells : [ContentCells -> Stacks]]
           /\ <<Opened(id, kind, f)>> \in Seq(Messages)
           /\ Opened(id, kind, f).id = id /\ Opened(id, kind, f).kind = kind
           /\ Opened(id, kind, f).type = "open"
           /\ \A x \in ContentCells : Opened(id, kind, f).cells[x] = f[x]
<1>1. ContentCells \subseteq Cell
  BY CellsAre DEF ContentCells
<1>2. Restrict(f, ContentCells) \in [ContentCells -> Stacks] /\ \A x \in ContentCells : Restrict(f, ContentCells)[x] = f[x]
  BY <1>1, RestrictIs
<1>3. id # 0
  OBVIOUS
<1>4. Opened(id, kind, f) = [type |-> "open", id |-> id, kind |-> kind, cells |-> Restrict(f, ContentCells)]
  BY <1>3 DEF Opened, Contents, ContentCells, MainCells
<1>5. Opened(id, kind, f) \in [type : {"open"}, id : 1 .. Ids, kind : Kinds, cells : [ContentCells -> Stacks]]
  BY <1>2, <1>4
<1>6. Opened(id, kind, f) \in Messages
  BY <1>5 DEF Messages
<1> QED BY <1>2, <1>4, <1>5, <1>6

\* Closing a window is a message.
LEMMA CloseTyped == ASSUME NEW id \in 1 .. Ids PROVE <<CloseIt(id)>> \in Seq(Messages)
BY DEF CloseIt, Messages

\* Saving keeps the types.
LEMMA SaveTyped ==
    ASSUME GoodsTyped, NEW c \in Conn, NEW A, InvCells \subseteq A, NEW f \in [A -> Stacks],
           NEW e \in Stacks, Save(c, f, e), ground' \in [Items -> Nat]
    PROVE  GoodsTyped'
<1>1. Restrict(f, InvCells) \in Inventories
  BY RestrictIs DEF Inventories
<1>2. inv' = [inv EXCEPT ![c] = Restrict(f, InvCells)] /\ ender' = [ender EXCEPT ![c] = e]
      /\ file' = [file EXCEPT ![c] = [inv |-> Restrict(f, InvCells), ender |-> e]]
  BY DEF Save
<1>3. inv \in [Conn -> Inventories] /\ ender \in [Conn -> Stacks]
      /\ file \in [Conn -> [inv : Inventories, ender : Stacks]]
  BY DEF GoodsTyped
<1> DEFINE r == Restrict(f, InvCells)
<1>4. r \in Inventories /\ [inv |-> r, ender |-> e] \in [inv : Inventories, ender : Stacks]
  BY <1>1
<1> HIDE DEF r
<1>5. /\ [inv EXCEPT ![c] = r] \in [Conn -> Inventories] /\ [ender EXCEPT ![c] = e] \in [Conn -> Stacks]
      /\ [file EXCEPT ![c] = [inv |-> r, ender |-> e]] \in [Conn -> [inv : Inventories, ender : Stacks]]
  BY <1>3, <1>4
<1> QED BY <1>2, <1>5 DEF GoodsTyped, r

\* What goes back from the grid moves to the main cells or stays.
LEMMA ReturnedIs ==
    ASSUME NEW D, MainCells \subseteq D, NEW r \in D \ MainCells, NEW g \in D \ MainCells, r # g,
           NEW f \in [D -> Stacks]
    PROVE  Returned(f, r, g) \in Moves(D, MainCells \cup {g}, {r}, f)
<1> DEFINE U == MainCells \cup {g}
           h == [f EXCEPT ![r] = Nothing]
<1>1. h \in [D -> Stacks] /\ \A x \in D : x # r => h[x] = f[x]
  BY NothingIs
<1>2. IsFiniteSet(U) /\ r \notin U /\ U \subseteq D
  BY MainIsFinite, FS_AddElement
<1>3. Absorb(h, g) \in Moves(D, U, {}, h)
  <2> HIDE DEF h
  <2> QED BY <1>1, AbsorbIs
<1>4. Amount(h, U) = Amount(f, U)
  <2>1. \A x \in U : f[x] \in Stacks /\ h[x].n = f[x].n
    BY <1>1, <1>2
  <2> HIDE DEF U, h
  <2> QED BY <1>2, <2>1, AmountSame
<1>5. Returned(f, r, g) = Absorb(h, g)
  BY DEF Returned
<1> HIDE DEF U, h
<1>6. Absorb(h, g) \in [D -> Stacks] /\ (\A z \in D \ U : Absorb(h, g)[z] = h[z])
      /\ Amount(Absorb(h, g), U) = Amount(h, U)
  BY <1>3 DEF Moves
<1>7. Returned(f, r, g) \in Moves(D, U, {r}, f)
  BY <1>1, <1>4, <1>5, <1>6 DEF Moves
<1> QED BY <1>7 DEF U

\* Writing a copy back keeps the types.
LEMMA WrittenBackTyped ==
    ASSUME NEW b \in [Pos -> Boxes \cup {NoBox}], NEW w, w.box \in Boxes
    PROVE  WrittenBack(w, b) \in [Pos -> Boxes \cup {NoBox}]
BY DEF WrittenBack

\* Leaving a window keeps the types.
LEMMA LeaveTyped ==
    ASSUME WorldTyped, GoodsTyped, NEW c \in Conn, NEW b \in [Pos -> Boxes \cup {NoBox}]
    PROVE  /\ Leave(c, b).inv \in Inventories /\ Leave(c, b).ground \in [Items -> Nat]
           /\ Leave(c, b).be \in [Pos -> Boxes \cup {NoBox}] /\ Leave(c, b).sent \in Seq(Messages)
<1> DEFINE f == Returned(Cells(c), "out", "in")
           g == WithResult(f, "result", "grid")
<1>1. CASE win[c].kind = "table"
  <2>1. Leave(c, b) = [inv |-> Restrict(g, InvCells), ground |-> Fallen(ground, f, {"in"}),
                be |-> b, sent |-> <<Contents(0, g)>>]
    BY <1>1 DEF Leave
  <2>2. Cells(c) \in [Cell -> Stacks]
    BY CellsTyped
  <2>3. f \in [Cell -> Stacks]
    <3>1. f \in Moves(Cell, MainCells \cup {"in"}, {"out"}, Cells(c))
      <4>1. MainCells \subseteq Cell /\ "out" \in Cell \ MainCells /\ "in" \in Cell \ MainCells /\ "out" # "in"
        BY CellsAre
      <4> QED BY <2>2, <4>1, ReturnedIs
    <3> QED BY <3>1 DEF Moves
  <2> HIDE DEF f
  <2>4. g \in [Cell -> Stacks]
    <3>1. "grid" \in Cell
      BY CellsAre
    <3> QED BY <2>3, <3>1, WithResultIs
  <2> HIDE DEF g
  <2>5. Restrict(g, InvCells) \in Inventories
    BY <2>4, RestrictIs, CellsAre DEF Inventories
  <2>6. Fallen(ground, f, {"in"}) \in [Items -> Nat]
    <3>1. IsFiniteSet({"in"}) /\ \A x \in {"in"} : f[x] \in Stacks
      BY <2>3, CellsAre, FS_Singleton
    <3>2. ground \in [Items -> Nat]
      BY DEF GoodsTyped
    <3> QED BY <3>1, <3>2, FallenIs
  <2>7. <<Contents(0, g)>> \in Seq(Messages)
    <3>1. 0 \in 0 .. Ids /\ InvCells \subseteq Cell
      BY CellsAre, Sizes
    <3> QED BY <2>4, <3>1, ContentsTyped
  <2> QED BY <2>1, <2>5, <2>6, <2>7
<1>2. CASE win[c].kind # "table"
  <2>1. Leave(c, b) = [inv |-> inv[c], ground |-> ground, be |-> WrittenBack(win[c], b), sent |-> <<>>]
    BY <1>2 DEF Leave
  <2>2. win[c].box \in Boxes
    BY WindowIs DEF WorldTyped
  <2>3. WrittenBack(win[c], b) \in [Pos -> Boxes \cup {NoBox}]
    BY <2>2, WrittenBackTyped
  <2>4. inv[c] \in Inventories /\ ground \in [Items -> Nat] /\ <<>> \in Seq(Messages)
    BY DEF GoodsTyped
  <2> QED BY <2>1, <2>3, <2>4
<1> QED BY <1>1, <1>2

-----------------------------------------------------------------------------
(* The types are an invariant.                                             *)

\* Emptied empties the cells given.
LEMMA EmptiedIs ==
    ASSUME NEW D, NEW f \in [D -> Stacks], NEW S
    PROVE  /\ Emptied(f, S) \in [D -> Stacks]
           /\ \A x \in D : Emptied(f, S)[x] = IF x \in S THEN Nothing ELSE f[x]
BY NothingIs DEF Emptied

\* The view of a client that just came.
LEMMA ViewHidden == [id |-> 0, kind |-> "none", cells |-> Over(EmptyInv, EmptyBox)] \in Views
BY EmptyIs DEF Views

\* The operations on an inventory make inventories.
LEMMA InventoryCells ==
    ASSUME NEW f \in Inventories
    PROVE  /\ WithResult(f, "result", "grid") \in Inventories
           /\ Returned(f, "result", "grid") \in Moves(InvCells, MainCells \cup {"grid"}, {"result"}, f)
           /\ Returned(f, "result", "grid") \in Inventories
           /\ Emptied(f, {"grid"}) \in Inventories
           /\ \A x \in InvCells : x # "result" => WithResult(f, "result", "grid")[x] = f[x]
<1>1. f \in [InvCells -> Stacks] /\ "grid" \in InvCells /\ MainCells \subseteq InvCells
      /\ "result" \in InvCells \ MainCells /\ "grid" \in InvCells \ MainCells /\ "result" # "grid"
  BY CellsAre DEF Inventories
<1>2. Returned(f, "result", "grid") \in Moves(InvCells, MainCells \cup {"grid"}, {"result"}, f)
  BY <1>1, ReturnedIs
<1>3. Returned(f, "result", "grid") \in Inventories
  BY <1>2 DEF Moves, Inventories
<1>4. WithResult(f, "result", "grid") \in [InvCells -> Stacks]
      /\ \A x \in InvCells : x # "result" => WithResult(f, "result", "grid")[x] = f[x]
  BY <1>1, WithResultIs
<1>5. Emptied(f, {"grid"}) \in [InvCells -> Stacks]
  BY <1>1, EmptiedIs
<1> QED BY <1>2, <1>3, <1>4, <1>5 DEF Inventories

\* The types hold at first.
LEMMA InitTyped == Init => Typed
<1> SUFFICES ASSUME Init PROVE Typed
  OBVIOUS
<1>1. WorldTyped
  <2>1. Closed \in Windows /\ Ids \in 1 .. Ids
    BY Sizes DEF Windows
  <2>2. block \in [Pos -> Kinds \cup {"air"}]
    BY DEF Init
  <2>3. be \in [Pos -> Boxes \cup {NoBox}]
    BY DEF Init
  <2>4. win \in [Conn -> Windows] /\ lastId \in [Conn -> 1 .. Ids]
    BY <2>1 DEF Init
  <2> QED BY <2>2, <2>3, <2>4 DEF WorldTyped
<1>2. GoodsTyped
  <2>1. (\A c \in Conn : [EmptyInv EXCEPT ![Main[1]] = Stock[c]] \in Inventories) /\ Nothing \in Stacks
    <3> QED BY EmptyIs, NothingIs, GoodsAssumption DEF Inventories
  <2>2. inv \in [Conn -> Inventories] /\ ender \in [Conn -> Stacks]
    BY <2>1, EmptyIs DEF Init
  <2>3. file \in [Conn -> [inv : Inventories, ender : Stacks]]
    <3> DEFINE r(c) == [EmptyInv EXCEPT ![Main[1]] = Stock[c]]
    <3>1. file = [c \in Conn |-> [inv |-> r(c), ender |-> Nothing]]
      BY DEF Init
    <3>2. \A c \in Conn : r(c) \in Inventories
      BY <2>1
    <3> HIDE DEF r
    <3> QED BY <2>1, <3>1, <3>2
  <2>4. ground \in [Items -> Nat]
    BY Sizes DEF Init
  <2> QED BY <2>2, <2>3, <2>4 DEF GoodsTyped
<1>3. LifeTyped
  BY DEF Init, LifeTyped
<1>4. ClientsTyped
  BY ViewHidden DEF Init, ClientsTyped
<1> QED BY <1>1, <1>2, <1>3, <1>4 DEF Typed

\* Join keeps the types.
LEMMA JoinTyped == ASSUME Typed, NEW c \in Conn, Join(c) PROVE Typed'
<1> DEFINE f == WithResult(file[c].inv, "result", "grid")
<1>1. file[c] \in [inv : Inventories, ender : Stacks]
  BY DEF Typed, GoodsTyped
<1>2. file[c].inv \in Inventories /\ file[c].ender \in Stacks /\ f \in Inventories
  BY <1>1, InventoryCells
<1> HIDE DEF f
<1>3. /\ life' = [life EXCEPT ![c] = "on"] /\ inv' = [inv EXCEPT ![c] = f]
      /\ ender' = [ender EXCEPT ![c] = file[c].ender]
      /\ syncs' = [syncs EXCEPT ![c] = <<Contents(0, f)>>]
      /\ UNCHANGED <<block, be, win, lastId, file, ground, dead, view, clicks, crossed>>
  BY DEF Join, f
<1>4. <<Contents(0, f)>> \in Seq(Messages)
  <2>1. f \in [InvCells -> Stacks] /\ 0 \in 0 .. Ids
    BY <1>2, Sizes DEF Inventories
  <2> QED BY <2>1, ContentsTyped
<1>5. WorldTyped'
  BY <1>3 DEF Typed, WorldTyped
<1>6. GoodsTyped'
  <2> GoodsTyped
    BY DEF Typed
  <2> QED BY <1>2, <1>3 DEF GoodsTyped
<1>7. LifeTyped'
  BY <1>3 DEF Typed, LifeTyped
<1>8. ClientsTyped'
  BY <1>3, <1>4 DEF Typed, ClientsTyped
<1> QED BY <1>5, <1>6, <1>7, <1>8 DEF Typed

\* Disconnect keeps the types.
LEMMA DisconnectTyped == ASSUME Typed, NEW c \in Conn, Disconnect(c) PROVE Typed'
<1>1. WorldTyped'
  BY DEF Disconnect, Typed, WorldTyped
<1>2. GoodsTyped'
  BY DEF Disconnect, Typed, GoodsTyped
<1>3. LifeTyped'
  BY DEF Disconnect, Typed, LifeTyped
<1>4. ClientsTyped'
  BY ViewHidden DEF Disconnect, Typed, ClientsTyped
<1> QED BY <1>1, <1>2, <1>3, <1>4 DEF Typed

\* Cleanup keeps the types.
LEMMA CleanupTyped == ASSUME Typed, NEW c \in Conn, Cleanup(c) PROVE Typed'
<1> DEFINE left == Leave(c, be)
           f == Returned(left.inv, "result", "grid")
           saved == Emptied(f, {"grid"})
<1>1. WorldTyped /\ GoodsTyped /\ be \in [Pos -> Boxes \cup {NoBox}]
  BY DEF Typed, WorldTyped
<1>2. /\ left.inv \in Inventories /\ left.ground \in [Items -> Nat]
      /\ left.be \in [Pos -> Boxes \cup {NoBox}] /\ left.sent \in Seq(Messages)
  BY <1>1, LeaveTyped
<1>3. f \in Inventories
  <2> HIDE DEF left
  <2> QED BY <1>2, InventoryCells
<1>4. saved \in Inventories
  <2> HIDE DEF f
  <2> QED BY <1>3, InventoryCells
<1>5. Fallen(left.ground, f, {"grid"}) \in [Items -> Nat]
  <2>1. IsFiniteSet({"grid"}) /\ \A x \in {"grid"} : f[x] \in Stacks
    <3> HIDE DEF f
    <3> QED BY <1>3, CellsAre, FS_Singleton DEF Inventories
  <2> HIDE DEF f, left
  <2> QED BY <1>2, <2>1, FallenIs
<1>6. /\ life' = [life EXCEPT ![c] = "off"] /\ be' = left.be
      /\ ground' = Fallen(left.ground, f, {"grid"})
      /\ file' = [file EXCEPT ![c] = [inv |-> saved, ender |-> ender[c]]]
      /\ inv' = [inv EXCEPT ![c] = EmptyInv] /\ ender' = [ender EXCEPT ![c] = Nothing]
      /\ win' = [win EXCEPT ![c] = Closed] /\ lastId' = [lastId EXCEPT ![c] = Ids]
      /\ dead' = dead \ {c} /\ UNCHANGED <<block, clientVars>>
  BY DEF Cleanup
<1> HIDE DEF left, f, saved
<1>7. WorldTyped'
  <2>1. Closed \in Windows /\ Ids \in 1 .. Ids
    BY Sizes DEF Windows
  <2> QED BY <1>1, <1>2, <1>6, <2>1 DEF WorldTyped
<1>8. GoodsTyped'
  <2>1. inv' \in [Conn -> Inventories] /\ ender' \in [Conn -> Stacks]
    BY <1>1, <1>6, EmptyIs, NothingIs DEF GoodsTyped
  <2>2. ender[c] \in Stacks
    BY <1>1 DEF GoodsTyped
  <2>3. file' \in [Conn -> [inv : Inventories, ender : Stacks]]
    BY <1>1, <1>4, <1>6, <2>2 DEF GoodsTyped
  <2> QED BY <1>5, <1>6, <2>1, <2>3 DEF GoodsTyped
<1>9. LifeTyped' /\ ClientsTyped'
  BY <1>6 DEF Typed, LifeTyped, ClientsTyped, clientVars
<1> QED BY <1>7, <1>8, <1>9 DEF Typed

\* Ids are used in turn.
LEMMA NextIdIs ==
    ASSUME NEW k \in 1 .. Ids
    PROVE  /\ (k % Ids) + 1 \in 1 .. Ids
           /\ (k % Ids) + 1 = IF k = Ids THEN 1 ELSE k + 1
<1>1. Ids \in Nat /\ Ids > 0
  BY Sizes
<1>2. CASE k = Ids
  <2>1. k % Ids = 0
    BY <1>1, <1>2
  <2> QED BY <1>1, <1>2, <2>1
<1>3. CASE k # Ids
  <2>1. k % Ids = k
    BY <1>1, <1>3
  <2> QED BY <1>1, <1>3, <2>1
<1> QED BY <1>2, <1>3

\* The copy of an ender chest.
LEMMA EnderBox == ASSUME NEW s \in Stacks
                  PROVE  [EmptyBox EXCEPT !["in"] = s] \in Boxes
BY EmptyIs DEF Boxes

\* OpenContainer keeps the types.
LEMMA OpenTyped == ASSUME Typed, NEW c \in Conn, NEW p \in Pos, OpenContainer(c, p) PROVE Typed'
<1> DEFINE stored == block[p] \in Stored
           fresh == stored /\ be[p] = NoBox
           b == IF fresh THEN [be EXCEPT ![p] = EmptyBox] ELSE be
           left == Leave(c, b)
           box == CASE stored /\ ~fresh -> be[p]
                    [] block[p] = "ender" -> [EmptyBox EXCEPT !["in"] = ender[c]]
                    [] OTHER -> EmptyBox
           id == (lastId[c] % Ids) + 1
           w == [id |-> id, kind |-> block[p], pos |-> p, box |-> box, dirty |-> FALSE]
<1>1. WorldTyped /\ GoodsTyped /\ LifeTyped /\ ClientsTyped
  BY DEF Typed
<1>2. b \in [Pos -> Boxes \cup {NoBox}]
  BY <1>1, EmptyIs DEF WorldTyped
<1>3. /\ left.inv \in Inventories /\ left.ground \in [Items -> Nat]
      /\ left.be \in [Pos -> Boxes \cup {NoBox}] /\ left.sent \in Seq(Messages)
  <2> HIDE DEF b
  <2> QED BY <1>1, <1>2, LeaveTyped
<1>4. box \in Boxes
  <2>1. CASE stored /\ ~fresh
    <3>1. box = be[p] /\ be[p] # NoBox
      BY <2>1 DEF Stored
    <3>2. be[p] \in Boxes \cup {NoBox}
      <4> HIDE DEF box, stored, fresh
      <4> QED BY <1>1 DEF WorldTyped
    <3> HIDE DEF box
    <3> QED BY <3>1, <3>2
  <2>2. CASE ~(stored /\ ~fresh) /\ block[p] = "ender"
    <3>1. box = [EmptyBox EXCEPT !["in"] = ender[c]]
      BY <2>2
    <3>2. ender[c] \in Stacks
      BY <1>1 DEF GoodsTyped
    <3> HIDE DEF box
    <3> QED BY <3>1, <3>2, EnderBox
  <2>3. CASE ~(stored /\ ~fresh) /\ block[p] # "ender"
    <3>1. box = EmptyBox
      BY <2>3
    <3> HIDE DEF box
    <3> QED BY <3>1, EmptyIs
  <2> HIDE DEF box
  <2> QED BY <2>1, <2>2, <2>3
<1>5. id \in 1 .. Ids
  <2>1. lastId[c] \in 1 .. Ids
    BY <1>1 DEF WorldTyped
  <2> QED BY <2>1, NextIdIs
<1>6. block[p] \in Kinds
  BY <1>1 DEF OpenContainer, WorldTyped
<1>7. /\ be' = left.be /\ ground' = left.ground
      /\ \/ Save(c, left.inv, ender[c])
         \/ UNCHANGED <<inv, ender, file>>
      /\ win' = [win EXCEPT ![c] = w]
      /\ lastId' = [lastId EXCEPT ![c] = id]
      /\ SendTo(c, clicks, left.sent \o <<Opened(id, block[p], Over(left.inv, box))>>)
      /\ UNCHANGED <<block, life, dead>>
  BY Zenon DEF OpenContainer
<1> HIDE DEF left, box, id, b, fresh, stored
<1>8. WorldTyped'
  <2>1. w \in Windows
    BY <1>4, <1>5, <1>6 DEF Windows
  <2> HIDE DEF w
  <2> QED BY <1>1, <1>3, <1>5, <1>7, <2>1 DEF WorldTyped
<1>9. GoodsTyped'
  <2>1. ground' \in [Items -> Nat]
    BY <1>3, <1>7
  <2>2. CASE Save(c, left.inv, ender[c])
    <3>1. left.inv \in [InvCells -> Stacks] /\ ender[c] \in Stacks
      BY <1>1, <1>3 DEF Inventories, GoodsTyped
    <3> QED BY <1>1, <2>1, <2>2, <3>1, SaveTyped
  <2>3. CASE UNCHANGED <<inv, ender, file>>
    BY <1>1, <2>1, <2>3 DEF GoodsTyped
  <2> QED BY <1>7, <2>2, <2>3
<1>10. ClientsTyped' /\ crossed' \in SUBSET Conn
  <2>1. Over(left.inv, box) \in [Cell -> Stacks]
    BY <1>3, <1>4, OverIs DEF Inventories, Boxes, Cell
  <2>2. <<Opened(id, block[p], Over(left.inv, box))>> \in Seq(Messages)
    BY <1>5, <1>6, <2>1, OpenedTyped
  <2>3. left.sent \o <<Opened(id, block[p], Over(left.inv, box))>> \in Seq(Messages)
    <3> HIDE DEF Messages
    <3> QED BY <1>3, <2>2
  <2>4. clicks \in [Conn -> Seq(Packets)]
    BY <1>1 DEF ClientsTyped
  <2> HIDE DEF w
  <2> QED BY <1>1, <1>7, <2>3, <2>4, SendToTyped
<1> HIDE DEF w
<1> QED BY <1>1, <1>7, <1>8, <1>9, <1>10 DEF Typed, LifeTyped

\* BreakContainer keeps the types.
LEMMA BreakTyped == ASSUME Typed, NEW p \in Pos, BreakContainer(p) PROVE Typed'
<1> DEFINE shut == IF block[p] = "table" THEN {} ELSE Viewers(p, block[p])
           copies == CASE block[p] \notin Stored -> {EmptyBox}
                       [] block[p] \in Stored /\ shut # {} -> {win[d].box : d \in shut}
                       [] OTHER -> {IF be[p] = NoBox THEN EmptyBox ELSE be[p]}
           sent == [d \in Conn |-> IF d \in shut THEN <<CloseIt(win[d].id)>> ELSE <<>>]
<1>1. WorldTyped /\ GoodsTyped /\ LifeTyped /\ ClientsTyped
  BY DEF Typed
<1>2. shut \subseteq Conn /\ \A d \in shut : win[d].id # 0
  BY DEF Viewers, Open
<1>3. \A d \in Conn : win[d] \in Windows
  BY <1>1 DEF WorldTyped
<1>4. copies \subseteq Boxes
  <2>1. CASE block[p] \notin Stored
    <3>1. copies = {EmptyBox}
      BY <2>1
    <3> HIDE DEF copies
    <3> QED BY <3>1, EmptyIs
  <2>2. CASE block[p] \in Stored /\ shut # {}
    <3>1. copies = {win[d].box : d \in shut}
      BY <2>2
    <3> HIDE DEF copies, shut
    <3> QED BY <1>2, <1>3, <3>1, WindowIs
  <2>3. CASE block[p] \in Stored /\ shut = {}
    <3>1. copies = {IF be[p] = NoBox THEN EmptyBox ELSE be[p]}
      <4> HIDE DEF shut
      <4> QED BY <2>3
    <3>2. be[p] \in Boxes \cup {NoBox}
      BY <1>1 DEF WorldTyped
    <3> HIDE DEF copies, shut
    <3> QED BY <3>1, <3>2, EmptyIs
  <2> HIDE DEF copies, shut
  <2> QED BY <2>1, <2>2, <2>3
<1>5. /\ \E box \in copies : ground' = Fallen(ground, box, BoxCells)
      /\ win' = [d \in Conn |-> IF d \in shut THEN Closed ELSE win[d]]
      /\ Send(clicks, sent)
      /\ block' = [block EXCEPT ![p] = "air"] /\ be' = [be EXCEPT ![p] = NoBox]
      /\ UNCHANGED <<lastId, inv, ender, file, life, dead>>
  BY Zenon DEF BreakContainer
<1> HIDE DEF copies
<1>6. ground' \in [Items -> Nat]
  <2>1. PICK box \in copies : ground' = Fallen(ground, box, BoxCells)
    BY <1>5
  <2>2. \A x \in BoxCells : box[x] \in Stacks
    BY <1>4, <2>1 DEF Boxes
  <2>3. ground \in [Items -> Nat]
    BY <1>1 DEF GoodsTyped
  <2> QED BY <2>1, <2>2, <2>3, FallenIs, CellsAreFinite
<1>7. sent \in [Conn -> Seq(Messages)]
  <2>1. \A d \in shut : <<CloseIt(win[d].id)>> \in Seq(Messages)
    <3> HIDE DEF shut
    <3> QED BY <1>2, <1>3, WindowIs, CloseTyped
  <2> HIDE DEF shut
  <2> QED BY <2>1
<1> HIDE DEF sent, shut
<1>8. WorldTyped'
  <2>1. Closed \in Windows
    BY DEF Windows
  <2>2. win' \in [Conn -> Windows]
    BY <1>3, <1>5, <2>1
  <2>3. block' \in [Pos -> Kinds \cup {"air"}]
    BY <1>1, <1>5 DEF WorldTyped
  <2>4. be' \in [Pos -> Boxes \cup {NoBox}]
    BY <1>1, <1>5 DEF WorldTyped
  <2> QED BY <1>1, <1>5, <2>2, <2>3, <2>4 DEF WorldTyped
<1>9. ClientsTyped' /\ crossed' \in SUBSET Conn
  <2>1. clicks \in [Conn -> Seq(Packets)]
    BY <1>1 DEF ClientsTyped
  <2> QED BY <1>1, <1>5, <1>7, <2>1, SendTyped
<1>10. GoodsTyped'
  BY <1>1, <1>5, <1>6 DEF GoodsTyped
<1>11. LifeTyped'
  BY <1>1, <1>5, <1>9 DEF LifeTyped
<1> QED BY <1>8, <1>9, <1>10, <1>11 DEF Typed

\* PlaceContainer keeps the types.
LEMMA PlaceTyped == ASSUME Typed, NEW p \in Pos, NEW kind \in Kinds, PlaceContainer(p, kind)
                    PROVE  Typed'
<1>1. /\ block' = [block EXCEPT ![p] = kind]
      /\ be' = [be EXCEPT ![p] = IF kind \in Stored THEN EmptyBox ELSE NoBox]
      /\ UNCHANGED <<win, lastId, inv, ender, file, ground, life, dead, clientVars>>
  BY DEF PlaceContainer
<1>2. WorldTyped'
  <2>1. WorldTyped
    BY DEF Typed
  <2>2. block' \in [Pos -> Kinds \cup {"air"}]
    BY <1>1, <2>1 DEF WorldTyped
  <2>3. be' \in [Pos -> Boxes \cup {NoBox}]
    BY <1>1, <2>1, EmptyIs DEF WorldTyped
  <2> QED BY <1>1, <2>1, <2>2, <2>3 DEF WorldTyped
<1>3. GoodsTyped' /\ LifeTyped' /\ ClientsTyped'
  BY <1>1 DEF Typed, GoodsTyped, LifeTyped, ClientsTyped, clientVars
<1> QED BY <1>2, <1>3 DEF Typed

\* The end of every click keeps the types.
LEMMA ClickedTyped ==
    ASSUME Typed, NEW c \in Conn, NEW id \in 0 .. Ids, id # 0 => win[c].id # 0,
           NEW f \in [Cell -> Stacks], NEW dirty \in BOOLEAN, clicks[c] # <<>>,
           Clicked(c, id, f, dirty), ground' \in [Items -> Nat]
    PROVE  Typed'
<1> DEFINE w == [win[c] EXCEPT !.box = Restrict(f, BoxCells), !.dirty = dirty]
           e == IF id # 0 /\ w.kind = "ender" THEN f["in"] ELSE ender[c]
<1>1. WorldTyped /\ GoodsTyped /\ LifeTyped /\ ClientsTyped
  BY DEF Typed
<1>2. /\ IF id = 0 THEN UNCHANGED <<win, be>>
         ELSE /\ be' = WrittenBack(w, be)
              /\ win' = [win EXCEPT ![c] = [w EXCEPT !.dirty = dirty /\ block[w.pos] \notin Stored]]
      /\ Save(c, f, e)
      /\ SendTo(c, Rest(c), <<Contents(id, f)>>)
      /\ UNCHANGED <<block, lastId, life, dead>>
  BY DEF Clicked
<1>3. WorldTyped'
  <2>1. CASE id = 0
    BY <1>1, <1>2, <2>1 DEF WorldTyped
  <2>2. CASE id # 0
    <3>1. Restrict(f, BoxCells) \in Boxes
      BY RestrictIs, CellsAre DEF Boxes
    <3>2. w \in Windows /\ w.box \in Boxes /\ w.id # 0
      <4>1. win[c] \in Windows /\ win[c].id # 0
        BY <1>1, <2>2 DEF WorldTyped
      <4> DEFINE r == Restrict(f, BoxCells)
      <4> HIDE DEF r
      <4>2. [win[c] EXCEPT !.box = r, !.dirty = dirty] \in Windows
        BY <3>1, <4>1, WindowMade DEF r
      <4>3. win[c] \in [id : 1 .. Ids, kind : Kinds, pos : Pos, box : Boxes, dirty : BOOLEAN]
        BY <4>1 DEF Windows, Closed
      <4>4. w.box = r /\ w.id = win[c].id
        BY <4>3 DEF r
      <4> QED BY <3>1, <4>1, <4>2, <4>4 DEF r
    <3> HIDE DEF w
    <3>3. be' \in [Pos -> Boxes \cup {NoBox}]
      BY <1>1, <1>2, <2>2, <3>2, WrittenBackTyped DEF WorldTyped
    <3>4. (dirty /\ block[w.pos] \notin Stored) \in BOOLEAN
      OBVIOUS
    <3>5. [w EXCEPT !.dirty = dirty /\ block[w.pos] \notin Stored] \in Windows
      <4> DEFINE d == dirty /\ block[w.pos] \notin Stored
      <4>1. d \in BOOLEAN
        BY <3>4
      <4> HIDE DEF d
      <4>2. [w EXCEPT !.dirty = d] \in Windows
        BY <3>2, <4>1, WindowMade, EmptyIs
      <4> QED BY <4>2 DEF d
    <3> DEFINE v == [w EXCEPT !.dirty = dirty /\ block[w.pos] \notin Stored]
    <3>6. win' = [win EXCEPT ![c] = v]
      BY <1>2, <2>2
    <3>7. v \in Windows
      BY <3>5
    <3> HIDE DEF v
    <3> QED BY <1>1, <1>2, <3>3, <3>6, <3>7 DEF WorldTyped
  <2> QED BY <2>1, <2>2
<1>4. GoodsTyped'
  <2>1. e \in Stacks
    <3>1. f["in"] \in Stacks
      BY CellsAre
    <3>2. ender[c] \in Stacks
      BY <1>1 DEF GoodsTyped
    <3> QED BY <3>1, <3>2
  <2>2. InvCells \subseteq Cell
    BY CellsAre
  <2> HIDE DEF e, w
  <2> QED BY <1>1, <1>2, <2>1, <2>2, SaveTyped
<1>5. ClientsTyped' /\ crossed' \in SUBSET Conn
  <2>1. <<Contents(id, f)>> \in Seq(Messages)
    BY ContentsTyped, ContentCellsAre, CellsAre
  <2>2. Rest(c) \in [Conn -> Seq(Packets)]
    BY <1>1, RestTyped
  <2> HIDE DEF e, w
  <2> QED BY <1>1, <1>2, <2>1, <2>2, SendToTyped
<1>6. LifeTyped'
  BY <1>1, <1>2, <1>5 DEF LifeTyped
<1> QED BY <1>3, <1>4, <1>5, <1>6 DEF Typed

\* A current click, and the crafting cells it is about.
LEMMA ClickIs ==
    ASSUME NEW m \in Packets, IsClick(m)
    PROVE  /\ m.id \in 0 .. Ids /\ m.mode \in {"pickup", "quick", "throw"} /\ m.cell \in Cell
           /\ m.new \in Named /\ m.seen \in Named
BY DEF Packets, IsClick

\* The crafting cells of a window.
LEMMA CraftCells ==
    ASSUME NEW c \in Conn, NEW id
    PROVE  /\ GridCell(c, id) \in Cell \ MainCells /\ GridCell(c, id) # "cursor"
           /\ \/ ResultCell(c, id) = "none"
              \/ /\ ResultCell(c, id) \in Cell \ MainCells /\ ResultCell(c, id) # "cursor"
                 /\ ResultCell(c, id) # GridCell(c, id)
           /\ ResultCell(c, id) \in {"result", "out", "none"}
           /\ id = 0 => ResultCell(c, id) = "result" /\ GridCell(c, id) = "grid"
           /\ id # 0 => GridCell(c, id) = "in"
           /\ id # 0 /\ win[c].kind = "table" => ResultCell(c, id) = "out"
           /\ id # 0 /\ win[c].kind # "table" => ResultCell(c, id) = "none"
<1>1. CASE id = 0
  BY <1>1, CellsAre DEF GridCell, ResultCell
<1>2. CASE id # 0 /\ win[c].kind = "table"
  BY <1>2, CellsAre DEF GridCell, ResultCell
<1>3. CASE id # 0 /\ win[c].kind # "table"
  BY <1>3, CellsAre DEF GridCell, ResultCell
<1> QED BY <1>1, <1>2, <1>3

\* What crafting with cells r and g makes of all the cells.
LEMMA CraftedIs ==
    ASSUME NEW f \in [Cell -> Stacks], NEW r \in Cell \ MainCells, NEW g \in Cell \ MainCells,
           r # g, r # "cursor", g # "cursor"
    PROVE  /\ Take(f, r, g) \in Moves(Cell, {g, "cursor"}, {r}, f)
           /\ CraftToMain(f, r, g) \in Moves(Cell, MainCells \cup {g}, {r}, f)
           /\ Take(f, r, g) \in [Cell -> Stacks] /\ CraftToMain(f, r, g) \in [Cell -> Stacks]
<1>1. "cursor" \in Cell /\ MainCells \subseteq Cell
  BY CellsAre
<1>2. Take(f, r, g) \in Moves(Cell, {g, "cursor"}, {r}, f)
  BY <1>1, TakeIs
<1>3. CraftToMain(f, r, g) \in Moves(Cell, MainCells \cup {g}, {r}, f)
  BY <1>1, CraftIs
<1> QED BY <1>2, <1>3 DEF Moves

\* A shift-click in a furnace window moves goods within it.
LEMMA FurnaceMoveIs ==
    ASSUME NEW f \in [Cell -> Stacks], NEW U \in SUBSET Cell, MainCells \cup BoxCells \subseteq U,
           NEW x \in U
    PROVE  /\ FurnaceMove(f, x) \in Moves(Cell, U, {}, f)
           /\ FurnaceMove(f, x) \in [Cell -> Stacks]
<1>1. IsFiniteSet(U) /\ U \subseteq Cell
  BY CellsAreFinite, FS_Subset
<1>2. FurnaceMove(f, x) \in Moves(Cell, U, {}, f)
  <2>1. CASE x \in BoxCells
    <3>1. x \in Cell \ MainCells /\ MainCells \subseteq Cell /\ MainCells \cup {x} \subseteq U
      BY <2>1, CellsAre
    <3>2. Absorb(f, x) \in Moves(Cell, MainCells \cup {x}, {}, f)
      BY <3>1, AbsorbIs
    <3>3. FurnaceMove(f, x) = Absorb(f, x)
      BY <2>1 DEF FurnaceMove
    <3> QED BY <1>1, <3>1, <3>2, <3>3, MovesWider
  <2>2. CASE x \notin BoxCells /\ f[x].item = Raw
    <3>1. x \in U /\ "in" \in U /\ x # "in"
      BY <2>2, CellsAre
    <3>2. FurnaceMove(f, x) = MoveAll(f, x, "in")
      BY <2>2 DEF FurnaceMove
    <3> QED BY <1>1, <3>1, <3>2, MoveStays, Sizes DEF MoveAll
  <2>3. CASE x \notin BoxCells /\ f[x].item # Raw
    <3>1. FurnaceMove(f, x) = f
      BY <2>3 DEF FurnaceMove
    <3> QED BY <3>1, MovesSelf
  <2> QED BY <2>1, <2>2, <2>3
<1>3. FurnaceMove(f, x) \in [Cell -> Stacks]
  BY <1>2 DEF Moves
<1> QED BY <1>2, <1>3

\* Refusing to throw a result keeps the types.
LEMMA ThrowTyped ==
    ASSUME Typed, NEW c \in Conn, clicks[c] # <<>>, NEW m \in Packets, IsClick(m), Current(c, m),
           ThrowResult(c, m)
    PROVE  Typed'
<1>1. WorldTyped /\ GoodsTyped /\ LifeTyped /\ ClientsTyped
  BY DEF Typed
<1>2. SendTo(c, Rest(c), <<Contents(m.id, Cells(c))>>) /\ UNCHANGED serverVars
  BY DEF ThrowResult
<1>3. <<Contents(m.id, Cells(c))>> \in Seq(Messages)
  <2>1. m.id \in 0 .. Ids /\ Cells(c) \in [Cell -> Stacks]
    BY <1>1, ClickIs, CellsTyped
  <2> QED BY <2>1, ContentsTyped, ContentCellsAre, CellsAre
<1>4. Rest(c) \in [Conn -> Seq(Packets)]
  BY <1>1, RestTyped
<1>5. ClientsTyped' /\ crossed' \in SUBSET Conn
  BY <1>1, <1>2, <1>3, <1>4, SendToTyped
<1>6. WorldTyped' /\ GoodsTyped' /\ LifeTyped'
  BY <1>1, <1>2, <1>5 DEF WorldTyped, GoodsTyped, LifeTyped, serverVars
<1> QED BY <1>5, <1>6 DEF Typed

\* Taking a result keeps the types.
LEMMA TakeTyped ==
    ASSUME Typed, NEW c \in Conn, clicks[c] # <<>>, NEW m \in Packets, IsClick(m), Current(c, m),
           TakeResult(c, m)
    PROVE  Typed'
<1> DEFINE r == ResultCell(c, m.id)
           g == GridCell(c, m.id)
           f == IF m.mode = "pickup" THEN Take(Cells(c), r, g) ELSE CraftToMain(Cells(c), r, g)
<1>1. WorldTyped /\ GoodsTyped /\ LifeTyped /\ ClientsTyped
  BY DEF Typed
<1>2. m.cell = r /\ Clicked(c, m.id, f, FALSE) /\ ground' = ground
  BY DEF TakeResult
<1>3. f \in [Cell -> Stacks]
  <2>1. r # "none"
    BY <1>2, ClickIs, CellsAre
  <2>2. r \in Cell \ MainCells /\ g \in Cell \ MainCells /\ r # g /\ r # "cursor" /\ g # "cursor"
    BY <2>1, CraftCells
  <2>3. Cells(c) \in [Cell -> Stacks]
    BY <1>1, CellsTyped
  <2> HIDE DEF r, g
  <2> QED BY <2>2, <2>3, CraftedIs
<1>4. m.id \in 0 .. Ids /\ (m.id # 0 => win[c].id # 0)
  BY ClickIs DEF Current, Open
<1>5. ground' \in [Items -> Nat]
  BY <1>1, <1>2 DEF GoodsTyped
<1> HIDE DEF f
<1> QED BY <1>2, <1>3, <1>4, <1>5, ClickedTyped

\* MoveInFurnace keeps the types.
LEMMA MoveInFurnaceTyped ==
    ASSUME Typed, NEW c \in Conn, clicks[c] # <<>>, NEW m \in Packets, IsClick(m), Current(c, m),
           MoveInFurnace(c, m)
    PROVE  Typed'
<1> DEFINE f == FurnaceMove(Cells(c), m.cell)
<1>1. WorldTyped /\ GoodsTyped /\ LifeTyped /\ ClientsTyped
  BY DEF Typed
<1>2. IF f = Cells(c) THEN SendTo(c, Rest(c), <<Contents(m.id, f)>>) /\ UNCHANGED serverVars
      ELSE Clicked(c, m.id, f, TRUE) /\ ground' = ground
  BY DEF MoveInFurnace
<1>3. f \in [Cell -> Stacks]
  <2>1. Cells(c) \in [Cell -> Stacks] /\ m.cell \in Cell
    BY <1>1, CellsTyped, ClickIs
  <2> QED BY <2>1, FurnaceMoveIs, CellsAre
<1>4. m.id \in 0 .. Ids /\ (m.id # 0 => win[c].id # 0)
  BY ClickIs DEF Current, Open
<1> HIDE DEF f
<1>5. CASE f = Cells(c)
  <2>1. <<Contents(m.id, f)>> \in Seq(Messages)
    BY <1>3, <1>4, ContentsTyped, ContentCellsAre, CellsAre
  <2>2. Rest(c) \in [Conn -> Seq(Packets)]
    BY <1>1, RestTyped
  <2>3. ClientsTyped' /\ crossed' \in SUBSET Conn
    BY <1>1, <1>2, <1>5, <2>1, <2>2, SendToTyped
  <2>4. WorldTyped' /\ GoodsTyped' /\ LifeTyped'
    BY <1>1, <1>2, <1>5, <2>3 DEF WorldTyped, GoodsTyped, LifeTyped, serverVars
  <2> QED BY <2>3, <2>4 DEF Typed
<1>6. CASE f # Cells(c)
  <2>1. ground' \in [Items -> Nat]
    BY <1>1, <1>2, <1>6 DEF GoodsTyped
  <2> QED BY <1>2, <1>3, <1>4, <1>6, <2>1, ClickedTyped
<1> QED BY <1>5, <1>6

\* What copying the cells of a click makes of the cells of c.
Copied(c, m) ==
    LET r == ResultCell(c, m.id)
        f == Cells(c)
        copied == [x \in DOMAIN f |-> IF x \in DOMAIN m.new \ {r} THEN m.new[x] ELSE f[x]]
    IN  IF r = "none" THEN copied ELSE WithResult(copied, r, GridCell(c, m.id))
Dropped(c, m) ==
    LET was == Cells(c)[m.cell]
        is == Copied(c, m)[m.cell]
    IN  IF m.mode = "throw" /\ is.n < was.n /\ is.item \in {was.item, NoItem}
        THEN Less(was, is.n) ELSE Nothing

\* Copying a click, by name.
LEMMA CopyIs ==
    ASSUME NEW c, NEW m, CopyCells(c, m)
    PROVE  /\ m.cell # ResultCell(c, m.id) /\ ~MovesInFurnace(c, m)
           /\ Clicked(c, m.id, Copied(c, m),
                      win[c].kind \in Stored /\ (win[c].dirty \/ DOMAIN m.new \cap BoxCells # {}))
           /\ ground' = Fallen(ground, [x \in {m.cell} |-> Dropped(c, m)], {m.cell})
BY Zenon DEF CopyCells, Copied, Dropped

\* What is copied, and what falls, are stacks.
LEMMA CopiedTyped ==
    ASSUME WorldTyped, GoodsTyped, NEW c \in Conn, NEW m \in Packets, IsClick(m)
    PROVE  /\ Copied(c, m) \in [Cell -> Stacks]
           /\ \A x \in Cell : x # ResultCell(c, m.id) =>
                 Copied(c, m)[x] = IF x \in DOMAIN m.new THEN m.new[x] ELSE Cells(c)[x]
           /\ ResultCell(c, m.id) # "none" =>
                 Copied(c, m)[ResultCell(c, m.id)] = Recipe(Copied(c, m)[GridCell(c, m.id)])
           /\ Dropped(c, m) \in Stacks
           /\ Dropped(c, m).n = IF /\ m.mode = "throw"
                                   /\ Copied(c, m)[m.cell].n < Cells(c)[m.cell].n
                                   /\ Copied(c, m)[m.cell].item \in {Cells(c)[m.cell].item, NoItem}
                                THEN Cells(c)[m.cell].n - Copied(c, m)[m.cell].n ELSE 0
<1> DEFINE r == ResultCell(c, m.id)
           f == Cells(c)
           copied == [x \in DOMAIN f |-> IF x \in DOMAIN m.new \ {r} THEN m.new[x] ELSE f[x]]
<1>1. f \in [Cell -> Stacks] /\ DOMAIN f = Cell
  BY CellsTyped
<1>2. \A x \in DOMAIN m.new : m.new[x] \in Stacks
  BY ClickIs DEF Named
<1> HIDE DEF f
<1>3. copied \in [Cell -> Stacks]
      /\ \A x \in Cell : copied[x] = IF x \in DOMAIN m.new \ {r} THEN m.new[x] ELSE f[x]
  BY <1>1, <1>2
<1>4. Copied(c, m) = IF r = "none" THEN copied ELSE WithResult(copied, r, GridCell(c, m.id))
  BY DEF Copied, f
<1> HIDE DEF copied, r
<1>5. /\ Copied(c, m) \in [Cell -> Stacks]
      /\ \A x \in Cell : x # r => Copied(c, m)[x] = copied[x]
      /\ r # "none" => Copied(c, m)[r] = Recipe(Copied(c, m)[GridCell(c, m.id)])
  <2>1. CASE r = "none"
    BY <1>3, <1>4, <2>1
  <2>2. CASE r # "none"
    <3>1. GridCell(c, m.id) \in Cell /\ r \in Cell /\ r # GridCell(c, m.id)
      BY <2>2, CraftCells DEF r
    <3> QED BY <1>3, <1>4, <2>2, <3>1, WithResultIs
  <2> QED BY <2>1, <2>2
<1>6. \A x \in Cell : x # r => Copied(c, m)[x] = IF x \in DOMAIN m.new THEN m.new[x] ELSE f[x]
  BY <1>3, <1>5
<1>7. /\ Dropped(c, m) \in Stacks
      /\ Dropped(c, m).n = IF /\ m.mode = "throw"
                              /\ Copied(c, m)[m.cell].n < f[m.cell].n
                              /\ Copied(c, m)[m.cell].item \in {f[m.cell].item, NoItem}
                           THEN f[m.cell].n - Copied(c, m)[m.cell].n ELSE 0
  <2>1. m.cell \in Cell
    BY ClickIs
  <2> DEFINE was == f[m.cell]
             is == Copied(c, m)[m.cell]
  <2>2. was \in Stacks /\ is \in Stacks
    BY <1>1, <1>5, <2>1
  <2>3. Dropped(c, m) = IF m.mode = "throw" /\ is.n < was.n /\ is.item \in {was.item, NoItem}
                        THEN Less(was, is.n) ELSE Nothing
    BY DEF Dropped, f
  <2> HIDE DEF was, is
  <2>4. was.n \in Nat /\ is.n \in Nat
    BY <2>2, StackIs, Sizes
  <2>5. is.n < was.n => Less(was, is.n) \in Stacks /\ Less(was, is.n).n = was.n - is.n
    <3> SUFFICES ASSUME is.n < was.n PROVE Less(was, is.n) \in Stacks /\ Less(was, is.n).n = was.n - is.n
      OBVIOUS
    <3>1. is.n \in 0 .. was.n
      BY <2>4
    <3> QED BY <2>2, <3>1, LessMade
  <2>6. Dropped(c, m) \in Stacks /\ Dropped(c, m).n =
          IF m.mode = "throw" /\ is.n < was.n /\ is.item \in {was.item, NoItem} THEN was.n - is.n ELSE 0
    BY <2>3, <2>5, NothingIs
  <2> QED BY <2>6 DEF was, is
<1> QED BY <1>5, <1>6, <1>7 DEF f, r

\* Copying a click keeps the types.
LEMMA CopyTyped ==
    ASSUME Typed, NEW c \in Conn, clicks[c] # <<>>, NEW m \in Packets, IsClick(m), Current(c, m),
           CopyCells(c, m)
    PROVE  Typed'
<1> DEFINE dirty == win[c].kind \in Stored /\ (win[c].dirty \/ DOMAIN m.new \cap BoxCells # {})
           s == [x \in {m.cell} |-> Dropped(c, m)]
<1>1. WorldTyped /\ GoodsTyped /\ LifeTyped /\ ClientsTyped
  BY DEF Typed
<1>2. Clicked(c, m.id, Copied(c, m), dirty) /\ ground' = Fallen(ground, s, {m.cell})
  BY CopyIs
<1>3. Copied(c, m) \in [Cell -> Stacks] /\ Dropped(c, m) \in Stacks
  BY <1>1, CopiedTyped
<1>4. dirty \in BOOLEAN
  OBVIOUS
<1>5. m.id \in 0 .. Ids /\ (m.id # 0 => win[c].id # 0)
  BY ClickIs DEF Current, Open
<1>6. ground' \in [Items -> Nat]
  <2>1. ground \in [Items -> Nat] /\ IsFiniteSet({m.cell}) /\ \A x \in {m.cell} : s[x] \in Stacks
    BY <1>1, <1>3, FS_Singleton DEF GoodsTyped
  <2> HIDE DEF s
  <2> QED BY <1>2, <2>1, FallenIs
<1> HIDE DEF dirty
<1> QED BY <1>2, <1>3, <1>4, <1>5, <1>6, ClickedTyped

\* HandleClick keeps the types.
LEMMA HandleClickTyped == ASSUME Typed, NEW c \in Conn, HandleClick(c) PROVE Typed'
<1> DEFINE m == Head(clicks[c])
<1>1. clicks[c] # <<>>
  <2>1. \E i \in 1 .. Len(clicks[c]) : IsClick(clicks[c][i])
    BY DEF HandleClick, Waiting
  <2> QED BY <2>1
<1>2. m \in Packets
  BY <1>1, RestTyped DEF Typed
<1>3. IsClick(m) /\ Current(c, m)
      /\ (ThrowResult(c, m) \/ TakeResult(c, m) \/ MoveInFurnace(c, m) \/ CopyCells(c, m))
  BY DEF HandleClick
<1> HIDE DEF m
<1> QED BY <1>1, <1>2, <1>3, ThrowTyped, TakeTyped, MoveInFurnaceTyped, CopyTyped

\* Ignore keeps the types.
LEMMA IgnoreTyped == ASSUME Typed, NEW c \in Conn, Ignore(c) PROVE Typed'
<1>1. WorldTyped /\ GoodsTyped /\ LifeTyped /\ ClientsTyped
  BY DEF Typed
<1>2. clicks[c] # <<>> /\ clicks' = Rest(c) /\ crossed' \in {crossed, crossed \cup {c}}
      /\ UNCHANGED <<serverVars, view, syncs>>
  BY DEF Ignore
<1>3. Rest(c) \in [Conn -> Seq(Packets)]
  BY <1>1, <1>2, RestTyped
<1>4. ClientsTyped'
  BY <1>1, <1>2, <1>3 DEF ClientsTyped
<1> QED BY <1>1, <1>2, <1>4 DEF Typed, WorldTyped, GoodsTyped, LifeTyped, serverVars

\* HandleClose keeps the types.
LEMMA HandleCloseTyped == ASSUME Typed, NEW c \in Conn, HandleClose(c) PROVE Typed'
<1> DEFINE m == Head(clicks[c])
           left == Leave(c, be)
           f == Returned(inv[c], "result", "grid")
           g == Emptied(f, {"grid"})
<1>1. WorldTyped /\ GoodsTyped /\ LifeTyped /\ ClientsTyped
  BY DEF Typed
<1>2. /\ IF m.id = 0
         THEN /\ ground' = Fallen(ground, f, {"grid"})
              /\ Save(c, g, ender[c])
              /\ SendTo(c, Rest(c), <<Contents(0, g)>>)
              /\ UNCHANGED <<win, be>>
         ELSE /\ ground' = left.ground /\ be' = left.be
              /\ win' = [win EXCEPT ![c] = Closed]
              /\ IF win[c].kind \in {"table", "ender"} THEN Save(c, left.inv, ender[c])
                 ELSE UNCHANGED <<inv, ender, file>>
              /\ SendTo(c, Rest(c), left.sent)
      /\ UNCHANGED <<block, lastId, life, dead>>
      /\ clicks[c] # <<>>
  BY DEF HandleClose
<1>3. Rest(c) \in [Conn -> Seq(Packets)]
  BY <1>1, <1>2, RestTyped
<1>4. CASE m.id = 0
  <2>1. f \in Inventories
    BY <1>1, InventoryCells DEF GoodsTyped
  <2>2. g \in Inventories
    <3> HIDE DEF f
    <3> QED BY <2>1, InventoryCells
  <2>3. ground' \in [Items -> Nat]
    <3>1. IsFiniteSet({"grid"}) /\ \A x \in {"grid"} : f[x] \in Stacks
      <4> HIDE DEF f
      <4> QED BY <2>1, CellsAre, FS_Singleton DEF Inventories
    <3>2. ground \in [Items -> Nat]
      BY <1>1 DEF GoodsTyped
    <3> HIDE DEF f
    <3> QED BY <1>2, <1>4, <3>1, <3>2, FallenIs
  <2> HIDE DEF f, g, m
  <2>4. g \in [InvCells -> Stacks] /\ ender[c] \in Stacks
    BY <1>1, <2>2 DEF Inventories, GoodsTyped
  <2>5. GoodsTyped'
    BY <1>1, <1>2, <1>4, <2>3, <2>4, SaveTyped
  <2>6. <<Contents(0, g)>> \in Seq(Messages)
    <3>1. 0 \in 0 .. Ids
      BY Sizes
    <3> QED BY <2>4, <3>1, ContentsTyped
  <2>7. ClientsTyped' /\ crossed' \in SUBSET Conn
    BY <1>1, <1>2, <1>3, <1>4, <2>6, SendToTyped
  <2>8. WorldTyped' /\ LifeTyped'
    BY <1>1, <1>2, <1>4, <2>7 DEF WorldTyped, LifeTyped
  <2> QED BY <2>5, <2>7, <2>8 DEF Typed
<1>5. CASE m.id # 0
  <2>1. be \in [Pos -> Boxes \cup {NoBox}]
    BY <1>1 DEF WorldTyped
  <2>2. /\ left.inv \in Inventories /\ left.ground \in [Items -> Nat]
        /\ left.be \in [Pos -> Boxes \cup {NoBox}] /\ left.sent \in Seq(Messages)
    BY <1>1, <2>1, LeaveTyped
  <2> HIDE DEF left, m, f, g
  <2>3. GoodsTyped'
    <3>1. ground' \in [Items -> Nat]
      BY <1>2, <1>5, <2>2
    <3>2. CASE Save(c, left.inv, ender[c])
      <4>1. left.inv \in [InvCells -> Stacks] /\ ender[c] \in Stacks
        BY <1>1, <2>2 DEF Inventories, GoodsTyped
      <4> QED BY <1>1, <3>1, <3>2, <4>1, SaveTyped
    <3>3. CASE UNCHANGED <<inv, ender, file>>
      BY <1>1, <3>1, <3>3 DEF GoodsTyped
    <3> QED BY <1>2, <1>5, <3>2, <3>3
  <2>4. ClientsTyped' /\ crossed' \in SUBSET Conn
    BY <1>1, <1>2, <1>3, <1>5, <2>2, SendToTyped
  <2>5. Closed \in Windows
    BY DEF Windows
  <2>6. WorldTyped' /\ LifeTyped'
    BY <1>1, <1>2, <1>5, <2>2, <2>4, <2>5 DEF WorldTyped, LifeTyped
  <2> QED BY <2>3, <2>4, <2>6 DEF Typed
<1> QED BY <1>4, <1>5

\* SmeltOpen keeps the types.
LEMMA SmeltOpenTyped == ASSUME Typed, NEW c \in Conn, SmeltOpen(c) PROVE Typed'
<1> DEFINE box == Smelted(win[c].box)
<1>1. WorldTyped /\ GoodsTyped /\ LifeTyped /\ ClientsTyped
  BY DEF Typed
<1>2. /\ win[c].kind = "furnace"
      /\ win' = [win EXCEPT ![c] = [[win[c] EXCEPT !.box = box] EXCEPT !.dirty = TRUE]]
      /\ SendTo(c, clicks, <<Contents(win[c].id, Over(inv[c], box))>>)
      /\ UNCHANGED <<block, be, lastId, inv, ender, file, ground, life, dead>>
  BY DEF SmeltOpen
<1>3. win[c] \in Windows /\ win[c].box \in Boxes
  BY <1>1, WindowIs DEF WorldTyped
<1>4. box \in Boxes
  BY <1>3, SmeltedIs
<1>5. win[c].id # 0 /\ win[c].id \in 1 .. Ids
  BY <1>2, <1>3, WindowIs DEF Closed
<1> HIDE DEF box
<1>6. WorldTyped'
  <2>1. [[win[c] EXCEPT !.box = box] EXCEPT !.dirty = TRUE] \in Windows
    <3>1. win[c] \in [id : 1 .. Ids, kind : Kinds, pos : Pos, box : Boxes, dirty : BOOLEAN]
      BY <1>3, <1>5 DEF Windows, Closed
    <3> QED BY <1>4, <3>1 DEF Windows
  <2> QED BY <1>1, <1>2, <2>1 DEF WorldTyped
<1>7. Over(inv[c], box) \in [Cell -> Stacks]
  BY <1>1, <1>4, OverIs DEF GoodsTyped, Inventories, Boxes, Cell
<1>8. <<Contents(win[c].id, Over(inv[c], box))>> \in Seq(Messages)
  BY <1>5, <1>7, ContentsTyped, ContentCellsAre, Sizes
<1>9. ClientsTyped' /\ crossed' \in SUBSET Conn
  <2>1. clicks \in [Conn -> Seq(Packets)]
    BY <1>1 DEF ClientsTyped
  <2> QED BY <1>1, <1>2, <1>8, <2>1, SendToTyped
<1>10. GoodsTyped' /\ LifeTyped'
  BY <1>1, <1>2, <1>9 DEF GoodsTyped, LifeTyped
<1> QED BY <1>6, <1>9, <1>10 DEF Typed

\* SmeltStored keeps the types.
LEMMA SmeltStoredTyped == ASSUME Typed, NEW p \in Pos, SmeltStored(p) PROVE Typed'
<1>1. WorldTyped /\ GoodsTyped /\ LifeTyped /\ ClientsTyped
  BY DEF Typed
<1>2. be[p] # NoBox /\ be' = [be EXCEPT ![p] = Smelted(be[p])]
      /\ UNCHANGED <<block, win, lastId, inv, ender, file, ground, life, dead, clientVars>>
  BY DEF SmeltStored
<1>3. be[p] \in Boxes
  BY <1>1, <1>2 DEF WorldTyped
<1>4. WorldTyped'
  BY <1>1, <1>2, <1>3, SmeltedIs DEF WorldTyped
<1> QED BY <1>1, <1>2, <1>4 DEF Typed, GoodsTyped, LifeTyped, ClientsTyped, clientVars

\* What a player with an inventory makes of a stack from the ground.
LEMMA PickedIs ==
    ASSUME NEW v \in Inventories, NEW s \in Stacks
    PROVE  LET h == Over(v, [ground |-> s])
               f == Absorb(h, "ground")
           IN  /\ h \in [InvCells \cup {"ground"} -> Stacks]
               /\ h["ground"] = s /\ \A x \in InvCells : h[x] = v[x]
               /\ f \in Moves(InvCells \cup {"ground"}, MainCells \cup {"ground"}, {}, h)
               /\ f \in [InvCells \cup {"ground"} -> Stacks]
               /\ f["ground"].n <= s.n /\ f["ground"].n \in Nat
<1> DEFINE D == InvCells \cup {"ground"}
           h == Over(v, [ground |-> s])
           f == Absorb(h, "ground")
<1>1. "ground" \notin InvCells
  BY CellsAre
<1>2. h \in [D -> Stacks] /\ h["ground"] = s /\ \A x \in InvCells : h[x] = v[x]
  BY <1>1 DEF Over, Inventories
<1>3. MainCells \subseteq D /\ "ground" \in D \ MainCells
  BY <1>1, CellsAre
<1>4. f \in Moves(D, MainCells \cup {"ground"}, {}, h) /\ f["ground"].n <= h["ground"].n
  <2> HIDE DEF h, D
  <2> QED BY <1>2, <1>3, AbsorbIs
<1>5. f \in [D -> Stacks]
  <2> HIDE DEF f, h
  <2> QED BY <1>4 DEF Moves
<1>6. f["ground"] \in Stacks
  <2> HIDE DEF f
  <2> QED BY <1>5
<1>7. f["ground"].n \in Nat
  BY <1>6, StackIs, Sizes
<1> QED BY <1>2, <1>4, <1>5, <1>7

\* PickUp keeps the types.
LEMMA PickUpTyped == ASSUME Typed, NEW c \in Conn, NEW i \in Items, PickUp(c, i) PROVE Typed'
<1>1. WorldTyped /\ GoodsTyped /\ LifeTyped /\ ClientsTyped
  BY DEF Typed
<1>2. PICK n \in 1 .. Lower(ground[i], MaxStack) :
        LET f == Absorb(Over(inv[c], [ground |-> Stack(i, n)]), "ground")
            g == WithResult(f, "result", "grid")
        IN  /\ f["ground"].n < n
            /\ ground' = [ground EXCEPT ![i] = @ - (n - f["ground"].n)]
            /\ Save(c, g, ender[c])
            /\ SendTo(c, clicks, <<Contents(0, g)>>)
  BY DEF PickUp
<1> DEFINE D == InvCells \cup {"ground"}
           f == Absorb(Over(inv[c], [ground |-> Stack(i, n)]), "ground")
           g == WithResult(f, "result", "grid")
<1>3. UNCHANGED <<block, be, win, lastId, life, dead>>
  BY DEF PickUp
<1>4. ground[i] \in Nat /\ n \in 0 .. MaxStack /\ n <= ground[i] /\ inv[c] \in Inventories /\ ender[c] \in Stacks
  BY <1>1, Sizes DEF GoodsTyped, Lower
<1>5. Stack(i, n) \in Stacks /\ Stack(i, n).n = n
  BY <1>4, StackMade
<1>6. f \in [D -> Stacks] /\ f["ground"].n \in Nat
  BY <1>4, <1>5, PickedIs
<1>7. g \in [D -> Stacks]
  <2>1. "grid" \in D
    BY CellsAre
  <2> HIDE DEF f, D
  <2> QED BY <1>6, <2>1, WithResultIs
<1>8. /\ f["ground"].n < n /\ ground' = [ground EXCEPT ![i] = @ - (n - f["ground"].n)]
      /\ Save(c, g, ender[c]) /\ SendTo(c, clicks, <<Contents(0, g)>>)
  BY <1>2
<1> HIDE DEF f, g
<1>9. ground' \in [Items -> Nat]
  <2>1. ground[i] - (n - f["ground"].n) \in Nat
    BY <1>4, <1>6, <1>8
  <2> DEFINE k == ground[i] - (n - f["ground"].n)
  <2>2. ground' = [ground EXCEPT ![i] = k]
    BY <1>8
  <2>3. k \in Nat
    BY <2>1
  <2> HIDE DEF k
  <2> QED BY <1>1, <2>2, <2>3 DEF GoodsTyped
<1>10. GoodsTyped'
  <2>1. InvCells \subseteq D
    OBVIOUS
  <2> HIDE DEF D
  <2> QED BY <1>1, <1>4, <1>7, <1>8, <1>9, <2>1, SaveTyped
<1>11. <<Contents(0, g)>> \in Seq(Messages)
  <2>1. 0 \in 0 .. Ids /\ InvCells \subseteq D
    BY Sizes
  <2> HIDE DEF D
  <2> QED BY <1>7, <2>1, ContentsTyped
<1>12. ClientsTyped' /\ crossed' \in SUBSET Conn
  <2>1. clicks \in [Conn -> Seq(Packets)]
    BY <1>1 DEF ClientsTyped
  <2> QED BY <1>1, <1>8, <1>11, <2>1, SendToTyped
<1>13. WorldTyped' /\ LifeTyped'
  BY <1>1, <1>3, <1>12 DEF WorldTyped, LifeTyped
<1> QED BY <1>10, <1>12, <1>13 DEF Typed

\* Die keeps the types.
LEMMA DieTyped == ASSUME Typed, NEW c \in Conn, Die(c) PROVE Typed'
<1> DEFINE left == Leave(c, be)
           f == [left.inv EXCEPT !["result"] = Nothing]
           ms == (IF Open(c) THEN <<CloseIt(win[c].id)>> ELSE <<>>) \o left.sent \o <<Contents(0, EmptyInv)>>
<1>1. WorldTyped /\ GoodsTyped /\ LifeTyped /\ ClientsTyped /\ be \in [Pos -> Boxes \cup {NoBox}]
  BY DEF Typed, WorldTyped
<1>2. /\ left.inv \in Inventories /\ left.ground \in [Items -> Nat]
      /\ left.be \in [Pos -> Boxes \cup {NoBox}] /\ left.sent \in Seq(Messages)
  BY <1>1, LeaveTyped
<1>3. /\ dead' = dead \cup {c} /\ be' = left.be /\ ground' = Fallen(left.ground, f, InvCells)
      /\ Save(c, EmptyInv, ender[c]) /\ SendTo(c, clicks, ms)
      /\ win' = [win EXCEPT ![c] = Closed] /\ UNCHANGED <<block, lastId, life>>
  BY DEF Die
<1> HIDE DEF left
<1>4. ground' \in [Items -> Nat]
  <2>1. \A x \in InvCells : f[x] \in Stacks
    BY <1>2, NothingIs DEF Inventories
  <2> HIDE DEF f
  <2> QED BY <1>2, <1>3, <2>1, CellsAreFinite, FallenIs
<1> HIDE DEF f
<1>5. ms \in Seq(Messages)
  <2>1. <<Contents(0, EmptyInv)>> \in Seq(Messages)
    <3>1. 0 \in 0 .. Ids /\ EmptyInv \in [InvCells -> Stacks]
      BY Sizes, EmptyIs DEF Inventories
    <3> QED BY <3>1, ContentsTyped
  <2>2. (IF Open(c) THEN <<CloseIt(win[c].id)>> ELSE <<>>) \in Seq(Messages)
    <3>1. CASE Open(c)
      <4>1. win[c].id \in 1 .. Ids
        BY <1>1, <3>1, WindowIs DEF WorldTyped, Open
      <4> QED BY <3>1, <4>1, CloseTyped
    <3>2. CASE ~Open(c)
      BY <3>2
    <3> QED BY <3>1, <3>2
  <2> DEFINE a == IF Open(c) THEN <<CloseIt(win[c].id)>> ELSE <<>>
             b == <<Contents(0, EmptyInv)>>
  <2>3. a \in Seq(Messages) /\ b \in Seq(Messages)
    BY <2>1, <2>2
  <2> HIDE DEF a, b, Messages
  <2>4. a \o left.sent \o b \in Seq(Messages)
    BY <1>2, <2>3
  <2> QED BY <2>4 DEF a, b
<1> HIDE DEF ms
<1>6. ClientsTyped' /\ crossed' \in SUBSET Conn
  <2>1. clicks \in [Conn -> Seq(Packets)]
    BY <1>1 DEF ClientsTyped
  <2> QED BY <1>1, <1>3, <1>5, <2>1, SendToTyped
<1>7. GoodsTyped'
  <2>1. EmptyInv \in [InvCells -> Stacks] /\ ender[c] \in Stacks
    BY <1>1, EmptyIs DEF Inventories, GoodsTyped
  <2> QED BY <1>1, <1>3, <1>4, <2>1, SaveTyped
<1>8. WorldTyped'
  <2>1. Closed \in Windows
    BY DEF Windows
  <2> QED BY <1>1, <1>2, <1>3, <2>1 DEF WorldTyped
<1>9. LifeTyped'
  BY <1>1, <1>3, <1>6 DEF LifeTyped
<1> QED BY <1>6, <1>7, <1>8, <1>9 DEF Typed

\* Respawn keeps the types.
LEMMA RespawnTyped == ASSUME Typed, NEW c \in Conn, Respawn(c) PROVE Typed'
<1> DEFINE f == WithResult(inv[c], "result", "grid")
<1>1. WorldTyped /\ GoodsTyped /\ LifeTyped /\ ClientsTyped
  BY DEF Typed
<1>2. /\ dead' = dead \ {c} /\ Save(c, f, ender[c]) /\ SendTo(c, clicks, <<Contents(0, f)>>)
      /\ UNCHANGED <<block, be, win, lastId, ground, life>>
  BY DEF Respawn
<1>3. f \in Inventories /\ ender[c] \in Stacks
  BY <1>1, InventoryCells DEF GoodsTyped
<1> HIDE DEF f
<1>4. f \in [InvCells -> Stacks] /\ 0 \in 0 .. Ids
  BY <1>3, Sizes DEF Inventories
<1>5. ClientsTyped' /\ crossed' \in SUBSET Conn
  <2>1. clicks \in [Conn -> Seq(Packets)]
    BY <1>1 DEF ClientsTyped
  <2>2. <<Contents(0, f)>> \in Seq(Messages)
    BY <1>4, ContentsTyped
  <2> QED BY <1>1, <1>2, <2>1, <2>2, SendToTyped
<1>6. GoodsTyped'
  <2>1. ground' \in [Items -> Nat]
    BY <1>1, <1>2 DEF GoodsTyped
  <2> QED BY <1>1, <1>2, <1>3, <1>4, <2>1, SaveTyped
<1>7. WorldTyped' /\ LifeTyped'
  BY <1>1, <1>2, <1>5 DEF WorldTyped, LifeTyped
<1> QED BY <1>5, <1>6, <1>7 DEF Typed

-----------------------------------------------------------------------------
(* What clients propose.                                                   *)

\* The cells of a window of that kind, the player's own included, whose
\* goods are counted; its result cell, and the grid behind it.
Counted(kind) ==
    Kept \cup (CASE kind \in Stored -> BoxCells
                 [] kind \in {"table", "ender"} -> {"in"}
                 [] OTHER -> {})
ResultOf(kind) == CASE kind = "none" -> "result" [] kind = "table" -> "out" [] OTHER -> "none"
GridOf(kind) == IF kind = "none" THEN "grid" ELSE "in"

\* What a client that shows f in a window of that kind may make of it by a click
\* on cell x.
CraftsIt(kind, f, mode, x, g) ==
    /\ x = ResultOf(kind) /\ x # "none"
    /\ g = CASE mode = "pickup" -> Take(f, x, GridOf(kind))
             [] mode = "quick" -> CraftToMain(f, x, GridOf(kind))
             [] OTHER -> f
ThrowsIt(kind, f, mode, x, g) ==
    /\ mode = "throw" /\ x \in Counted(kind) /\ f[x] # Nothing
    /\ g = [f EXCEPT ![x] = Less(@, 1)]
MovesIt(kind, f, mode, x, g) ==
    /\ mode \in {"pickup", "quick"} /\ x \in Counted(kind)
    /\ g \in Moves(Cell, Counted(kind), {}, f)
    /\ kind = "furnace" /\ mode = "quick" => g = FurnaceMove(f, x)
Proposal(kind, f, mode, x, g) ==
    CraftsIt(kind, f, mode, x, g) \/ ThrowsIt(kind, f, mode, x, g) \/ MovesIt(kind, f, mode, x, g)

\* The kinds of container.
LEMMA KindsAre == Kinds \subseteq {"chest", "furnace", "table", "ender"} /\ "none" \notin Kinds /\ "air" \notin Kinds
BY WindowsAssumption

\* The counted cells of a kind, its result and its grid.
LEMMA CountedIs ==
    ASSUME NEW kind \in Kinds \cup {"none"}
    PROVE  /\ Counted(kind) \subseteq Cell /\ Kept \subseteq Counted(kind) /\ IsFiniteSet(Counted(kind))
           /\ ResultOf(kind) \notin Counted(kind)
           /\ kind = "none" => Counted(kind) = Kept
           /\ kind # "none" => "in" \in Counted(kind) /\ "grid" \in Counted(kind) /\ GridOf(kind) = "in"
           /\ kind \in Stored => Counted(kind) = Kept \cup BoxCells
           /\ kind \in {"table", "ender"} => Counted(kind) = Kept \cup {"in"}
           /\ "result" \notin Counted(kind) /\ "none" \notin Counted(kind)
           /\ ResultOf(kind) # "none" => GridOf(kind) \in Counted(kind) \ MainCells
                 /\ ResultOf(kind) \in Cell \ MainCells /\ ResultOf(kind) # "cursor" /\ GridOf(kind) # "cursor"
                 /\ ResultOf(kind) # GridOf(kind)
<1>1. Kept \subseteq Cell /\ BoxCells = {"in", "out"} /\ BoxCells \subseteq Cell /\ "grid" \in Kept /\ "cursor" \in Kept
      /\ "result" \notin Kept /\ "out" \notin Kept /\ "in" \notin Kept /\ "none" \notin Kept
      /\ "result" \in Cell \ MainCells /\ "grid" \notin MainCells /\ "in" \notin MainCells /\ "out" \notin MainCells
  BY CellsAre, MainIsApart DEF Kept, BoxCells
<1>2. CASE kind = "none"
  <2>1. Counted(kind) = Kept /\ ResultOf(kind) = "result" /\ GridOf(kind) = "grid"
    BY <1>2 DEF Counted, Stored, ResultOf, GridOf
  <2> QED BY <1>1, <1>2, <2>1, CellsAreFinite DEF Stored
<1>3. CASE kind \in {"chest", "furnace"}
  <2>1. Counted(kind) = Kept \cup BoxCells /\ ResultOf(kind) = "none" /\ GridOf(kind) = "in"
    BY <1>3 DEF Counted, Stored, ResultOf, GridOf
  <2>2. IsFiniteSet(Kept \cup BoxCells)
    BY CellsAreFinite, FS_Union
  <2>3. kind # "none" /\ kind \notin {"table", "ender"}
    BY <1>3
  <2> QED BY <1>1, <2>1, <2>2, <2>3
<1>4. CASE kind \in {"table", "ender"}
  <2>1. Counted(kind) = Kept \cup {"in"} /\ GridOf(kind) = "in"
        /\ ResultOf(kind) \in {"out", "none"}
    BY <1>4 DEF Counted, Stored, ResultOf, GridOf
  <2>2. IsFiniteSet(Kept \cup {"in"})
    BY CellsAreFinite, FS_AddElement
  <2>3. kind # "none" /\ kind \notin Stored
    BY <1>4 DEF Stored
  <2> QED BY <1>1, <1>4, <2>1, <2>2, <2>3
<1> QED BY <1>2, <1>3, <1>4, KindsAre

\* The view of a client.
LEMMA ViewIs ==
    ASSUME NEW v \in Views
    PROVE  /\ v.id \in 0 .. Ids /\ v.kind \in Kinds \cup {"none"} /\ v.cells \in [Cell -> Stacks]
           /\ v.id = 0 <=> v.kind = "none"
           /\ v = [id |-> v.id, kind |-> v.kind, cells |-> v.cells]
BY KindsAre, Sizes DEF Views

\* A client shows counted cells, and the result of its window.
LEMMA ShownIs ==
    ASSUME ClientsTyped, NEW c \in Conn
    PROVE  /\ Shown(c) \subseteq Counted(view[c].kind)
           /\ Shown(c) \subseteq MainCells \cup {"grid", "in", "out"}
           /\ ShownResult(c) # <<>> => /\ ShownResult(c)[1] = ResultOf(view[c].kind)
                                       /\ ShownResult(c)[2] = GridOf(view[c].kind)
                                       /\ ResultOf(view[c].kind) # "none"
<1>1. view[c] \in Views
  BY DEF ClientsTyped
<1> DEFINE k == view[c].kind
<1>2. k \in Kinds \cup {"none"} /\ (view[c].id = 0 <=> k = "none")
  BY <1>1, ViewIs
<1>3. MainCells \subseteq Kept /\ "grid" \in Kept /\ BoxCells = {"in", "out"}
  BY DEF Kept, BoxCells
<1>4. CASE k = "none"
  <2>1. Shown(c) = MainCells \cup {"grid"} /\ Counted(k) = Kept
    BY <1>2, <1>4 DEF Shown, Counted, Stored, MainCells
  <2>2. ShownResult(c) = <<"result", "grid">> /\ ResultOf(k) = "result" /\ GridOf(k) = "grid"
    BY <1>2, <1>4 DEF ShownResult, ResultOf, GridOf
  <2> QED BY <1>3, <2>1, <2>2
<1>5. CASE k = "furnace"
  <2>1. Shown(c) = MainCells \cup BoxCells /\ Counted(k) = Kept \cup BoxCells
    BY <1>2, <1>5 DEF Shown, Counted, Stored, MainCells
  <2>2. ShownResult(c) = <<>>
    BY <1>2, <1>5 DEF ShownResult
  <2> QED BY <1>3, <2>1, <2>2
<1>6. CASE k \in {"chest", "table", "ender"}
  <2>1. Shown(c) = MainCells \cup {"in"}
    BY <1>2, <1>6 DEF Shown, MainCells
  <2>2. "in" \in Counted(k) /\ Kept \subseteq Counted(k)
    BY <1>2, <1>6, CountedIs
  <2>3. ShownResult(c) # <<>> => k = "table" /\ ShownResult(c) = <<"out", "in">>
    BY <1>2, <1>6 DEF ShownResult
  <2>4. k = "table" => ResultOf(k) = "out" /\ GridOf(k) = "in"
    BY DEF ResultOf, GridOf
  <2> QED BY <1>3, <2>1, <2>2, <2>3, <2>4
<1> QED BY <1>2, <1>4, <1>5, <1>6, KindsAre

\* The moves a click may be.
LEMMA SwapIs ==
    ASSUME NEW U \in SUBSET Cell, IsFiniteSet(U), NEW f \in [Cell -> Stacks],
           NEW x \in U, "cursor" \in U, x # "cursor"
    PROVE  [f EXCEPT ![x] = f["cursor"], !["cursor"] = f[x]] \in Moves(Cell, U, {}, f)
<1> DEFINE g == [f EXCEPT ![x] = f["cursor"], !["cursor"] = f[x]]
<1>1. f[x] \in Stacks /\ f["cursor"] \in Stacks
  OBVIOUS
<1>2. /\ g \in [Cell -> Stacks] /\ g[x] = f["cursor"] /\ g["cursor"] = f[x]
      /\ \A z \in Cell : z \notin {x, "cursor"} => g[z] = f[z]
  OBVIOUS
<1> HIDE DEF g
<1>3. f[x].n + f["cursor"].n = g[x].n + g["cursor"].n
  <2>1. f[x].n \in Nat /\ f["cursor"].n \in Nat
    BY <1>1, StackIs, Sizes
  <2> QED BY <1>2, <2>1
<1>4. \A z \in U : f[z] \in Stacks /\ g[z] \in Stacks
  BY <1>2
<1>5. \A z \in U : z \notin {x, "cursor"} => g[z] = f[z]
  BY <1>2
<1>6. Amount(g, U) = Amount(f, U)
  BY <1>3, <1>4, <1>5, AmountMoved
<1>7. g \in Moves(Cell, U, {}, f)
  BY <1>2, <1>6 DEF Moves
<1> QED BY <1>7 DEF g

\* A pickup is a proposal.
LEMMA PickupProposes ==
    ASSUME ClientsTyped, NEW c \in Conn, NEW x \in Shown(c), ClickPickup(c, x)
    PROVE  \E g : Proposal(view[c].kind, view[c].cells, "pickup", x, g) /\ Propose(c, "pickup", x, g)
<1> DEFINE f == view[c].cells
           h == f["cursor"]
           k == view[c].kind
           U == Counted(k)
<1>1. view[c] \in Views
  BY DEF ClientsTyped
<1>2. f \in [Cell -> Stacks] /\ k \in Kinds \cup {"none"}
  BY <1>1, ViewIs
<1>3. U \in SUBSET Cell /\ IsFiniteSet(U) /\ x \in U /\ "cursor" \in U /\ x # "cursor" /\ x \in Cell
  <2>1. Shown(c) \subseteq U /\ Shown(c) \subseteq MainCells \cup {"grid", "in", "out"}
    BY ShownIs
  <2>2. U \in SUBSET Cell /\ IsFiniteSet(U) /\ Kept \subseteq U
    BY <1>2, CountedIs
  <2>3. "cursor" \in Kept /\ "cursor" \notin MainCells \cup {"grid", "in", "out"}
    BY CellsAre
  <2> QED BY <2>1, <2>2, <2>3
<1>4. PICK g \in IF h = Nothing
                 THEN {Move(f, x, "cursor", kk) : kk \in {f[x].n, (f[x].n + 1) \div 2}}
                 ELSE IF x = "out" THEN {}
                 ELSE IF f[x] # Nothing /\ f[x].item # h.item
                 THEN {[f EXCEPT ![x] = h, !["cursor"] = f[x]]}
                 ELSE {Move(f, "cursor", x, kk) : kk \in {h.n, 1}} :
         g # f /\ Propose(c, "pickup", x, g)
  BY DEF ClickPickup
<1>5. f[x].n \in Nat /\ h.n \in Nat /\ (f[x].n + 1) \div 2 \in Nat
  <2>1. f[x] \in Stacks /\ f["cursor"] \in Stacks
    BY <1>2, <1>3
  <2> QED BY <2>1, StackIs, Sizes
<1> HIDE DEF U, f, k
<1>6. g \in Moves(Cell, U, {}, f)
  <2>1. CASE h = Nothing
    <3>1. PICK kk \in Nat : g = Move(f, x, "cursor", kk)
      BY <1>4, <1>5, <2>1
    <3> QED BY <1>2, <1>3, <3>1, MoveStays
  <2>2. CASE h # Nothing /\ x # "out" /\ f[x] # Nothing /\ f[x].item # h.item
    <3>1. g = [f EXCEPT ![x] = f["cursor"], !["cursor"] = f[x]]
      BY <1>4, <2>2
    <3> QED BY <1>2, <1>3, <3>1, SwapIs
  <2>3. CASE h # Nothing /\ x # "out" /\ ~(f[x] # Nothing /\ f[x].item # h.item)
    <3>1. PICK kk \in Nat : g = Move(f, "cursor", x, kk)
      BY <1>4, <1>5, <2>3
    <3> QED BY <1>2, <1>3, <3>1, MoveStays
  <2>4. CASE h # Nothing /\ x = "out"
    BY <1>4, <2>4
  <2> QED BY <2>1, <2>2, <2>3, <2>4
<1>7. Proposal(k, f, "pickup", x, g)
  BY <1>3, <1>6 DEF Proposal, MovesIt, U
<1> QED BY <1>4, <1>7 DEF f, k

\* A shift-click is a proposal.
LEMMA QuickProposes ==
    ASSUME ClientsTyped, NEW c \in Conn, NEW x \in Shown(c), ClickQuick(c, x)
    PROVE  \E g : Proposal(view[c].kind, view[c].cells, "quick", x, g) /\ Propose(c, "quick", x, g)
<1> DEFINE f == view[c].cells
           k == view[c].kind
           U == Counted(k)
           g == CASE k = "furnace" -> FurnaceMove(f, x)
                  [] k # "furnace" /\ x \in {"in", "grid"} -> Absorb(f, x)
                  [] k \in {"chest", "ender"} /\ x \in Range(Main) -> MoveAll(f, x, "in")
                  [] OTHER -> f
<1>1. view[c] \in Views
  BY DEF ClientsTyped
<1>2. f \in [Cell -> Stacks] /\ k \in Kinds \cup {"none"}
  BY <1>1, ViewIs
<1>3. U \in SUBSET Cell /\ IsFiniteSet(U) /\ x \in U /\ x \in Cell /\ MainCells \subseteq U
  <2>1. Shown(c) \subseteq U
    BY ShownIs
  <2>2. U \in SUBSET Cell /\ IsFiniteSet(U) /\ Kept \subseteq U
    BY <1>2, CountedIs
  <2>3. MainCells \subseteq Kept
    BY CellsAre
  <2> QED BY <2>1, <2>2, <2>3
<1>4. Propose(c, "quick", x, g)
  BY DEF ClickQuick
<1>5. CASE k = "furnace"
  <2>1. g = FurnaceMove(f, x)
    BY <1>5
  <2>2. MainCells \cup BoxCells \subseteq U
    BY <1>2, <1>3, <1>5, CountedIs DEF Stored
  <2> HIDE DEF U, f, k, g
  <2>3. g \in Moves(Cell, U, {}, f)
    BY <1>2, <1>3, <2>1, <2>2, FurnaceMoveIs
  <2>4. Proposal(k, f, "quick", x, g)
    BY <1>3, <2>1, <2>3 DEF Proposal, MovesIt, U
  <2> QED BY <1>4, <2>4 DEF f, k
<1>6. CASE k # "furnace"
  <2>1. g \in Moves(Cell, U, {}, f)
    <3>1. CASE x \in {"in", "grid"}
      <4>1. g = Absorb(f, x)
        BY <1>6, <3>1, MainIsApart DEF MainCells
      <4>2. x \in Cell \ MainCells /\ MainCells \subseteq Cell
        BY <3>1, CellsAre
      <4> HIDE DEF U, f, k, g
      <4>3. Absorb(f, x) \in Moves(Cell, MainCells \cup {x}, {}, f)
        BY <1>2, <4>2, AbsorbIs
      <4>4. MainCells \cup {x} \in SUBSET U
        BY <1>3
      <4> QED BY <1>2, <1>3, <4>1, <4>3, <4>4, MovesWider
    <3>2. CASE k \in {"chest", "ender"} /\ x \in Range(Main)
      <4>1. x \notin {"in", "grid"} /\ "in" \in U
        <5>1. "in" \in U
          BY <1>2, <3>2, CountedIs
        <5>2. x \notin {"in", "grid"}
          BY <3>2, MainIsApart DEF MainCells
        <5> QED BY <5>1, <5>2
      <4>2. g = MoveAll(f, x, "in")
        BY <1>6, <3>2, <4>1
      <4> HIDE DEF U, f, k, g
      <4> QED BY <1>2, <1>3, <4>1, <4>2, MoveStays, Sizes DEF MoveAll
    <3>3. CASE x \notin {"in", "grid"} /\ ~(k \in {"chest", "ender"} /\ x \in Range(Main))
      <4>1. g = f
        BY <1>6, <3>3
      <4> HIDE DEF U, f, k, g
      <4> QED BY <1>2, <4>1, MovesSelf
    <3> HIDE DEF g, U, f, k
    <3> QED BY <3>1, <3>2, <3>3
  <2> HIDE DEF U, f, k, g
  <2>2. Proposal(k, f, "quick", x, g)
    BY <1>3, <1>6, <2>1 DEF Proposal, MovesIt, U
  <2> QED BY <1>4, <2>2 DEF f, k
<1> HIDE DEF U, g, f
<1> QED BY <1>5, <1>6

\* A throw is a proposal.
LEMMA ThrowProposes ==
    ASSUME ClientsTyped, NEW c \in Conn, NEW x \in Shown(c), ClickThrow(c, x)
    PROVE  \E g : Proposal(view[c].kind, view[c].cells, "throw", x, g) /\ Propose(c, "throw", x, g)
<1> DEFINE f == view[c].cells
           g == [f EXCEPT ![x] = Less(@, 1)]
<1>1. x \in Counted(view[c].kind)
  BY ShownIs
<1>2. f[x] # Nothing /\ Propose(c, "throw", x, g)
  BY DEF ClickThrow
<1>3. Proposal(view[c].kind, f, "throw", x, g)
  BY <1>1, <1>2 DEF Proposal, ThrowsIt
<1> HIDE DEF g
<1> QED BY <1>2, <1>3

\* A click on a result is a proposal.
LEMMA ResultProposes ==
    ASSUME ClientsTyped, NEW c \in Conn, NEW mode \in {"pickup", "quick", "throw"}, ClickResult(c, mode)
    PROVE  \E x, g : /\ Proposal(view[c].kind, view[c].cells, mode, x, g) /\ Propose(c, mode, x, g)
                     /\ x = ResultOf(view[c].kind)
<1> DEFINE f == view[c].cells
           r == ShownResult(c)[1]
           gr == ShownResult(c)[2]
           g == CASE mode = "pickup" -> Take(f, r, gr)
                  [] mode = "quick" -> CraftToMain(f, r, gr)
                  [] OTHER -> f
<1>1. ShownResult(c) # <<>> /\ Propose(c, mode, r, g)
  BY DEF ClickResult
<1>2. r = ResultOf(view[c].kind) /\ gr = GridOf(view[c].kind) /\ r # "none"
  BY <1>1, ShownIs
<1>3. Proposal(view[c].kind, f, mode, r, g)
  <2> HIDE DEF r, gr
  <2> QED BY <1>2 DEF Proposal, CraftsIt
<1> HIDE DEF g, r, gr
<1> QED BY <1>1, <1>2, <1>3

\* What is proposed has its type.
LEMMA ProposedIs ==
    ASSUME NEW kind \in Kinds \cup {"none"}, NEW f \in [Cell -> Stacks], NEW mode, NEW x, NEW g,
           Proposal(kind, f, mode, x, g)
    PROVE  g \in [Cell -> Stacks] /\ x \in Cell
<1>1. CASE CraftsIt(kind, f, mode, x, g)
  <2>1. x = ResultOf(kind) /\ x # "none"
    BY <1>1 DEF CraftsIt
  <2>2. /\ x \in Cell \ MainCells /\ GridOf(kind) \in Cell \ MainCells /\ x # "cursor"
        /\ GridOf(kind) # "cursor" /\ x # GridOf(kind)
    BY <2>1, CountedIs
  <2>3. Take(f, x, GridOf(kind)) \in [Cell -> Stacks] /\ CraftToMain(f, x, GridOf(kind)) \in [Cell -> Stacks]
    BY <2>2, CraftedIs
  <2>4. g \in {Take(f, x, GridOf(kind)), CraftToMain(f, x, GridOf(kind)), f}
    BY <1>1 DEF CraftsIt
  <2> QED BY <2>2, <2>3, <2>4
<1>2. CASE ThrowsIt(kind, f, mode, x, g)
  <2>1. x \in Cell /\ f[x] # Nothing /\ g = [f EXCEPT ![x] = Less(f[x], 1)]
    BY <1>2, CountedIs DEF ThrowsIt
  <2>2. f[x] \in Stacks
    BY <2>1
  <2>3. 1 \in 0 .. f[x].n
    BY <2>1, <2>2, StackIs, Sizes
  <2>4. Less(f[x], 1) \in Stacks
    BY <2>2, <2>3, LessMade
  <2> QED BY <2>1, <2>4
<1>3. CASE MovesIt(kind, f, mode, x, g)
  BY <1>3, CountedIs DEF MovesIt, Moves
<1> QED BY <1>1, <1>2, <1>3 DEF Proposal

\* The cells a client names when it shows g for f.
NamedIn(f, g) == {y \in DOMAIN f : g[y] # f[y]} \cup {"cursor"}
ClickOn(id, mode, x, f, g) ==
    [type |-> "click", id |-> id, mode |-> mode, cell |-> x,
     new |-> Restrict(g, NamedIn(f, g)), seen |-> Restrict(f, NamedIn(f, g))]

\* What a client sends when it proposes.
LEMMA ProposeIs ==
    ASSUME NEW c, NEW mode, NEW x, NEW g, Propose(c, mode, x, g)
    PROVE  /\ clicks' = [clicks EXCEPT ![c] = Append(@, ClickOn(view[c].id, mode, x, view[c].cells, g))]
           /\ view' = [view EXCEPT ![c].cells = g]
           /\ crossed' = IF syncs[c] = <<>> THEN crossed ELSE crossed \cup {c}
           /\ UNCHANGED <<serverVars, syncs>>
BY Zenon DEF Propose, ClickOn, NamedIn

\* The click a client sends is a packet, and names what it changes.
LEMMA ClickOnIs ==
    ASSUME NEW f \in [Cell -> Stacks], NEW g \in [Cell -> Stacks], NEW id \in 0 .. Ids,
           NEW mode \in {"pickup", "quick", "throw"}, NEW x \in Cell
    PROVE  /\ NamedIn(f, g) \in SUBSET Cell /\ "cursor" \in NamedIn(f, g)
           /\ Restrict(g, NamedIn(f, g)) \in [NamedIn(f, g) -> Stacks]
           /\ Restrict(f, NamedIn(f, g)) \in [NamedIn(f, g) -> Stacks]
           /\ \A y \in NamedIn(f, g) : /\ Restrict(g, NamedIn(f, g))[y] = g[y]
                                       /\ Restrict(f, NamedIn(f, g))[y] = f[y]
           /\ \A y \in Cell : y \notin NamedIn(f, g) => g[y] = f[y]
           /\ ClickOn(id, mode, x, f, g) \in Packets
           /\ IsClick(ClickOn(id, mode, x, f, g))
<1> DEFINE N == NamedIn(f, g)
<1>1. N \in SUBSET Cell /\ "cursor" \in N
  BY CellsAre DEF NamedIn
<1>2. \A y \in Cell : y \notin N => g[y] = f[y]
  BY DEF NamedIn
<1> HIDE DEF N
<1>3. /\ Restrict(g, N) \in [N -> Stacks] /\ \A y \in N : Restrict(g, N)[y] = g[y]
      /\ Restrict(f, N) \in [N -> Stacks] /\ \A y \in N : Restrict(f, N)[y] = f[y]
  BY <1>1 DEF Restrict
<1>4. Restrict(g, N) \in Named /\ Restrict(f, N) \in Named
  BY <1>1, <1>3 DEF Named
<1>5. ClickOn(id, mode, x, f, g) =
        [type |-> "click", id |-> id, mode |-> mode, cell |-> x, new |-> Restrict(g, N), seen |-> Restrict(f, N)]
  BY DEF ClickOn, N
<1>6. ClickOn(id, mode, x, f, g) \in Packets /\ IsClick(ClickOn(id, mode, x, f, g))
  BY <1>4, <1>5 DEF Packets, IsClick
<1> QED BY <1>1, <1>2, <1>3, <1>6 DEF N

\* A view with other contents is a view.
LEMMA ViewShows ==
    ASSUME NEW v \in Views, NEW f \in [Cell -> Stacks]
    PROVE  [v EXCEPT !.cells = f] \in Views
BY DEF Views

\* Propose keeps the types.
LEMMA ProposeTyped ==
    ASSUME Typed, NEW c \in Conn, NEW mode \in {"pickup", "quick", "throw"}, NEW x, NEW g,
           Proposal(view[c].kind, view[c].cells, mode, x, g), Propose(c, mode, x, g)
    PROVE  Typed'
<1>1. WorldTyped /\ GoodsTyped /\ LifeTyped /\ ClientsTyped
  BY DEF Typed
<1>2. view[c] \in Views
  BY <1>1 DEF ClientsTyped
<1>3. view[c].cells \in [Cell -> Stacks] /\ view[c].id \in 0 .. Ids /\ view[c].kind \in Kinds \cup {"none"}
  BY <1>2, ViewIs
<1>4. g \in [Cell -> Stacks] /\ x \in Cell
  BY <1>3, ProposedIs
<1> DEFINE m == ClickOn(view[c].id, mode, x, view[c].cells, g)
<1>5. m \in Packets
  BY <1>3, <1>4, ClickOnIs
<1>6. /\ clicks' = [clicks EXCEPT ![c] = Append(@, m)]
      /\ view' = [view EXCEPT ![c] = [view[c] EXCEPT !.cells = g]]
      /\ crossed' = IF syncs[c] = <<>> THEN crossed ELSE crossed \cup {c}
      /\ UNCHANGED <<serverVars, syncs>>
  BY ProposeIs
<1> HIDE DEF m
<1>7. [view[c] EXCEPT !.cells = g] \in Views
  BY <1>2, <1>4, ViewShows
<1>8. Append(clicks[c], m) \in Seq(Packets)
  <2>1. clicks[c] \in Seq(Packets)
    BY <1>1 DEF ClientsTyped
  <2> HIDE DEF Packets
  <2> QED BY <1>5, <2>1
<1>9. ClientsTyped' /\ crossed' \in SUBSET Conn
  BY <1>1, <1>6, <1>7, <1>8 DEF ClientsTyped, LifeTyped
<1> QED BY <1>1, <1>6, <1>9 DEF Typed, WorldTyped, GoodsTyped, LifeTyped, serverVars

\* The views a message may leave.
Taken(m, v) ==
    CASE m.type = "open" -> [id |-> m.id, kind |-> m.kind, cells |-> Over(m.cells, v.cells)]
      [] m.type = "contents" /\ m.id \in {0, v.id} -> [v EXCEPT !.cells = Over(m.cells, @)]
      [] m.type = "close" /\ m.id = v.id -> Hidden(v)
      [] OTHER -> v

\* Without its window a client shows the inventory it showed.
LEMMA HiddenIs ==
    ASSUME NEW v \in Views
    PROVE  /\ Hidden(v) \in Views /\ Hidden(v).id = 0 /\ Hidden(v).kind = "none"
           /\ \A x \in InvCells : Hidden(v).cells[x] = v.cells[x]
<1>1. v.cells \in [Cell -> Stacks]
  BY ViewIs
<1> DEFINE e == [x \in BoxCells |-> Nothing]
<1>2. e \in [BoxCells -> Stacks]
  BY NothingIs
<1> HIDE DEF e
<1>3. /\ Over(e, v.cells) \in [Cell -> Stacks]
      /\ \A x \in InvCells : Over(e, v.cells)[x] = v.cells[x]
  BY <1>1, <1>2, CellsAre DEF Over
<1>4. Hidden(v) = [id |-> 0, kind |-> "none", cells |-> Over(e, v.cells)]
  BY DEF Hidden, e
<1> QED BY <1>3, <1>4 DEF Views

\* What a client shows after a message.
LEMMA TakenIs ==
    ASSUME NEW m \in Messages, NEW v \in Views
    PROVE  /\ Taken(m, v) \in Views
           /\ m.type = "open" => /\ Taken(m, v).id = m.id /\ Taken(m, v).kind = m.kind
                                 /\ \A x \in ContentCells : Taken(m, v).cells[x] = m.cells[x]
                                 /\ \A x \in Cell : x \notin ContentCells => Taken(m, v).cells[x] = v.cells[x]
           /\ m.type = "contents" => Taken(m, v).id = v.id /\ Taken(m, v).kind = v.kind
           /\ m.type = "contents" /\ m.id = 0 =>
                 /\ \A x \in InvCells : Taken(m, v).cells[x] = m.cells[x]
                 /\ \A x \in BoxCells : Taken(m, v).cells[x] = v.cells[x]
           /\ m.type = "contents" /\ m.id # 0 /\ m.id = v.id =>
                 /\ \A x \in ContentCells : Taken(m, v).cells[x] = m.cells[x]
                 /\ \A x \in Cell : x \notin ContentCells => Taken(m, v).cells[x] = v.cells[x]
           /\ m.type = "contents" /\ m.id # 0 /\ m.id # v.id => Taken(m, v) = v
           /\ m.type = "close" /\ m.id = v.id => Taken(m, v) = Hidden(v)
           /\ m.type = "close" /\ m.id # v.id => Taken(m, v) = v
<1>1. v.cells \in [Cell -> Stacks] /\ v.id \in 0 .. Ids /\ v = [id |-> v.id, kind |-> v.kind, cells |-> v.cells]
  BY ViewIs
<1>2. CASE m \in [type : {"contents"}, id : {0}, cells : Inventories]
  <2>1. m.type = "contents" /\ m.id = 0 /\ m.cells \in [InvCells -> Stacks] /\ m.type # "open" /\ m.type # "close"
    BY <1>2 DEF Inventories
  <2>2. /\ Over(m.cells, v.cells) \in [Cell -> Stacks]
        /\ \A x \in InvCells : Over(m.cells, v.cells)[x] = m.cells[x]
        /\ \A x \in BoxCells : Over(m.cells, v.cells)[x] = v.cells[x]
    BY <1>1, <2>1, CellsAre DEF Over
  <2>3. Taken(m, v) = [v EXCEPT !.cells = Over(m.cells, @)]
    BY <2>1 DEF Taken
  <2>4. Taken(m, v) = [id |-> v.id, kind |-> v.kind, cells |-> Over(m.cells, v.cells)]
    BY <1>1, <2>3
  <2>5. Taken(m, v) \in Views
    BY <2>2, <2>3, ViewShows
  <2> QED BY <2>1, <2>2, <2>4, <2>5
<1>3. CASE m \in [type : {"contents"}, id : 1 .. Ids, cells : [ContentCells -> Stacks]]
  <2>1. m.type = "contents" /\ m.id # 0 /\ m.cells \in [ContentCells -> Stacks] /\ m.type # "open" /\ m.type # "close"
    BY <1>3
  <2>2. /\ Over(m.cells, v.cells) \in [Cell -> Stacks]
        /\ \A x \in ContentCells : Over(m.cells, v.cells)[x] = m.cells[x]
        /\ \A x \in Cell : x \notin ContentCells => Over(m.cells, v.cells)[x] = v.cells[x]
    BY <1>1, <2>1, ContentCellsAre DEF Over
  <2>3. CASE m.id = v.id
    <3>1. Taken(m, v) = [v EXCEPT !.cells = Over(m.cells, @)]
      BY <2>1, <2>3 DEF Taken
    <3>2. Taken(m, v) = [id |-> v.id, kind |-> v.kind, cells |-> Over(m.cells, v.cells)]
      BY <1>1, <3>1
    <3>3. Taken(m, v) \in Views
      BY <2>2, <3>1, ViewShows
    <3> QED BY <2>1, <2>2, <2>3, <3>2, <3>3
  <2>4. CASE m.id # v.id
    <3>1. Taken(m, v) = v
      BY <2>1, <2>4 DEF Taken
    <3> QED BY <2>1, <2>4, <3>1
  <2> QED BY <2>3, <2>4
<1>4. CASE m \in [type : {"open"}, id : 1 .. Ids, kind : Kinds, cells : [ContentCells -> Stacks]]
  <2>1. m.type = "open" /\ m.id \in 1 .. Ids /\ m.kind \in Kinds /\ m.cells \in [ContentCells -> Stacks]
        /\ m.type # "contents" /\ m.type # "close"
    BY <1>4
  <2>2. /\ Over(m.cells, v.cells) \in [Cell -> Stacks]
        /\ \A x \in ContentCells : Over(m.cells, v.cells)[x] = m.cells[x]
        /\ \A x \in Cell : x \notin ContentCells => Over(m.cells, v.cells)[x] = v.cells[x]
    BY <1>1, <2>1, ContentCellsAre DEF Over
  <2>3. Taken(m, v) = [id |-> m.id, kind |-> m.kind, cells |-> Over(m.cells, v.cells)]
    BY <2>1 DEF Taken
  <2>4. Taken(m, v) \in [id : 1 .. Ids, kind : Kinds, cells : [Cell -> Stacks]]
    BY <2>1, <2>2, <2>3
  <2> QED BY <2>1, <2>2, <2>3, <2>4 DEF Views
<1>5. CASE m \in [type : {"close"}, id : 1 .. Ids]
  <2>1. m.type = "close" /\ m.type # "open" /\ m.type # "contents"
    BY <1>5
  <2>2. m.id = v.id => Taken(m, v) = Hidden(v)
    BY <2>1 DEF Taken
  <2>3. m.id # v.id => Taken(m, v) = v
    BY <2>1 DEF Taken
  <2> QED BY <2>1, <2>2, <2>3, HiddenIs
<1> QED BY <1>2, <1>3, <1>4, <1>5 DEF Messages

\* What receiving does.
LEMMA ReceiveIs ==
    ASSUME ClientsTyped, NEW c \in Conn, Receive(c)
    PROVE  /\ syncs[c] # <<>> /\ Head(syncs[c]) \in Messages
           /\ view' = [view EXCEPT ![c] = Taken(Head(syncs[c]), view[c])]
           /\ syncs' = [syncs EXCEPT ![c] = Tail(@)] /\ Tail(syncs[c]) \in Seq(Messages)
           /\ UNCHANGED <<serverVars, clicks, crossed>>
<1>1. syncs[c] # <<>>
  BY DEF Receive
<1>2. syncs[c] \in Seq(Messages)
  BY DEF ClientsTyped
<1>3. Head(syncs[c]) \in Messages /\ Tail(syncs[c]) \in Seq(Messages)
  <2> HIDE DEF Messages
  <2> QED BY <1>1, <1>2
<1>4. view' = [view EXCEPT ![c] = Taken(Head(syncs[c]), view[c])]
  BY Zenon DEF Receive, Taken
<1>5. syncs' = [syncs EXCEPT ![c] = Tail(@)] /\ UNCHANGED <<serverVars, clicks, crossed>>
  BY DEF Receive
<1> QED BY <1>1, <1>3, <1>4, <1>5

\* Receive keeps the types.
LEMMA ReceiveTyped == ASSUME Typed, NEW c \in Conn, Receive(c) PROVE Typed'
<1>1. WorldTyped /\ GoodsTyped /\ LifeTyped /\ ClientsTyped
  BY DEF Typed
<1>2. /\ syncs[c] # <<>> /\ Head(syncs[c]) \in Messages
      /\ view' = [view EXCEPT ![c] = Taken(Head(syncs[c]), view[c])]
      /\ syncs' = [syncs EXCEPT ![c] = Tail(@)] /\ Tail(syncs[c]) \in Seq(Messages)
      /\ UNCHANGED <<serverVars, clicks, crossed>>
  BY <1>1, ReceiveIs
<1>3. Taken(Head(syncs[c]), view[c]) \in Views
  BY <1>1, <1>2, TakenIs DEF ClientsTyped
<1>4. ClientsTyped'
  BY <1>1, <1>2, <1>3 DEF ClientsTyped
<1> QED BY <1>1, <1>2, <1>4 DEF Typed, WorldTyped, GoodsTyped, LifeTyped, serverVars

\* CloseScreen keeps the types.
LEMMA CloseScreenTyped == ASSUME Typed, NEW c \in Conn, CloseScreen(c) PROVE Typed'
<1>1. WorldTyped /\ GoodsTyped /\ LifeTyped /\ ClientsTyped
  BY DEF Typed
<1>2. view[c] \in Views /\ clicks[c] \in Seq(Packets)
  BY <1>1 DEF ClientsTyped
<1>3. CloseIt(view[c].id) \in Packets
  BY <1>2, ViewIs DEF CloseIt, Packets
<1>4. Append(clicks[c], CloseIt(view[c].id)) \in Seq(Packets)
  <2> HIDE DEF Packets
  <2> QED BY <1>2, <1>3
<1>5. Hidden(view[c]) \in Views
  BY <1>2, HiddenIs
<1>6. /\ clicks' = [clicks EXCEPT ![c] = Append(@, CloseIt(view[c].id))]
      /\ view' = [view EXCEPT ![c] = Hidden(@)]
      /\ UNCHANGED <<serverVars, syncs, crossed>>
  BY DEF CloseScreen
<1>7. ClientsTyped'
  BY <1>1, <1>4, <1>5, <1>6 DEF ClientsTyped
<1> QED BY <1>1, <1>6, <1>7 DEF Typed, WorldTyped, GoodsTyped, LifeTyped, serverVars

\* A client receives, closes its screen or proposes.
LEMMA ClientIs ==
    ASSUME ClientsTyped, NEW c \in Conn, Client(c)
    PROVE  \/ Receive(c)
           \/ life[c] = "on" /\ Len(clicks[c]) < MaxClicks /\ CloseScreen(c)
           \/ /\ life[c] = "on" /\ Len(clicks[c]) < MaxClicks
              /\ \E mode \in {"pickup", "quick", "throw"} : \E x, g :
                   Proposal(view[c].kind, view[c].cells, mode, x, g) /\ Propose(c, mode, x, g)
<1>1. CASE life[c] = "on" /\ Len(clicks[c]) < MaxClicks
           /\ \E x \in Shown(c) : ClickPickup(c, x) \/ ClickQuick(c, x) \/ ClickThrow(c, x)
  BY <1>1, PickupProposes, QuickProposes, ThrowProposes
<1>2. CASE life[c] = "on" /\ Len(clicks[c]) < MaxClicks
           /\ \E mode \in {"pickup", "quick", "throw"} : ClickResult(c, mode)
  BY <1>2, ResultProposes
<1> QED BY <1>1, <1>2 DEF Client

\* Client keeps the types.
LEMMA ClientTyped == ASSUME Typed, NEW c \in Conn, Client(c) PROVE Typed'
<1>1. ClientsTyped
  BY DEF Typed
<1> QED BY <1>1, ClientIs, ReceiveTyped, CloseScreenTyped, ProposeTyped

\* Every step keeps the types.
LEMMA NextTyped == ASSUME Typed, [Next]_vars PROVE Typed'
<1>1. CASE UNCHANGED vars
  BY <1>1 DEF Typed, WorldTyped, GoodsTyped, LifeTyped, ClientsTyped, vars, serverVars, clientVars
<1>2. ASSUME NEW c \in Conn, Session(c) PROVE Typed'
  BY <1>2, JoinTyped, DisconnectTyped, CleanupTyped, DieTyped, RespawnTyped DEF Session
<1>3. ASSUME NEW c \in Conn, Handle(c) PROVE Typed'
  BY <1>3, HandleClickTyped, HandleCloseTyped, IgnoreTyped DEF Handle
<1>4. ASSUME NEW c \in Conn, SmeltOpen(c) \/ Client(c) PROVE Typed'
  BY <1>4, SmeltOpenTyped, ClientTyped
<1>5. ASSUME NEW c \in Conn, NEW p \in Pos, OpenContainer(c, p) PROVE Typed'
  BY <1>5, OpenTyped
<1>6. ASSUME NEW p \in Pos, BreakContainer(p) \/ SmeltStored(p) PROVE Typed'
  BY <1>6, BreakTyped, SmeltStoredTyped
<1>7. ASSUME NEW p \in Pos, NEW kind \in Kinds, PlaceContainer(p, kind) PROVE Typed'
  BY <1>7, PlaceTyped
<1>8. ASSUME NEW c \in Conn, NEW i \in Items, PickUp(c, i) PROVE Typed'
  BY <1>8, PickUpTyped
<1> QED BY <1>1, <1>2, <1>3, <1>4, <1>5, <1>6, <1>7, <1>8 DEF Next

\* The types hold always.
THEOREM AlwaysTyped == Spec => []Typed
<1>1. Init => Typed
  BY InitTyped
<1>2. Typed /\ [Next]_vars => Typed'
  BY NextTyped
<1> QED BY <1>1, <1>2, PTL DEF Spec

\* A step leaves what is shared or reckons it anew.
LEMMA NextShares == [Next]_vars => shared' = shared \/ Sharing
<1> SUFFICES ASSUME [Next]_vars PROVE shared' = shared \/ Sharing
  OBVIOUS
<1>1. CASE UNCHANGED vars
  BY <1>1 DEF vars, serverVars
<1>2. ASSUME NEW c \in Conn, Session(c) PROVE shared' = shared \/ Sharing
  BY <1>2, Zenon DEF Session, Join, Disconnect, Cleanup, Die, Respawn
<1>3. ASSUME NEW c \in Conn, Handle(c) PROVE shared' = shared \/ Sharing
  <2>1. CASE HandleClick(c)
    <3>1. ASSUME NEW id, NEW f, NEW dirty, Clicked(c, id, f, dirty) PROVE shared' = shared
      BY <3>1 DEF Clicked
    <3> QED BY <2>1, <3>1, Zenon DEF HandleClick, ThrowResult, TakeResult, MoveInFurnace, CopyCells, serverVars
  <2>2. CASE HandleClose(c)
    BY <2>2, Zenon DEF HandleClose
  <2>3. CASE Ignore(c)
    BY <2>3, Zenon DEF Ignore, serverVars
  <2> QED BY <1>3, <2>1, <2>2, <2>3 DEF Handle
<1>4. ASSUME NEW c \in Conn, SmeltOpen(c) PROVE shared' = shared \/ Sharing
  BY <1>4, Zenon DEF SmeltOpen
<1>5. ASSUME NEW c \in Conn, Client(c) PROVE shared' = shared \/ Sharing
  <2>1. ASSUME NEW mode, NEW x, NEW g, Propose(c, mode, x, g) PROVE shared' = shared
    BY <2>1, Zenon DEF Propose, serverVars
  <2>2. ASSUME NEW x, ClickPickup(c, x) \/ ClickQuick(c, x) \/ ClickThrow(c, x) PROVE shared' = shared
    BY <2>1, <2>2, Zenon DEF ClickPickup, ClickQuick, ClickThrow
  <2>3. ASSUME NEW mode, ClickResult(c, mode) PROVE shared' = shared
    BY <2>1, <2>3, Zenon DEF ClickResult
  <2>4. ASSUME Receive(c) \/ CloseScreen(c) PROVE shared' = shared
    BY <2>4, Zenon DEF Receive, CloseScreen, serverVars
  <2> QED BY <1>5, <2>2, <2>3, <2>4, Zenon DEF Client
<1>6. ASSUME NEW c \in Conn, NEW p \in Pos, OpenContainer(c, p) PROVE shared' = shared \/ Sharing
  BY <1>6, Zenon DEF OpenContainer
<1>7. ASSUME NEW p \in Pos, BreakContainer(p) \/ SmeltStored(p) PROVE shared' = shared \/ Sharing
  BY <1>7, Zenon DEF BreakContainer, SmeltStored
<1>8. ASSUME NEW p \in Pos, NEW kind \in Kinds, PlaceContainer(p, kind) PROVE shared' = shared \/ Sharing
  BY <1>8, Zenon DEF PlaceContainer
<1>9. ASSUME NEW c \in Conn, NEW i \in Items, PickUp(c, i) PROVE shared' = shared \/ Sharing
  BY <1>9, Zenon DEF PickUp
<1> QED BY <1>1, <1>2, <1>3, <1>4, <1>5, <1>6, <1>7, <1>8, <1>9, Zenon DEF Next

\* Only positions are shared.
LEMMA SharedTyped == Spec => [](shared \subseteq Pos)
<1>1. Init => shared \subseteq Pos
  BY DEF Init
<1>2. shared \subseteq Pos /\ [Next]_vars => (shared \subseteq Pos)'
  BY NextShares DEF Sharing
<1> QED BY <1>1, <1>2, PTL DEF Spec

\* The types of TypeOK hold.
LEMMA TypedIsOK == Typed /\ shared \subseteq Pos => TypeOK
<1> SUFFICES ASSUME Typed, shared \subseteq Pos PROVE TypeOK
  OBVIOUS
<1>1. WorldTyped /\ GoodsTyped /\ LifeTyped /\ ClientsTyped
  BY DEF Typed
<1>2. \A c \in Conn :
         \/ win[c] = Closed
         \/ /\ win[c].id \in 1..Ids /\ win[c].kind \in Kinds
            /\ win[c].pos \in Pos /\ win[c].box \in Boxes
            /\ win[c].dirty \in BOOLEAN
  BY <1>1, WindowIs DEF WorldTyped
<1>3. \A c \in Conn : view[c].id \in 0..Ids /\ view[c].cells \in [InvCells \cup BoxCells -> Stacks]
  BY <1>1, ViewIs DEF ClientsTyped, Cell
<1>4. ASSUME NEW c \in Conn
      PROVE  /\ \A i \in DOMAIN clicks[c] : clicks[c][i].type \in {"click", "close"}
             /\ \A i \in DOMAIN syncs[c] : syncs[c][i].type \in {"open", "contents", "close"}
  <2>1. \A m \in Packets : m.type \in {"click", "close"}
    BY DEF Packets
  <2>2. \A m \in Messages : m.type \in {"open", "contents", "close"}
    BY DEF Messages
  <2>3. clicks[c] \in Seq(Packets) /\ syncs[c] \in Seq(Messages)
    BY <1>1 DEF ClientsTyped
  <2> HIDE DEF Packets, Messages
  <2>4. \A i \in DOMAIN clicks[c] : clicks[c][i] \in Packets
    BY <2>3
  <2>5. \A i \in DOMAIN syncs[c] : syncs[c][i] \in Messages
    BY <2>3
  <2> QED BY <2>1, <2>2, <2>4, <2>5
<1>5. /\ block \in [Pos -> Kinds \union {"air"}]
      /\ be \in [Pos -> Boxes \union {NoBox}]
      /\ lastId \in [Conn -> 1..Ids]
  BY <1>1 DEF WorldTyped
<1>6. /\ inv \in [Conn -> Inventories] /\ ender \in [Conn -> Stacks]
      /\ file \in [Conn -> [inv: Inventories, ender: Stacks]]
      /\ ground \in [Items -> Nat]
  BY <1>1 DEF GoodsTyped
<1>7. /\ life \in [Conn -> {"on", "closing", "off"}] /\ dead \subseteq Conn
      /\ crossed \subseteq Conn
  BY <1>1 DEF LifeTyped
<1> QED BY <1>2, <1>3, <1>4, <1>5, <1>6, <1>7 DEF TypeOK

\* The type invariant of the containers.
THEOREM WindowsTypeCorrect == Spec => []TypeOK
BY AlwaysTyped, SharedTyped, TypedIsOK, PTL

-----------------------------------------------------------------------------
(* What is durable.                                                        *)

\* A player of life l, with file s, inventory v and ender chest stack e.
SavedIn(l, s, v, e) ==
    l # "off" => (\A x \in Kept : s.inv[x] = v[x]) /\ s.ender = e
\* A window w of a player of life l with ender chest stack e, over the blocks k
\* and the block entities b, where the containers S are shared.
BackedBy(w, l, e, k, b, S) ==
    /\ l = "off" => w = Closed
    /\ w.dirty => w.kind = "furnace"
    /\ w.kind = "ender" => w.box["in"] = e
    /\ w.kind \in Stored /\ l = "on" => k[w.pos] = w.kind
    /\ w.kind \in Stored /\ w.pos \notin S =>
         /\ k[w.pos] = w.kind /\ b[w.pos] # NoBox
         /\ InBox(b[w.pos]) = InBox(w.box)
         /\ w.kind = "chest" => b[w.pos] = w.box

Saved(c) == SavedIn(life[c], file[c], inv[c], ender[c])
Backed(c) == BackedBy(win[c], life[c], ender[c], block, be, shared)
Alone == \A c, d \in Conn :
    win[c].kind \in Stored /\ win[d].kind \in Stored /\ win[c].pos = win[d].pos
    => c = d \/ win[c].pos \in shared
Durable == (\A c \in Conn : Saved(c)) /\ (\A c \in Conn : Backed(c)) /\ Alone

\* The closed window.
LEMMA ClosedIs == Closed.kind = "none" /\ Closed.dirty = FALSE /\ Closed.id = 0 /\ Closed \in Windows
BY DEF Closed, Windows

\* The kinds whose contents are stored.
LEMMA StoredAre == Stored = {"chest", "furnace"} /\ "none" \notin Stored /\ "ender" \notin Stored
                   /\ "table" \notin Stored /\ "air" \notin Stored
BY DEF Stored

\* A closed window needs nothing behind it.
LEMMA BackedClosed == ASSUME NEW l, NEW e, NEW k, NEW b, NEW S PROVE BackedBy(Closed, l, e, k, b, S)
BY ClosedIs, StoredAre DEF BackedBy

\* What is behind a window depends on few values.
LEMMA BackedStays ==
    ASSUME NEW w, NEW l, NEW e, NEW k, NEW b, NEW S, NEW l2, NEW e2, NEW k2, NEW b2, NEW S2,
           BackedBy(w, l, e, k, b, S), l2 = "off" => l = "off", e2 = e \/ w.kind # "ender",
           w.kind \in Stored /\ l2 = "on" => l = "on" /\ k2[w.pos] = k[w.pos],
           w.kind \in Stored /\ w.pos \notin S2 =>
              w.pos \notin S /\ k2[w.pos] = k[w.pos] /\ b2[w.pos] = b[w.pos]
    PROVE  BackedBy(w, l2, e2, k2, b2, S2)
BY DEF BackedBy

\* A container that is not shared had no other user, nor has one now.
LEMMA SharingIs ==
    ASSUME Sharing, NEW p \in Pos, p \notin shared',
           NEW c \in Conn, win'[c].kind \in Stored, win'[c].pos = p
    PROVE  /\ p \notin shared /\ block'[p] # "air"
           /\ \A d \in Conn : win'[d].kind \in Stored /\ win'[d].pos = p => d = c
<1>1. c \in Users(p)'
  BY DEF Users
<1>2. ~(p \in shared \/ block'[p] = "air" \/ \E a, b \in Users(p)' : a # b)
  BY <1>1 DEF Sharing
<1>3. ASSUME NEW d \in Conn, win'[d].kind \in Stored, win'[d].pos = p PROVE d = c
  <2>1. d \in Users(p)'
    BY <1>3 DEF Users
  <2> QED BY <1>1, <1>2, <2>1
<1> QED BY <1>2, <1>3

\* What is shared is reckoned so that each other container has one user.
LEMMA SharingAlone ==
    ASSUME Sharing, \A d \in Conn : win'[d].kind \in Stored => win'[d].pos \in Pos
    PROVE  Alone'
<1> SUFFICES ASSUME NEW c \in Conn, NEW d \in Conn, win'[c].kind \in Stored, win'[d].kind \in Stored,
                    win'[c].pos = win'[d].pos, win'[c].pos \notin shared'
             PROVE  c = d
  BY DEF Alone
<1>1. win'[c].pos \in Pos
  OBVIOUS
<1> QED BY <1>1, SharingIs

\* A window on stored contents has a position.
LEMMA StoredPos == ASSUME WorldTyped, NEW d \in Conn, win[d].kind \in Stored PROVE win[d].pos \in Pos
<1>1. win[d] \in Windows
  BY DEF WorldTyped
<1> QED BY <1>1, WindowIs, ClosedIs, StoredAre

\* After a save the file holds what the player has.
LEMMA SaveIs ==
    ASSUME GoodsTyped, NEW c \in Conn, NEW A, InvCells \subseteq A, NEW f \in [A -> Stacks],
           NEW e \in Stacks, Save(c, f, e)
    PROVE  /\ inv'[c] = Restrict(f, InvCells) /\ \A x \in InvCells : inv'[c][x] = f[x]
           /\ ender'[c] = e /\ file'[c].inv = inv'[c] /\ file'[c].ender = e
           /\ \A d \in Conn : d # c => inv'[d] = inv[d] /\ ender'[d] = ender[d] /\ file'[d] = file[d]
<1>1. Restrict(f, InvCells) \in [InvCells -> Stacks] /\ \A x \in InvCells : Restrict(f, InvCells)[x] = f[x]
  BY RestrictIs
<1> DEFINE r == Restrict(f, InvCells)
<1>2. inv' = [inv EXCEPT ![c] = r] /\ ender' = [ender EXCEPT ![c] = e]
      /\ file' = [file EXCEPT ![c] = [inv |-> r, ender |-> e]]
  BY DEF Save
<1>3. \A x \in InvCells : r[x] = f[x]
  BY <1>1
<1> HIDE DEF r
<1>4. inv \in [Conn -> Inventories] /\ ender \in [Conn -> Stacks]
      /\ file \in [Conn -> [inv : Inventories, ender : Stacks]]
  BY DEF GoodsTyped
<1>5. inv'[c] = r /\ ender'[c] = e /\ file'[c] = [inv |-> r, ender |-> e]
      /\ \A d \in Conn : d # c => inv'[d] = inv[d] /\ ender'[d] = ender[d] /\ file'[d] = file[d]
  BY <1>2, <1>4
<1> QED BY <1>3, <1>5 DEF r

\* After Save the file is what its player has.
LEMMA SavedAfterSave ==
    ASSUME GoodsTyped, NEW c \in Conn, NEW A, InvCells \subseteq A, NEW f \in [A -> Stacks],
           NEW e \in Stacks, Save(c, f, e), life' = life, \A d \in Conn : Saved(d)
    PROVE  \A d \in Conn : Saved(d)'
<1> SUFFICES ASSUME NEW d \in Conn PROVE Saved(d)'
  OBVIOUS
<1>1. CASE d = c
  <2>1. file'[c].inv = inv'[c] /\ file'[c].ender = ender'[c]
    BY SaveIs
  <2> QED BY <1>1, <2>1 DEF Saved, SavedIn
<1>2. CASE d # c
  <2>1. inv'[d] = inv[d] /\ ender'[d] = ender[d] /\ file'[d] = file[d] /\ life'[d] = life[d]
    BY <1>2, SaveIs
  <2>2. Saved(d)
    OBVIOUS
  <2> QED BY <2>1, <2>2 DEF Saved
<1> QED BY <1>1, <1>2

\* Files and goods that do not change stay alike.
LEMMA SavedUnchanged ==
    ASSUME \A d \in Conn : Saved(d), UNCHANGED <<inv, ender, file, life>>
    PROVE  \A d \in Conn : Saved(d)'
BY DEF Saved

\* The block entities b, which are be but for a new empty one, after c leaves
\* its window.
FreshOf(b) == \A q \in Pos : b[q] = be[q] \/ (be[q] = NoBox /\ b[q] = EmptyBox)

\* Leaving a window writes back what it had, and nothing else.
LEMMA LeaveBe ==
    ASSUME WorldTyped, Durable, NEW c \in Conn, NEW b \in [Pos -> Boxes \cup {NoBox}], FreshOf(b)
    PROVE  /\ \A q \in Pos : Leave(c, b).be[q] # b[q] => win[c].kind = "furnace" /\ win[c].pos = q
           /\ \A q \in Pos \ shared : /\ Leave(c, b).be[q] = NoBox <=> b[q] = NoBox
                                      /\ b[q] # NoBox => InBox(Leave(c, b).be[q]) = InBox(b[q])
           /\ \A d \in Conn : d # c /\ win[d].kind \in Stored /\ win[d].pos \notin shared =>
                 Leave(c, b).be[win[d].pos] = be[win[d].pos]
<1>1. win[c] \in Windows /\ Backed(c)
  BY DEF WorldTyped, Durable
<1>0. \A d \in Conn : win[d].kind \in Stored /\ win[d].pos \notin shared =>
         win[d].pos \in Pos /\ be[win[d].pos] # NoBox /\ b[win[d].pos] = be[win[d].pos]
  <2> SUFFICES ASSUME NEW d \in Conn, win[d].kind \in Stored, win[d].pos \notin shared
               PROVE  win[d].pos \in Pos /\ be[win[d].pos] # NoBox /\ b[win[d].pos] = be[win[d].pos]
    OBVIOUS
  <2>1. win[d].pos \in Pos
    BY StoredPos
  <2>2. be[win[d].pos] # NoBox
    BY DEF Durable, Backed, BackedBy
  <2> QED BY <2>1, <2>2 DEF FreshOf
<1>2. CASE win[c].kind # "table" /\ win[c].dirty /\ block[win[c].pos] \in Stored
  <2>1. win[c].kind = "furnace" /\ win[c].kind \in Stored
    BY <1>1, <1>2, StoredAre DEF Backed, BackedBy
  <2>2. win[c].pos \in Pos /\ win[c].box \in Boxes
        /\ (win[c].pos \notin shared => InBox(be[win[c].pos]) = InBox(win[c].box))
    BY <1>1, <2>1, WindowIs, ClosedIs DEF Backed, BackedBy
  <2>3. Leave(c, b).be = [b EXCEPT ![win[c].pos] = win[c].box]
    <3>1. Leave(c, b).be = WrittenBack(win[c], b)
      BY <1>2 DEF Leave
    <3> QED BY <1>2, <3>1 DEF WrittenBack
  <2>5. win[c].box # NoBox
    BY <2>2, GoodsAssumption DEF Boxes
  <2> DEFINE l == Leave(c, b).be
             p == win[c].pos
             x == win[c].box
  <2>6. /\ l = [b EXCEPT ![p] = x] /\ p \in Pos /\ x # NoBox
        /\ p \notin shared => b[p] # NoBox /\ InBox(b[p]) = InBox(x)
    BY <1>0, <2>1, <2>2, <2>3, <2>5
  <2> HIDE DEF l, p, x
  <2>7. l[p] = x /\ \A q \in Pos : q # p => l[q] = b[q]
    BY <2>6
  <2>8. /\ \A q \in Pos \ shared : /\ l[q] = NoBox <=> b[q] = NoBox
                                   /\ b[q] # NoBox => InBox(l[q]) = InBox(b[q])
        /\ \A q \in Pos : l[q] # b[q] => p = q
    BY <2>6, <2>7
  <2>9. ASSUME NEW d \in Conn, d # c, win[d].kind \in Stored, win[d].pos \notin shared
        PROVE  l[win[d].pos] = be[win[d].pos]
    <3>1. win[d].pos # p
      BY <2>1, <2>9 DEF Durable, Alone, p
    <3>2. win[d].pos \in Pos /\ b[win[d].pos] = be[win[d].pos]
      BY <1>0, <2>9
    <3> QED BY <2>7, <3>1, <3>2
  <2> QED BY <2>1, <2>8, <2>9 DEF l, p
<1>3. CASE ~(win[c].kind # "table" /\ win[c].dirty /\ block[win[c].pos] \in Stored)
  <2>1. Leave(c, b).be = b
    BY <1>3 DEF Leave, WrittenBack
  <2> QED BY <1>0, <2>1
<1> QED BY <1>2, <1>3

\* The block entities are a fresh form of themselves.
LEMMA FreshSelf == FreshOf(be)
BY DEF FreshOf

\* The windows after c left its own.
LEMMA ClosedBacked ==
    ASSUME WorldTyped, Durable, NEW c \in Conn, win' = [win EXCEPT ![c] = Closed],
           be' = Leave(c, be).be, block' = block, Sharing,
           \A d \in Conn : d # c => ender'[d] = ender[d] /\ life'[d] = life[d]
    PROVE  (\A d \in Conn : Backed(d)') /\ Alone'
<1>1. be \in [Pos -> Boxes \cup {NoBox}] /\ win \in [Conn -> Windows]
  BY DEF WorldTyped
<1>2. \A d \in Conn : d # c /\ win[d].kind \in Stored /\ win[d].pos \notin shared =>
         be'[win[d].pos] = be[win[d].pos]
  BY <1>1, LeaveBe, FreshSelf
<1>3. win'[c] = Closed /\ \A d \in Conn : d # c => win'[d] = win[d]
  BY <1>1
<1>4. ASSUME NEW d \in Conn PROVE Backed(d)'
  <2>1. CASE d = c
    BY <1>3, <2>1, BackedClosed DEF Backed
  <2>2. CASE d # c
    <3>1. Backed(d) /\ win'[d] = win[d] /\ ender'[d] = ender[d] /\ life'[d] = life[d]
      BY <1>3, <2>2 DEF Durable
    <3>2. BackedBy(win[d], life[d], ender[d], block, be, shared)
      BY <3>1 DEF Backed
    <3>3. ASSUME win[d].kind \in Stored, win[d].pos \notin shared'
          PROVE  win[d].pos \notin shared /\ be'[win[d].pos] = be[win[d].pos]
      <4>1. win[d].pos \in Pos
        BY <3>3, StoredPos
      <4> QED BY <1>2, <2>2, <3>1, <3>3, <4>1, SharingIs
    <3>4. BackedBy(win[d], life'[d], ender'[d], block', be', shared')
      BY <3>1, <3>2, <3>3, BackedStays
    <3> QED BY <3>1, <3>4 DEF Backed
  <2> QED BY <2>1, <2>2
<1>5. Alone'
  <2>1. \A d \in Conn : win'[d].kind \in Stored => win'[d].pos \in Pos
    BY <1>3, StoredPos, ClosedIs, StoredAre
  <2> QED BY <2>1, SharingAlone
<1> QED BY <1>4, <1>5

\* The windows where none changed.
LEMMA SameBacked ==
    ASSUME Durable, UNCHANGED <<block, be, win, shared>>,
           \A d \in Conn : life'[d] = "off" => life[d] = "off",
           \A d \in Conn : life'[d] = "on" => life[d] = "on" \/ win[d].kind \notin Stored,
           \A d \in Conn : ender'[d] = ender[d] \/ win[d].kind # "ender"
    PROVE  (\A d \in Conn : Backed(d)') /\ Alone'
<1>1. ASSUME NEW d \in Conn PROVE Backed(d)'
  <2>1. BackedBy(win[d], life[d], ender[d], block, be, shared)
    BY DEF Durable, Backed
  <2>2. BackedBy(win[d], life'[d], ender'[d], block', be', shared')
    BY <2>1, BackedStays
  <2> QED BY <2>2 DEF Backed
<1>2. Alone'
  BY DEF Durable, Alone
<1> QED BY <1>1, <1>2

\* Durable holds at first.
LEMMA InitDurable == Init => Durable
<1> SUFFICES ASSUME Init PROVE Durable
  OBVIOUS
<1>1. \A c \in Conn : win[c] = Closed /\ life[c] = "off"
  BY DEF Init
<1>2. \A c \in Conn : Saved(c)
  BY <1>1 DEF Saved, SavedIn
<1>3. \A c \in Conn : Backed(c)
  BY <1>1, BackedClosed DEF Backed
<1>4. Alone
  BY <1>1, ClosedIs, StoredAre DEF Alone
<1> QED BY <1>2, <1>3, <1>4 DEF Durable

\* Join keeps Durable.
LEMMA JoinDurable == ASSUME Typed, Durable, NEW c \in Conn, Join(c) PROVE Durable'
<1> DEFINE f == WithResult(file[c].inv, "result", "grid")
<1>1. GoodsTyped /\ WorldTyped /\ LifeTyped
  BY DEF Typed
<1>2. life[c] = "off" /\ life' = [life EXCEPT ![c] = "on"] /\ inv' = [inv EXCEPT ![c] = f]
      /\ ender' = [ender EXCEPT ![c] = file[c].ender] /\ UNCHANGED <<block, be, win, file, shared>>
  BY DEF Join
<1>3. file[c].inv \in Inventories /\ inv \in [Conn -> Inventories] /\ ender \in [Conn -> Stacks]
      /\ life \in [Conn -> {"on", "closing", "off"}]
  BY <1>1 DEF GoodsTyped, LifeTyped
<1>4. \A x \in Kept : f[x] = file[c].inv[x]
  BY <1>3, InventoryCells, CellsAre
<1>5. win[c] = Closed
  BY <1>2 DEF Durable, Backed, BackedBy
<1> HIDE DEF f
<1>6. inv'[c] = f /\ ender'[c] = file[c].ender /\ life'[c] = "on"
      /\ \A d \in Conn : d # c => inv'[d] = inv[d] /\ ender'[d] = ender[d] /\ life'[d] = life[d]
  BY <1>2, <1>3
<1>7. ASSUME NEW d \in Conn PROVE Saved(d)'
  <2>1. CASE d = c
    BY <1>2, <1>4, <1>6, <2>1 DEF Saved, SavedIn
  <2>2. CASE d # c
    BY <1>2, <1>6, <2>2 DEF Saved, Durable
  <2> QED BY <2>1, <2>2
<1>8. (\A d \in Conn : Backed(d)') /\ Alone'
  <2>1. ASSUME NEW d \in Conn
        PROVE  /\ life'[d] = "off" => life[d] = "off"
               /\ life'[d] = "on" => life[d] = "on" \/ win[d].kind \notin Stored
               /\ ender'[d] = ender[d] \/ win[d].kind # "ender"
    <3>1. CASE d = c
      BY <1>5, <1>6, <3>1, ClosedIs, StoredAre
    <3>2. CASE d # c
      BY <1>6, <3>2
    <3> QED BY <3>1, <3>2
  <2>2. UNCHANGED <<block, be, win, shared>>
    BY <1>2
  <2> QED BY <2>1, <2>2, SameBacked
<1> QED BY <1>7, <1>8 DEF Durable

\* Disconnect keeps Durable.
LEMMA DisconnectDurable == ASSUME Typed, Durable, NEW c \in Conn, Disconnect(c) PROVE Durable'
<1>1. life[c] = "on" /\ life' = [life EXCEPT ![c] = "closing"]
      /\ UNCHANGED <<block, be, win, inv, ender, file, shared>>
  BY DEF Disconnect
<1>2. life \in [Conn -> {"on", "closing", "off"}]
  BY DEF Typed, LifeTyped
<1>3. \A d \in Conn : life'[d] # "off" => life[d] # "off"
  BY <1>1, <1>2
<1>4. \A d \in Conn : (life'[d] = "off" => life[d] = "off") /\ (life'[d] = "on" => life[d] = "on")
  BY <1>1, <1>2
<1>5. ASSUME NEW d \in Conn PROVE Saved(d)'
  BY <1>1, <1>3 DEF Saved, SavedIn, Durable
<1>6. (\A d \in Conn : Backed(d)') /\ Alone'
  BY <1>1, <1>4, SameBacked
<1> QED BY <1>5, <1>6 DEF Durable

\* Cleanup keeps Durable.
LEMMA CleanupDurable == ASSUME Typed, Durable, NEW c \in Conn, Cleanup(c) PROVE Durable'
<1>1. /\ life[c] = "closing" /\ life' = [life EXCEPT ![c] = "off"] /\ be' = Leave(c, be).be
      /\ win' = [win EXCEPT ![c] = Closed] /\ block' = block /\ Sharing
      /\ inv' = [inv EXCEPT ![c] = EmptyInv] /\ ender' = [ender EXCEPT ![c] = Nothing]
      /\ \E s : file' = [file EXCEPT ![c] = s]
  BY DEF Cleanup
<1>2. /\ life \in [Conn -> {"on", "closing", "off"}] /\ inv \in [Conn -> Inventories]
      /\ ender \in [Conn -> Stacks] /\ file \in [Conn -> [inv : Inventories, ender : Stacks]] /\ WorldTyped
  BY DEF Typed, LifeTyped, GoodsTyped
<1>3. life'[c] = "off" /\ \A d \in Conn : d # c => 
         life'[d] = life[d] /\ inv'[d] = inv[d] /\ ender'[d] = ender[d] /\ file'[d] = file[d]
  BY <1>1, <1>2
<1>4. ASSUME NEW d \in Conn PROVE Saved(d)'
  <2>1. CASE d = c
    BY <1>3, <2>1 DEF Saved, SavedIn
  <2>2. CASE d # c
    BY <1>3, <2>2 DEF Saved, Durable
  <2> QED BY <2>1, <2>2
<1>5. (\A d \in Conn : Backed(d)') /\ Alone'
  BY <1>1, <1>2, <1>3, ClosedBacked
<1> QED BY <1>4, <1>5 DEF Durable

\* What opening the container at p does, by name.
FreshBe(p) == IF block[p] \in Stored /\ be[p] = NoBox THEN [be EXCEPT ![p] = EmptyBox] ELSE be
BoxFor(c, p) ==
    CASE block[p] \in Stored /\ ~(block[p] \in Stored /\ be[p] = NoBox) -> be[p]
      [] block[p] = "ender" -> [EmptyBox EXCEPT !["in"] = ender[c]]
      [] OTHER -> EmptyBox
NextId(c) == (lastId[c] % Ids) + 1
WindowFor(c, p) ==
    [id |-> NextId(c), kind |-> block[p], pos |-> p, box |-> BoxFor(c, p), dirty |-> FALSE]

\* What opening does, by name.
LEMMA OpenIs ==
    ASSUME Typed, NEW c \in Conn, NEW p \in Pos, OpenContainer(c, p)
    PROVE  LET left == Leave(c, FreshBe(p)) 
           IN /\ Acts(c) /\ block[p] \in Kinds
              /\ be' = left.be /\ ground' = left.ground
              /\ IF win[c].kind \in {"table", "ender"} THEN Save(c, left.inv, ender[c])
                 ELSE UNCHANGED <<inv, ender, file>>
              /\ win' = [win EXCEPT ![c] = WindowFor(c, p)]
              /\ lastId' = [lastId EXCEPT ![c] = NextId(c)]
              /\ SendTo(c, clicks, left.sent \o
                    <<Opened(NextId(c), block[p], Over(left.inv, BoxFor(c, p)))>>)
              /\ UNCHANGED <<block, life, dead>> /\ Sharing
<1>1. block[p] \in Kinds
  BY DEF Typed, WorldTyped, OpenContainer
<1> QED BY <1>1, Zenon DEF OpenContainer, FreshBe, BoxFor, NextId, WindowFor

\* The window that opens, and its copy.
LEMMA OpenMakes ==
    ASSUME Typed, NEW c \in Conn, NEW p \in Pos, block[p] \in Kinds
    PROVE  /\ FreshBe(p) \in [Pos -> Boxes \cup {NoBox}] /\ FreshOf(FreshBe(p))
           /\ block[p] \in Stored => FreshBe(p)[p] # NoBox /\ BoxFor(c, p) = FreshBe(p)[p]
           /\ block[p] = "ender" => BoxFor(c, p)["in"] = ender[c]
           /\ BoxFor(c, p) \in Boxes
           /\ block[p] = "table" => BoxFor(c, p) = EmptyBox
           /\ NextId(c) \in 1 .. Ids /\ WindowFor(c, p) \in Windows
<1>1. WorldTyped /\ be \in [Pos -> Boxes \cup {NoBox}] /\ ender[c] \in Stacks /\ lastId[c] \in 1 .. Ids
  BY DEF Typed, WorldTyped, GoodsTyped
<1>2. EmptyBox \in Boxes /\ EmptyBox # NoBox
  BY EmptyIs, GoodsAssumption DEF Boxes
<1>3. FreshBe(p) \in [Pos -> Boxes \cup {NoBox}] /\ FreshOf(FreshBe(p))
  BY <1>1, <1>2 DEF FreshBe, FreshOf
<1>4. ASSUME block[p] \in Stored
      PROVE FreshBe(p)[p] # NoBox /\ BoxFor(c, p) = FreshBe(p)[p] /\ BoxFor(c, p) \in Boxes
  <2>1. CASE be[p] = NoBox
    <3>1. FreshBe(p)[p] = EmptyBox
      BY <1>1, <1>4, <2>1 DEF FreshBe
    <3>2. BoxFor(c, p) = EmptyBox
      BY <1>4, <2>1, StoredAre DEF BoxFor
    <3> QED BY <1>2, <3>1, <3>2
  <2>2. CASE be[p] # NoBox
    <3>1. FreshBe(p)[p] = be[p]
      BY <2>2 DEF FreshBe
    <3>2. BoxFor(c, p) = be[p]
      BY <1>4, <2>2, StoredAre DEF BoxFor
    <3> QED BY <1>1, <2>2, <3>1, <3>2
  <2> QED BY <2>1, <2>2
<1>5. ASSUME block[p] = "ender" PROVE BoxFor(c, p)["in"] = ender[c] /\ BoxFor(c, p) \in Boxes
  <2>1. BoxFor(c, p) = [EmptyBox EXCEPT !["in"] = ender[c]]
    BY <1>5, StoredAre DEF BoxFor
  <2>2. "in" \in BoxCells
    BY DEF BoxCells
  <2> QED BY <1>1, <1>2, <2>1, <2>2, EnderBox DEF Boxes
<1>6. ASSUME block[p] = "table" PROVE BoxFor(c, p) = EmptyBox
  BY <1>6, StoredAre DEF BoxFor
<1>7. NextId(c) \in 1 .. Ids
  BY <1>1, NextIdIs DEF NextId
<1>8. BoxFor(c, p) \in Boxes
  BY <1>2, <1>4, <1>5, <1>6, KindsAre, StoredAre
<1>9. WindowFor(c, p) \in Windows
  BY <1>7, <1>8 DEF WindowFor, Windows
<1> QED BY <1>3, <1>4, <1>5, <1>6, <1>7, <1>8, <1>9

\* OpenContainer keeps Durable.
LEMMA OpenDurable == ASSUME Typed, Durable, NEW c \in Conn, NEW p \in Pos, OpenContainer(c, p)
                     PROVE  Durable'
<1> DEFINE left == Leave(c, FreshBe(p))
           w == WindowFor(c, p)
<1>1. WorldTyped /\ GoodsTyped /\ win \in [Conn -> Windows] /\ Backed(c)
  BY DEF Typed, WorldTyped, Durable
<1>2. /\ block[p] \in Kinds /\ Sharing /\ be' = left.be
      /\ (Save(c, left.inv, ender[c]) \/ UNCHANGED <<inv, ender, file>>)
      /\ win' = [win EXCEPT ![c] = w] /\ UNCHANGED <<block, life, dead>> /\ Acts(c)
  BY OpenIs
<1>3. /\ FreshBe(p) \in [Pos -> Boxes \cup {NoBox}] /\ FreshOf(FreshBe(p))
      /\ block[p] \in Stored => FreshBe(p)[p] # NoBox /\ BoxFor(c, p) = FreshBe(p)[p]
      /\ block[p] = "ender" => BoxFor(c, p)["in"] = ender[c]
  BY <1>2, OpenMakes
<1>4. /\ \A q \in Pos : left.be[q] # FreshBe(p)[q] => win[c].kind = "furnace" /\ win[c].pos = q
      /\ \A q \in Pos \ shared : /\ left.be[q] = NoBox <=> FreshBe(p)[q] = NoBox
                                 /\ FreshBe(p)[q] # NoBox => InBox(left.be[q]) = InBox(FreshBe(p)[q])
      /\ \A d \in Conn : d # c /\ win[d].kind \in Stored /\ win[d].pos \notin shared =>
            left.be[win[d].pos] = be[win[d].pos]
  BY <1>1, <1>3, LeaveBe
<1>5. left.inv \in [InvCells -> Stacks] /\ ender[c] \in Stacks
  <2>1. left.inv \in Inventories
    BY <1>1, <1>3, LeaveTyped
  <2> QED BY <1>1, <2>1 DEF Inventories, GoodsTyped
<1> HIDE DEF left
<1>6. (\A d \in Conn : Saved(d)') /\ (\A d \in Conn : ender'[d] = ender[d])
  <2>1. CASE Save(c, left.inv, ender[c])
    <3>1. \A d \in Conn : Saved(d)'
      BY <1>1, <1>2, <1>5, <2>1, SavedAfterSave DEF Durable
    <3>2. ender'[c] = ender[c] /\ \A d \in Conn : d # c => ender'[d] = ender[d]
      BY <1>1, <1>5, <2>1, SaveIs
    <3> QED BY <3>1, <3>2
  <2>2. CASE UNCHANGED <<inv, ender, file>>
    BY <1>2, <2>2, SavedUnchanged DEF Durable
  <2> QED BY <1>2, <2>1, <2>2
<1>7. w.kind = block[p] /\ w.pos = p /\ w.box = BoxFor(c, p) /\ w.dirty = FALSE
  BY DEF WindowFor
<1> HIDE DEF w
<1>8. win'[c] = w /\ \A d \in Conn : d # c => win'[d] = win[d]
  BY <1>1, <1>2
<1>9. BackedBy(w, life'[c], ender'[c], block', be', shared')
  <2>1. life'[c] # "off"
    BY <1>2 DEF Acts
  <2>2. w.kind = "ender" => w.box["in"] = ender'[c]
    BY <1>3, <1>6, <1>7
  <2>3. w.kind \in Stored => block'[w.pos] = w.kind
    BY <1>2, <1>7
  <2>4. ASSUME w.kind \in Stored, p \notin shared' PROVE p \notin shared
    BY <1>7, <1>8, <2>4, SharingIs, <1>2
  <2>5. ASSUME w.kind \in Stored, p \notin shared
        PROVE  be'[w.pos] # NoBox /\ InBox(be'[w.pos]) = InBox(w.box)
    <3>1. p \in Pos \ shared /\ FreshBe(p)[p] # NoBox /\ BoxFor(c, p) = FreshBe(p)[p]
      BY <1>3, <1>7, <2>5
    <3> QED BY <1>2, <1>4, <1>7, <3>1
  <2>6. ASSUME w.kind = "chest", p \notin shared PROVE be'[w.pos] = w.box
    <3>1. block[p] = "chest" /\ block[p] \in Stored
      BY <1>7, <2>6, StoredAre
    <3>2. ~(win[c].kind = "furnace" /\ win[c].pos = p)
      BY <1>1, <2>6, <3>1, StoredAre DEF Backed, BackedBy
    <3> QED BY <1>2, <1>3, <1>4, <1>7, <3>1, <3>2
  <2> QED BY <1>7, <2>1, <2>2, <2>3, <2>4, <2>5, <2>6 DEF BackedBy
<1>10. ASSUME NEW d \in Conn PROVE Backed(d)'
  <2>1. CASE d = c
    BY <1>8, <1>9, <2>1 DEF Backed
  <2>2. CASE d # c
    <3>1. BackedBy(win[d], life[d], ender[d], block, be, shared)
      BY DEF Durable, Backed
    <3>2. ASSUME win[d].kind \in Stored, win[d].pos \notin shared'
          PROVE  win[d].pos \notin shared /\ be'[win[d].pos] = be[win[d].pos]
      <4>1. win[d].pos \in Pos
        BY <1>1, <3>2, StoredPos
      <4>2. win[d].pos \notin shared
        BY <1>2, <1>8, <2>2, <3>2, <4>1, SharingIs
      <4> QED BY <1>2, <1>4, <2>2, <3>2, <4>2
    <3>3. BackedBy(win[d], life'[d], ender'[d], block', be', shared')
      BY <1>2, <1>6, <3>1, <3>2, BackedStays
    <3> QED BY <1>8, <2>2, <3>3 DEF Backed
  <2> QED BY <2>1, <2>2
<1>11. Alone'
  <2>1. \A d \in Conn : win'[d].kind \in Stored => win'[d].pos \in Pos
    BY <1>1, <1>7, <1>8, StoredPos
  <2> QED BY <1>2, <2>1, SharingAlone
<1> QED BY <1>6, <1>10, <1>11 DEF Durable

\* What breaking the container at p does, by name.
Shut(p) == IF block[p] = "table" THEN {} ELSE Viewers(p, block[p])
Copies(p) == CASE block[p] \notin Stored -> {EmptyBox}
               [] block[p] \in Stored /\ Shut(p) # {} -> {win[d].box : d \in Shut(p)}
               [] OTHER -> {IF be[p] = NoBox THEN EmptyBox ELSE be[p]}

\* What breaking does, by name.
LEMMA BreakIs ==
    ASSUME NEW p \in Pos, BreakContainer(p)
    PROVE  /\ block[p] # "air" /\ Sharing
           /\ \E box \in Copies(p) : ground' = Fallen(ground, box, BoxCells)
           /\ win' = [d \in Conn |-> IF d \in Shut(p) THEN Closed ELSE win[d]]
           /\ Send(clicks, [d \in Conn |-> IF d \in Shut(p) THEN <<CloseIt(win[d].id)>> ELSE <<>>])
           /\ block' = [block EXCEPT ![p] = "air"] /\ be' = [be EXCEPT ![p] = NoBox]
           /\ UNCHANGED <<lastId, inv, ender, file, life, dead>>
BY Zenon DEF BreakContainer, Shut, Copies

\* The windows of players that break shuts, and those it leaves.
LEMMA ShutIs ==
    ASSUME Typed, Durable, NEW p \in Pos
    PROVE  /\ \A d \in Users(p) : life[d] = "on" => d \in Shut(p)
           /\ Shut(p) \subseteq Conn
           /\ \A d \in Shut(p) : /\ win[d].id # 0 /\ win[d].pos = p /\ win[d].kind = block[p]
                                 /\ win[d].kind # "table" /\ life[d] = "on"
<1>1. ASSUME NEW d \in Users(p), life[d] = "on" PROVE d \in Shut(p)
  <2>1. d \in Conn /\ win[d].pos = p /\ win[d].kind \in Stored
    BY DEF Users
  <2>2. block[p] = win[d].kind
    BY <1>1, <2>1 DEF Durable, Backed, BackedBy
  <2>3. win[d].id # 0
    BY <2>1, WindowIs, StoredAre DEF Typed, WorldTyped
  <2> QED BY <1>1, <2>1, <2>2, <2>3, StoredAre DEF Shut, Viewers, Open
<1> QED BY <1>1 DEF Shut, Viewers, Open

\* BreakContainer keeps Durable.
LEMMA BreakDurable == ASSUME Typed, Durable, NEW p \in Pos, BreakContainer(p) PROVE Durable'
<1>1. /\ Sharing /\ WorldTyped
      /\ win' = [d \in Conn |-> IF d \in Shut(p) THEN Closed ELSE win[d]]
      /\ block' = [block EXCEPT ![p] = "air"] /\ be' = [be EXCEPT ![p] = NoBox]
      /\ UNCHANGED <<lastId, inv, ender, file, life, dead>>
  BY BreakIs DEF Typed
<1>2. \A d \in Users(p) : life[d] = "on" => d \in Shut(p)
  BY ShutIs
<1>3. \A d \in Conn : win'[d] = Closed \/ (win'[d] = win[d] /\ d \notin Shut(p))
  BY <1>1
<1>4. block \in [Pos -> Kinds \cup {"air"}] /\ be \in [Pos -> Boxes \cup {NoBox}] /\ block'[p] = "air"
  BY <1>1 DEF WorldTyped
<1>5. ASSUME NEW d \in Conn PROVE Backed(d)'
  <2>1. CASE win'[d] = Closed
    BY <2>1, BackedClosed DEF Backed
  <2>2. CASE win'[d] = win[d] /\ d \notin Shut(p)
    <3>1. BackedBy(win[d], life[d], ender[d], block, be, shared)
      BY DEF Durable, Backed
    <3>2. win[d].kind \in Stored => win[d].pos \in Pos
      BY <1>1, StoredPos
    <3>3. win[d].kind \in Stored /\ win[d].pos # p =>
             block'[win[d].pos] = block[win[d].pos] /\ be'[win[d].pos] = be[win[d].pos]
      BY <1>1, <1>4, <3>2
    <3>4. win[d].kind \in Stored /\ life'[d] = "on" => life[d] = "on" /\ win[d].pos # p
      BY <1>1, <1>2, <2>2 DEF Users
    <3>5. win[d].kind \in Stored /\ win[d].pos \notin shared' => win[d].pos \notin shared /\ win[d].pos # p
      BY <1>1, <1>4, <2>2, <3>2, SharingIs
    <3>6. life'[d] = life[d] /\ ender'[d] = ender[d]
      BY <1>1
    <3>7. win[d].kind \in Stored /\ life'[d] = "on" => life[d] = "on" /\ block'[win[d].pos] = block[win[d].pos]
      BY <3>3, <3>4
    <3>8. win[d].kind \in Stored /\ win[d].pos \notin shared' =>
             win[d].pos \notin shared /\ block'[win[d].pos] = block[win[d].pos] /\ be'[win[d].pos] = be[win[d].pos]
      BY <3>3, <3>5
    <3>9. BackedBy(win[d], life'[d], ender'[d], block', be', shared')
      BY <3>1, <3>6, <3>7, <3>8, BackedStays
    <3> QED BY <2>2, <3>9 DEF Backed
  <2> QED BY <1>3, <2>1, <2>2
<1>6. Alone'
  <2>1. \A d \in Conn : win'[d].kind \in Stored => win'[d].pos \in Pos
    BY <1>1, <1>3, StoredPos, ClosedIs, StoredAre
  <2> QED BY <1>1, <2>1, SharingAlone
<1>7. \A d \in Conn : Saved(d)'
  BY <1>1, SavedUnchanged DEF Durable
<1> QED BY <1>5, <1>6, <1>7 DEF Durable

\* PlaceContainer keeps Durable.
LEMMA PlaceDurable == ASSUME Typed, Durable, NEW p \in Pos, NEW kind \in Kinds, PlaceContainer(p, kind)
                      PROVE  Durable'
<1>1. /\ block[p] = "air" /\ block' = [block EXCEPT ![p] = kind]
      /\ be' = [be EXCEPT ![p] = IF kind \in Stored THEN EmptyBox ELSE NoBox]
      /\ UNCHANGED <<win, inv, ender, file, life, shared>>
  BY DEF PlaceContainer
<1>2. block \in [Pos -> Kinds \cup {"air"}] /\ be \in [Pos -> Boxes \cup {NoBox}]
      /\ \A d \in Conn : win[d] \in Windows
  BY DEF Typed, WorldTyped
<1>3. ASSUME NEW d \in Conn PROVE Backed(d)'
  <2>1. BackedBy(win[d], life[d], ender[d], block, be, shared)
    BY DEF Durable, Backed
  <2>2. win[d].kind \in Stored /\ (life[d] = "on" \/ win[d].pos \notin shared) =>
           win[d].pos \in Pos /\ win[d].pos # p
    BY <1>1, <1>2, <2>1, WindowIs, ClosedIs, StoredAre DEF BackedBy
  <2>3. win[d].kind \in Stored /\ (life[d] = "on" \/ win[d].pos \notin shared) =>
           block'[win[d].pos] = block[win[d].pos] /\ be'[win[d].pos] = be[win[d].pos]
    BY <1>1, <1>2, <2>2
  <2>4. BackedBy(win[d], life'[d], ender'[d], block', be', shared')
    BY <1>1, <2>1, <2>3, BackedStays
  <2> QED BY <1>1, <2>4 DEF Backed
<1>4. Alone'
  BY <1>1 DEF Durable, Alone
<1>5. \A d \in Conn : Saved(d)'
  BY <1>1, SavedUnchanged DEF Durable
<1> QED BY <1>3, <1>4, <1>5 DEF Durable

\* What a click on window id leaves, part by part.
AfterClick(c, id, f, dirty) ==
    /\ id = 0 => win' = win /\ be' = be
    /\ \A d \in Conn : d # c => win'[d] = win[d]
    /\ win'[c].id = win[c].id /\ win'[c].kind = win[c].kind /\ win'[c].pos = win[c].pos
    /\ id # 0 => /\ win'[c].box \in Boxes /\ \A x \in BoxCells : win'[c].box[x] = f[x]
                 /\ win'[c].dirty = (dirty /\ block[win[c].pos] \notin Stored)
                 /\ be' = IF dirty /\ block[win[c].pos] \in Stored
                          THEN [be EXCEPT ![win[c].pos] = win'[c].box] ELSE be
    /\ Save(c, f, IF id # 0 /\ win[c].kind = "ender" THEN f["in"] ELSE ender[c])
    /\ SendTo(c, Rest(c), <<Contents(id, f)>>)
    /\ UNCHANGED <<block, lastId, life, dead, shared>>

\* What is left after a click, part by part.
LEMMA ClickedIs ==
    ASSUME Typed, NEW c \in Conn, NEW id \in 0 .. Ids, id # 0 => win[c].id # 0,
           NEW f \in [Cell -> Stacks], NEW dirty \in BOOLEAN, Clicked(c, id, f, dirty)
    PROVE  AfterClick(c, id, f, dirty)
<1> DEFINE w == [win[c] EXCEPT !.box = Restrict(f, BoxCells), !.dirty = dirty]
           wd == [w EXCEPT !.dirty = dirty /\ block[w.pos] \notin Stored]
<1>1. /\ IF id = 0 THEN UNCHANGED <<win, be>>
         ELSE be' = WrittenBack(w, be) /\ win' = [win EXCEPT ![c] = wd]
      /\ Save(c, f, IF id # 0 /\ w.kind = "ender" THEN f["in"] ELSE ender[c])
      /\ SendTo(c, Rest(c), <<Contents(id, f)>>) /\ UNCHANGED <<block, lastId, life, dead, shared>>
  BY DEF Clicked
<1>2. CASE id = 0
  <2>1. Save(c, f, IF id # 0 /\ win[c].kind = "ender" THEN f["in"] ELSE ender[c])
    <3> HIDE DEF wd
    <3> QED BY <1>1, <1>2, Zenon
  <2> HIDE DEF w, wd
  <2> QED BY <1>1, <1>2, <2>1 DEF AfterClick
<1>3. CASE id # 0
  <2>1. Restrict(f, BoxCells) \in Boxes /\ \A x \in BoxCells : Restrict(f, BoxCells)[x] = f[x]
    <3> HIDE DEF w, wd
    <3> QED BY CellsAre DEF Boxes, Restrict
  <2>2. win[c] \in [id : 1 .. Ids, kind : Kinds, pos : Pos, box : Boxes, dirty : BOOLEAN] /\ win \in [Conn -> Windows]
    BY <1>3 DEF Typed, WorldTyped, Windows, Closed
  <2>3. /\ w.id = win[c].id /\ w.kind = win[c].kind /\ w.pos = win[c].pos /\ w.box = Restrict(f, BoxCells)
        /\ w.dirty = dirty
        /\ wd.id = win[c].id /\ wd.kind = win[c].kind /\ wd.pos = win[c].pos /\ wd.box = Restrict(f, BoxCells)
        /\ wd.dirty = (dirty /\ block[w.pos] \notin Stored)
    BY <2>2
  <2> HIDE DEF w, wd
  <2>4. win'[c] = wd /\ \A d \in Conn : d # c => win'[d] = win[d]
    BY <1>1, <1>3, <2>2
  <2>5. be' = IF dirty /\ block[win[c].pos] \in Stored THEN [be EXCEPT ![win[c].pos] = wd.box] ELSE be
    BY <1>1, <1>3, <2>3 DEF WrittenBack
  <2>6. Save(c, f, IF id # 0 /\ win[c].kind = "ender" THEN f["in"] ELSE ender[c])
    BY <1>1, <2>3
  <2> QED BY <1>1, <1>3, <2>1, <2>3, <2>4, <2>5, <2>6 DEF AfterClick
<1> QED BY <1>2, <1>3

\* A click whose contents are written back, where they changed.
LEMMA ClickedDurable ==
    ASSUME Typed, Durable, NEW c \in Conn, NEW id \in 0 .. Ids, id # 0 => win[c].id # 0,
           NEW f \in [Cell -> Stacks], NEW dirty \in BOOLEAN, Clicked(c, id, f, dirty),
           life[c] = "on", dirty => win[c].kind \in Stored,
           id # 0 /\ ~dirty /\ win[c].kind \in Stored => \A x \in BoxCells : f[x] = win[c].box[x]
    PROVE  Durable'
<1> DEFINE e == IF id # 0 /\ win[c].kind = "ender" THEN f["in"] ELSE ender[c]
<1>0. AfterClick(c, id, f, dirty)
  <2> HIDE DEF e
  <2> QED BY ClickedIs
<1>1. /\ id = 0 => win' = win /\ be' = be
      /\ \A d \in Conn : d # c => win'[d] = win[d]
      /\ win'[c].id = win[c].id /\ win'[c].kind = win[c].kind /\ win'[c].pos = win[c].pos
      /\ id # 0 => /\ win'[c].box \in Boxes /\ \A x \in BoxCells : win'[c].box[x] = f[x]
                   /\ win'[c].dirty = (dirty /\ block[win[c].pos] \notin Stored)
                   /\ be' = IF dirty /\ block[win[c].pos] \in Stored
                            THEN [be EXCEPT ![win[c].pos] = win'[c].box] ELSE be
      /\ Save(c, f, e) /\ UNCHANGED <<block, life, shared>>
  BY <1>0, Zenon DEF AfterClick
<1>2. GoodsTyped /\ WorldTyped /\ win[c] \in Windows /\ be \in [Pos -> Boxes \cup {NoBox}]
  BY DEF Typed, WorldTyped
<1>3. e \in Stacks /\ InvCells \subseteq Cell
  BY <1>2, CellsAre DEF GoodsTyped
<1> HIDE DEF e
<1>4. \A d \in Conn : Saved(d)'
  BY <1>1, <1>2, <1>3, SavedAfterSave DEF Durable
<1>5. ender'[c] = e /\ \A d \in Conn : d # c => ender'[d] = ender[d]
  BY <1>1, <1>2, <1>3, SaveIs
<1>6. BackedBy(win[c], life[c], ender[c], block, be, shared)
  BY DEF Durable, Backed
<1>7. CASE id = 0
  <2>1. e = ender[c]
    BY <1>7 DEF e
  <2>2. \A d \in Conn : (life'[d] = "off" => life[d] = "off") /\ (life'[d] = "on" => life[d] = "on")
    BY <1>1
  <2>3. \A d \in Conn : ender'[d] = ender[d] \/ win[d].kind # "ender"
    BY <1>5, <2>1
  <2>4. (\A d \in Conn : Backed(d)') /\ Alone'
    BY <1>1, <1>7, <2>2, <2>3, SameBacked
  <2> QED BY <1>4, <2>4 DEF Durable
<1>8. CASE id # 0
  <2>1. win[c].id # 0 /\ win[c] # Closed /\ win[c].pos \in Pos
    BY <1>2, <1>8, WindowIs, ClosedIs
  <2>2. win'[c].dirty = FALSE
    BY <1>1, <1>6, <1>8 DEF BackedBy
  <2>3. win'[c].kind = "ender" => win'[c].box["in"] = ender'[c]
    <3>1. "in" \in BoxCells
      BY DEF BoxCells
    <3> QED BY <1>1, <1>5, <1>8, <3>1 DEF e
  <2>4. ASSUME win'[c].kind \in Stored
        PROVE  /\ block'[win'[c].pos] = win'[c].kind
               /\ win'[c].pos \notin shared' =>
                    /\ be'[win'[c].pos] # NoBox
                    /\ InBox(be'[win'[c].pos]) = InBox(win'[c].box)
                    /\ win'[c].kind = "chest" => be'[win'[c].pos] = win'[c].box
    <3>1. block[win[c].pos] = win[c].kind /\ win[c].kind \in Stored
      BY <1>1, <1>6, <2>4 DEF BackedBy
    <3>2. CASE dirty
      <4>1. be' = [be EXCEPT ![win[c].pos] = win'[c].box]
        BY <1>1, <1>8, <3>1, <3>2
      <4>2. be'[win[c].pos] = win'[c].box
        BY <1>2, <2>1, <4>1
      <4>3. win'[c].box # NoBox
        BY <1>1, <1>8, GoodsAssumption DEF Boxes
      <4> QED BY <1>1, <3>1, <4>2, <4>3
    <3>3. CASE ~dirty
      <4>1. be' = be
        BY <1>1, <1>8, <3>3
      <4>2. win'[c].box = win[c].box
        <5>1. win[c].box \in Boxes
          BY <1>2, WindowIs
        <5>2. \A x \in BoxCells : win'[c].box[x] = win[c].box[x]
          BY <1>1, <1>8, <3>1, <3>3
        <5> QED BY <1>1, <1>8, <5>1, <5>2 DEF Boxes
      <4> QED BY <1>1, <1>6, <3>1, <4>1, <4>2 DEF BackedBy
    <3> QED BY <3>2, <3>3
  <2>5. life'[c] # "off"
    BY <1>1, <1>6, <2>1 DEF BackedBy
  <2>6. BackedBy(win'[c], life'[c], ender'[c], block', be', shared')
    BY <2>2, <2>3, <2>4, <2>5 DEF BackedBy
  <2>7. ASSUME NEW d \in Conn PROVE Backed(d)'
    <3>1. CASE d = c
      BY <2>6, <3>1 DEF Backed
    <3>2. CASE d # c
      <4>1. BackedBy(win[d], life[d], ender[d], block, be, shared)
        BY DEF Durable, Backed
      <4>2. win[d].kind \in Stored /\ win[d].pos \notin shared => be'[win[d].pos] = be[win[d].pos]
        <5> SUFFICES ASSUME win[d].kind \in Stored, win[d].pos \notin shared
                     PROVE  be'[win[d].pos] = be[win[d].pos]
          OBVIOUS
        <5>1. CASE dirty /\ block[win[c].pos] \in Stored
          <6>1. win[c].kind \in Stored
            BY <5>1
          <6>2. win[d].pos # win[c].pos
            BY <3>2, <6>1 DEF Durable, Alone
          <6>3. win[d] \in Windows
            BY <1>2 DEF WorldTyped
          <6>4. win[d].pos \in Pos
            BY <6>3, WindowIs, ClosedIs, StoredAre
          <6> QED BY <1>1, <1>2, <1>8, <5>1, <6>2, <6>4
        <5>2. CASE ~(dirty /\ block[win[c].pos] \in Stored)
          BY <1>1, <1>8, <5>2
        <5> QED BY <5>1, <5>2
      <4>3. BackedBy(win[d], life'[d], ender'[d], block', be', shared')
        BY <1>1, <1>5, <3>2, <4>1, <4>2, BackedStays
      <4> QED BY <1>1, <3>2, <4>3 DEF Backed
    <3> QED BY <3>1, <3>2
  <2>8. Alone'
    <3>1. shared' = shared /\ \A d \in Conn : win'[d].kind = win[d].kind /\ win'[d].pos = win[d].pos
      BY <1>1
    <3> QED BY <3>1 DEF Durable, Alone
  <2> QED BY <1>4, <2>7, <2>8 DEF Durable
<1> QED BY <1>7, <1>8

\* What leaves the server alone keeps it durable.
LEMMA ServerDurable == ASSUME Durable, UNCHANGED serverVars PROVE Durable'
<1>1. (\A d \in Conn : Backed(d)') /\ Alone'
  BY SameBacked DEF serverVars
<1>2. \A d \in Conn : Saved(d)'
  BY SavedUnchanged DEF Durable, serverVars
<1> QED BY <1>1, <1>2 DEF Durable

\* The packet a handler takes.
LEMMA HeadIs ==
    ASSUME Typed, NEW c \in Conn, HandleClick(c)
    PROVE  LET m == Head(clicks[c])
           IN  /\ clicks[c] # <<>> /\ m \in Packets /\ IsClick(m) /\ Current(c, m)
               /\ m.id \in 0 .. Ids /\ (m.id # 0 => win[c].id # 0 /\ m.id = win[c].id)
               /\ life[c] = "on" /\ c \notin dead
               /\ ThrowResult(c, m) \/ TakeResult(c, m) \/ MoveInFurnace(c, m) \/ CopyCells(c, m)
<1> DEFINE m == Head(clicks[c])
<1>1. clicks[c] # <<>>
  <2>1. \E i \in 1 .. Len(clicks[c]) : IsClick(clicks[c][i])
    BY DEF HandleClick, Waiting
  <2> QED BY <2>1
<1>2. m \in Packets
  BY <1>1, RestTyped DEF Typed
<1>3. IsClick(m) /\ Current(c, m)
      /\ (ThrowResult(c, m) \/ TakeResult(c, m) \/ MoveInFurnace(c, m) \/ CopyCells(c, m))
      /\ life[c] = "on" /\ c \notin dead
  BY DEF HandleClick
<1> HIDE DEF m
<1>4. m.id \in 0 .. Ids /\ (m.id # 0 => win[c].id # 0 /\ m.id = win[c].id)
  BY <1>2, <1>3, ClickIs DEF Current, Open
<1> QED BY <1>1, <1>2, <1>3, <1>4 DEF m

\* HandleClick keeps Durable.
LEMMA HandleClickDurable == ASSUME Typed, Durable, NEW c \in Conn, HandleClick(c) PROVE Durable'
<1> DEFINE m == Head(clicks[c])
<1>1. /\ clicks[c] # <<>> /\ m \in Packets /\ IsClick(m) /\ Current(c, m)
      /\ m.id \in 0 .. Ids /\ (m.id # 0 => win[c].id # 0 /\ m.id = win[c].id) /\ life[c] = "on"
      /\ ThrowResult(c, m) \/ TakeResult(c, m) \/ MoveInFurnace(c, m) \/ CopyCells(c, m)
  BY HeadIs
<1>2. WorldTyped /\ GoodsTyped /\ win[c] \in Windows
  BY DEF Typed, WorldTyped
<1>3. Cells(c) \in [Cell -> Stacks] /\ \A x \in BoxCells : Cells(c)[x] = win[c].box[x]
  BY <1>2, CellsTyped
<1>4. m.mode \in {"pickup", "quick", "throw"} /\ m.cell \in Cell /\ m.new \in Named
  BY <1>1, ClickIs
<1> HIDE DEF m
<1>5. CASE ThrowResult(c, m)
  BY <1>5, ServerDurable DEF ThrowResult
<1>6. CASE TakeResult(c, m)
  <2> DEFINE r == ResultCell(c, m.id)
             g == GridCell(c, m.id)
             f == IF m.mode = "pickup" THEN Take(Cells(c), r, g) ELSE CraftToMain(Cells(c), r, g)
  <2>1. m.cell = r /\ Clicked(c, m.id, f, FALSE)
    BY <1>6 DEF TakeResult
  <2>2. r # "none"
    BY <1>4, <2>1, CellsAre
  <2>3. f \in [Cell -> Stacks]
    <3>1. r \in Cell \ MainCells /\ g \in Cell \ MainCells /\ r # g /\ r # "cursor" /\ g # "cursor"
      BY <2>2, CraftCells
    <3> HIDE DEF r, g
    <3> QED BY <1>3, <3>1, CraftedIs
  <2>4. m.id # 0 => win[c].kind \notin Stored
    BY <2>2, CraftCells, StoredAre
  <2> HIDE DEF f, r, g
  <2> QED BY <1>1, <2>1, <2>3, <2>4, ClickedDurable
<1>7. CASE MoveInFurnace(c, m)
  <2> DEFINE f == FurnaceMove(Cells(c), m.cell)
  <2>1. win[c].kind = "furnace" /\ (UNCHANGED serverVars \/ Clicked(c, m.id, f, TRUE))
    BY <1>7 DEF MoveInFurnace, MovesInFurnace
  <2>2. f \in [Cell -> Stacks]
    BY <1>3, <1>4, FurnaceMoveIs, CellsAre
  <2> HIDE DEF f
  <2>3. CASE Clicked(c, m.id, f, TRUE)
    BY <1>1, <2>1, <2>2, <2>3, StoredAre, ClickedDurable
  <2> QED BY <2>1, <2>3, ServerDurable
<1>8. CASE CopyCells(c, m)
  <2> DEFINE dirty == win[c].kind \in Stored /\ (win[c].dirty \/ DOMAIN m.new \cap BoxCells # {})
  <2>1. Clicked(c, m.id, Copied(c, m), dirty)
    BY <1>8, CopyIs
  <2>2. /\ Copied(c, m) \in [Cell -> Stacks]
        /\ \A x \in Cell : x # ResultCell(c, m.id) =>
              Copied(c, m)[x] = IF x \in DOMAIN m.new THEN m.new[x] ELSE Cells(c)[x]
    BY <1>1, <1>2, CopiedTyped
  <2>3. dirty \in BOOLEAN /\ (dirty => win[c].kind \in Stored)
    OBVIOUS
  <2>4. m.id # 0 /\ ~dirty /\ win[c].kind \in Stored => \A x \in BoxCells : Copied(c, m)[x] = win[c].box[x]
    <3> SUFFICES ASSUME m.id # 0, ~dirty, win[c].kind \in Stored, NEW x \in BoxCells
                 PROVE  Copied(c, m)[x] = win[c].box[x]
      OBVIOUS
    <3>1. x \notin DOMAIN m.new /\ x \in Cell
      BY CellsAre
    <3>2. ResultCell(c, m.id) = "none"
      BY CraftCells, StoredAre
    <3>3. x # "none"
      BY CellsAre
    <3> QED BY <1>3, <2>2, <3>1, <3>2, <3>3
  <2> HIDE DEF dirty
  <2> QED BY <1>1, <2>1, <2>2, <2>3, <2>4, ClickedDurable
<1> QED BY <1>1, <1>5, <1>6, <1>7, <1>8

\* What closing a window does, by name.
LEMMA HandleCloseIs ==
    ASSUME Typed, NEW c \in Conn, HandleClose(c)
    PROVE  LET m == Head(clicks[c])
               left == Leave(c, be)
               f == Returned(inv[c], "result", "grid")
               g == Emptied(f, {"grid"})
           IN  /\ life[c] = "on" /\ c \notin dead /\ clicks[c] # <<>> /\ m \in Packets /\ ~IsClick(m) /\ Current(c, m)
               /\ f \in [InvCells -> Stacks] /\ g \in [InvCells -> Stacks]
               /\ f \in Moves(InvCells, MainCells \cup {"grid"}, {"result"}, inv[c])
               /\ m.id = 0 => /\ ground' = Fallen(ground, f, {"grid"}) /\ Save(c, g, ender[c])
                              /\ SendTo(c, Rest(c), <<Contents(0, g)>>) /\ win' = win /\ be' = be
                              /\ shared' = shared
               /\ m.id # 0 => /\ ground' = left.ground /\ be' = left.be /\ win' = [win EXCEPT ![c] = Closed]
                              /\ IF win[c].kind \in {"table", "ender"} THEN Save(c, left.inv, ender[c])
                                 ELSE UNCHANGED <<inv, ender, file>>
                              /\ SendTo(c, Rest(c), left.sent) /\ Sharing
                              /\ win[c].id # 0 /\ m.id = win[c].id
               /\ UNCHANGED <<block, lastId, life, dead>>
<1> DEFINE f == Returned(inv[c], "result", "grid")
<1>1. clicks[c] # <<>>
  BY DEF HandleClose
<1>2. Head(clicks[c]) \in Packets
  BY <1>1, RestTyped DEF Typed
<1>3. inv[c] \in Inventories
  BY DEF Typed, GoodsTyped
<1>4. f \in Inventories /\ f \in Moves(InvCells, MainCells \cup {"grid"}, {"result"}, inv[c])
  BY <1>3, InventoryCells
<1>5. Emptied(f, {"grid"}) \in Inventories
  <2> HIDE DEF f
  <2> QED BY <1>4, InventoryCells
<1>6. Head(clicks[c]).id # 0 => win[c].id # 0 /\ Head(clicks[c]).id = win[c].id
  BY DEF HandleClose, Current, Open
<1>7. f \in [InvCells -> Stacks] /\ Emptied(f, {"grid"}) \in [InvCells -> Stacks]
  BY <1>4, <1>5 DEF Inventories
<1> HIDE DEF f
<1> QED BY <1>1, <1>2, <1>4, <1>6, <1>7, Zenon DEF HandleClose, f

\* HandleClose keeps Durable.
LEMMA HandleCloseDurable == ASSUME Typed, Durable, NEW c \in Conn, HandleClose(c) PROVE Durable'
<1> DEFINE m == Head(clicks[c])
           left == Leave(c, be)
           g == Emptied(Returned(inv[c], "result", "grid"), {"grid"})
<1>1. /\ g \in [InvCells -> Stacks]
      /\ m.id = 0 => Save(c, g, ender[c]) /\ win' = win /\ be' = be /\ shared' = shared
      /\ m.id # 0 => /\ Sharing /\ be' = left.be /\ win' = [win EXCEPT ![c] = Closed]
                     /\ Save(c, left.inv, ender[c]) \/ UNCHANGED <<inv, ender, file>>
      /\ UNCHANGED <<block, lastId, life, dead>>
  BY HandleCloseIs
<1>2. WorldTyped /\ GoodsTyped /\ ender[c] \in Stacks /\ be \in [Pos -> Boxes \cup {NoBox}]
  BY DEF Typed, GoodsTyped, WorldTyped
<1>3. left.inv \in [InvCells -> Stacks]
  BY <1>2, LeaveTyped DEF Inventories
<1> HIDE DEF g, m
<1>4. CASE m.id = 0
  <2>1. \A d \in Conn : Saved(d)'
    BY <1>1, <1>2, <1>4, SavedAfterSave DEF Durable
  <2>2. ender'[c] = ender[c] /\ \A d \in Conn : d # c => ender'[d] = ender[d]
    BY <1>1, <1>2, <1>4, SaveIs
  <2>3. (\A d \in Conn : Backed(d)') /\ Alone'
    BY <1>1, <1>4, <2>2, SameBacked
  <2> QED BY <2>1, <2>3 DEF Durable
<1>5. CASE m.id # 0
  <2>1. (\A d \in Conn : Saved(d)') /\ \A d \in Conn : d # c => ender'[d] = ender[d]
    <3> HIDE DEF left
    <3>1. CASE Save(c, left.inv, ender[c])
      BY <1>1, <1>2, <1>3, <3>1, SavedAfterSave, SaveIs DEF Durable
    <3>2. CASE UNCHANGED <<inv, ender, file>>
      BY <1>1, <3>2, SavedUnchanged DEF Durable
    <3> QED BY <1>1, <1>5, <3>1, <3>2
  <2>2. (\A d \in Conn : Backed(d)') /\ Alone'
    BY <1>1, <1>2, <1>5, <2>1, ClosedBacked
  <2> QED BY <2>1, <2>2 DEF Durable
<1> QED BY <1>4, <1>5

\* What smelting in an open furnace does.
LEMMA SmeltOpenIs ==
    ASSUME Typed, NEW c \in Conn, SmeltOpen(c)
    PROVE  LET box == Smelted(win[c].box)
           IN  /\ life[c] = "on" /\ win[c].kind = "furnace" /\ win[c].id \in 1 .. Ids /\ win[c].pos \in Pos
               /\ box \in Boxes /\ InBox(box) = InBox(win[c].box)
               /\ win'[c].id = win[c].id /\ win'[c].kind = win[c].kind /\ win'[c].pos = win[c].pos
               /\ win'[c].box = box /\ win'[c].dirty = TRUE
               /\ \A d \in Conn : d # c => win'[d] = win[d]
               /\ SendTo(c, clicks, <<Contents(win[c].id, Over(inv[c], box))>>)
               /\ UNCHANGED <<block, be, lastId, inv, ender, file, ground, life, dead, shared>>
<1> DEFINE box == Smelted(win[c].box)
<1>1. win \in [Conn -> Windows] /\ win[c].kind = "furnace"
  BY DEF Typed, WorldTyped, SmeltOpen
<1>2. win[c] \in [id : 1 .. Ids, kind : Kinds, pos : Pos, box : Boxes, dirty : BOOLEAN]
  BY <1>1, ClosedIs DEF Windows
<1>3. box \in Boxes /\ InBox(box) = InBox(win[c].box)
  BY <1>2, SmeltedIs
<1> HIDE DEF box
<1>4. win' = [win EXCEPT ![c].box = box, ![c].dirty = TRUE]
  BY DEF SmeltOpen, box
<1>5. /\ win'[c].id = win[c].id /\ win'[c].kind = win[c].kind /\ win'[c].pos = win[c].pos
      /\ win'[c].box = box /\ win'[c].dirty = TRUE
      /\ \A d \in Conn : d # c => win'[d] = win[d]
  BY <1>1, <1>2, <1>4
<1>6. /\ life[c] = "on" /\ SendTo(c, clicks, <<Contents(win[c].id, Over(inv[c], box))>>)
      /\ UNCHANGED <<block, be, lastId, inv, ender, file, ground, life, dead, shared>>
  BY DEF SmeltOpen, box
<1> QED BY <1>1, <1>2, <1>3, <1>5, <1>6 DEF box

\* SmeltOpen keeps Durable.
LEMMA SmeltOpenDurable == ASSUME Typed, Durable, NEW c \in Conn, SmeltOpen(c) PROVE Durable'
<1>1. /\ life[c] = "on" /\ win[c].kind = "furnace"
      /\ InBox(win'[c].box) = InBox(win[c].box)
      /\ win'[c].kind = win[c].kind /\ win'[c].pos = win[c].pos
      /\ \A d \in Conn : d # c => win'[d] = win[d]
      /\ UNCHANGED <<block, be, lastId, inv, ender, file, ground, life, dead, shared>>
  BY SmeltOpenIs
<1>2. \A d \in Conn : Saved(d)'
  BY <1>1, SavedUnchanged DEF Durable
<1>3. BackedBy(win[c], life[c], ender[c], block, be, shared)
  BY DEF Durable, Backed
<1>4. BackedBy(win'[c], life'[c], ender'[c], block', be', shared')
  BY <1>1, <1>3, StoredAre DEF BackedBy
<1>5. ASSUME NEW d \in Conn PROVE Backed(d)'
  <2>1. CASE d = c
    BY <1>4, <2>1 DEF Backed
  <2>2. CASE d # c
    BY <1>1, <2>2 DEF Durable, Backed
  <2> QED BY <2>1, <2>2
<1>6. Alone'
  <2>1. shared' = shared /\ \A d \in Conn : win'[d].kind = win[d].kind /\ win'[d].pos = win[d].pos
    BY <1>1
  <2> QED BY <2>1 DEF Durable, Alone
<1> QED BY <1>2, <1>5, <1>6 DEF Durable

\* SmeltStored keeps Durable.
LEMMA SmeltStoredDurable == ASSUME Typed, Durable, NEW p \in Pos, SmeltStored(p) PROVE Durable'
<1>1. be[p] # NoBox /\ be' = [be EXCEPT ![p] = Smelted(be[p])] /\ block[p] = "furnace"
      /\ UNCHANGED <<block, win, lastId, inv, ender, file, ground, life, dead, shared, clientVars>>
  BY DEF SmeltStored
<1>2. be \in [Pos -> Boxes \cup {NoBox}]
  BY DEF Typed, WorldTyped
<1>3. Smelted(be[p]) \in Boxes /\ InBox(Smelted(be[p])) = InBox(be[p]) /\ Smelted(be[p]) # NoBox
  BY <1>1, <1>2, SmeltedIs, GoodsAssumption DEF Boxes
<1>4. be'[p] = Smelted(be[p]) /\ \A q \in Pos : q # p => be'[q] = be[q]
  BY <1>1, <1>2
<1>5. ASSUME NEW d \in Conn PROVE Backed(d)'
  <2>1. BackedBy(win[d], life[d], ender[d], block, be, shared)
    BY DEF Durable, Backed
  <2>2. win[d].kind \in Stored => win[d].pos \in Pos
    BY WindowIs, StoredAre, ClosedIs DEF Typed, WorldTyped
  <2>3. CASE win[d].kind \in Stored /\ win[d].pos = p /\ p \notin shared
    <3>1. win[d].kind = "furnace"
      BY <1>1, <2>1, <2>3 DEF BackedBy
    <3>2. BackedBy(win[d], life[d], ender[d], block, be', shared)
      BY <1>3, <1>4, <2>1, <2>3, <3>1 DEF BackedBy
    <3> QED BY <1>1, <3>2 DEF Backed
  <2>4. CASE ~(win[d].kind \in Stored /\ win[d].pos = p /\ p \notin shared)
    <3>1. BackedBy(win[d], life[d], ender[d], block, be', shared)
      BY <1>4, <2>1, <2>2, <2>4, BackedStays
    <3> QED BY <1>1, <3>1 DEF Backed
  <2> QED BY <2>3, <2>4
<1>6. Alone' /\ \A d \in Conn : Saved(d)'
  BY <1>1, SavedUnchanged DEF Durable, Alone
<1> QED BY <1>5, <1>6 DEF Durable

\* What PickUp does when n of item i are taken up.
PickedUp(c, i, n) ==
    LET h == Over(inv[c], [ground |-> Stack(i, n)])
        f == Absorb(h, "ground")
        g == WithResult(f, "result", "grid")
        D == InvCells \cup {"ground"}
    IN /\ n <= ground[i] /\ f["ground"].n < n /\ f["ground"].n \in Nat
       /\ ground' = [ground EXCEPT ![i] = @ - (n - f["ground"].n)]
       /\ h \in [D -> Stacks] /\ h["ground"].n = n /\ \A x \in InvCells : h[x] = inv[c][x]
       /\ f \in Moves(D, MainCells \cup {"ground"}, {}, h)
       /\ f \in [D -> Stacks] /\ g \in [D -> Stacks]
       /\ \A x \in D : x # "result" => g[x] = f[x]
       /\ Save(c, g, ender[c]) /\ SendTo(c, clicks, <<Contents(0, g)>>)
       /\ life[c] = "on" /\ c \notin dead /\ win[c].id = 0
       /\ UNCHANGED <<block, be, win, lastId, life, dead, shared>>

\* What a player who picks something up owns then, by name.
LEMMA PickUpIs ==
    ASSUME Typed, NEW c \in Conn, NEW i \in Items, PickUp(c, i)
    PROVE  \E n \in 1 .. MaxStack : PickedUp(c, i, n)
<1> DEFINE h(n) == Over(inv[c], [ground |-> Stack(i, n)])
           f(n) == Absorb(h(n), "ground")
           g(n) == WithResult(f(n), "result", "grid")
           D == InvCells \cup {"ground"}
<1>1. PICK n \in 1 .. Lower(ground[i], MaxStack) :
        /\ f(n)["ground"].n < n
        /\ ground' = [ground EXCEPT ![i] = @ - (n - f(n)["ground"].n)]
        /\ Save(c, g(n), ender[c])
        /\ SendTo(c, clicks, <<Contents(0, g(n))>>)
  BY DEF PickUp
<1>2. ground[i] \in Nat /\ n \in 1 .. MaxStack /\ n <= ground[i] /\ inv[c] \in Inventories
  BY Sizes DEF Typed, GoodsTyped, Lower
<1>3. Stack(i, n) \in Stacks /\ Stack(i, n).n = n
  <2>1. n \in 0 .. MaxStack
    BY <1>2
  <2> QED BY <2>1, StackMade
<1>4. /\ h(n) \in [D -> Stacks] /\ h(n)["ground"] = Stack(i, n) /\ \A x \in InvCells : h(n)[x] = inv[c][x]
      /\ f(n) \in Moves(D, MainCells \cup {"ground"}, {}, h(n))
      /\ f(n) \in [D -> Stacks] /\ f(n)["ground"].n \in Nat
  BY <1>2, <1>3, PickedIs
<1>5. g(n) \in [D -> Stacks] /\ \A x \in D : x # "result" => g(n)[x] = f(n)[x]
  <2>1. "grid" \in D
    BY CellsAre
  <2> DEFINE ff == f(n)
             gg == g(n)
  <2>2. gg = WithResult(ff, "result", "grid") /\ ff \in [D -> Stacks]
    BY <1>4
  <2> HIDE DEF f, D, g, ff, gg
  <2>3. gg \in [D -> Stacks] /\ \A x \in D : x # "result" => gg[x] = ff[x]
    BY <2>1, <2>2, WithResultIs
  <2> QED BY <2>3 DEF ff, gg
<1>6. life[c] = "on" /\ c \notin dead /\ win[c].id = 0 /\ UNCHANGED <<block, be, win, lastId, life, dead, shared>>
  BY DEF PickUp, Open
<1> n \in 1 .. MaxStack
  BY <1>2
<1> WITNESS n \in 1 .. MaxStack
<1>7. h(n)["ground"].n = n
  BY <1>3, <1>4
<1> HIDE DEF f, g, h
<1>8. /\ n <= ground[i] /\ f(n)["ground"].n < n /\ f(n)["ground"].n \in Nat
      /\ ground' = [ground EXCEPT ![i] = @ - (n - f(n)["ground"].n)]
      /\ h(n) \in [D -> Stacks] /\ h(n)["ground"].n = n /\ \A x \in InvCells : h(n)[x] = inv[c][x]
      /\ f(n) \in Moves(D, MainCells \cup {"ground"}, {}, h(n))
      /\ f(n) \in [D -> Stacks] /\ g(n) \in [D -> Stacks]
      /\ \A x \in D : x # "result" => g(n)[x] = f(n)[x]
      /\ Save(c, g(n), ender[c]) /\ SendTo(c, clicks, <<Contents(0, g(n))>>)
      /\ life[c] = "on" /\ c \notin dead /\ win[c].id = 0
      /\ UNCHANGED <<block, be, win, lastId, life, dead, shared>>
  BY <1>1, <1>2, <1>4, <1>5, <1>6, <1>7
<1> QED BY <1>8, Zenon DEF PickedUp, f, g, h

\* Where the windows stay and a player saves what it has.
LEMMA SaveDurable ==
    ASSUME Typed, Durable, NEW c \in Conn, NEW A, InvCells \subseteq A, NEW f \in [A -> Stacks],
           Save(c, f, ender[c]), UNCHANGED <<block, be, win, life, shared>>
    PROVE  Durable'
<1>1. GoodsTyped /\ ender[c] \in Stacks
  BY DEF Typed, GoodsTyped
<1>2. \A d \in Conn : Saved(d)'
  BY <1>1, SavedAfterSave DEF Durable
<1>3. ender'[c] = ender[c] /\ \A d \in Conn : d # c => ender'[d] = ender[d]
  BY <1>1, SaveIs
<1>4. (\A d \in Conn : Backed(d)') /\ Alone'
  BY <1>3, SameBacked
<1> QED BY <1>2, <1>4 DEF Durable

\* PickUp keeps Durable.
LEMMA PickUpDurable == ASSUME Typed, Durable, NEW c \in Conn, NEW i \in Items, PickUp(c, i) PROVE Durable'
<1> DEFINE D == InvCells \cup {"ground"}
<1>1. \E g \in [D -> Stacks] : Save(c, g, ender[c]) /\ UNCHANGED <<block, be, win, life, shared>>
  <2>1. PICK n \in 1 .. MaxStack : PickedUp(c, i, n)
    BY PickUpIs
  <2> QED BY <2>1 DEF PickedUp
<1>2. InvCells \subseteq D
  OBVIOUS
<1> HIDE DEF D
<1> QED BY <1>1, <1>2, SaveDurable

\* Respawn keeps Durable.
LEMMA RespawnDurable == ASSUME Typed, Durable, NEW c \in Conn, Respawn(c) PROVE Durable'
<1> DEFINE f == WithResult(inv[c], "result", "grid")
<1>1. Save(c, f, ender[c]) /\ UNCHANGED <<block, be, win, life, shared>>
  BY DEF Respawn
<1>2. f \in [InvCells -> Stacks]
  BY InventoryCells DEF Typed, GoodsTyped, Inventories
<1> HIDE DEF f
<1> QED BY <1>1, <1>2, SaveDurable

\* What death leaves, by name.
DeathSends(c) == (IF Open(c) THEN <<CloseIt(win[c].id)>> ELSE <<>>)
                 \o Leave(c, be).sent \o <<Contents(0, EmptyInv)>>

\* What a death does, by name.
LEMMA DieIs ==
    ASSUME Typed, NEW c \in Conn, Die(c)
    PROVE  LET left == Leave(c, be)
               f == [left.inv EXCEPT !["result"] = Nothing]
           IN  /\ life[c] = "on" /\ c \notin dead /\ dead' = dead \cup {c}
               /\ left.inv \in [InvCells -> Stacks] /\ f \in [InvCells -> Stacks]
               /\ be' = left.be /\ ground' = Fallen(left.ground, f, InvCells)
               /\ Save(c, EmptyInv, ender[c]) /\ SendTo(c, clicks, DeathSends(c))
               /\ win' = [win EXCEPT ![c] = Closed] /\ UNCHANGED <<block, lastId, life>> /\ Sharing
<1> DEFINE left == Leave(c, be)
           f == [left.inv EXCEPT !["result"] = Nothing]
<1>1. WorldTyped /\ GoodsTyped /\ be \in [Pos -> Boxes \cup {NoBox}]
  BY DEF Typed, WorldTyped
<1>2. left.inv \in [InvCells -> Stacks]
  BY <1>1, LeaveTyped DEF Inventories
<1>3. f \in [InvCells -> Stacks]
  <2> HIDE DEF left
  <2> QED BY <1>2, NothingIs
<1> HIDE DEF f
<1>4. /\ life[c] = "on" /\ c \notin dead /\ dead' = dead \cup {c}
      /\ be' = left.be /\ ground' = Fallen(left.ground, f, InvCells)
      /\ Save(c, EmptyInv, ender[c]) /\ SendTo(c, clicks, DeathSends(c))
      /\ win' = [win EXCEPT ![c] = Closed] /\ UNCHANGED <<block, lastId, life>> /\ Sharing
  BY Zenon DEF Die, DeathSends, f
<1> QED BY <1>2, <1>3, <1>4, Zenon DEF f

\* Die keeps Durable.
LEMMA DieDurable == ASSUME Typed, Durable, NEW c \in Conn, Die(c) PROVE Durable'
<1>1. /\ be' = Leave(c, be).be /\ Save(c, EmptyInv, ender[c])
      /\ win' = [win EXCEPT ![c] = Closed] /\ UNCHANGED <<block, lastId, life>> /\ Sharing
  BY DieIs
<1>2. WorldTyped /\ GoodsTyped /\ ender[c] \in Stacks /\ EmptyInv \in [InvCells -> Stacks]
  BY EmptyIs DEF Typed, GoodsTyped, Inventories
<1>3. \A d \in Conn : Saved(d)'
  BY <1>1, <1>2, SavedAfterSave DEF Durable
<1>4. \A d \in Conn : d # c => ender'[d] = ender[d]
  BY <1>1, <1>2, SaveIs
<1>5. (\A d \in Conn : Backed(d)') /\ Alone'
  BY <1>1, <1>2, <1>4, ClosedBacked
<1> QED BY <1>3, <1>5 DEF Durable

\* Clients change nothing of the server.
LEMMA ClientServer == ASSUME ClientsTyped, NEW c \in Conn, Client(c) PROVE UNCHANGED serverVars
<1>1. ASSUME NEW mode \in {"pickup", "quick", "throw"}, NEW x, NEW g, Propose(c, mode, x, g)
      PROVE  UNCHANGED serverVars
  BY <1>1, ProposeIs
<1> QED BY <1>1, ClientIs DEF Receive, CloseScreen

\* Every step keeps Durable.
LEMMA NextDurable == ASSUME Typed, Durable, [Next]_vars PROVE Durable'
<1>1. CASE UNCHANGED vars
  BY <1>1, ServerDurable DEF vars
<1>2. ASSUME NEW c \in Conn, Session(c) PROVE Durable'
  BY <1>2, JoinDurable, DisconnectDurable, CleanupDurable, DieDurable, RespawnDurable DEF Session
<1>3. ASSUME NEW c \in Conn, Handle(c) PROVE Durable'
  BY <1>3, HandleClickDurable, HandleCloseDurable, ServerDurable DEF Handle, Ignore
<1>4. ASSUME NEW c \in Conn, SmeltOpen(c) \/ Client(c) PROVE Durable'
  BY <1>4, SmeltOpenDurable, ClientServer, ServerDurable DEF Typed
<1>5. ASSUME NEW c \in Conn, NEW p \in Pos, OpenContainer(c, p) PROVE Durable'
  BY <1>5, OpenDurable
<1>6. ASSUME NEW p \in Pos, BreakContainer(p) \/ SmeltStored(p) PROVE Durable'
  BY <1>6, BreakDurable, SmeltStoredDurable
<1>7. ASSUME NEW p \in Pos, NEW kind \in Kinds, PlaceContainer(p, kind) PROVE Durable'
  BY <1>7, PlaceDurable
<1>8. ASSUME NEW c \in Conn, NEW i \in Items, PickUp(c, i) PROVE Durable'
  BY <1>8, PickUpDurable
<1> QED BY <1>1, <1>2, <1>3, <1>4, <1>5, <1>6, <1>7, <1>8 DEF Next

\* Durable always holds.
THEOREM AlwaysDurable == Spec => []Durable
<1>1. Init => Durable
  BY InitDurable
<1>2. Typed /\ Durable /\ [Next]_vars => Durable'
  BY NextDurable
<1> QED BY <1>1, <1>2, AlwaysTyped, PTL DEF Spec

\* Durable gives KeptDurable.
LEMMA DurableKeeps == Durable => KeptDurable
<1> SUFFICES ASSUME Durable, NEW c \in Conn, life[c] = "on"
             PROVE  /\ \A x \in InvCells \ {"result"} : file[c].inv[x] = inv[c][x]
                    /\ file[c].ender = ender[c]
                    /\ win[c].kind = "ender" => win[c].box["in"] = ender[c]
                    /\ win[c].kind = "chest" /\ win[c].pos \notin shared =>
                         be[win[c].pos] = win[c].box
  BY DEF KeptDurable
<1>1. Saved(c) /\ Backed(c)
  BY DEF Durable
<1>2. InvCells \ {"result"} = Kept
  BY CellsAre
<1> QED BY <1>1, <1>2, StoredAre DEF Saved, SavedIn, Backed, BackedBy

\* The player files and the containers agree with what the players have.
THEOREM KeptDurableCorrect == Spec => []KeptDurable
BY AlwaysDurable, DurableKeeps, PTL
=============================================================================
