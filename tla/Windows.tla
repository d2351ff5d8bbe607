------------------------------ MODULE Windows -------------------------------
(***************************************************************************)
(* Windows (play.c): chests, furnaces, crafting tables and ender chests    *)
(* that players open, the clicks their clients propose, and what becomes   *)
(* of the goods when a container is broken, a furnace smelts, a player     *)
(* dies or a connection ends.                                              *)
(*                                                                         *)
(* An open window is a private copy of the container: clicks and smelting  *)
(* change the copy, which goes back to the block entity.  A click carries  *)
(* the cells the client believes it changed, with their new contents, and  *)
(* the server copies them; it recomputes crafting results and furnace      *)
(* moves itself.  Clients are external: they predict, send, and take over  *)
(* whatever full contents the server sends.                                *)
(*                                                                         *)
(* A container has two cells: "in" (storage, grid or furnace input) and    *)
(* "out" (result or furnace output).  One Raw makes one Made, in a grid or *)
(* in a furnace, whose fuel and timers are left out: it may smelt in any   *)
(* tick.  One action is one handler or one step of the tick thread.        *)
(***************************************************************************)
EXTENDS Naturals, Sequences, FiniteSets, SequencesExt

CONSTANTS
    Conn,         \* players who use containers, each with at most one connection
    Pos,          \* positions of container blocks
    Kinds,        \* kinds of container in this world
    Raw, Made,    \* items
    NoItem, NoBox,
    Main,         \* main inventory cells, in the order items are absorbed
    MaxStack,     \* 64 in the code
    Stock,        \* Stock[c]: the stack c owns at first
    Loose,        \* raw items on the ground at first
    Ids,          \* window ids 1..Ids are used in turn
    MaxClicks,    \* bound: packets of a client not handled yet
    MaxGoods,     \* bound: clicks that leave more goods are not handled
    MaxSyncs      \* bound: the server sends to a client with fewer in flight

ASSUME WindowsAssumption ==
    /\ MaxStack \in Nat \ {0} /\ Ids \in Nat \ {0}
    /\ MaxClicks \in Nat /\ MaxGoods \in Nat /\ Loose \in Nat /\ MaxSyncs \in Nat
    /\ Kinds \subseteq {"chest", "furnace", "table", "ender"}
    /\ Raw # Made /\ NoItem \notin {Raw, Made}
    /\ IsFiniteSet(Conn) /\ IsFiniteSet(Pos)
    \* The main cells are different ones, and none of those named below.
    /\ Main \in Seq(STRING) /\ Main # <<>> /\ IsInjective(Main)
    /\ Range(Main) \intersect {"result", "grid", "cursor", "in", "out", "ground", "none"} = {}

VARIABLES
    block,   \* block[p]: the kind of container there, or "air"
    be,      \* be[p]: contents of its block entity, or NoBox
    win,     \* win[c]: c->active_window, with its copy of the container
    lastId,  \* c->next_window_id
    inv,     \* inv[c]: c->player->inventory, the cursor included
    ender,   \* ender[c]: c->player->ender_chest
    file,    \* file[c]: the player file
    ground,  \* items lying in the world, by kind
    life,    \* "on", "closing" or "off"
    dead,    \* connections whose player is dead
    shared,  \* history: containers that several players had copies of at once,
             \* or whose block went under the copy of a closing connection, until
             \* nobody has such a copy any more
    view,    \* external: what the client shows
    clicks,  \* external: packets of the client not handled yet
    syncs,   \* external: packets to the client not received yet
    crossed  \* history: connections where a click and a sync crossed, or a
             \* click was ignored, so that the client may be mistaken

serverVars == <<block, be, win, lastId, inv, ender, file, ground, life, dead,
                shared>>
clientVars == <<view, clicks, syncs, crossed>>
vars == <<serverVars, clientVars>>

Stored == {"chest", "furnace"}  \* kinds whose contents are a block entity
Items == {Raw, Made}
InvCells == {"result", "grid", "cursor"} \union Range(Main)
BoxCells == {"in", "out"}

-----------------------------------------------------------------------------
(* Stacks.  f is a function from cells to stacks.                          *)

Nothing == [item |-> NoItem, n |-> 0]
Stack(i, n) == IF n = 0 THEN Nothing ELSE [item |-> i, n |-> n]
Less(s, k) == Stack(s.item, s.n - k)
Stacks == {Nothing} \union [item: Items, n: 1..MaxStack]
Lower(a, b) == IF a < b THEN a ELSE b
\* The cells of f, and those of g that f does not have.
Over(f, g) ==
    [x \in DOMAIN f \union DOMAIN g |-> IF x \in DOMAIN f THEN f[x] ELSE g[x]]

ASSUME GoodsAssumption ==
    Stock \in [Conn -> Stacks] /\ NoBox \notin [BoxCells -> Stacks]

\* Mistake: a stack may grow without bound.
RoomUnbounded(s, t) == IF s = Nothing \/ s.item = t.item THEN t.n ELSE 0

\* How much of stack t fits into a cell that holds s.
Room(s, t) ==
    CASE s = Nothing -> Lower(t.n, MaxStack)
      [] s # Nothing /\ s.item = t.item -> Lower(t.n, MaxStack - s.n)
      [] OTHER -> 0

\* f after at most k items went from cell x to cell y.
Move(f, x, y, k) ==
    LET m == Lower(k, Room(f[y], f[x]))
    IN IF m = 0 THEN f
       ELSE [f EXCEPT ![x] = Less(@, m), ![y] = Stack(f[x].item, @.n + m)]
MoveAll(f, x, y) == Move(f, x, y, MaxStack)

\* f after the main inventory absorbed cell x: stacks of its kind first, then
\* empty cells.
Absorb(f, x) ==
    LET Merge(g, y) == IF f[y] = Nothing THEN g ELSE MoveAll(g, x, y)
        Fill(g, y) == IF g[y] = Nothing THEN MoveAll(g, x, y) ELSE g
    IN FoldLeft(Fill, FoldLeft(Merge, f, Main), Main)

Recipe(s) == IF s.item = Raw THEN Stack(Made, 1) ELSE Nothing

\* Crafting with result cell r and grid cell g.
WithResult(f, r, g) == [f EXCEPT ![r] = Recipe(f[g])]
Take(f, r, g) ==
    LET h == [f EXCEPT ![r] = Recipe(f[g])]
    IN IF h[r] = Nothing \/ Room(f["cursor"], h[r]) = 0 THEN h
       ELSE WithResult([MoveAll(h, r, "cursor") EXCEPT ![g] = Less(@, 1)], r, g)
CraftToMain(f, r, g) ==
    LET Craft(h, i) ==
            LET a == Absorb(WithResult(h, r, g), r)
            IN IF Recipe(h[g]) = Nothing \/ a[r] # Nothing THEN h
               ELSE [a EXCEPT ![g] = Less(@, 1)]
    IN WithResult(FoldLeft(Craft, f, [i \in 1..MaxStack |-> i]), r, g)

\* A shift-click on cell x of a furnace window.
FurnaceMove(f, x) ==
    CASE x \in BoxCells -> Absorb(f, x)
      [] x \notin BoxCells /\ f[x].item = Raw -> MoveAll(f, x, "in")
      [] OTHER -> f

\* A furnace that finishes an item, if it can.
Smelted(b) ==
    LET made == Recipe(b["in"])
    IN IF made = Nothing \/ Room(b["out"], made) = 0 THEN b
       ELSE [in |-> Less(b["in"], 1), out |-> Stack(Made, b["out"].n + 1)]

-----------------------------------------------------------------------------
(* Windows, what is sent about them, and what is on the ground.            *)

EmptyInv == [x \in InvCells |-> Nothing]
EmptyBox == [x \in BoxCells |-> Nothing]
Closed == [id |-> 0, kind |-> "none", pos |-> NoBox, box |-> EmptyBox,
           dirty |-> FALSE]
Open(c) == win[c].id # 0
Cells(c) == Over(inv[c], win[c].box)

\* Connections, closing ones included, with a copy of the contents at p.
Users(p) == {d \in Conn : win[d].pos = p /\ win[d].kind \in Stored}
\* The windows or the blocks changed: what is shared from now on.
Sharing ==
    shared' = {p \in Pos : /\ Users(p)' # {}
                           /\ \/ p \in shared \/ block'[p] = "air"
                              \/ \E c, d \in Users(p)' : c # d}

\* Connections in play with a window on that kind at p.
Viewers(p, kind) ==
    {c \in Conn : life[c] = "on" /\ Open(c)
                  /\ win[c].pos = p /\ win[c].kind = kind}

\* Full contents of window id; window 0 is the player's own.
Contents(id, f) ==
    [type |-> "contents", id |-> id, cells |->
        IF id = 0 THEN Restrict(f, InvCells)
        ELSE Restrict(f, BoxCells \union {"cursor"} \union Range(Main))]
\* A window opens, with its contents.
Opened(id, kind, f) ==
    [type |-> "open", id |-> id, kind |-> kind, cells |-> Contents(id, f).cells]
CloseIt(id) == [type |-> "close", id |-> id]

IsClick(m) == m.type = "click"
Waiting(c) == \E i \in 1..Len(clicks[c]) : IsClick(clicks[c][i])

\* The server sends sent[d] to every client d, when rest is what it has not
\* handled of their packets.
Send(rest, sent) ==
    /\ \A d \in Conn : sent[d] # <<>> => Len(syncs[d]) < MaxSyncs
    /\ clicks' = rest
    /\ syncs' = [d \in Conn |-> syncs[d] \o sent[d]]
    /\ crossed' = crossed \union {d \in Conn :
         sent[d] # <<>> /\ \E i \in 1..Len(rest[d]) : IsClick(rest[d][i])}
    /\ UNCHANGED view
SendTo(c, rest, ms) ==
    Send(rest, [d \in Conn |-> IF d = c THEN ms ELSE <<>>])

\* Ground g after the stacks in cells S of f fell.
Fallen(g, f, S) ==
    [i \in Items |-> g[i] + SumFunctionOnSet(
        [x \in S |-> IF f[x].item = i THEN f[x].n ELSE 0], S)]

\* Mistake: the file is written before the player is changed.
SaveFirst(c, f, e) ==
    /\ inv' = [inv EXCEPT ![c] = Restrict(f, InvCells)]
    /\ ender' = [ender EXCEPT ![c] = e]
    /\ file' = [file EXCEPT ![c] = [inv |-> inv[c], ender |-> ender[c]]]

\* The player c now owns the inventory f and the ender chest stack e, and its
\* file is written.
Save(c, f, e) ==
    /\ inv' = [inv EXCEPT ![c] = Restrict(f, InvCells)]
    /\ ender' = [ender EXCEPT ![c] = e]
    /\ file' = [file EXCEPT ![c] = [inv |-> Restrict(f, InvCells), ender |-> e]]

\* f when grid cell g went back to the inventory; what is left in g falls.
Returned(f, r, g) == Absorb([f EXCEPT ![r] = Nothing], g)

\* Mistake: what fell to the ground also stays.
EmptiedNever(f, S) == f
\* f without the stacks in cells S.
Emptied(f, S) == [x \in DOMAIN f |-> IF x \in S THEN Nothing ELSE f[x]]

\* save_active_window: block entities b after window w was written back.
WrittenBack(w, b) ==
    IF w.dirty /\ block[w.pos] \in Stored THEN [b EXCEPT ![w.pos] = w.box]
    ELSE b

\* Mistake: a table's grid goes back without the inventory being sent.
LeaveSilent(c, b) ==
    IF win[c].kind = "table"
    THEN LET f == Returned(Cells(c), "out", "in")
         IN [inv |-> Restrict(WithResult(f, "result", "grid"), InvCells),
             ground |-> Fallen(ground, f, {"in"}), be |-> b, sent |-> <<>>]
    ELSE [inv |-> inv[c], ground |-> ground, be |-> WrittenBack(win[c], b),
          sent |-> <<>>]

\* close_active_window: the inventory of c, the ground and the block entities
\* after its window is closed, and what is sent.
Leave(c, b) ==
    IF win[c].kind = "table"
    THEN LET f == Returned(Cells(c), "out", "in")
             g == WithResult(f, "result", "grid")
         IN [inv |-> Restrict(g, InvCells), ground |-> Fallen(ground, f, {"in"}),
             be |-> b, sent |-> <<Contents(0, g)>>]
    ELSE [inv |-> inv[c], ground |-> ground, be |-> WrittenBack(win[c], b),
          sent |-> <<>>]

-----------------------------------------------------------------------------
Init ==
    /\ block \in [Pos -> Kinds]
    /\ be = [p \in Pos |-> NoBox]
    /\ win = [c \in Conn |-> Closed] /\ lastId = [c \in Conn |-> Ids]
    /\ inv = [c \in Conn |-> EmptyInv] /\ ender = [c \in Conn |-> Nothing]
    /\ file = [c \in Conn |-> [inv |-> [EmptyInv EXCEPT ![Main[1]] = Stock[c]],
                                ender |-> Nothing]]
    /\ ground = [i \in Items |-> IF i = Raw THEN Loose ELSE 0]
    /\ life = [c \in Conn |-> "off"] /\ dead = {} /\ shared = {}
    /\ view = [c \in Conn |-> [id |-> 0, kind |-> "none",
                                cells |-> Over(EmptyInv, EmptyBox)]]
    /\ clicks = [c \in Conn |-> <<>>] /\ syncs = [c \in Conn |-> <<>>]
    /\ crossed = {}

-----------------------------------------------------------------------------
(* Sessions.                                                               *)

\* The player joins: its file is read and its inventory sent.
Join(c) ==
    /\ life[c] = "off"
    /\ life' = [life EXCEPT ![c] = "on"]
    /\ LET f == WithResult(file[c].inv, "result", "grid")
       IN /\ inv' = [inv EXCEPT ![c] = f]
          /\ ender' = [ender EXCEPT ![c] = file[c].ender]
          /\ syncs' = [syncs EXCEPT ![c] = <<Contents(0, f)>>]
    /\ UNCHANGED <<block, be, win, lastId, file, ground, dead, shared, view,
                   clicks, crossed>>

\* The connection is given up: nothing of the client is handled any more.
Disconnect(c) ==
    /\ life[c] = "on"
    /\ life' = [life EXCEPT ![c] = "closing"]
    /\ clicks' = [clicks EXCEPT ![c] = <<>>]
    /\ syncs' = [syncs EXCEPT ![c] = <<>>]
    /\ view' = [view EXCEPT ![c] =
         [id |-> 0, kind |-> "none", cells |-> Over(EmptyInv, EmptyBox)]]
    /\ crossed' = crossed \ {c}
    /\ UNCHANGED <<block, be, win, lastId, inv, ender, file, ground, dead, shared>>

\* The connection is freed: its window is closed, its grid returned, its
\* player saved.
Cleanup(c) ==
    /\ life[c] = "closing"
    /\ life' = [life EXCEPT ![c] = "off"]
    /\ LET left == Leave(c, be)
           f == Returned(left.inv, "result", "grid")
           saved == Emptied(f, {"grid"})
       IN /\ be' = left.be
          /\ ground' = Fallen(left.ground, f, {"grid"})
          /\ file' = [file EXCEPT ![c] = [inv |-> saved, ender |-> ender[c]]]
    /\ inv' = [inv EXCEPT ![c] = EmptyInv]
    /\ ender' = [ender EXCEPT ![c] = Nothing]
    /\ win' = [win EXCEPT ![c] = Closed]
    /\ lastId' = [lastId EXCEPT ![c] = Ids]
    /\ dead' = dead \ {c}
    /\ UNCHANGED <<block, clientVars>>
    /\ Sharing

-----------------------------------------------------------------------------
(* Containers.                                                             *)

\* c has nothing else in flight and shows no window: its next packet acts on
\* the block at p.
Acts(c) ==
    /\ life[c] = "on" /\ c \notin dead
    /\ clicks[c] = <<>> /\ view[c].id = 0

\* try_open_target_container: the copy is made before the window c may still
\* have is closed.
OpenContainer(c, p) ==
    /\ Acts(c) /\ block[p] # "air"
    /\ LET stored == block[p] \in Stored
           fresh == stored /\ be[p] = NoBox
           left == Leave(c, IF fresh THEN [be EXCEPT ![p] = EmptyBox] ELSE be)
           box == CASE stored /\ ~fresh -> be[p]
                    [] block[p] = "ender" -> [EmptyBox EXCEPT !["in"] = ender[c]]
                    [] OTHER -> EmptyBox
           id == (lastId[c] % Ids) + 1
       IN /\ be' = left.be
          /\ ground' = left.ground
          /\ IF win[c].kind \in {"table", "ender"}
             THEN Save(c, left.inv, ender[c])
             ELSE UNCHANGED <<inv, ender, file>>
          /\ win' = [win EXCEPT ![c] = [id |-> id, kind |-> block[p], pos |-> p,
                                        box |-> box, dirty |-> FALSE]]
          /\ lastId' = [lastId EXCEPT ![c] = id]
          /\ SendTo(c, clicks, left.sent \o
                <<Opened(id, block[p], Over(left.inv, box))>>)
    /\ UNCHANGED <<block, life, dead>>
    /\ Sharing

\* break_container_block, by a player of Conn or another: the contents of a
\* viewer's copy, or of the block entity, fall, and the viewers' windows are
\* closed without a save.  A table falls through to the path of plain blocks,
\* which closes no window.
BreakContainer(p) ==
    /\ block[p] # "air"
    /\ LET shut == IF block[p] = "table" THEN {} ELSE Viewers(p, block[p])
           copies == CASE block[p] \notin Stored -> {EmptyBox}
                       [] block[p] \in Stored /\ shut # {} ->
                            {win[d].box : d \in shut}
                       [] OTHER -> {IF be[p] = NoBox THEN EmptyBox ELSE be[p]}
       IN /\ \E box \in copies : ground' = Fallen(ground, box, BoxCells)
          /\ win' = [d \in Conn |-> IF d \in shut THEN Closed ELSE win[d]]
          /\ Send(clicks, [d \in Conn |->
                IF d \in shut THEN <<CloseIt(win[d].id)>> ELSE <<>>])
    /\ block' = [block EXCEPT ![p] = "air"]
    /\ be' = [be EXCEPT ![p] = NoBox]
    /\ UNCHANGED <<lastId, inv, ender, file, life, dead>>
    /\ Sharing

\* A container is placed, by anybody, with an empty block entity.
PlaceContainer(p, kind) ==
    /\ block[p] = "air"
    /\ block' = [block EXCEPT ![p] = kind]
    /\ be' = [be EXCEPT ![p] = IF kind \in Stored THEN EmptyBox ELSE NoBox]
    /\ UNCHANGED <<win, lastId, inv, ender, file, ground, life, dead, shared,
                   clientVars>>

-----------------------------------------------------------------------------
(* All the goods there are.                                                *)

OfPlayer(f, e) ==
    f["grid"].n + f["cursor"].n + e.n
    + FoldLeft(LAMBDA n, x : n + f[x].n, 0, Main)
InBox(b) == b["in"].n + b["out"].n
Goods(c) ==
    CASE life[c] = "off" -> OfPlayer(file[c].inv, file[c].ender)
      [] life[c] # "off" /\ win[c].kind = "table" ->
            OfPlayer(inv[c], ender[c]) + win[c].box["in"].n
      [] OTHER -> OfPlayer(inv[c], ender[c])
Held(p) ==
    LET users == Viewers(p, block[p])
    IN CASE block[p] \notin Stored -> 0
         [] block[p] \in Stored /\ users # {} ->
              InBox(win[CHOOSE c \in users : TRUE].box)
         [] OTHER -> IF be[p] = NoBox THEN 0 ELSE InBox(be[p])
Total ==
    MapThenSumSet(Goods, Conn) + MapThenSumSet(Held, Pos)
    + ground[Raw] + ground[Made]

-----------------------------------------------------------------------------
(* Packets about windows.                                                  *)

Rest(c) == [clicks EXCEPT ![c] = Tail(@)]

\* Packet m concerns the player's own window, or the one that is open now.
Current(c, m) == m.id = 0 \/ (Open(c) /\ m.id = win[c].id)

\* The crafting cells of window id; it may have none.
ResultCell(c, id) ==
    CASE id = 0 -> "result"
      [] id # 0 /\ win[c].kind = "table" -> "out"
      [] OTHER -> "none"
GridCell(c, id) == IF id = 0 THEN "grid" ELSE "in"

\* A click on window id left f: an open container is saved if it is dirty, the
\* player is saved, and the contents of the window are sent.
Clicked(c, id, f, dirty) ==
    LET w == [win[c] EXCEPT !.box = Restrict(f, BoxCells), !.dirty = dirty]
    IN /\ IF id = 0 THEN UNCHANGED <<win, be>>
          ELSE /\ be' = WrittenBack(w, be)
               /\ win' = [win EXCEPT ![c] =
                    [w EXCEPT !.dirty = dirty /\ block[w.pos] \notin Stored]]
       /\ Save(c, f, IF id # 0 /\ w.kind = "ender" THEN f["in"] ELSE ender[c])
       /\ SendTo(c, Rest(c), <<Contents(id, f)>>)
       /\ UNCHANGED <<block, lastId, life, dead, shared>>

\* A result is thrown: refused, and the contents sent again.
ThrowResult(c, m) ==
    /\ m.mode = "throw" /\ m.cell = ResultCell(c, m.id)
    /\ SendTo(c, Rest(c), <<Contents(m.id, Cells(c))>>)
    /\ UNCHANGED serverVars

\* A result is picked up or shift-clicked: the server crafts.
TakeResult(c, m) ==
    LET r == ResultCell(c, m.id)
        g == GridCell(c, m.id)
    IN /\ m.mode \in {"pickup", "quick"} /\ m.cell = r
       /\ Clicked(c, m.id, IF m.mode = "pickup" THEN Take(Cells(c), r, g)
                           ELSE CraftToMain(Cells(c), r, g), FALSE)
       /\ UNCHANGED ground

\* A shift-click in a furnace window: the server moves the stack.
MovesInFurnace(c, m) == m.mode = "quick" /\ m.id # 0 /\ win[c].kind = "furnace"
MoveInFurnace(c, m) ==
    /\ MovesInFurnace(c, m)
    /\ LET f == FurnaceMove(Cells(c), m.cell)
       IN IF f = Cells(c)
          THEN /\ SendTo(c, Rest(c), <<Contents(m.id, f)>>)
               /\ UNCHANGED serverVars
          ELSE Clicked(c, m.id, f, TRUE) /\ UNCHANGED ground

\* Any other click: the cells it names are copied, except a result, which is
\* recomputed; what the clicked cell lost falls if it was thrown.
CopyCells(c, m) ==
    /\ m.cell # ResultCell(c, m.id) /\ ~MovesInFurnace(c, m)
    /\ LET r == ResultCell(c, m.id)
           f == Cells(c)
           copied == [x \in DOMAIN f |->
                        IF x \in DOMAIN m.new \ {r} THEN m.new[x] ELSE f[x]]
           g == IF r = "none" THEN copied ELSE WithResult(copied, r, GridCell(c, m.id))
           was == f[m.cell]
           is == g[m.cell]
           fell == IF m.mode = "throw" /\ is.n < was.n /\ is.item \in {was.item, NoItem}
                   THEN Less(was, is.n) ELSE Nothing
       IN /\ Clicked(c, m.id, g, win[c].kind \in Stored /\
               (win[c].dirty \/ DOMAIN m.new \intersect BoxCells # {}))
          /\ ground' = Fallen(ground, [x \in {m.cell} |-> fell], {m.cell})

HandleClick(c) ==
    /\ life[c] = "on" /\ c \notin dead /\ Waiting(c)
    /\ LET m == Head(clicks[c])
       IN /\ IsClick(m) /\ Current(c, m)
          /\ \/ ThrowResult(c, m)
             \/ TakeResult(c, m)
             \/ MoveInFurnace(c, m)
             \/ CopyCells(c, m)
    /\ Total' <= MaxGoods

\* A packet of a dead player, or for a window that is not open any more, is
\* dropped unanswered.
Ignore(c) ==
    /\ life[c] = "on" /\ clicks[c] # <<>>
    /\ LET m == Head(clicks[c])
       IN /\ c \in dead \/ ~Current(c, m)
          /\ crossed' = IF IsClick(m) THEN crossed \union {c} ELSE crossed
    /\ clicks' = Rest(c)
    /\ UNCHANGED <<serverVars, view, syncs>>

\* The player closes its own window (2x2 grid), or the container's.
HandleClose(c) ==
    /\ life[c] = "on" /\ c \notin dead /\ clicks[c] # <<>>
    /\ LET m == Head(clicks[c])
           left == Leave(c, be)
           f == Returned(inv[c], "result", "grid")
           g == Emptied(f, {"grid"})
       IN /\ ~IsClick(m) /\ Current(c, m)
          /\ IF m.id = 0
             THEN /\ ground' = Fallen(ground, f, {"grid"})
                  /\ Save(c, g, ender[c])
                  /\ SendTo(c, Rest(c), <<Contents(0, g)>>)
                  /\ UNCHANGED <<win, be, shared>>
             ELSE /\ ground' = left.ground
                  /\ be' = left.be
                  /\ win' = [win EXCEPT ![c] = Closed]
                  /\ IF win[c].kind \in {"table", "ender"}
                     THEN Save(c, left.inv, ender[c])
                     ELSE UNCHANGED <<inv, ender, file>>
                  /\ SendTo(c, Rest(c), left.sent)
                  /\ Sharing
    /\ UNCHANGED <<block, lastId, life, dead>>

-----------------------------------------------------------------------------
(* The tick thread.                                                        *)

\* tick_open_furnace_container: the copy of a viewer smelts.
SmeltOpen(c) ==
    /\ life[c] = "on" /\ win[c].kind = "furnace"
    /\ LET box == Smelted(win[c].box)
       IN /\ box # win[c].box
          /\ win' = [win EXCEPT ![c].box = box, ![c].dirty = TRUE]
          /\ SendTo(c, clicks, <<Contents(win[c].id, Over(inv[c], box))>>)
    /\ UNCHANGED <<block, be, lastId, inv, ender, file, ground, life, dead, shared>>

\* mc_world_tick_furnaces: a furnace nobody has open smelts.
SmeltStored(p) ==
    /\ block[p] = "furnace" /\ be[p] # NoBox /\ Viewers(p, "furnace") = {}
    /\ be' = [be EXCEPT ![p] = Smelted(be[p])]
    /\ be' # be
    /\ UNCHANGED <<block, win, lastId, inv, ender, file, ground, life, dead,
                   shared, clientVars>>

\* item_entities_tick: a player without a window takes a stack from the ground,
\* or the part of it that it has room for.
PickUp(c, i) ==
    /\ life[c] = "on" /\ c \notin dead /\ ~Open(c) /\ ground[i] > 0
    /\ \E n \in 1..Lower(ground[i], MaxStack) :
         LET f == Absorb(Over(inv[c], [ground |-> Stack(i, n)]), "ground")
             g == WithResult(f, "result", "grid")
         IN /\ f["ground"].n < n
            /\ ground' = [ground EXCEPT ![i] = @ - (n - f["ground"].n)]
            /\ Save(c, g, ender[c])
            /\ SendTo(c, clicks, <<Contents(0, g)>>)
    /\ UNCHANGED <<block, be, win, lastId, life, dead, shared>>

\* handle_player_death: the window is closed, and everything falls.
Die(c) ==
    /\ life[c] = "on" /\ c \notin dead
    /\ dead' = dead \union {c}
    /\ LET left == Leave(c, be)
           f == [left.inv EXCEPT !["result"] = Nothing]
       IN /\ be' = left.be
          /\ ground' = Fallen(left.ground, f, InvCells)
          /\ Save(c, EmptyInv, ender[c])
          /\ SendTo(c, clicks,
                (IF Open(c) THEN <<CloseIt(win[c].id)>> ELSE <<>>)
                \o left.sent \o <<Contents(0, EmptyInv)>>)
    /\ win' = [win EXCEPT ![c] = Closed]
    /\ UNCHANGED <<block, lastId, life>>
    /\ Sharing

\* respawn_player, as far as the inventory goes.
Respawn(c) ==
    /\ life[c] = "on" /\ c \in dead /\ clicks[c] = <<>>
    /\ dead' = dead \ {c}
    /\ LET f == WithResult(inv[c], "result", "grid")
       IN /\ Save(c, f, ender[c])
          /\ SendTo(c, clicks, <<Contents(0, f)>>)
    /\ UNCHANGED <<block, be, win, lastId, ground, life, shared>>

-----------------------------------------------------------------------------
(* The clients (external).                                                 *)

Hidden(v) == [id |-> 0, kind |-> "none",
              cells |-> Over([x \in BoxCells |-> Nothing], v.cells)]

\* A packet of the server arrives; contents of another window are ignored.
Receive(c) ==
    /\ syncs[c] # <<>>
    /\ LET m == Head(syncs[c])
           v == view[c]
       IN view' = [view EXCEPT ![c] =
            CASE m.type = "open" ->
                    [id |-> m.id, kind |-> m.kind, cells |-> Over(m.cells, v.cells)]
              [] m.type = "contents" /\ m.id \in {0, v.id} ->
                    [v EXCEPT !.cells = Over(m.cells, @)]
              [] m.type = "close" /\ m.id = v.id -> Hidden(v)
              [] OTHER -> v]
    /\ syncs' = [syncs EXCEPT ![c] = Tail(@)]
    /\ UNCHANGED <<serverVars, clicks, crossed>>

\* The client shows g and proposes it: a click names the cells that change, and
\* in the model also what the client saw there.
Propose(c, mode, x, g) ==
    LET f == view[c].cells
        named == {y \in DOMAIN f : g[y] # f[y]} \union {"cursor"}
    IN /\ clicks' = [clicks EXCEPT ![c] = Append(@,
            [type |-> "click", id |-> view[c].id, mode |-> mode, cell |-> x,
             new |-> Restrict(g, named), seen |-> Restrict(f, named)])]
       /\ view' = [view EXCEPT ![c].cells = g]
       /\ crossed' = IF syncs[c] = <<>> THEN crossed ELSE crossed \union {c}
       /\ UNCHANGED <<serverVars, syncs>>

\* The cells the client can click, and the result among them.
Shown(c) ==
    Range(Main) \union
    CASE view[c].id = 0 -> {"grid"}
      [] view[c].kind = "furnace" -> BoxCells
      [] OTHER -> {"in"}
ShownResult(c) ==
    CASE view[c].id = 0 -> <<"result", "grid">>
      [] view[c].kind = "table" -> <<"out", "in">>
      [] OTHER -> <<>>

\* A click takes a stack or half of it, puts down the cursor or one item of it,
\* or swaps the two.
ClickPickup(c, x) ==
    LET f == view[c].cells
        h == f["cursor"]
    IN \E g \in IF h = Nothing
                 THEN {Move(f, x, "cursor", k) : k \in {f[x].n, (f[x].n + 1) \div 2}}
                 ELSE IF x = "out" THEN {}
                 ELSE IF f[x] # Nothing /\ f[x].item # h.item
                 THEN {[f EXCEPT ![x] = h, !["cursor"] = f[x]]}
                 ELSE {Move(f, "cursor", x, k) : k \in {h.n, 1}} :
         g # f /\ Propose(c, "pickup", x, g)

ClickQuick(c, x) ==
    LET f == view[c].cells
        g == CASE view[c].kind = "furnace" -> FurnaceMove(f, x)
               [] view[c].kind # "furnace" /\ x \in {"in", "grid"} -> Absorb(f, x)
               [] view[c].kind \in {"chest", "ender"} /\ x \in Range(Main) ->
                    MoveAll(f, x, "in")
               [] OTHER -> f
    IN g # f /\ Propose(c, "quick", x, g)

ClickThrow(c, x) ==
    LET f == view[c].cells
    IN /\ f["cursor"] = Nothing /\ f[x] # Nothing
       /\ Propose(c, "throw", x, [f EXCEPT ![x] = Less(@, 1)])

ClickResult(c, mode) ==
    /\ ShownResult(c) # <<>>
    /\ LET f == view[c].cells
           r == ShownResult(c)[1]
           g == ShownResult(c)[2]
       IN /\ f[r] # Nothing
          /\ Propose(c, mode, r,
                CASE mode = "pickup" -> Take(f, r, g)
                  [] mode = "quick" -> CraftToMain(f, r, g)
                  [] OTHER -> f)

\* The player leaves the window it sees, or its own.
CloseScreen(c) ==
    /\ clicks' = [clicks EXCEPT ![c] = Append(@, CloseIt(view[c].id))]
    /\ view' = [view EXCEPT ![c] = Hidden(@)]
    /\ UNCHANGED <<serverVars, syncs, crossed>>

-----------------------------------------------------------------------------
Session(c) == Join(c) \/ Disconnect(c) \/ Cleanup(c) \/ Die(c) \/ Respawn(c)
Handle(c) == HandleClick(c) \/ HandleClose(c) \/ Ignore(c)
Client(c) ==
    \/ Receive(c)
    \/ /\ life[c] = "on" /\ Len(clicks[c]) < MaxClicks
       /\ \/ CloseScreen(c)
          \/ \E x \in Shown(c) :
               ClickPickup(c, x) \/ ClickQuick(c, x) \/ ClickThrow(c, x)
          \/ \E mode \in {"pickup", "quick", "throw"} : ClickResult(c, mode)

Next ==
    \/ \E c \in Conn : Session(c) \/ Handle(c) \/ SmeltOpen(c) \/ Client(c)
    \/ \E c \in Conn, p \in Pos : OpenContainer(c, p)
    \/ \E p \in Pos : BreakContainer(p)
    \/ \E p \in Pos, kind \in Kinds : PlaceContainer(p, kind)
    \/ \E c \in Conn, i \in Items : PickUp(c, i)
    \/ \E p \in Pos : SmeltStored(p)

Spec == Init /\ [][Next]_vars

-----------------------------------------------------------------------------
(* Properties.                                                             *)

Inventories == [InvCells -> Stacks]
Boxes == [BoxCells -> Stacks]

\* Type invariant: stacks stay within MaxStack, a window is open on a kind and
\* a position, and every packet in flight is one of those above.
TypeOK ==
    /\ block \in [Pos -> Kinds \union {"air"}]
    /\ be \in [Pos -> Boxes \union {NoBox}]
    /\ \A c \in Conn :
         \/ win[c] = Closed
         \/ /\ win[c].id \in 1..Ids /\ win[c].kind \in Kinds
            /\ win[c].pos \in Pos /\ win[c].box \in Boxes
            /\ win[c].dirty \in BOOLEAN
    /\ lastId \in [Conn -> 1..Ids]
    /\ inv \in [Conn -> Inventories] /\ ender \in [Conn -> Stacks]
    /\ file \in [Conn -> [inv: Inventories, ender: Stacks]]
    /\ ground \in [Items -> Nat]
    /\ life \in [Conn -> {"on", "closing", "off"}] /\ dead \subseteq Conn
    /\ shared \subseteq Pos
    /\ \A c \in Conn :
         /\ view[c].id \in 0..Ids /\ view[c].cells \in [InvCells \union BoxCells -> Stacks]
         /\ \A i \in DOMAIN clicks[c] : clicks[c][i].type \in {"click", "close"}
         /\ \A i \in DOMAIN syncs[c] : syncs[c][i].type \in {"open", "contents", "close"}
    /\ crossed \subseteq Conn

\* This step copies a click of c that names a cell whose contents are no longer
\* what the client saw.
CopiesStale(c) ==
    /\ life'[c] = "on" /\ Len(clicks'[c]) < Len(clicks[c])
    /\ LET m == Head(clicks[c])
       IN /\ IsClick(m) /\ Current(c, m) /\ c \notin dead
          /\ m.cell # ResultCell(c, m.id) /\ ~MovesInFurnace(c, m)
          /\ \E x \in DOMAIN m.seen : Cells(c)[x] # m.seen[x]

\* This step changes a shared container: its block, its block entity or the
\* window of one of its users.
TouchesShared ==
    \E p \in shared \union shared' :
        \/ be'[p] # be[p] \/ block'[p] # block[p]
        \/ \E c \in Users(p) \union Users(p)' : win'[c] # win[c] \/ life'[c] # life[c]

\* Clicks are "treated as proposals, not trusted facts" (handle_window_click):
\* goods are made or lost only where a stale click is copied, or at a container
\* that several players have open, each with a copy of its own; and by nothing
\* else, whoever opens, clicks, closes, breaks, smelts, crafts, drops, picks up,
\* dies, leaves and comes back, there or elsewhere.
OnlyStaleClicksMakeOrLose ==
    [][Total' = Total \/ TouchesShared \/ \E c \in Conn : CopiesStale(c)]_vars

\* A client that has received everything, and whose clicks were all handled
\* without a message of the server crossing them, shows the window, the
\* inventory, the cursor and the contents that the server has: no handler that
\* changes them forgets to send them.
RestingClientAgrees ==
    \A c \in Conn :
        (/\ life[c] = "on" /\ clicks[c] = <<>> /\ syncs[c] = <<>>
         /\ c \notin crossed)
        => /\ view[c].id = win[c].id
           /\ LET f == Cells(c)
              IN \A x \in InvCells \union (IF Open(c) THEN BoxCells ELSE {}) :
                   view[c].cells[x] = f[x]

\* Between handlers the player files hold what the players have, an ender chest
\* copy is the player's ender chest, and a chest's copy is its block entity,
\* unless several players had a copy (save_player_data, save_active_window).
KeptDurable ==
    \A c \in Conn : life[c] = "on" =>
        /\ \A x \in InvCells \ {"result"} : file[c].inv[x] = inv[c][x]
        /\ file[c].ender = ender[c]
        /\ win[c].kind = "ender" => win[c].box["in"] = ender[c]
        /\ win[c].kind = "chest" /\ win[c].pos \notin shared
             => be[win[c].pos] = win[c].box
=============================================================================
