----------------------------- MODULE MCWindows ------------------------------
(***************************************************************************)
(* Small instances for TLC.                                                *)
(***************************************************************************)
EXTENDS Windows

CONSTANTS c1, c2, p1

\* One main cell, so that it fills up.
OneCell == <<"hotbar">>
\* The first player has two raw items, the others nothing.
TwoRaw == [c \in Conn |-> IF c = c1 THEN Stack(Raw, 2) ELSE Nothing]

\* Bound: the run goes no further once goods were made or lost, nor once a click
\* that crossed a packet of the server was handled.  What follows is what happens
\* to players who have that many goods there, and no click of theirs under way.
NoAftermath ==
    /\ Total = Stock[c1].n + Loose
    /\ \A c \in crossed : clicks[c] # <<>>
\* Bound: once the second player has joined, one item at most is not on the
\* ground, and the two are at a chest and leave the grids of their inventories
\* alone.
OneAtTheChest ==
    /\ block[p1] \in {"chest", "air"} /\ ground[Raw] >= Total - 1
    /\ \A c \in Conn : /\ {win[c].kind, view[c].kind} \subseteq {"none", "chest"}
                       /\ {view[c].cells["grid"], inv[c]["grid"], ender[c]} = {Nothing}
                       /\ \A x \in InvCells : inv[c][x].item # Made
Bounds ==
    /\ NoAftermath
    /\ \/ life[c2] = "off" /\ file[c2].inv = EmptyInv /\ shared = {}
       \/ OneAtTheChest
\* Bound: the second player joins only while the first is away.
JoinsFirst == life[c2] = "off" /\ life'[c2] = "on" => life[c1] = "off"
=============================================================================
