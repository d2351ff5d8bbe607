------------------------------ MODULE MCConns -------------------------------
(***************************************************************************)
(* Small servers for TLC.                                                  *)
(***************************************************************************)
EXTENDS Conns

CONSTANTS c1, c2, alice

\* One player who may come back.
SameWho == [c \in Conn |-> alice]
\* A login and one packet over c1, a login over the others.
FewFrames == [c \in Conn |-> IF c = c1 THEN 2 ELSE 1]
\* A login over c1, nothing over the others.
LoginOnly == [c \in Conn |-> IF c = c1 THEN 1 ELSE 0]
=============================================================================
