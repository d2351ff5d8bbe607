----------------------------- MODULE MCEntities -----------------------------
(***************************************************************************)
(* Small servers for TLC.                                                  *)
(***************************************************************************)
EXTENDS Entities

CONSTANTS c1, c2, c3

CONSTANT Budget

\* At most so many players come, go or die and so many items fall.
Quiet ==
    /\ Cardinality({c \in Conn \ Veterans : phase[c] # "none"})
         + Cardinality({c \in Conn : closing[c] \/ (phase[c] # "none" /\ ~Listed(c))})
         + deaths + drops <= Budget
    /\ ~wild

=============================================================================
