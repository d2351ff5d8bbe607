----------------------------- MODULE MCStream ------------------------------
(***************************************************************************)
(* Small streams for TLC.  Chunk k2 is in view of one of the two positions *)
(* and outside the simulation distance of both, as the default             *)
(* configuration (view distance 10, simulation distance 8) has it.         *)
(***************************************************************************)
EXTENDS Stream

CONSTANTS k1, k2, here, there, Stone, b1, b2

MCRings == [p \in Centers |-> IF p = here THEN << k1, k2 >> ELSE << k2 >>]
MCKeeps == [p \in Centers |-> IF p = here THEN {k1} ELSE {k2}]
AllAir == {[k \in Chunks |-> [b \in Locals |-> Air]]}
=============================================================================
