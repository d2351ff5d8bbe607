------------------------------ MODULE MCWorld -------------------------------
(***************************************************************************)
(* Small worlds for TLC.  Two block states are runtime states (Air, Stone) *)
(* and one is a legacy state that normalises to Stone.                     *)
(***************************************************************************)
EXTENDS World

CONSTANTS c0, c1, Air, Stone, Legacy

MCNorm == [s \in States |-> IF s = Legacy THEN Stone ELSE s]
MCTerrain == [b \in Locals |-> Air]

\* The files a start may find: each chunk has none or a stored one, c0 in
\* legacy states and c1 in runtime states.
MCFiles == {f \in [Chunks -> {NoFile} \cup [Locals -> {Stone, Legacy}]] :
              f[c0] # [b \in Locals |-> Stone] /\ f[c1] # [b \in Locals |-> Legacy]}
\* The second chunk has a file.
BadFile == {[k \in Chunks |-> IF k = c1 THEN [b \in Locals |-> Stone] ELSE NoFile]}
NoFiles == {[k \in Chunks |-> NoFile]}
=============================================================================
