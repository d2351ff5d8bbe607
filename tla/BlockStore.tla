----------------------------- MODULE BlockStore -----------------------------
(***************************************************************************)
(* What the chunk world promises its callers, without chunk files, worker  *)
(* threads or queues.  Every block has one value, the last one an accepted *)
(* mc_world_set_block gave it.  A chunk is either shown or not: reading a  *)
(* shown chunk (mc_world_get_block_ready returning 0) gives exactly the    *)
(* stored values, reading any other one answers "not ready" (1).  Chunks   *)
(* may be shown and hidden at any time (loading and eviction are invisible *)
(* otherwise), and a write to a hidden chunk is kept, not refused.         *)
(***************************************************************************)
CONSTANTS Chunks,    \* chunk coordinates
          Locals,    \* block positions inside a chunk
          States,    \* block states
          NotReady   \* the view of a chunk that is not shown

VARIABLES store,     \* store[k][b]: the value the server has accepted
          view       \* view[k]: what a reader sees of chunk k

bsVars == << store, view >>

BSInit ==
    /\ store \in [Chunks -> [Locals -> States]]
    /\ view = [k \in Chunks |-> NotReady]

\* An accepted write: readers of a shown chunk see it at once.
Write(k, b, s) ==
    /\ store' = [store EXCEPT ![k] = [@ EXCEPT ![b] = s]]
    /\ view' = IF view[k] = NotReady THEN view
                                     ELSE [view EXCEPT ![k] = store'[k]]

Show(k) ==
    /\ view[k] = NotReady
    /\ view' = [view EXCEPT ![k] = store[k]]
    /\ UNCHANGED store

Hide(k) ==
    /\ view[k] # NotReady
    /\ view' = [view EXCEPT ![k] = NotReady]
    /\ UNCHANGED store

BSNext ==
    \E k \in Chunks :
        \/ Show(k)
        \/ Hide(k)
        \/ \E b \in Locals, s \in States : Write(k, b, s)

BSSpec == BSInit /\ [][BSNext]_bsVars
=============================================================================
