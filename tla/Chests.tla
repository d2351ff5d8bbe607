------------------------------- MODULE Chests -------------------------------
(***************************************************************************)
(* The contents of one chest between its chunk, its file and its viewer:   *)
(* the store of block entities (world.c), which outlives the chunk, the    *)
(* copy a player has open, which outlives the chunk too (no movement, no   *)
(* eviction closes a window), and the worker that decodes the saved        *)
(* contents straight into the store while the tick thread uses it.         *)
(*                                                                         *)
(* Contents are a number of goods; None is no entity.  The store is one    *)
(* hash table without a lock: when a put or remove of one thread overlaps  *)
(* a put of the other, which may reallocate the table, either may be lost. *)
(***************************************************************************)
EXTENDS Naturals

CONSTANTS
    Total,      \* goods in this world
    NoEntity    \* no block entity

ASSUME ChestsAssumption == Total \in Nat /\ NoEntity \notin Nat

VARIABLES
    loaded,   \* the chunk: "absent", "loading" or "ready"
    here,     \* the block at the position, of a ready chunk
    unsaved,  \* chunk->dirty
    late,     \* the write that waits for the chunk, or "none"
    onDisk,   \* [block, goods]: the chunk file
    entity,   \* the store's entry for the position
    window,   \* the viewer's active window
    closing,  \* the viewer's connection is closing
    goods,    \* what the viewer carries
    ground,   \* goods lying around
    worker,   \* the load of this chunk: "none", "decoding" or "done"
    elsewhere,\* a worker is putting an entity of another chunk
    overlap   \* the tick thread used the store during the put of "decoding"

chestVars == <<loaded, here, unsaved, late, onDisk, entity, window, closing, goods,
               ground, worker, elsewhere, overlap>>

Blocks == {"air", "chest", "stone"}
Count(e) == IF e = NoEntity THEN 0 ELSE e
Shut == [open |-> FALSE, dirty |-> FALSE]
Shown(n, dirty) == [open |-> TRUE, dirty |-> dirty, goods |-> n]
-----------------------------------------------------------------------------
(* Steps of the handlers.                                                  *)

\* mc_world_get_chunk, whoever asks: an absent chunk is requested.
Asked == loaded' = IF loaded = "absent" THEN "loading" ELSE loaded

\* mc_be_store_put and mc_be_store_remove by the tick thread.
Stores(e) ==
    /\ entity' \in {e} \cup IF elsewhere THEN {entity} ELSE {}
    /\ overlap' = (overlap \/ worker = "decoding")

\* mc_chunk_store_write: the entity goes with its block only.
Encoded(block, e) == [block |-> block, goods |-> IF block = "chest" THEN e ELSE NoEntity]
Writes(ok, block) ==
    /\ unsaved' = ~ok
    /\ IF ok THEN \E e \in {entity'} \cup IF elsewhere THEN {NoEntity} ELSE {} :
                     onDisk' = Encoded(block, e)
             ELSE UNCHANGED onDisk

\* save_active_window of a copy that is dirty: without its chunk it fails, over
\* another block it keeps nothing.
Puts(n, ok) ==
    /\ loaded = "ready" /\ here = "chest"
    /\ Stores(n) /\ Writes(ok, here)
    /\ UNCHANGED loaded
PutsNothing ==
    /\ \/ loaded # "ready" /\ Asked /\ UNCHANGED unsaved
       \/ loaded = "ready" /\ here # "chest" /\ unsaved' = TRUE /\ UNCHANGED loaded
    /\ UNCHANGED <<entity, overlap, onDisk>>
-----------------------------------------------------------------------------
(* The viewer.                                                             *)

\* try_open_target_container: a chest without an entity gets an empty one,
\* which does not make the chunk dirty.
OpenChest ==
    /\ ~closing /\ ~window.open
    /\ loaded = "ready" /\ here = "chest"
    /\ IF entity = NoEntity THEN Stores(0) ELSE UNCHANGED <<entity, overlap>>
    /\ window' = Shown(Count(entity), FALSE)
    /\ UNCHANGED <<loaded, here, unsaved, late, onDisk, closing, goods, ground, worker, elsewhere>>

\* handle_window_click: n goods are left in the copy, the others are the
\* viewer's; an error closes the connection.
ClickChest(n, ok) ==
    /\ ~closing /\ window.open
    /\ n # window.goods /\ n <= window.goods + goods
    /\ goods' = goods + window.goods - n
    /\ \/ Puts(n, ok) /\ window' = Shown(n, ~ok) /\ closing' = ~ok
       \/ /\ PutsNothing
          /\ window' = Shown(n, TRUE)
          /\ closing' = (loaded # "ready")
    /\ UNCHANGED <<here, late, ground, worker, elsewhere>>

\* close_active_window of a connection that stays: one that cannot save closes
\* and keeps its window.
CloseChest(ok) ==
    /\ ~closing /\ window.open
    /\ \/ /\ ~window.dirty
          /\ Asked /\ window' = Shut
          /\ UNCHANGED <<unsaved, onDisk, entity, overlap, closing>>
       \/ /\ window.dirty /\ Puts(window.goods, ok)
          /\ window' = (IF ok THEN Shut ELSE window) /\ closing' = ~ok
       \/ /\ window.dirty /\ PutsNothing
          /\ window' = (IF loaded = "ready" THEN Shut ELSE window)
          /\ closing' = (loaded # "ready")
    /\ UNCHANGED <<here, late, goods, ground, worker, elsewhere>>

Hangs ==
    /\ ~closing
    /\ closing' = TRUE
    /\ UNCHANGED <<loaded, here, unsaved, late, onDisk, entity, window, goods, ground, worker,
                   elsewhere, overlap>>

\* proto_play_conn_cleanup: the last try to save the copy; the player comes
\* back with what he carried.
CleansUp(ok) ==
    /\ closing
    /\ closing' = FALSE /\ window' = Shut
    /\ \/ /\ window.dirty
          /\ Puts(window.goods, ok) \/ PutsNothing
       \/ ~window.dirty /\ UNCHANGED <<loaded, unsaved, onDisk, entity, overlap>>
    /\ UNCHANGED <<here, late, goods, ground, worker, elsewhere>>

PicksUp ==
    /\ ground > 0 /\ ~closing
    /\ goods' = goods + ground /\ ground' = 0
    /\ UNCHANGED <<loaded, here, unsaved, late, onDisk, entity, window, closing, worker,
                   elsewhere, overlap>>
-----------------------------------------------------------------------------
(* Anybody, on the tick thread.                                            *)

\* break_container_block: the copy of an open window falls, or the entity.
\* When the flush fails, the block is gone and nothing falls.
Falls(n) == IF window.open /\ ~closing THEN window.goods ELSE n
BreakBlock(ok) ==
    /\ loaded = "ready" /\ here # "air"
    /\ here' = "air"
    /\ Stores(NoEntity) /\ Writes(ok, "air")
    /\ ground' = IF here = "chest" /\ ok THEN ground + Falls(Count(entity)) ELSE ground
    /\ window' = IF here = "chest" /\ window.open /\ ~closing THEN Shut ELSE window
    /\ UNCHANGED <<loaded, late, closing, goods, worker, elsewhere>>

\* The end of USE_ITEM_ON: in a chunk that is not ready every block is air
\* and the write waits, with no entity.
PlaceBlock(block, ok) ==
    /\ \/ /\ loaded = "ready" /\ here = "air"
          /\ here' = block
          /\ IF block = "chest" THEN Stores(0) /\ Writes(ok, block)
             ELSE unsaved' = TRUE /\ UNCHANGED <<entity, overlap, onDisk>>
          /\ UNCHANGED <<loaded, late>>
       \/ /\ loaded # "ready"
          /\ Asked /\ late' = block
          /\ UNCHANGED <<here, unsaved, onDisk, entity, overlap>>
    /\ UNCHANGED <<window, closing, goods, ground, worker, elsewhere>>

\* A container of another chunk is put or removed.
UsesStore ==
    /\ worker = "decoding" /\ ~overlap
    /\ overlap' = TRUE
    /\ UNCHANGED <<loaded, here, unsaved, late, onDisk, entity, window, closing, goods, ground,
                   worker, elsewhere>>
-----------------------------------------------------------------------------
(* The chunk: the tick thread saves, evicts and integrates, a worker loads. *)

Autosave(ok) ==
    /\ loaded = "ready" /\ unsaved
    /\ entity' = entity
    /\ Writes(ok, here)
    /\ UNCHANGED <<loaded, here, late, window, closing, goods, ground, worker, elsewhere, overlap>>

\* Mutant: a chunk that could not be saved goes all the same.
EvictUnsaved ==
    /\ loaded = "ready"
    /\ loaded' = "absent" /\ here' = "air" /\ unsaved' = FALSE
    /\ UNCHANGED <<late, onDisk, entity, window, closing, goods, ground, worker,
                   elsewhere, overlap>>

\* chunk_map_remove_key: the entity stays in the store.
EvictChunk ==
    /\ loaded = "ready" /\ ~unsaved
    /\ loaded' = "absent" /\ here' = "air"
    /\ UNCHANGED <<unsaved, late, onDisk, entity, window, closing, goods, ground, worker,
                   elsewhere, overlap>>

AskChunk ==
    /\ loaded = "absent"
    /\ Asked
    /\ UNCHANGED <<here, unsaved, late, onDisk, entity, window, closing, goods, ground, worker,
                   elsewhere, overlap>>

DecodeBegins ==
    /\ loaded = "loading" /\ worker = "none"
    /\ worker' = "decoding" /\ overlap' = FALSE
    /\ UNCHANGED <<loaded, here, unsaved, late, onDisk, entity, window, closing, goods, ground,
                   elsewhere>>

\* mc_anvil_decode_chunk_nbt has put what the file has.
DecodeEnds ==
    /\ worker = "decoding"
    /\ worker' = "done"
    /\ IF onDisk.goods = NoEntity THEN UNCHANGED entity
       ELSE entity' \in {onDisk.goods} \cup IF overlap THEN {entity} ELSE {}
    /\ UNCHANGED <<loaded, here, unsaved, late, onDisk, window, closing, goods, ground,
                   elsewhere, overlap>>

IntegrateChunk ==
    /\ worker = "done"
    /\ worker' = "none" /\ overlap' = FALSE
    /\ loaded' = "ready"
    /\ here' = IF late = "none" THEN onDisk.block ELSE late
    /\ unsaved' = (late # "none")
    /\ late' = "none"
    /\ UNCHANGED <<onDisk, entity, window, closing, goods, ground, elsewhere>>

OtherLoad ==
    /\ elsewhere' = ~elsewhere
    /\ UNCHANGED <<loaded, here, unsaved, late, onDisk, entity, window, closing, goods, ground,
                   worker, overlap>>

\* The server starts with the file of a world that may have been played in: what
\* is not in the chest the viewer carries.
ChestsInit ==
    /\ loaded = "absent" /\ here = "air" /\ unsaved = FALSE /\ late = "none"
    /\ \E filed \in 0..Total \cup {NoEntity} :
         /\ onDisk = [block |-> "chest", goods |-> filed]
         /\ goods = Total - Count(filed)
    /\ entity = NoEntity
    /\ window = Shut /\ closing = FALSE
    /\ ground = 0
    /\ worker = "none" /\ elsewhere = FALSE /\ overlap = FALSE

ChestsNext ==
    \/ OpenChest \/ Hangs \/ PicksUp \/ UsesStore \/ EvictChunk \/ AskChunk
    \/ DecodeBegins \/ DecodeEnds \/ IntegrateChunk \/ OtherLoad
    \/ \E ok \in BOOLEAN :
         \/ \E n \in 0..Total : ClickChest(n, ok)
         \/ CloseChest(ok) \/ CleansUp(ok) \/ BreakBlock(ok) \/ Autosave(ok)
         \/ \E block \in {"chest", "stone"} : PlaceBlock(block, ok)

ChestsSpec == ChestsInit /\ [][ChestsNext]_chestVars
-----------------------------------------------------------------------------
ChestsTypeOK ==
    /\ loaded \in {"absent", "loading", "ready"} /\ here \in Blocks
    /\ entity \in 0..Total \cup {NoEntity}
    /\ onDisk.block \in Blocks /\ onDisk.goods \in 0..Total \cup {NoEntity}
    /\ worker # "none" => loaded = "loading"
    /\ unsaved => loaded = "ready"
    /\ window.dirty => window.open

\* What is there and what the next viewer finds in it, through a reload when
\* there is one.
There == IF loaded = "ready" THEN here ELSE IF late # "none" THEN late ELSE onDisk.block
Held ==
    IF There # "chest" THEN 0
    ELSE IF loaded = "ready" \/ worker = "done" \/ onDisk.goods = NoEntity THEN Count(entity)
    ELSE onDisk.goods

Goods == goods + ground + IF window.dirty THEN window.goods ELSE Held

\* The steps at which goods may be made or lost.
\* A put or removal is lost to a worker that puts an entity of another chunk.
LostPut == elsewhere /\ entity' = entity /\ (window' # window \/ here' # here)
\* What the file has does not arrive in the store, which the tick thread used
\* meanwhile; the goods are back when the chunk is evicted before a save.
LostDecode == overlap /\ worker = "decoding" /\ worker' = "done" /\ entity' # onDisk.goods
Reappears == loaded = "ready" /\ loaded' = "absent" /\ onDisk.goods \notin {NoEntity, entity}
\* A copy that could not be saved is given up with its chunk evicted or its block
\* written over, or the block changes under it.
GivenUp == window.dirty /\ ~window'.dirty /\ (loaded # "ready" \/ here # "chest")
Outlived == window.dirty /\ There' # There
\* The flush of a broken block fails.
NotFlushed == here = "chest" /\ here' = "air" /\ unsaved'
\* A block is written into a chunk that is not ready.
Blind == late' \notin {late, "none"}
\* The copy that is clicked or closed is not what is held, one of these having been before.
Outdated == window.open /\ ~window.dirty /\ window' # window /\ window.goods # Held

\* A saved chunk is in its file as it is in memory, and its file has the goods that
\* the store has, unless the store has none.
FileAgrees ==
    /\ loaded = "ready" /\ ~unsaved => onDisk.block = here
    /\ onDisk.goods # NoEntity => onDisk.block = "chest"
    /\ \/ onDisk.goods \in {NoEntity, entity} \/ Count(entity) = 0
       \/ loaded = "ready" /\ unsaved

ContentsStep ==
    \/ Goods' = Goods
    \/ LostPut \/ LostDecode \/ Reappears \/ GivenUp \/ Outlived
    \/ NotFlushed \/ Blind \/ Outdated

\* The file never contradicts the store, and only at those steps are goods made or
\* lost: not by clicks, failed saves, evictions, reloads that put the saved contents
\* over those in memory, breaking and placing again, or viewers who hang or leave,
\* whatever their order.
ContentsKept == [][FileAgrees' /\ ContentsStep]_chestVars
=============================================================================
