# Verification of the OfwoodCore server

TLA+ models of OfwoodCore, a Minecraft 26.1.1 server in C, with the TLC
configurations that check them on small instances and theorems that TLAPS
proves for all instances. Paths below are relative to the repository.

The models follow the code, not its documentation: each definition names the
code it stands for, and `PROJECT.json` ("map") gives the file and the lines.

## 1. The system

Three kinds of threads (`README.md`, "Architecture"):

* the **network thread** (`net_server_run`, `src/net/server.c`): accept, `recv`,
  framing, a task per packet, closing connections;
* the **tick thread** (`tick_thread_main`), 20 times a second, in this order:
  drain the tasks, world tick, furnaces, capture the block updates, snapshot the
  connections, for each of them broadcast the updates and run
  `proto_play_tick`, item entities, other players, flush the output, release the
  snapshot, eviction (every 20 ticks), clear the updates;
* the **world workers** (`worker_main`, `src/world/world.c`): read or generate
  chunks.

They share the task queue (its own lock), the list of connections (`conns_lock`),
each connection's reference count and output buffer (`out_lock`), the job queue
and the done queue of the world, and, without a lock that covers both sides, the
block-entity store, `next_entity_id` and each viewer's table of other players.

### Inventory

| Component | State it keeps | Operations | Correct when | Modelled in |
|---|---|---|---|---|
| Chunk world (`world/world.c`) | map of chunk entries, `chunk_list`, `save_cursor`, pending writes, job and done queue, block updates | get, set, flush, mark dirty, tick (integrate, autosave), evict, destroy; workers | no accepted write is lost or seen out of order, one load per chunk, only what is saved is evicted | `World` |
| Chunk files (`world/chunk_store.c`) | one file per chunk | read, write | a chunk that is clean in memory equals its file | `World`, `Chests` |
| Chunk stream (`protocol/handlers/play.c`) | per client `pending_chunks`, `sent_chunks`, centre, acknowledgements | rebuild, tick, broadcast, respawn, pong | the client's copy is the world's, or an update is coming; every chunk in view arrives | `Stream` |
| Connections (`net/server.c`, `net/task_queue.c`) | list, reference counts, closing flags, queued tasks, snapshot | accept, read, decode, close, sweep, drain, flush, stop | nothing is used after it is freed, everything is freed, a player's last save precedes its next load | `Conns` |
| Login, configuration, keepalive (`protocol/handlers/*`) | protocol state, what was sent, keepalive | one handler per packet | client and server agree on the protocol state; who answers in time stays | `Session` |
| Windows and containers (`play.c`, `protocol/inventory.c`, `world/container_store.c`) | the window of each client with a *copy* of the container, cursor, crafting grid | open, click, quick move, close | items are neither lost nor doubled | `Windows`, `Chests` |
| Block entities (`world/block_entity_store.c`, `anvil.c`) | a table that outlives the chunks | put, get, remove; decode, encode | contents survive eviction, saves and reloads | `Chests` |
| Hash tables (chunk map, block entities, sent chunks) | open addressing with tombs | put, remove, clear, grow | every key is found, every search ends | `Tables` |
| Furnaces (`gameplay/furnace.c`) | fuel, progress, slots | tick | one fuel, one input, one output per smelt | `Windows`, `Stream`, partly |
| Mining (`gameplay/mining.c`) | digging session | start, abort, stop | a break is allowed only after its time | `Mining` |
| Item use (`play.c`) | the use under way | press, release, tick | food is eaten only after its time | `Eating` |
| Health, hunger, death, respawn (`play.c`) | health, food, timers, fall tracking | damage, regenerate, starve, fall, respawn | health changes for the reason it should | `Survival`, `Falling` |
| Other players, item entities (`play.c`, `net/server.c`) | per viewer a table of players; drops | join, leave, sync, drop, pick up | each client shows those that are there | `Entities` |
| Player files (`world/player_store.c`) | one file per player | load, save | a player finds what it had | `Conns`, `Windows`, partly |
| Framing, VarInt, input buffer (`protocol/framing.c`, `varint.c`, `net/buffer.c`) | bytes read so far | read a frame | packets do not depend on how the bytes are cut | `Framing` |
| Packed sections (`world/paletted_container.c`, `chunk.c`) | palette and packed words | get, set, grow | equal to a plain array | `Sections` |
| Network packing, Anvil and NBT, crafting and drop tables, encryption stub, start-up, generated registry | none, or tables | | | not, see section 6 |

How they meet: packet handlers (tick thread) read and write blocks through the
chunk world and answer the client; a furnace, a placement and a break all end
in `mc_world_set_block`, which queues a block update the tick thread broadcasts;
the stream asks the world for chunks with a priority that falls with distance;
eviction is told by the tick thread which chunks are near a player; freeing a
connection (either thread) saves its player and writes its open container back;
closing one (network thread) takes the player out of the tables the tick thread
shows players from.

What is hard, and listed line by line under "hazards" in `PROJECT.json`:
workers, tick and network thread interleaved; loads racing writes and eviction;
failing and partial file writes; state captured before a loop and used after
turns that change it; copies that outlive what they are copies of; the order of
the broadcast, the acknowledgement and the clearing of updates; packets handled
after what they refer to has changed; timers under settings that others change;
who drops the last reference, and when the player is saved; progress of the
round-robin save, of the chunk queue and of the shutdown.

## 2. Modules

| Module | Models | Theorems |
|---|---|---|
| `BlockStore` | abstract: what the world promises its callers | |
| `World` | `world.c` and `chunk_store.c`; refines `BlockStore` | `WorldProofs` |
| `Stream` | chunk stream, block updates and acknowledgements of `play.c` and of the tick loop in `server.c`; **extends** `BlockStore` | `StreamProofs` |
| `Conns` | connections, tasks and both threads of `server.c`, `task_queue.c` | `ConnsProofs` |
| `Windows` | containers, crafting, clicks, drops and player files of `play.c`, `inventory.c`, `crafting.c`, `furnace.c` | `WindowProofs`, `GoodsProofs` |
| `Entities` | players and items as others see them, between both threads | `EntityProofs` |
| `Session` | one connection from handshake to play, keepalives | `SoloProofs` |
| `Mining` | digging | `SoloProofs` |
| `Eating` | the use of food | `SoloProofs` |
| `Survival` | health, hunger and their timers | `SoloProofs` |
| `Falling` | falls and teleports over the wire | `SoloProofs` |
| `Chests` | a chest's contents between chunk, file, store, worker and viewer | `SoloProofs` |
| `Framing` | bytes to packets | `SoloProofs` |
| `Sections` | one packed chunk section | `SoloProofs` |
| `Tables` | the hash table with tombs | `SoloProofs` |
| `MCWorld`, `MCStream`, `MCConns`, `MCWindows`, `MCEntities`, `MCSolo` | instances for TLC | |

`ListLemmas` has what more than one proof needs about sequences: where a value is
after an append or a removal, that removals keep a list injective, what a rotation keeps;
that sets of numbers have a least element; and induction, over numbers, finite sets and
the steps of a fold, stated for a *set* of the cases done so that the provers can use it.

`World` implements `BlockStore` (a `PROPERTY` of a run, and a theorem), and
`Stream` takes `BlockStore`'s actions for its world. So `Stream` needs no chunk
files and workers, and `World` no clients. `Windows` takes
the block entities and the kind of block at a position as they are, without
chunks; `Chests` is the other half: one chest whose chunk comes and goes. `World`
and `Stream` split the program at `mc_world_get_block_ready` /
`mc_world_set_block` / `mc_world_updates`. `Conns` and `Entities` model the same two
threads, one for the lifetime of connections, the other for what clients are shown.

Definitions that begin with "Mistake:" or "Mutant:" are not used by any
specification. They are variants of the definition that follows them, each a bug
one could write there, kept to see that the properties notice
(`PROJECT.json`, "mutants").

### World

State: `slot`, `chunk`, `pending` are the entry of the chunk map (`map_entry`,
`pending_list`); `chunkList` and `saveCursor` are `chunk_list` and
`save_cursor`; `jobs`, `worker`, `done` are the two queues and the threads;
`updates` the coalesced block updates; `disk` the chunk files; `pc`, `batch`,
`keep`, `scan`, `evicted` say which loop the single-threaded side is in.
`accepted` is a history variable: the value of every block as the callers were
promised it.

A call of the single-threaded side is one action, because only the workers run
beside it; the three loops that workers can overtake (integration, eviction,
destroy) take one step per turn. A worker's steps are pop, read, save again
when the normalisation changed something, push. `WorkerRead` is atomic: nobody
else touches the file of a LOADING chunk. That is itself checked: `OneLoader`,
and `Saved` writes the file a READY chunk names.

Data: a block is a chunk and a local position; states are few, one of them a
legacy state that `mc_world_normalize_container_state_id` rewrites. A chunk
file is an image, missing, or torn. Two sets of chunks have bad files:
`Unreadable` (cannot be opened or inflated: generated anew) and `Undecodable`
(inflates, does not decode: `mc_chunk_destroy` zeroes the chunk, which then
claims to be chunk (0,0); `ChunkObject.at` follows these coordinates).

Left out: block entities, probing of the map (`slot` is a function), allocation
failures, the Anvil fallback (an image may come from there) and profiling.

### Stream

State: the world as `BlockStore` with the queue of updates and the chunks on
their way (`loading`, `waiting`, `leaving`); the place of the tick loop (`pc`,
`captured`, `todo`, `turn`, `near`); per client `pending` and `sent`
(`pending_chunks`, `sent_chunks`), `center`, `ready` (`play_ready`), `acks`;
and `copy`, what the client holds after the packets written so far. `behind` is
history: the blocks for which the code itself gave up on telling a client.

Actions: the packet handlers run in the drain (`Join`, `Confirm`, `Move`,
`Respawn`, `Pong`, `Dig`, `Refuse`, `Place`, and `Command`), the world tick
(`ChunkReady`, `ChunkGone`), the furnaces, `Capture`, then per client
`TurnBegin` (broadcast, acknowledgements), the open furnace (`TurnFurnace`,
`TurnFurnaceGone` when its chunk is not READY, or `TurnNoFurnace`),
`TurnStream` (`rebuild_chunk_stream` when the centre moved) and `StreamOne` per
chunk taken from the queue, then eviction and `Clear`.

Abstractions: the order of the clients in a tick is arbitrary (`todo` is a set;
the list has some order, by age); a connection closes only between turns, not in
the middle of its own; container blocks are not dug or placed; mining sessions,
the dead flag and item counts are not there, so every dig and placement the code
might accept is possible; a packet that cannot be written ends the connection
(`Leave`); `mc_world_updates`' array is captured by its contents, though a
`realloc` during the broadcast could move it (a hazard in the list).

### Conns

One action is what a thread does between two points where the other can see a
difference: a section under `conns_lock`, or one reference taken or dropped.

State: the client's end of the socket (`sock`, `wire`), the connection (`life`,
`refs`, `fd`, `state`, `closing`, `out`), the list `conns`, the task `queue`,
the network thread (`netPc`, the events of this `epoll_wait` in `batch`, packets
read in `input`, connections being closed in `doomed`), the tick thread
(`tickPc`, `tasks`, `snapshot`, `turns`), and what saving is about: the player's
data, its file, its open container. Data is the set of sessions whose play it
includes, which is enough to tell a lost save.

`conn_release` runs on either thread; the last one calls `conn_destroy`, hence
`proto_play_conn_cleanup`. `closing` is written by both threads.

Abstractions: all packets up to FINISH_CONFIGURATION are one "join"; a handler
that fails is "bad", a frame that cannot be decoded "garbled"; other players and
item entities are not there; one `epoll_wait` reports every readable connection
(the code takes 64 at a time, the others the next time), in the order in
which they became ready, as the FIFO ready list of Linux' epoll has it (`Foremost`: the
end of a client is handled before the packets of a session that client began later); the connection being
read does not stop in the middle; allocation does not fail on the network
thread. `net_server_stop` is an action although nothing in the repository calls
it: a failing `epoll_wait` has the same effect.

### Windows

State: `block` and `be` are a container's block and its block entity (`NoBox`
if it has none); `win` is `c->active_window` with its copy of the container and
the dirty flag, `lastId` is `next_window_id`; `inv` holds the slots and the
cursor of `c->player->inventory`, `ender` its ender chest, `file` the player
file; `ground` counts the items that lie in the world; `life` and `dead` are the
connection's. What the client shows (`view`), its unhandled packets (`clicks`)
and the packets on their way to it (`syncs`) are external.

Actions: `OpenContainer` (`try_open_target_container`), `BreakContainer`,
`PlaceContainer`, `HandleClick` with the paths of `handle_window_click` as
disjuncts (`ThrowResult`, `TakeResult`, `MoveInFurnace`, `CopyCells`),
`HandleClose`, `Ignore` (a packet dropped unanswered), `SmeltOpen` and
`SmeltStored` (the furnace tick on a viewer's copy or on the block entity),
`PickUp`, `Die`, `Respawn`, `Join`, `Disconnect`, `Cleanup`. Each includes the
save and the packets its handler ends with. What a stack does when it is moved,
absorbed, crafted or returned is an operator on functions from cells to stacks.

A click carries the cells the client changed with their new contents. In the
model it also carries what the client saw there (`seen`), which the server
does not get; `crossed` is history: the clients whose click and a packet of the
server have crossed, or whose click was ignored, and `shared` the containers of which several
players have copies. Clients are well-behaved: they
draw what a click does to the stacks they show, have one cursor, and ignore contents
sent for a window they have closed.

Abstractions: two items and one recipe, for grid and furnace alike; a container
has one storage cell and one output cell; a furnace's fuel and timers are left
out, so it may smelt in any tick; breaking and placing may be anybody's and use
up no item; the chunk under a window is there; writes to files succeed.

### Entities

State: `nextId` (`next_entity_id`), the list `conns`, each connection's `id`,
`phase` and `closing`, its `table` (`remote_players`: who it was told of, listed and
spawned), the items on the `ground`; what each client shows (`seen`, `tab`), which
changes when the server writes, as packets arrive in order; where both threads
are. History variables name what the code's races did: a number taken by both threads
at once (`raced`), a player shown after it had been taken out of a table
(`strayed`), a table changed under the sync that points into it (`crossed`), a
pick-up that could not be saved (`spoiled`), freed memory read (`wild`).

Actions: for the network thread `Number`, `Numbered`, `Link` (`conn_create`: the
increment takes two steps, it is made without the lock), `CloseConn`, `Unsee`
(one viewer per step), `Unlink`, `Shut`. For the tick thread packets (`Join`,
`Confirm`, `Drop`, `Die`, respawn, failure), the turns with deaths by hunger or the
void, whose item walks the list without the lock (`Counted`, `Walk`), the item ticks
with pick-ups, the sync loop pair by pair (`Sync`, then `List` and `Show` through the
pointer it holds), `Clear`.

Abstractions: distances, motion, equipment, merging and ageing of items are left
out, an item is near whoever picks it up; out of memory does not occur.

### Session

State: the protocol `state`, what was `told` (the four flags that a step was
sent), `ready`, `closed` with its reason, `keepalive`; the task queue with the time
each packet was queued (`tasks`, and `batch`, the drained part), the tick thread's
`turn` with the time it began at, the packets on the `wire` and the protocol state of
the client (`peer`). The handlers of the five states are operators, one task is
handled per `ProcessTask`; `TurnEnds` is `proto_play_tick`'s keepalive; `Broadcast` is
any packet another player's turn causes. `Speak` sends what a vanilla client may send
without waiting, `Hear` answers; `Babble` is a client that does neither.

Left out: contents of packets; handlers that fail on parsing or on a full output all
end in the same error path.

### Mining, Eating, Survival, Falling

Four parts of one player, each with the packets, ticks and commands that touch it.

* `Mining`: the session (`mc_mining_session_t`) against a world, a hand and a game
  mode that change. Times are those at which packets were queued; the session's age
  replaces its start. The rules are the integer formulas of `mining.c`, tables are
  constants.
* `Eating`: `use` and the held button; a tick (`EatTick`) compares the use with what
  is in the hand. Clicks and pick-ups change the slots without telling the use.
* `Survival`: health, food, saturation, exhaustion and the two timers; the timers count
  ticks to go instead of holding a due time, since they are only compared and reset once a tick.
  Amounts of damage and nutrition are small ranges. Finished meals and the `/health` and
  `/food` commands change the values at any time; `saved` is what the file keeps of them, written by
  everything that saves the player, and what a server that died between two saves starts from
  (`CrashJoin`). `lately` is history: for how many
  ticks the player has been hurt and fed, or starving, under the present difficulty.
* `Falling`: the client's movement with packets in order both ways, teleports that
  move the server's player at once. Heights are counted in parts of a block (`Parts`):
  the damage is the whole blocks beyond the safe distance, raised to 1 if that is less, as
  `play.c:5577-5578` has it. The client is a vanilla
  one: it confirms a teleport and then says where it is, and its packet says "standing" only
  where there is ground.

### Chests

One chest. State: its chunk (`loaded`, `here`, `unsaved`, a `late` write), its file, the
store's `entity`, which outlives the chunk, the `window` of one viewer and what it
carries, the `ground`, and the `worker` that decodes the saved entity straight into
the store. Contents are a number of goods. Actions: the container handlers, cleanup,
breaking and placing, autosave, eviction, request, the two steps of a load and its
integration, each write of a file or an entity possibly failing. It starts as a server starts, from the
file of a world that may have been played in. The store is a table
without a lock: when a put or removal of one thread overlaps a put of the other,
either may be lost.

### Framing, Sections, Tables

* `Framing`: a socket that delivers any number of bytes at a time, the reading loop
  until it is empty, and every whole frame in the buffer. A byte has one payload bit
  where the code's have seven, so that lengths of more than one byte are short. A client
  sends packets with numbers a VarInt can hold. What it may send instead (`Junk`) is
  such that no beginning of it is a whole frame: junk that holds a frame is that frame and
  shorter junk.
* `Sections`: one section; words are sequences of bits, `Pack` and `Unpack` split
  values across two words. Widths are constants.
* `Tables`: cells, tombs, counts and growth. The hash is a constant; equality of
  positions is equality of keys.

## 3. What the runs check

All passing runs end with the whole state space explored. The sizes are
small because each of the bounds multiplies it; what a bound cuts off is given
with it. The properties with a theorem do not rest on the bounds: they are
proved for all.

### world (MCWorld.cfg)

Two chunks, one worker, one block each in three states (one legacy), two job
priorities, two writes waiting per chunk, one eviction per pass, and chunk writes
that succeed, are refused, or leave a torn file. Two chunks are what
`chunk_list_remove`, the cursor and the priorities need to go wrong; two writes
what the order of replay needs. One worker and the tick thread already race on
everything: two workers only ever meet in the queues, under a lock.

* `TypeOK`.
* `OneLoader`: a LOADING chunk has exactly one load (queued, at a worker, done or
  in the drained part), any other none.
* `ListMatchesMap`: the list holds the READY chunks once each, the cursor stays in it.
* `NoLostWrite`: every accepted write is in the READY chunk, or in the load on its
  way or the file once the pending writes are replayed on it.
* `CleanIsSaved`: not dirty means equal to the file. `TornFileHasCopy`: a torn
  file's chunk is in memory and dirty.
* `UpdatesAreCurrent`: a queued update has the block's present value, also when
  the chunk has gone and come back in between.
* `ImplementsBlockStore`: the refinement.

### world_live (MCWorldLive.cfg)

The same with one waiting write and one chunk whose file cannot be read, under
fairness. `RequestIsServed`, when the callers stop asking (jobs are taken by
priority without aging, so newer ones may go first for ever); `DirtyIsSaved`,
once chunks stop leaving (`chunk_list_remove` may otherwise swap a chunk past the
cursor each time: TLC shows that schedule if `Settled` is dropped);
`DestroySaves`: `mc_world_destroy` returns, and then every accepted write is in a
file, those that still waited for a load included.

### world_overwritten (MCWorldOverwritten.cfg)

A chunk file that inflates but does not decode. `ReadyHoldsAccepted` fails:
finding 1. What still holds with such files is proved (`TypeCorrect`,
`ListCorrect`): the list is kept by entry, not by coordinates.

### stream, stream_live

* **stream**: one client between two positions, two chunks, one in view of both
  positions, one chunk per tick, two scans, snapshots that may fail.
  `TypeOK`, `CopyIsCurrent`, `StreamCoversView`, and `AckSeesReady`: when a change is
  acknowledged the client already shows the result.
* **stream_live**: `ViewFills` with scans limited to one: a chunk that is not
  ready goes to the back and the client still gets all of them, though one is
  evicted again and again while it waits. Each chunk has a furnace, which lights
  and goes out in the world tick and in the client's own turn. Digging and placing
  are in **stream** only, furnaces in **stream_live** and **stream_ready**. Two
  clients at a time are in **stream_ready**.

`CopyIsCurrent` has three exceptions, collected in `behind`, each a place where
the code drops the update: the client is not `play_ready` (or nobody is served
because the snapshot failed) when it is cleared; it was queued in the middle of
the broadcast (finding 2); the client was told air for a chunk that is not READY.
`AckSeesReady` is likewise about READY chunks: a placement in a chunk that was
evicted since it was sent is answered with air and acknowledged (`play.c:5982`), though
the comment at `play.c:1612-1614` does not say so. In the small instance a scan
limit of one is already enough to reach every chunk in view: with the real numbers
(a limit of 32 per tick, eviction every 20 ticks) a view of more than 640 chunks that
are evicted as they load could outlast it. The defaults (view 10) are far below.

### conns, conns_live

* **conns**: one player over two connections, one or after another or at the same
  time; a login and a packet over the first, a login over the second; an open
  container; failing snapshots; a stop at any time. `TypeOK`. `RefsExact`: a connection
  has one reference per task, snapshot entry and list membership, and is allocated
  exactly while it has one. `ListedIsOpen`: nobody flushes into a descriptor that
  was closed. `RejoinSeesSave`: a player who comes back finds what it did, whoever
  saved it. It excludes sessions that overlap (login does not refuse the second,
  the last save wins) and joins that fail after the player was loaded and before
  its position was set (the cleanup then saves position 0,0,0).
* **conns_live**: a login on one of two connections, its client may stop reading.
  `GoneIsFreed`: a client that left, or a connection given up, is freed (not a client
  that stalls with its socket open: the code has no timeout for it). `StopEnds`.

Two connections are the least for list removal in the middle, a batch with
two events, and a second session; two packets for a queued task behind another.
In this model the last release of the network thread writes a container back to the
world (`server.c:178`), which `server.c:5-8` would leave to the tick thread; the
write itself is in `Chests` and `Windows` (`CleansUp`, `Cleanup`).

### windows

Two players, each over one connection after another; the first has two goods of its own,
one is on the ground. One position that holds a container of any of the four kinds, which others
may break and place. Stacks of two (`MaxStack`) and one main cell: the
inventory fills up, stacks overflow to the ground, a result does not fit. `MaxGoods`:
a click that leaves more than three goods is not handled; stale clicks can make goods
without end. `MaxClicks` and `MaxSyncs`: one packet each way, enough for a click
and a sync to cross. `Ids` is 1: a window is opened only when nothing of the client
is in flight, so ids are never confused. `NoAftermath`: the run stops where goods
were made or lost, or a click that crossed a sync was handled. That step itself is
checked; what follows is what happens to a player who has those goods in those
places and nothing in flight, one that owns more or fewer goods at first included.
The second player joins while the first is away (`JoinsFirst`), and from then on the container is a
chest, one item at most is not on the ground, and neither uses the crafting grid (`OneAtTheChest`):
that is what two players need to open, click, break and leave one chest under each other's
hands, in any order. Both together are about 500,000 states.

* `OnlyStaleClicksMakeOrLose`: every step keeps the number of goods in
  inventories, cursors, grids, containers, files of absent players and on the
  ground, unless it copies a click that names a cell changed since the client saw it, or
  touches a shared container (`TouchesShared`).
  The first exception is real: a player throws one item and clicks again; before the second
  click is handled the tick picks an item up into the cell it names; the click is
  copied with the contents the client remembers (`play.c:3858`). The click's
  `state_id`, which would tell, is read and dropped.
* `RestingClientAgrees`: a client with nothing in flight, none of whose clicks
  crossed a sync, shows what the server has.
* `KeptDurable`: between handlers the player file, the ender chest and a chest's
  block entity agree with the copies in memory, but for shared chests. A furnace's copy is not included: it
  changes every tick and is written at the next click or close.

Two players may have one container open, each with a copy of its own, and so may a player and a
connection that is still to be freed; the last one to write wins (`play.c:2748`). `shared` is
history: it names the containers of which several players have had copies at once, or which were
broken under a copy, until nobody has a copy any more. `KeptDurable` excepts a shared
chest's block entity, and `OnlyStaleClicksMakeOrLose` the steps that change a shared container, its
block or the window of one of its users. Everything else is demanded with two players
too: that the damage stays at that container, that the files hold what both players have,
that nothing is lost once the last copy is gone. Without the first exception TLC finds a copy that
is not the chest in 16 states, without the second goods made or lost in 17. No line of the
repository promises more, so it is a hazard in the list, not a finding.

### entities

Two players who know each other, one who may come, one drop of two goods, one
death, a player who may leave at any step, saves that may fail. `Budget`: three of
these (arrivals, departures, deaths, drops) per behaviour. Two viewers and a subject
are what the tables need; each race between the threads needs one arrival or departure and one
step of the tick thread.

* `IdsDiffer`: entity numbers differ, but for those taken at the same moment.
* `ItemsShown`: every client shows exactly the items on the ground, with what is left.
* `SeesLiving`: after a tick's sync loop everybody living is shown to everybody
  else, and no dead one.
* `NoGhosts`: nobody is shown who has left.

Each excepts just the pairs that the history variables name, which are the code's
own races, and hazards in the list.

### entities_walk (MCEntitiesWalk.cfg)

One player, one who comes and goes while the first dies of hunger or in the void.
`WalkMeetsLive` fails: finding 3.

### solo (MCSolo.cfg)

Nine parts that share no state here, side by side: the initial state picks one, and
each behaviour is of that one, about a million states in all.

* `SoloTypeOK`: their type invariants.
* `DigEarned`: no block is broken by a dig before two thirds of the time it takes with
  the tool in the hand, whatever START, ABORT, block, hand and mode changes came before.
* `EatEarned`: food is eaten only after its whole duration, alive, hungry, with the same
  food in the same selected slot at each tick.
* `HeartsEarned`: hearts come and go by themselves only after the whole interval of
  the difficulty in force, whatever is eaten or commanded meanwhile; starving alone kills on hard only.
* `FallEarned`: a landing hurts only when the client fell beyond the safe distance since it last
  stood or was teleported, and for no more than the blocks beyond it, or 1 if that is less. Excepted is a fall tracked by a packet of the old place that
  came after the teleport: `CONFIRM_TELEPORT` guards nothing (`hurt.raced`).
* `ProtocolAgrees`: a vanilla client is never sent a packet of another protocol state.
* `KeepaliveFair`: nobody is closed for silence who answered in time, however late
  the answer is handled.
* `ContentsKept`: a saved chunk is in its file as it is in memory and the file's goods are the
  store's (`FileAgrees`), and a chest's goods stay the same in number but for the steps
  named in `Chests`: a put or removal that is lost to the worker (`LostPut`), a decode that is lost to the
  tick thread (`LostDecode`) and the goods' coming back with the next load (`Reappears`), a copy that cannot be saved
  and is given up (`GivenUp`) or whose chest changes under it (`Outlived`), a failed flush of a
  broken block (`NotFlushed`), a write into a chunk that is not ready (`Blind`), and a click on a copy that
  one of these has left behind (`Outdated`). Each of them is a hazard in the list and each is needed: without
  any one of them TLC finds the loss. What it demands is that there is no other way.
* `StructuresHold`: `FramesWhole` (packets are those sent, wherever the bytes were cut),
  `SectionHolds` (a section is an array of block states and counts those that are not
  air), `TableHolds` (a key is found exactly when it is in the table, and a search
  always meets an EMPTY cell).

Bounds: two spots and four kinds of blocks (one each that wants a tool, is instant,
cannot be broken, needs neither); two slots, two foods, one always edible; three
hearts and three points of food; two meals; heights of 0, 1, 2 and 2.5 blocks with the first two of them ground, a safe distance
of half a block and two packets each way; a clock of six with an interval and a timeout of two; two goods (`NoExcess`:
the run stops after a step that doubled goods); two packets and VarInts of three bytes;
three cells of two and three bits in words of four, so that values span words and
both promotions happen; six keys, colliding, in tables of 4, 8 and 16 cells.

### Fairness

The tick thread and each worker always take another step: they wait only on
locks held for a bounded time, on the job queue (work ends the wait), or on the
50 ms clock. The network thread's `epoll_wait` has a timeout of a second. So:
weak fairness per worker, per loop of the tick thread and for the network
thread. Strong fairness where an action competes with calls that the same thread
runs in between: the next world tick (`TickBegin`) and the end of a drain
(`DrainEnd`: a drain takes only what was queued when it began), and the arrival
of a requested chunk in `Stream`, which rests on `RequestIsServed` in `World`.
Clients, commands, eviction and shutdown requests get none.

### Findings

1. **world_overwritten** (`chunk_store.c:245`): a chunk that does not decode claims
   to be (0,0); saving it overwrites the file of chunk (0,0), and accepted writes
   are gone (`world.c:754-756` promises otherwise; `world.c:44-45` says pending
   writes are replayed exactly once, and for such a chunk they are dropped).
2. **stream_ready** (`play.c:2306`): a furnace that lights in one client's turn is
   cleared before anybody else hears of it, against `server.c:1371-1372`.
3. **entities_walk** (`play.c:6087`): what a player drops who dies of hunger or in the
   void is announced by a walk over the connections without `conns_lock`, though
   `server_locked` says it is held; the network thread may unlink and free the
   connection the walk is at, against `server.c:8-10`.

## 4. What is proved

By TLAPS, for every value of the constants allowed by the assumptions named in
each module. For `World`: any finite set of chunks with (0,0) one of them, any
positions, states, workers, priorities, `MaxPending` and `EvictBudget`, any outcome
of writes and any initial files, an idempotent normalisation.

| Theorem | States |
|---|---|
| `WorldProofs!TypeCorrect` | `Spec => []TypeOK` |
| `WorldProofs!ListCorrect` | `Spec => []ListMatchesMap`, undecodable files included |
| `WorldProofs!OneLoaderCorrect` | `Undecodable = {} => (Spec => []OneLoader)` |
| `WorldProofs!NoLostWriteCorrect` | `... []NoLostWrite` |
| `WorldProofs!CleanIsSavedCorrect` | `... []CleanIsSaved` |
| `WorldProofs!TornFileHasCopyCorrect` | `... []TornFileHasCopy` |
| `WorldProofs!UpdatesAreCurrentCorrect` | `... []UpdatesAreCurrent` |
| `WorldProofs!ImplementsBlockStoreCorrect` | `... ImplementsBlockStore` |
| `SoloProofs!DigEarnedCorrect` | `MiningSpec => DigEarned` |
| `SoloProofs!EatEarnedCorrect` | `EatingSpec => EatEarned` |
| `SoloProofs!HeartsEarnedCorrect` | `SurvivalSpec => HeartsEarned` |
| `SoloProofs!ContentsKeptCorrect` | `ChestsSpec => ContentsKept` |
| `StreamProofs!StreamTypeCorrect` | `Spec => []TypeOK` |
| `StreamProofs!CopyIsCurrentCorrect` | `Spec => []CopyIsCurrent` |
| `StreamProofs!StreamCoversViewCorrect` | `Spec => []StreamCoversView` |
| `StreamProofs!AckSeesReadyCorrect` | `Spec => AckSeesReady` |
| `StreamProofs!StreamUsesBlockStore` | `Spec => BSSpec`: the stream moves its world by `BlockStore`'s actions alone |
| `EntityProofs!EntitiesTypeCorrect` | `Spec => []TypeOK` of `Entities` |
| `EntityProofs!IdsDifferCorrect` | `Spec => []IdsDiffer`: no two things have one entity id, but for the race of the two threads over the counter |
| `EntityProofs!NoGhostsCorrect` | `Spec => []NoGhosts` |
| `EntityProofs!SeesLivingCorrect` | `Spec => []SeesLiving` |
| `EntityProofs!ItemsShownCorrect` | `Spec => []ItemsShown` |
| `ConnsProofs!ConnsTypeCorrect` | `Spec => []TypeOK` |
| `ConnsProofs!RefsExactCorrect` | `Spec => []RefsExact` |
| `ConnsProofs!ListedIsOpenCorrect` | `Spec => []ListedIsOpen` |
| `ConnsProofs!RejoinSeesSaveCorrect` | `Spec => []RejoinSeesSave` |
| `SoloProofs!ProtocolAgreesCorrect` | `SessionSpec => []ProtocolAgrees` |
| `SoloProofs!KeepaliveFairCorrect` | `SessionSpec => KeepaliveFair` |
| `SoloProofs!FallEarnedCorrect` | `FallingSpec => []FallEarned` |
| `WindowProofs!WindowsTypeCorrect` | `Spec => []TypeOK` of `Windows` |
| `WindowProofs!KeptDurableCorrect` | `Spec => []KeptDurable` |
| `GoodsProofs!OnlyStaleClicksMakeOrLoseCorrect` | `MaxSyncs <= Ids => (Spec => OnlyStaleClicksMakeOrLose)` |
| `GoodsProofs!RestingClientAgreesCorrect` | `MaxSyncs <= Ids => (Spec => []RestingClientAgrees)` |
| `SoloProofs!StructuresHoldCorrect` | `SoloSpec => []StructuresHold` |
| `SoloProofs!SoloTypesCorrect` | `SoloSpec => []SoloTypeOK` |
| `SoloProofs!TableHoldsCorrect` | `TablesSpec => []TableHolds` |
| `SoloProofs!SectionHoldsCorrect`, `SectionsTypeCorrect` | `SectionsSpec => []SectionHolds`, `[]SectionsTypeOK` |
| `SoloProofs!FramesWholeCorrect`, `FramingTypeCorrect` | `FramingSpec => []FramesWhole`, `[]FramingTypeOK` |

The premise `Undecodable = {}` is needed: finding 1 is the counterexample
without it.

**World.** `WorldProofs` begins with what the queue and list operations do
(`PushJob` inserts one element and keeps the others, `ListRemove` removes one key
and keeps the list injective, `CursorAfter` stays in range, `Replay` keeps types
and composes with `Append`). It then shows type correctness together with
the shape of the list: `TypeOK` alone is not inductive, because
`chunk[k].at` must be a chunk in the map where eviction uses it, and
`save_cursor` stays in the list only because the list is exactly the READY
entries. It goes on to show that every chunk object carries the coordinates of
its entry and a load is in exactly one place: without the first, integration
and eviction could touch another entry, without the second the invariant does not
survive `WorkerPush` or `TickBegin`. The second half adds, per chunk, what each copy
(file, load, live chunk) holds relative to `accepted`; the four data invariants
are proved together, since a lost write is excluded by `CleanIsSaved` at an
eviction, which needs `TornFileHasCopy` at the next load. The refinement follows step by
step: integration is `Show`, removal `Hide`, an accepted write `Write`, everything
else a stutter.

**Stream.** For any clients, chunks, local positions, states, views (`Rings`), scan limits and
snapshots. `StreamInv` joins `CopyIsCurrent` with three parts. `WorldInv`: a READY chunk
shows what was accepted, and a queued update has the accepted value unless a later write
waits for its chunk, so whoever is sent the chunk or the update is sent the present
value. `TickInv`: what is captured is still queued, and whatever was queued since then is a furnace; without
it `Clear` could drop an update that no client was told of and that `behind` does
not count. `ClientInv`: of a client who plays, the chunks in view are split between `sent` and
`pending`, each pending one once, and its copies are of the chunks in `sent`; that is
`StreamCoversView`, and it is what lets a broadcast skip a client without the chunk. `AckSeesReady` follows
from `StreamInv` before and after the turn that acknowledges. `StreamUsesBlockStore` and
`ImplementsBlockStoreCorrect` are the two sides of one interface: both modules move the store within
what `BlockStore` allows. That `Stream` moves it in all those ways is not proved; it takes `BlockStore`'s actions
as they are.

**Conns.** For any number of connections and players. `RefsExact` is an equation between a counter and the
tasks, snapshot entries and the list that stand for it; each action moves one of them and the
counter together (`TasksTail`, `CountTail` and their like say by how much). It needs that a
connection is in the list once (`NetList`), that what is being closed is listed but for the first one, between
its removal and its release (`NetDoomed`), that packets are queued for listed
connections only (`NetBatch`) and that a part of the tick leaves nothing to the next (`TickLists`).

`RejoinSeesSave` has an invariant of its own, `RejoinInv`, which follows a session that is over through the
server: its end is handled before any packet of a later one (`EndsFirst`), it has left the list
when these are queued (`Passed`), what it still has to do is queued before them (`InOrder`), and
is done when they are handled (`EnteredAfter`); of play that is over the file has all (`Saved`).
The first link is an assumption about the operating system. With `epoll_wait` reporting in any order the property is false:
with three connections TLC finds a trace of thirty states in which a third client makes the listener
ready, the first leaves and comes back while `accept` is looping, and the next batch serves the new session before
the old one's end of file; two connections, the bound of the run, do not show it. Linux hands out descriptors
in the order they became ready, and `Foremost` says just that.

**Entities.** The types need the control of both threads: `NumberInv` (the counter has not passed the
number of those who have got a number, and is not for ever behind it), `NetInv`, `ListInv` and
`TickInv` say where each thread is, what is listed and what the sync loop holds. `Fresh` is the
invariant of the numbers: all that were not given in a race lie behind `next_entity_id` *and* behind the
numbers both threads have read and not yet written back. `IdsDiffer` alone is not inductive: a
stale write moves the counter backwards, over numbers that were given while it was held; those
are in `raced`, so what is in front of the counter may be given again without a clash the
property would count.

`ShownInv` says of whom a client may be shown anything at all. `TableInv` ties table, client and list
together entry by entry: of a viewer whose table was not changed under a sync, the table has an entry for whoever the client
shows (`Kept`), an entry marked as listed or spawned is of one the client shows, each player has one entry at most
(`Tidy`), and the pointer of the sync is still at the entry it was taken for (`Pointing`). Then `NoGhosts` follows in two steps: taking the
entry out takes everything out of the client, and who is out stays out (`GoneInv`) unless the sync, which works on a
snapshot, shows him again (`strayed`). `SeesLiving` needs an invariant of the loop, `SyncInv`: the
pairs before `turn` are right. That later steps leave them right is the interesting part: a death, a
join or a respawn cannot fall into the loop, which the tick thread does not interrupt, and what the network
thread does to a table is in `crossed`.

`ItemsShown` is violated for a while by every drop in the middle of `proto_play_tick`, which lies on the ground
before anybody is told. `GroundInv` excepts that one item as long as the walk lasts, and `WalkInv` says that the
walk misses nobody: whoever has not been told is in every set that holds the connection the walk is at and, with
each of its members, what comes after it. Stated of all such sets, the invariant needs neither an order nor paths, and survives a
connection's being put at the head or taken out, whether the walk has passed it, is at it or has yet to come to it.

**Protocol states.** `AgreeInv`: while client and server are both there, the handshake is at one of
the stages `Stage` lists, each a combination of the server's state, what it has told, what is queued (`batch`
and `tasks`, in order) and what is on the wire; and everything on the wire is of the client's
state, the packet that changes it last (`WireAgrees`). The stages matter because each side moves on its own: the
server is in "configuration" while FINISH is under way, and the client in "play" while the
answer is queued, and in both the broadcasts of others must be held back.

**Mining.** A session is the last START that was accepted (`SessionIsStart`): the
history holds the same position, block, tool and age. A break at STOP compares the
session with what is there now, so the START was for the same; that two thirds of the time went by
is arithmetic on `RequiredMs` and `GraceMs`.

**Eating.** While a use is on, the history is about the same slot and food, and its
ticks and those left to the use make up the duration (`UseIsKept`): a tick at which the
hand does not match cancels the use, so no tick is counted down that the history did
not see.

**Survival.** `TimersCounted`: a running timer with `n` ticks to go lies within the
interval of the present difficulty, and the history has counted the rest of it. A meal
changes neither; whether it leaves the player fed, the next tick sees. Whatever breaks the history's run, a tick that finds the player healed, fed or in another mode or a change
of difficulty, stops the timer in the same step.

**Chests.** `ContentsKept` counts goods over the whole path, so it needs to know where they are.
`FileAgrees`, which is part of the property: a chunk that is saved is as
its file has it, and a file with goods has those of the store; so an eviction takes nothing away,
a reload puts the same again, and what a write does is to make the file like the store. The other
steps move goods between the viewer, his copy, the entity and the ground; each either keeps the sum or is one of
the kinds of steps the property names.

**Keepalive.** `AnswerInv`: an answer that counts and was not handled yet is still in
the queue or the batch, and a turn's time was taken before the drain. So a turn that finds a keepalive
unanswered either drained the answer, and handled it, or the answer was queued
after the turn's time, too late.

**Falls.** `FallInv`: the packets under way, read in order up to where the client is,
tell its path without a gap between teleports (`PathIsWhole`), where no teleport is
under way the server has the player where that path begins (`PlaceIsKnown`), and a fall tracked
without a stale packet began no higher than the client says it fell from
(`TrackIsTrue`). The damage grows with the
distance, also where it is cut to whole blocks or raised to 1. `FallEarned` alone is not
inductive: `fall_start_y` must be tied to packets that have not arrived yet.

**Windows.** For any players, containers, window ids, main cells in any order and stack size. The operators that
move goods (`Absorb`, `CraftToMain`, ...) are folds over the cells; the fold is walked cell by cell,
each step moving an amount from one cell to another, so the sum over all cells stays
(`CountUp`, `GrowSet`). `TypeOK` is `Typed`, taken apart; packets under way have to be typed
with the rest, since a click is copied into the window as it is.

`KeptDurable` needs `Durable`, which says it also of players in the middle of leaving and of boxes that are not open, and that
no two windows are on one stored box that is not shared (`Alone`): the second one to open a box makes it shared, and
it stays so as long as anybody has a copy.

`OnlyStaleClicksMakeOrLose` compares two sums over everything there is. `Total` is split into the share of
each player, of each container and of the ground; an action changes the
share of one player, at most one container and the ground, and leaves the other shares alone. Breaking a
container touches all its viewers, but where the step counts only one has it, by `Alone`, and
its copy is the container by `Durable`; a step that touches a shared container is left out
(`Calm`). A click that is not stale copies what is there: its window id and kind must be those of the open window, which is `ByIds`: window ids are used in turn, and an open message under way
with the id of the present window is the one that opened it. This needs the ids to outlast the
messages (`MaxSyncs <= Ids`). The code's ids are an `int32_t` that starts again at 1 after 2^31 - 1
(`play.c:1675-1676`), so the few ids of the model are the harder case, and the premise holds of any output
buffer that fits into memory.

`RestingClientAgrees` speaks of clients with nothing under way, so its invariant must speak of all
others. `RestInv` says of each client that is not in `crossed`: if no click is under way, the views it will have
as it receives the messages one after the other end in the server's inventory and window (`Ends`), and on
the way no window's contents surprise it in the inventory part (`NoNews`), or a close or an open in
between would leave it with something else. If a click is under way there is nothing to receive, and the click was
drawn from the present contents, but for a close of its own that comes after it. A click is
then answered with cells that the client predicted (`HandleAnswers`). That the handlers never forget to send is in
one lemma per action: the change they make and the messages they append lead to the same place.

**Tables.** For any hash, keys and capacities. `TableInv`: no key lies in two cells, every key in the
table is reached from its hash without meeting an EMPTY cell, `len` and `tombs` are the numbers of the cells they
count, and their sum is less than the capacity. The last part is what makes a search end: there is a gap, and probing goes
round all cells (`CellAt`). A removal leaves a tomb so that the keys behind it stay reachable; a put may take the
first tomb it met, since the search has by then seen that the key is nowhere else; growth puts the keys one after
the other into a bare table, and its invariant is that of the keys put so far.

**Sections.** For any volume, word size and pair of widths, the palette's below the other. `Pack` and `Unpack` are
followed bit by bit: bit `j` of the value at `i` is one bit of one word (`BitAt`), those of two values lie apart, and
a value is told by its bits. So a packed array is an array of numbers, whether its values fit into words or not.
`SectionInv` says what the words mean in each of the three forms (no words, palette indexes, states), and each of the two
promotions, a loop over all cells, turns one meaning into the next. That the palette has no state twice
makes the index `LocalId` finds the only one.

**Framing.** For any packets and junk. What `varint_write` writes `varint_read` reads and ends where that ends,
whatever follows; the beginning of a number has no end. So bytes that begin with a frame have its packet
first, and a part of a frame waits. The loop of `handle_client_read` takes at least a byte with each packet, so
it ends within as many turns as there are bytes, with the buffer waiting or an error in the junk. `FramesInv`: the packets handed on
are the first ones sent, and while the connection is open the input buffer and the bytes under way are,
together, what the client wrote behind these packets.

**The joint run.** Every behaviour of `SoloSpec` is one of each part's own specification (`SoloIsEach`): the parts
share no variable, and a step of one leaves the others alone. So what is proved of a part holds in the run, and
`StructuresHold` and `SoloTypeOK` follow from the parts. Some of the types are consequences of the invariants
above. Others needed one of their own: that the saturation stays under the food level and the dead have no health, in the saved
player either (`Sated`, `Lives`); that heights stay in the world in packets both ways (`InWorld`, `Carried`);
that times in queued packets and in the turn are times of the clock (`AllTimely`, `Clocked`), for which the clock must
be able to reach one interval (`MaxClock >= Interval` in `SessionAssumption`); that no item is
called as the empty slot is (`EatingAssumption`), so that a stack in a slot has a count above zero.

No safety invariant or action property of a passing run is only model-checked. Out of the prover's
reach are the liveness properties (`RequestIsServed`, `DirtyIsSaved`, `DestroySaves`, `ViewFills`, `GoneIsFreed`,
`StopEnds`): they rest on fairness and ENABLED. No module has a RECURSIVE operator: what the code does in loops is a fold
or a recursive function, and the proofs reason about the function at each argument.

## 5. Known behaviours that no property forbids

The repository promises nothing about these; the models have them.

* A crash in the middle of rewriting a chunk or player file leaves a torn one; the
  usual end of the server by a signal runs neither `mc_world_destroy` nor a last save.
* Two sessions of one player overlap, and the last save wins.
* Two viewers of one container overwrite each other.
* A connection closed after the tick thread's last drain is never freed.
* A length that is no VarInt is taken for an incomplete one: the connection waits for ever.
* A window stays open when its chunk is evicted; its copy may then be given up.
* A player removed from a table in the middle of a sync may be shown again and
  stay.

## 6. What is not modelled

* Codecs: Anvil, NBT, network packing, the layout of packets. They keep no state;
  the models take their result.
* Generated tables: `block_registry.c` and `src/generated` are about 110,000 of the 128,000
  lines of C, one initializer per line. The models take what they need as
  constants, so the map can never cover a large share of all lines; of the lines that
  are written by hand, some 16,000, it covers more than a third.
* Furnaces beyond the block that lights and one item that smelts: fuel, timers and
  remainders are arithmetic on one record in one thread.
* Player files as bytes; block drops and shaped recipes, which are look-ups.
* The output buffer, compression (no caller turns it on), encryption (a pass-through
  in the default build), start-up, logging.
* Failures of allocation, except where a module says so. Crashes of the process, but for
  what one takes back of a player's health and hunger (`CrashJoin`).
* Motion, equipment, animation, merging and ageing of items; `/setblock` on
  containers, double chests and shulker boxes.

## 7. Plan

In this order:

1. Furnaces: fuel and progress in an open copy and in the block entity.
2. Items: merging and ageing beside pick-ups.
3. Player files with a save cut short, joined to `Conns`.
4. The writes of the network thread joined to `Windows`, whose `Cleanup` may run between
   any two steps of a handler on another thread.
