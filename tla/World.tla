------------------------------- MODULE World --------------------------------
(***************************************************************************)
(* The chunk world of src/world/world.c: the chunk map with its EMPTY/     *)
(* LOADING/READY life cycle, writes that wait for a loading chunk, the     *)
(* priority queue of load jobs, the worker threads, the done queue, the    *)
(* tick that integrates and autosaves, eviction, and mc_world_destroy.     *)
(*                                                                         *)
(* Threads.  Every mc_world_* function but the workers runs on one thread  *)
(* (the tick thread; main after it has been joined), so its calls are      *)
(* atomic except for what the workers do meanwhile; the loops the workers  *)
(* can run beside (integration, eviction, shutdown) are one step per turn, *)
(* ordered by pc.                                                          *)
(*                                                                         *)
(* Data.  A block position is a pair of a chunk and a position inside it.  *)
(* The block states are few and Norm maps a legacy state to its runtime    *)
(* state.  Block entities are not in this module.                          *)
(***************************************************************************)
EXTENDS Integers, Sequences, FiniteSets, SequencesExt

CONSTANTS
    Chunks,          \* chunk coordinates the callers use
    Origin,          \* the chunk (0,0), which a zeroed mc_chunk_t claims to be
    Locals,          \* block positions inside a chunk
    States,          \* block states
    Norm,            \* mc_world_normalize_container_state_id
    Terrain,         \* what mc_world_generate_chunk puts into every chunk
    Workers,         \* worker threads
    Priorities,      \* job priorities, 0 is served first
    MaxPending,      \* bound: writes kept for one loading chunk
    EvictBudget,     \* evictions per pass (WORLD_EVICT_BUDGET)
    WriteOutcomes,   \* what writing a chunk file may do: "ok", "refused", "torn"
    Unreadable,      \* chunks whose file cannot be opened, read or inflated
    Undecodable,     \* chunks whose file inflates but cannot be decoded
    InitialFiles,    \* the chunk files the server may find when it starts
    NoFile,          \* no chunk file
    Torn,            \* a chunk file cut short by a failed write
    NoChunk,         \* no mc_chunk_t
    NoUpdate         \* no queued block update

Blocks == [Locals -> States]

ASSUME ChunkAssumption == Origin \in Chunks /\ IsFiniteSet(Chunks)
ASSUME StateAssumption ==
    /\ Norm \in [States -> States]
    /\ \A s \in States : Norm[Norm[s]] = Norm[s]
    /\ Terrain \in Blocks
ASSUME FileAssumption ==
    /\ InitialFiles \subseteq [Chunks -> Blocks \cup {NoFile}]
    /\ NoFile \notin Blocks /\ Torn \notin Blocks /\ Torn # NoFile
    /\ WriteOutcomes \subseteq {"ok", "refused", "torn"}
    /\ Unreadable \subseteq Chunks /\ Undecodable \subseteq Chunks
ASSUME BoundAssumption ==
    /\ Priorities \subseteq Nat /\ 0 \in Priorities
    /\ MaxPending \in Nat /\ EvictBudget \in Nat
    /\ NoUpdate \notin States

\* mc_chunk_t: the coordinates it carries, its blocks and its two flags.
ChunkObject == [at : Chunks, blocks : Blocks, dirty : BOOLEAN, evict : BOOLEAN]
ASSUME NoChunkAssumption == NoChunk \notin ChunkObject \cup Blocks

VARIABLES
    slot,         \* slot[k]: "absent" (EMPTY, TOMB), "loading" or "ready"
    chunk,        \* chunk[k]: the live chunk of a READY entry
    pending,      \* pending[k]: writes that wait for a LOADING entry
    chunkList,    \* w->chunk_list: keys of the READY entries
    saveCursor,   \* w->save_cursor, counted from 0
    jobs,         \* w->jobs: the last element is popped first
    worker,       \* worker[w]: where the thread is and what it holds
    done,         \* the done queue
    updates,      \* w->updates: per block, the queued value or NoUpdate
    disk,         \* the chunk files
    pc,           \* where the single-threaded side is
    batch,        \* the drained part of the done queue still to integrate
    keep,         \* the keep set of the current or last eviction pass
    scan,         \* position of the list loop that runs (eviction, last save)
    evicted,      \* evictions of the current pass
    accepted      \* history: the value of every block the server accepted

mapVars  == << slot, chunk, pending, chunkList, saveCursor >>
loadVars == << jobs, worker, done >>
loopVars == << pc, batch, keep, scan, evicted >>
vars == << mapVars, loadVars, updates, disk, loopVars, accepted >>

Mod == [b : Locals, state : States]
Job == [key : Chunks, prio : Priorities]
Done == [key : Chunks, obj : ChunkObject]
Idle == [pc |-> "idle"]
Exited == [pc |-> "exited"]
Reading == [pc : {"read"}, key : Chunks]
Loaded == [pc : {"resave", "push"}, key : Chunks, obj : ChunkObject]

TypeOK ==
    /\ slot \in [Chunks -> {"absent", "loading", "ready"}]
    /\ chunk \in [Chunks -> ChunkObject \cup {NoChunk}]
    /\ pending \in [Chunks -> Seq(Mod)]
    /\ chunkList \in Seq(Chunks)
    /\ saveCursor \in Nat
    /\ jobs \in Seq(Job)
    /\ worker \in [Workers -> {Idle, Exited} \cup Reading \cup Loaded]
    /\ done \in Seq(Done)
    /\ updates \in [Chunks -> [Locals -> States \cup {NoUpdate}]]
    /\ disk \in [Chunks -> Blocks \cup {NoFile, Torn}]
    /\ pc \in {"idle", "integrate", "evict", "stopping", "drain", "lastsave", "destroyed"}
    /\ batch \in Seq(Done)
    /\ keep \in SUBSET Chunks
    /\ scan \in Nat
    /\ evicted \in Nat
    /\ accepted \in [Chunks -> Blocks]

-----------------------------------------------------------------------------
(* Blocks and files.                                                       *)

Normalized(blocks) == [b \in Locals |-> Norm[blocks[b]]]

\* The file of k as the next load will see it: a missing one is generated,
\* one that cannot be inflated is logged and generated too.
Readable(k) == disk[k] \notin {NoFile, Torn}
Image(k) == Normalized(IF Readable(k) THEN disk[k] ELSE Terrain)

\* apply_pending_mods: the blocks after the writes of q, in enqueue order.
Hits(q, b) == {i \in DOMAIN q : q[i].b = b}
\* Mistake: the first write to a block wins.
ReplayFirst(blocks, q) ==
    [b \in Locals |-> IF Hits(q, b) = {} THEN blocks[b] ELSE q[Min(Hits(q, b))].state]
Replay(blocks, q) ==
    [b \in Locals |-> IF Hits(q, b) = {} THEN blocks[b] ELSE q[Max(Hits(q, b))].state]

\* mc_chunk_store_write: fopen("wb") may fail and leave the old file, a write
\* that fails later leaves it truncated.
WriteFile(files, k, blocks, outcome) ==
    CASE outcome = "ok"      -> [files EXCEPT ![k] = blocks]
      [] outcome = "refused" -> files
      [] outcome = "torn"    -> [files EXCEPT ![k] = Torn]

-----------------------------------------------------------------------------
(* Queue and list operations.                                              *)

\* job_queue_push_locked: the array is kept by descending priority number; a
\* job goes behind the last one whose number is not smaller.
PushJob(q, j) ==
    InsertAt(q, 1 + Max({0} \cup {i \in DOMAIN q : q[i].prio >= j.prio}), j)

\* chunk_list_remove: the last entry takes the place of the removed one.
ListIndex(list, k) == CHOOSE i \in DOMAIN list : list[i] = k
ListTruncate(list, k) == Front(list)  \* mistake: the last entry is just dropped
ListRemove(list, k) == Front([list EXCEPT ![ListIndex(list, k)] = Last(list)])

\* ... and the save cursor follows, for index i (from 0) and n chunks left.
\* Mistake: the cursor goes back whichever entry was removed.
CursorBack(cursor, i, n) == IF cursor - 1 >= n THEN 0 ELSE cursor - 1
CursorAfter(cursor, i, n) ==
    LET c == IF cursor > i THEN cursor - 1 ELSE cursor
    IN  IF c >= n THEN 0 ELSE c

\* chunk_map_put_loading and the job push of mc_world_get_chunk.
RequestLoad(k, prio) ==
    /\ slot' = [slot EXCEPT ![k] = "loading"]
    /\ jobs' = PushJob(jobs, [key |-> k, prio |-> prio])

\* chunk_map_remove_key on a map whose chunks are ch and whose cursor is cur.
RemoveKey(k, ch, cur) ==
    /\ slot' = [slot EXCEPT ![k] = "absent"]
    /\ pending' = [pending EXCEPT ![k] = << >>]
    /\ IF slot[k] = "ready"
       THEN /\ chunk' = [ch EXCEPT ![k] = NoChunk]
            /\ chunkList' = ListRemove(chunkList, k)
            /\ saveCursor' = CursorAfter(cur, ListIndex(chunkList, k) - 1, Len(chunkList) - 1)
       ELSE /\ chunk' = ch
            /\ saveCursor' = cur
            /\ UNCHANGED chunkList

Init ==
    /\ slot = [k \in Chunks |-> "absent"]
    /\ chunk = [k \in Chunks |-> NoChunk]
    /\ pending = [k \in Chunks |-> << >>]
    /\ chunkList = << >> /\ saveCursor = 0
    /\ jobs = << >> /\ done = << >> /\ batch = << >>
    /\ worker = [w \in Workers |-> Idle]
    /\ updates = [k \in Chunks |-> [b \in Locals |-> NoUpdate]]
    /\ disk \in InitialFiles
    /\ pc = "idle" /\ keep = {} /\ scan = 0 /\ evicted = 0
    /\ accepted = [k \in Chunks |-> Image(k)]

-----------------------------------------------------------------------------
(* The callers: packet handlers, the protocol tick, furnaces.              *)

\* Mistake: the entry is made but no job is pushed.
GetChunkNoJob(k, prio) ==
    /\ pc = "idle"
    /\ slot[k] = "absent"
    /\ slot' = [slot EXCEPT ![k] = "loading"]
    /\ UNCHANGED << chunk, pending, chunkList, saveCursor, loadVars,
                    updates, disk, loopVars, accepted >>

\* mc_world_get_chunk, and mc_world_get_block(_ready) through it: a chunk
\* that is not in the map is requested; otherwise nothing changes.
GetChunk(k, prio) ==
    /\ pc = "idle"
    /\ slot[k] = "absent"
    /\ RequestLoad(k, prio)
    /\ UNCHANGED << chunk, pending, chunkList, saveCursor, worker, done,
                    updates, disk, loopVars, accepted >>

\* Mistake: updates_push keeps the value queued first.
SetReadyFirst(k, b, s) ==
    /\ slot[k] = "ready"
    /\ IF chunk[k].blocks[b] = s
       THEN UNCHANGED << chunk, updates >>
       ELSE /\ chunk' = [chunk EXCEPT ![k].blocks[b] = s, ![k].dirty = TRUE]
            /\ updates' = [updates EXCEPT ![k][b] = IF @ = NoUpdate THEN s ELSE @]
    /\ UNCHANGED << slot, pending, jobs >>

\* mc_world_set_block on a READY chunk.
SetReady(k, b, s) ==
    /\ slot[k] = "ready"
    /\ IF chunk[k].blocks[b] = s
       THEN UNCHANGED << chunk, updates >>
       ELSE /\ chunk' = [chunk EXCEPT ![k].blocks[b] = s, ![k].dirty = TRUE]
            /\ updates' = [updates EXCEPT ![k][b] = s]
    /\ UNCHANGED << slot, pending, jobs >>

\* Mistake: every write to a chunk that is not READY requests it.
SetPendingReload(k, b, s) ==
    /\ slot[k] # "ready"
    /\ Len(pending[k]) < MaxPending
    /\ RequestLoad(k, 0)
    /\ pending' = [pending EXCEPT ![k] = Append(@, [b |-> b, state |-> s])]
    /\ UNCHANGED << chunk, updates >>

\* ... and on any other: the write is kept until the chunk is READY.
SetPending(k, b, s) ==
    /\ slot[k] # "ready"
    /\ Len(pending[k]) < MaxPending
    /\ IF slot[k] = "absent" THEN RequestLoad(k, 0) ELSE UNCHANGED << slot, jobs >>
    /\ pending' = [pending EXCEPT ![k] = Append(@, [b |-> b, state |-> s])]
    /\ UNCHANGED << chunk, updates >>

SetBlock(k, b, s) ==
    /\ pc = "idle"
    /\ SetReady(k, b, Norm[s]) \/ SetPending(k, b, Norm[s])
    /\ accepted' = [accepted EXCEPT ![k][b] = Norm[s]]
    /\ UNCHANGED << chunkList, saveCursor, worker, done, disk, loopVars >>

\* mc_world_mark_chunk_dirty_at.
MarkDirty(k) ==
    /\ pc = "idle"
    /\ slot[k] = "ready"
    /\ chunk' = [chunk EXCEPT ![k].dirty = TRUE]
    /\ UNCHANGED << slot, pending, chunkList, saveCursor, loadVars,
                    updates, disk, loopVars, accepted >>

\* save_chunk_to_store on the chunk of entry k, which writes the file of the
\* coordinates the chunk carries.
Saved(k, outcome) ==
    /\ disk' = WriteFile(disk, chunk[k].at, chunk[k].blocks, outcome)
    /\ chunk' = [chunk EXCEPT ![k].dirty = (outcome # "ok")]

\* mc_world_flush_block (and mc_world_mark_chunk_dirty_at) of a chunk that is
\* not READY only request it, as GetChunk does.
FlushBlock(k) ==
    /\ pc = "idle"
    /\ slot[k] = "ready" /\ chunk[k].dirty
    /\ \E outcome \in WriteOutcomes : Saved(k, outcome)
    /\ UNCHANGED << slot, pending, chunkList, saveCursor, loadVars,
                    updates, loopVars, accepted >>

\* mc_world_clear_updates, when the tick thread has broadcast them.
ClearUpdates ==
    /\ pc = "idle"
    /\ updates' = [k \in Chunks |-> [b \in Locals |-> NoUpdate]]
    /\ UNCHANGED << mapVars, loadVars, disk, loopVars, accepted >>

-----------------------------------------------------------------------------
(* worker_main.                                                            *)

WorkerPop(w) ==
    /\ worker[w] = Idle
    /\ jobs # << >>
    /\ worker' = [worker EXCEPT ![w] = [pc |-> "read", key |-> Last(jobs).key]]
    /\ jobs' = Front(jobs)
    /\ UNCHANGED << mapVars, done, updates, disk, loopVars, accepted >>

\* mc_chunk_store_read, or mc_world_generate_chunk when there is no file or it
\* cannot be loaded, then the normalisation.  A file whose decoding fails
\* leaves the chunk zeroed: it claims to be (0,0).
WorkerRead(w) ==
    /\ worker[w].pc = "read"
    /\ LET k       == worker[w].key
           decoded == Readable(k) /\ k \notin Unreadable \cup Undecodable
           zeroed  == Readable(k) /\ k \in Undecodable \ Unreadable
           raw     == IF decoded THEN disk[k] ELSE Terrain
           changed == Normalized(raw) # raw
           obj     == [at |-> IF zeroed THEN Origin ELSE k, blocks |-> Normalized(raw),
                       dirty |-> changed \/ ~decoded, evict |-> FALSE]
       IN  worker' = [worker EXCEPT ![w] =
                        [pc |-> IF changed THEN "resave" ELSE "push", key |-> k, obj |-> obj]]
    /\ UNCHANGED << mapVars, jobs, done, updates, disk, loopVars, accepted >>

\* A chunk whose states were rewritten is saved by the worker itself.
WorkerResave(w) ==
    /\ worker[w].pc = "resave"
    /\ \E outcome \in WriteOutcomes :
          /\ disk' = WriteFile(disk, worker[w].obj.at, worker[w].obj.blocks, outcome)
          /\ worker' = [worker EXCEPT ![w].pc = "push", ![w].obj.dirty = (outcome # "ok")]
    /\ UNCHANGED << mapVars, jobs, done, updates, loopVars, accepted >>

\* done_queue_push.
WorkerPush(w) ==
    /\ worker[w].pc = "push"
    /\ done' = Append(done, [key |-> worker[w].key, obj |-> worker[w].obj])
    /\ worker' = [worker EXCEPT ![w] = Idle]
    /\ UNCHANGED << mapVars, jobs, updates, disk, loopVars, accepted >>

\* jobs_stop is seen only once no job is left.
WorkerExit(w) ==
    /\ worker[w] = Idle
    /\ jobs = << >>
    /\ pc = "stopping"
    /\ worker' = [worker EXCEPT ![w] = Exited]
    /\ UNCHANGED << mapVars, jobs, done, updates, disk, loopVars, accepted >>

-----------------------------------------------------------------------------
(* mc_world_tick_profiled.                                                 *)

\* done_queue_drain.
TickBegin ==
    /\ pc = "idle"
    /\ pc' = "integrate"
    /\ batch' = done /\ done' = << >>
    /\ UNCHANGED << mapVars, jobs, worker, updates, disk, keep, scan, evicted, accepted >>

\* Mistake: the chunk is not marked dirty.
IntegrateClean(k, obj) ==
    LET replayed == IF obj.at = k THEN pending[k] ELSE << >>
    IN  /\ slot[k] = "loading"
        /\ slot' = [slot EXCEPT ![k] = "ready"]
        /\ chunk' = [chunk EXCEPT ![k] = [obj EXCEPT !.blocks = Replay(obj.blocks, replayed)]]
        /\ pending' = [pending EXCEPT ![k] = << >>]
        /\ chunkList' = Append(chunkList, k)
        /\ updates' = [updates EXCEPT ![k] = Replay(@, replayed)]
        /\ UNCHANGED saveCursor

\* A finished chunk for an entry that is still LOADING becomes READY and gets
\* the writes that waited for it, unless it carries other coordinates.
Integrate(k, obj) ==
    LET replayed == IF obj.at = k THEN pending[k] ELSE << >>
    IN  /\ slot[k] = "loading"
        /\ slot' = [slot EXCEPT ![k] = "ready"]
        /\ chunk' = [chunk EXCEPT ![k] =
                       [obj EXCEPT !.blocks = Replay(obj.blocks, replayed),
                                   !.dirty = obj.dirty \/ replayed # << >>]]
        /\ pending' = [pending EXCEPT ![k] = << >>]
        /\ chunkList' = Append(chunkList, k)
        /\ updates' = [updates EXCEPT ![k] = Replay(@, replayed)]
        /\ UNCHANGED saveCursor

\* Otherwise it is thrown away.
Discard(k) ==
    /\ slot[k] # "loading"
    /\ UNCHANGED << mapVars, updates >>

IntegrateOne ==
    /\ pc \in {"integrate", "drain"}
    /\ batch # << >>
    /\ batch' = Tail(batch)
    /\ Integrate(Head(batch).key, Head(batch).obj) \/ Discard(Head(batch).key)
    /\ UNCHANGED << loadVars, disk, pc, keep, scan, evicted, accepted >>

\* The save part: from the cursor, round the list, the first dirty chunk gets
\* the one attempt of this tick (ANVIL_SAVE_ATTEMPTS_PER_TICK); when that
\* succeeds and the chunk is marked evict_after_save, it leaves the map.
Position(cursor, d) == (cursor + d) % Len(chunkList)
DirtyOffsets(cursor) ==
    {d \in 0 .. Len(chunkList) - 1 : chunk[chunkList[Position(cursor, d) + 1]].dirty}

\* Mistakes: the chunk leaves the map though its save failed; the round-robin
\* starts over after every save.
SaveAttemptEvicts(k, next, outcome) ==
    /\ disk' = WriteFile(disk, chunk[k].at, chunk[k].blocks, outcome)
    /\ LET ch == [chunk EXCEPT ![k].dirty = (outcome # "ok")]
       IN  IF chunk[k].evict
           THEN RemoveKey(chunk[k].at, ch, next)
           ELSE /\ chunk' = ch
                /\ saveCursor' = next
                /\ UNCHANGED << slot, pending, chunkList >>

SaveAttemptRestarts(k, next, outcome) ==
    /\ disk' = WriteFile(disk, chunk[k].at, chunk[k].blocks, outcome)
    /\ LET ch == [chunk EXCEPT ![k].dirty = (outcome # "ok")]
       IN  IF outcome = "ok" /\ chunk[k].evict
           THEN RemoveKey(chunk[k].at, ch, 0)
           ELSE /\ chunk' = ch
                /\ saveCursor' = 0
                /\ UNCHANGED << slot, pending, chunkList >>

SaveAttempt(k, next, outcome) ==
    /\ disk' = WriteFile(disk, chunk[k].at, chunk[k].blocks, outcome)
    /\ LET ch == [chunk EXCEPT ![k].dirty = (outcome # "ok")]
       IN  IF outcome = "ok" /\ chunk[k].evict
           THEN RemoveKey(chunk[k].at, ch, next)
           ELSE /\ chunk' = ch
                /\ saveCursor' = next
                /\ UNCHANGED << slot, pending, chunkList >>

TickSave ==
    /\ pc = "integrate"
    /\ batch = << >>
    /\ LET cursor == IF saveCursor >= Len(chunkList) THEN 0 ELSE saveCursor
       IN  IF DirtyOffsets(cursor) = {}
           THEN /\ saveCursor' = cursor
                /\ UNCHANGED << slot, chunk, pending, chunkList, disk >>
           ELSE LET i == Position(cursor, Min(DirtyOffsets(cursor)))
                IN  \E outcome \in WriteOutcomes :
                       SaveAttempt(chunkList[i + 1], (i + 1) % Len(chunkList), outcome)
    /\ pc' = "idle"
    /\ UNCHANGED << loadVars, updates, batch, keep, scan, evicted, accepted >>

-----------------------------------------------------------------------------
(* mc_world_evict_outside, called with the keys near any player.           *)

EvictBegin(near) ==
    /\ pc = "idle"
    /\ pc' = "evict"
    /\ keep' = near /\ scan' = 1 /\ evicted' = 0
    /\ UNCHANGED << mapVars, loadVars, updates, disk, batch, accepted >>

\* A chunk to keep, a dirty one to evict once saved, one beyond the budget.
EvictSkip(k) ==
    /\ scan' = scan + 1
    /\ \/ /\ chunk[k].at \in keep
          /\ chunk' = [chunk EXCEPT ![k].evict = FALSE]
       \/ /\ chunk[k].at \notin keep /\ chunk[k].dirty
          /\ chunk' = [chunk EXCEPT ![k].evict = TRUE]
       \/ /\ chunk[k].at \notin keep /\ ~chunk[k].dirty
          /\ evicted >= EvictBudget
          /\ UNCHANGED chunk
    /\ UNCHANGED << slot, pending, chunkList, saveCursor, evicted >>

\* Mistake: a dirty chunk is thrown away.
EvictUnsaved(k) ==
    /\ chunk[k].at \notin keep
    /\ evicted < EvictBudget
    /\ evicted' = evicted + 1
    /\ RemoveKey(chunk[k].at, chunk, saveCursor)
    /\ UNCHANGED scan

EvictNow(k) ==
    /\ chunk[k].at \notin keep
    /\ ~chunk[k].dirty
    /\ evicted < EvictBudget
    /\ evicted' = evicted + 1
    /\ RemoveKey(chunk[k].at, chunk, saveCursor)
    /\ UNCHANGED scan

EvictStep ==
    /\ pc = "evict"
    /\ scan <= Len(chunkList)
    /\ EvictSkip(chunkList[scan]) \/ EvictNow(chunkList[scan])
    /\ UNCHANGED << loadVars, updates, disk, pc, batch, keep, accepted >>

EvictEnd ==
    /\ pc = "evict"
    /\ scan > Len(chunkList)
    /\ pc' = "idle" /\ scan' = 0 /\ evicted' = 0
    /\ UNCHANGED << mapVars, loadVars, updates, disk, batch, keep, accepted >>

-----------------------------------------------------------------------------
(* mc_world_destroy.                                                       *)

\* jobs_stop = true.
DestroyBegin ==
    /\ pc = "idle"
    /\ pc' = "stopping"
    /\ UNCHANGED << mapVars, loadVars, updates, disk, batch, keep, scan, evicted, accepted >>

\* Every worker joined: the done queue is integrated a last time.
DestroyJoined ==
    /\ pc = "stopping"
    /\ \A w \in Workers : worker[w] = Exited
    /\ pc' = "drain"
    /\ batch' = done /\ done' = << >>
    /\ UNCHANGED << mapVars, jobs, worker, updates, disk, keep, scan, evicted, accepted >>

\* Mistake: the last save starts at the second chunk.
DestroyDrainedPast ==
    /\ pc = "drain"
    /\ batch = << >>
    /\ pc' = "lastsave" /\ scan' = 2
    /\ UNCHANGED << mapVars, loadVars, updates, disk, batch, keep, evicted, accepted >>

DestroyDrained ==
    /\ pc = "drain"
    /\ batch = << >>
    /\ pc' = "lastsave" /\ scan' = 1
    /\ UNCHANGED << mapVars, loadVars, updates, disk, batch, keep, evicted, accepted >>

\* Every dirty chunk of the list is saved, one attempt each.
DestroySave ==
    /\ pc = "lastsave"
    /\ scan <= Len(chunkList)
    /\ scan' = scan + 1
    /\ IF chunk[chunkList[scan]].dirty
       THEN \E outcome \in WriteOutcomes : Saved(chunkList[scan], outcome)
       ELSE UNCHANGED << chunk, disk >>
    /\ UNCHANGED << slot, pending, chunkList, saveCursor, loadVars, updates,
                    pc, batch, keep, evicted, accepted >>

DestroyEnd ==
    /\ pc = "lastsave"
    /\ scan > Len(chunkList)
    /\ pc' = "destroyed"
    /\ UNCHANGED << mapVars, loadVars, updates, disk, batch, keep, scan, evicted, accepted >>

-----------------------------------------------------------------------------
Caller ==
    \E k \in Chunks :
        \/ \E prio \in Priorities : GetChunk(k, prio)
        \/ \E b \in Locals, s \in States : SetBlock(k, b, s)
        \/ MarkDirty(k)
        \/ FlushBlock(k)

Worker(w) ==
    WorkerPop(w) \/ WorkerRead(w) \/ WorkerResave(w) \/ WorkerPush(w) \/ WorkerExit(w)

Tick == TickBegin \/ IntegrateOne \/ TickSave \/ ClearUpdates

Evict == (\E near \in SUBSET Chunks : EvictBegin(near)) \/ EvictStep \/ EvictEnd

Destroy == DestroyBegin \/ DestroyJoined \/ DestroyDrained \/ DestroySave \/ DestroyEnd

\* mc_world_destroy has returned.
Stopped == pc = "destroyed" /\ UNCHANGED vars

Next == Caller \/ (\E w \in Workers : Worker(w)) \/ Tick \/ Evict \/ Destroy \/ Stopped

Spec == Init /\ [][Next]_vars

Fairness ==
    /\ \A w \in Workers : WF_vars(Worker(w))
    /\ SF_vars(TickBegin) /\ WF_vars(IntegrateOne) /\ WF_vars(TickSave)
    /\ WF_vars(EvictStep) /\ WF_vars(EvictEnd)
    /\ WF_vars(DestroyJoined \/ DestroyDrained \/ DestroySave \/ DestroyEnd)

FairSpec == Spec /\ Fairness

-----------------------------------------------------------------------------
(* The chunks whose files can be loaded; worker_main replaces the others by  *)
(* generated terrain, so nothing is promised of what was stored there.       *)

Healthy == Chunks \ (Unreadable \cup Undecodable)

-----------------------------------------------------------------------------
(* Who is loading a chunk, and what it has loaded.                         *)

Busy(w) == worker[w].pc \in {"read", "resave", "push"}
Holding(w) == worker[w].pc \in {"resave", "push"}

Keyed(q, k) == {i \in DOMAIN q : q[i].key = k}
BusyOn(k) == {w \in Workers : Busy(w) /\ worker[w].key = k}

\* The places where the load of k is: a queued job, a worker, a result.
Loads(k) ==
    {<< "job", i >> : i \in Keyed(jobs, k)}
    \cup {<< "worker", w >> : w \in BusyOn(k)}
    \cup {<< "done", i >> : i \in Keyed(done, k)}
    \cup {<< "batch", i >> : i \in Keyed(batch, k)}

\* The chunk objects loaded for k that are not in the map yet.
LoadedFor(k) ==
    {worker[w].obj : w \in {v \in BusyOn(k) : Holding(v)}}
    \cup {done[i].obj : i \in Keyed(done, k)}
    \cup {batch[i].obj : i \in Keyed(batch, k)}

-----------------------------------------------------------------------------
(* Safety.                                                                 *)

\* A LOADING entry has exactly one load under way, any other entry none: no
\* chunk is loaded twice at once, none waits for a job that was dropped, and
\* no worker reads or writes a file the tick thread may be saving.
OneLoader ==
    \A k \in Chunks :
        IF slot[k] = "loading" THEN \E t \in Loads(k) : Loads(k) = {t}
                               ELSE Loads(k) = {}

\* chunk_list holds every READY chunk once, whatever order chunks come and
\* go in, and the save cursor stays inside it.
ListMatchesMap ==
    /\ \A k \in Chunks : slot[k] = "ready" <=> \E i \in DOMAIN chunkList : chunkList[i] = k
    /\ \A i, j \in DOMAIN chunkList : chunkList[i] = chunkList[j] => i = j
    /\ saveCursor = 0 \/ saveCursor < Len(chunkList)

\* "The READY chunk reflects every earlier write the server already accepted"
\* (apply_pending_mods), through loads, saves, failed saves and evictions; a
\* chunk that is not READY still has it, in a loaded object, in its file or
\* among the pending writes.
ReadyHoldsAccepted ==
    \A k \in Healthy : slot[k] = "ready" => chunk[k].blocks = accepted[k]

NoLostWrite ==
    /\ ReadyHoldsAccepted
    /\ \A k \in Healthy :
          slot[k] # "ready" =>
              IF LoadedFor(k) = {}
              THEN Replay(Image(k), pending[k]) = accepted[k]
              ELSE \A o \in LoadedFor(k) : Replay(o.blocks, pending[k]) = accepted[k]

\* A chunk that is not dirty equals its file: what eviction throws away and
\* the last save skips is on disk.
CleanIsSaved ==
    \A k \in Chunks :
        /\ slot[k] = "ready" /\ ~chunk[k].dirty => disk[k] = chunk[k].blocks
        /\ \A o \in LoadedFor(k) : ~o.dirty => disk[k] = o.blocks

\* A file cut short by a failed write is never the only copy: its chunk is
\* in memory and dirty, so that it cannot be evicted and is saved again.
TornFileHasCopy ==
    \A k \in Chunks :
        disk[k] = Torn =>
            \/ slot[k] = "ready" /\ chunk[k].dirty
            \/ LoadedFor(k) # {} /\ \A o \in LoadedFor(k) : o.dirty

\* A queued block update carries the value the block has, even when its chunk
\* was evicted, or evicted and loaded again, since it was queued.
UpdatesAreCurrent ==
    \A k \in Healthy, b \in Locals :
        updates[k][b] # NoUpdate =>
            IF slot[k] = "ready" THEN updates[k][b] = chunk[k].blocks[b]
            ELSE IF LoadedFor(k) = {} THEN updates[k][b] = Image(k)[b]
            ELSE \A o \in LoadedFor(k) : updates[k][b] = o.blocks[b]

\* Readers see a plain block store: not ready, or exactly what was accepted.
Store == [k \in Healthy |-> accepted[k]]
View == [k \in Healthy |-> IF slot[k] = "ready" THEN chunk[k].blocks ELSE NoChunk]
Abstract == INSTANCE BlockStore WITH
                Chunks <- Healthy, store <- Store, view <- View, NotReady <- NoChunk
ImplementsBlockStore == Abstract!BSSpec

-----------------------------------------------------------------------------
(* Liveness, while the world is not being destroyed.                       *)

\* Once chunks stop leaving the map, a dirty chunk is saved however often the
\* callers change the others: the round-robin of TickSave passes over nobody.
\* (While chunks keep leaving, chunk_list_remove may put a chunk from the end
\* of the list before the next one to save each time, and starve that one.)
Settled == <>[][Len(chunkList') >= Len(chunkList)]_vars
DirtyIsSaved ==
    Settled => \A k \in Chunks :
        (slot[k] = "ready" /\ chunk[k].dirty) ~> ~(slot[k] = "ready" /\ chunk[k].dirty)

\* Once the callers ask for nothing more, every chunk they asked for loads.
Quiet == <>[][~Caller]_vars
RequestIsServed ==
    Quiet => \A k \in Chunks : slot[k] = "loading" ~> slot[k] # "loading"

\* Every accepted write is in a file, except where saves fail.
Kept ==
    \A k \in Healthy :
        /\ pending[k] = << >>
        /\ \/ Image(k) = accepted[k]
           \/ WriteOutcomes # {"ok"} /\ slot[k] = "ready" /\ chunk[k].dirty

\* mc_world_destroy returns, every worker having left its loop, and no accepted
\* write is lost then, those that still waited for a load included.
DestroySaves == (pc = "stopping") ~> (pc = "destroyed" /\ Kept)
=============================================================================
