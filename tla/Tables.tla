------------------------------- MODULE Tables -------------------------------
(***************************************************************************)
(* Open addressing with tombs, which the server has three times: the chunk *)
(* map (world.c), the store of block entities (block_entity_store.c) and   *)
(* the set of chunks a client was sent (play.c).  Capacities are powers of *)
(* two and only grow.  The values beside the keys are left out.            *)
(***************************************************************************)
EXTENDS Naturals, FiniteSets, FiniteSetsExt

CONSTANTS
    Key,     \* chunk keys, block positions
    HashOf,  \* [Key -> Nat]: hash_u64, hash_pos
    Gap,     \* an EMPTY cell
    Tomb,    \* a TOMB cell
    MinCap,  \* the smallest capacity
    MaxCap   \* bound: no table grows beyond it

ASSUME TablesAssumption ==
    /\ HashOf \in [Key -> Nat]
    /\ Gap \notin Key /\ Tomb \notin Key /\ Gap # Tomb
    /\ MinCap \in Nat /\ MinCap >= 4 /\ MaxCap \in Nat /\ MaxCap >= MinCap

VARIABLES
    table,   \* [cells, len, tombs]
    members  \* history: the keys put and not removed

tableVars == <<table, members>>

CapOf(cells) == Cardinality(DOMAIN cells)
Blanks(cap) == [i \in 0..(cap - 1) |-> Gap]
Bare(cap) == [cells |-> Blanks(cap), len |-> 0, tombs |-> 0]
-----------------------------------------------------------------------------
(* Searching: the cells from the key's own on, up to the first EMPTY one.  *)

CellAt(cells, k, d) == (HashOf[k] + d) % CapOf(cells)
Probed(cells, k) ==
    {d \in 0..(CapOf(cells) - 1) : \A f \in 0..d : cells[CellAt(cells, k, f)] # Gap}
Has(cells, k) == \E d \in Probed(cells, k) : cells[CellAt(cells, k, d)] = k

\* Where a key that is not there goes: the first tomb on the way, or the
\* EMPTY cell at its end.
Target(cells, k) ==
    LET tombs == {d \in Probed(cells, k) : cells[CellAt(cells, k, d)] = Tomb}
    IN  CellAt(cells, k, IF tombs # {} THEN Min(tombs) ELSE Cardinality(Probed(cells, k)))

\* Mutant: the search for the key stops at the first tomb.
FilledEarly(t, k) ==
    LET at == Target(t.cells, k)
    IN  IF t.cells[at] # Tomb /\ Has(t.cells, k) THEN t
        ELSE [cells |-> [t.cells EXCEPT ![at] = k],
              len |-> t.len + 1,
              tombs |-> t.tombs - (IF t.cells[at] = Tomb THEN 1 ELSE 0)]

Filled(t, k) ==
    IF Has(t.cells, k) THEN t
    ELSE LET at == Target(t.cells, k)
         IN  [cells |-> [t.cells EXCEPT ![at] = k],
              len |-> t.len + 1,
              tombs |-> t.tombs - (IF t.cells[at] = Tomb THEN 1 ELSE 0)]

\* chunk_map_rehash, store_rehash, sent_chunks_rehash: the old cells in order,
\* their tombs left behind.
Rehashed(t, cap) ==
    LET upTo[i \in 0..CapOf(t.cells)] ==
            IF i = 0 THEN Bare(cap)
            ELSE IF t.cells[i - 1] \in Key THEN Filled(upTo[i - 1], t.cells[i - 1])
            ELSE upTo[i - 1]
    IN  upTo[CapOf(t.cells)]

\* chunk_map_maybe_grow: from seven tenths in use, dead or alive, twice the room.
Crowded(t) == (t.len + t.tombs) * 10 >= CapOf(t.cells) * 7
Grown(t) == IF Crowded(t) THEN Rehashed(t, 2 * CapOf(t.cells)) ELSE t
-----------------------------------------------------------------------------
\* chunk_map_put_loading, mc_be_store_put, sent_chunks_insert: room is made
\* before the key is looked for. An allocation that fails changes nothing.
PutKey(k) ==
    /\ CapOf(Grown(table).cells) <= MaxCap
    /\ table' = Filled(Grown(table), k)
    /\ members' = members \cup {k}

\* chunk_map_remove_key, a load that failed, mc_be_store_remove and
\* sent_chunks_remove
RemoveKey(k) ==
    /\ table' = IF ~Has(table.cells, k) THEN table
                ELSE LET d == CHOOSE d \in Probed(table.cells, k) :
                                     /\ table.cells[CellAt(table.cells, k, d)] = k
                                     /\ \A f \in 0..(d - 1) : table.cells[CellAt(table.cells, k, f)] # k
                     IN  [cells |-> [table.cells EXCEPT ![CellAt(table.cells, k, d)] = Tomb],
                          len |-> table.len - 1, tombs |-> table.tombs + 1]
    /\ members' = members \ {k}

\* sent_chunks_clear: a respawn or a join; the room stays.
ClearKeys ==
    /\ table' = Bare(CapOf(table.cells))
    /\ members' = {}

TablesInit == table = Bare(MinCap) /\ members = {}

TablesNext ==
    \/ \E k \in Key : PutKey(k) \/ RemoveKey(k)
    \/ ClearKeys

TablesSpec == TablesInit /\ [][TablesNext]_tableVars
-----------------------------------------------------------------------------
TablesTypeOK ==
    /\ \A i \in DOMAIN table.cells : table.cells[i] \in Key \cup {Gap, Tomb}
    /\ CapOf(table.cells) \in MinCap..MaxCap
    /\ members \subseteq Key

\* A key is found just when it was put and not removed since, whatever keys share
\* its cell, were removed between it and its cell, or were moved when the table
\* grew; the counts that decide on growing are those of the cells; and one
\* cell at least stays EMPTY, without which no search for a missing key ends.
TableHolds ==
    LET cells == table.cells
        Those(c) == {i \in DOMAIN cells : cells[i] = c}
    IN  /\ \A k \in Key : Has(cells, k) <=> k \in members
        /\ table.len = Cardinality({i \in DOMAIN cells : cells[i] \in Key})
        /\ table.tombs = Cardinality(Those(Tomb))
        /\ Those(Gap) # {}
=============================================================================
