------------------------------ MODULE Sections ------------------------------
(***************************************************************************)
(* One chunk section (paletted_container.c): uniform at first, then        *)
(* indices into a palette, then block states themselves once the palette   *)
(* is full; indices and states are packed into words, a value may lie      *)
(* across two.  A word is a sequence of bits, the lowest first.            *)
(***************************************************************************)
EXTENDS Integers, Sequences, FiniteSets

CONSTANTS
    Volume,      \* MC_SECTION_VOLUME
    WordBits,    \* 64
    PaletteBits, \* MC_PALETTE_BITS
    DirectBits,  \* MC_DIRECT_BITS
    BlockStates, \* valid block states
    AirStates    \* those with MC_BLOCK_FLAG_IS_AIR

Shifted[j \in 0..WordBits] == IF j = 0 THEN 1 ELSE 2 * Shifted[j - 1] \* 1 << j
Capacity == Shifted[PaletteBits]  \* MC_PALETTE_CAPACITY

ASSUME SectionsAssumption ==
    /\ Volume \in Nat \ {0} /\ WordBits \in Nat
    /\ PaletteBits \in 1..WordBits /\ DirectBits \in 1..WordBits /\ PaletteBits < DirectBits
    /\ BlockStates \subseteq 0..(Shifted[DirectBits] - 1) /\ AirStates \subseteq BlockStates

VARIABLES
    width,   \* bits_per_block
    uniform, \* uniform_state
    palette, \* palette[0..palette_len - 1]
    words,   \* the packed values
    nonAir,  \* non_air_blocks_count
    cells    \* history: the state last set in each cell

sectionVars == <<width, uniform, palette, words, nonAir, cells>>

Cell == 0..(Volume - 1)
-----------------------------------------------------------------------------
(* Words of bits.                                                          *)

WordCount(bits) == (Volume * bits + WordBits - 1) \div WordBits
Blank(bits) == [w \in 0..(WordCount(bits) - 1) |-> [b \in 0..(WordBits - 1) |-> 0]]
Bit(v, j) == (v \div Shifted[j]) % 2

\* unpack_value
Unpack(ws, i, bits) ==
    LET at == (i * bits) % WordBits
        word == (i * bits) \div WordBits
        spill == at + bits - WordBits
        bit(j) == IF j < WordBits - at THEN ws[word][at + j]
                  ELSE IF spill > 0 THEN ws[word + 1][j - (bits - spill)] ELSE 0
        value[j \in 0..bits] == IF j = 0 THEN 0 ELSE value[j - 1] + bit(j - 1) * Shifted[j - 1]
    IN  value[bits]

\* pack_value: the low part into its word, what spills into the next one.
Pack(ws, i, bits, v) ==
    LET at == (i * bits) % WordBits
        word == (i * bits) \div WordBits
        spill == at + bits - WordBits
    IN  [w \in DOMAIN ws |-> [b \in 0..(WordBits - 1) |->
            IF w = word /\ b \in at..(at + bits - 1) THEN Bit(v, b - at)
            ELSE IF w = word + 1 /\ b < spill THEN Bit(v, b + bits - spill)
            ELSE ws[w][b]]]
-----------------------------------------------------------------------------
LocalId(p, s) == CHOOSE i \in 0..(Len(p) - 1) : p[i + 1] = s
InPalette(p, s) == \E i \in DOMAIN p : p[i] = s

\* mc_paletted_container_get_block
StateAt(i) ==
    IF width = 0 THEN uniform
    ELSE IF width = DirectBits THEN Unpack(words, i, width)
    ELSE LET v == Unpack(words, i, width)
         IN  IF v >= Len(palette) THEN 0 ELSE palette[v + 1]

\* promote_palette4_to_direct15
Unpaletted ==
    LET upTo[i \in 0..Volume] ==
            IF i = 0 THEN Blank(DirectBits)
            ELSE Pack(upTo[i - 1], i - 1, DirectBits,
                      palette[Unpack(words, i - 1, PaletteBits) + 1])
    IN  upTo[Volume]

\* The three representations a set can leave: in a palette that is new, has
\* the state or has room for it, or without one.
SetPaletted(i, s, p, ws) ==
    /\ width' = PaletteBits
    /\ palette' = p
    /\ words' = Pack(ws, i, PaletteBits, LocalId(p, s))
    /\ UNCHANGED uniform
SetDirect(i, s, ws) ==
    /\ width' = DirectBits
    /\ palette' = <<>>
    /\ words' = Pack(ws, i, DirectBits, s)
    /\ UNCHANGED uniform

CountChange(old, new) ==
    IF (old \in AirStates) = (new \in AirStates) THEN 0 ELSE IF new \in AirStates THEN -1 ELSE 1

\* mc_paletted_container_set_block; an allocation that fails changes nothing.
SetSection(i, s) ==
    /\ StateAt(i) # s
    /\ \/ width = 0 /\ SetPaletted(i, s, <<uniform, s>>, Blank(PaletteBits))
       \/ width = PaletteBits /\ InPalette(palette, s) /\ SetPaletted(i, s, palette, words)
       \/ /\ width = PaletteBits /\ ~InPalette(palette, s) /\ Len(palette) < Capacity
          /\ SetPaletted(i, s, Append(palette, s), words)
       \/ /\ width = PaletteBits /\ ~InPalette(palette, s) /\ Len(palette) = Capacity
          /\ SetDirect(i, s, Unpaletted)
       \/ width = DirectBits /\ SetDirect(i, s, words)
    /\ nonAir' = nonAir + CountChange(StateAt(i), s)
    /\ cells' = [cells EXCEPT ![i] = s]

SectionsInit ==
    \E fill \in AirStates :
        /\ fill = CHOOSE s \in AirStates : TRUE
        /\ width = 0 /\ uniform = fill /\ palette = <<>> /\ words = <<>>
        /\ nonAir = 0
        /\ cells = [i \in Cell |-> fill]

SectionsNext == \E i \in Cell, s \in BlockStates : SetSection(i, s)

SectionsSpec == SectionsInit /\ [][SectionsNext]_sectionVars
-----------------------------------------------------------------------------
SectionsTypeOK ==
    /\ width \in {0, PaletteBits, DirectBits}
    /\ Len(palette) <= Capacity
    /\ \A i, j \in DOMAIN palette : palette[i] = palette[j] => i = j
    /\ nonAir \in 0..Volume

\* Every cell has the state it was last given and the count is that of the cells
\* that are not air, through both promotions and with values across words.
SectionHolds ==
    /\ \A i \in Cell : StateAt(i) = cells[i]
    /\ nonAir = Cardinality({i \in Cell : cells[i] \notin AirStates})
=============================================================================
