------------------------------- MODULE MCSolo -------------------------------
(***************************************************************************)
(* The parts that concern one player, one connection, one chest or one data *)
(* structure. They share no state here, so one run explores them side by   *)
(* side: each behaviour is that of one part, the others stay as they began.*)
(***************************************************************************)
EXTENDS Mining, Eating, Survival, Falling, Session, Chests, Framing, Sections, Tables, TLC

\* Mining: a layer of snow, which wants a shovel, leaves, and the two extremes.
Hardness == "snow" :> 10 @@ "leaves" :> 20 @@ "torch" :> 0 @@ "bedrock" :> -1
Speeds == [t \in {"hands", "shovel"} |->
              [k \in DOMAIN Hardness |-> IF t = "shovel" /\ k = "snow" THEN 200 ELSE 100]]
FitTable == "hands" :> {} @@ "shovel" :> {"snow"}

\* Eating
Nutrition == "bread" :> 1 @@ "apple" :> 2

\* Survival: a snack, and something edible that fills without being wanted.
Meals == {[nutrition |-> 1, saturation |-> 0, always |-> FALSE],
          [nutrition |-> 2, saturation |-> 2, always |-> TRUE]}

\* Framing: frames of one, two and four bytes; junk that is an empty frame, a
\* length without an end, and a frame whose packet id has none.
SomePackets == {[id |-> 0, payload |-> <<>>], [id |-> 1, payload |-> <<3>>],
                [id |-> 2, payload |-> <<0, 2>>]}
SomeJunk == {<<0>>, <<2, 2, 2>>, <<1, 2>>}

\* Tables: keys that share a cell, some of them only until the table grows.
Hashes == "a" :> 3 @@ "b" :> 3 @@ "c" :> 7 @@ "d" :> 0 @@ "e" :> 5 @@ "f" :> 11

\* Bound: no more goods than the chest's world began with; once some were doubled
\* the run goes no further.
NoExcess == Goods <= Total

VARIABLE part

parts == <<part, miningVars, eatingVars, survivalVars, fallingVars, sessionVars,
           chestVars, framingVars, sectionVars, tableVars>>

SoloInit ==
    /\ part \in {"mining", "eating", "survival", "falling", "session",
                "chests", "framing", "sections", "tables"}
    /\ MiningInit
    /\ EatingInit
    /\ SurvivalInit
    /\ FallingInit
    /\ SessionInit
    /\ ChestsInit /\ (part # "chests" => onDisk.goods = NoEntity)
    /\ FramingInit
    /\ SectionsInit
    /\ TablesInit

SoloNext ==
    \/ /\ part = "mining" /\ MiningNext
       /\ UNCHANGED <<part, eatingVars, survivalVars, fallingVars, sessionVars,
                      chestVars, framingVars, sectionVars, tableVars>>
    \/ /\ part = "eating" /\ EatingNext
       /\ UNCHANGED <<part, miningVars, survivalVars, fallingVars, sessionVars,
                      chestVars, framingVars, sectionVars, tableVars>>
    \/ /\ part = "survival" /\ SurvivalNext
       /\ UNCHANGED <<part, miningVars, eatingVars, fallingVars, sessionVars,
                      chestVars, framingVars, sectionVars, tableVars>>
    \/ /\ part = "falling" /\ FallingNext
       /\ UNCHANGED <<part, miningVars, eatingVars, survivalVars, sessionVars,
                      chestVars, framingVars, sectionVars, tableVars>>
    \/ /\ part = "session" /\ SessionNext
       /\ UNCHANGED <<part, miningVars, eatingVars, survivalVars, fallingVars,
                      chestVars, framingVars, sectionVars, tableVars>>
    \/ /\ part = "chests" /\ ChestsNext
       /\ UNCHANGED <<part, miningVars, eatingVars, survivalVars, fallingVars,
                      sessionVars, framingVars, sectionVars, tableVars>>
    \/ /\ part = "framing" /\ FramingNext
       /\ UNCHANGED <<part, miningVars, eatingVars, survivalVars, fallingVars,
                      sessionVars, chestVars, sectionVars, tableVars>>
    \/ /\ part = "sections" /\ SectionsNext
       /\ UNCHANGED <<part, miningVars, eatingVars, survivalVars, fallingVars,
                      sessionVars, chestVars, framingVars, tableVars>>
    \/ /\ part = "tables" /\ TablesNext
       /\ UNCHANGED <<part, miningVars, eatingVars, survivalVars, fallingVars,
                      sessionVars, chestVars, framingVars, sectionVars>>

SoloSpec == SoloInit /\ [][SoloNext]_parts

\* Each part's variables have the values its code can give them: a running dig has
\* a breakable block and a time, an eating player holds the button, the
\* dead have no health, a loading worker has a loading chunk.
SoloTypeOK ==
    /\ part = "mining" => MiningTypeOK
    /\ part = "eating" => EatingTypeOK
    /\ part = "survival" => SurvivalTypeOK
    /\ part = "falling" => FallingTypeOK
    /\ part = "session" => SessionTypeOK
    /\ part = "chests" => ChestsTypeOK
    /\ part = "framing" => FramingTypeOK
    /\ part = "sections" => SectionsTypeOK
    /\ part = "tables" => TablesTypeOK

\* The data structures under all of it: bytes become the packets that were sent,
\* sections keep the block states put into them, hash tables find the keys put
\* into them.
StructuresHold ==
    /\ part = "framing" => FramesWhole
    /\ part = "sections" => SectionHolds
    /\ part = "tables" => TableHolds
=============================================================================
