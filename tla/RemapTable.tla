----------------------------- MODULE RemapTable -----------------------------
(***************************************************************************)
(* How the block remap table of one bank is filled (llf.c, llf_lib.c).     *)
(*                                                                         *)
(* When one plane of a multi-plane block is bad the other planes are still *)
(* good: they are collected, plane by plane, and later paired with good    *)
(* planes of other broken groups.  The collector of a bank is a record:    *)
(*                                                                         *)
(*   mp    guwMpDefectBlock: the broken group being collected, or None     *)
(*   temp  guwRemapTempBlock: its good block in each plane, or None        *)
(*   tab   the bank's part of BLK_REMAP_TABLE: per plane the good blocks   *)
(*         in the order they were found; guwRemapFlag is their number      *)
(***************************************************************************)
EXTENDS DefectTable, Sequences

CONSTANT TableLen   \* CONFIG_REMAP_TABLE_PER_BANK: entries per plane

ASSUME TableAssumption == TableLen \in 0 .. 256

None == 65535       \* 0xFFFF

PlaneSet == 0 .. (Planes - 1)

Collector == [mp : Nat, temp : [PlaneSet -> Nat], tab : [PlaneSet -> Seq(Nat)]]

\* LlfInitReMapTable, one bank.
LlfInitReMapTable ==
    [ mp   |-> None,
      temp |-> [p \in PlaneSet |-> None],
      tab  |-> [p \in PlaneSet |-> <<>>] ]

\* Moves the good planes of the collected group into the table; a plane whose
\* part of the table is full drops its block.
LlfCreatReMappingTable(c) ==
    [ mp   |-> c.mp,
      temp |-> [p \in PlaneSet |-> None],
      tab  |-> [p \in PlaneSet |->
                  IF Len(c.tab[p]) < TableLen /\ c.temp[p] # None
                  THEN Append(c.tab[p], c.temp[p])
                  ELSE c.tab[p]] ]

\* A further bad block of the group being collected: its own plane is taken
\* out and the planes after it are put (back) in.
SameGroup(c, blk) ==
    [ mp   |-> c.mp,
      temp |-> [p \in PlaneSet |->
                  CASE p = PlaneOf(blk) -> None
                    [] p > PlaneOf(blk) -> Group(blk) * Planes + p
                    [] OTHER            -> c.temp[p]],
      tab  |-> c.tab ]

\* The first bad block of another group: the collected one is written out.
NewGroup(c, blk) ==
    LET flushed == IF c.mp # None THEN LlfCreatReMappingTable(c) ELSE c
    IN  [ mp   |-> Group(blk),
          temp |-> [p \in PlaneSet |->
                      IF p = PlaneOf(blk) THEN None ELSE Group(blk) * Planes + p],
          tab  |-> flushed.tab ]

CollectBad(c, blk) == IF c.mp = Group(blk) THEN SameGroup(c, blk) ELSE NewGroup(c, blk)
=============================================================================
