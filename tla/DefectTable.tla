---------------------------- MODULE DefectTable ----------------------------
(***************************************************************************)
(* The two defect tables of the low-level format (llf_lib_com.c).          *)
(*                                                                         *)
(*  - the DBT (DBT_ADDR) has one bit per multi-plane block ("group") of a  *)
(*    bank: a block is bad when its group is;                              *)
(*  - the system DBT (SYS_BLK_DBT_ADDR) has one bit per single block, and  *)
(*    exists only for the first SYSTEM_BLOCK_MAX_NUM blocks of a bank.     *)
(*                                                                         *)
(* A table is a function from banks to the set of its marked numbers.      *)
(***************************************************************************)
EXTENDS Naturals

CONSTANTS
    Planes,  \* NandPara.ubPlaneNumPerLun: blocks in a multi-plane block
    SysMax   \* SYSTEM_BLOCK_MAX_NUM: blocks a system block is looked for in

ASSUME GeometryAssumption ==
    /\ Planes \in Nat \ {0}
    /\ SysMax \in Nat \ {0}
    /\ SysMax % Planes = 0

Group(blk) == blk \div Planes

PlaneOf(blk) == blk % Planes

BlocksOf(group) == {group * Planes + p : p \in 0 .. (Planes - 1)}

llfIsMpBlockBad(dbt, bank, group) == group \in dbt[bank]

llfIsBlockBad(dbt, bank, blk) == llfIsMpBlockBad(dbt, bank, Group(blk))

llfMarkUserMPBlkDefect(dbt, bank, group) ==
    [dbt EXCEPT ![bank] = @ \cup {group}]

\* Marking a group that is marked already changes nothing.
llfSetDBT(dbt, bank, blk) == llfMarkUserMPBlkDefect(dbt, bank, Group(blk))

llfIsSystemBlkDefect(sys, bank, blk) == blk \in sys[bank]

llfMarkSystemBlkDefect(sys, bank, blk) == [sys EXCEPT ![bank] = @ \cup {blk}]

llfUnMarkSystemBlkDefect(sys, bank, blk) == [sys EXCEPT ![bank] = @ \ {blk}]
=============================================================================
