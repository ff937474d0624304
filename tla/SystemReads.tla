---------------------------- MODULE SystemReads ----------------------------
(***************************************************************************)
(* What the readers of an earlier system share: the flash they read, the   *)
(* tables they fill, and what one read of a page can bring; and the first  *)
(* reader, LlfInheritRemappingTable.                                       *)
(*                                                                         *)
(* A page that was written is good; weak, when only llfReadRetry, with     *)
(* other voltages, can read it; or bad.  The page that was programmed when *)
(* the power went is bad.  Besides, the flash may not answer a read in     *)
(* time: then the buffers keep what they held.                             *)
(***************************************************************************)
EXTENDS RemapTable, Integers, FiniteSets

CONSTANTS
    BankNum,      \* NandPara.ubBankNum
    SysBankNum,   \* SYS_BANK_NUM: banks that hold copies of the firmware
    SblkBlks,     \* SYS_BLK: copies in a bank
    ExtSys,       \* EXTEND_SYS_BLK: blocks of a bank the copies may move to
    ExtRdt,       \* EXTEND_RDT_BLK: blocks behind the copies, for the reliability test
    MpNum,        \* NandPara.uwMpBlockNumPerLun
    MaxFaults     \* bound: pages that are spoiled, and reads that are not answered

Bank == 0 .. (BankNum - 1)
Mp == 0 .. (MpNum - 1)
Blk == 0 .. (MpNum * Planes - 1)
Place == Bank \X Blk
NoPlace == <<BankNum, 0>>
SysBanks == IF BankNum > SysBankNum THEN SysBankNum ELSE BankNum
Empty == [b \in Bank |-> {}]

\* A window: the first bank (gubSblkBankStart) and block (gubSblkStart) of the copies.
Window == [bank : Bank, start : 0 .. ExtSys]
InWindow(w, p) == p[2] \in w.start .. (w.start + SblkBlks - 1)
Copies(w) == {p \in Place : InWindow(w, p) /\ p[1] \in w.bank .. (w.bank + SysBanks - 1)}
MapOf(w) == {<<p[1], p[2] - w.start>> : p \in Copies(w)}

\* The blocks behind the copies.
TestBlocks(w) == (w.start + SblkBlks) .. (w.start + SblkBlks + ExtRdt - 1)

\* The pages that matter.  A copy of the firmware begins with a "head", the
\* configuration; "body" stands for the table of defects behind it and "remap", 0, for
\* the table of replacements.  The drive writes its state to "dyn" pages and what it
\* knows of its superblocks to "snap" pages.  The reliability test leaves "result" pages,
\* a table of replacements ("remap", 1) and a "static" table of bad blocks.
PageAt(kind, p, n) == [kind |-> kind, at |-> p, n |-> n]

ASSUME ReadsAssumption ==
    /\ BankNum \in Nat \ {0} /\ SysBankNum \in Nat \ {0}
    /\ SblkBlks \in Nat \ {0} /\ ExtSys \in Nat /\ ExtRdt \in Nat \ {0}
    /\ MpNum \in Nat \ {0} /\ SysMax <= MpNum * Planes
    /\ ExtSys + SblkBlks + ExtRdt <= SysMax
    /\ MaxFaults \in Nat

VARIABLES
    pages,           \* the pages that were written
    spoiled,         \* some of them: page |-> "weak", "bad", "over"
    lost,            \* reads that were not answered
    gubLLFMode,      \* "DEFECT" (LLF_DEFECT_BAD_BLOCK), or "INHERIT" for the others
    window,          \* where the reader looks for the copies
    gulSblkCHCEMap,  \* the copies, as pairs of bank and block of the window
    dbt, sysDbt,     \* DefectTable
    gfDBTInitDone,   \* where the tables are from: "NONE", "RDT", "SYSTEM"
    guwRealMPBlkNum, \* groups in use; those behind them are replacements
    remapFrom,       \* the block the table of replacements was read from
    pc,
    at,              \* the place that is read next
    ret

flash  == <<pages, spoiled, gubLLFMode>>
where  == <<window, gulSblkCHCEMap>>
tables == <<dbt, sysDbt, gfDBTInitDone, guwRealMPBlkNum>>

Quality(pg) ==
    IF pg \notin pages THEN "none"
    ELSE IF pg \in DOMAIN spoiled THEN spoiled[pg] ELSE "good"

\* A page of an "over" head is readable, but of another format.
Readable(pg) == Quality(pg) \in {"good", "over"}

\* llfReadRetry, after the read.
llfReadRetry(pg) == Readable(pg) \/ Quality(pg) = "weak"

\* llfReadSBlock does not try the copies of the window again.
llfReadSBlock(pg) == IF InWindow(window, pg.at) THEN Readable(pg) ELSE llfReadRetry(pg)

\* A read is answered, or not in time; what was read, or was not.
Faults == lost + Cardinality(DOMAIN spoiled)
TimesOut == Faults < MaxFaults /\ lost' = lost + 1
Reads(readable) == readable /\ UNCHANGED lost
Misses(readable) == \/ ~readable /\ UNCHANGED lost
                    \/ TimesOut

\* The next place of a search by blocks, and of one by banks.
NextByBlock(p) == IF p[1] + 1 < BankNum THEN <<p[1] + 1, p[2]>> ELSE <<0, p[2] + 1>>
NextByBank(p, first, end) ==
    IF p[2] + 1 < end THEN <<p[1], p[2] + 1>> ELSE <<p[1] + 1, first>>

------------------------------------------------------------------------------
(* LlfInheritRemappingTable: the first block all pages of which can be     *)
(* read; those of the reliability test follow its results.                 *)

RemapFirst == IF gubLLFMode = "DEFECT" THEN window.start + SblkBlks ELSE window.start
RemapEnd == window.start + SblkBlks + ExtRdt
RemapPage_OfTest == PageAt("remap", at, IF gfDBTInitDone = "NONE" THEN 0 ELSE 1)
RemapPage == PageAt("remap", at, IF gfDBTInitDone = "SYSTEM" THEN 0 ELSE 1)

\* at is where the search begins.
StartRemap == pc' = "remap" /\ at' = <<0, RemapFirst>>

RemapRead ==
    /\ pc = "remap" /\ at[1] < BankNum
    /\ Reads(llfReadRetry(RemapPage))
    /\ remapFrom' = at /\ pc' = "remap done"
    /\ UNCHANGED <<flash, where, tables, at, ret>>

RemapMissed ==
    /\ pc = "remap" /\ at[1] < BankNum
    /\ Misses(llfReadRetry(RemapPage))
    /\ at' = NextByBank(at, RemapFirst, RemapEnd)
    /\ UNCHANGED <<flash, where, tables, remapFrom, pc, ret>>

\* Both callers report the last error as this one.
RemapNotFound ==
    /\ pc = "remap" /\ at[1] = BankNum
    /\ pc' = "end" /\ ret' = "ERR_READ_RDT"
    /\ UNCHANGED <<flash, lost, where, tables, remapFrom, at>>

LlfInheritRemappingTable == RemapRead \/ RemapMissed \/ RemapNotFound
=============================================================================
