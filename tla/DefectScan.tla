----------------------------- MODULE DefectScan -----------------------------
(***************************************************************************)
(* llfAPBuildDBT: where the defect tables of a flash come from that has    *)
(* never been used.  Either a table is found in block 0 of a bank          *)
(* (llfSearchDBT), or the mark of the vendor is looked for in every block  *)
(* (llfScanFactoryDefectBlocks).                                           *)
(*                                                                         *)
(* The vendor marks a defective block in its first or its last page, at    *)
(* one of two offsets.  Any of the reads may stay unanswered; then the     *)
(* word of completion the code looks at is whatever was on the stack.      *)
(***************************************************************************)
EXTENDS DefectTable, Integers, FiniteSets

CONSTANTS
    BankNum,     \* NandPara.ubBankNum
    SysBankNum,  \* SYS_BANK_NUM
    BlockNum,    \* NandPara.uwBlockNumPerLun
    SysBlk,      \* SYS_BLK
    ExtRdt,      \* EXTEND_RDT_BLK: blocks behind the copies, for the reliability test
    ByteRange,   \* the values of a U8, 256 in the code
    Vendors,     \* what the flashes are like: see VendorMarks
    Commands,    \* what llfAPBuildDBT is called for: see Command
    OldTables,   \* tables that may be found in block 0, or have been there before the scan
    MaxCalls,    \* bound: calls of llfAPBuildDBT in one command
    MaxLost      \* bound: reads that are not answered

Bank == 0 .. (BankNum - 1)
Blk == 0 .. (BlockNum - 1)

\* A command of the task, and the configuration it meets.  "sandisk" says that the
\* flash refuses to program a defective block (ubtype 1) instead of having marks.
Command == [all : BOOLEAN, nondefect : BOOLEAN, rdtImg : BOOLEAN, normalEn : BOOLEAN,
            test : BOOLEAN, sandisk : BOOLEAN, bankStart : 0 .. 1, start : Nat]

\* Where a mark may be: the page, first or last, and the offset in it (0, or behind the sectors); "unread" is a
\* page that cannot be read.
MarkPlaces == {"first", "last"} \X {"data", "spare"}
Conditions == MarkPlaces \cup ({"first", "last"} \X {"unread"})

\* The vendor's marks: the defective blocks, and how they are marked.
VendorMarks == [bad : SUBSET (Bank \X Blk), how : Conditions]

ASSUME ScanAssumption ==
    /\ BankNum \in Nat \ {0} /\ SysBankNum \in Nat \ {0} /\ BlockNum \in Nat /\ SysMax <= BlockNum
    /\ SysBlk \in Nat /\ ExtRdt \in Nat /\ ByteRange \in Nat /\ BankNum < ByteRange
    /\ MaxCalls \in Nat /\ MaxLost \in Nat
    /\ Vendors \subseteq VendorMarks /\ Commands \subseteq Command
    /\ OldTables \subseteq [Bank -> SUBSET (0 .. (BlockNum \div Planes - 1))]

VARIABLES
    vendor,     \* the flash
    cmd,        \* the command
    dbt, sysDbt,
    scan        \* where llfAPBuildDBT is, and what it has seen

scanVars == <<vendor, cmd, dbt, sysDbt, scan>>

Empty == [b \in Bank |-> {}]

\* The copies and, behind them, the blocks of the reliability test.
TestBlocks == (cmd.start + SysBlk) .. (cmd.start + SysBlk + ExtRdt - 1)

----------------------------------------------------------------------------
\* llffioDefectRead of the page that has place k of MarkPlaces.  The buffer is set to 0,
\* which is not the 0xFF of a block without a mark, at the first offset only: a read that
\* is not answered ("error" or "ok", as the stack has it) shows a mark at the first
\* offset, and what the read before has brought, the same page, at the second.
llffioDefectRead(how, k, answer) ==
    CASE answer = "answered" ->
            IF how = <<k[1], "unread">> THEN "error" ELSE IF how = k THEN "marked" ELSE "clean"
      [] answer = "stale error" -> "error"
      [] answer = "stale ok" -> IF k[2] = "data" \/ how = k THEN "marked" ELSE "clean"

\* llfIsDefectBlk: the bytes differ from 0xFF.
llfIsDefectBlk(seen) == seen = "marked"

Good == <<"none", "none">>

\* Mutant: the last page is not looked at.
llfChkDefectBlk_First(how, lost, answer) ==
    \A k \in {m \in MarkPlaces : m[1] = "first"} :
        LET seen == llffioDefectRead(how, k, IF k = lost THEN answer ELSE "answered")
        IN  seen # "error" /\ ~llfIsDefectBlk(seen)

\* llfChkDefectBlk: the block is good when all four reads succeed and show no mark.  At
\* most one of them, the one at "lost", is not answered.
llfChkDefectBlk(how, lost, answer) ==
    \A k \in MarkPlaces :
        LET seen == llffioDefectRead(how, k, IF k = lost THEN answer ELSE "answered")
        IN  seen # "error" /\ ~llfIsDefectBlk(seen)

\* llfChkDefectBlkForSandisk: programming the block shows whether it is good.
llfChkDefectBlkForSandisk(how) == how = Good

How(p) == IF p \in vendor.bad THEN vendor.how ELSE Good

----------------------------------------------------------------------------
ScanInit ==
    /\ vendor \in Vendors
    /\ cmd \in Commands
    /\ dbt \in OldTables
    /\ sysDbt = [b \in Bank |-> {blk \in 0 .. (SysMax - 1) : Group(blk) \in dbt[b]}]
    /\ scan = [pc |-> "begin", bank |-> 0, blk |-> 0, ubBankNo |-> 0, calls |-> 0, lost |-> 0,
               first |-> TRUE, ret |-> "SEARCH", gfDBTInitDone |-> "NONE", from |-> <<>>]

\* The command asks for a search, and for tables that begin empty.
Searches == ~cmd.all \/ cmd.nondefect

SearchBank == IF BankNum > SysBankNum THEN SysBankNum ELSE BankNum

\* llfAPBuildDBT is called by the task.  The table is cleared in the first call only; the
\* table of the system blocks is not cleared.
Begin ==
    /\ scan.pc = "begin" /\ scan.calls < MaxCalls
    /\ dbt' = IF scan.first /\ Searches THEN Empty ELSE dbt
    /\ scan' = [scan EXCEPT !.calls = @ + 1, !.ret = "SEARCH", !.first = FALSE, !.from = <<>>,
                  !.ubBankNo = IF scan.first THEN 0 ELSE @,
                  !.bank = cmd.bankStart + SearchBank - 1,
                  !.pc = IF Searches /\ ~cmd.test
                            /\ (scan.first \/ scan.ubBankNo = 0) THEN "search" ELSE "choose"]
    /\ UNCHANGED <<vendor, cmd, sysDbt>>

\* The loop of the search goes on while bank >= gubSblkBankStart; bank is a U8.
StepDown(bank) == (bank - 1) % ByteRange
InSearch(bank) == bank >= cmd.bankStart

\* llfSearchDBT: the two pages of block 0 cannot be read.  The first of them may have
\* been: its half of a table stays in DBT_ADDR until the next read or the clearing.
SearchNext ==
    /\ scan.pc = "search" /\ InSearch(scan.bank)
    /\ scan' = [scan EXCEPT !.bank = StepDown(@)]
    /\ UNCHANGED <<vendor, cmd, dbt, sysDbt>>

\* Both can be read, and what they hold is taken for a table: the number that marks one is
\* looked at, but nothing follows from it.  The system blocks of the groups in the table,
\* and those of group 0, are marked.
MarkFound(table, sys) ==
    [b \in Bank |-> sys[b] \cup {blk \in 0 .. (SysMax - 1) : Group(blk) \in table[b] \cup {0}}]

SearchFound ==
    /\ scan.pc = "search" /\ InSearch(scan.bank)
    /\ \E table \in OldTables :
          /\ dbt' = table
          /\ sysDbt' = MarkFound(table, sysDbt)
    /\ scan' = [scan EXCEPT !.pc = "choose", !.ret = "OK", !.ubBankNo = BankNum,
                            !.gfDBTInitDone = "SYSTEM"]
    /\ UNCHANGED <<vendor, cmd>>

SearchFails ==
    /\ scan.pc = "search" /\ ~InSearch(scan.bank)
    /\ dbt' = Empty
    /\ scan' = [scan EXCEPT !.pc = "choose", !.gfDBTInitDone = "NONE"]
    /\ UNCHANGED <<vendor, cmd, sysDbt>>

\* The marks are looked for if no table was found, or always for the test with
\* SBLK_OFFSET_RDT_LLF_NORMAL_EN.
Scans == IF cmd.rdtImg THEN cmd.normalEn ELSE scan.ret = "SEARCH"

Done(s) == [s EXCEPT !.pc = "done", !.gfDBTInitDone = "FACTORY"]

Choose ==
    /\ scan.pc = "choose"
    /\ scan' = IF Scans
               THEN [scan EXCEPT !.pc = "scan", !.ret = "OK", !.bank = 0, !.blk = 0,
                                 !.from = <<dbt, sysDbt>>]
               ELSE Done([scan EXCEPT !.ret = "OK"])
    /\ UNCHANGED <<vendor, cmd, dbt, sysDbt>>

\* Mutant: a system block too is passed over by its group.
PassOver_ByGroup(bank, blk) ==
    llfIsBlockBad(dbt, bank, blk) \/ (blk \in TestBlocks /\ ~cmd.rdtImg)

\* llfScanFactoryDefectBlocks passes over a block that is marked already: a system block
\* by itself, any other by its group; and over the blocks of the reliability test, whose
\* pages do not have the marks any more.
PassOver(bank, blk) ==
    IF blk < SysMax
    THEN llfIsSystemBlkDefect(sysDbt, bank, blk) \/ (blk \in TestBlocks /\ ~cmd.rdtImg)
    ELSE llfIsBlockBad(dbt, bank, blk)

\* The banks of a block, one after the other, then the next block.
NextPlace ==
    IF scan.bank < BankNum - 1 THEN [scan EXCEPT !.bank = @ + 1]
    ELSE IF scan.blk < BlockNum - 1 THEN [scan EXCEPT !.bank = 0, !.blk = @ + 1]
    ELSE Done(scan)

\* A block found defective goes into both tables.
ScanBlock(good) ==
    /\ scan.pc = "scan"
    /\ ~PassOver(scan.bank, scan.blk)
    /\ sysDbt' = IF ~good /\ scan.blk < SysMax
                 THEN llfMarkSystemBlkDefect(sysDbt, scan.bank, scan.blk) ELSE sysDbt
    /\ dbt' = IF good THEN dbt ELSE llfSetDBT(dbt, scan.bank, scan.blk)
    /\ UNCHANGED <<vendor, cmd>>

ScanAnswered ==
    LET how == How(<<scan.bank, scan.blk>>)
    IN  /\ ScanBlock(IF cmd.sandisk THEN llfChkDefectBlkForSandisk(how)
                     ELSE llfChkDefectBlk(how, Good, "answered"))
        /\ scan' = NextPlace

\* One read of the block is not answered.
ScanLost ==
    /\ ~cmd.sandisk /\ scan.lost < MaxLost
    /\ \E k \in MarkPlaces, answer \in {"stale error", "stale ok"} :
          ScanBlock(llfChkDefectBlk(How(<<scan.bank, scan.blk>>), k, answer))
    /\ scan' = [NextPlace EXCEPT !.lost = @ + 1]

\* The program of a block is not answered: ASSERT(ALWAYS_MSG, 0).
ScanAsserts ==
    /\ scan.pc = "scan" /\ cmd.sandisk /\ scan.lost < MaxLost
    /\ ~PassOver(scan.bank, scan.blk)
    /\ scan' = [scan EXCEPT !.pc = "assert", !.lost = @ + 1]
    /\ UNCHANGED <<vendor, cmd, dbt, sysDbt>>

SkipBlock ==
    /\ scan.pc = "scan" /\ PassOver(scan.bank, scan.blk)
    /\ scan' = NextPlace
    /\ UNCHANGED <<vendor, cmd, dbt, sysDbt>>

\* Done.  BE_LLF_ODBT leaves res_state at WRITE_FW or ERASE, never IDLE, so the task calls
\* llfAPBuildDBT again; after a search that found no table that is a search again, after
\* one that found a table it is a scan on top of it.
Again ==
    /\ scan.pc = "done" /\ ~cmd.all /\ scan.calls < MaxCalls
    /\ scan' = [scan EXCEPT !.pc = "begin"]
    /\ UNCHANGED <<vendor, cmd, dbt, sysDbt>>

ScanNext == \/ Begin \/ SearchNext \/ SearchFound \/ SearchFails \/ Choose
            \/ ScanAnswered \/ ScanLost \/ ScanAsserts \/ SkipBlock \/ Again

----------------------------------------------------------------------------
\* The blocks the scan has to find: those with a mark that it looks at.
Marked(b) == {p[2] : p \in {v \in vendor.bad : v[1] = b}}
Looked(b) ==
    {blk \in Marked(b) :
        IF blk < SysMax THEN blk \notin scan.from[2][b] /\ (blk \in TestBlocks => cmd.rdtImg)
        ELSE Group(blk) \notin scan.from[1][b]}

\* A scan adds to the tables it began with exactly the defective blocks outside the blocks
\* of the reliability test: each system block of its own, each group with one of them; with
\* a read that was not answered it may add more, but misses none.
ScanExact ==
    (scan.pc = "done" /\ scan.from # <<>>) =>
        \A b \in Bank :
            LET sys == scan.from[2][b] \cup {blk \in Looked(b) : blk < SysMax}
                grp == scan.from[1][b] \cup {Group(blk) : blk \in Looked(b)}
            IN  IF scan.lost = 0 THEN sysDbt[b] = sys /\ dbt[b] = grp
                ELSE sys \subseteq sysDbt[b] /\ grp \subseteq dbt[b]

\* llfAPBuildDBT has come to an end.  It does not when the copies begin in bank 0 and no
\* table is found: the search counts a U8 down to 0 and is never below it.
ScanEnded == scan.pc \in {"done", "assert"} \/ (scan.pc = "search" /\ cmd.bankStart = 0)
=============================================================================
