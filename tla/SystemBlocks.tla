---------------------------- MODULE SystemBlocks ----------------------------
(***************************************************************************)
(* The copies of the firmware in the system blocks: llfGetSBlk chooses the *)
(* window of blocks they go to, llfWriteSBlk writes their first pages,     *)
(* which hold the configuration, llfWriteCodeBlock the code and tables     *)
(* after it, and llfCheckSblock counts what is left; and the update, which *)
(* reads configuration and tables from the copies before it erases and     *)
(* writes them again.                                                      *)
(*                                                                         *)
(* A place is <<bank, block>> counted from the start of the window.  A     *)
(* page or a block that fails is found by the status of the operation or   *)
(* by reading it back; what a page holds that was programmed twice, or     *)
(* what the read-back of it says, is open.                                 *)
(***************************************************************************)
EXTENDS Integers, FiniteSets

CONSTANTS
    BankNum,     \* NandPara.ubBankNum
    SysBankNum,  \* SYS_BANK_NUM: banks that hold copies
    SblkBlks,    \* SYS_BLK: copies in a bank
    ExtBlks,     \* EXTEND_SYS_BLK: blocks of a bank the window may move to
    BankTh,      \* SBLK_BANK_CNT_MIN_END
    BlkTh,       \* SBLK_BLK_CNT_MIN_END
    WordBits,    \* 32: bits of gulEraseFailSysblk and gulFailedImageBitMap
    Jobs,        \* what is written, and on what flash
    MaxFail      \* bound: operations of the flash that fail

Bank == 0 .. (BankNum - 1)
SysBanks == IF BankNum > SysBankNum THEN SysBankNum ELSE BankNum
Place == (0 .. (SysBanks - 1)) \X (0 .. (SblkBlks - 1))
Block == Bank \X (0 .. (SblkBlks + ExtBlks - 1))
Bit == 0 .. (WordBits - 1)

\* An entry of gulSblkCHCEMap: a bank of the flash and a block of the window.
Entry == Bank \X (0 .. (SblkBlks - 1))

\* What of a first page matters here: the failed copies and the copies it names.
Page == [bitmap : SUBSET Bit, map : SUBSET Entry]
NoPage == [bitmap |-> {}, map |-> {}]

\* A block: "used" holds something else; "head" has a first page, "full" the code
\* too, "part" some of it; "torn" could be neither written nor erased.
Content == [state : {"erased", "used", "torn", "head", "part", "full"}, page : Page]
Erased == [state |-> "erased", page |-> NoPage]
Used == [state |-> "used", page |-> NoPage]
Torn == [state |-> "torn", page |-> NoPage]

\* "format" and "force" erase before they choose the window, "inherit" after it.
Job == [ kind      : {"format", "inherit", "force", "update"},
         start     : 0 .. ExtBlks,      \* the window the flash has
         bankStart : Bank,
         map       : SUBSET Entry,      \* the copies it has
         failed    : SUBSET Block,      \* could not be erased, or are copies in part
         marked    : SUBSET Block ]     \* factory marks

ASSUME SystemBlocksAssumption ==
    /\ BankNum \in Nat \ {0} /\ SysBankNum \in Nat \ {0}
    /\ SblkBlks \in Nat \ {0} /\ ExtBlks \in Nat /\ ExtBlks % SblkBlks = 0
    /\ BankTh \in Nat /\ BlkTh \in Nat
    /\ WordBits \in Nat \ {0}
    /\ Jobs \subseteq Job
    /\ \A j \in Jobs : j.bankStart + SysBanks <= BankNum    \* llfGetSBlk chose it
    /\ MaxFail \in Nat

VARIABLES
    job,                  \* fixed
    gubSblkStart,         \* the window: its first block
    gubSblkBankStart,     \* and bank
    guwSBlkNo,            \* per place: "good", "bad" (0xff), "absent" (0xF)
    gulSblkCHCEMap,       \* the copies, as entries
    sysDbt,               \* system blocks marked defective
    dbt,                  \* blocks marked in the defect table
    gulEraseFailSysblk,   \* bits of the erases that failed
    gulFailedImageBitMap, \* bits of the copies that failed
    sblk,                 \* the first page in memory (SBLK_ADDR)
    flash,                \* content of the blocks
    pc,
    cur,                  \* the place that is written
    pass,                 \* of llfWriteSBlk
    pre,                  \* ulpreFailedImageBitMap
    bads,                 \* BadSblk_num
    errs,                 \* err_num > 0
    lastErr,              \* the last result in llfWriteCodeBlock is an error
    ret,
    fails                 \* failures so far

window == <<gubSblkStart, gubSblkBankStart>>
tables == <<sysDbt, dbt, gulEraseFailSysblk>>
loop   == <<pass, pre, bads, errs, lastErr>>
vars   == <<job, window, guwSBlkNo, gulSblkCHCEMap, tables, gulFailedImageBitMap,
            sblk, flash, pc, cur, loop, ret, fails>>

BlockAt(start, bankStart, p) == <<bankStart + p[1], start + p[2]>>
BlockOf(p) == BlockAt(gubSblkStart, gubSblkBankStart, p)
EntryOf(p) == <<gubSblkBankStart + p[1], p[2]>>
EntryBlock(e) == <<e[1], gubSblkStart + e[2]>>
WindowBlocks == {BlockOf(p) : p \in Place}
AllBad == [p \in Place |-> "bad"]
Good == {p \in Place : guwSBlkNo[p] = "good"}

\* The order in which blocks are visited: by bank, then by block.
Before(p, q) == p[1] < q[1] \/ (p[1] = q[1] /\ p[2] < q[2])

\* The bit of a place in gulEraseFailSysblk, relative to the window, and in
\* gulFailedImageBitMap, which is not.  Shifts are modulo the word.
FailBit(p) == (p[1] * SblkBlks + p[2]) % WordBits
ImageBit(p) == ((gubSblkStart + p[2]) + SblkBlks * (gubSblkBankStart + p[1])) % WordBits

Fail(n) == fails + n <= MaxFail /\ fails' = fails + n

------------------------------------------------------------------------------
(* llfGetSBlk                                                              *)

\* Every bank of the window has a good block.
Suits(good) == \A k \in 0 .. (SysBanks - 1) : \E p \in good : p[1] = k

\* Blocks in front of the chosen window are given up.
InFront ==
    {b \in Block : /\ b[1] < SysBanks
                   /\ \/ b[2] < gubSblkStart
                      \/ b[1] < gubSblkBankStart /\ b[2] < gubSblkStart + SblkBlks}

\* The next window: further along the blocks, then one bank on; at the end it is
\* behind the last one.
NextWindow ==
    IF gubSblkStart + SblkBlks <= ExtBlks
    THEN gubSblkStart' = gubSblkStart + SblkBlks /\ UNCHANGED gubSblkBankStart
    ELSE /\ gubSblkBankStart' = gubSblkBankStart + 1
         /\ gubSblkStart' = IF gubSblkBankStart + 1 + SysBanks <= BankNum
                            THEN 0 ELSE gubSblkStart + SblkBlks

LastWindow ==
    /\ gubSblkStart + SblkBlks > ExtBlks
    /\ gubSblkBankStart + 1 + SysBanks > BankNum

\* The blocks of the window that are not known as defective are written, read back and
\* erased, the result of the erase ignored: "bad" fail the test, "stuck" the erase.
FlashAfterTest(bad, stuck) ==
    [b \in Block |-> IF b \in bad THEN Torn
                     ELSE IF b \in stuck THEN Used
                     ELSE IF b \in WindowBlocks \ sysDbt THEN Erased ELSE flash[b]]

\* A good block is one that passed and has no factory mark.
GoodBut(bad) == {p \in Place : BlockOf(p) \notin sysDbt \cup bad \cup job.marked}

TakeWindow(bad) ==
    /\ Suits(GoodBut(bad))
    /\ guwSBlkNo' = [p \in Place |-> IF p \in GoodBut(bad) THEN "good" ELSE "bad"]
    /\ gulSblkCHCEMap' = gulSblkCHCEMap \cup {EntryOf(p) : p \in GoodBut(bad)}
    /\ sysDbt' = sysDbt \cup bad \cup InFront
    /\ dbt' = dbt \cup (InFront \ (sysDbt \cup bad))
    /\ pc' = IF job.kind = "inherit" THEN "erase" ELSE "config"
    /\ UNCHANGED <<window, ret>>

\* llfGetSBlkFailHandle, after the last window: where inheriting is a must, it goes on.
TryNext(bad) ==
    /\ ~Suits(GoodBut(bad))
    /\ NextWindow
    /\ guwSBlkNo' = AllBad /\ sysDbt' = sysDbt \cup bad
    /\ IF ~LastWindow THEN UNCHANGED <<pc, ret>>
       ELSE IF job.kind = "force" THEN pc' = "config" /\ UNCHANGED ret
       ELSE pc' = "done" /\ ret' = "ERR_READ_SBLK"
    /\ UNCHANGED <<gulSblkCHCEMap, dbt>>

ChooseWindow ==
    /\ pc = "choose"
    /\ \E bad, stuck \in SUBSET (WindowBlocks \ sysDbt) :
        /\ bad \cap stuck = {}
        /\ Fail(Cardinality({b \in bad : flash[b].state = "erased"}) + Cardinality(stuck))
        /\ flash' = FlashAfterTest(bad, stuck)
        /\ TakeWindow(bad) \/ TryNext(bad)
    /\ UNCHANGED <<job, gulEraseFailSysblk, gulFailedImageBitMap, sblk, cur, loop>>

\* Blocks up to the end of the window are erased even if they are marked.
UpToWindow(start) == {b \in Block : b[2] < start + SblkBlks}

\* The marks after an erase of which "failed" fail: those up to the window are removed
\* when the erase is issued and set when it fails, or, if every erase is waited for
\* (gubFWFeatureSetting & 0x20), set first and removed then.
MarksAfterErase(marks, start, failed) ==
    {(marks \ UpToWindow(start)) \cup failed, (marks \cup failed) \ UpToWindow(start)}

\* llfAPEraseAll after the choice (an inherited table in mode INHERIT_OR_FORMAT), up to
\* the end of the window; the rest of it is in EraseAll.
EraseWindow ==
    /\ pc = "erase"
    /\ \E failed \in SUBSET UpToWindow(gubSblkStart) :
        /\ Fail(Cardinality({b \in failed : flash[b] # Torn}))
        /\ sysDbt' \in MarksAfterErase(sysDbt, gubSblkStart, failed)
        /\ dbt' = dbt \cup failed
        /\ gulEraseFailSysblk' = gulEraseFailSysblk \cup
                                    {FailBit(p) : p \in {q \in Place : BlockOf(q) \in failed}}
        /\ flash' = [b \in Block |-> IF b \in failed THEN Torn
                                     ELSE IF b \in UpToWindow(gubSblkStart) THEN Erased
                                     ELSE flash[b]]
    /\ pc' = "config"
    /\ UNCHANGED <<job, window, guwSBlkNo, gulSblkCHCEMap, gulFailedImageBitMap,
                   sblk, cur, loop, ret>>

------------------------------------------------------------------------------
(* The first pages                                                         *)

\* Mutant: blocks that could not be erased stay among the chosen ones.
EraseFailed_None == {}

\* The places whose bit is set.
EraseFailed == {p \in Place : FailBit(p) \in gulEraseFailSysblk}

\* llfSetSBlockFWConfig and llfSetSBlockFEConfig: the first page is made.
SetConfig ==
    /\ pc = "config"
    /\ gulSblkCHCEMap' = gulSblkCHCEMap \ {EntryOf(p) : p \in EraseFailed}
    /\ guwSBlkNo' = [p \in Place |-> IF p \in EraseFailed THEN "bad" ELSE guwSBlkNo[p]]
    /\ sblk' = [bitmap |-> gulFailedImageBitMap, map |-> gulSblkCHCEMap']
    /\ pc' = "heads" /\ cur' = 0 /\ pass' = 1 /\ pre' = gulFailedImageBitMap
    /\ UNCHANGED <<job, window, tables, gulFailedImageBitMap, flash, bads, errs,
                   lastErr, ret, fails>>

Places == SysBanks * SblkBlks
Current == <<cur \div SblkBlks, cur % SblkBlks>>

\* A place is written if it is not bad and the map has it.
IsWritten(p) == guwSBlkNo[p] # "bad" /\ EntryOf(p) \in gulSblkCHCEMap

\* gulFailedImageBitMap after a place that is bad was met.
NoteBad(p) == gulFailedImageBitMap' = gulFailedImageBitMap \cup {ImageBit(p)}

SkipHead ==
    /\ pc = "heads" /\ cur < Places /\ ~IsWritten(Current)
    /\ IF guwSBlkNo[Current] = "bad" THEN NoteBad(Current) ELSE UNCHANGED gulFailedImageBitMap
    /\ cur' = cur + 1
    /\ UNCHANGED <<job, window, guwSBlkNo, gulSblkCHCEMap, tables, sblk, flash, pc, loop,
                   ret, fails>>

WriteHead ==
    /\ pc = "heads" /\ cur < Places /\ IsWritten(Current)
    /\ flash' = [flash EXCEPT ![BlockOf(Current)] = [state |-> "head", page |-> sblk]]
    /\ cur' = cur + 1
    /\ UNCHANGED <<job, window, guwSBlkNo, gulSblkCHCEMap, tables, gulFailedImageBitMap,
                   sblk, pc, loop, ret, fails>>

\* The write, the read-back or the comparison fails; the block is erased, if it can be.
HeadFails ==
    /\ pc = "heads" /\ cur < Places /\ IsWritten(Current)
    /\ Fail(IF flash[BlockOf(Current)].state = "erased" THEN 1 ELSE 0)
    /\ \E left \in {Erased, Torn} : flash' = [flash EXCEPT ![BlockOf(Current)] = left]
    /\ guwSBlkNo' = [guwSBlkNo EXCEPT ![Current] = "bad"]
    /\ NoteBad(Current)
    /\ cur' = cur + 1
    /\ UNCHANGED <<job, window, gulSblkCHCEMap, tables, sblk, pc, loop, ret>>

\* Mutant: the first pages are not written again.
StaleHeads_Never == FALSE

StaleHeads == gulFailedImageBitMap # pre

\* If a copy failed that was not known to, the bitmap in the pages is out of date:
\* llfWriteSBlkFailHandle erases them and writes them a second time, and no more.
HeadsDone ==
    /\ pc = "heads" /\ cur = Places
    /\ sblk' = [sblk EXCEPT !.bitmap = IF StaleHeads THEN gulFailedImageBitMap ELSE @]
    /\ IF ~StaleHeads THEN pc' = "mark" /\ ret' = "ERR_OK"
       ELSE ret' = "ERR_READ_SBLK" /\ pc' = IF pass = 1 THEN "again" ELSE "done"
    /\ UNCHANGED <<job, window, guwSBlkNo, gulSblkCHCEMap, tables, gulFailedImageBitMap,
                   flash, cur, loop, fails>>

\* llfEraseSblk: the blocks of the map, up to the first that cannot be erased.
llfEraseSblk(stop) ==
    flash' = [b \in Block |->
        IF \E e \in gulSblkCHCEMap : EntryBlock(e) = b /\ \A s \in stop : Before(e, s)
        THEN Erased ELSE flash[b]]

\* All of them (no stop), or a failure at one.
EraseSblk(stop) ==
    /\ stop \subseteq gulSblkCHCEMap /\ Cardinality(stop) <= 1
    /\ Fail(Cardinality(stop))
    /\ llfEraseSblk(stop)

\* llfWriteSBlkFailHandle, which ignores what llfEraseSblk returns.
WriteAgain ==
    /\ pc = "again"
    /\ \E stop \in SUBSET gulSblkCHCEMap : EraseSblk(stop)
    /\ pc' = "heads" /\ cur' = 0 /\ pass' = 2 /\ pre' = gulFailedImageBitMap
    /\ UNCHANGED <<job, window, guwSBlkNo, gulSblkCHCEMap, tables, gulFailedImageBitMap,
                   sblk, bads, errs, lastErr, ret>>

------------------------------------------------------------------------------
(* The code and tables                                                     *)

\* Mutant: the start of the window is left out.
MarkedBank_Relative(p) == p[1]

MarkedBank(p) == gubSblkBankStart + p[1]

\* Block 15 stands for a copy that is absent (0xF).
AbsentBlk == SblkBlks + ExtBlks - 1

\* llfSetSblkToDBT: what is not 0xff is marked, so that it is not used for data.
SetSblkToDBT ==
    /\ pc = "mark"
    /\ dbt' = dbt \cup {<<MarkedBank(p), gubSblkStart + p[2]>> : p \in Good}
                  \cup {<<MarkedBank(p), AbsentBlk>> : p \in {q \in Place : guwSBlkNo[q] = "absent"}}
    /\ pc' = "codes" /\ cur' = 0 /\ pre' = gulFailedImageBitMap
    /\ bads' = 0 /\ errs' = FALSE /\ lastErr' = FALSE
    /\ UNCHANGED <<job, window, guwSBlkNo, gulSblkCHCEMap, sysDbt, gulEraseFailSysblk,
                   gulFailedImageBitMap, sblk, flash, pass, ret, fails>>

\* Mutant: no bank is found bad.
BankIsBad_Never(n) == FALSE

\* The end of a bank: the number of its bad copies is compared with SYS_BLK plus the
\* start of the window.
BankIsBad(n) == n = SblkBlks + gubSblkStart

\* Mutant: the count is not reset at the end of a bank.
NextCode_KeepsBads(n) ==
    /\ cur' = cur + 1 /\ bads' = n
    /\ errs' = (errs \/ (cur % SblkBlks = SblkBlks - 1 /\ BankIsBad(n)))

\* On to the next copy, n of the bank being bad.
NextCode(n) ==
    /\ cur' = cur + 1
    /\ IF cur % SblkBlks = SblkBlks - 1
       THEN bads' = 0 /\ errs' = (errs \/ BankIsBad(n))
       ELSE bads' = n /\ UNCHANGED errs

SkipCode ==
    /\ pc = "codes" /\ cur < Places /\ ~IsWritten(Current)
    /\ IF guwSBlkNo[Current] = "bad" THEN NoteBad(Current) ELSE UNCHANGED gulFailedImageBitMap
    /\ NextCode(bads + 1)
    /\ UNCHANGED <<job, window, guwSBlkNo, gulSblkCHCEMap, tables, sblk, flash, pc, pass,
                   pre, lastErr, ret, fails>>

\* The pages after the first are written, then code, DBT, tables and remap table are
\* read back and compared.
WriteCode ==
    /\ pc = "codes" /\ cur < Places /\ IsWritten(Current)
    /\ flash' = [flash EXCEPT ![BlockOf(Current)].state = "full"]
    /\ lastErr' = FALSE
    /\ NextCode(bads)
    /\ UNCHANGED <<job, window, guwSBlkNo, gulSblkCHCEMap, tables, gulFailedImageBitMap,
                   sblk, pc, pass, pre, ret, fails>>

\* Mutant: a copy whose code failed is still taken for good.
WithoutPlace_Kept(p) == guwSBlkNo

WithoutPlace(p) == [guwSBlkNo EXCEPT ![p] = "bad"]

\* One of them fails: the copy is given up, and left as it is.
CodeFails ==
    /\ pc = "codes" /\ cur < Places /\ IsWritten(Current)
    /\ Fail(1)
    /\ flash' = [flash EXCEPT ![BlockOf(Current)].state = "part"]
    /\ guwSBlkNo' = WithoutPlace(Current)
    /\ NoteBad(Current)
    /\ lastErr' \in BOOLEAN      \* no error, if the completion came and had one
    /\ NextCode(bads + 1)
    /\ UNCHANGED <<job, window, gulSblkCHCEMap, tables, sblk, pc, pass, pre, ret>>

\* llfWriteSysGroup: that a copy failed is no error (llfWriteCodeBlockFailHandle), that
\* a bank has none is.
CodesDone ==
    /\ pc = "codes" /\ cur = Places
    /\ ret' = IF errs THEN "ERR_BAD_SBLOCK"
              ELSE IF gulFailedImageBitMap = pre /\ lastErr THEN "ERR_WRITE" ELSE "ERR_OK"
    /\ pc' = IF ret' = "ERR_OK" /\ job.kind # "update" THEN "check" ELSE "done"
    /\ UNCHANGED <<job, window, guwSBlkNo, gulSblkCHCEMap, tables, gulFailedImageBitMap,
                   sblk, flash, cur, loop, fails>>

Least(m, n) == IF m < n THEN m ELSE n

\* llfCheckSblock: the map is made anew of the copies that are left, which are counted.
\* is_good_bank is not initialised: a first bank without a copy may count.
CheckSblock ==
    /\ pc = "check"
    /\ gulSblkCHCEMap' = {EntryOf(p) : p \in Good}
    /\ \E lucky \in BOOLEAN :
        LET banks == {p[1] : p \in Good} \cup (IF lucky THEN {0} ELSE {})
        IN  ret' = IF /\ Cardinality(banks) >= Least(BankNum, BankTh)
                      /\ Cardinality(Good) >= BlkTh
                   THEN "ERR_OK" ELSE "ERR_BAD_SBLOCK"
    /\ pc' = "done"
    /\ UNCHANGED <<job, window, guwSBlkNo, tables, gulFailedImageBitMap, sblk, flash,
                   cur, loop, fails>>

------------------------------------------------------------------------------
(* The update (mode ONLY_UPDATE_FW, end of llfAPBECalibrate)               *)

\* 0xF is also the number of the last block: a copy there is not read.
IsRead(p) == guwSBlkNo[p] = "good" /\ gubSblkStart + p[2] # AbsentBlk

\* Copies that are not what they should be are taken out of the map.
Drop(lost) ==
    /\ guwSBlkNo' = [p \in Place |-> IF p \in lost THEN "absent" ELSE guwSBlkNo[p]]
    /\ gulSblkCHCEMap' = gulSblkCHCEMap \ {EntryOf(p) : p \in lost}

Whole(ps) == {p \in ps : flash[BlockOf(p)].state = "full"}

\* llfReadConfigFromSblk: the first copy whose first page can be read.  Copies that
\* cannot be read are passed over; those that are something else are dropped.
ReadConfig ==
    /\ pc = "readConfig"
    /\ \/ \E p \in Place :
            LET skipped == {q \in Place : IsRead(q) /\ Before(q, p)}
            IN  /\ IsRead(p) /\ flash[BlockOf(p)].state \in {"full", "part"}
                /\ Fail(Cardinality(Whole(skipped)))
                /\ \E lost \in SUBSET (skipped \ Whole(skipped)) : Drop(lost)
                /\ sblk' = flash[BlockOf(p)].page
                /\ pc' = "readDbt" /\ UNCHANGED <<ret, sysDbt>>
       \* taken for a failure of llfWriteSBlk, llf.c:6032
       \/ LET skipped == {q \in Place : IsRead(q)}
          IN  /\ Fail(Cardinality(Whole(skipped)))
              /\ \E lost \in SUBSET (skipped \ Whole(skipped)) : Drop(lost)
              /\ ret' = "ERR_READ_SBLK" /\ pc' = "again" /\ sysDbt' = {}
              /\ UNCHANGED sblk
    /\ UNCHANGED <<job, window, dbt, gulEraseFailSysblk, gulFailedImageBitMap, flash,
                   cur, loop>>

\* llfReadDbtFromSblk and llfReadRemapFromSblk: every copy that cannot be read is
\* dropped, and a bank that has none left ends the search: it is the first one.
ReadTable(from, to) ==
    /\ pc = from
    /\ LET first == {q \in Place : q[1] = 0 /\ IsRead(q)}
       IN  \/ \E p \in first :
                /\ flash[BlockOf(p)].state \in {"full", "part"}
                /\ Drop({q \in first : Before(q, p)})
                /\ Fail(Cardinality(Whole({q \in first : Before(q, p)})))
                /\ pc' = to /\ UNCHANGED <<ret, sysDbt>>
           \/ /\ Drop(first)
              /\ Fail(Cardinality(Whole(first)))
              /\ pc' = "done" /\ ret' = "ERR_READ_DBT_ECC" /\ sysDbt' = {}
    /\ UNCHANGED <<job, window, dbt, gulEraseFailSysblk, gulFailedImageBitMap, sblk, flash,
                   cur, loop>>

\* The old copies are erased, the failures of the system blocks forgotten.
EraseCopies ==
    /\ pc = "eraseCopies"
    /\ \E stop \in SUBSET gulSblkCHCEMap :
        /\ EraseSblk(stop)
        /\ IF stop = {} THEN pc' = "heads" /\ UNCHANGED ret
           ELSE pc' = "done" /\ ret' = "ERR_ERASE_BLK0"
    /\ sysDbt' = {}
    /\ cur' = 0 /\ pass' = 1 /\ pre' = gulFailedImageBitMap
    /\ UNCHANGED <<job, window, guwSBlkNo, gulSblkCHCEMap, dbt, gulEraseFailSysblk,
                   gulFailedImageBitMap, sblk, bads, errs, lastErr>>

------------------------------------------------------------------------------
\* Where an update finds no map, it takes every place for a copy.
KnownMap(j) ==
    IF j.map # {} \/ j.kind # "update" THEN j.map
    ELSE {<<j.bankStart + p[1], p[2]>> : p \in Place}

\* A format has just erased everything, seen from a window at the start; a mode that
\* must inherit has, seen from the window it inherited; an update has copies, which the
\* table protects.
Init ==
    /\ job \in Jobs
    /\ LET map   == KnownMap(job)
           old   == {<<e[1], job.start + e[2]>> : e \in map}
           place(b, start, bankStart) == {p \in Place : BlockAt(start, bankStart, p) = b}
           start == IF job.kind = "format" THEN 0 ELSE job.start
           bank  == IF job.kind = "format" THEN 0 ELSE job.bankStart
           page  == [bitmap |-> {}, map |-> map]
       IN  /\ gubSblkStart = (IF job.kind = "update" THEN job.start ELSE 0)
           /\ gubSblkBankStart = (IF job.kind = "update" THEN job.bankStart ELSE 0)
           /\ gulSblkCHCEMap = (IF job.kind = "format" THEN {} ELSE map)
           /\ guwSBlkNo = [p \in Place |->
                IF job.kind # "update" THEN "bad"
                ELSE IF <<bank + p[1], p[2]>> \in map THEN "good" ELSE "absent"]
           /\ sysDbt \in IF job.kind \in {"format", "force"}
                         THEN MarksAfterErase({}, start, job.failed) ELSE {{}}
           /\ gulEraseFailSysblk =
                IF job.kind \in {"inherit", "update"} THEN {}
                ELSE {FailBit(p) : p \in UNION {place(b, start, bank) : b \in job.failed}}
           /\ dbt = (IF job.kind = "update" THEN old ELSE job.failed)
           /\ flash = [b \in Block |->
                CASE b \in job.failed -> IF job.kind = "update" /\ b \in old
                                         THEN [state |-> "part", page |-> page] ELSE Torn
                  [] b \in old \ job.failed /\ job.kind = "update" -> [state |-> "full", page |-> page]
                  [] b \in old \ job.failed /\ job.kind = "inherit" -> Used
                  [] OTHER -> Erased]
    /\ gulFailedImageBitMap =
        IF job.kind = "update" THEN {} ELSE Bit \ {FailBit(p) : p \in Place}
    /\ sblk = NoPage
    /\ pc = (IF job.kind = "update" THEN "readConfig" ELSE "choose")
    /\ cur = 0 /\ pass = 1 /\ pre = {} /\ bads = 0 /\ errs = FALSE /\ lastErr = FALSE
    /\ ret = "ERR_OK" /\ fails = 0

Next ==
    \/ ChooseWindow \/ EraseWindow \/ SetConfig
    \/ SkipHead \/ WriteHead \/ HeadFails \/ HeadsDone \/ WriteAgain
    \/ SetSblkToDBT \/ SkipCode \/ WriteCode \/ CodeFails \/ CodesDone \/ CheckSblock
    \/ ReadConfig \/ ReadTable("readDbt", "readRemap") \/ ReadTable("readRemap", "eraseCopies")
    \/ EraseCopies

Spec == Init /\ [][Next]_vars

------------------------------------------------------------------------------
Results == {"ERR_OK", "ERR_READ_SBLK", "ERR_BAD_SBLOCK", "ERR_WRITE", "ERR_READ_DBT_ECC",
            "ERR_ERASE_BLK0"}

TypeOK ==
    /\ job \in Jobs
    /\ gubSblkStart \in 0 .. (ExtBlks + SblkBlks) /\ gubSblkBankStart \in 0 .. BankNum
    /\ guwSBlkNo \in [Place -> {"good", "bad", "absent"}]
    /\ gulSblkCHCEMap \subseteq Entry
    /\ sysDbt \subseteq Block /\ dbt \subseteq Block
    /\ gulEraseFailSysblk \subseteq Bit /\ gulFailedImageBitMap \subseteq Bit
    /\ sblk \in Page
    /\ flash \in [Block -> Content]
    /\ pc \in {"choose", "erase", "config", "heads", "again", "mark", "codes", "check",
               "done", "readConfig", "readDbt", "readRemap", "eraseCopies"}
    /\ cur \in 0 .. Places /\ pass \in {1, 2} /\ pre \subseteq Bit
    /\ bads \in 0 .. SblkBlks /\ errs \in BOOLEAN /\ lastErr \in BOOLEAN
    /\ ret \in Results /\ fails \in 0 .. MaxFail

Succeeded == pc = "done" /\ ret = "ERR_OK"
Configured == Succeeded /\ job.kind # "update"

\* The copies on the flash, whatever the program believes.
Copies == {b \in Block : flash[b].state = "full"}

\* When llfWriteConfig reports success, the map that is saved for the next start names
\* the copies that are complete, all of them and no other (llfCheckSblock).
MapIsExact == Configured => {EntryBlock(e) : e \in gulSblkCHCEMap} = Copies

\* ... and there are enough of them, but for a first bank that was counted without a
\* copy (is_good_bank, llf.c:7660).
EnoughCopies ==
    Configured =>
        /\ Cardinality(Copies) >= BlkTh
        /\ Cardinality({b[1] : b \in Copies} \cup {gubSblkBankStart}) >= Least(BankNum, BankTh)

\* All complete copies have the same first page, it names all of them, and it says of
\* every copy whose own first page failed that it did (llfWriteSBlkFailHandle).
PagesAgree ==
    Configured =>
        \A b \in Copies :
            /\ \A c \in Copies : flash[c].page = flash[b].page
            /\ Copies \subseteq {EntryBlock(e) : e \in flash[b].page.map}
            /\ \A p \in Place : flash[BlockOf(p)].state \notin {"part", "full"}
                                => ImageBit(p) \in flash[b].page.bitmap

\* The defect table keeps data off every complete copy; the table is in the copies and
\* no longer changes when they are written (llfSetSblkToDBT before llfWriteSysGroup).
CopiesProtected == Copies \subseteq dbt

\* In the first round a first page is written only to a block that was erased, or whose
\* erase after the test of llfGetSBlk failed unnoticed: what could not be erased by the
\* command is no longer chosen (llfSetSBlockFWConfig).
CleanWrites ==
    pc = "heads" /\ pass = 1 /\ cur < Places /\ IsWritten(Current)
        => flash[BlockOf(Current)].state \in {"erased", "used"}

\* An update of copies in a window at the start that reports success leaves a complete
\* copy in every bank (llfWriteCodeBlock, BadSblk_num).
UpdateLeavesCopies ==
    Succeeded /\ job.kind = "update" /\ gubSblkStart = 0
        => \A k \in 0 .. (SysBanks - 1) : \E b \in Copies : b[1] = gubSblkBankStart + k

\* Of the blocks that were chosen only those are dropped that could not be erased ("for
\* system block that erase fail", llf_lib.c:2467).
DropsOnlyFailed ==
    [][pc = "config" =>
        \A p \in Good : guwSBlkNo'[p] = "good"
                      \/ BlockOf(p) \in job.failed \/ flash[BlockOf(p)] = Torn]_vars
=============================================================================
