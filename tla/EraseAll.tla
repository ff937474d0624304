------------------------------ MODULE EraseAll ------------------------------
(***************************************************************************)
(* Erasing the whole flash: llfAPEraseAll (llf.c), which in each pass      *)
(* issues one erase on every bank, llfBECheckStatus (llf_lib.c), which     *)
(* drains the completion queue, and the three loops that alternate them:   *)
(*                                                                         *)
(*   "format"  llfEraseThenCheck, a format: a pass whose completions do    *)
(*             not come within 10 s ends the command                       *)
(*   "config"  llfWriteConfig, after a defect table was inherited          *)
(*   "nand"    the command BE_LLF_ERASENAND                                *)
(*                                                                         *)
(* The processor runs one task to its end; what goes on beside it is the   *)
(* flash controller, which completes erases in any order, late or never.   *)
(* Only llfBECheckStatus looks at the completion queue, so a completion    *)
(* happens in the step that polls it; one that is never polled is lost.    *)
(***************************************************************************)
EXTENDS RemapTable, Integers, FiniteSets

CONSTANTS
    BankNum,     \* NandPara.ubBankNum
    BlockNum,    \* NandPara.uwBlockNumPerLun
    RealMpNum,   \* guwRealMPBlkNum, when the remap table was inherited
    SblkBlks,    \* SYS_BLK: system blocks in a bank
    SysBankNum,  \* SYS_BANK_NUM: banks that hold system blocks
    SblkStart,   \* gubSblkStart: first block of the system window
    BankStart,   \* gubSblkBankStart: its first bank
    RdtBlks,     \* EXTEND_RDT_BLK: blocks after the window that keep the RDT result
    WordBits,    \* 32: bits of gulEraseFailSysblk
    TagRange,    \* 4096: block numbers a completion tag can tell apart
    Jobs,        \* the erase jobs that are started
    MaxFail,     \* bound: erases that fail
    MaxLate      \* bound: erases outstanding when a wait times out

Bank == 0 .. (BankNum - 1)

Modes == {"INHERIT_OR_FORMAT", "FORCE_INHERIT", "FORCE_FORMAT",
          "FORMAT_ERASE_NONDEFECT", "DEFECT_BAD_BLOCK"}

DbtSources == {"NONE", "INIT", "RDT", "SYSTEM", "FACTORY"}

Job == [ caller  : {"format", "config", "nand"},
         ersMode : {"ERASE_ALL", "ERASE_ALL_WITH_DBT"},
         mode    : Modes,        \* gubLLFMode
         dbtDone : DbtSources,   \* gfDBTInitDone
         rebuild : BOOLEAN,      \* gubNeedRebuildRemap
         pro     : BOOLEAN,      \* gubBlkRemapProFlag
         rdtImg  : BOOLEAN,      \* gubRdtImg
         twice   : BOOLEAN,      \* gubFWFeatureSetting & 0x20
         dbt     : [Bank -> SUBSET Nat],   \* the defect tables it starts with
         sysDbt  : [Bank -> SUBSET Nat] ]

ASSUME EraseAssumption ==
    /\ BankNum \in 1 .. 16            \* the tag has four bits for the bank
    /\ BlockNum \in Nat \ {0} /\ BlockNum % Planes = 0
    /\ BlockNum <= None              \* a U16
    /\ RealMpNum \in Nat /\ RealMpNum * Planes >= BlockNum
    /\ SblkBlks \in Nat \ {0} /\ SysBankNum \in Nat \ {0}
    /\ SblkStart \in Nat /\ BankStart \in Nat /\ RdtBlks \in Nat
    /\ SblkStart + SblkBlks + RdtBlks <= SysMax
    /\ SysMax <= BlockNum
    /\ TagRange \in Nat \ {0} /\ WordBits \in Nat \ {0}
    /\ RealMpNum * Planes < 6 * TagRange
    /\ Jobs \subseteq Job
    /\ MaxFail \in Nat /\ MaxLate \in Nat

VARIABLES
    job,               \* what is erased, and by whom; fixed
    resState,          \* res_state of the response buffer
    uwBlock,           \* per bank: the next block to erase
    uwEraseLastBlock,  \* banks that have reached the end
    gufLastEraseFlag,  \* erases without a completion
    gubEraseCmpNum,    \* the same, per bank
    gubEraseNum,       \* which range of TagRange blocks the tags are of
    gubErasetimeout,   \* 1: no completion came for 10 s
    dbt, sysDbt,       \* the defect tables (DefectTable)
    gulEraseFailSysblk,\* bits of the failed erases in the window
    remap,             \* per bank: the remap collector (RemapTable)
    pc,                \* where the loop is
    bank_no,           \* bank of the pass
    again,             \* erase that is done a second time
    hw,                \* the flash controller: erases it was given
    issued, bad        \* history: blocks erased; blocks whose erase failed

soft == <<resState, uwBlock, uwEraseLastBlock, gufLastEraseFlag, gubEraseCmpNum,
          gubEraseNum, gubErasetimeout>>
tables == <<dbt, sysDbt, gulEraseFailSysblk, remap>>
vars == <<job, soft, tables, pc, bank_no, again, hw, issued, bad>>

\* An erase the controller holds; second: it is a second try.
Command == [bank : Bank, blk : Nat, second : BOOLEAN]

------------------------------------------------------------------------------
(* llfAPEraseAll                                                           *)

\* The first block that is not erased.
BlockEnd ==
    CASE job.dbtDone = "RDT" /\ job.mode # "DEFECT_BAD_BLOCK" /\ ~job.rebuild
                                          -> SblkBlks + SblkStart
      [] job.dbtDone = "SYSTEM" /\ job.pro -> RealMpNum * Planes
      [] OTHER                             -> BlockNum

WithDbt == job.ersMode = "ERASE_ALL_WITH_DBT"

\* The blocks before the end of the system window are erased even if defective.
InWindow(blk) == blk < SblkStart + SblkBlks

InRdtArea(blk) == blk \in (SblkStart + SblkBlks) .. (SblkStart + SblkBlks + RdtBlks - 1)

KeepsRdt == BlockEnd > SblkBlks + SblkStart /\ ~job.rdtImg /\ job.mode # "FORCE_FORMAT"

\* Mutant: the last block of the result is erased.
SkipRdt_Short(blk) ==
    IF KeepsRdt /\ InRdtArea(blk) THEN SblkStart + SblkBlks + RdtBlks - 1 ELSE blk

SkipRdt(blk) == IF KeepsRdt /\ InRdtArea(blk) THEN SblkStart + SblkBlks + RdtBlks ELSE blk

IsDefect(bank, blk) ==
    IF blk < SysMax THEN llfIsSystemBlkDefect(sysDbt, bank, blk)
                    ELSE llfIsBlockBad(dbt, bank, blk)

Erases(bank, blk) == WithDbt => ~IsDefect(bank, blk) \/ InWindow(blk)

\* Mutant: the number is not divided.
RangeOf_NotDivided(blk) == blk + 1

\* The range of block numbers (from 1) that a tag is of.
RangeOf(blk) == blk \div TagRange + 1

NextBank == /\ bank_no' = bank_no + 1
            /\ pc' = IF bank_no + 1 = BankNum THEN "check" ELSE "issue"

StartErase ==
    /\ pc = "call" /\ resState = "ERASE"
    /\ ~(WithDbt /\ job.dbtDone = "NONE")
    /\ resState' = "EXECUTE"
    /\ uwBlock' = [b \in Bank |-> 0]
    /\ gubEraseCmpNum' = [b \in Bank |-> 0]
    /\ uwEraseLastBlock' = 0
    /\ gufLastEraseFlag' = 0
    /\ gubErasetimeout' = IF job.caller = "format" THEN 0 ELSE gubErasetimeout
    /\ bank_no' = 0 /\ pc' = "issue"
    /\ UNCHANGED <<job, gubEraseNum, tables, again, hw, issued, bad>>

\* ERR_ERASE_WITHOUT_INIT: there is no defect table to erase by.
RefuseErase ==
    /\ pc = "call" /\ resState = "ERASE"
    /\ WithDbt /\ job.dbtDone = "NONE"
    /\ resState' = "IDLE" /\ pc' = "refused"
    /\ uwBlock' = [b \in Bank |-> 0]
    /\ gubEraseCmpNum' = [b \in Bank |-> 0]
    /\ uwEraseLastBlock' = 0
    /\ gufLastEraseFlag' = 0
    /\ UNCHANGED <<job, gubEraseNum, gubErasetimeout, tables, bank_no, again, hw,
                   issued, bad>>

\* Mutant: the completions are not waited for.
AllErased_Unanswered == uwEraseLastBlock = BankNum

AllErased == uwEraseLastBlock = BankNum /\ gufLastEraseFlag = 0

NextPass ==
    /\ pc = "call" /\ resState = "EXECUTE" /\ ~AllErased
    /\ gubErasetimeout' = IF job.caller = "format" THEN 0 ELSE gubErasetimeout
    /\ bank_no' = 0 /\ pc' = "issue"
    /\ UNCHANGED <<job, resState, uwBlock, uwEraseLastBlock, gufLastEraseFlag,
                   gubEraseCmpNum, gubEraseNum, tables, again, hw, issued, bad>>

FinishErase ==
    /\ pc = "call" /\ resState = "EXECUTE" /\ AllErased
    /\ resState' = CASE job.caller = "nand"                   -> "IDLE"
                     [] job.mode = "FORMAT_ERASE_NONDEFECT"   -> "WRITE_FW"
                     [] OTHER                                 -> "BUILD_DBT"
    /\ pc' = "done"
    /\ UNCHANGED <<job, uwBlock, uwEraseLastBlock, gufLastEraseFlag, gubEraseCmpNum,
                   gubEraseNum, gubErasetimeout, tables, bank_no, again, hw, issued,
                   bad>>

\* Mutant: a second try would not find its erase alone.
TurnAfterIssue_NoWait == "issued"

\* ERASEALL_TWICE waits for every erase before the next.
TurnAfterIssue == IF job.twice THEN "check" ELSE "issued"

\* The bank has a block left, and it is erased.
IssueErase ==
    LET blk == SkipRdt(uwBlock[bank_no])
        cmd == [bank |-> bank_no, blk |-> blk, second |-> FALSE]
    IN  /\ pc = "issue"
        /\ blk < BlockEnd /\ Erases(bank_no, blk)
        /\ uwBlock' = [uwBlock EXCEPT ![bank_no] = blk]
        /\ gubEraseNum' = RangeOf(blk)
        /\ hw' = hw \cup {cmd}
        /\ gubEraseCmpNum' = [gubEraseCmpNum EXCEPT ![bank_no] = @ + 1]
        /\ gufLastEraseFlag' = gufLastEraseFlag + 1
        /\ issued' = issued \cup {<<bank_no, blk>>}
        /\ pc' = TurnAfterIssue
        /\ UNCHANGED <<job, resState, uwEraseLastBlock, gubErasetimeout, tables, bank_no,
                       again, bad>>

\* The rest of the bank's turn, after the check when every erase is checked.
AfterIssue ==
    /\ pc = "issued"
    /\ sysDbt' = IF WithDbt /\ InWindow(uwBlock[bank_no])
                 THEN llfUnMarkSystemBlkDefect(sysDbt, bank_no, uwBlock[bank_no])
                 ELSE sysDbt
    /\ uwBlock' = [uwBlock EXCEPT ![bank_no] = @ + 1]
    /\ NextBank
    /\ UNCHANGED <<job, resState, uwEraseLastBlock, gufLastEraseFlag, gubEraseCmpNum,
                   gubEraseNum, gubErasetimeout, dbt, gulEraseFailSysblk, remap, again,
                   hw, issued, bad>>

\* The bank has a block left, but a defective one.
SkipDefect ==
    LET blk == SkipRdt(uwBlock[bank_no])
    IN  /\ pc = "issue"
        /\ blk < BlockEnd /\ ~Erases(bank_no, blk)
        /\ uwBlock' = [uwBlock EXCEPT ![bank_no] = blk + 1]
        /\ gubEraseNum' = RangeOf(blk)
        /\ NextBank
        /\ UNCHANGED <<job, resState, uwEraseLastBlock, gufLastEraseFlag, gubEraseCmpNum,
                       gubErasetimeout, tables, again, hw, issued, bad>>

\* The bank has no block left: it is counted once, when it gets there.
BankAtEnd ==
    LET blk == SkipRdt(uwBlock[bank_no])
    IN  /\ pc = "issue"
        /\ blk >= BlockEnd
        /\ uwBlock' = [uwBlock EXCEPT ![bank_no] = IF blk = BlockEnd THEN blk + 1 ELSE blk]
        /\ uwEraseLastBlock' = IF blk = BlockEnd THEN uwEraseLastBlock + 1
                                                 ELSE uwEraseLastBlock
        /\ NextBank
        /\ UNCHANGED <<job, resState, gufLastEraseFlag, gubEraseCmpNum, gubEraseNum,
                       gubErasetimeout, tables, again, hw, issued, bad>>

------------------------------------------------------------------------------
(* llfBECheckStatus                                                        *)

\* Mutant: the range is taken as if it counted from 0.
Decode_RangeFromZero(cmd) == (cmd.blk % TagRange) + gubEraseNum * TagRange

\* Mutant: the range is forgotten.
Decode_TagOnly(cmd) == cmd.blk % TagRange

\* The block a completion stands for: the tag has its number modulo TagRange,
\* the range is the one of the erase issued last.
Decode(cmd) ==
    (cmd.blk % TagRange) + (IF gubEraseNum = 0 THEN 0 ELSE gubEraseNum - 1) * TagRange

\* Mutant: the first bank of the window is left out.
InSblkWindow_NotFirst(bank, blk) ==
    /\ blk \in SblkStart .. (SblkStart + SblkBlks - 1)
    /\ bank > BankStart
    /\ bank < BankStart + (IF BankNum > SysBankNum THEN SysBankNum ELSE BankNum)

InSblkWindow(bank, blk) ==
    /\ blk \in SblkStart .. (SblkStart + SblkBlks - 1)
    /\ bank >= BankStart
    /\ bank < BankStart + (IF BankNum > SysBankNum THEN SysBankNum ELSE BankNum)

\* An inherited remap table, or one that is to be, is not collected again.
CollectsRemap ==
    job.mode \notin {"INHERIT_OR_FORMAT", "FORCE_INHERIT", "DEFECT_BAD_BLOCK"}

\* Mutant: the group collected last is never written out.
LastOfLun_Never(blk) == FALSE

LastOfLun(blk) == blk = BlockNum - 1

\* The remap collector of a bank after the erase of blk.
Collected(c, blk, failed) ==
    LET marked  == IF failed /\ CollectsRemap /\ blk >= SysMax THEN CollectBad(c, blk) ELSE c
    IN  IF LastOfLun(blk) THEN LlfCreatReMappingTable(marked) ELSE marked

\* Mutant: the bank's own counter is forgotten.
Record_StaysCounted(bank, blk, failed) ==
    /\ sysDbt' = IF failed /\ blk < SysMax
                 THEN llfMarkSystemBlkDefect(sysDbt, bank, blk) ELSE sysDbt
    /\ gulEraseFailSysblk' = gulEraseFailSysblk
    /\ remap' = [remap EXCEPT ![bank] = Collected(@, blk, failed)]
    /\ dbt' = IF failed THEN llfSetDBT(dbt, bank, blk) ELSE dbt
    /\ gubEraseCmpNum' = gubEraseCmpNum
    /\ gufLastEraseFlag' = gufLastEraseFlag - 1

\* The bit of a block of the window.  The shift 1 << n is by the low bits of n only
\* (the build's sllv): from bank 8 of the window on, two blocks share a bit.
FailBit(bank, blk) ==
    ((blk - SblkStart) + SblkBlks * (bank - BankStart)) % WordBits

\* The tables after a completion, and the counters.
Record(bank, blk, failed) ==
    /\ sysDbt' = IF failed /\ blk < SysMax
                 THEN llfMarkSystemBlkDefect(sysDbt, bank, blk) ELSE sysDbt
    /\ gulEraseFailSysblk' = IF failed /\ InSblkWindow(bank, blk)
                             THEN gulEraseFailSysblk \cup {FailBit(bank, blk)}
                             ELSE gulEraseFailSysblk
    /\ remap' = [remap EXCEPT ![bank] = Collected(@, blk, failed)]
    /\ dbt' = IF failed THEN llfSetDBT(dbt, bank, blk) ELSE dbt
    /\ gubEraseCmpNum' = [gubEraseCmpNum EXCEPT ![bank] = @ - 1]
    /\ gufLastEraseFlag' = gufLastEraseFlag - 1

\* What the controller did with the erase, known when its completion is polled.
Fails(cmd, failed) ==
    /\ failed => Cardinality(bad) < MaxFail
    /\ bad' = IF failed THEN bad \cup {<<cmd.bank, cmd.blk>>}
                        ELSE bad \ {<<cmd.bank, cmd.blk>>}

\* A completion that needs no second try.
PollCompletion(cmd, failed) ==
    /\ pc = "check" /\ gufLastEraseFlag # 0
    /\ cmd \in hw /\ Fails(cmd, failed)
    /\ ~(failed /\ job.twice)
    /\ hw' = hw \ {cmd}
    /\ Record(cmd.bank, Decode(cmd), failed)
    /\ UNCHANGED <<job, resState, uwBlock, uwEraseLastBlock, gubEraseNum, gubErasetimeout,
                   pc, bank_no, again, issued>>

\* ERASEALL_TWICE: a failed erase is done once more (with the same tag).
EraseAgain(cmd) ==
    LET blk == Decode(cmd)
    IN  /\ pc = "check" /\ gufLastEraseFlag = 1
        /\ cmd \in hw /\ job.twice /\ Fails(cmd, TRUE)
        /\ hw' = (hw \ {cmd}) \cup {[bank |-> cmd.bank, blk |-> blk, second |-> TRUE]}
        /\ again' = [bank |-> cmd.bank, blk |-> blk]
        /\ issued' = issued \cup {<<cmd.bank, blk>>}
        /\ pc' = "again"
        /\ UNCHANGED <<job, soft, tables, bank_no>>

\* ASSERT_LLF(gufLastEraseFlag == 1)
EraseAgainAssert(cmd) ==
    /\ pc = "check" /\ gufLastEraseFlag \notin {0, 1}
    /\ cmd \in hw /\ job.twice /\ Fails(cmd, TRUE)
    /\ hw' = hw \ {cmd}
    /\ pc' = "assert"
    /\ UNCHANGED <<job, soft, tables, bank_no, again, issued>>

\* The next completion is taken for the one of the second erase.
PollAgain(cmd, failed) ==
    /\ pc = "again"
    /\ cmd \in hw /\ Fails(cmd, failed)
    /\ hw' = hw \ {cmd}
    /\ Record(again.bank, again.blk, failed)
    /\ pc' = "check"
    /\ UNCHANGED <<job, resState, uwBlock, uwEraseLastBlock, gubEraseNum, gubErasetimeout,
                   bank_no, again, issued>>

\* Mutant: a format does not look at gubErasetimeout.
Return_Regardless(timeout) ==
    /\ pc' = IF bank_no < BankNum THEN "issued" ELSE "loop"
    /\ UNCHANGED resState

\* Where llfBECheckStatus returns to: the middle of the pass, or the loop, which
\* in a format ends when there was a timeout.
Return(timeout) ==
    CASE bank_no < BankNum                    -> pc' = "issued" /\ UNCHANGED resState
      [] job.caller = "format" /\ bank_no = BankNum /\ timeout = 1
                                              -> pc' = "timeout" /\ resState' = "IDLE"
      [] OTHER                                -> pc' = "loop" /\ UNCHANGED resState

\* No completion came for 10 s: it will come later, or never.
CheckTimeout ==
    /\ pc \in {"check", "again"} /\ gufLastEraseFlag # 0
    /\ Cardinality(hw) <= MaxLate
    /\ gubErasetimeout' = 1
    /\ Return(1)
    /\ UNCHANGED <<job, uwBlock, uwEraseLastBlock, gufLastEraseFlag, gubEraseCmpNum,
                   gubEraseNum, tables, bank_no, again, hw, issued, bad>>

CheckDone ==
    /\ pc = "check" /\ gufLastEraseFlag = 0
    /\ Return(gubErasetimeout)
    /\ UNCHANGED <<job, uwBlock, uwEraseLastBlock, gufLastEraseFlag, gubEraseCmpNum,
                   gubEraseNum, gubErasetimeout, tables, bank_no, again, hw, issued, bad>>

------------------------------------------------------------------------------
(* The loops, and the scheduler they give the processor back to            *)

LoopAgain ==
    /\ pc = "loop"
    /\ pc' = "call"
    /\ UNCHANGED <<job, soft, tables, bank_no, again, hw, issued, bad>>

\* After more than 1000 ticks the task returns; res_state says where it goes on.
Pause ==
    /\ pc = "loop" /\ job.caller # "nand"
    /\ resState' = IF job.caller = "format" THEN "ERASE_CT" ELSE "WRITE_FW"
    /\ pc' = "paused"
    /\ UNCHANGED <<job, uwBlock, uwEraseLastBlock, gufLastEraseFlag, gubEraseCmpNum,
                   gubEraseNum, gubErasetimeout, tables, bank_no, again, hw, issued, bad>>

\* llfAll forgets the range, the loop takes up its state again.
Resume ==
    /\ pc = "paused"
    /\ gubEraseNum' = 0
    /\ resState' = "EXECUTE"
    /\ pc' = "call"
    /\ UNCHANGED <<job, uwBlock, uwEraseLastBlock, gufLastEraseFlag, gubEraseCmpNum,
                   gubErasetimeout, tables, bank_no, again, hw, issued, bad>>

------------------------------------------------------------------------------
Init ==
    /\ job \in Jobs
    /\ resState = "ERASE" /\ pc = "call"
    /\ uwBlock = [b \in Bank |-> 0]
    /\ uwEraseLastBlock = 0
    /\ gufLastEraseFlag = 0
    /\ gubEraseCmpNum = [b \in Bank |-> 0]
    /\ gubEraseNum = 0 /\ gubErasetimeout = 0
    /\ dbt = job.dbt /\ sysDbt = job.sysDbt
    /\ gulEraseFailSysblk = {}
    /\ remap = [b \in Bank |-> LlfInitReMapTable]
    /\ bank_no = 0 /\ again = [bank |-> 0, blk |-> 0]
    /\ hw = {} /\ issued = {} /\ bad = {}

Poll == \E cmd \in hw, failed \in BOOLEAN :
            PollCompletion(cmd, failed) \/ PollAgain(cmd, failed)

Next ==
    \/ StartErase \/ RefuseErase \/ NextPass \/ FinishErase
    \/ IssueErase \/ AfterIssue \/ SkipDefect \/ BankAtEnd
    \/ \E cmd \in hw, failed \in BOOLEAN : PollCompletion(cmd, failed)
    \/ \E cmd \in hw, failed \in BOOLEAN : PollAgain(cmd, failed)
    \/ \E cmd \in hw : EraseAgain(cmd) \/ EraseAgainAssert(cmd)
    \/ CheckTimeout \/ CheckDone
    \/ LoopAgain \/ Pause \/ Resume

Spec == Init /\ [][Next]_vars

\* The task is rescheduled until it is idle; and, where the loop never gives up,
\* an erase that is waited for again and again is answered.
FairSpec == Spec /\ WF_vars(Next) /\ SF_vars(job.caller # "format" /\ Poll)

------------------------------------------------------------------------------
Ends == {"done", "timeout", "refused", "assert"}

TypeOK ==
    /\ job \in Jobs
    /\ resState \in {"ERASE", "ERASE_CT", "EXECUTE", "WRITE_FW", "BUILD_DBT", "IDLE"}
    /\ uwBlock \in [Bank -> Nat]
    /\ uwEraseLastBlock \in Nat
    /\ gufLastEraseFlag \in Nat
    /\ gubEraseCmpNum \in [Bank -> Nat]
    /\ gubEraseNum \in 0 .. 6
    /\ gubErasetimeout \in {0, 1}
    /\ dbt \in [Bank -> SUBSET Nat] /\ sysDbt \in [Bank -> SUBSET Nat]
    /\ remap \in [Bank -> Collector]
    /\ pc \in {"call", "issue", "issued", "check", "again", "loop", "paused"} \cup Ends
    /\ bank_no \in 0 .. BankNum
    /\ again \in [bank : Bank, blk : Nat]
    /\ hw \subseteq Command
    /\ issued \subseteq Bank \X Nat /\ bad \subseteq Bank \X Nat

\* The two counters of llfBECheckStatus count the erases the controller holds,
\* in all and per bank: neither a timeout, a late completion nor a second try
\* makes them drift (gufLastEraseFlag-- and gubEraseCmpNum[bank_no]--, unsigned).
OutstandingExact ==
    pc # "assert" =>
    /\ gufLastEraseFlag = Cardinality(hw)
    /\ \A b \in Bank : gubEraseCmpNum[b] = Cardinality({cmd \in hw : cmd.bank = b})

\* A completion is taken for the block that was erased, although its tag has the
\* number modulo 4096 only: all outstanding erases are of the range of the last.
DecodeExact ==
    pc \in {"check", "again"} /\ gubErasetimeout = 0 => \A cmd \in hw : Decode(cmd) = cmd.blk

\* A group is marked bad only for a block of it whose erase failed.
MarkedOnlyIfFailed ==
    gubErasetimeout = 0 =>
        \A b \in Bank : \A g \in dbt[b] :
            g \in job.dbt[b] \/ \E blk \in BlocksOf(g) : <<b, blk>> \in bad

\* When the erase is over every block that failed is in the tables: in the DBT,
\* in the system DBT if it may be a system block, in gulEraseFailSysblk if it is in
\* the system window.  (With ERASEALL_TWICE and a DBT the window is unmarked after
\* the check, llf.c:6617, and its blocks are the exception.)
FailuresRecorded ==
    pc = "done" /\ gubErasetimeout = 0 =>
        \A f \in bad :
            LET b == f[1]  blk == f[2]
            IN  /\ llfIsBlockBad(dbt, b, blk)
                /\ blk < SysMax /\ ~(job.twice /\ WithDbt /\ InWindow(blk))
                        => llfIsSystemBlkDefect(sysDbt, b, blk)
                /\ <<b, blk>> \in (BankStart .. (BankStart + SysBankNum - 1))
                                  \X (SblkStart .. (SblkStart + SblkBlks - 1))
                        => FailBit(b, blk) \in gulEraseFailSysblk

\* The blocks that keep the result of the reliability test.
ResultBlocks ==
    IF job.rdtImg \/ job.mode = "FORCE_FORMAT" THEN {}
    ELSE (SblkStart + SblkBlks) .. (SblkStart + SblkBlks + RdtBlks - 1)

\* When the erase is over every block below the end was erased, except those that
\* keep the result of the reliability test and, with a DBT, defective ones after
\* the system window; and the result was never erased.
EraseSetExact ==
    /\ gubErasetimeout = 0 => \A f \in issued : f[2] < BlockEnd /\ f[2] \notin ResultBlocks
    /\ pc = "done" =>
        \A b \in Bank, blk \in (0 .. (BlockEnd - 1)) \ ResultBlocks :
            \/ <<b, blk>> \in issued
            \/ WithDbt /\ blk >= SblkStart + SblkBlks /\ IsDefect(b, blk)

\* No erase is reported done while one is outstanding or was lost.
DoneMeansAnswered == pc = "done" => hw = {}

\* ERR_FIO_TIMEOUT is reported of the banks that did not answer, and of no other.
TimeoutBlamesSilentBanks ==
    pc = "timeout" => {b \in Bank : gubEraseCmpNum[b] # 0} = {cmd.bank : cmd \in hw}

\* The good blocks of the groups that broke, in a plane of a bank, in order.
Leftover(b, p) ==
    LET broken == {Group(f[2]) : f \in {f \in bad : f[1] = b /\ f[2] >= SysMax}}
        good   == {g \in broken : <<b, g * Planes + p>> \notin bad}
    IN  {g * Planes + p : g \in good}

Increasing(seq) == \A i, j \in 1 .. Len(seq) : i < j => seq[i] < seq[j]

\* A format that erases everything leaves in the remap table exactly the good
\* blocks of the groups that broke, each once, the first TableLen of a plane:
\* also of the last group of the LUN, whichever of its erases failed.
RemapTableExact ==
    pc = "done" /\ ~WithDbt /\ CollectsRemap /\ gubErasetimeout = 0 =>
        \A b \in Bank, p \in PlaneSet :
            LET tab   == remap[b].tab[p]
                found == {tab[i] : i \in 1 .. Len(tab)}
            IN  /\ Increasing(tab)
                /\ found \subseteq Leftover(b, p)
                /\ found = Leftover(b, p) \/ Len(tab) = TableLen
                /\ \A k \in Leftover(b, p) \ found : \A i \in 1 .. Len(tab) : tab[i] < k

\* The assertion of llfBECheckStatus (llf_lib.c:3509): when a failed erase is done
\* again it is the only one outstanding.
EraseAgainAlone == pc # "assert"

\* ... which holds as long as no completion was waited for in vain.
EraseAgainAloneInTime == gubErasetimeout = 0 => pc # "assert"

\* The erase ends.
EraseEnds == <>(pc \in Ends)
=============================================================================
