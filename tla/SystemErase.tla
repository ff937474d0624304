---------------------------- MODULE SystemErase ----------------------------
(***************************************************************************)
(* The start of a reliability test (llfTodoRDT): llfAPEraseAllSblk erases  *)
(* the blocks of the system window in every bank, one at a time, and the   *)
(* tables it leaves are those the test and the firmware begin with.        *)
(*                                                                         *)
(* An erase that is not answered in time leaves the word of completion as  *)
(* it was, and the code looks at it all the same; the answer may come      *)
(* later and be taken for that of another block, as all erases of a bank   *)
(* have the same tag.                                                      *)
(***************************************************************************)
EXTENDS DefectScan

CONSTANTS
    MaxFails,   \* bound: erases that fail
    MaxSilent   \* bound: erases that are not answered in time

ASSUME EraseAssumption == MaxFails \in Nat /\ MaxSilent \in Nat

VARIABLE
    wipe  \* where llfAPEraseAllSblk is, the completion it holds, and what became of the blocks

wipeVars == <<cmd, dbt, sysDbt, wipe>>

\* The window, from gubSblkStart on.
EraseBlk == cmd.start .. (cmd.start + SysMax - 1)

\* "retry" is gubFWFeatureSetting & 0x20: erase a block again that failed.  cmp is not
\* initialised.
WipeInit ==
    \E retry \in BOOLEAN, cmp \in {"ok", "fail"} :
    wipe = [retry |-> retry, pc |-> "begin", bank |-> 0, blk |-> cmd.start, cmp |-> cmp, ret |-> "OK",
            err_msg_num |-> 0, fails |-> 0, silent |-> 0, failed |-> {}, erased |-> {}]

\* llfTodoRDT empties both tables before the erase.
WipeBegin ==
    /\ wipe.pc = "begin"
    /\ dbt' = Empty /\ sysDbt' = Empty
    /\ wipe' = [wipe EXCEPT !.pc = "erase"]
    /\ UNCHANGED cmd

\* Mutant: only the result of the last erase is looked at.
Verdict_LastRet(w) == IF w.ret # "OK" THEN "refused" ELSE "accepted"

\* The end of llfAPEraseAllSblk under BE_LLF_ALL: any message refuses the erase.
Verdict(w) == IF w.err_msg_num # 0 THEN "refused" ELSE "accepted"

NextBlk(w) ==
    IF w.blk < cmd.start + SysMax - 1 THEN [w EXCEPT !.pc = "erase", !.blk = @ + 1]
    ELSE IF w.bank < BankNum - 1
    THEN [w EXCEPT !.pc = "erase", !.bank = @ + 1, !.blk = cmd.start]
    ELSE [w EXCEPT !.pc = Verdict(w)]

\* One erase.  What the flash does with the block is a choice.  Until a wait has timed out
\* the completion is that of the block; a wait that times out adds a message and leaves
\* cmp alone; from then on a completion may be a late one.
Completion(fate) == IF wipe.silent = 0 THEN {fate} ELSE {"ok", "fail"}

After(fate) ==
    LET p == <<wipe.bank, wipe.blk>>
        known == [wipe EXCEPT !.fails = IF fate = "fail" THEN @ + 1 ELSE @,
                    !.failed = IF fate = "fail" THEN @ \cup {p} ELSE @ \ {p},
                    !.erased = IF fate = "ok" THEN @ \cup {p} ELSE @]
    IN  {[known EXCEPT !.cmp = cmp, !.ret = "OK"] : cmp \in Completion(fate)}
        \cup (IF wipe.silent < MaxSilent
              THEN {[known EXCEPT !.silent = @ + 1, !.err_msg_num = @ + 2, !.ret = "TIMEOUT"]}
              ELSE {})

Erased == UNION {After(fate) : fate \in {"ok"} \cup (IF wipe.fails < MaxFails THEN {"fail"} ELSE {})}

\* The block goes into both tables; the result of llfSetDBT is the new ret.  The table of
\* the system blocks has SysMax entries, and no one looks whether the block has one: when
\* the window was moved, a mark may go to the memory behind the table, which is not modelled.
MarkBlk ==
    /\ sysDbt' = IF wipe.blk < SysMax THEN llfMarkSystemBlkDefect(sysDbt, wipe.bank, wipe.blk)
                 ELSE sysDbt
    /\ dbt' = llfSetDBT(dbt, wipe.bank, wipe.blk)

WipeBlk ==
    /\ wipe.pc = "erase"
    /\ \E w \in Erased :
          \/ /\ w.cmp = "ok"
             /\ wipe' = NextBlk(w)
             /\ UNCHANGED <<dbt, sysDbt>>
          \/ /\ w.cmp = "fail" /\ wipe.retry
             /\ wipe' = [w EXCEPT !.pc = "retry"]
             /\ UNCHANGED <<dbt, sysDbt>>
          \/ /\ w.cmp = "fail" /\ ~wipe.retry
             /\ wipe' = NextBlk([w EXCEPT !.ret = "OK"])
             /\ MarkBlk
    /\ UNCHANGED cmd

\* The second erase of a block.
WipeAgain ==
    /\ wipe.pc = "retry"
    /\ \E w \in Erased :
          \/ /\ w.cmp = "ok"
             /\ wipe' = NextBlk(w)
             /\ UNCHANGED <<dbt, sysDbt>>
          \/ /\ w.cmp = "fail"
             /\ wipe' = NextBlk([w EXCEPT !.ret = "OK"])
             /\ MarkBlk
    /\ UNCHANGED cmd

WipeNext == WipeBegin \/ WipeBlk \/ WipeAgain

----------------------------------------------------------------------------
\* The blocks of a bank whose last erase failed.
Failed(b) == {p[2] : p \in {f \in wipe.failed : f[1] = b}}

\* When the test is started, every block of the window was erased or failed, and the
\* tables mark exactly those that failed (that of the system blocks those it has room for):
\* a completion of another block, or of none, must not have been taken for that of a block.
EraseMarksExact ==
    wipe.pc = "accepted" =>
        \A b \in Bank :
            /\ sysDbt[b] = {blk \in Failed(b) : blk < SysMax}
            /\ dbt[b] = {Group(blk) : blk \in Failed(b)}
            /\ \A blk \in EraseBlk : <<b, blk>> \in wipe.erased \cup wipe.failed

\* llfAPEraseAllSblk has ended.
WipeEnded == wipe.pc \in {"accepted", "refused"}
=============================================================================
