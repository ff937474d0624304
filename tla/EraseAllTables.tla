--------------------------- MODULE EraseAllTables ---------------------------
(***************************************************************************)
(* What is proved of the tables EraseAll leaves: the blocks it erased and  *)
(* the marks it set are exactly those it should.                           *)
(*                                                                         *)
(* The banks are in lock step (EraseAllProofs), so a completion is taken   *)
(* for the erase it is of; an erase is never issued twice but by a second  *)
(* try, so what a table says of a block is about one erase.                *)
(***************************************************************************)
EXTENDS EraseAllProofs

------------------------------------------------------------------------------
(* Every step                                                              *)

\* The job is fixed, what was issued stays issued, and a wait that timed out is
\* forgotten by no erase that goes on.
LEMMA Onward ==
    ASSUME Core, LockStep, [Next]_vars
    PROVE  job' = job /\ issued \subseteq issued' /\ (gubErasetimeout' = 0 => gubErasetimeout = 0)
<1>1. CASE StartErase \/ NextPass
    BY <1>1 DEF StartErase, NextPass, LockStep, FormatClean, BetweenPasses
<1>2. CASE RefuseErase \/ FinishErase \/ IssueErase \/ AfterIssue \/ SkipDefect \/ BankAtEnd
           \/ CheckTimeout \/ CheckDone \/ LoopAgain \/ Pause \/ Resume \/ UNCHANGED vars
    BY <1>2 DEF RefuseErase, FinishErase, IssueErase, AfterIssue, SkipDefect, BankAtEnd,
                CheckTimeout, CheckDone, LoopAgain, Pause, Resume, vars, soft
<1>3. CASE \E cmd \in hw, failed \in BOOLEAN :
                PollCompletion(cmd, failed) \/ PollAgain(cmd, failed)
    BY <1>3 DEF PollCompletion, PollAgain
<1>4. CASE \E cmd \in hw : EraseAgain(cmd) \/ EraseAgainAssert(cmd)
    BY <1>4 DEF EraseAgain, EraseAgainAssert, soft
<1> QED BY <1>1, <1>2, <1>3, <1>4 DEF Next

\* Where a second try finds its erase: it is of the same block.
LEMMA SameBlock ==
    ASSUME Core, LockStep, NEW cmd \in hw, pc = "check", gubErasetimeout = 0
    PROVE  Decode(cmd) = cmd.blk
    BY LockImpliesDecode DEF DecodeExact

------------------------------------------------------------------------------
(* The blocks that are erased                                              *)

Pending == {<<cmd.bank, cmd.blk>> : cmd \in hw}

\* The blocks a bank has come to.
Reached(b) == IF b = bank_no /\ pc \in AtBlock THEN uwBlock[b] + 1 ELSE uwBlock[b]

IssuedReached ==
    /\ resState = "ERASE" => issued = {}
    /\ bad \subseteq issued /\ Pending \subseteq issued
    /\ gubErasetimeout = 0 =>
        \A f \in issued : /\ f[2] < Reached(f[1])
                          /\ f[2] < BlockEnd /\ f[2] \notin ResultBlocks

LEMMA IssuedBound ==
    ASSUME Core, NEW f \in issued
    PROVE  f[1] \in Bank /\ f[2] \in Nat /\ f = <<f[1], f[2]>>
    BY DEF Core, TypeOK

\* The jump over the result: it ends at a block that is no part of it.
LEMMA SkipsResult ==
    ASSUME TypeOK, NEW blk \in Nat
    PROVE  /\ SkipRdt(blk) < BlockEnd => SkipRdt(blk) \notin ResultBlocks
           /\ \A x \in Nat : blk <= x /\ x < SkipRdt(blk) => x \in ResultBlocks
           /\ blk <= BlockEnd => SkipRdt(blk) <= BlockEnd
<1>1. /\ SblkStart \in Nat /\ SblkBlks \in Nat /\ RdtBlks \in Nat /\ BlockEnd \in Nat
      /\ SysMax \in Nat /\ BlockNum \in Nat /\ SblkStart + SblkBlks + RdtBlks <= BlockNum
    BY EraseAssumption, GeometryAssumption, BlockEndType
<1>2. BlockEnd = SblkBlks + SblkStart \/ BlockEnd >= BlockNum
    BY EraseAssumption, GeometryAssumption DEF BlockEnd
<1>3. KeepsRdt => /\ ResultBlocks = (SblkStart + SblkBlks) .. (SblkStart + SblkBlks + RdtBlks - 1)
                  /\ BlockEnd >= BlockNum
    BY <1>1, <1>2 DEF KeepsRdt, ResultBlocks
<1>4. CASE KeepsRdt
    BY <1>1, <1>3, <1>4 DEF SkipRdt, InRdtArea
<1>5. CASE ~KeepsRdt
    BY <1>1, <1>5 DEF SkipRdt, KeepsRdt, ResultBlocks
<1> QED BY <1>4, <1>5

LEMMA IssuedStep ==
    ASSUME Core, Core', LockStep, Alone, IssuedReached, [Next]_vars
    PROVE  IssuedReached'
<1>1. job' = job /\ issued \subseteq issued' /\ (gubErasetimeout' = 0 => gubErasetimeout = 0)
    BY Onward
<1>2. BlockEnd' = BlockEnd /\ ResultBlocks' = ResultBlocks
    BY <1>1 DEF BlockEnd, ResultBlocks
<1>3. uwBlock \in [Bank -> Nat] /\ uwBlock' \in [Bank -> Nat] /\ bank_no \in Nat /\ BankNum \in Nat \ {0}
    BY EraseAssumption DEF Core, TypeOK
<1>4. \A f \in issued : f[1] \in Bank /\ f[2] \in Nat
    BY IssuedBound
<1>5. ASSUME issued' = issued, bad' = bad, hw' = hw, resState' = "ERASE" => resState = "ERASE",
             \A b \in Bank : Reached(b)' >= Reached(b)
      PROVE  IssuedReached'
  <2>1. Pending' = Pending
      BY <1>5 DEF Pending
  <2>2. \A b \in Bank : Reached(b) \in Nat /\ Reached(b)' \in Nat
      BY <1>3 DEF Reached
  <2> QED BY <1>1, <1>2, <1>4, <1>5, <2>1, <2>2 DEF IssuedReached
<1>6. CASE StartErase \/ RefuseErase
  <2>1. /\ issued = {} /\ issued' = issued /\ bad' = bad /\ hw' = hw /\ resState' # "ERASE"
      BY <1>6 DEF StartErase, RefuseErase, IssuedReached
  <2> QED BY <2>1 DEF IssuedReached, Pending
<1>7. CASE IssueErase
  <2> DEFINE blk == SkipRdt(uwBlock[bank_no])
             pair == <<bank_no, blk>>
  <2>1. bank_no \in Bank /\ uwBlock[bank_no] \in Nat
      BY <1>3, <1>7 DEF IssueErase, Core, Shape
  <2>2. blk \in Nat /\ blk >= uwBlock[bank_no]
      BY <2>1, SkipRdtType
  <2>3. blk < BlockEnd /\ blk \notin ResultBlocks
      BY <1>7, <2>1, SkipsResult DEF IssueErase, Core
  <2>4. /\ issued' = issued \cup {pair} /\ bad' = bad /\ resState' = resState
        /\ hw' = hw \cup {[bank |-> bank_no, blk |-> blk, second |-> FALSE]}
        /\ uwBlock' = [uwBlock EXCEPT ![bank_no] = blk]
        /\ pc = "issue" /\ pc' \in AtBlock /\ bank_no' = bank_no
      BY <1>7 DEF IssueErase, TurnAfterIssue, AtBlock
  <2> DEFINE new == [bank |-> bank_no, blk |-> blk, second |-> FALSE]
  <2>10. hw' = hw \cup {new} /\ new.bank = bank_no /\ new.blk = blk
      BY <2>4
  <2> HIDE DEF blk, new
  <2>5. Pending' = Pending \cup {pair}
      BY <2>10 DEF Pending
  <2>6. \A b \in Bank : Reached(b)' >= Reached(b) /\ Reached(b) \in Nat /\ Reached(b)' \in Nat
      BY <1>3, <2>1, <2>2, <2>4 DEF Reached, AtBlock
  <2>7. \A b : b = bank_no => Reached(b)' = blk + 1
      BY <1>3, <2>1, <2>4 DEF Reached
  <2>8. resState' # "ERASE"
      BY <1>7, <2>4 DEF IssueErase, Core, Shape
  <2>9. ASSUME gubErasetimeout' = 0, NEW f \in issued'
        PROVE  f[2] < Reached(f[1])' /\ f[2] < BlockEnd /\ f[2] \notin ResultBlocks
    <3>1. CASE f = pair
        BY <2>2, <2>3, <2>7, <3>1
    <3>2. CASE f \in issued
        BY <1>1, <1>4, <2>6, <2>9, <3>2 DEF IssuedReached
    <3> QED BY <2>4, <2>9, <3>1, <3>2
  <2> QED BY <1>2, <2>4, <2>5, <2>8, <2>9 DEF IssuedReached
<1>8. CASE AfterIssue \/ SkipDefect \/ BankAtEnd
  <2> DEFINE blk == SkipRdt(uwBlock[bank_no])
  <2>1. bank_no \in Bank /\ uwBlock[bank_no] \in Nat
      BY <1>3, <1>8 DEF AfterIssue, SkipDefect, BankAtEnd, Core, Shape
  <2>2. blk \in Nat /\ blk >= uwBlock[bank_no]
      BY <2>1, SkipRdtType
  <2>3. /\ issued' = issued /\ bad' = bad /\ hw' = hw /\ resState' = resState
        /\ bank_no' = bank_no + 1 /\ pc' = IF bank_no + 1 = BankNum THEN "check" ELSE "issue"
      BY <1>8 DEF AfterIssue, SkipDefect, BankAtEnd, NextBank
  <2>4. \/ pc = "issue" /\ \E n \in Nat : n >= blk /\ uwBlock' = [uwBlock EXCEPT ![bank_no] = n]
        \/ uwBlock' = [uwBlock EXCEPT ![bank_no] = @ + 1]
      BY <1>8, <2>2 DEF AfterIssue, SkipDefect, BankAtEnd
  <2> HIDE DEF blk
  <2>5. PICK n \in Nat : /\ uwBlock' = [uwBlock EXCEPT ![bank_no] = n]
                         /\ n >= Reached(bank_no)
      BY <1>3, <2>1, <2>2, <2>4 DEF Reached, AtBlock
  <2>6. ASSUME NEW b \in Bank
        PROVE  Reached(b)' >= Reached(b)
    <3>1. b \in Nat /\ b < BankNum
        BY <1>3 DEF Bank
    <3>2. Reached(b)' = uwBlock'[b]
        BY <1>3, <2>3, <3>1 DEF Reached, AtBlock
    <3>3. b # bank_no => Reached(b) = uwBlock[b]
        BY DEF Reached
    <3> QED BY <1>3, <2>1, <2>5, <3>2, <3>3
  <2> QED BY <1>5, <2>3, <2>6
<1>9. CASE NextPass \/ FinishErase \/ CheckTimeout \/ CheckDone \/ LoopAgain \/ Pause \/ Resume
           \/ UNCHANGED vars
  <2>1. /\ issued' = issued /\ bad' = bad /\ hw' = hw /\ uwBlock' = uwBlock
        /\ resState' = "ERASE" => resState = "ERASE"
      BY <1>9 DEF NextPass, FinishErase, CheckTimeout, CheckDone, Return, LoopAgain, Pause,
                  Resume, vars, soft
  <2>2. \A b \in Bank : b = bank_no' /\ pc' \in AtBlock <=> b = bank_no /\ pc \in AtBlock
    <3>1. CASE NextPass \/ FinishErase \/ LoopAgain \/ Pause \/ Resume
        BY <1>3, <3>1 DEF NextPass, FinishErase, LoopAgain, Pause, Resume, AtBlock
    <3>2. CASE CheckTimeout \/ CheckDone
      <4>1. bank_no' = bank_no /\ (Return(1) \/ Return(gubErasetimeout))
          BY <3>2 DEF CheckTimeout, CheckDone
      <4>3. bank_no' = bank_no /\ pc \in {"check", "again"}
          BY <3>2 DEF CheckTimeout, CheckDone
      <4>2. bank_no < BankNum => pc' = "issued"
          BY <1>3, <4>1 DEF Return
      <4> QED BY <1>3, <4>2, <4>3 DEF AtBlock, Bank
    <3>3. CASE UNCHANGED vars
        BY <3>3 DEF vars
    <3> QED BY <1>9, <3>1, <3>2, <3>3
  <2>3. \A b \in Bank : Reached(b)' = Reached(b)
      BY <2>1, <2>2 DEF Reached
  <2>4. \A b \in Bank : Reached(b) \in Nat
      BY <1>3 DEF Reached
  <2> QED BY <1>5, <2>1, <2>3, <2>4
<1>10. ASSUME NEW cmd \in hw, bad' \subseteq bad \cup {<<cmd.bank, cmd.blk>>},
              Pending' \subseteq issued', gubErasetimeout = 0 => issued' = issued,
              resState' = resState, hw # {},
              uwBlock' = uwBlock, bank_no' = bank_no, pc \in AtBlock, pc' \in AtBlock
       PROVE  IssuedReached'
  <2>1. <<cmd.bank, cmd.blk>> \in issued
      BY DEF IssuedReached, Pending
  <2>2. resState # "ERASE"
      BY <1>10 DEF Core, Shape
  <2>3. \A b : Reached(b)' = Reached(b)
      BY <1>10 DEF Reached
  <2> QED BY <1>1, <1>2, <1>10, <2>1, <2>2, <2>3 DEF IssuedReached
<1>11. CASE \E cmd \in hw, failed \in BOOLEAN :
                PollCompletion(cmd, failed) \/ PollAgain(cmd, failed)
  <2>1. PICK cmd \in hw, failed \in BOOLEAN : PollCompletion(cmd, failed) \/ PollAgain(cmd, failed)
      BY <1>11
  <2>2. /\ bad' \subseteq bad \cup {<<cmd.bank, cmd.blk>>} /\ hw' \subseteq hw
        /\ issued' = issued /\ resState' = resState /\ uwBlock' = uwBlock /\ bank_no' = bank_no
        /\ pc \in AtBlock /\ pc' \in AtBlock
      BY <2>1 DEF PollCompletion, PollAgain, Fails, AtBlock
  <2>3. Pending' \subseteq Pending
      BY <2>2 DEF Pending
  <2> QED BY <1>10, <2>2, <2>3 DEF IssuedReached
<1>12. CASE \E cmd \in hw : EraseAgain(cmd)
  <2>1. PICK cmd \in hw : EraseAgain(cmd)
      BY <1>12
  <2>2. /\ bad' = bad \cup {<<cmd.bank, cmd.blk>>}
        /\ hw' = (hw \ {cmd}) \cup {[bank |-> cmd.bank, blk |-> Decode(cmd), second |-> TRUE]}
        /\ issued' = issued \cup {<<cmd.bank, Decode(cmd)>>}
        /\ resState' = resState /\ uwBlock' = uwBlock /\ bank_no' = bank_no
        /\ pc = "check" /\ pc \in AtBlock /\ pc' \in AtBlock
      BY <2>1 DEF EraseAgain, Fails, AtBlock, soft
  <2>3. Pending' \subseteq issued'
      BY <2>2 DEF Pending, IssuedReached
  <2>4. gubErasetimeout = 0 => issued' = issued
      BY <2>2, SameBlock DEF IssuedReached, Pending
  <2> QED BY <1>10, <2>2, <2>3, <2>4
<1>13. CASE \E cmd \in hw : EraseAgainAssert(cmd)
  <2>1. PICK cmd \in hw : EraseAgainAssert(cmd)
      BY <1>13
  <2>2. /\ bad' \subseteq bad \cup {<<cmd.bank, cmd.blk>>} /\ hw' \subseteq hw
        /\ issued' = issued /\ resState' = resState /\ uwBlock' = uwBlock /\ bank_no' = bank_no
        /\ pc \in AtBlock /\ pc' \in AtBlock
      BY <2>1 DEF EraseAgainAssert, Fails, AtBlock, soft
  <2>3. Pending' \subseteq Pending
      BY <2>2 DEF Pending
  <2> QED BY <1>10, <2>2, <2>3 DEF IssuedReached
<1> QED BY <1>6, <1>7, <1>8, <1>9, <1>11, <1>12, <1>13 DEF Next

\* Erases are issued in the order of blocks, none of the result of the reliability test or
\* behind the end, and what is outstanding or has failed was issued (llfAPEraseAll).
THEOREM IssuedInvariant == Spec => []IssuedReached
<1>1. Init => IssuedReached
    BY DEF Init, IssuedReached, Pending
<1> QED BY <1>1, IssuedStep, CoreInvariant, LockStepInvariant, AloneInvariant, PTL DEF Spec

\* A block that is not erased: defective, and behind the system window.
Spared(b, blk) == WithDbt /\ blk >= SblkStart + SblkBlks /\ IsDefect(b, blk)

Covered(b) ==
    \A blk \in (0 .. (BlockEnd - 1)) \ ResultBlocks :
        blk < uwBlock[b] => <<b, blk>> \in issued \/ Spared(b, blk)

\* The banks that have been counted as being at the end.
Through == {b \in Bank : uwBlock[b] > BlockEnd}

CoveredSoFar ==
    /\ \A b \in Bank : Covered(b)
    /\ bank_no < BankNum /\ pc \in AtBlock =>
           <<bank_no, uwBlock[bank_no]>> \in issued /\ uwBlock[bank_no] < BlockEnd
    /\ uwEraseLastBlock = Cardinality(Through)
    /\ pc = "done" => \A b \in Bank : uwBlock[b] > BlockEnd

BanksFinite == IsFiniteSet(Bank) /\ Cardinality(Bank) = BankNum

LEMMA CountBanks == BanksFinite
<1>1. BankNum \in Nat /\ Bank = 0 .. (BankNum - 1)
    BY EraseAssumption DEF Bank
<1> QED BY <1>1, FS_Interval DEF BanksFinite

\* Marks outside the window are never taken back.
LEMMA SparedStays ==
    ASSUME Core, job' = job, NEW b \in Bank, NEW blk \in Nat, Spared(b, blk),
           \A g : g \in dbt[b] => g \in dbt'[b],
           \A x \in Nat : x \in sysDbt[b] /\ ~InWindow(x) => x \in sysDbt'[b]
    PROVE  Spared(b, blk)'
<1>1. SblkStart \in Nat /\ SblkBlks \in Nat
    BY EraseAssumption
<1> QED BY <1>1 DEF Spared, WithDbt, IsDefect, InWindow, llfIsSystemBlkDefect, llfIsBlockBad,
                    llfIsMpBlockBad

LEMMA MarksStay ==
    ASSUME Core, Core', [Next]_vars, NEW b \in Bank
    PROVE  /\ \A g : g \in dbt[b] => g \in dbt'[b]
           /\ \A x \in Nat : x \in sysDbt[b] /\ ~InWindow(x) => x \in sysDbt'[b]
<1>1. dbt \in [Bank -> SUBSET Nat] /\ sysDbt \in [Bank -> SUBSET Nat]
    BY DEF Core, TypeOK
<1>2. CASE dbt' = dbt /\ sysDbt' = sysDbt
    BY <1>2
<1>3. CASE AfterIssue
    BY <1>1, <1>3 DEF AfterIssue, llfUnMarkSystemBlkDefect
<1>4. CASE \E cmd \in hw, failed \in BOOLEAN :
                PollCompletion(cmd, failed) \/ PollAgain(cmd, failed)
  <2>1. PICK bank, blk, failed : Record(bank, blk, failed)
      BY <1>4 DEF PollCompletion, PollAgain
  <2> QED BY <1>1, <2>1 DEF Record, llfSetDBT, llfMarkUserMPBlkDefect, llfMarkSystemBlkDefect
<1>5. CASE StartErase \/ RefuseErase \/ FinishErase \/ IssueErase \/ SkipDefect \/ BankAtEnd
           \/ NextPass \/ CheckTimeout \/ CheckDone \/ LoopAgain \/ Pause \/ Resume
           \/ UNCHANGED vars \/ \E cmd \in hw : EraseAgain(cmd) \/ EraseAgainAssert(cmd)
  <2>1. tables' = tables
      BY <1>5 DEF StartErase, RefuseErase, FinishErase, IssueErase, SkipDefect, BankAtEnd,
                  NextPass, CheckTimeout, CheckDone, LoopAgain, Pause, Resume, vars, EraseAgain,
                  EraseAgainAssert, tables
  <2> QED BY <1>2, <2>1 DEF tables
<1> QED BY <1>3, <1>4, <1>5 DEF Next

LEMMA CoveredStep ==
    ASSUME Core, Core', LockStep, CoveredSoFar, [Next]_vars
    PROVE  CoveredSoFar'
<1>1. job' = job /\ issued \subseteq issued'
    BY Onward
<1>2. BlockEnd' = BlockEnd /\ ResultBlocks' = ResultBlocks /\ BlockEnd \in Nat
    BY <1>1, BlockEndType DEF BlockEnd, ResultBlocks
<1>3. uwBlock \in [Bank -> Nat] /\ uwBlock' \in [Bank -> Nat] /\ bank_no \in Nat
      /\ BankNum \in Nat \ {0} /\ uwEraseLastBlock \in Nat
    BY EraseAssumption DEF Core, TypeOK
<1>17. Bank = 0 .. (BankNum - 1)
    BY DEF Bank
<1>16. IsFiniteSet(Bank) /\ Cardinality(Bank) = BankNum
    BY CountBanks DEF BanksFinite
<1>4. ASSUME NEW b \in Bank, NEW blk \in (0 .. (BlockEnd - 1)) \ ResultBlocks,
             <<b, blk>> \in issued \/ Spared(b, blk)
      PROVE  <<b, blk>> \in issued' \/ Spared(b, blk)'
    BY <1>1, <1>4, MarksStay, SparedStays
<1>5. ASSUME NEW b \in Bank,
             \A blk \in (0 .. (BlockEnd - 1)) \ ResultBlocks :
                 blk < uwBlock'[b] => \/ blk < uwBlock[b]
                                      \/ <<b, blk>> \in issued \/ Spared(b, blk)
      PROVE  Covered(b)'
    BY <1>2, <1>4, <1>5 DEF CoveredSoFar, Covered
<1>6. ASSUME uwBlock' = uwBlock, uwEraseLastBlock' = uwEraseLastBlock, pc' # "done",
             bank_no < BankNum /\ bank_no' < BankNum /\ pc' \in AtBlock => pc \in AtBlock,
             bank_no' = bank_no \/ pc' \notin AtBlock
      PROVE  CoveredSoFar'
  <2>1. \A b \in Bank : Covered(b)'
      BY <1>5, <1>6
  <2>2. Through' = Through
      BY <1>2, <1>6 DEF Through
  <2> QED BY <1>1, <1>2, <1>6, <2>1, <2>2 DEF CoveredSoFar
<1>7. CASE StartErase \/ RefuseErase
  <2>1. /\ uwBlock' = [b \in Bank |-> 0] /\ uwEraseLastBlock' = 0
        /\ pc' \in {"issue", "refused"}
      BY <1>7 DEF StartErase, RefuseErase
  <2>2. \A b \in Bank : Covered(b)'
      BY <1>2, <1>5, <2>1
  <2>3. Through' = {}
      BY <1>2, <2>1 DEF Through
  <2> QED BY <2>1, <2>2, <2>3, FS_EmptySet DEF CoveredSoFar, AtBlock
<1>8. CASE NextPass \/ LoopAgain \/ Pause \/ Resume
    BY <1>6, <1>8 DEF NextPass, LoopAgain, Pause, Resume, soft, AtBlock
<1>9. CASE CheckTimeout \/ CheckDone
  <2>1. pc \in {"check", "again"} /\ bank_no' = bank_no /\ uwBlock' = uwBlock
        /\ uwEraseLastBlock' = uwEraseLastBlock /\ pc' # "done"
      BY <1>9 DEF CheckTimeout, CheckDone, Return
  <2> QED BY <1>6, <2>1 DEF AtBlock
<1>10. CASE \E cmd \in hw, failed \in BOOLEAN :
                PollCompletion(cmd, failed) \/ PollAgain(cmd, failed)
    BY <1>6, <1>10 DEF PollCompletion, PollAgain, AtBlock
<1>11. CASE \E cmd \in hw : EraseAgain(cmd) \/ EraseAgainAssert(cmd)
    BY <1>6, <1>11 DEF EraseAgain, EraseAgainAssert, soft, AtBlock
<1>12. CASE UNCHANGED vars
  <2>1. \A b \in Bank : Covered(b)'
      BY <1>5, <1>12 DEF vars, soft
  <2>2. Through' = Through
      BY <1>2, <1>12 DEF Through, vars, soft
  <2> QED BY <1>1, <1>2, <1>12, <2>1, <2>2 DEF CoveredSoFar, vars, soft
<1>13. CASE FinishErase
  <2>1. uwBlock' = uwBlock /\ uwEraseLastBlock' = uwEraseLastBlock /\ uwEraseLastBlock = BankNum
        /\ pc' = "done"
      BY <1>13 DEF FinishErase, AllErased
  <2>2. \A b \in Bank : Covered(b)'
      BY <1>5, <2>1
  <2>3. Through' = Through
      BY <1>2, <2>1 DEF Through
  <2>4. Through = Bank
    <3>1. Through \subseteq Bank /\ Cardinality(Through) = BankNum
        BY <2>1 DEF CoveredSoFar, Through
    <3> QED BY <1>3, <1>16, <3>1, FS_Subset
  <2> QED BY <1>2, <2>1, <2>2, <2>3, <2>4 DEF CoveredSoFar, AtBlock, Through
<1>14. CASE IssueErase \/ SkipDefect \/ BankAtEnd
  <2> DEFINE blk == SkipRdt(uwBlock[bank_no])
  <2>1. bank_no \in Bank /\ uwBlock[bank_no] \in Nat /\ pc' # "done"
      BY <1>3, <1>17, <1>14 DEF IssueErase, TurnAfterIssue, SkipDefect, BankAtEnd, NextBank, Core, Shape
  <2>2. blk \in Nat /\ blk >= uwBlock[bank_no]
      BY <2>1, SkipRdtType
  <2>3. /\ \A x \in Nat : uwBlock[bank_no] <= x /\ x < blk => x \in ResultBlocks
        /\ uwBlock[bank_no] <= BlockEnd => blk <= BlockEnd
      BY <2>1, SkipsResult DEF Core
  <2>4. CASE IssueErase
    <3>1. /\ uwBlock' = [uwBlock EXCEPT ![bank_no] = blk] /\ blk < BlockEnd
          /\ uwEraseLastBlock' = uwEraseLastBlock /\ bank_no' = bank_no
          /\ <<bank_no, blk>> \in issued'
        BY <2>4 DEF IssueErase
    <3> HIDE DEF blk
    <3>2. \A b \in Bank : Covered(b)'
        BY <1>3, <1>17, <1>5, <2>1, <2>2, <2>3, <3>1
    <3>3. Through' = Through
        BY <1>2, <1>3, <1>17, <2>1, <2>2, <3>1 DEF Through
    <3> QED BY <1>2, <1>3, <1>17, <2>1, <3>1, <3>2, <3>3 DEF CoveredSoFar
  <2>5. CASE SkipDefect
    <3>1. /\ uwBlock' = [uwBlock EXCEPT ![bank_no] = blk + 1] /\ blk < BlockEnd
          /\ uwEraseLastBlock' = uwEraseLastBlock /\ bank_no' = bank_no + 1
          /\ ~Erases(bank_no, blk)
          /\ pc' = IF bank_no + 1 = BankNum THEN "check" ELSE "issue"
        BY <2>5 DEF SkipDefect, NextBank
    <3>4. Spared(bank_no, blk)
      <4>1. SblkStart \in Nat /\ SblkBlks \in Nat
          BY EraseAssumption
      <4> QED BY <2>2, <3>1, <4>1 DEF Erases, Spared, InWindow
    <3> HIDE DEF blk
    <3>2. \A b \in Bank : Covered(b)'
        BY <1>3, <1>17, <1>5, <2>1, <2>2, <2>3, <3>1, <3>4
    <3>3. Through' = Through
        BY <1>2, <1>3, <1>17, <2>1, <2>2, <3>1 DEF Through
    <3>5. ~(bank_no' < BankNum /\ pc' \in AtBlock)
        BY <1>3, <1>17, <3>1 DEF AtBlock
    <3> QED BY <2>1, <3>1, <3>2, <3>3, <3>5 DEF CoveredSoFar
  <2>6. CASE BankAtEnd
    <3>1. /\ uwBlock' = [uwBlock EXCEPT ![bank_no] = IF blk = BlockEnd THEN blk + 1 ELSE blk]
          /\ blk >= BlockEnd
          /\ uwEraseLastBlock' = IF blk = BlockEnd THEN uwEraseLastBlock + 1 ELSE uwEraseLastBlock
          /\ bank_no' = bank_no + 1
          /\ pc' = IF bank_no + 1 = BankNum THEN "check" ELSE "issue"
        BY <2>6 DEF BankAtEnd, NextBank
    <3> HIDE DEF blk
    <3>2. \A b \in Bank : Covered(b)'
        BY <1>2, <1>3, <1>17, <1>5, <2>1, <2>2, <2>3, <3>1
    <3>3. uwEraseLastBlock' = Cardinality(Through')
      <4>0. uwEraseLastBlock = Cardinality(Through) /\ IsFiniteSet(Through)
          BY <1>16, FS_Subset DEF CoveredSoFar, Through
      <4>1. CASE blk = BlockEnd
        <5>1. Through' = Through \cup {bank_no} /\ bank_no \notin Through
            BY <1>2, <1>3, <1>17, <2>1, <2>2, <3>1, <4>1 DEF Through
        <5> QED BY <3>1, <4>0, <4>1, <5>1, FS_AddElement
      <4>2. CASE blk # BlockEnd
        <5>1. Through' = Through
            BY <1>2, <1>3, <1>17, <2>1, <2>2, <2>3, <3>1, <4>2 DEF Through
        <5> QED BY <3>1, <4>0, <4>2, <5>1
      <4> QED BY <4>1, <4>2
    <3>5. ~(bank_no' < BankNum /\ pc' \in AtBlock)
        BY <1>3, <1>17, <3>1 DEF AtBlock
    <3> QED BY <2>1, <3>1, <3>2, <3>3, <3>5 DEF CoveredSoFar
  <2> QED BY <1>14, <2>4, <2>5, <2>6
<1>15. CASE AfterIssue
  <2>1. /\ bank_no \in Bank /\ pc = "issued" /\ pc' # "done"
        /\ uwBlock' = [uwBlock EXCEPT ![bank_no] = @ + 1]
        /\ uwEraseLastBlock' = uwEraseLastBlock /\ bank_no' = bank_no + 1
        /\ pc' = IF bank_no + 1 = BankNum THEN "check" ELSE "issue"
      BY <1>3, <1>17, <1>15 DEF AfterIssue, NextBank, Core, Shape
  <2>2. <<bank_no, uwBlock[bank_no]>> \in issued /\ uwBlock[bank_no] < BlockEnd
      BY <1>3, <1>17, <2>1 DEF CoveredSoFar, AtBlock
  <2>3. \A b \in Bank : Covered(b)'
      BY SMTT(30), <1>2, <1>3, <1>17, <1>5, <2>1, <2>2
  <2>4. Through' = Through
      BY <1>2, <1>3, <1>17, <2>1, <2>2 DEF Through
  <2>5. ~(bank_no' < BankNum /\ pc' \in AtBlock)
      BY <1>3, <1>17, <2>1 DEF AtBlock
  <2> QED BY <2>1, <2>3, <2>4, <2>5 DEF CoveredSoFar
<1> QED BY <1>7, <1>8, <1>9, <1>10, <1>11, <1>12, <1>13, <1>14, <1>15 DEF Next

\* llfAPEraseAll has issued an erase of each block it has passed, or may spare it.
THEOREM CoveredInvariant == Spec => []CoveredSoFar
<1>1. Init => CoveredSoFar
  <2>1. SUFFICES ASSUME Init PROVE CoveredSoFar
      OBVIOUS
  <2>2. Through = {}
      BY <2>1, BlockEndType DEF Init, Through
  <2>3. \A b \in Bank : Covered(b)
      BY <2>1 DEF Init, Covered
  <2> QED BY <2>1, <2>2, <2>3, FS_EmptySet DEF Init, CoveredSoFar, AtBlock
<1> QED BY <1>1, CoveredStep, CoreInvariant, LockStepInvariant, PTL DEF Spec

\* The erase does all it has to and nothing else: every block below the end, but for
\* the result of the reliability test and, by a table, the defective ones behind the
\* system window (llfAPEraseAll).
THEOREM EraseSet == Spec => []EraseSetExact
<1>1. ASSUME Core, IssuedReached, CoveredSoFar PROVE EraseSetExact
  <2>1. gubErasetimeout = 0 => \A f \in issued : f[2] < BlockEnd /\ f[2] \notin ResultBlocks
      BY <1>1 DEF IssuedReached
  <2>2. ASSUME pc = "done", NEW b \in Bank, NEW blk \in (0 .. (BlockEnd - 1)) \ ResultBlocks
        PROVE  <<b, blk>> \in issued \/ Spared(b, blk)
    <3>1. blk < uwBlock[b]
        BY <1>1, <2>2, BlockEndType DEF CoveredSoFar, Core, TypeOK
    <3> QED BY <1>1, <2>2, <3>1 DEF CoveredSoFar, Covered
  <2> QED BY <2>1, <2>2 DEF EraseSetExact, Spared
<1> QED BY <1>1, CoreInvariant, IssuedInvariant, CoveredInvariant, PTL

------------------------------------------------------------------------------
(* The marks                                                               *)

\* The failure of a block is in the tables, except where it is unmarked behind the
\* check.
KeepsSystemMark(blk) == blk < SysMax /\ ~(job.twice /\ WithDbt /\ InWindow(blk))

Known(b, blk) ==
    /\ Group(blk) \in dbt[b]
    /\ KeepsSystemMark(blk) => blk \in sysDbt[b]
    /\ InSblkWindow(b, blk) => FailBit(b, blk) \in gulEraseFailSysblk

Again == <<again.bank, again.blk>>

\* A group that was not marked before has a block that failed for good.
MarkFounded(b, g) == g \in job.dbt[b] \/ \E blk \in BlocksOf(g) : <<b, blk>> \in bad \ Pending

MarksExact ==
    /\ resState = "ERASE" => bad = {} /\ dbt = job.dbt
    /\ \A c \in hw : c.second => job.twice
    /\ ~job.twice /\ pc \in {"check", "again"} => bank_no = BankNum
    /\ gubErasetimeout = 0 =>
        /\ ~job.twice /\ pc = "issued" => <<bank_no, uwBlock[bank_no]>> \in Pending
        /\ \A f \in bad : f \in Pending => pc = "again"
        /\ \A f \in bad : Known(f[1], f[2]) \/ (pc = "again" /\ f = Again)
        /\ \A b \in Bank : \A g \in dbt[b] : MarkFounded(b, g)

LEMMA KnownStays ==
    ASSUME Core, job' = job, NEW b \in Bank, NEW blk \in Nat, Known(b, blk),
           \A g : g \in dbt[b] => g \in dbt'[b],
           KeepsSystemMark(blk) /\ blk \in sysDbt[b] => blk \in sysDbt'[b],
           gulEraseFailSysblk \subseteq gulEraseFailSysblk'
    PROVE  Known(b, blk)'
    BY DEF Known, KeepsSystemMark, WithDbt, InWindow, InSblkWindow, FailBit

LEMMA FoundedStays ==
    ASSUME job' = job, NEW b \in Bank, NEW g, MarkFounded(b, g),
           \A blk : <<b, blk>> \in bad \ Pending => <<b, blk>> \in bad' \ Pending'
    PROVE  MarkFounded(b, g)'
    BY DEF MarkFounded, BlocksOf

\* A block is one of its group.
LEMMA OfItsGroup ==
    ASSUME NEW blk \in Nat
    PROVE  blk \in BlocksOf(Group(blk))
<1>1. Planes \in Nat \ {0}
    BY GeometryAssumption
<1>2. /\ blk \div Planes \in Nat /\ blk % Planes \in 0 .. (Planes - 1)
      /\ blk = (blk \div Planes) * Planes + (blk % Planes)
    BY <1>1, DivMod
<1> QED BY <1>2 DEF BlocksOf, Group

\* What a completion with its own block does to the tables.
LEMMA RecordExact ==
    ASSUME Core, NEW b \in Bank, NEW blk \in Nat, NEW failed \in BOOLEAN, Record(b, blk, failed),
           job' = job
    PROVE  /\ failed => Known(b, blk)'
           /\ \A c \in Bank : /\ \A g \in dbt'[c] : g \in dbt[c] \/ (failed /\ c = b /\ g = Group(blk))
                              /\ \A g \in dbt[c] : g \in dbt'[c]
                              /\ \A x \in sysDbt[c] : x \in sysDbt'[c]
           /\ gulEraseFailSysblk \subseteq gulEraseFailSysblk'
<1>1. dbt \in [Bank -> SUBSET Nat] /\ sysDbt \in [Bank -> SUBSET Nat]
    BY DEF Core, TypeOK
<1>2. \A c \in Bank : /\ \A g \in dbt'[c] : g \in dbt[c] \/ (failed /\ c = b /\ g = Group(blk))
                      /\ \A g \in dbt[c] : g \in dbt'[c]
  <2>1. TAKE c \in Bank
  <2>2. CASE failed
    <3>1. dbt' = [dbt EXCEPT ![b] = dbt[b] \cup {Group(blk)}]
        BY <2>2 DEF Record, llfSetDBT, llfMarkUserMPBlkDefect
    <3> QED BY <1>1, <2>2, <3>1
  <2>3. CASE ~failed
    <3>1. dbt' = dbt
        BY <2>3 DEF Record
    <3> QED BY <3>1
  <2> QED BY <2>2, <2>3
<1>3. \A c \in Bank : \A x \in sysDbt[c] : x \in sysDbt'[c]
    BY <1>1 DEF Record, llfMarkSystemBlkDefect
<1>4. gulEraseFailSysblk \subseteq gulEraseFailSysblk'
    BY DEF Record
<1>5. ASSUME failed PROVE Known(b, blk)'
  <2>1. Group(blk) \in dbt'[b]
      BY <1>1, <1>5 DEF Record, llfSetDBT, llfMarkUserMPBlkDefect
  <2>2. blk < SysMax => blk \in sysDbt'[b]
      BY <1>1, <1>5 DEF Record, llfMarkSystemBlkDefect
  <2>3. InSblkWindow(b, blk) => FailBit(b, blk) \in gulEraseFailSysblk'
      BY <1>5 DEF Record
  <2> QED BY <2>1, <2>2, <2>3 DEF Known, KeepsSystemMark, InSblkWindow, FailBit
<1> QED BY <1>2, <1>3, <1>4, <1>5

\* No erase is held twice.
LEMMA HeldOnce ==
    ASSUME Core, Alone, MarksExact, gubErasetimeout = 0, pc \in {"check", "again"},
           NEW c \in hw, NEW d \in hw, c.bank = d.bank, c.blk = d.blk
    PROVE  c = d
<1>1. CASE job.twice
    BY <1>1 DEF Alone
<1>2. CASE ~job.twice
  <2>1. c \in Command /\ d \in Command /\ ~c.second /\ ~d.second
      BY <1>2 DEF Core, TypeOK, MarksExact
  <2> QED BY <2>1 DEF Command
<1> QED BY <1>1, <1>2

LEMMA BadType ==
    ASSUME Core, NEW f \in bad
    PROVE  f[1] \in Bank /\ f[2] \in Nat /\ f = <<f[1], f[2]>>
    BY DEF Core, TypeOK

\* Steps that leave the tables alone.
LEMMA MarksQuiet ==
    ASSUME Core, Core', LockStep, MarksExact, [Next]_vars, tables' = tables, bad' = bad, hw' = hw,
           resState' = "ERASE" => resState = "ERASE",
           ~job.twice /\ pc' \in {"check", "again"} => bank_no' = BankNum,
           ~job.twice /\ pc' = "issued" /\ gubErasetimeout' = 0
                => <<bank_no', uwBlock'[bank_no']>> \in Pending,
           pc # "again" \/ gubErasetimeout' # 0
    PROVE  MarksExact'
<1>1. job' = job /\ (gubErasetimeout' = 0 => gubErasetimeout = 0)
    BY Onward
<1>2. Pending' = Pending /\ dbt' = dbt /\ sysDbt' = sysDbt /\ gulEraseFailSysblk' = gulEraseFailSysblk
    BY DEF Pending, tables
<1>3. ASSUME gubErasetimeout' = 0
      PROVE  /\ \A f \in bad' : f \notin Pending' /\ Known(f[1], f[2])'
             /\ \A b \in Bank : \A g \in dbt'[b] : MarkFounded(b, g)'
  <2>1. gubErasetimeout = 0 /\ pc # "again"
      BY <1>1, <1>3
  <2>2. ASSUME NEW f \in bad
        PROVE  f \notin Pending /\ Known(f[1], f[2])'
      BY <1>1, <1>2, <2>1, BadType, KnownStays DEF MarksExact
  <2>3. ASSUME NEW b \in Bank, NEW g \in dbt[b]
        PROVE  MarkFounded(b, g)'
      BY <1>1, <1>2, <2>1, FoundedStays DEF MarksExact
  <2> QED BY <1>2, <2>2, <2>3
<1>4. /\ resState' = "ERASE" => bad' = {} /\ dbt' = job'.dbt
      /\ \A c \in hw' : c.second => job'.twice
    BY <1>1, <1>2 DEF MarksExact
<1>5. gubErasetimeout' = 0 =>
        /\ ~job'.twice /\ pc' = "issued" => <<bank_no', uwBlock'[bank_no']>> \in Pending'
        /\ \A f \in bad' : f \in Pending' => pc' = "again"
        /\ \A f \in bad' : Known(f[1], f[2])' \/ (pc' = "again" /\ f = Again')
        /\ \A b \in Bank : \A g \in dbt'[b] : MarkFounded(b, g)'
    BY <1>1, <1>2, <1>3
<1> QED BY <1>1, <1>4, <1>5 DEF MarksExact

\* A block is issued for the first time.
LEMMA MarksIssue ==
    ASSUME Core, Core', LockStep, IssuedReached, MarksExact, IssueErase
    PROVE  MarksExact'
<1> DEFINE blk == SkipRdt(uwBlock[bank_no])
           new == [bank |-> bank_no, blk |-> blk, second |-> FALSE]
           pair == <<bank_no, blk>>
<1>1. bank_no \in Bank /\ uwBlock[bank_no] \in Nat /\ uwBlock \in [Bank -> Nat]
    BY DEF IssueErase, Core, Shape, TypeOK
<1>2. blk \in Nat /\ blk >= uwBlock[bank_no]
    BY <1>1, SkipRdtType
<1>3. /\ job' = job /\ gubErasetimeout' = gubErasetimeout /\ bad' = bad /\ dbt' = dbt
      /\ tables' = tables /\ resState' = resState /\ bank_no' = bank_no
      /\ hw' = hw \cup {new} /\ new.bank = bank_no /\ new.blk = blk /\ ~new.second
      /\ uwBlock' = [uwBlock EXCEPT ![bank_no] = blk]
      /\ pc = "issue" /\ pc' = IF job.twice THEN "check" ELSE "issued"
    BY DEF IssueErase, TurnAfterIssue, tables
<1> HIDE DEF blk, new
<1>4. Pending' = Pending \cup {pair} /\ uwBlock'[bank_no'] = blk
    BY <1>1, <1>3 DEF Pending
<1>5. gubErasetimeout = 0 => pair \notin bad
  <2>1. Reached(bank_no) = uwBlock[bank_no]
      BY <1>3 DEF Reached, AtBlock
  <2>2. SUFFICES ASSUME gubErasetimeout = 0, pair \in issued
                 PROVE  FALSE
      BY DEF IssuedReached
  <2>3. pair[2] < Reached(pair[1])
      BY <2>2 DEF IssuedReached
  <2> QED BY <1>1, <1>2, <2>1, <2>3
<1>6. ASSUME gubErasetimeout = 0
      PROVE  /\ \A f \in bad' : f \notin Pending' /\ Known(f[1], f[2])'
             /\ \A b \in Bank : \A g \in dbt'[b] : MarkFounded(b, g)'
  <2>1. ASSUME NEW f \in bad
        PROVE  f \notin Pending' /\ Known(f[1], f[2])'
    <3>1. f \notin Pending /\ Known(f[1], f[2])
        BY <1>3, <1>6 DEF MarksExact
    <3> QED BY <1>3, <1>4, <1>5, <1>6, <3>1, BadType, KnownStays DEF tables
  <2>2. ASSUME NEW b \in Bank, NEW g \in dbt[b]
        PROVE  MarkFounded(b, g)'
    <3>1. \A x : <<b, x>> \in bad \ Pending => <<b, x>> \in bad' \ Pending'
        BY <1>3, <1>4, <1>5, <1>6
    <3>2. MarkFounded(b, g)
        BY <1>6 DEF MarksExact
    <3> QED BY <1>3, <3>1, <3>2, FoundedStays
  <2> QED BY <1>3, <2>1, <2>2
<1>7. \A c \in hw' : c.second => job.twice
    BY <1>3 DEF MarksExact
<1>8. ~job.twice => pc' = "issued" /\ <<bank_no', uwBlock'[bank_no']>> \in Pending'
    BY <1>3, <1>4
<1>9. resState' = "ERASE" => bad' = {} /\ dbt' = job'.dbt
    BY <1>3 DEF MarksExact
<1> QED BY <1>3, <1>6, <1>7, <1>8, <1>9 DEF MarksExact

\* A block of the window is unmarked behind its issue: before its completion, or, if
\* every erase is waited for, after it.
LEMMA MarksAfter ==
    ASSUME Core, Core', LockStep, MarksExact, AfterIssue
    PROVE  MarksExact'
<1> DEFINE pair == <<bank_no, uwBlock[bank_no]>>
<1>1. /\ job' = job /\ gubErasetimeout' = gubErasetimeout /\ bad' = bad /\ dbt' = dbt /\ hw' = hw
      /\ resState' = resState /\ gulEraseFailSysblk' = gulEraseFailSysblk /\ pc = "issued"
      /\ pc' = (IF bank_no' = BankNum THEN "check" ELSE "issue")
    BY DEF AfterIssue, NextBank
<1>2. bank_no \in Bank /\ uwBlock[bank_no] \in Nat /\ sysDbt \in [Bank -> SUBSET Nat]
    BY <1>1 DEF Core, Shape, TypeOK
<1>3. Pending' = Pending
    BY <1>1 DEF Pending
<1>4. \A b \in Bank : \A x \in sysDbt[b] :
        x \in sysDbt'[b] \/ (WithDbt /\ InWindow(x) /\ <<b, x>> = pair)
    BY <1>2 DEF AfterIssue, llfUnMarkSystemBlkDefect
<1>5. ASSUME gubErasetimeout = 0, NEW f \in bad
      PROVE  f \notin Pending /\ Known(f[1], f[2])'
  <2>1. f \notin Pending /\ Known(f[1], f[2])
      BY <1>1, <1>5 DEF MarksExact
  <2>2. ~job.twice => f # pair
      BY <1>1, <1>5, <2>1 DEF MarksExact
  <2>3. f[1] \in Bank /\ f[2] \in Nat /\ f = <<f[1], f[2]>>
      BY BadType
  <2>4. KeepsSystemMark(f[2]) /\ f[2] \in sysDbt[f[1]] => f[2] \in sysDbt'[f[1]]
      BY <1>4, <2>2, <2>3 DEF KeepsSystemMark
  <2> QED BY <1>1, <2>1, <2>3, <2>4, KnownStays
<1>6. ASSUME gubErasetimeout = 0, NEW b \in Bank, NEW g \in dbt[b]
      PROVE  MarkFounded(b, g)'
    BY <1>1, <1>3, <1>6, FoundedStays DEF MarksExact
<1> QED BY <1>1, <1>3, <1>5, <1>6 DEF MarksExact

\* A completion is taken for its own erase.
LEMMA MarksPoll ==
    ASSUME Core, Core', LockStep, Alone, MarksExact, NEW cmd \in hw, NEW failed \in BOOLEAN,
           PollCompletion(cmd, failed) \/ PollAgain(cmd, failed)
    PROVE  MarksExact'
<1> DEFINE pair == <<cmd.bank, cmd.blk>>
<1>1. /\ job' = job /\ gubErasetimeout' = gubErasetimeout /\ hw' = hw \ {cmd}
      /\ resState' = resState /\ bank_no' = bank_no /\ again' = again
      /\ pc \in {"check", "again"} /\ pc' = "check" /\ Fails(cmd, failed)
    BY DEF PollCompletion, PollAgain
<1>2. cmd.bank \in Bank /\ cmd.blk \in Nat
    BY DEF Core, TypeOK, Command
<1>3. bad' = (IF failed THEN bad \cup {pair} ELSE bad \ {pair})
    BY <1>1 DEF Fails
<1>4. Pending' \subseteq Pending
    BY <1>1 DEF Pending
<1>5. resState # "ERASE"
    BY DEF Core, Shape
<1>6. ASSUME gubErasetimeout = 0
      PROVE  /\ \A f \in bad' : f \notin Pending' /\ Known(f[1], f[2])'
             /\ \A b \in Bank : \A g \in dbt'[b] : MarkFounded(b, g)'
  <2>1. Record(cmd.bank, cmd.blk, failed)
    <3>1. CASE PollCompletion(cmd, failed)
        BY <1>6, <3>1, SameBlock DEF PollCompletion
    <3>2. CASE PollAgain(cmd, failed)
      <4>1. again.bank = cmd.bank /\ again.blk = cmd.blk
          BY <3>2 DEF PollAgain, Core, Shape
      <4> QED BY <3>2, <4>1 DEF PollAgain
    <3> QED BY <3>1, <3>2
  <2>2. pair \notin Pending'
    <3>1. SUFFICES ASSUME NEW c \in hw', c.bank = cmd.bank, c.blk = cmd.blk
                   PROVE  FALSE
        BY DEF Pending
    <3> QED BY <1>1, <1>6, <3>1, HeldOnce
  <2>3. /\ failed => Known(cmd.bank, cmd.blk)'
        /\ \A c \in Bank :
              /\ \A g \in dbt'[c] : g \in dbt[c] \/ (failed /\ c = cmd.bank /\ g = Group(cmd.blk))
              /\ \A g \in dbt[c] : g \in dbt'[c]
              /\ \A x \in sysDbt[c] : x \in sysDbt'[c]
        /\ gulEraseFailSysblk \subseteq gulEraseFailSysblk'
      BY <1>1, <1>2, <2>1, RecordExact
  <2>4. ASSUME NEW f \in bad, f # pair
        PROVE  f \notin Pending /\ Known(f[1], f[2])'
    <3>1. ASSUME pc = "again" PROVE hw = {cmd} /\ Again = pair
      <4>1. hw = {[bank |-> again.bank, blk |-> again.blk, second |-> TRUE]}
          BY <3>1 DEF Core, Shape
      <4>3. cmd = [bank |-> again.bank, blk |-> again.blk, second |-> TRUE] /\ hw = {cmd}
          BY <4>1
      <4>2. cmd.bank = again.bank /\ cmd.blk = again.blk
          BY <4>3
      <4> QED BY <4>2, <4>3 DEF Again
    <3>2. pc = "again" => Pending = {pair}
        BY <3>1 DEF Pending
    <3>3. f \notin Pending /\ Known(f[1], f[2])
        BY <1>6, <2>4, <3>1, <3>2 DEF MarksExact
    <3> QED BY <1>1, <2>3, <3>3, BadType, KnownStays
  <2>5. ASSUME NEW f \in bad'
        PROVE  f \notin Pending' /\ Known(f[1], f[2])'
    <3>1. CASE f = pair
      <4>1. failed
          BY <1>3, <3>1
      <4>2. Known(cmd.bank, cmd.blk)' /\ f[1] = cmd.bank /\ f[2] = cmd.blk
          BY <2>3, <3>1, <4>1
      <4>3. \A x, y : x = cmd.bank /\ y = cmd.blk => Known(x, y)'
          BY <2>3, <4>1
      <4> QED BY <2>2, <3>1, <4>2, <4>3
    <3>2. CASE f # pair
        BY <1>3, <1>4, <2>4, <3>2
    <3> QED BY <3>1, <3>2
  <2>6. ASSUME NEW b \in Bank, NEW g \in dbt'[b]
        PROVE  MarkFounded(b, g)'
    <3>1. CASE g \in dbt[b]
      <4>1. \A x : <<b, x>> \in bad \ Pending => <<b, x>> \in bad' \ Pending'
          BY <1>3, <1>4 DEF Pending
      <4>2. MarkFounded(b, g)
          BY <1>6, <3>1 DEF MarksExact
      <4> QED BY <1>1, <4>1, <4>2, FoundedStays
    <3>2. CASE failed /\ b = cmd.bank /\ g = Group(cmd.blk)
      <4>1. <<b, cmd.blk>> \in bad' \ Pending'
          BY <1>3, <2>2, <3>2
      <4>2. cmd.blk \in BlocksOf(g)
          BY <1>2, <3>2, OfItsGroup
      <4>3. \E x \in BlocksOf(g) : <<b, x>> \in bad' \ Pending'
          BY <4>1, <4>2
      <4> QED BY <4>3 DEF MarkFounded, BlocksOf
    <3> QED BY <2>3, <3>1, <3>2
  <2> QED BY <2>5, <2>6
<1>7. \A c \in hw' : c.second => job.twice
    BY <1>1 DEF MarksExact
<1>8. ~job.twice => bank_no' = BankNum
    BY <1>1 DEF MarksExact
<1> QED BY <1>1, <1>5, <1>6, <1>7, <1>8 DEF MarksExact

\* A second try is of the same block.
LEMMA MarksAgain ==
    ASSUME Core, Core', LockStep, MarksExact, NEW cmd \in hw, EraseAgain(cmd)
    PROVE  MarksExact'
<1> DEFINE pair == <<cmd.bank, cmd.blk>>
           new == [bank |-> cmd.bank, blk |-> Decode(cmd), second |-> TRUE]
<1>1. /\ job' = job /\ gubErasetimeout' = gubErasetimeout /\ tables' = tables /\ job.twice
      /\ resState' = resState /\ bank_no' = bank_no /\ bad' = bad \cup {pair}
      /\ pc = "check" /\ pc' = "again" /\ hw' = (hw \ {cmd}) \cup {new}
      /\ again' = [bank |-> cmd.bank, blk |-> Decode(cmd)]
    BY DEF EraseAgain, Fails, soft
<1>2. resState # "ERASE"
    BY DEF Core, Shape
<1>3. ASSUME gubErasetimeout = 0
      PROVE  /\ \A f \in bad' : Known(f[1], f[2])' \/ f = Again'
             /\ \A b \in Bank : \A g \in dbt'[b] : MarkFounded(b, g)'
  <2>1. Decode(cmd) = cmd.blk
      BY <1>1, <1>3, SameBlock
  <2>2. Again' = pair /\ Pending' \subseteq Pending
    <3>1. Again' = pair
        BY <1>1, <2>1 DEF Again
    <3>2. new.bank = cmd.bank /\ new.blk = cmd.blk
        BY <2>1
    <3> HIDE DEF new
    <3> QED BY <1>1, <3>1, <3>2 DEF Pending
  <2>3. pair \in Pending
      BY DEF Pending
  <2>4. ASSUME NEW f \in bad
        PROVE  f \notin Pending /\ Known(f[1], f[2])'
    <3>1. f \notin Pending /\ Known(f[1], f[2])
        BY <1>1, <1>3 DEF MarksExact
    <3> QED BY <1>1, <3>1, BadType, KnownStays DEF tables
  <2>5. ASSUME NEW b \in Bank, NEW g \in dbt[b]
        PROVE  MarkFounded(b, g)'
    <3>1. \A x : <<b, x>> \in bad \ Pending => <<b, x>> \in bad' \ Pending'
        BY <1>1, <2>2
    <3>2. MarkFounded(b, g)
        BY <1>3 DEF MarksExact
    <3> QED BY <1>1, <3>1, <3>2, FoundedStays
  <2> QED BY <1>1, <2>2, <2>4, <2>5 DEF tables
<1>4. \A c \in hw' : c.second => job.twice
    BY <1>1
<1> QED BY <1>1, <1>2, <1>3, <1>4 DEF MarksExact

\* While no wait was in vain, a failure is in the tables as soon as llfBECheckStatus has
\* taken its completion, and a mark of a group stands for a failure.
THEOREM MarksInvariant == Spec => []MarksExact
<1>1. Init => MarksExact
  <2>1. SUFFICES ASSUME Init PROVE MarksExact
      OBVIOUS
  <2> QED BY <2>1 DEF Init, MarksExact, MarkFounded
<1>2. ASSUME Core, Core', LockStep, Alone, Alone', IssuedReached, MarksExact, [Next]_vars
      PROVE  MarksExact'
  <2>0. bank_no \in 0 .. BankNum /\ BankNum \in Nat
      BY <1>2, EraseAssumption DEF Core, TypeOK
  <2>1. CASE StartErase \/ RefuseErase \/ NextPass \/ FinishErase \/ LoopAgain \/ Pause \/ Resume
    <3>1. /\ tables' = tables /\ bad' = bad /\ hw' = hw /\ pc # "again"
          /\ resState' # "ERASE" \/ resState' = resState
          /\ pc' \notin {"check", "again", "issued"}
        BY <2>1 DEF StartErase, RefuseErase, NextPass, FinishErase, LoopAgain, Pause, Resume,
                    tables, soft
    <3> QED BY <1>2, <3>1, MarksQuiet
  <2>2. CASE SkipDefect \/ BankAtEnd
    <3>1. /\ tables' = tables /\ bad' = bad /\ hw' = hw /\ pc = "issue" /\ resState' = resState
          /\ pc' = (IF bank_no' = BankNum THEN "check" ELSE "issue")
        BY <2>2 DEF SkipDefect, BankAtEnd, NextBank, tables
    <3> QED BY <1>2, <3>1, MarksQuiet
  <2>3. CASE CheckTimeout
    <3>1. /\ tables' = tables /\ bad' = bad /\ hw' = hw /\ gubErasetimeout' = 1
          /\ pc' \notin {"check", "again"} /\ resState' \in {resState, "IDLE"}
        BY <2>3 DEF CheckTimeout, Return, tables
    <3> QED BY <1>2, <3>1, MarksQuiet
  <2>4. CASE CheckDone
    <3>1. /\ tables' = tables /\ bad' = bad /\ hw' = hw /\ gubErasetimeout' = gubErasetimeout
          /\ pc = "check" /\ pc' \notin {"check", "again"} /\ resState' \in {resState, "IDLE"}
        BY <2>4 DEF CheckDone, Return, tables
    <3>2. ~job.twice => pc' # "issued"
      <4>1. ~job.twice => ~(bank_no < BankNum)
          BY <1>2, <2>0, <3>1 DEF MarksExact
      <4> QED BY <2>4, <4>1 DEF CheckDone, Return
    <3> QED BY <1>2, <3>1, <3>2, MarksQuiet
  <2>5. CASE IssueErase
      BY <1>2, <2>5, MarksIssue
  <2>6. CASE AfterIssue
      BY <1>2, <2>6, MarksAfter
  <2>7. CASE \E cmd \in hw, failed \in BOOLEAN :
                PollCompletion(cmd, failed) \/ PollAgain(cmd, failed)
      BY <1>2, <2>7, MarksPoll
  <2>8. CASE \E cmd \in hw : EraseAgain(cmd)
      BY <1>2, <2>8, MarksAgain
  <2>9. CASE \E cmd \in hw : EraseAgainAssert(cmd)
    <3>1. PICK cmd \in hw : EraseAgainAssert(cmd)
        BY <2>9
    <3>2. /\ pc' = "assert" /\ gubErasetimeout' = gubErasetimeout /\ tables' = tables /\ job' = job
          /\ resState' = resState /\ hw' \subseteq hw
        BY <3>1 DEF EraseAgainAssert, soft
    <3>3. gubErasetimeout' # 0
        BY <1>2, <3>2 DEF Alone, EraseAgainAloneInTime
    <3>4. resState # "ERASE"
        BY <1>2, <3>1 DEF Core, Shape
    <3> QED BY <1>2, <3>2, <3>3, <3>4 DEF MarksExact
  <2>10. CASE UNCHANGED vars
      BY <1>2, <2>10 DEF vars, soft, tables, MarksExact, MarkFounded, Known, KeepsSystemMark, Pending,
                         Again, WithDbt, InWindow, InSblkWindow, FailBit
  <2> QED BY <1>2, <2>1, <2>2, <2>3, <2>4, <2>5, <2>6, <2>7, <2>8, <2>9, <2>10 DEF Next
<1> QED
    BY <1>1, <1>2, CoreInvariant, LockStepInvariant, AloneInvariant, IssuedInvariant, PTL DEF Spec

\* A group is marked only for a block of it whose erase failed (llfBECheckStatus).
THEOREM MarkedFailed == Spec => []MarkedOnlyIfFailed
<1>1. MarksExact => MarkedOnlyIfFailed
    BY DEF MarksExact, MarkFounded, MarkedOnlyIfFailed
<1> QED BY <1>1, MarksInvariant, PTL

\* Every failure is in all the tables it belongs to when the erase is over.
THEOREM FailuresKnown == Spec => []FailuresRecorded
<1>1. ASSUME Core, MarksExact PROVE FailuresRecorded
  <2>1. SUFFICES ASSUME pc = "done", gubErasetimeout = 0, NEW f \in bad
                 PROVE  /\ llfIsBlockBad(dbt, f[1], f[2])
                        /\ KeepsSystemMark(f[2]) => llfIsSystemBlkDefect(sysDbt, f[1], f[2])
                        /\ <<f[1], f[2]>> \in (BankStart .. (BankStart + SysBankNum - 1))
                                             \X (SblkStart .. (SblkStart + SblkBlks - 1))
                              => FailBit(f[1], f[2]) \in gulEraseFailSysblk
      BY DEF FailuresRecorded, KeepsSystemMark
  <2>2. Known(f[1], f[2]) /\ f[1] \in Bank /\ f[2] \in Nat
      BY <1>1, <2>1, BadType DEF MarksExact
  <2>3. ASSUME <<f[1], f[2]>> \in (BankStart .. (BankStart + SysBankNum - 1))
                                 \X (SblkStart .. (SblkStart + SblkBlks - 1))
        PROVE  InSblkWindow(f[1], f[2])
      BY <2>2, <2>3, EraseAssumption DEF InSblkWindow, Bank
  <2> QED BY <2>2, <2>3 DEF Known, llfIsBlockBad, llfIsMpBlockBad, llfIsSystemBlkDefect
<1> QED BY <1>1, CoreInvariant, MarksInvariant, PTL

------------------------------------------------------------------------------
(* The remap table                                                         *)
(*                                                                         *)
(* A bank has one erase outstanding in a pass, so its completions come in  *)
(* the order of its blocks, although those of different banks do not.  The *)
(* collector of a bank is followed by the set B of the blocks behind the   *)
(* system area whose erase failed for good: the group that failed last is  *)
(* in temp, those before it are in the table.                              *)

At(g, p) == g * Planes + p

LEMMA Scaled ==
    ASSUME NEW n \in Nat \ {0}, NEW g \in Nat, NEW h \in Nat, g < h
    PROVE  g * n + n <= h * n
    BY SMT

LEMMA AtType ==
    ASSUME NEW g \in Nat, NEW p \in PlaneSet
    PROVE  At(g, p) \in Nat /\ p \in Nat
    BY GeometryAssumption DEF At, PlaneSet

LEMMA AtOrder ==
    ASSUME NEW g \in Nat, NEW h \in Nat, NEW p \in PlaneSet, NEW q \in PlaneSet
    PROVE  At(g, p) < At(h, q) <=> (g < h \/ (g = h /\ p < q))
<1>1. Planes \in Nat \ {0} /\ p \in 0 .. (Planes - 1) /\ q \in 0 .. (Planes - 1)
    BY GeometryAssumption DEF PlaneSet
<1>2. g * Planes \in Nat /\ h * Planes \in Nat
    BY <1>1
<1>3. CASE g < h
  <2>1. g * Planes + Planes <= h * Planes
      BY <1>1, <1>3, Scaled
  <2> QED BY <1>1, <1>2, <1>3, <2>1 DEF At
<1>4. CASE h < g
  <2>1. h * Planes + Planes <= g * Planes
      BY <1>1, <1>4, Scaled
  <2> QED BY <1>1, <1>2, <1>4, <2>1 DEF At
<1>5. CASE g = h
    BY <1>1, <1>2, <1>5 DEF At
<1> QED BY <1>3, <1>4, <1>5

\* Two blocks are the same only if their groups and planes are.
LEMMA AtUnique ==
    ASSUME NEW g \in Nat, NEW h \in Nat, NEW p \in PlaneSet, NEW q \in PlaneSet,
           At(g, p) = At(h, q)
    PROVE  g = h /\ p = q
<1>1. p \in Nat /\ q \in Nat /\ At(g, p) \in Nat /\ At(h, q) \in Nat
    BY AtType
<1>2. ~(At(g, p) < At(h, q)) /\ ~(At(h, q) < At(g, p))
    BY <1>1
<1>3. ~(g < h) /\ ~(h < g) /\ (g = h => ~(p < q) /\ ~(q < p))
    BY <1>2, AtOrder
<1> QED BY <1>1, <1>3

LEMMA Parts ==
    ASSUME NEW x \in Nat
    PROVE  Group(x) \in Nat /\ PlaneOf(x) \in PlaneSet /\ x = At(Group(x), PlaneOf(x))
<1>1. Planes \in Nat \ {0}
    BY GeometryAssumption
<1>2. /\ x \div Planes \in Nat /\ x % Planes \in Nat /\ x % Planes < Planes
      /\ x = (x % Planes) + (x \div Planes) * Planes
    BY <1>1, DivMod
<1> QED BY <1>1, <1>2 DEF Group, PlaneOf, At, PlaneSet

LEMMA GroupsInOrder ==
    ASSUME NEW x \in Nat, NEW y \in Nat, x <= y
    PROVE  Group(x) <= Group(y)
<1>1. SUFFICES ASSUME Group(y) < Group(x) PROVE FALSE
    BY Parts
<1>2. At(Group(y), PlaneOf(y)) < At(Group(x), PlaneOf(x))
    BY <1>1, Parts, AtOrder
<1> QED BY <1>2, Parts

\* An area of whole groups has all blocks of a group or none.
LEMMA WholeGroups ==
    ASSUME NEW n \in Nat, n % Planes = 0, NEW x \in Nat, NEW p \in PlaneSet
    PROVE  At(Group(x), p) < n <=> x < n
<1>1. Planes \in Nat \ {0} /\ 0 \in PlaneSet
    BY GeometryAssumption DEF PlaneSet
<1>2. Group(n) \in Nat /\ PlaneOf(n) = 0 /\ n = At(Group(n), 0)
    BY <1>1, Parts DEF PlaneOf
<1>3. \A q \in PlaneSet : At(Group(x), q) < n <=> Group(x) < Group(n)
  <2>1. TAKE q \in PlaneSet
  <2>2. At(Group(x), q) < At(Group(n), 0) <=> (Group(x) < Group(n) \/ (Group(x) = Group(n) /\ q < 0))
      BY <1>1, <1>2, Parts, AtOrder
  <2>3. q \in Nat /\ Group(x) \in Nat
      BY AtType, Parts
  <2>4. At(Group(x), q) < n <=> At(Group(x), q) < At(Group(n), 0)
      BY <1>2
  <2> QED BY <2>2, <2>3, <2>4
<1> QED BY <1>3, Parts

\* The blocks of B in a plane that are left over in the groups G.
Left(B, G, p) == {At(g, p) : g \in {h \in G : At(h, p) \notin B}}

GroupsOf(B) == {Group(x) : x \in B}

\* The table has the first TableLen of S.
Keeps(tab, S) ==
    /\ Len(tab) <= TableLen /\ Increasing(tab)
    /\ \A i \in 1 .. Len(tab) : tab[i] \in S
    /\ \A k \in S : \/ \E i \in 1 .. Len(tab) : tab[i] = k
                    \/ Len(tab) = TableLen /\ \A i \in 1 .. Len(tab) : tab[i] < k

\* The collector while further blocks may come.
Open(c, B) ==
    /\ c \in Collector
    /\ c.mp = None => B = {}
    /\ c.mp # None => c.mp \in GroupsOf(B) /\ \A g \in GroupsOf(B) : g <= c.mp
    /\ \A p \in PlaneSet :
         /\ c.temp[p] = IF c.mp # None /\ At(c.mp, p) \notin B THEN At(c.mp, p) ELSE None
         /\ Keeps(c.tab[p], Left(B, GroupsOf(B) \ {c.mp}, p))

\* ... and behind the last block.
Closed(c, B) == \A p \in PlaneSet : Keeps(c.tab[p], Left(B, GroupsOf(B), p))

\* The numbers are those of blocks of a LUN.
Numbered(B) == B \subseteq Nat /\ \A x \in B : x < BlockNum

\* The next block goes to the end of the table, if there is room.
LEMMA KeepsNext ==
    ASSUME NEW tab \in Seq(Nat), NEW S \in SUBSET Nat, NEW k \in Nat, \A s \in S : s < k,
           Keeps(tab, S)
    PROVE  Keeps(IF Len(tab) < TableLen THEN Append(tab, k) ELSE tab, S \cup {k})
<1>1. Len(tab) \in Nat /\ TableLen \in Nat /\ \A i \in 1 .. Len(tab) : tab[i] \in S /\ tab[i] < k
    BY TableAssumption DEF Keeps
<1>2. CASE Len(tab) < TableLen
  <2> DEFINE new == Append(tab, k)
  <2>1. /\ Len(new) = Len(tab) + 1 /\ new[Len(tab) + 1] = k
        /\ \A i \in 1 .. Len(tab) : new[i] = tab[i]
      OBVIOUS
  <2> HIDE DEF new
  <2>2. ASSUME NEW i \in 1 .. Len(new), NEW j \in 1 .. Len(new), i < j
        PROVE  new[i] < new[j]
    <3>1. i \in 1 .. Len(tab) /\ new[i] = tab[i]
        BY <1>1, <2>1, <2>2
    <3>2. CASE j = Len(tab) + 1
        BY <1>1, <2>1, <3>1, <3>2
    <3>3. CASE j \in 1 .. Len(tab)
        BY <2>1, <2>2, <3>1, <3>3 DEF Keeps, Increasing
    <3> QED BY <1>1, <2>1, <3>2, <3>3
  <2>3. \A i \in 1 .. Len(new) : new[i] \in S \cup {k}
      BY <1>1, <2>1
  <2>4. ASSUME NEW s \in S \cup {k} PROVE \E i \in 1 .. Len(new) : new[i] = s
    <3>1. CASE s = k
        BY <1>1, <2>1, <3>1
    <3>2. CASE s # k
      <4>1. \E i \in 1 .. Len(tab) : tab[i] = s
          BY <1>1, <1>2, <2>4, <3>2 DEF Keeps
      <4> QED BY <1>1, <2>1, <4>1
    <3> QED BY <3>1, <3>2
  <2>5. Keeps(new, S \cup {k})
      BY <1>1, <1>2, <2>1, <2>2, <2>3, <2>4 DEF Keeps, Increasing
  <2> QED BY <1>2, <2>5 DEF new
<1>3. CASE Len(tab) = TableLen
  <2>1. Keeps(tab, S \cup {k})
      BY <1>1, <1>3 DEF Keeps
  <2> QED BY <1>1, <1>3, <2>1
<1>4. Len(tab) <= TableLen
    BY DEF Keeps
<1> QED BY <1>1, <1>2, <1>3, <1>4

LEMMA GroupsType ==
    ASSUME NEW B, Numbered(B)
    PROVE  /\ \A g \in GroupsOf(B) : g \in Nat /\ g < None
           /\ \A g \in GroupsOf(B), p \in PlaneSet : At(g, p) \in Nat /\ At(g, p) < None
<1>1. ASSUME NEW g \in GroupsOf(B), NEW p \in PlaneSet
      PROVE  g \in Nat /\ g < None /\ At(g, p) \in Nat /\ At(g, p) < None
  <2>1. PICK x \in B : g = Group(x)
      BY DEF GroupsOf
  <2>2. x \in Nat /\ x < BlockNum /\ BlockNum \in Nat /\ BlockNum % Planes = 0 /\ BlockNum <= None
      BY EraseAssumption DEF Numbered
  <2>3. g \in Nat /\ At(g, p) < BlockNum /\ At(g, p) \in Nat /\ p \in Nat
      BY <2>1, <2>2, Parts, WholeGroups, AtType
  <2>4. g <= At(g, p)
      BY <2>3, GeometryAssumption DEF At
  <2> QED BY <2>2, <2>3, <2>4 DEF None
<1>2. 0 \in PlaneSet
    BY GeometryAssumption DEF PlaneSet
<1> QED BY <1>1, <1>2

\* LlfCreatReMappingTable writes the group that failed last out.
LEMMA OpenCloses ==
    ASSUME NEW c, NEW B, Numbered(B), Open(c, B)
    PROVE  Closed(LlfCreatReMappingTable(c), B)
<1> DEFINE d == LlfCreatReMappingTable(c)
<1>1. SUFFICES ASSUME NEW p \in PlaneSet PROVE Keeps(d.tab[p], Left(B, GroupsOf(B), p))
    BY DEF Closed
<1>2. d.tab[p] = IF Len(c.tab[p]) < TableLen /\ c.temp[p] # None
                 THEN Append(c.tab[p], c.temp[p]) ELSE c.tab[p]
    BY DEF LlfCreatReMappingTable
<1> HIDE DEF d
<1>3. c.tab[p] \in Seq(Nat)
    BY DEF Open, Collector
<1>4. CASE c.mp = None
  <2>1. c.temp[p] = None /\ B = {} /\ Keeps(c.tab[p], Left(B, GroupsOf(B) \ {c.mp}, p))
      BY <1>4 DEF Open
  <2>2. Left(B, GroupsOf(B) \ {c.mp}, p) = {} /\ Left(B, GroupsOf(B), p) = {}
      BY <2>1 DEF Left, GroupsOf
  <2> QED BY <1>2, <2>1, <2>2
<1>5. CASE c.mp # None /\ At(c.mp, p) \in B
  <2>1. c.temp[p] = None /\ Keeps(c.tab[p], Left(B, GroupsOf(B) \ {c.mp}, p))
      BY <1>5 DEF Open
  <2>2. Left(B, GroupsOf(B) \ {c.mp}, p) = Left(B, GroupsOf(B), p)
      BY <1>5 DEF Left
  <2> QED BY <1>2, <2>1, <2>2
<1>6. CASE c.mp # None /\ At(c.mp, p) \notin B
  <2> DEFINE S == Left(B, GroupsOf(B) \ {c.mp}, p)
             k == At(c.mp, p)
  <2>1. c.temp[p] = k /\ Keeps(c.tab[p], S) /\ c.mp \in GroupsOf(B)
        /\ \A g \in GroupsOf(B) : g <= c.mp
      BY <1>6 DEF Open
  <2>2. k \in Nat /\ k < None /\ c.mp \in Nat
      BY <2>1, GroupsType
  <2>3. ASSUME NEW s \in S PROVE s \in Nat /\ s < k
    <3>1. PICK g \in GroupsOf(B) : g # c.mp /\ s = At(g, p)
        BY DEF Left
    <3>2. g \in Nat /\ g < c.mp
        BY <2>1, <2>2, <3>1, GroupsType
    <3> QED BY <2>2, <3>1, <3>2, AtOrder, AtType
  <2>4. Left(B, GroupsOf(B), p) = S \cup {k}
      BY <1>6, <2>1 DEF Left
  <2> HIDE DEF S, k
  <2>5. Keeps(IF Len(c.tab[p]) < TableLen THEN Append(c.tab[p], k) ELSE c.tab[p], S \cup {k})
      BY <1>3, <2>1, <2>2, <2>3, KeepsNext
  <2>6. c.temp[p] # None
      BY <2>1, <2>2 DEF None
  <2> QED BY <1>2, <2>1, <2>4, <2>5, <2>6
<1> QED BY <1>4, <1>5, <1>6

\* llfBECheckStatus puts a block that failed into the collector; it is behind all before.
LEMMA CollectOpens ==
    ASSUME NEW c, NEW B, Numbered(B), Open(c, B),
           NEW blk \in Nat, blk < BlockNum, \A x \in B : x < blk
    PROVE  Open(CollectBad(c, blk), B \cup {blk}) /\ Numbered(B \cup {blk})
<1> DEFINE g == Group(blk)
           q == PlaneOf(blk)
           N == B \cup {blk}
<1>1. Numbered(N)
    BY DEF Numbered
<1>2. g \in Nat /\ q \in PlaneSet /\ blk = At(g, q)
    BY Parts
<1>3. g \in GroupsOf(N) /\ GroupsOf(N) = GroupsOf(B) \cup {g} /\ g # None
  <2>1. g \in GroupsOf(N) /\ GroupsOf(N) = GroupsOf(B) \cup {g}
      BY DEF GroupsOf
  <2> QED BY <1>1, <1>2, <2>1, GroupsType DEF None
<1>4. CollectBad(c, blk) \in Collector
    BY CollectBadType DEF Open
<1>5. \A h \in GroupsOf(B) : h \in Nat /\ h <= g
  <2>1. TAKE h \in GroupsOf(B)
  <2>2. PICK x \in B : h = Group(x)
      BY DEF GroupsOf
  <2>3. x \in Nat /\ x < blk
      BY <2>2 DEF Numbered
  <2> QED BY <2>2, <2>3, Parts, GroupsInOrder
<1>6. \A h \in Nat, p \in PlaneSet : At(h, p) \in N <=> At(h, p) \in B \/ (h = g /\ p = q)
    BY <1>2, AtUnique
<1> HIDE DEF N
<1>7. CASE c.mp = g
  <2> DEFINE d == SameGroup(c, blk)
  <2>1. CollectBad(c, blk) = d /\ d.mp = g /\ d.tab = c.tab
      BY <1>7 DEF CollectBad, SameGroup
  <2>2. g \in GroupsOf(B) /\ GroupsOf(N) = GroupsOf(B)
      BY <1>3, <1>7 DEF Open
  <2>3. ASSUME NEW p \in PlaneSet
        PROVE  d.temp[p] = (IF At(g, p) \notin N THEN At(g, p) ELSE None)
    <3>1. d.temp[p] = CASE p = q -> None [] p > q -> At(g, p) [] OTHER -> c.temp[p]
        BY DEF SameGroup, At
    <3>2. c.temp[p] = (IF At(g, p) \notin B THEN At(g, p) ELSE None)
        BY <1>3, <1>7 DEF Open
    <3>3. p \in Nat /\ q \in Nat /\ At(g, p) \in Nat
        BY <1>2, AtType
    <3>4. p > q => At(g, p) \notin B
      <4>1. p > q => blk < At(g, p)
          BY <1>2, <3>3, AtOrder
      <4> QED BY <3>3, <4>1 DEF Numbered
    <3>5. At(g, p) \in N <=> At(g, p) \in B \/ p = q
        BY <1>2, <1>6
    <3> HIDE DEF d, g, q
    <3>6. CASE p = q
        BY <3>1, <3>3, <3>5, <3>6
    <3>7. CASE p > q
        BY <3>1, <3>3, <3>4, <3>5, <3>7
    <3>8. CASE p < q
        BY <3>1, <3>2, <3>3, <3>5, <3>8
    <3> QED BY <3>3, <3>6, <3>7, <3>8
  <2>4. ASSUME NEW p \in PlaneSet
        PROVE  Left(N, GroupsOf(N) \ {g}, p) = Left(B, GroupsOf(B) \ {g}, p)
    <3>1. \A h \in GroupsOf(B) \ {g} : At(h, p) \in N <=> At(h, p) \in B
        BY <1>5, <1>6
    <3> QED BY <2>2, <3>1 DEF Left
  <2>5. \A p \in PlaneSet : Keeps(d.tab[p], Left(N, GroupsOf(N) \ {g}, p))
      BY <1>7, <2>1, <2>4 DEF Open
  <2>6. \A h \in GroupsOf(N) : h <= g
      BY <1>5, <2>2
  <2> HIDE DEF d, g
  <2> QED BY <1>1, <1>3, <1>4, <2>1, <2>3, <2>5, <2>6 DEF Open, N
<1>8. CASE c.mp # g
  <2> DEFINE d == NewGroup(c, blk)
  <2>1. CollectBad(c, blk) = d /\ d.mp = g
      BY <1>8 DEF CollectBad, NewGroup
  <2>2. g \notin GroupsOf(B)
    <3>1. CASE c.mp = None
        BY <3>1 DEF Open, GroupsOf
    <3>2. CASE c.mp # None
      <4>1. c.mp \in GroupsOf(B) /\ \A h \in GroupsOf(B) : h <= c.mp
          BY <3>2 DEF Open
      <4>2. c.mp \in Nat /\ c.mp < g
          BY <1>2, <1>5, <1>8, <4>1
      <4> QED BY <1>2, <4>1, <4>2
    <3> QED BY <3>1, <3>2
  <2>3. ASSUME NEW p \in PlaneSet
        PROVE  d.temp[p] = (IF At(g, p) \notin N THEN At(g, p) ELSE None)
    <3>1. d.temp[p] = IF p = q THEN None ELSE At(g, p)
        BY DEF NewGroup, At
    <3>2. At(g, p) \in Nat /\ Group(At(g, p)) = g
      <4>1. At(g, p) \in Nat
          BY <1>2, AtType
      <4> QED BY <1>2, <4>1, Parts, AtUnique
    <3>3. At(g, p) \notin B
        BY <2>2, <3>2 DEF GroupsOf
    <3>4. At(g, p) \in N <=> p = q
        BY <1>2, <1>6, <3>3
    <3> QED BY <3>1, <3>4
  <2>4. \A p \in PlaneSet : Keeps(d.tab[p], Left(B, GroupsOf(B), p))
    <3>1. CASE c.mp = None
      <4>1. B = {} /\ d.tab = c.tab /\ \A p \in PlaneSet : Keeps(c.tab[p], Left(B, GroupsOf(B) \ {c.mp}, p))
          BY <3>1 DEF Open, NewGroup
      <4>2. GroupsOf(B) \ {c.mp} = GroupsOf(B)
          BY <4>1 DEF GroupsOf
      <4> QED BY <4>1, <4>2
    <3>2. CASE c.mp # None
      <4>1. d.tab = LlfCreatReMappingTable(c).tab
          BY <3>2 DEF NewGroup
      <4> QED BY <4>1, OpenCloses DEF Closed
    <3> QED BY <3>1, <3>2
  <2>5. ASSUME NEW p \in PlaneSet
        PROVE  Left(N, GroupsOf(N) \ {g}, p) = Left(B, GroupsOf(B), p)
    <3>1. GroupsOf(N) \ {g} = GroupsOf(B)
        BY <1>3, <2>2
    <3>2. \A h \in GroupsOf(B) : At(h, p) \in N <=> At(h, p) \in B
        BY <1>5, <1>6, <2>2
    <3> QED BY <3>1, <3>2 DEF Left
  <2>6. \A h \in GroupsOf(N) : h <= g
      BY <1>2, <1>3, <1>5
  <2> HIDE DEF d, g
  <2> QED BY <1>1, <1>3, <1>4, <2>1, <2>3, <2>4, <2>5, <2>6 DEF Open, N
<1> QED BY <1>7, <1>8

\* The blocks of a bank behind the system area whose failure was taken.
Failed(b) == {x \in Nat : x >= SysMax /\ <<b, x>> \in bad \ Pending}

\* The completion of the last block of the LUN was taken.
Over(b) == <<b, BlockNum - 1>> \in issued \ Pending

CollectedSoFar ==
    CollectsRemap /\ ~WithDbt /\ gubErasetimeout = 0 =>
        \A b \in Bank : IF Over(b) THEN Closed(remap[b], Failed(b)) ELSE Open(remap[b], Failed(b))

\* No job that collects ends behind the LUN: a table with groups behind it is inherited, and
\* comes with a mode that inherits, or is erased by.
EndsWithLun ==
    \A j \in Jobs :
        j.dbtDone = "SYSTEM" /\ j.pro =>
            \/ j.ersMode = "ERASE_ALL_WITH_DBT"
            \/ j.mode \in {"INHERIT_OR_FORMAT", "FORCE_INHERIT", "DEFECT_BAD_BLOCK"}

LEMMA EndInLun ==
    ASSUME Core, EndsWithLun, ~WithDbt, CollectsRemap
    PROVE  /\ BlockEnd <= BlockNum /\ BlockEnd \in Nat /\ BlockNum \in Nat
           /\ BlockEnd = BlockNum \/ BlockEnd <= SysMax
<1>1. job \in Jobs /\ job \in Job
    BY EraseAssumption DEF Core, TypeOK
<1>2. ~(job.dbtDone = "SYSTEM" /\ job.pro)
    BY <1>1 DEF EndsWithLun, WithDbt, CollectsRemap, Job
<1>3. BlockEnd = BlockNum \/ BlockEnd = SblkBlks + SblkStart
    BY <1>2 DEF BlockEnd
<1> QED BY <1>3, BlockEndType, EraseAssumption, GeometryAssumption

\* A completion is of the last block its bank has come to.
LEMMA Latest ==
    ASSUME Core, LockStep, IssuedReached, gubErasetimeout = 0, pc \in {"check", "again"},
           NEW cmd \in hw
    PROVE  /\ cmd.blk < BlockEnd
           /\ \A x : <<cmd.bank, x>> \in issued => x \in Nat /\ x <= cmd.blk
<1>1. PICK u \in Nat : LockAt(u)
    BY DEF LockStep
<1>2. cmd.bank \in Bank /\ cmd.blk \in Nat /\ cmd.blk = SkipRdt(u) /\ BlockEnd \in Nat
    BY <1>1, BlockEndType DEF Core, TypeOK, Command, LockAt
<1>3. <<cmd.bank, cmd.blk>> \in issued
    BY DEF IssuedReached, Pending
<1>4. cmd.blk < BlockEnd
  <2>1. \A f \in issued : f[2] < BlockEnd
      BY DEF IssuedReached
  <2> QED BY <1>3, <2>1
<1>5. Reached(cmd.bank) <= cmd.blk + 1
  <2>1. uwBlock[cmd.bank] = Position(u, cmd.bank)
      BY <1>1, <1>2 DEF LockAt
  <2>2. SkipRdt(u) \in Nat /\ u <= SkipRdt(u)
      BY SkipRdtType
  <2>3. bank_no \in Nat /\ cmd.bank \in Nat
      BY <1>2, EraseAssumption DEF Core, TypeOK, Bank
  <2> QED BY <1>2, <1>4, <2>1, <2>2, <2>3 DEF Reached, Position, After, AtBlock
<1>6. ASSUME NEW x, <<cmd.bank, x>> \in issued PROVE x \in Nat /\ x <= cmd.blk
  <2>1. \A f \in issued : f[2] < Reached(f[1])
      BY DEF IssuedReached
  <2>2. x < Reached(cmd.bank)
      BY <1>6, <2>1
  <2>3. x \in Nat
      BY <1>6 DEF Core, TypeOK
  <2>4. Reached(cmd.bank) \in Nat
      BY <1>2 DEF Reached, Core, TypeOK
  <2> QED BY <1>2, <1>5, <2>2, <2>3, <2>4
<1> QED BY <1>4, <1>6

\* Steps that take no completion.
LEMMA CollectedQuiet ==
    ASSUME Core, LockStep, CollectedSoFar, [Next]_vars, remap' = remap,
           gubErasetimeout' = 0 => /\ issued' \ Pending' = issued \ Pending
                                   /\ bad' \ Pending' = bad \ Pending
    PROVE  CollectedSoFar'
<1>1. job' = job /\ (gubErasetimeout' = 0 => gubErasetimeout = 0)
    BY Onward
<1>2. CollectsRemap' = CollectsRemap /\ WithDbt' = WithDbt
    BY <1>1 DEF CollectsRemap, WithDbt
<1>3. SUFFICES ASSUME CollectsRemap, ~WithDbt, gubErasetimeout' = 0, NEW b \in Bank
               PROVE  IF Over(b)' THEN Closed(remap[b], Failed(b)') ELSE Open(remap[b], Failed(b)')
    BY <1>2 DEF CollectedSoFar, Closed, Open
<1>4. (Over(b)' <=> Over(b)) /\ Failed(b)' = Failed(b)
    BY <1>3 DEF Over, Failed
<1> QED BY <1>1, <1>3, <1>4 DEF CollectedSoFar

\* A completion is taken for its own erase, the last its bank has come to.
LEMMA CollectedPoll ==
    ASSUME Core, Core', LockStep, Alone, IssuedReached, MarksExact, EndsWithLun, CollectedSoFar,
           NEW cmd \in hw, NEW failed \in BOOLEAN,
           PollCompletion(cmd, failed) \/ PollAgain(cmd, failed)
    PROVE  CollectedSoFar'
<1> DEFINE b == cmd.bank
           blk == cmd.blk
           pair == <<b, blk>>
<1>1. /\ job' = job /\ gubErasetimeout' = gubErasetimeout /\ hw' = hw \ {cmd}
      /\ issued' = issued /\ pc \in {"check", "again"} /\ Fails(cmd, failed)
    BY DEF PollCompletion, PollAgain
<1>2. b \in Bank /\ blk \in Nat
    BY DEF Core, TypeOK, Command
<1>3. CollectsRemap' = CollectsRemap /\ WithDbt' = WithDbt
    BY <1>1 DEF CollectsRemap, WithDbt
<1>4. SUFFICES ASSUME CollectsRemap, ~WithDbt, gubErasetimeout = 0, NEW a \in Bank
               PROVE  IF Over(a)' THEN Closed(remap'[a], Failed(a)') ELSE Open(remap'[a], Failed(a)')
    BY <1>1, <1>3 DEF CollectedSoFar, Closed, Open
<1>5. IF Over(a) THEN Closed(remap[a], Failed(a)) ELSE Open(remap[a], Failed(a))
    BY <1>4 DEF CollectedSoFar
<1>6. Record(b, blk, failed)
  <2>1. CASE PollCompletion(cmd, failed)
      BY <1>1, <1>4, <2>1, SameBlock DEF PollCompletion
  <2>2. CASE PollAgain(cmd, failed)
    <3>1. again.bank = cmd.bank /\ again.blk = cmd.blk
        BY <2>2 DEF PollAgain, Core, Shape
    <3> QED BY <2>2, <3>1 DEF PollAgain
  <2> QED BY <2>1, <2>2
<1>7. remap \in [Bank -> Collector] /\ remap' = [remap EXCEPT ![b] = Collected(remap[b], blk, failed)]
    BY <1>6 DEF Record, Core, TypeOK
<1>8. pair \in Pending /\ Pending' = Pending \ {pair}
  <2>1. pair \in Pending
      BY DEF Pending
  <2>2. ASSUME NEW c \in hw, c.bank = b, c.blk = blk PROVE c = cmd
      BY <1>1, <1>4, <2>2, HeldOnce
  <2>3. \A c \in hw : c \in Command
      BY DEF Core, TypeOK
  <2>4. \A c \in hw' : c \in hw /\ c # cmd
      BY <1>1
  <2>5. \A c \in hw : c # cmd => c \in hw'
      BY <1>1
  <2>6. \A f \in Pending' : f \in Pending /\ f # pair
      BY <2>2, <2>4 DEF Pending
  <2>7. \A f \in Pending : f # pair => f \in Pending'
      BY <2>5 DEF Pending
  <2> QED BY <2>1, <2>6, <2>7
<1>9. bad' \ Pending' = (bad \ Pending) \cup (IF failed THEN {pair} ELSE {})
  <2>1. bad' = (IF failed THEN bad \cup {pair} ELSE bad \ {pair})
      BY <1>1 DEF Fails
  <2> QED BY <1>8, <2>1
<1>10. /\ blk < BlockNum /\ BlockNum \in Nat /\ SysMax \in Nat
       /\ \A x : <<b, x>> \in issued => x \in Nat /\ x <= blk
    BY <1>1, <1>2, <1>4, Latest, EndInLun, GeometryAssumption
<1> HIDE DEF b, blk
<1>11. CASE a # b
  <2>1. remap'[a] = remap[a]
      BY <1>7, <1>11
  <2>2. Over(a)' <=> Over(a)
      BY <1>1, <1>8, <1>11 DEF Over
  <2>3. Failed(a)' = Failed(a)
      BY <1>9, <1>11 DEF Failed
  <2> QED BY <1>5, <2>1, <2>2, <2>3
<1>12. CASE a = b
  <2> DEFINE c == remap[b]
             B == Failed(b)
             N == Failed(b)'
  <2>1. \A x \in B : x \in Nat /\ x < blk
    <3>1. TAKE x \in B
    <3>2. x \in Nat /\ <<b, x>> \in bad /\ <<b, x>> \notin Pending
        BY DEF Failed
    <3>3. x # blk /\ <<b, x>> \in issued
        BY <1>8, <3>2 DEF IssuedReached
    <3> QED BY <1>2, <1>10, <3>2, <3>3
  <2>2. ~Over(b)
    <3>1. SUFFICES ASSUME <<b, BlockNum - 1>> \in issued, <<b, BlockNum - 1>> \notin Pending
                   PROVE FALSE
        BY DEF Over
    <3>2. BlockNum - 1 = blk
        BY <1>2, <1>10, <3>1
    <3> QED BY <1>8, <3>1, <3>2
  <2>3. Open(c, B) /\ Numbered(B)
    <3>1. Open(c, B)
        BY <1>5, <1>12, <2>2
    <3> QED BY <1>2, <1>10, <2>1, <3>1 DEF Numbered
  <2>4. Over(b)' <=> blk = BlockNum - 1
    <3>1. Over(b)' <=> <<b, BlockNum - 1>> \in issued /\ <<b, BlockNum - 1>> \notin Pending'
        BY <1>1 DEF Over
    <3>2. pair \in issued
        BY <1>8 DEF IssuedReached
    <3>3. <<b, BlockNum - 1>> \in issued => BlockNum - 1 = blk
        BY <1>2, <1>10
    <3> QED BY <1>8, <3>1, <3>2, <3>3
  <2>5. N = B \cup (IF failed /\ blk >= SysMax THEN {blk} ELSE {})
      BY <1>2, <1>9 DEF Failed
  <2> DEFINE m == IF failed /\ blk >= SysMax THEN CollectBad(c, blk) ELSE c
  <2> HIDE DEF c, B, N
  <2>6. Open(m, N) /\ Numbered(N)
    <3>1. CASE failed /\ blk >= SysMax
        BY <1>2, <1>10, <2>1, <2>3, <2>5, <3>1, CollectOpens
    <3>2. CASE ~(failed /\ blk >= SysMax)
        BY <2>3, <2>5, <3>2
    <3> QED BY <3>1, <3>2
  <2>7. remap'[b] = IF blk = BlockNum - 1 THEN LlfCreatReMappingTable(m) ELSE m
      BY <1>2, <1>4, <1>7 DEF Collected, LastOfLun, c
  <2> HIDE DEF m
  <2>8. IF Over(b)' THEN Closed(remap'[b], N) ELSE Open(remap'[b], N)
      BY <2>4, <2>6, <2>7, OpenCloses
  <2> QED BY <1>12, <2>8 DEF N
<1> QED BY <1>11, <1>12

\* Bank by bank, the collector has followed the failures that were taken.
LEMMA CollectedStep ==
    ASSUME Core, Core', LockStep, Alone, Alone', IssuedReached, MarksExact, EndsWithLun,
           CollectedSoFar, [Next]_vars
    PROVE  CollectedSoFar'
<1>1. CASE StartErase \/ RefuseErase \/ NextPass \/ FinishErase \/ AfterIssue \/ SkipDefect
           \/ BankAtEnd \/ CheckTimeout \/ CheckDone \/ LoopAgain \/ Pause \/ Resume
           \/ UNCHANGED vars
  <2>1. remap' = remap /\ issued' = issued /\ bad' = bad /\ hw' = hw
      BY <1>1 DEF StartErase, RefuseErase, NextPass, FinishErase, AfterIssue, SkipDefect, BankAtEnd,
                  CheckTimeout, CheckDone, LoopAgain, Pause, Resume, vars, tables
  <2>2. Pending' = Pending
      BY <2>1 DEF Pending
  <2> QED BY <2>1, <2>2, CollectedQuiet
<1>2. CASE IssueErase
  <2> DEFINE blk == SkipRdt(uwBlock[bank_no])
             new == [bank |-> bank_no, blk |-> blk, second |-> FALSE]
             pair == <<bank_no, blk>>
  <2>1. bank_no \in Bank /\ uwBlock[bank_no] \in Nat /\ pc = "issue"
      BY <1>2 DEF IssueErase, Core, Shape, TypeOK
  <2>2. blk \in Nat /\ blk >= uwBlock[bank_no]
      BY <2>1, SkipRdtType
  <2>3. /\ remap' = remap /\ bad' = bad /\ issued' = issued \cup {pair} /\ hw' = hw \cup {new}
        /\ gubErasetimeout' = gubErasetimeout /\ new.bank = bank_no /\ new.blk = blk
      BY <1>2 DEF IssueErase, tables
  <2> HIDE DEF blk, new
  <2>4. Pending' = Pending \cup {pair}
      BY <2>3 DEF Pending
  <2>5. gubErasetimeout = 0 => pair \notin issued
    <3>1. Reached(bank_no) = uwBlock[bank_no]
        BY <2>1 DEF Reached, AtBlock
    <3>2. SUFFICES ASSUME gubErasetimeout = 0, pair \in issued PROVE FALSE
        OBVIOUS
    <3>3. pair[2] < Reached(pair[1])
        BY <3>2 DEF IssuedReached
    <3> QED BY <2>1, <2>2, <3>1, <3>3
  <2>6. bad \subseteq issued
      BY DEF IssuedReached
  <2> QED BY <2>3, <2>4, <2>5, <2>6, CollectedQuiet
<1>3. CASE \E cmd \in hw, failed \in BOOLEAN :
                PollCompletion(cmd, failed) \/ PollAgain(cmd, failed)
    BY <1>3, CollectedPoll
<1>4. CASE \E cmd \in hw : EraseAgain(cmd)
  <2>1. PICK cmd \in hw : EraseAgain(cmd)
      BY <1>4
  <2> DEFINE pair == <<cmd.bank, cmd.blk>>
             new == [bank |-> cmd.bank, blk |-> Decode(cmd), second |-> TRUE]
  <2>2. /\ remap' = remap /\ bad' = bad \cup {pair} /\ gubErasetimeout' = gubErasetimeout
        /\ issued' = issued \cup {<<cmd.bank, Decode(cmd)>>} /\ pc = "check"
        /\ hw' = (hw \ {cmd}) \cup {new}
      BY <2>1 DEF EraseAgain, Fails, tables, soft
  <2>3. pair \in Pending /\ pair \in issued
    <3>1. pair \in Pending
        BY DEF Pending
    <3> QED BY <3>1 DEF IssuedReached
  <2>4. gubErasetimeout = 0 => issued' = issued /\ Pending' = Pending
    <3>1. SUFFICES ASSUME gubErasetimeout = 0 PROVE issued' = issued /\ Pending' = Pending
        OBVIOUS
    <3>2. Decode(cmd) = cmd.blk
        BY <2>2, <3>1, SameBlock
    <3>3. new.bank = cmd.bank /\ new.blk = cmd.blk
        BY <3>2
    <3> HIDE DEF new
    <3>4. Pending' \subseteq Pending
        BY <2>2, <3>3 DEF Pending
    <3>5. \A c \in hw : c = cmd \/ c \in hw'
        BY <2>2
    <3>6. new \in hw'
        BY <2>2
    <3>7. pair \in Pending'
        BY <3>3, <3>6 DEF Pending
    <3>8. Pending \subseteq Pending'
        BY <3>5, <3>7 DEF Pending
    <3> QED BY <2>2, <2>3, <3>2, <3>4, <3>8
  <2> QED BY <2>2, <2>3, <2>4, CollectedQuiet
<1>5. CASE \E cmd \in hw : EraseAgainAssert(cmd)
  <2>1. remap' = remap /\ pc' = "assert"
      BY <1>5 DEF EraseAgainAssert, tables
  <2>2. gubErasetimeout' # 0
      BY <2>1 DEF Alone, EraseAgainAloneInTime
  <2> QED BY <2>1, <2>2, CollectedQuiet
<1> QED BY <1>1, <1>2, <1>3, <1>4, <1>5 DEF Next

\* Through the whole erase of a job that collects, the collector of a bank is what the
\* failures taken so far make of it, block by block (llfBECheckStatus).
THEOREM CollectorInvariant ==
    ASSUME EndsWithLun
    PROVE  Spec => []CollectedSoFar
<1>1. Init => CollectedSoFar
  <2>1. SUFFICES ASSUME Init, NEW b \in Bank PROVE ~Over(b) /\ Open(remap[b], Failed(b))
      BY DEF CollectedSoFar
  <2>2. ~Over(b) /\ Failed(b) = {} /\ remap[b] = LlfInitReMapTable
      BY <2>1 DEF Init, Over, Failed
  <2>3. LlfInitReMapTable \in Collector
    <3> DEFINE t == [p \in PlaneSet |-> None]
               s == [p \in PlaneSet |-> <<>>]
    <3>1. None \in Nat /\ t \in [PlaneSet -> Nat] /\ s \in [PlaneSet -> Seq(Nat)]
        BY DEF None
    <3>2. LlfInitReMapTable = [mp |-> None, temp |-> t, tab |-> s]
        BY DEF LlfInitReMapTable
    <3> HIDE DEF t, s
    <3> QED BY <3>1, <3>2 DEF Collector
  <2>4. LlfInitReMapTable.mp = None
        /\ \A p \in PlaneSet : LlfInitReMapTable.temp[p] = None /\ LlfInitReMapTable.tab[p] = <<>>
      BY DEF LlfInitReMapTable
  <2>5. Keeps(<<>>, {})
      BY TableAssumption DEF Keeps, Increasing
  <2>6. \A p \in PlaneSet : Left({}, GroupsOf({}) \ {None}, p) = {}
      BY DEF Left, GroupsOf
  <2> HIDE DEF LlfInitReMapTable
  <2> QED BY <2>2, <2>3, <2>4, <2>5, <2>6 DEF Open
<1>2. ASSUME Core, Core', LockStep, Alone, Alone', IssuedReached, MarksExact, CollectedSoFar,
             [Next]_vars
      PROVE  CollectedSoFar'
    BY <1>2, CollectedStep
<1> QED BY <1>1, <1>2, CoreInvariant, LockStepInvariant, AloneInvariant, IssuedInvariant,
           MarksInvariant, PTL DEF Spec

\* A format that erases everything leaves in the remap table exactly the first TableLen
\* good blocks, plane by plane, of the groups that broke (llfBECheckStatus,
\* LlfCreatReMappingTable).
THEOREM RemapExact ==
    ASSUME EndsWithLun
    PROVE  Spec => []RemapTableExact
<1>1. ASSUME Core, IssuedReached, EraseSetExact, DoneMeansAnswered, CollectedSoFar
      PROVE  RemapTableExact
  <2>1. SUFFICES ASSUME pc = "done", ~WithDbt, CollectsRemap, gubErasetimeout = 0,
                        NEW b \in Bank, NEW p \in PlaneSet
                 PROVE  LET tab   == remap[b].tab[p]
                            found == {tab[i] : i \in 1 .. Len(tab)}
                        IN  /\ Increasing(tab)
                            /\ found \subseteq Leftover(b, p)
                            /\ found = Leftover(b, p) \/ Len(tab) = TableLen
                            /\ \A k \in Leftover(b, p) \ found : \A i \in 1 .. Len(tab) : tab[i] < k
      BY DEF RemapTableExact
  <2> DEFINE B == Failed(b)
  <2>2. Pending = {}
      BY <1>1, <2>1 DEF DoneMeansAnswered, Pending
  <2>3. B = {x \in Nat : x >= SysMax /\ <<b, x>> \in bad}
      BY <2>2 DEF Failed
  <2>4. /\ BlockEnd <= BlockNum /\ BlockEnd \in Nat /\ BlockNum \in Nat
        /\ BlockEnd = BlockNum \/ BlockEnd <= SysMax
      BY <1>1, <2>1, EndInLun
  <2>5. SysMax \in Nat /\ SysMax % Planes = 0 /\ SblkStart + SblkBlks + RdtBlks <= SysMax
        /\ SblkStart \in Nat /\ SblkBlks \in Nat /\ RdtBlks \in Nat
      BY EraseAssumption, GeometryAssumption
  <2>6. ~Over(b) => B = {}
    <3>1. SUFFICES ASSUME NEW x \in B PROVE Over(b)
        OBVIOUS
    <3>2. x \in Nat /\ x >= SysMax /\ x < BlockEnd
      <4>1. x \in Nat /\ x >= SysMax /\ <<b, x>> \in issued
          BY <1>1, <2>3 DEF IssuedReached
      <4>2. \A f \in issued : f[2] < BlockEnd
          BY <1>1, <2>1 DEF IssuedReached
      <4> QED BY <4>1, <4>2
    <3>3. BlockEnd = BlockNum /\ BlockNum - 1 \in 0 .. (BlockEnd - 1) /\ BlockNum - 1 >= SysMax
        BY <2>4, <2>5, <3>2
    <3>4. BlockNum - 1 \notin ResultBlocks
        BY <2>4, <2>5, <3>3 DEF ResultBlocks
    <3>5. <<b, BlockNum - 1>> \in issued
        BY <1>1, <2>1, <3>3, <3>4 DEF EraseSetExact
    <3> QED BY <2>2, <3>5 DEF Over
  <2>7. Keeps(remap[b].tab[p], Left(B, GroupsOf(B), p))
    <3>1. CASE Over(b)
        BY <1>1, <2>1, <3>1 DEF CollectedSoFar, Closed
    <3>2. CASE ~Over(b)
      <4>1. Keeps(remap[b].tab[p], Left(B, GroupsOf(B) \ {remap[b].mp}, p))
          BY <1>1, <2>1, <3>2 DEF CollectedSoFar, Open
      <4>2. GroupsOf(B) \ {remap[b].mp} = GroupsOf(B)
          BY <2>6, <3>2 DEF GroupsOf
      <4> QED BY <4>1, <4>2
    <3> QED BY <3>1, <3>2
  <2>8. Leftover(b, p) = Left(B, GroupsOf(B), p)
    <3> DEFINE broken == {Group(f[2]) : f \in {f \in bad : f[1] = b /\ f[2] >= SysMax}}
    <3>1. broken = GroupsOf(B)
      <4>1. ASSUME NEW g \in broken PROVE g \in GroupsOf(B)
        <5>1. PICK f \in bad : f[1] = b /\ f[2] >= SysMax /\ g = Group(f[2])
            OBVIOUS
        <5>2. f[2] \in Nat /\ f = <<b, f[2]>>
            BY <1>1, <5>1, BadType
        <5> QED BY <2>3, <5>1, <5>2 DEF GroupsOf
      <4>2. ASSUME NEW g \in GroupsOf(B) PROVE g \in broken
        <5>1. PICK x \in B : g = Group(x)
            BY DEF GroupsOf
        <5>2. <<b, x>> \in {f \in bad : f[1] = b /\ f[2] >= SysMax} /\ g = Group(<<b, x>>[2])
            BY <2>3, <5>1
        <5> QED BY <5>2
      <4> QED BY <4>1, <4>2
    <3>2. \A g \in GroupsOf(B) : <<b, At(g, p)>> \in bad <=> At(g, p) \in B
      <4>1. TAKE g \in GroupsOf(B)
      <4>2. PICK x \in Nat : x >= SysMax /\ g = Group(x)
          BY <2>3 DEF GroupsOf
      <4>3. At(g, p) \in Nat /\ At(g, p) >= SysMax
        <5>1. At(g, p) \in Nat
            BY <4>2, Parts, AtType
        <5> QED BY <2>5, <4>2, <5>1, WholeGroups
      <4> QED BY <2>3, <4>3
    <3>3. Leftover(b, p) = {At(g, p) : g \in {g \in broken : <<b, At(g, p)>> \notin bad}}
        BY DEF Leftover, At
    <3> HIDE DEF broken
    <3> QED BY <3>1, <3>2, <3>3 DEF Left
  <2> HIDE DEF B
  <2> QED BY <2>7, <2>8 DEF Keeps
<1> QED BY <1>1, CoreInvariant, IssuedInvariant, EraseSet, DoneAnswered, CollectorInvariant, PTL
=============================================================================
