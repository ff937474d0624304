--------------------------- MODULE EraseAllProofs ---------------------------
(***************************************************************************)
(* What is proved of EraseAll, for every geometry, every set of jobs and   *)
(* every bound.                                                            *)
(*                                                                         *)
(* The invariant has three layers: types, the shape of the outstanding     *)
(* erases (Shape) and the exact counters together (a counter is a natural  *)
(* number only because it counts); then the lock step of the banks.        *)
(***************************************************************************)
EXTENDS EraseAll, FiniteSetTheorems, TLAPS

------------------------------------------------------------------------------
(* Arithmetic of block numbers                                             *)

\* A block number is split into a group and a plane, or a range and a tag.
LEMMA DivMod ==
    ASSUME NEW k \in Nat, NEW n \in Nat \ {0}
    PROVE  /\ k \div n \in Nat
           /\ k % n \in Nat /\ k % n < n
           /\ k = (k % n) + (k \div n) * n
    OBVIOUS

\* A block below six ranges is in one of the six ranges.
LEMMA DivBelow ==
    ASSUME NEW k \in Nat, NEW n \in Nat \ {0}, k < 6 * n
    PROVE  k \div n \in 0 .. 5
    OBVIOUS

LEMMA RangeOfType ==
    ASSUME NEW blk \in Nat, blk < 6 * TagRange
    PROVE  RangeOf(blk) \in 1 .. 6
    BY EraseAssumption, DivBelow DEF RangeOf

\* The end of the erase is below six ranges.
LEMMA BlockEndType ==
    BlockEnd \in Nat /\ BlockEnd < 6 * TagRange
    BY EraseAssumption, GeometryAssumption DEF BlockEnd

LEMMA SkipRdtType ==
    ASSUME NEW blk \in Nat
    PROVE  SkipRdt(blk) \in Nat /\ SkipRdt(blk) >= blk
    BY EraseAssumption DEF SkipRdt, InRdtArea

------------------------------------------------------------------------------
(* The remap collector keeps its type                                      *)

LEMMA CreatType ==
    ASSUME NEW c \in Collector
    PROVE  LlfCreatReMappingTable(c) \in Collector
<1> DEFINE tab == [p \in PlaneSet |->
                    IF Len(c.tab[p]) < TableLen /\ c.temp[p] # None
                    THEN Append(c.tab[p], c.temp[p]) ELSE c.tab[p]]
           temp == [p \in PlaneSet |-> None]
<1>1. tab \in [PlaneSet -> Seq(Nat)]
    BY DEF Collector
<1>2. temp \in [PlaneSet -> Nat]
    BY DEF None
<1>3. LlfCreatReMappingTable(c) = [mp |-> c.mp, temp |-> temp, tab |-> tab]
    BY DEF LlfCreatReMappingTable, Collector
<1> QED
    BY <1>1, <1>2, <1>3 DEF Collector

LEMMA CollectBadType ==
    ASSUME NEW c \in Collector, NEW blk \in Nat
    PROVE  CollectBad(c, blk) \in Collector
<1> DEFINE flushed == IF c.mp # None THEN LlfCreatReMappingTable(c) ELSE c
           g == Group(blk)
<1>1. g \in Nat
    BY GeometryAssumption, DivMod DEF Group
<1>2. \A p \in PlaneSet : g * Planes + p \in Nat
    BY <1>1, GeometryAssumption DEF PlaneSet
<1>3. flushed \in Collector
    BY CreatType
<1>4. SameGroup(c, blk) \in Collector
  <2> DEFINE temp == [p \in PlaneSet |->
                        CASE p = PlaneOf(blk) -> None
                          [] p > PlaneOf(blk) -> g * Planes + p
                          [] OTHER            -> c.temp[p]]
  <2>1. temp \in [PlaneSet -> Nat]
    <3>1. ASSUME NEW p \in PlaneSet PROVE temp[p] \in Nat
        BY <1>2 DEF Collector, None
    <3> QED BY <3>1
  <2>2. SameGroup(c, blk) = [mp |-> c.mp, temp |-> temp, tab |-> c.tab]
      BY DEF SameGroup, Collector
  <2> QED
      BY <2>1, <2>2 DEF Collector
<1>5. NewGroup(c, blk) \in Collector
  <2> DEFINE temp == [p \in PlaneSet |->
                        IF p = PlaneOf(blk) THEN None ELSE g * Planes + p]
  <2>1. temp \in [PlaneSet -> Nat]
      BY <1>2 DEF None
  <2>2. NewGroup(c, blk) = [mp |-> g, temp |-> temp, tab |-> flushed.tab]
      BY <1>3 DEF NewGroup, Collector
  <2> HIDE DEF temp, flushed, g
  <2> QED
      BY <1>1, <1>3, <2>1, <2>2 DEF Collector
<1> QED
    BY <1>4, <1>5 DEF CollectBad

LEMMA CollectedType ==
    ASSUME NEW c \in Collector, NEW blk \in Nat, NEW failed \in BOOLEAN
    PROVE  Collected(c, blk, failed) \in Collector
    BY CollectBadType, CreatType DEF Collected

------------------------------------------------------------------------------
(* Counting the erases the controller holds                                *)

Of(b, S) == {cmd \in S : cmd.bank = b}

LEMMA CountPut ==
    ASSUME NEW S, IsFiniteSet(S), NEW x, x \notin S
    PROVE  /\ IsFiniteSet(S \cup {x})
           /\ Cardinality(S \cup {x}) = Cardinality(S) + 1
           /\ \A b : Cardinality(Of(b, S \cup {x})) =
                        Cardinality(Of(b, S)) + IF x.bank = b THEN 1 ELSE 0
<1>1. ASSUME NEW b
      PROVE  Cardinality(Of(b, S \cup {x})) =
                Cardinality(Of(b, S)) + IF x.bank = b THEN 1 ELSE 0
  <2>1. IsFiniteSet(Of(b, S)) /\ Cardinality(Of(b, S)) \in Nat
      BY FS_Subset, FS_CardinalityType DEF Of
  <2>2. CASE x.bank = b
    <3>1. Of(b, S \cup {x}) = Of(b, S) \cup {x} /\ x \notin Of(b, S)
        BY <2>2 DEF Of
    <3> QED BY <2>1, <2>2, <3>1, FS_AddElement
  <2>3. CASE x.bank # b
    <3>1. Of(b, S \cup {x}) = Of(b, S)
        BY <2>3 DEF Of
    <3> QED BY <2>1, <2>3, <3>1
  <2> QED BY <2>2, <2>3
<1> QED BY <1>1, FS_AddElement

LEMMA CountTake ==
    ASSUME NEW S, IsFiniteSet(S), NEW x \in S
    PROVE  /\ IsFiniteSet(S \ {x})
           /\ Cardinality(S) \in Nat \ {0}
           /\ Cardinality(S \ {x}) = Cardinality(S) - 1
           /\ Cardinality(Of(x.bank, S)) \in Nat \ {0}
           /\ \A b : Cardinality(Of(b, S \ {x})) =
                        Cardinality(Of(b, S)) - IF x.bank = b THEN 1 ELSE 0
<1>1. ASSUME NEW b
      PROVE  /\ Cardinality(Of(b, S \ {x})) =
                   Cardinality(Of(b, S)) - IF x.bank = b THEN 1 ELSE 0
             /\ x.bank = b => Cardinality(Of(b, S)) \in Nat \ {0}
  <2>1. IsFiniteSet(Of(b, S)) /\ Cardinality(Of(b, S)) \in Nat
      BY FS_Subset, FS_CardinalityType DEF Of
  <2>2. CASE x.bank = b
    <3>1. Of(b, S \ {x}) = Of(b, S) \ {x} /\ x \in Of(b, S)
        BY <2>2 DEF Of
    <3> QED BY <2>1, <2>2, <3>1, FS_RemoveElement, FS_EmptySet
  <2>3. CASE x.bank # b
    <3>1. Of(b, S \ {x}) = Of(b, S)
        BY <2>3 DEF Of
    <3> QED BY <2>1, <2>3, <3>1
  <2> QED BY <2>2, <2>3
<1>2. Cardinality(S) \in Nat \ {0}
    BY FS_CardinalityType, FS_EmptySet
<1> QED BY <1>1, <1>2, FS_RemoveElement

------------------------------------------------------------------------------
(* Types, shape and counters                                               *)

\* A first erase is of a block the bank has passed, or of the one it is at.
FirstTriesPassed ==
    \A cmd \in hw : ~cmd.second =>
        \/ cmd.blk < uwBlock[cmd.bank]
        \/ bank_no < BankNum /\ pc # "issue" /\ cmd.bank = bank_no
              /\ cmd.blk = uwBlock[cmd.bank]

Shape ==
    /\ IsFiniteSet(hw)
    /\ FirstTriesPassed
    /\ resState = "ERASE" => hw = {} /\ pc = "call"
    /\ pc \in {"call", "loop", "paused", "timeout", "done"} /\ resState # "ERASE"
            => bank_no = BankNum
    /\ pc \in {"issue", "issued"} => bank_no \in Bank
    /\ pc = "again" =>
            hw = {[bank |-> again.bank, blk |-> again.blk, second |-> TRUE]}

Core == TypeOK /\ Shape /\ OutstandingExact

\* What Record does to the tables and counters, for a bank that has an erase
\* outstanding.
LEMMA RecordType ==
    ASSUME TypeOK, NEW bank \in Bank, NEW blk \in Nat, NEW failed \in BOOLEAN,
           Record(bank, blk, failed),
           gufLastEraseFlag # 0, gubEraseCmpNum[bank] # 0
    PROVE  /\ gufLastEraseFlag' \in Nat
           /\ gubEraseCmpNum' \in [Bank -> Nat]
           /\ dbt' \in [Bank -> SUBSET Nat] /\ sysDbt' \in [Bank -> SUBSET Nat]
           /\ remap' \in [Bank -> Collector]
<1> USE DEF TypeOK, Record
<1>1. gufLastEraseFlag' \in Nat /\ gubEraseCmpNum' \in [Bank -> Nat]
    OBVIOUS
<1>2. dbt' \in [Bank -> SUBSET Nat]
  <2>1. Group(blk) \in Nat
      BY GeometryAssumption, DivMod DEF Group
  <2> QED BY <2>1 DEF llfSetDBT, llfMarkUserMPBlkDefect
<1>3. sysDbt' \in [Bank -> SUBSET Nat]
    BY DEF llfMarkSystemBlkDefect
<1>4. remap' \in [Bank -> Collector]
  <2>1. Collected(remap[bank], blk, failed) \in Collector
      BY CollectedType
  <2> QED BY <2>1
<1> QED BY <1>1, <1>2, <1>3, <1>4

LEMMA DecodeType ==
    ASSUME TypeOK, NEW cmd \in hw
    PROVE  Decode(cmd) \in Nat
<1>1. cmd.blk \in Nat
    BY DEF TypeOK, Command
<1>2. TagRange \in Nat \ {0}
    BY EraseAssumption
<1>5. cmd.blk % TagRange \in Nat
    BY <1>1, <1>2, DivMod
<1> DEFINE r == IF gubEraseNum = 0 THEN 0 ELSE gubEraseNum - 1
<1>3. r \in Nat
    BY DEF TypeOK
<1>4. r * TagRange \in Nat
    BY <1>2, <1>3
<1> QED BY <1>4, <1>5 DEF Decode

LEMMA InitCore == Init => Core
<1> SUFFICES ASSUME Init PROVE Core
    OBVIOUS
<1>1. LlfInitReMapTable \in Collector
    BY DEF LlfInitReMapTable, Collector, None
<1>2. job \in Job
    BY EraseAssumption DEF Init
<1>3. TypeOK
  <2>1. dbt \in [Bank -> SUBSET Nat] /\ sysDbt \in [Bank -> SUBSET Nat]
      BY <1>2 DEF Init, Job
  <2>2. remap \in [Bank -> Collector]
      BY <1>1 DEF Init
  <2>3. 0 \in Bank /\ 0 \in 0 .. BankNum
      BY EraseAssumption DEF Bank
  <2>4. again \in [bank : Bank, blk : Nat]
      BY <2>3 DEF Init
  <2> QED BY <2>1, <2>2, <2>3, <2>4 DEF Init, TypeOK, Ends
<1>4. Shape
    BY FS_EmptySet DEF Init, Shape, FirstTriesPassed
<1>5. OutstandingExact
  <2>1. \A b \in Bank : {cmd \in hw : cmd.bank = b} = {}
      BY DEF Init
  <2> QED BY <2>1, FS_EmptySet DEF Init, OutstandingExact
<1> QED BY <1>3, <1>4, <1>5 DEF Core

\* The steps that leave the outstanding erases and their counters alone.
LEMMA QuietSteps ==
    ASSUME Core,
           \/ NextPass \/ FinishErase \/ AfterIssue \/ SkipDefect \/ BankAtEnd
           \/ CheckTimeout \/ CheckDone \/ LoopAgain \/ Pause \/ Resume
    PROVE  Core'
<1> USE DEF Core
<1>0. BankNum \in Nat \ {0} /\ (\A b \in Bank : b + 1 \in 0 .. BankNum)
    BY EraseAssumption DEF Bank
<1>1. hw' = hw /\ gufLastEraseFlag' = gufLastEraseFlag
      /\ gubEraseCmpNum' = gubEraseCmpNum /\ pc # "assert" /\ pc' # "assert"
    BY <1>0 DEF NextPass, FinishErase, AfterIssue, SkipDefect, BankAtEnd, CheckTimeout,
              CheckDone, LoopAgain, Pause, Resume, NextBank, Return, soft
<1>2. OutstandingExact'
    BY <1>1 DEF OutstandingExact
<1>3. CASE NextPass
  <2>1. TypeOK'
      BY <1>0, <1>3 DEF NextPass, TypeOK, tables, Ends
  <2>2. FirstTriesPassed'
      BY <1>0, <1>3 DEF NextPass, TypeOK, Shape, FirstTriesPassed
  <2>3. Shape'
      BY <1>0, <1>3, <2>2 DEF NextPass, TypeOK, Shape, Bank
  <2> QED BY <1>2, <2>1, <2>3
<1>4. CASE FinishErase
    BY <1>0, <1>2, <1>4 DEF FinishErase, TypeOK, Shape, FirstTriesPassed, Bank, Ends, tables
<1>5. CASE AfterIssue
  <2>1. sysDbt' \in [Bank -> SUBSET Nat]
      BY <1>5 DEF AfterIssue, TypeOK, llfUnMarkSystemBlkDefect
  <2>2. bank_no \in Bank
      BY <1>5 DEF AfterIssue, Shape
  <2>3. TypeOK'
      BY <1>0, <1>5, <2>1, <2>2 DEF AfterIssue, NextBank, TypeOK, Ends
  <2>4. FirstTriesPassed'
      BY <1>5, <2>2 DEF AfterIssue, NextBank, TypeOK, Shape, FirstTriesPassed, Command, Bank
  <2>5. Shape'
      BY <1>0, <1>5, <2>2, <2>4 DEF AfterIssue, NextBank, TypeOK, Shape, Bank
  <2> QED BY <1>2, <2>3, <2>5
<1>6. CASE SkipDefect
  <2>1. bank_no \in Bank
      BY <1>6 DEF SkipDefect, Shape
  <2>2. uwBlock[bank_no] \in Nat
      BY <2>1 DEF TypeOK
  <2> DEFINE blk == SkipRdt(uwBlock[bank_no])
  <2>3. blk \in Nat /\ blk >= uwBlock[bank_no]
      BY <2>2, SkipRdtType
  <2>4. RangeOf(blk) \in 1 .. 6
    <3>1. blk < 6 * TagRange
        BY <1>6, <2>3, BlockEndType, EraseAssumption DEF SkipDefect
    <3> QED BY <2>3, <3>1, RangeOfType
  <2> HIDE DEF blk
  <2>5. uwBlock' = [uwBlock EXCEPT ![bank_no] = blk + 1] /\ gubEraseNum' = RangeOf(blk)
      BY <1>6 DEF SkipDefect, blk
  <2>6. TypeOK'
      BY <1>0, <1>6, <2>1, <2>3, <2>4, <2>5 DEF SkipDefect, NextBank, TypeOK, tables, Ends
  <2>7. FirstTriesPassed'
      BY <1>6, <2>1, <2>3, <2>5
         DEF SkipDefect, NextBank, TypeOK, Shape, FirstTriesPassed, Command, Bank
  <2>8. Shape'
      BY <1>0, <1>6, <2>1, <2>7 DEF SkipDefect, NextBank, TypeOK, Shape, Bank
  <2> QED BY <1>2, <2>6, <2>8
<1>7. CASE BankAtEnd
  <2>1. bank_no \in Bank
      BY <1>7 DEF BankAtEnd, Shape
  <2>2. uwBlock[bank_no] \in Nat
      BY <2>1 DEF TypeOK
  <2> DEFINE blk == SkipRdt(uwBlock[bank_no])
  <2>3. blk \in Nat /\ blk >= uwBlock[bank_no]
      BY <2>2, SkipRdtType
  <2> HIDE DEF blk
  <2>5. uwBlock' = [uwBlock EXCEPT ![bank_no] = IF blk = BlockEnd THEN blk + 1 ELSE blk]
      BY <1>7 DEF BankAtEnd, blk
  <2>6. TypeOK'
    <3>1. uwEraseLastBlock' \in Nat
        BY <1>7 DEF BankAtEnd, TypeOK
    <3> QED BY <1>0, <1>7, <2>1, <2>3, <2>5, <3>1 DEF BankAtEnd, NextBank, TypeOK, tables, Ends
  <2>7. FirstTriesPassed'
      BY <1>7, <2>1, <2>3, <2>5
         DEF BankAtEnd, NextBank, TypeOK, Shape, FirstTriesPassed, Command, Bank
  <2>8. Shape'
      BY <1>0, <1>7, <2>1, <2>7 DEF BankAtEnd, NextBank, TypeOK, Shape, Bank
  <2> QED BY <1>2, <2>6, <2>8
<1>8. CASE CheckTimeout
  <2>1. \/ bank_no < BankNum /\ pc' = "issued" /\ resState' = resState
        \/ bank_no = BankNum /\ pc' = "timeout" /\ resState' = "IDLE"
        \/ bank_no = BankNum /\ pc' = "loop" /\ resState' = resState
      BY <1>0, <1>8 DEF CheckTimeout, Return, TypeOK
  <2>2. TypeOK'
      BY <1>8, <2>1 DEF CheckTimeout, TypeOK, tables, Ends
  <2>3. FirstTriesPassed'
      BY <1>8, <2>1 DEF CheckTimeout, TypeOK, Shape, FirstTriesPassed
  <2>4. Shape'
      BY <1>0, <1>8, <2>1, <2>3 DEF CheckTimeout, TypeOK, Shape, Bank
  <2> QED BY <1>2, <2>2, <2>4
<1>9. CASE CheckDone
  <2>1. \/ bank_no < BankNum /\ pc' = "issued" /\ resState' = resState
        \/ bank_no = BankNum /\ pc' = "timeout" /\ resState' = "IDLE"
        \/ bank_no = BankNum /\ pc' = "loop" /\ resState' = resState
      BY <1>0, <1>9 DEF CheckDone, Return, TypeOK
  <2>2. TypeOK'
      BY <1>9, <2>1 DEF CheckDone, TypeOK, tables, Ends
  <2>3. FirstTriesPassed'
      BY <1>9, <2>1 DEF CheckDone, TypeOK, Shape, FirstTriesPassed
  <2>4. Shape'
      BY <1>0, <1>9, <2>1, <2>3 DEF CheckDone, TypeOK, Shape, Bank
  <2> QED BY <1>2, <2>2, <2>4
<1>10. CASE LoopAgain \/ Pause \/ Resume
  <2>1. TypeOK'
      BY <1>10 DEF LoopAgain, Pause, Resume, TypeOK, tables, soft, Ends
  <2>2. FirstTriesPassed'
      BY <1>10 DEF LoopAgain, Pause, Resume, TypeOK, Shape, FirstTriesPassed, soft
  <2>3. Shape'
      BY <1>10, <2>2 DEF LoopAgain, Pause, Resume, TypeOK, Shape, soft
  <2> QED BY <1>2, <2>1, <2>3
<1> QED
    BY <1>3, <1>4, <1>5, <1>6, <1>7, <1>8, <1>9, <1>10

\* The first pass starts with nothing outstanding, whatever the counters held.
LEMMA StartSteps ==
    ASSUME Core, StartErase \/ RefuseErase
    PROVE  Core'
<1> USE DEF Core
<1>1. hw = {} /\ hw' = {} /\ 0 \in Bank /\ 0 \in 0 .. BankNum
    BY EraseAssumption DEF StartErase, RefuseErase, Shape, Bank
<1>2. TypeOK'
    BY <1>1 DEF StartErase, RefuseErase, TypeOK, tables, Ends
<1>3. Shape'
    BY <1>1, FS_EmptySet DEF StartErase, RefuseErase, Shape, FirstTriesPassed
<1>4. OutstandingExact'
  <2>1. gufLastEraseFlag' = 0 /\ \A b \in Bank : gubEraseCmpNum'[b] = 0
      BY DEF StartErase, RefuseErase
  <2>2. \A b \in Bank : {cmd \in hw' : cmd.bank = b} = {}
      BY <1>1
  <2> QED BY <1>1, <2>1, <2>2, FS_EmptySet DEF OutstandingExact
<1> QED BY <1>2, <1>3, <1>4

LEMMA IssueStep ==
    ASSUME Core, IssueErase
    PROVE  Core'
<1> USE DEF Core
<1> DEFINE blk == SkipRdt(uwBlock[bank_no])
           cmd == [bank |-> bank_no, blk |-> blk, second |-> FALSE]
<1>1. bank_no \in Bank
    BY DEF IssueErase, TurnAfterIssue, Shape
<1>2. uwBlock[bank_no] \in Nat
    BY <1>1 DEF TypeOK
<1>3. blk \in Nat /\ blk >= uwBlock[bank_no]
    BY <1>2, SkipRdtType
<1>4. RangeOf(blk) \in 1 .. 6
  <2>1. blk < 6 * TagRange
      BY <1>3, BlockEndType, EraseAssumption DEF IssueErase, TurnAfterIssue
  <2> QED BY <1>3, <2>1, RangeOfType
<1>5. cmd \notin hw
    BY <1>1, <1>3 DEF IssueErase, TurnAfterIssue, Shape, FirstTriesPassed, TypeOK
<1>6. /\ uwBlock' = [uwBlock EXCEPT ![bank_no] = blk]
      /\ gubEraseNum' = RangeOf(blk) /\ hw' = hw \cup {cmd}
      /\ issued' = issued \cup {<<bank_no, blk>>}
    BY DEF IssueErase, TurnAfterIssue
<1>7. cmd.bank = bank_no /\ cmd.blk = blk /\ cmd \in Command
    BY <1>1, <1>3 DEF Command
<1> HIDE DEF cmd, blk
<1>8. TypeOK'
  <2>1. gubEraseCmpNum' \in [Bank -> Nat] /\ gufLastEraseFlag' \in Nat
      BY <1>1 DEF IssueErase, TurnAfterIssue, TypeOK
  <2> QED BY <1>1, <1>3, <1>4, <1>6, <1>7, <2>1 DEF IssueErase, TurnAfterIssue, TypeOK, tables, Ends
<1>9. IsFiniteSet(hw')
    BY <1>5, <1>6, CountPut DEF Shape
<1>10. FirstTriesPassed'
  <2>3. pc' # "issue" /\ bank_no' = bank_no
      BY DEF IssueErase, TurnAfterIssue
  <2>4. ASSUME NEW c \in hw', ~c.second
        PROVE  \/ c.blk < uwBlock'[c.bank]
               \/ bank_no < BankNum /\ c.bank = bank_no /\ c.blk = uwBlock'[c.bank]
    <3>1. CASE c = cmd
        BY <1>1, <1>6, <1>7, <3>1, EraseAssumption DEF TypeOK, Bank
    <3>2. CASE c \in hw
      <4>1. c.bank \in Bank /\ c.blk \in Nat /\ c.blk < uwBlock[c.bank]
          BY <2>4, <3>2 DEF IssueErase, TurnAfterIssue, TypeOK, Command, Shape, FirstTriesPassed
      <4> QED BY <1>1, <1>2, <1>3, <1>6, <4>1 DEF TypeOK
    <3> QED BY <1>6, <2>4, <3>1, <3>2
  <2> QED BY <2>3, <2>4 DEF FirstTriesPassed
<1>11. Shape'
    BY <1>1, <1>9, <1>10 DEF IssueErase, TurnAfterIssue, Shape
<1>12. OutstandingExact'
  <2>1. /\ Cardinality(hw') = Cardinality(hw) + 1
        /\ \A b : Cardinality(Of(b, hw')) = Cardinality(Of(b, hw)) + IF bank_no = b THEN 1 ELSE 0
      BY <1>5, <1>6, <1>7, CountPut DEF Shape
  <2>2. /\ gufLastEraseFlag' = gufLastEraseFlag + 1
        /\ gubEraseCmpNum' = [gubEraseCmpNum EXCEPT ![bank_no] = @ + 1]
        /\ pc = "issue"
      BY DEF IssueErase, TurnAfterIssue
  <2>3. /\ gufLastEraseFlag = Cardinality(hw)
        /\ \A b \in Bank : gubEraseCmpNum[b] = Cardinality(Of(b, hw))
      BY <2>2 DEF OutstandingExact, Of
  <2>4. ASSUME NEW b \in Bank
        PROVE  gubEraseCmpNum'[b] = Cardinality(Of(b, hw'))
    <3>1. Cardinality(Of(b, hw')) = Cardinality(Of(b, hw)) + IF bank_no = b THEN 1 ELSE 0
        BY <2>1
    <3>2. gubEraseCmpNum'[b] = gubEraseCmpNum[b] + IF bank_no = b THEN 1 ELSE 0
        BY <1>1, <2>2 DEF TypeOK
    <3> QED BY <2>3, <3>1, <3>2
  <2> QED BY <2>1, <2>2, <2>3, <2>4 DEF OutstandingExact, Of
<1> QED BY <1>8, <1>11, <1>12

\* A polled completion is one of an outstanding erase of its bank: the counters
\* it decrements are not zero.
LEMMA PollStep ==
    ASSUME Core, NEW cmd \in hw, NEW failed \in BOOLEAN,
           PollCompletion(cmd, failed) \/ PollAgain(cmd, failed)
    PROVE  Core'
<1> USE DEF Core
<1> DEFINE bank == cmd.bank
           blk == IF pc = "again" THEN again.blk ELSE Decode(cmd)
<1>1. pc \in {"check", "again"} /\ pc' = "check" /\ hw' = hw \ {cmd}
    BY DEF PollCompletion, PollAgain
<1>2. bank \in Bank /\ cmd.blk \in Nat
    BY DEF TypeOK, Command
<1>3. Record(bank, blk, failed)
  <2>1. pc = "again" => again.bank = cmd.bank
      BY DEF Shape
  <2> QED BY <2>1 DEF PollCompletion, PollAgain
<1>4. blk \in Nat
    BY DecodeType DEF TypeOK
<1>5. /\ IsFiniteSet(hw')
      /\ Cardinality(hw) \in Nat \ {0} /\ Cardinality(hw') = Cardinality(hw) - 1
      /\ Cardinality(Of(bank, hw)) \in Nat \ {0}
      /\ \A b : Cardinality(Of(b, hw')) = Cardinality(Of(b, hw)) - IF bank = b THEN 1 ELSE 0
    BY <1>1, CountTake DEF Shape
<1>6. /\ gufLastEraseFlag = Cardinality(hw)
      /\ \A b \in Bank : gubEraseCmpNum[b] = Cardinality(Of(b, hw))
    BY <1>1 DEF OutstandingExact, Of
<1>7. gufLastEraseFlag # 0 /\ gubEraseCmpNum[bank] # 0
    BY <1>2, <1>5, <1>6
<1>8. /\ gufLastEraseFlag' = gufLastEraseFlag - 1
      /\ gubEraseCmpNum' = [gubEraseCmpNum EXCEPT ![bank] = @ - 1]
    BY <1>3 DEF Record
<1>9. UNCHANGED <<job, resState, uwBlock, uwEraseLastBlock, gubEraseNum, gubErasetimeout,
                  bank_no, again, issued>>
    BY DEF PollCompletion, PollAgain
<1>10. bad' \subseteq Bank \X Nat
    BY <1>2 DEF PollCompletion, PollAgain, Fails, TypeOK
<1>11. /\ gufLastEraseFlag' \in Nat
       /\ gubEraseCmpNum' \in [Bank -> Nat]
       /\ dbt' \in [Bank -> SUBSET Nat] /\ sysDbt' \in [Bank -> SUBSET Nat]
       /\ remap' \in [Bank -> Collector]
    BY <1>2, <1>3, <1>4, <1>7, RecordType
<1> HIDE DEF bank, blk
<1>12. TypeOK'
    BY <1>1, <1>9, <1>10, <1>11 DEF TypeOK, Ends
<1>13. FirstTriesPassed'
    BY <1>1, <1>9 DEF Shape, FirstTriesPassed
<1>14. Shape'
    BY <1>1, <1>5, <1>9, <1>13 DEF Shape
<1>15. OutstandingExact'
  <2>1. ASSUME NEW b \in Bank
        PROVE  gubEraseCmpNum'[b] = Cardinality(Of(b, hw'))
    <3>1. Cardinality(Of(b, hw')) = Cardinality(Of(b, hw)) - IF bank = b THEN 1 ELSE 0
        BY <1>5
    <3>2. gubEraseCmpNum'[b] = gubEraseCmpNum[b] - IF bank = b THEN 1 ELSE 0
        BY <1>2, <1>8 DEF TypeOK
    <3> QED BY <1>6, <3>1, <3>2
  <2> QED BY <1>5, <1>6, <1>8, <2>1 DEF OutstandingExact, Of
<1> QED BY <1>12, <1>14, <1>15

\* The second try takes the place of the only outstanding erase.
LEMMA AgainStep ==
    ASSUME Core, NEW cmd \in hw, EraseAgain(cmd)
    PROVE  Core'
<1> USE DEF Core
<1> DEFINE blk == Decode(cmd)
           new == [bank |-> cmd.bank, blk |-> blk, second |-> TRUE]
<1>1. cmd.bank \in Bank /\ cmd.blk \in Nat /\ blk \in Nat
    BY DecodeType DEF TypeOK, Command
<1>2. hw = {cmd}
  <2>1. Cardinality(hw) = 1 /\ IsFiniteSet(hw)
      BY DEF EraseAgain, OutstandingExact, Shape
  <2> QED BY <2>1, FS_Singleton
<1>3. hw' = {new} /\ again' = [bank |-> cmd.bank, blk |-> blk] /\ pc' = "again" /\ pc = "check"
    BY <1>2 DEF EraseAgain
<1>4. UNCHANGED <<job, soft, tables, bank_no>>
    BY DEF EraseAgain
<1>5. issued' \subseteq Bank \X Nat /\ bad' \subseteq Bank \X Nat
    BY <1>1 DEF EraseAgain, Fails, TypeOK
<1>6. new \in Command /\ new.bank = cmd.bank
    BY <1>1 DEF Command
<1>7. TypeOK'
    BY <1>1, <1>3, <1>4, <1>5, <1>6 DEF TypeOK, soft, tables, Ends
<1>8. Shape'
  <2>1. IsFiniteSet(hw')
      BY <1>3, FS_Singleton
  <2>2. FirstTriesPassed'
      BY <1>3 DEF FirstTriesPassed
  <2>3. resState # "ERASE" /\ resState' = resState
      BY <1>2, <1>3, <1>4 DEF Shape, soft
  <2>4. hw' = {[bank |-> again'.bank, blk |-> again'.blk, second |-> TRUE]}
      BY <1>3
  <2> QED BY <1>3, <2>1, <2>2, <2>3, <2>4 DEF Shape
<1>9. OutstandingExact'
  <2>1. Cardinality(hw') = Cardinality(hw)
      BY <1>2, <1>3, FS_Singleton
  <2>2. ASSUME NEW b \in Bank
        PROVE  Cardinality(Of(b, hw')) = Cardinality(Of(b, hw))
    <3>1. CASE b = cmd.bank
      <4>1. Of(b, hw) = {cmd} /\ Of(b, hw') = {new}
          BY <1>2, <1>3, <1>6, <3>1 DEF Of
      <4> QED BY <4>1, FS_Singleton
    <3>2. CASE b # cmd.bank
      <4>1. Of(b, hw) = {} /\ Of(b, hw') = {}
          BY <1>2, <1>3, <1>6, <3>2 DEF Of
      <4> QED BY <4>1
    <3> QED BY <3>1, <3>2
  <2> QED BY <1>3, <1>4, <2>1, <2>2 DEF OutstandingExact, Of, soft
<1> QED BY <1>7, <1>8, <1>9

LEMMA AssertStep ==
    ASSUME Core, NEW cmd \in hw, EraseAgainAssert(cmd)
    PROVE  Core'
<1> USE DEF Core
<1>1. bad' \subseteq Bank \X Nat
    BY DEF EraseAgainAssert, Fails, TypeOK, Command
<1>2. TypeOK'
    BY <1>1 DEF EraseAgainAssert, TypeOK, soft, tables, Ends
<1>3. IsFiniteSet(hw')
    BY CountTake DEF EraseAgainAssert, Shape
<1>4. Shape'
    BY <1>3 DEF EraseAgainAssert, Shape, FirstTriesPassed, soft, tables
<1> QED BY <1>2, <1>4 DEF EraseAgainAssert, OutstandingExact

THEOREM CoreInvariant == Spec => []Core
<1>1. ASSUME Core, [Next]_vars PROVE Core'
  <2>1. CASE StartErase \/ RefuseErase
      BY <1>1, <2>1, StartSteps
  <2>2. CASE NextPass \/ FinishErase \/ AfterIssue \/ SkipDefect \/ BankAtEnd
             \/ CheckTimeout \/ CheckDone \/ LoopAgain \/ Pause \/ Resume
      BY <1>1, <2>2, QuietSteps
  <2>3. CASE IssueErase
      BY <1>1, <2>3, IssueStep
  <2>4. CASE \E cmd \in hw, failed \in BOOLEAN :
                PollCompletion(cmd, failed) \/ PollAgain(cmd, failed)
      BY <1>1, <2>4, PollStep
  <2>5. CASE \E cmd \in hw : EraseAgain(cmd) \/ EraseAgainAssert(cmd)
      BY <1>1, <2>5, AgainStep, AssertStep
  <2>6. CASE UNCHANGED vars
      BY <1>1, <2>6 DEF Core, TypeOK, Shape, FirstTriesPassed, OutstandingExact, vars, soft, tables
  <2> QED BY <1>1, <2>1, <2>2, <2>3, <2>4, <2>5, <2>6 DEF Next
<1> QED BY <1>1, InitCore, PTL DEF Spec

\* Types: every variable keeps its type; the unsigned counters never wrap.
THEOREM TypeCorrect == Spec => []TypeOK
<1>1. Core => TypeOK
    BY DEF Core
<1> QED BY <1>1, CoreInvariant, PTL

\* The counters of llfBECheckStatus count the erases the controller holds,
\* whatever times out, comes late or is done again.
THEOREM CountersExact == Spec => []OutstandingExact
<1>1. Core => OutstandingExact
    BY DEF Core
<1> QED BY <1>1, CoreInvariant, PTL

\* The banks that ERR_FIO_TIMEOUT is reported of (gubEraseCmpNum[] not 0) are the
\* ones that have an erase without a completion.
THEOREM TimeoutBlame == Spec => []TimeoutBlamesSilentBanks
<1>1. ASSUME Core PROVE TimeoutBlamesSilentBanks
  <2>1. SUFFICES ASSUME pc = "timeout"
                 PROVE  {b \in Bank : gubEraseCmpNum[b] # 0} = {cmd.bank : cmd \in hw}
      BY DEF TimeoutBlamesSilentBanks
  <2>2. \A cmd \in hw : cmd.bank \in Bank
      BY <1>1 DEF Core, TypeOK, Command
  <2>3. ASSUME NEW b \in Bank
        PROVE  gubEraseCmpNum[b] # 0 <=> \E cmd \in hw : cmd.bank = b
    <3>1. IsFiniteSet(Of(b, hw))
        BY <1>1, FS_Subset DEF Core, Shape, Of
    <3>2. gubEraseCmpNum[b] = Cardinality(Of(b, hw))
        BY <1>1, <2>1 DEF Core, OutstandingExact, Of
    <3>3. gubEraseCmpNum[b] # 0 <=> Of(b, hw) # {}
        BY <3>1, <3>2, FS_EmptySet
    <3> QED BY <3>3 DEF Of
  <2> QED BY <2>2, <2>3
<1> QED BY <1>1, CoreInvariant, PTL

\* The erase is reported done only when no erase is outstanding or lost.
THEOREM DoneAnswered == Spec => []DoneMeansAnswered
<1>1. Init => DoneMeansAnswered
    BY DEF Init, DoneMeansAnswered
<1>2. ASSUME Core, DoneMeansAnswered, [Next]_vars PROVE DoneMeansAnswered'
  <2>1. CASE FinishErase
    <3>1. gufLastEraseFlag = 0 /\ pc = "call" /\ hw' = hw
        BY <2>1 DEF FinishErase, AllErased
    <3>2. hw = {}
        BY <1>2, <3>1, FS_EmptySet DEF Core, OutstandingExact, Shape
    <3> QED BY <3>1, <3>2 DEF DoneMeansAnswered
  <2>2. CASE UNCHANGED vars
      BY <1>2, <2>2 DEF vars, DoneMeansAnswered
  <2>3. CASE Next /\ ~FinishErase
    <3>1. pc' # "done"
      <4>1. CASE StartErase \/ RefuseErase \/ NextPass \/ IssueErase \/ AfterIssue
                 \/ SkipDefect \/ BankAtEnd \/ LoopAgain \/ Pause \/ Resume
          BY <4>1 DEF StartErase, RefuseErase, NextPass, IssueErase, TurnAfterIssue, AfterIssue,
                      SkipDefect, BankAtEnd, NextBank, LoopAgain, Pause, Resume
      <4>2. CASE CheckTimeout \/ CheckDone
          BY <4>2 DEF CheckTimeout, CheckDone, Return
      <4>3. CASE \E cmd \in hw, failed \in BOOLEAN :
                    PollCompletion(cmd, failed) \/ PollAgain(cmd, failed)
          BY <4>3 DEF PollCompletion, PollAgain
      <4>4. CASE \E cmd \in hw : EraseAgain(cmd) \/ EraseAgainAssert(cmd)
          BY <4>4 DEF EraseAgain, EraseAgainAssert
      <4> QED BY <2>3, <4>1, <4>2, <4>3, <4>4 DEF Next
    <3> QED BY <3>1 DEF DoneMeansAnswered
  <2> QED BY <1>2, <2>1, <2>2, <2>3
<1> QED BY <1>1, <1>2, CoreInvariant, PTL DEF Spec

------------------------------------------------------------------------------
(* The lock step of the banks                                              *)
(*                                                                         *)
(* A completion has the block number modulo TagRange, and gubEraseNum is   *)
(* one variable for all banks.  It is enough because the banks go through  *)
(* the blocks in lock step: in a pass that starts at u every bank has the  *)
(* block SkipRdt(u) to itself, and no erase is left from the pass before.  *)

\* The block after the one of a pass that starts at u.
After(u) == IF SkipRdt(u) <= BlockEnd THEN SkipRdt(u) + 1 ELSE SkipRdt(u)

AtBlock == {"issued", "check", "again", "assert"}

Position(u, b) ==
    IF b < bank_no THEN After(u)
    ELSE IF b = bank_no /\ pc \in AtBlock THEN SkipRdt(u) ELSE u

LockAt(u) ==
    /\ pc # "refused" => \A b \in Bank : uwBlock[b] = Position(u, b)
    /\ bank_no < BankNum /\ pc \in AtBlock => SkipRdt(u) < BlockEnd
    /\ gubErasetimeout = 0 =>
           \A cmd \in hw : cmd.blk = SkipRdt(u) /\ gubEraseNum = RangeOf(SkipRdt(u))

BetweenPasses == {"call", "loop", "paused"}

\* No erase is left between two passes, unless one was waited for in vain.
Settled == gubErasetimeout = 0 /\ pc \in BetweenPasses => hw = {}

\* A format goes on only when none was.
FormatClean == job.caller = "format" /\ pc \in BetweenPasses => gubErasetimeout = 0

LockStep == Settled /\ FormatClean /\ \E u \in Nat : LockAt(u)

LEMMA SameJob ==
    ASSUME job' = job, NEW u
    PROVE  BlockEnd' = BlockEnd /\ SkipRdt(u)' = SkipRdt(u) /\ After(u)' = After(u)
    BY DEF BlockEnd, SkipRdt, KeepsRdt, InRdtArea, After

LEMMA AfterType ==
    ASSUME NEW u \in Nat
    PROVE  After(u) \in Nat
    BY SkipRdtType DEF After

\* A completion decodes to the block it was issued for when the range is its own.
LEMMA DecodeOwnRange ==
    ASSUME NEW cmd, cmd.blk \in Nat, gubEraseNum = RangeOf(cmd.blk)
    PROVE  Decode(cmd) = cmd.blk
<1>1. TagRange \in Nat \ {0}
    BY EraseAssumption
<1>2. /\ cmd.blk \div TagRange \in Nat
      /\ cmd.blk = (cmd.blk % TagRange) + (cmd.blk \div TagRange) * TagRange
    BY <1>1, DivMod
<1>3. gubEraseNum # 0 /\ gubEraseNum - 1 = cmd.blk \div TagRange
    BY <1>2 DEF RangeOf
<1> QED BY <1>2, <1>3 DEF Decode

LEMMA LockImpliesDecode == Core /\ LockStep => DecodeExact
<1> SUFFICES ASSUME Core, LockStep, gubErasetimeout = 0, NEW cmd \in hw
             PROVE  Decode(cmd) = cmd.blk
    BY DEF DecodeExact
<1>1. PICK u \in Nat : LockAt(u)
    BY DEF LockStep
<1>2. cmd.blk \in Nat /\ gubEraseNum = RangeOf(cmd.blk)
    BY <1>1 DEF Core, TypeOK, Command, LockAt
<1> QED BY <1>2, DecodeOwnRange

\* The passes begin: every bank is at the same block.
LEMMA LockPassBegins ==
    ASSUME Core, LockStep, StartErase \/ NextPass
    PROVE  LockStep'
<1>1. /\ job' = job /\ hw' = hw /\ gubEraseNum' = gubEraseNum
      /\ pc = "call" /\ pc' = "issue" /\ bank_no' = 0
      /\ gubErasetimeout' = gubErasetimeout
    BY DEF StartErase, NextPass, tables, LockStep, FormatClean, BetweenPasses
<1>2. gubErasetimeout = 0 => hw = {}
    BY <1>1 DEF LockStep, Settled, BetweenPasses
<1>3. PICK v \in Nat : \A b \in Bank : uwBlock'[b] = v
  <2>1. CASE StartErase
      BY <2>1 DEF StartErase
  <2>2. CASE NextPass
    <3>1. bank_no = BankNum /\ uwBlock' = uwBlock
        BY <2>2 DEF NextPass, Core, Shape
    <3>2. PICK u \in Nat : LockAt(u)
        BY DEF LockStep
    <3>3. \A b \in Bank : uwBlock[b] = After(u)
        BY <1>1, <3>1, <3>2, EraseAssumption DEF LockAt, Position, Bank
    <3> QED BY <3>1, <3>2, <3>3, AfterType
  <2> QED BY <2>1, <2>2
<1>4. LockAt(v)'
  <2>1. \A b \in Bank : Position(v, b)' = v
      BY <1>1, EraseAssumption DEF Position, AtBlock, Bank
  <2> QED BY <1>1, <1>2, <1>3, <2>1 DEF LockAt, AtBlock
<1> QED BY <1>1, <1>3, <1>4 DEF LockStep, Settled, FormatClean, BetweenPasses

\* A bank has its turn.
LEMMA LockTurn ==
    ASSUME Core, LockStep, IssueErase \/ AfterIssue \/ SkipDefect \/ BankAtEnd
    PROVE  LockStep'
<1>1. PICK u \in Nat : LockAt(u)
    BY DEF LockStep
<1> DEFINE m == SkipRdt(u)
<1>2. m \in Nat /\ BlockEnd \in Nat
    BY <1>1, SkipRdtType, BlockEndType
<1>3. job' = job /\ gubErasetimeout' = gubErasetimeout /\ bank_no \in Bank
    BY DEF IssueErase, TurnAfterIssue, AfterIssue, SkipDefect, BankAtEnd, Core, Shape
<1>4. pc' \notin BetweenPasses \cup {"again", "assert"}
    BY DEF IssueErase, TurnAfterIssue, AfterIssue, SkipDefect, BankAtEnd, NextBank, BetweenPasses
<1>5. SkipRdt(u)' = m /\ After(u)' = After(u) /\ BlockEnd' = BlockEnd
    BY <1>3, SameJob
<1>9. pc \in {"issue", "issued"}
    BY DEF IssueErase, TurnAfterIssue, AfterIssue, SkipDefect, BankAtEnd
<1>6. uwBlock \in [Bank -> Nat] /\ \A b \in Bank : uwBlock[b] = Position(u, b)
    BY <1>1, <1>9 DEF LockAt, Core, TypeOK
<1>7. /\ pc = "issue" => uwBlock[bank_no] = u
      /\ pc = "issued" => uwBlock[bank_no] = m /\ m < BlockEnd
  <2>1. pc = "issue" => Position(u, bank_no) = u
      BY <1>3, EraseAssumption DEF Position, AtBlock, Bank
  <2>2. pc = "issued" => Position(u, bank_no) = m
      BY <1>3, EraseAssumption DEF Position, AtBlock, Bank
  <2>3. pc = "issued" => m < BlockEnd
      BY <1>1, <1>3, EraseAssumption DEF LockAt, AtBlock, Bank
  <2> QED BY <1>3, <1>6, <2>1, <2>2, <2>3
<1>8. LockAt(u)'
  <2>1. CASE IssueErase
    <3>1. /\ uwBlock' = [uwBlock EXCEPT ![bank_no] = m]
          /\ gubEraseNum' = RangeOf(m)
          /\ hw' = hw \cup {[bank |-> bank_no, blk |-> m, second |-> FALSE]}
          /\ m < BlockEnd /\ bank_no' = bank_no /\ pc' \in AtBlock /\ pc = "issue"
        BY <1>7, <2>1 DEF IssueErase, TurnAfterIssue, AtBlock
    <3>2. \A b \in Bank : uwBlock'[b] = Position(u, b)'
      <4>1. TAKE b \in Bank
      <4>2. CASE b = bank_no
        <5>1. Position(u, b)' = m
            BY <1>3, <1>5, <3>1, <4>2, EraseAssumption DEF Position, Bank
        <5> QED BY <1>3, <1>6, <3>1, <4>2, <5>1
      <4>3. CASE b # bank_no
        <5>1. Position(u, b)' = Position(u, b)
            BY <1>5, <3>1, <4>3 DEF Position
        <5> QED BY <1>6, <3>1, <4>3, <5>1
      <4> QED BY <4>2, <4>3
    <3>3. gubErasetimeout' = 0 => \A cmd \in hw' : cmd.blk = m
        BY <1>1, <1>3, <3>1 DEF LockAt
    <3> QED BY <1>5, <3>1, <3>2, <3>3 DEF LockAt
  <2>2. CASE AfterIssue \/ SkipDefect \/ BankAtEnd
    <3>1. bank_no' = bank_no + 1 /\ hw' = hw
          /\ pc' = IF bank_no + 1 = BankNum THEN "check" ELSE "issue"
        BY <2>2 DEF AfterIssue, SkipDefect, BankAtEnd, NextBank
    <3>2. uwBlock' = [uwBlock EXCEPT ![bank_no] = After(u)]
      <4>1. CASE AfterIssue
        <5>1. uwBlock[bank_no] = m /\ m < BlockEnd
            BY <1>7, <4>1 DEF AfterIssue
        <5>2. uwBlock' = [uwBlock EXCEPT ![bank_no] = m + 1]
            BY <4>1, <5>1 DEF AfterIssue
        <5>3. After(u) = m + 1
            BY <1>2, <5>1 DEF After
        <5> QED BY <5>2, <5>3
      <4>2. CASE SkipDefect
        <5>1. m < BlockEnd /\ uwBlock' = [uwBlock EXCEPT ![bank_no] = m + 1]
            BY <1>7, <4>2 DEF SkipDefect
        <5>2. After(u) = m + 1
            BY <1>2, <5>1 DEF After
        <5> QED BY <5>1, <5>2
      <4>3. CASE BankAtEnd
        <5>1. /\ m >= BlockEnd
              /\ uwBlock' = [uwBlock EXCEPT ![bank_no] = IF m = BlockEnd THEN m + 1 ELSE m]
            BY <1>7, <4>3 DEF BankAtEnd
        <5>2. After(u) = IF m = BlockEnd THEN m + 1 ELSE m
            BY <1>2, <5>1 DEF After
        <5> QED BY <5>1, <5>2
      <4> QED BY <2>2, <4>1, <4>2, <4>3
    <3>3. \A b \in Bank : uwBlock'[b] = Position(u, b)'
      <4>1. TAKE b \in Bank
      <4>2. b \in Nat /\ bank_no \in Nat /\ BankNum \in Nat /\ b < BankNum /\ bank_no < BankNum
          BY <1>3, EraseAssumption DEF Bank
      <4>3. CASE b = bank_no
        <5>1. Position(u, b)' = After(u)
            BY <1>5, <3>1, <4>2, <4>3 DEF Position
        <5> QED BY <1>3, <1>6, <3>2, <4>3, <5>1
      <4>4. CASE b < bank_no
        <5>1. Position(u, b)' = After(u) /\ Position(u, b) = After(u)
            BY <1>5, <3>1, <4>2, <4>4 DEF Position
        <5> QED BY <1>6, <3>2, <4>2, <4>4, <5>1
      <4>5. CASE b > bank_no
        <5>1. Position(u, b)' = u
          <6>1. pc' = "issue"
              BY <3>1, <4>2, <4>5
          <6> QED BY <3>1, <4>2, <4>5, <6>1 DEF Position, AtBlock
        <5>2. Position(u, b) = u
            BY <4>2, <4>5 DEF Position
        <5> QED BY <1>6, <3>2, <4>2, <4>5, <5>1, <5>2
      <4> QED BY <4>2, <4>3, <4>4, <4>5
    <3>4. ~(bank_no' < BankNum /\ pc' \in AtBlock)
        BY <1>3, <3>1, EraseAssumption DEF AtBlock, Bank
    <3>5. gubErasetimeout' = 0 =>
              \A cmd \in hw' : cmd.blk = m /\ gubEraseNum' = RangeOf(m)
      <4>1. gubEraseNum' = gubEraseNum \/ gubEraseNum' = RangeOf(m)
        <5>1. CASE AfterIssue \/ BankAtEnd
            BY <5>1 DEF AfterIssue, BankAtEnd
        <5>2. CASE SkipDefect
            BY <1>7, <5>2 DEF SkipDefect
        <5> QED BY <2>2, <5>1, <5>2
      <4> QED BY <1>1, <1>3, <3>1, <4>1 DEF LockAt
    <3> QED BY <1>5, <3>3, <3>4, <3>5 DEF LockAt
  <2> QED BY <2>1, <2>2
<1> QED BY <1>1, <1>4, <1>8 DEF LockStep, Settled, FormatClean

\* The other steps leave the blocks the banks are at alone.
LEMMA LockChecks ==
    ASSUME Core, LockStep,
           \/ CheckTimeout \/ CheckDone \/ LoopAgain \/ Pause \/ Resume
           \/ RefuseErase \/ FinishErase
           \/ \E cmd \in hw, failed \in BOOLEAN :
                  PollCompletion(cmd, failed) \/ PollAgain(cmd, failed)
           \/ \E cmd \in hw : EraseAgain(cmd) \/ EraseAgainAssert(cmd)
    PROVE  LockStep'
<1>1. PICK u \in Nat : LockAt(u)
    BY DEF LockStep
<1>2. job' = job /\ bank_no' = bank_no
    BY DEF CheckTimeout, CheckDone, LoopAgain, Pause, Resume, RefuseErase, FinishErase,
           PollCompletion, PollAgain, EraseAgain, EraseAgainAssert
<1>3. SkipRdt(u)' = SkipRdt(u) /\ After(u)' = After(u) /\ BlockEnd' = BlockEnd
    BY <1>2, SameJob
<1>4. ASSUME uwBlock' = uwBlock, pc' # "refused", pc' \in AtBlock => pc \in AtBlock,
             bank_no < BankNum => (pc \in AtBlock <=> pc' \in AtBlock),
             gubErasetimeout' = 0 => gubErasetimeout = 0,
             gubErasetimeout' = 0 =>
                \A cmd \in hw' : cmd.blk = SkipRdt(u) /\ gubEraseNum' = RangeOf(SkipRdt(u)),
             pc # "refused"
      PROVE  LockAt(u)'
  <2>1. \A b \in Bank : Position(u, b)' = Position(u, b)
      BY <1>2, <1>3, <1>4, EraseAssumption DEF Position, Bank
  <2> QED BY <1>1, <1>2, <1>3, <1>4, <2>1 DEF LockAt
<1>5. CASE CheckTimeout
  <2>1. /\ gubErasetimeout' = 1 /\ uwBlock' = uwBlock
        /\ pc \in {"check", "again"} /\ bank_no \in Nat /\ BankNum \in Nat
      BY <1>5, EraseAssumption DEF CheckTimeout, Core, TypeOK
  <2>2. \/ bank_no < BankNum /\ pc' = "issued"
        \/ pc' = "timeout" /\ bank_no = BankNum
        \/ pc' = "loop" /\ job.caller # "format" /\ bank_no = BankNum
      BY <1>5, <2>1 DEF CheckTimeout, Return, Core, TypeOK
  <2>3. LockAt(u)'
      BY <1>4, <2>1, <2>2 DEF AtBlock
  <2> QED BY <1>1, <1>2, <2>1, <2>2, <2>3 DEF LockStep, Settled, FormatClean, BetweenPasses
<1>6. CASE CheckDone
  <2>1. /\ gubErasetimeout' = gubErasetimeout /\ uwBlock' = uwBlock /\ hw' = hw
        /\ pc = "check" /\ bank_no \in Nat /\ BankNum \in Nat
        /\ gufLastEraseFlag = 0 /\ gubErasetimeout \in {0, 1}
      BY <1>6, EraseAssumption DEF CheckDone, Core, TypeOK
  <2>2. hw = {}
      BY <2>1, FS_EmptySet DEF Core, OutstandingExact, Shape
  <2>3. \/ bank_no < BankNum /\ pc' = "issued"
        \/ pc' = "timeout" /\ bank_no = BankNum
        \/ /\ pc' = "loop" /\ bank_no = BankNum
           /\ job.caller = "format" => gubErasetimeout = 0
      BY <1>6, <2>1 DEF CheckDone, Return, Core, TypeOK
  <2>4. LockAt(u)'
      BY <1>4, <2>1, <2>2, <2>3 DEF AtBlock
  <2> QED BY <1>1, <1>2, <2>1, <2>2, <2>3, <2>4 DEF LockStep, Settled, FormatClean, BetweenPasses
<1>7. CASE LoopAgain \/ Pause \/ Resume
  <2>1. /\ gubErasetimeout' = gubErasetimeout /\ uwBlock' = uwBlock /\ hw' = hw
        /\ pc \in BetweenPasses /\ pc' \in BetweenPasses
      BY <1>7 DEF LoopAgain, Pause, Resume, soft, BetweenPasses
  <2>2. Settled' /\ FormatClean'
      BY <1>2, <2>1 DEF LockStep, Settled, FormatClean
  <2>3. LockAt(u)'
      BY <1>4, <2>1, <2>2 DEF AtBlock, BetweenPasses, Settled
  <2> QED BY <2>2, <2>3 DEF LockStep
<1>8. CASE FinishErase
  <2>1. /\ gubErasetimeout' = gubErasetimeout /\ uwBlock' = uwBlock /\ hw' = hw
        /\ pc = "call" /\ pc' = "done" /\ gubEraseNum' = gubEraseNum
      BY <1>8 DEF FinishErase
  <2>2. gubErasetimeout' = 0 => hw' = {}
      BY <2>1 DEF LockStep, Settled, BetweenPasses
  <2>3. LockAt(u)'
      BY <1>4, <2>1, <2>2 DEF AtBlock
  <2> QED BY <2>1, <2>3 DEF LockStep, Settled, FormatClean, BetweenPasses
<1>9. CASE RefuseErase
  <2>1. pc' = "refused" /\ hw' = {}
      BY <1>9 DEF RefuseErase, Core, Shape
  <2>2. LockAt(u)'
      BY <2>1 DEF LockAt, AtBlock
  <2> QED BY <2>1, <2>2 DEF LockStep, Settled, FormatClean, BetweenPasses
<1>10. CASE \E cmd \in hw, failed \in BOOLEAN :
                PollCompletion(cmd, failed) \/ PollAgain(cmd, failed)
  <2>1. /\ gubErasetimeout' = gubErasetimeout /\ uwBlock' = uwBlock /\ hw' \subseteq hw
        /\ pc \in {"check", "again"} /\ pc' = "check" /\ gubEraseNum' = gubEraseNum
      BY <1>10 DEF PollCompletion, PollAgain
  <2>2. gubErasetimeout' = 0 =>
            \A cmd \in hw' : cmd.blk = SkipRdt(u) /\ gubEraseNum' = RangeOf(SkipRdt(u))
      BY <1>1, <2>1 DEF LockAt
  <2>3. LockAt(u)'
      BY <1>4, <2>1, <2>2 DEF AtBlock
  <2> QED BY <2>1, <2>3 DEF LockStep, Settled, FormatClean, BetweenPasses
<1>11. CASE \E cmd \in hw : EraseAgain(cmd)
  <2>1. PICK cmd \in hw : EraseAgain(cmd)
      BY <1>11
  <2> DEFINE new == [bank |-> cmd.bank, blk |-> Decode(cmd), second |-> TRUE]
  <2>2. /\ gubErasetimeout' = gubErasetimeout /\ uwBlock' = uwBlock
        /\ hw' = (hw \ {cmd}) \cup {new}
        /\ pc = "check" /\ pc' = "again" /\ gubEraseNum' = gubEraseNum
      BY <2>1 DEF EraseAgain, soft
  <2>3. gubErasetimeout = 0 => new.blk = SkipRdt(u) /\ gubEraseNum = RangeOf(SkipRdt(u))
    <3>1. SUFFICES ASSUME gubErasetimeout = 0
                   PROVE  Decode(cmd) = SkipRdt(u) /\ gubEraseNum = RangeOf(SkipRdt(u))
        OBVIOUS
    <3>2. cmd.blk = SkipRdt(u) /\ gubEraseNum = RangeOf(SkipRdt(u))
        BY <1>1, <2>1, <3>1 DEF LockAt
    <3>3. Decode(cmd) = cmd.blk
        BY <2>1, <2>2, <3>1, LockImpliesDecode DEF DecodeExact
    <3> QED BY <3>2, <3>3
  <2>4. gubErasetimeout' = 0 =>
            \A c \in hw' : c.blk = SkipRdt(u) /\ gubEraseNum' = RangeOf(SkipRdt(u))
      BY <1>1, <2>2, <2>3 DEF LockAt
  <2>5. LockAt(u)'
      BY <1>4, <2>2, <2>4 DEF AtBlock
  <2> QED BY <2>2, <2>5 DEF LockStep, Settled, FormatClean, BetweenPasses
<1>12. CASE \E cmd \in hw : EraseAgainAssert(cmd)
  <2>1. /\ gubErasetimeout' = gubErasetimeout /\ uwBlock' = uwBlock /\ hw' \subseteq hw
        /\ pc = "check" /\ pc' = "assert" /\ gubEraseNum' = gubEraseNum
      BY <1>12 DEF EraseAgainAssert, soft
  <2>2. gubErasetimeout' = 0 =>
            \A cmd \in hw' : cmd.blk = SkipRdt(u) /\ gubEraseNum' = RangeOf(SkipRdt(u))
      BY <1>1, <2>1 DEF LockAt
  <2>3. LockAt(u)'
      BY <1>4, <2>1, <2>2 DEF AtBlock
  <2> QED BY <2>1, <2>3 DEF LockStep, Settled, FormatClean, BetweenPasses
<1> QED BY <1>5, <1>6, <1>7, <1>8, <1>9, <1>10, <1>11, <1>12

THEOREM LockStepInvariant == Spec => []LockStep
<1>1. Init => LockStep
  <2>1. SUFFICES ASSUME Init PROVE LockStep
      OBVIOUS
  <2>2. LockAt(0)
    <3>1. \A b \in Bank : Position(0, b) = 0
        BY <2>1, EraseAssumption DEF Init, Position, AtBlock, Bank
    <3> QED BY <2>1, <3>1 DEF Init, LockAt, AtBlock
  <2> QED BY <2>1, <2>2 DEF Init, LockStep, Settled, FormatClean
<1>2. ASSUME Core, LockStep, [Next]_vars PROVE LockStep'
  <2>1. CASE StartErase \/ NextPass
      BY <1>2, <2>1, LockPassBegins
  <2>2. CASE IssueErase \/ AfterIssue \/ SkipDefect \/ BankAtEnd
      BY <1>2, <2>2, LockTurn
  <2>3. CASE \/ CheckTimeout \/ CheckDone \/ LoopAgain \/ Pause \/ Resume
             \/ RefuseErase \/ FinishErase
             \/ \E cmd \in hw, failed \in BOOLEAN :
                    PollCompletion(cmd, failed) \/ PollAgain(cmd, failed)
             \/ \E cmd \in hw : EraseAgain(cmd) \/ EraseAgainAssert(cmd)
      BY <1>2, <2>3, LockChecks
  <2>4. CASE UNCHANGED vars
    <3>1. PICK u \in Nat : LockAt(u)
        BY <1>2 DEF LockStep
    <3>2. LockAt(u)'
        BY <2>4, <3>1, SameJob DEF vars, soft, LockAt, Position
    <3> QED BY <1>2, <2>4, <3>2 DEF vars, soft, LockStep, Settled, FormatClean
  <2> QED BY <1>2, <2>1, <2>2, <2>3, <2>4 DEF Next
<1> QED BY <1>1, <1>2, CoreInvariant, PTL DEF Spec

\* A completion is taken for the block that was erased, although its tag has only
\* the low bits of the number and one gubEraseNum serves all banks.
THEOREM DecodeCorrect == Spec => []DecodeExact
<1> QED BY CoreInvariant, LockStepInvariant, LockImpliesDecode, PTL

\* With ERASEALL_TWICE every erase is waited for before the next is issued.
Alone ==
    /\ EraseAgainAloneInTime
    /\ job.twice /\ gubErasetimeout = 0 =>
        /\ pc \in {"check", "again"} => \A c, d \in hw : c = d
        /\ pc \notin {"check", "again"} => hw = {}

\* A second try is the only erase outstanding, as llfBECheckStatus asserts, by that.
THEOREM AloneInvariant == Spec => []Alone
<1>1. Init => Alone
    BY DEF Init, Alone, EraseAgainAloneInTime
<1>2. ASSUME Core, LockStep, Alone, [Next]_vars PROVE Alone'
  <2>1. CASE StartErase \/ NextPass
    <3>1. /\ job' = job /\ hw' = hw /\ gubErasetimeout' = gubErasetimeout
          /\ pc = "call" /\ pc' = "issue"
        BY <1>2, <2>1 DEF StartErase, NextPass, tables, LockStep, FormatClean, BetweenPasses
    <3> QED BY <1>2, <3>1 DEF Alone, EraseAgainAloneInTime
  <2>2. CASE IssueErase
    <3>1. /\ job' = job /\ gubErasetimeout' = gubErasetimeout /\ pc = "issue"
          /\ job.twice => pc' = "check"
          /\ pc' # "assert"
          /\ \E cmd : hw' = hw \cup {cmd}
        BY <2>2 DEF IssueErase, TurnAfterIssue
    <3> QED BY <1>2, <3>1 DEF Alone, EraseAgainAloneInTime
  <2>3. CASE AfterIssue \/ SkipDefect \/ BankAtEnd \/ LoopAgain \/ Pause \/ Resume
             \/ RefuseErase \/ FinishErase
    <3>1. /\ job' = job /\ hw' = hw /\ gubErasetimeout' = gubErasetimeout
          /\ pc \notin {"check", "again"} /\ pc' # "assert"
        BY <2>3 DEF AfterIssue, SkipDefect, BankAtEnd, NextBank, LoopAgain, Pause, Resume,
                    RefuseErase, FinishErase, soft
    <3> QED BY <1>2, <3>1 DEF Alone, EraseAgainAloneInTime
  <2>4. CASE CheckTimeout
    <3>1. gubErasetimeout' # 0
        BY <2>4 DEF CheckTimeout
    <3> QED BY <3>1 DEF Alone, EraseAgainAloneInTime
  <2>5. CASE CheckDone
    <3>1. /\ job' = job /\ hw' = hw /\ pc' # "assert" /\ gufLastEraseFlag = 0 /\ pc = "check"
        BY <2>5 DEF CheckDone, Return
    <3>2. hw = {}
        BY <1>2, <3>1, FS_EmptySet DEF Core, OutstandingExact, Shape
    <3> QED BY <3>1, <3>2 DEF Alone, EraseAgainAloneInTime
  <2>6. CASE \E cmd \in hw, failed \in BOOLEAN :
                PollCompletion(cmd, failed) \/ PollAgain(cmd, failed)
    <3>1. /\ job' = job /\ hw' \subseteq hw /\ gubErasetimeout' = gubErasetimeout
          /\ pc \in {"check", "again"} /\ pc' = "check"
        BY <2>6 DEF PollCompletion, PollAgain
    <3> QED BY <1>2, <3>1 DEF Alone, EraseAgainAloneInTime
  <2>7. CASE \E cmd \in hw : EraseAgain(cmd)
    <3>1. PICK cmd \in hw : EraseAgain(cmd)
        BY <2>7
    <3>2. /\ job' = job /\ gubErasetimeout' = gubErasetimeout
          /\ pc = "check" /\ pc' = "again"
          /\ \E new : hw' = (hw \ {cmd}) \cup {new}
        BY <3>1 DEF EraseAgain, soft
    <3> QED BY <1>2, <3>1, <3>2 DEF Alone, EraseAgainAloneInTime
  <2>8. CASE \E cmd \in hw : EraseAgainAssert(cmd)
    <3>1. PICK cmd \in hw : /\ job.twice /\ job' = job /\ gubErasetimeout' = gubErasetimeout
                            /\ pc = "check" /\ gufLastEraseFlag # 1
        BY <2>8 DEF EraseAgainAssert, soft
    <3>2. gubErasetimeout # 0
      <4>1. SUFFICES ASSUME gubErasetimeout = 0 PROVE FALSE
          OBVIOUS
      <4>2. hw = {cmd}
          BY <1>2, <3>1, <4>1 DEF Alone
      <4>3. gufLastEraseFlag = Cardinality(hw)
          BY <1>2, <3>1 DEF Core, OutstandingExact
      <4> QED BY <3>1, <4>2, <4>3, FS_Singleton
    <3> QED BY <3>1, <3>2 DEF Alone, EraseAgainAloneInTime
  <2>9. CASE UNCHANGED vars
      BY <1>2, <2>9 DEF vars, soft, Alone, EraseAgainAloneInTime
  <2> QED BY <1>2, <2>1, <2>2, <2>3, <2>4, <2>5, <2>6, <2>7, <2>8, <2>9 DEF Next
<1> QED BY <1>1, <1>2, CoreInvariant, LockStepInvariant, PTL DEF Spec

\* The assertion of llfBECheckStatus (llf_lib.c:3509) holds as long as no
\* completion was waited for in vain.
THEOREM AssertInTime == Spec => []EraseAgainAloneInTime
<1>1. Alone => EraseAgainAloneInTime
    BY DEF Alone
<1> QED BY <1>1, AloneInvariant, PTL
=============================================================================
