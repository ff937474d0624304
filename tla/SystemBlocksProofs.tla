------------------------- MODULE SystemBlocksProofs -------------------------
(***************************************************************************)
(* Theorems about SystemBlocks, for every flash, set of jobs and number of *)
(* failures: the variables keep their types, first pages are written to    *)
(* clean blocks only, the defect table protects every copy, the map that   *)
(* is saved is exact, enough copies are left, and first pages agree.       *)
(*                                                                         *)
(* The inductive invariant CopiesInv says phase by phase which places are  *)
(* still chosen, which of them the map has, and what their blocks hold.    *)
(* In the loops over the copies it speaks of the places before cur and of  *)
(* those from cur on, by their index.                                      *)
(***************************************************************************)
EXTENDS SystemBlocks, FiniteSetTheorems, TLAPS

Index(p) == p[1] * SblkBlks + p[2]

WindowValid == gubSblkStart <= ExtBlks /\ gubSblkBankStart + SysBanks <= BankNum

\* The window is on the flash, or no place of it is chosen.
WindowInv ==
    /\ WindowValid \/ guwSBlkNo = AllBad
    /\ pc \in {"choose", "erase"} \/ job.kind = "update" => WindowValid

\* The two branches of the program do not meet.
BranchInv ==
    /\ pc \in {"readConfig", "readDbt", "readRemap", "eraseCopies"} => job.kind = "update"
    /\ pc \in {"choose", "erase", "config", "check"} => job.kind # "update"
    /\ pc = "done" /\ ret = "ERR_OK" /\ job.kind # "update"
           => {EntryBlock(e) : e \in gulSblkCHCEMap} = {BlockOf(p) : p \in Good}

\* What the map has of the chosen places, and of those that are absent.
MapInv ==
    \A p \in Place :
        /\ guwSBlkNo[p] = "absent" => EntryOf(p) \notin gulSblkCHCEMap
        /\ /\ guwSBlkNo[p] = "good" /\ job.kind # "update"
           /\ pc \in {"erase", "config", "heads", "again", "mark", "codes"}
           => EntryOf(p) \in gulSblkCHCEMap

\* The code is written to blocks that are marked.
ProtectedInv ==
    /\ Copies \subseteq dbt
    /\ pc = "codes" => {BlockOf(p) : p \in Good} \subseteq dbt

\* The copies that are complete.
ExactInv ==
    job.kind # "update" =>
        /\ pc \in {"choose", "erase", "config", "heads", "again", "mark"} => Copies = {}
        /\ pc = "codes" => Copies = {BlockOf(p) : p \in {q \in Good : Index(q) < cur}}
        /\ pc = "check" \/ (pc = "done" /\ ret = "ERR_OK") => Copies = {BlockOf(p) : p \in Good}

\* The blocks the first round of first pages still has to write.
Clean(p) == flash[BlockOf(p)].state \in {"erased", "used"}
CleanInv ==
    /\ pc = "erase" => \A p \in Good : BlockOf(p) \in Block
    /\ pc = "config" => \A p \in Good \ EraseFailed : Clean(p)
    /\ pc = "heads" /\ pass = 1 =>
           \A p \in Place : IsWritten(p) /\ cur <= Index(p) => Clean(p)

\* The count of a bank starts with the bank.
CountInv == pc = "codes" => bads <= cur % SblkBlks

\* Without the types.
RestInv ==
    /\ WindowInv /\ BranchInv /\ MapInv
    /\ ProtectedInv /\ ExactInv /\ CleanInv /\ CountInv

CopiesInv == TypeOK /\ RestInv

USE SystemBlocksAssumption

------------------------------------------------------------------------------
(* Arithmetic                                                              *)

LEMMA DivMod ==
    ASSUME NEW a \in Nat, NEW s \in Nat \ {0}
    PROVE  /\ a \div s \in Nat /\ a % s \in 0 .. (s - 1)
           /\ a = (a \div s) * s + (a % s)
BY SMT

LEMMA Unique ==
    ASSUME NEW s \in Nat \ {0},
           NEW a \in Nat, NEW b \in 0 .. (s - 1), NEW c \in Nat, NEW d \in 0 .. (s - 1),
           a * s + b = c * s + d
    PROVE  a = c /\ b = d
BY SMT

LEMMA Monotone ==
    ASSUME NEW a \in Int, NEW b \in Int, NEW s \in Nat, a <= b
    PROVE  a * s <= b * s
BY SMT

LEMMA ModBit == \A n \in Int : n % WordBits \in Bit
BY SMT DEF Bit

\* Remainder and quotient of the successor.
LEMMA NextMod ==
    ASSUME NEW a \in Nat, NEW s \in Nat \ {0}
    PROVE  /\ (a + 1) % s = IF a % s = s - 1 THEN 0 ELSE (a % s) + 1
           /\ (a + 1) \div s = IF a % s = s - 1 THEN (a \div s) + 1 ELSE a \div s
<1> DEFINE q == a \div s
           r == a % s
           q2 == (a + 1) \div s
           r2 == (a + 1) % s
<1>1. q \in Nat /\ r \in 0 .. (s - 1) /\ a = q * s + r
  BY DivMod
<1>2. q2 \in Nat /\ r2 \in 0 .. (s - 1) /\ a + 1 = q2 * s + r2
  <2>1. a + 1 \in Nat
    OBVIOUS
  <2> QED
    BY <2>1, DivMod
<1> HIDE DEF q, r, q2, r2
<1>3. CASE r = s - 1
  <2>1. (q + 1) * s + 0 = q2 * s + r2
    BY <1>1, <1>2, <1>3
  <2>2. r2 = 0 /\ q2 = q + 1
    BY <2>1, <1>1, <1>2, Unique
  <2> QED
    BY <2>2, <1>3 DEF r, r2, q, q2
<1>4. CASE r # s - 1
  <2>1. q * s + (r + 1) = q2 * s + r2 /\ r + 1 \in 0 .. (s - 1)
    BY <1>1, <1>2, <1>4
  <2>2. r2 = r + 1 /\ q2 = q
    BY <2>1, <1>1, <1>2, Unique
  <2> QED
    BY <2>2, <1>4 DEF r, r2, q, q2
<1> QED
  BY <1>3, <1>4

LEMMA Banks == SysBanks \in Nat \ {0} /\ SysBanks <= BankNum /\ Places \in Nat \ {0}
<1>1. SysBanks \in Nat \ {0} /\ SysBanks <= BankNum
  BY DEF SysBanks
<1>2. 1 * SblkBlks <= SysBanks * SblkBlks
  BY <1>1, Monotone
<1> QED
  BY <1>1, <1>2 DEF Places

\* The places are numbered from 0 to Places - 1.
LEMMA PlaceIndex ==
    ASSUME NEW p \in Place
    PROVE  Index(p) \in 0 .. (Places - 1)
<1>1. p[1] \in 0 .. (SysBanks - 1) /\ p[2] \in 0 .. (SblkBlks - 1)
  BY DEF Place
<1>2. (p[1] + 1) * SblkBlks <= SysBanks * SblkBlks
  BY <1>1, Banks, Monotone
<1>3. (p[1] + 1) * SblkBlks = p[1] * SblkBlks + SblkBlks /\ p[1] * SblkBlks \in Nat
  BY <1>1
<1> QED
  BY <1>1, <1>2, <1>3, Banks DEF Index, Places

LEMMA IndexUnique ==
    ASSUME NEW p \in Place, NEW q \in Place, Index(p) = Index(q)
    PROVE  p = q
<1>1. /\ p[1] \in 0 .. (SysBanks - 1) /\ p[2] \in 0 .. (SblkBlks - 1)
      /\ q[1] \in 0 .. (SysBanks - 1) /\ q[2] \in 0 .. (SblkBlks - 1)
      /\ p = <<p[1], p[2]>> /\ q = <<q[1], q[2]>>
  BY DEF Place
<1>2. p[1] = q[1] /\ p[2] = q[2]
  BY <1>1, Banks, Unique DEF Index
<1> QED
  BY <1>1, <1>2

\* The place of a loop that is not at its end.
LEMMA CurrentPlace ==
    ASSUME cur \in 0 .. Places, cur < Places
    PROVE  Current \in Place /\ Index(Current) = cur
<1> DEFINE q == cur \div SblkBlks
           r == cur % SblkBlks
<1>1. q \in Nat /\ r \in 0 .. (SblkBlks - 1) /\ cur = q * SblkBlks + r
  <2>1. cur \in Nat /\ SblkBlks \in Nat \ {0}
    BY Banks
  <2> QED
    BY <2>1, DivMod
<1>2. Current = <<q, r>>
  BY DEF Current
<1> HIDE DEF q, r
<1>3. q < SysBanks
  <2> SUFFICES ASSUME SysBanks <= q PROVE FALSE
    BY <1>1, Banks
  <2>1. SysBanks * SblkBlks <= q * SblkBlks
    BY <1>1, Banks, Monotone
  <2> QED
    BY <2>1, <1>1, Banks DEF Places
<1> QED
  BY <1>1, <1>2, <1>3, Banks DEF Place, Index

------------------------------------------------------------------------------
(* Places, blocks and entries                                              *)

LEMMA Finite ==
    /\ IsFiniteSet(Block) /\ IsFiniteSet(Place) /\ IsFiniteSet(Entry)
    /\ \A S : S \subseteq Block \/ S \subseteq Place \/ S \subseteq Entry
              => Cardinality(S) \in Nat
<1>1. IsFiniteSet(Block) /\ IsFiniteSet(Place) /\ IsFiniteSet(Entry)
  <2>1. \A n \in Int : IsFiniteSet(0 .. n)
    BY FS_Interval
  <2>2. /\ BankNum - 1 \in Int /\ SblkBlks + ExtBlks - 1 \in Int
        /\ SblkBlks - 1 \in Int /\ SysBanks - 1 \in Int
    BY Banks
  <2> QED
    BY <2>1, <2>2, FS_Product DEF Block, Place, Entry, Bank
<1> QED
  BY <1>1, FS_Subset, FS_CardinalityType

LEMMA FailBound ==
    ASSUME NEW n \in Nat, fails \in 0 .. MaxFail, Fail(n)
    PROVE  fails' \in 0 .. MaxFail
BY DEF Fail

LEMMA Geometry ==
    ASSUME gubSblkStart \in Nat, gubSblkBankStart \in Nat, NEW p \in Place
    PROVE  /\ EntryBlock(EntryOf(p)) = BlockOf(p)
           /\ WindowValid => BlockOf(p) \in Block /\ EntryOf(p) \in Entry
           /\ \A q \in Place : BlockOf(q) = BlockOf(p) \/ EntryOf(q) = EntryOf(p) => q = p
<1>1. p[1] \in 0 .. (SysBanks - 1) /\ p[2] \in 0 .. (SblkBlks - 1) /\ p = <<p[1], p[2]>>
  BY DEF Place
<1>2. EntryBlock(EntryOf(p)) = BlockOf(p)
  BY DEF EntryBlock, EntryOf, BlockOf, BlockAt
<1>3. WindowValid => BlockOf(p) \in Block /\ EntryOf(p) \in Entry
  BY <1>1, Banks DEF WindowValid, BlockOf, BlockAt, Block, EntryOf, Entry, Bank
<1>4. ASSUME NEW q \in Place, BlockOf(q) = BlockOf(p) \/ EntryOf(q) = EntryOf(p)
      PROVE  q = p
  <2>1. q[1] \in 0 .. (SysBanks - 1) /\ q[2] \in 0 .. (SblkBlks - 1) /\ q = <<q[1], q[2]>>
    BY DEF Place
  <2>2. gubSblkBankStart + q[1] = gubSblkBankStart + p[1]
    BY <1>4 DEF BlockOf, BlockAt, EntryOf
  <2>3. q[2] = p[2]
    BY <1>4, <1>1, <2>1 DEF BlockOf, BlockAt, EntryOf
  <2> QED
    BY SMTT(30), <1>1, <2>1, <2>2, <2>3, Banks
<1> QED
  BY <1>2, <1>3, <1>4

LEMMA Contents ==
    /\ Erased \in Content /\ Used \in Content /\ Torn \in Content
    /\ NoPage \in Page
BY DEF Erased, Used, Torn, Content, NoPage, Page

LEMMA Bits == \A p \in Place : /\ FailBit(p) \in Bit
                               /\ gubSblkStart \in Nat /\ gubSblkBankStart \in Nat
                                  => ImageBit(p) \in Bit
<1> TAKE p \in Place
<1>1. p[1] \in Nat /\ p[2] \in Nat
  BY Banks DEF Place
<1>2. p[1] * SblkBlks + p[2] \in Int
  BY <1>1
<1>3. gubSblkStart \in Nat /\ gubSblkBankStart \in Nat
      => (gubSblkStart + p[2]) + SblkBlks * (gubSblkBankStart + p[1]) \in Int
  BY <1>1
<1> QED
  BY <1>2, <1>3, ModBit DEF FailBit, ImageBit

------------------------------------------------------------------------------
(* The types                                                               *)

LEMMA WindowBlocksOnFlash ==
    ASSUME TypeOK, WindowValid
    PROVE  WindowBlocks \subseteq Block
<1>1. gubSblkStart \in Nat /\ gubSblkBankStart \in Nat
  BY DEF TypeOK
<1> QED
  BY <1>1, Geometry DEF WindowBlocks

LEMMA TypeChoose ==
    ASSUME TypeOK, WindowInv, ChooseWindow
    PROVE  TypeOK'
<1>1. WindowValid /\ gubSblkStart \in Nat /\ gubSblkBankStart \in Nat
  BY DEF WindowInv, ChooseWindow, TypeOK
<1>2. WindowBlocks \subseteq Block
  BY <1>1, WindowBlocksOnFlash
<1>3. PICK bad \in SUBSET (WindowBlocks \ sysDbt), stuck \in SUBSET (WindowBlocks \ sysDbt) :
        /\ bad \cap stuck = {}
        /\ Fail(Cardinality({b \in bad : flash[b].state = "erased"}) + Cardinality(stuck))
        /\ flash' = FlashAfterTest(bad, stuck)
        /\ TakeWindow(bad) \/ TryNext(bad)
  BY DEF ChooseWindow
<1>4. fails' \in 0 .. MaxFail
  <2>1. /\ Cardinality({b \in bad : flash[b].state = "erased"}) \in Nat
        /\ Cardinality(stuck) \in Nat
    BY <1>2, Finite
  <2> QED
    BY <2>1, <1>3, FailBound DEF TypeOK
<1>5. flash' \in [Block -> Content]
  BY <1>3, Contents DEF TypeOK, FlashAfterTest
<1>6. InFront \subseteq Block /\ bad \subseteq Block
  BY <1>2 DEF InFront
<1>7. UNCHANGED <<job, gulEraseFailSysblk, gulFailedImageBitMap, sblk, cur, loop>>
  BY DEF ChooseWindow
<1>8. CASE TakeWindow(bad)
  <2>1. \A p \in GoodBut(bad) : EntryOf(p) \in Entry
    BY <1>1, Geometry DEF GoodBut
  <2>2. gulSblkCHCEMap' \subseteq Entry
    BY <2>1, <1>8 DEF TypeOK, TakeWindow
  <2>3. guwSBlkNo' \in [Place -> {"good", "bad", "absent"}]
    BY <1>8 DEF TakeWindow
  <2>4. sysDbt' \subseteq Block /\ dbt' \subseteq Block
    BY <1>6, <1>8 DEF TypeOK, TakeWindow
  <2>5. pc' \in {"erase", "config"} /\ UNCHANGED <<window, ret>>
    BY <1>8 DEF TakeWindow
  <2> QED
    BY <2>2, <2>3, <2>4, <2>5, <1>4, <1>5, <1>7 DEF TypeOK, window, loop
<1>9. CASE TryNext(bad)
  <2>1. gubSblkStart' \in 0 .. (ExtBlks + SblkBlks) /\ gubSblkBankStart' \in 0 .. BankNum
    <3>1. gubSblkStart <= ExtBlks /\ gubSblkBankStart + 1 \in 0 .. BankNum
      BY <1>1, Banks DEF WindowValid
    <3> QED
      BY <3>1, <1>1, <1>9, Banks DEF TryNext, NextWindow, TypeOK
  <2>2. guwSBlkNo' \in [Place -> {"good", "bad", "absent"}]
    BY <1>9 DEF AllBad, TryNext
  <2>3. sysDbt' \subseteq Block /\ UNCHANGED <<gulSblkCHCEMap, dbt>>
    BY <1>6, <1>9 DEF TypeOK, TryNext
  <2>4. pc' \in {"choose", "config", "done"} /\ ret' \in Results
    BY <1>9 DEF TypeOK, Results, ChooseWindow, TryNext
  <2> QED
    BY <2>1, <2>2, <2>3, <2>4, <1>4, <1>5, <1>7 DEF TypeOK, window, loop
<1> QED
  BY <1>3, <1>8, <1>9

LEMMA TypeErase ==
    ASSUME TypeOK, EraseWindow
    PROVE  TypeOK'
<1>1. PICK failed \in SUBSET UpToWindow(gubSblkStart) :
        /\ Fail(Cardinality({b \in failed : flash[b] # Torn}))
        /\ sysDbt' \in MarksAfterErase(sysDbt, gubSblkStart, failed)
        /\ dbt' = dbt \cup failed
        /\ gulEraseFailSysblk' = gulEraseFailSysblk \cup
                                    {FailBit(p) : p \in {q \in Place : BlockOf(q) \in failed}}
        /\ flash' = [b \in Block |-> IF b \in failed THEN Torn
                                     ELSE IF b \in UpToWindow(gubSblkStart) THEN Erased
                                     ELSE flash[b]]
  BY DEF EraseWindow
<1>2. failed \subseteq Block
  BY DEF UpToWindow
<1>3. fails' \in 0 .. MaxFail
  <2>1. Cardinality({b \in failed : flash[b] # Torn}) \in Nat
    BY <1>2, Finite
  <2> QED
    BY <2>1, <1>1, FailBound DEF TypeOK
<1>4. sysDbt' \subseteq Block /\ dbt' \subseteq Block
  BY <1>1, <1>2 DEF TypeOK, MarksAfterErase
<1>5. gulEraseFailSysblk' \subseteq Bit
  BY <1>1, Bits DEF TypeOK
<1>6. flash' \in [Block -> Content]
  BY <1>1, Contents DEF TypeOK
<1> QED
  BY <1>3, <1>4, <1>5, <1>6 DEF EraseWindow, TypeOK, window, loop

LEMMA TypeConfig ==
    ASSUME TypeOK, SetConfig
    PROVE  TypeOK'
<1>1. gulSblkCHCEMap' \subseteq Entry
  BY DEF SetConfig, TypeOK
<1>2. guwSBlkNo' \in [Place -> {"good", "bad", "absent"}]
  BY DEF SetConfig, TypeOK
<1>3. sblk' \in Page
  BY <1>1 DEF SetConfig, TypeOK, Page
<1> QED
  BY <1>1, <1>2, <1>3, Banks DEF SetConfig, TypeOK, window, tables

\* The state of a block, or a block, is changed.
LEMMA FlashExcept ==
    ASSUME TypeOK, NEW b
    PROVE  /\ \A c \in Content : [flash EXCEPT ![b] = c] \in [Block -> Content]
           /\ \A st \in {"erased", "used", "torn", "head", "part", "full"} :
                 [flash EXCEPT ![b].state = st] \in [Block -> Content]
<1>1. flash \in [Block -> Content]
  BY DEF TypeOK
<1>2. ASSUME NEW st \in {"erased", "used", "torn", "head", "part", "full"}
      PROVE  [flash EXCEPT ![b].state = st] \in [Block -> Content]
  <2>1. CASE b \in Block
    <3>1. [flash[b] EXCEPT !.state = st] \in Content
      BY <1>1, <2>1 DEF Content
    <3> QED
      BY <1>1, <3>1
  <2>2. CASE b \notin Block
    BY <1>1, <2>2
  <2> QED
    BY <2>1, <2>2
<1> QED
  BY <1>1, <1>2

LEMMA TypeHeads ==
    ASSUME TypeOK, SkipHead \/ WriteHead \/ HeadFails \/ HeadsDone
    PROVE  TypeOK'
<1>1. CASE SkipHead
  <2>1. Current \in Place /\ cur' \in 0 .. Places
    BY <1>1, CurrentPlace, Banks DEF SkipHead, TypeOK
  <2>2. gulFailedImageBitMap' \subseteq Bit
    BY <1>1, <2>1, Bits DEF SkipHead, NoteBad, TypeOK
  <2> QED
    BY <1>1, <2>1, <2>2 DEF SkipHead, TypeOK, window, tables, loop
<1>2. CASE WriteHead
  <2>1. cur' \in 0 .. Places
    BY <1>2, Banks DEF WriteHead, TypeOK
  <2>2. [state |-> "head", page |-> sblk] \in Content
    BY DEF Content, TypeOK
  <2>3. flash' \in [Block -> Content]
    BY <1>2, <2>2, FlashExcept DEF WriteHead
  <2> QED
    BY <1>2, <2>1, <2>3 DEF WriteHead, TypeOK, window, tables, loop
<1>3. CASE HeadFails
  <2>1. Current \in Place /\ cur' \in 0 .. Places
    BY <1>3, CurrentPlace, Banks DEF HeadFails, TypeOK
  <2>2. gulFailedImageBitMap' \subseteq Bit
    BY <1>3, <2>1, Bits DEF HeadFails, NoteBad, TypeOK
  <2>3. flash' \in [Block -> Content]
    <3>1. PICK left \in {Erased, Torn} : flash' = [flash EXCEPT ![BlockOf(Current)] = left]
      BY <1>3 DEF HeadFails
    <3>2. left \in Content
      BY Contents
    <3> QED
      BY <3>1, <3>2, FlashExcept
  <2>4. guwSBlkNo' \in [Place -> {"good", "bad", "absent"}]
    BY <1>3 DEF HeadFails, TypeOK
  <2>5. fails' \in 0 .. MaxFail
    BY <1>3, FailBound DEF HeadFails, TypeOK
  <2> QED
    BY <1>3, <2>1, <2>2, <2>3, <2>4, <2>5 DEF HeadFails, TypeOK, window, tables, loop
<1>4. CASE HeadsDone
  <2>1. sblk' \in Page
    BY <1>4 DEF HeadsDone, TypeOK, Page
  <2>2. pc' \in {"mark", "again", "done"} /\ ret' \in Results
    BY <1>4 DEF HeadsDone, Results
  <2> QED
    BY <1>4, <2>1, <2>2 DEF HeadsDone, TypeOK, window, tables, loop
<1> QED
  BY <1>1, <1>2, <1>3, <1>4

LEMMA TypeEraseSblk ==
    ASSUME TypeOK, NEW stop, EraseSblk(stop)
    PROVE  flash' \in [Block -> Content] /\ fails' \in 0 .. MaxFail
<1>1. Cardinality(stop) \in Nat
  BY Finite DEF EraseSblk, TypeOK
<1> QED
  BY <1>1, FailBound, Contents DEF EraseSblk, llfEraseSblk, TypeOK

LEMMA TypeAgain ==
    ASSUME TypeOK, WriteAgain \/ EraseCopies
    PROVE  TypeOK'
<1>1. \E stop : EraseSblk(stop)
  BY DEF WriteAgain, EraseCopies
<1>2. flash' \in [Block -> Content] /\ fails' \in 0 .. MaxFail
  BY <1>1, TypeEraseSblk
<1>3. CASE WriteAgain
  BY <1>2, <1>3, Banks DEF WriteAgain, TypeOK, window, tables
<1>4. CASE EraseCopies
  <2>1. pc' \in {"heads", "done"} /\ ret' \in Results
    BY <1>4 DEF EraseCopies, TypeOK, Results
  <2> QED
    BY <1>2, <1>4, <2>1, Banks DEF EraseCopies, TypeOK, window
<1> QED
  BY <1>3, <1>4

LEMMA TypeMark ==
    ASSUME TypeOK, WindowInv, SetSblkToDBT
    PROVE  TypeOK'
<1>1. dbt' \subseteq Block
  <2>1. CASE WindowValid
    <3>1. ASSUME NEW p \in Place
          PROVE  /\ <<MarkedBank(p), gubSblkStart + p[2]>> \in Block
                 /\ <<MarkedBank(p), AbsentBlk>> \in Block
      BY <2>1, Banks DEF WindowValid, TypeOK, Place, Block, Bank, MarkedBank, AbsentBlk
    <3> QED
      BY <3>1 DEF SetSblkToDBT, TypeOK, Good
  <2>2. CASE guwSBlkNo = AllBad
    BY <2>2 DEF SetSblkToDBT, TypeOK, Good, AllBad
  <2> QED
    BY <2>1, <2>2 DEF WindowInv
<1>2. /\ pc' = "codes" /\ cur' = 0 /\ pre' = gulFailedImageBitMap
      /\ bads' = 0
      /\ UNCHANGED <<job, window, guwSBlkNo, gulSblkCHCEMap, sysDbt, gulEraseFailSysblk,
                     gulFailedImageBitMap, sblk, flash, pass, ret, fails>>
  BY DEF SetSblkToDBT
<1>3. errs' \in BOOLEAN /\ lastErr' \in BOOLEAN
  BY Zenon DEF SetSblkToDBT
<1> QED
  BY <1>1, <1>2, <1>3, Banks DEF TypeOK, window

\* The count of bad copies of a bank stays below the copies of a bank.
LEMMA CountStep ==
    ASSUME TypeOK, CountInv, pc = "codes", cur < Places,
           NEW n \in {bads, bads + 1}, NextCode(n)
    PROVE  /\ cur' \in 0 .. Places /\ cur' = cur + 1
           /\ bads' \in 0 .. SblkBlks /\ errs' \in BOOLEAN
           /\ bads' <= cur' % SblkBlks
<1>1. cur \in Nat /\ cur' = cur + 1 /\ cur' \in 0 .. Places /\ bads \in Nat
  BY Banks DEF NextCode, TypeOK
<1>2. (cur + 1) % SblkBlks = IF cur % SblkBlks = SblkBlks - 1 THEN 0 ELSE (cur % SblkBlks) + 1
  BY <1>1, NextMod
<1>3. cur % SblkBlks \in 0 .. (SblkBlks - 1)
  BY <1>1, DivMod
<1>4. bads <= cur % SblkBlks
  BY DEF CountInv
<1>5. CASE cur % SblkBlks = SblkBlks - 1
  BY <1>1, <1>2, <1>5 DEF NextCode, TypeOK
<1>6. CASE cur % SblkBlks # SblkBlks - 1
  BY <1>1, <1>2, <1>3, <1>4, <1>6 DEF NextCode, TypeOK
<1> QED
  BY <1>1, <1>5, <1>6

LEMMA TypeCodes ==
    ASSUME TypeOK, CountInv, SkipCode \/ WriteCode \/ CodeFails
    PROVE  TypeOK' /\ CountInv'
<1>1. pc = "codes" /\ cur < Places /\ Current \in Place
  BY CurrentPlace DEF SkipCode, WriteCode, CodeFails, TypeOK
<1>2. \E n \in {bads, bads + 1} : NextCode(n)
  BY DEF SkipCode, WriteCode, CodeFails
<1>3. /\ cur' \in 0 .. Places /\ bads' \in 0 .. SblkBlks /\ errs' \in BOOLEAN
      /\ bads' <= cur' % SblkBlks
  BY <1>1, <1>2, CountStep
<1>4. CASE SkipCode
  <2>1. gulFailedImageBitMap' \subseteq Bit
    BY <1>1, <1>4, Bits DEF SkipCode, NoteBad, TypeOK
  <2> QED
    BY <1>3, <1>4, <2>1 DEF SkipCode, TypeOK, CountInv, window, tables
<1>5. CASE WriteCode
  <2>1. flash' \in [Block -> Content]
    BY <1>5, FlashExcept DEF WriteCode
  <2> QED
    BY <1>3, <1>5, <2>1 DEF WriteCode, TypeOK, CountInv, window, tables
<1>6. CASE CodeFails
  <2>1. flash' \in [Block -> Content]
    BY <1>6, FlashExcept DEF CodeFails
  <2>2. gulFailedImageBitMap' \subseteq Bit
    BY <1>1, <1>6, Bits DEF CodeFails, NoteBad, TypeOK
  <2>3. guwSBlkNo' \in [Place -> {"good", "bad", "absent"}]
    BY <1>6 DEF CodeFails, WithoutPlace, TypeOK
  <2>4. fails' \in 0 .. MaxFail
    BY <1>6, FailBound DEF CodeFails, TypeOK
  <2> QED
    BY <1>3, <1>6, <2>1, <2>2, <2>3, <2>4 DEF CodeFails, TypeOK, CountInv, window, tables
<1> QED
  BY <1>4, <1>5, <1>6

LEMMA TypeCheck ==
    ASSUME TypeOK, WindowInv, CodesDone \/ CheckSblock
    PROVE  TypeOK'
<1>1. CASE CodesDone
  <2>1. pc' \in {"check", "done"} /\ ret' \in Results
    BY <1>1 DEF CodesDone, Results
  <2> QED
    BY <1>1, <2>1 DEF CodesDone, TypeOK, window, tables, loop
<1>2. CASE CheckSblock
  <2>1. gulSblkCHCEMap' \subseteq Entry
    <3>1. \A p \in Good : p \in Place /\ WindowValid
      BY DEF WindowInv, Good, AllBad
    <3> QED
      BY <1>2, <3>1, Geometry DEF CheckSblock, TypeOK
  <2>2. ret' \in Results
    BY <1>2 DEF CheckSblock, Results
  <2> QED
    BY <1>2, <2>1, <2>2 DEF CheckSblock, TypeOK, window, tables, loop
<1> QED
  BY <1>1, <1>2

LEMMA TypeDrop ==
    ASSUME TypeOK, NEW lost, Drop(lost)
    PROVE  /\ gulSblkCHCEMap' \subseteq Entry
           /\ guwSBlkNo' \in [Place -> {"good", "bad", "absent"}]
BY DEF Drop, TypeOK

LEMMA TypeWhole ==
    ASSUME NEW ps \in SUBSET Place
    PROVE  Cardinality(Whole(ps)) \in Nat
BY Finite DEF Whole

LEMMA TypeRead ==
    ASSUME TypeOK, WindowInv,
           ReadConfig \/ ReadTable("readDbt", "readRemap") \/ ReadTable("readRemap", "eraseCopies")
    PROVE  TypeOK'
<1>1. \E lost : Drop(lost)
  BY DEF ReadConfig, ReadTable
<1>2. /\ gulSblkCHCEMap' \subseteq Entry
      /\ guwSBlkNo' \in [Place -> {"good", "bad", "absent"}]
  BY <1>1, TypeDrop
<1>3. \E ps \in SUBSET Place : Fail(Cardinality(Whole(ps)))
  BY DEF ReadConfig, ReadTable
<1>4. fails' \in 0 .. MaxFail
  BY <1>3, TypeWhole, FailBound DEF TypeOK
<1>5. sysDbt' \subseteq Block
  BY DEF ReadConfig, ReadTable, TypeOK
<1>6. pc' \in {"readDbt", "again", "readRemap", "eraseCopies", "done"} /\ ret' \in Results
  BY DEF ReadConfig, ReadTable, TypeOK, Results
<1>7. CASE ReadConfig
  <2>1. sblk' \in Page
    <3>1. CASE sblk' = sblk
      BY <3>1 DEF TypeOK
    <3>2. ASSUME NEW p \in Place, IsRead(p), sblk' = flash[BlockOf(p)].page
          PROVE  sblk' \in Page
      <4>1. WindowValid
        BY <3>2 DEF WindowInv, IsRead, AllBad
      <4>2. BlockOf(p) \in Block
        BY <4>1, Geometry DEF TypeOK
      <4> QED
        BY <3>2, <4>2 DEF TypeOK, Content
    <3> QED
      BY <1>7, <3>1, <3>2 DEF ReadConfig
  <2> QED
    BY <1>2, <1>4, <1>5, <1>6, <1>7, <2>1 DEF ReadConfig, TypeOK, window, loop
<1>8. CASE ReadTable("readDbt", "readRemap") \/ ReadTable("readRemap", "eraseCopies")
  BY <1>2, <1>4, <1>5, <1>6, <1>8 DEF ReadTable, TypeOK, window, loop
<1> QED
  BY <1>7, <1>8

------------------------------------------------------------------------------
(* The steps                                                               *)

LEMMA JobFixed == [Next]_vars => job' = job
BY DEF Next, vars, ChooseWindow, EraseWindow, SetConfig, SkipHead, WriteHead, HeadFails,
       HeadsDone, WriteAgain, SetSblkToDBT, SkipCode, WriteCode, CodeFails, CodesDone,
       CheckSblock, ReadConfig, ReadTable, EraseCopies

\* Only the window gives places their blocks.
LEMMA SameWindow ==
    ASSUME UNCHANGED window
    PROVE  /\ \A p : BlockOf(p)' = BlockOf(p) /\ EntryOf(p)' = EntryOf(p)
           /\ \A e : EntryBlock(e)' = EntryBlock(e)
           /\ WindowValid' <=> WindowValid
BY DEF window, BlockOf, BlockAt, EntryOf, EntryBlock, WindowValid

\* The test of a window leaves no copy that was not there, and good blocks clean.
LEMMA TestLeaves ==
    ASSUME TypeOK, NEW bad \in SUBSET WindowBlocks, NEW stuck \in SUBSET WindowBlocks,
           bad \cap stuck = {}, flash' = FlashAfterTest(bad, stuck)
    PROVE  /\ Copies' \subseteq Copies
           /\ \A b \in Block : b \in WindowBlocks /\ b \notin sysDbt \cup bad
                               => flash'[b].state \in {"erased", "used"}
BY DEF FlashAfterTest, Copies, Torn, Used, Erased, TypeOK

LEMMA StepChoose ==
    ASSUME CopiesInv, ChooseWindow
    PROVE  RestInv'
<1>1. /\ WindowValid /\ gubSblkStart \in Nat /\ gubSblkBankStart \in Nat
      /\ pc = "choose" /\ job.kind # "update" /\ Copies = {}
  BY DEF CopiesInv, RestInv, WindowInv, BranchInv, ExactInv, ChooseWindow, TypeOK
<1>2. WindowBlocks \subseteq Block
  BY <1>1, WindowBlocksOnFlash DEF CopiesInv
<1>3. PICK bad \in SUBSET (WindowBlocks \ sysDbt), stuck \in SUBSET (WindowBlocks \ sysDbt) :
        /\ bad \cap stuck = {}
        /\ flash' = FlashAfterTest(bad, stuck)
        /\ TakeWindow(bad) \/ TryNext(bad)
  BY DEF ChooseWindow
<1>4. /\ Copies' = {}
      /\ \A b \in Block : b \in WindowBlocks /\ b \notin sysDbt \cup bad
                          => flash'[b].state \in {"erased", "used"}
  BY <1>1, <1>3, TestLeaves DEF CopiesInv
<1>5. UNCHANGED job
  BY DEF ChooseWindow
<1>6. CASE TakeWindow(bad)
  <2>1. /\ UNCHANGED window /\ pc' \in {"erase", "config"}
        /\ guwSBlkNo' = [p \in Place |-> IF p \in GoodBut(bad) THEN "good" ELSE "bad"]
        /\ gulSblkCHCEMap' = gulSblkCHCEMap \cup {EntryOf(p) : p \in GoodBut(bad)}
    BY <1>6 DEF TakeWindow
  <2>2. WindowInv'
    BY <1>1, <2>1, SameWindow DEF WindowInv
  <2>3. BranchInv'
    BY <1>1, <1>5, <2>1 DEF BranchInv
  <2>4. MapInv'
    BY <2>1, SameWindow DEF MapInv
  <2>5. ProtectedInv' /\ ExactInv' /\ CountInv'
    BY <1>4, <2>1 DEF ProtectedInv, ExactInv, CountInv
  <2>6. Good' \subseteq GoodBut(bad)
    BY <2>1 DEF Good
  <2>7. \A p \in GoodBut(bad) : /\ BlockOf(p) \in Block /\ BlockOf(p) \in WindowBlocks
                                /\ BlockOf(p) \notin sysDbt \cup bad
    BY <1>1, Geometry DEF GoodBut, WindowBlocks
  <2>8. CleanInv'
    BY <1>4, <2>1, <2>6, <2>7, SameWindow DEF CleanInv, Clean
  <2> QED
    BY <2>2, <2>3, <2>4, <2>5, <2>8 DEF RestInv
<1>7. CASE TryNext(bad)
  <2>1. /\ guwSBlkNo' = AllBad /\ pc' \in {"choose", "config", "done"}
        /\ pc' = "done" => ret' = "ERR_READ_SBLK"
        /\ pc' = "choose" => ~LastWindow
    BY <1>7 DEF TryNext, ChooseWindow
  <2>2. AllBad' = AllBad /\ Good' = {}
    BY <2>1 DEF AllBad, Good
  <2>3. pc' = "choose" => WindowValid'
    <3>1. NextWindow /\ gubSblkStart <= ExtBlks /\ gubSblkBankStart + SysBanks <= BankNum
      BY <1>1, <1>7 DEF TryNext, WindowValid
    <3> QED
      BY <3>1, <1>1, <2>1, Banks DEF NextWindow, LastWindow, WindowValid
  <2>4. WindowInv'
    BY <1>1, <1>5, <2>1, <2>2, <2>3 DEF WindowInv
  <2>5. BranchInv'
    BY <1>1, <1>5, <2>1 DEF BranchInv
  <2>6. MapInv'
    BY <2>1 DEF MapInv, AllBad
  <2>7. ProtectedInv' /\ ExactInv' /\ CountInv'
    BY <1>4, <2>1 DEF ProtectedInv, ExactInv, CountInv
  <2>8. CleanInv'
    BY <2>1, <2>2 DEF CleanInv
  <2> QED
    BY <2>4, <2>5, <2>6, <2>7, <2>8 DEF RestInv
<1> QED
  BY <1>3, <1>6, <1>7

LEMMA StepErase ==
    ASSUME CopiesInv, EraseWindow
    PROVE  RestInv'
<1>1. /\ WindowValid /\ gubSblkStart \in Nat /\ gubSblkBankStart \in Nat
      /\ pc = "erase" /\ pc' = "config" /\ job.kind # "update" /\ Copies = {}
      /\ UNCHANGED <<job, window, guwSBlkNo, gulSblkCHCEMap>>
  BY DEF CopiesInv, RestInv, WindowInv, BranchInv, ExactInv, EraseWindow, TypeOK
<1>2. PICK failed \in SUBSET UpToWindow(gubSblkStart) :
        /\ gulEraseFailSysblk' = gulEraseFailSysblk \cup
                                    {FailBit(p) : p \in {q \in Place : BlockOf(q) \in failed}}
        /\ flash' = [b \in Block |-> IF b \in failed THEN Torn
                                     ELSE IF b \in UpToWindow(gubSblkStart) THEN Erased
                                     ELSE flash[b]]
  BY DEF EraseWindow
<1>3. Copies' = {}
  BY <1>1, <1>2 DEF Copies, Torn, Erased
<1>4. ASSUME NEW p \in Good, FailBit(p) \notin gulEraseFailSysblk'
      PROVE  flash'[BlockOf(p)].state = "erased"
  <2>1. p \in Place /\ BlockOf(p) \in Block
    BY <1>1, Geometry DEF Good
  <2>2. BlockOf(p) \notin failed
    BY <1>2, <1>4, <2>1
  <2>3. BlockOf(p) \in UpToWindow(gubSblkStart)
    <3>1. BlockOf(p)[2] = gubSblkStart + p[2] /\ p[2] \in 0 .. (SblkBlks - 1)
      BY <2>1 DEF BlockOf, BlockAt, Place
    <3> QED
      BY <3>1, <2>1, <1>1 DEF UpToWindow
  <2> QED
    BY <1>2, <2>1, <2>2, <2>3 DEF Erased
<1>5. Good' = Good /\ WindowInv' /\ BranchInv'
  BY <1>1, SameWindow DEF Good, WindowInv, BranchInv
<1>6. MapInv'
  BY <1>1, SameWindow DEF MapInv, CopiesInv, RestInv
<1>7. ProtectedInv' /\ ExactInv' /\ CountInv'
  BY <1>1, <1>3 DEF ProtectedInv, ExactInv, CountInv
<1>8. CleanInv'
  <2>1. \A p \in (Good \ EraseFailed)' : p \in Good /\ FailBit(p) \notin gulEraseFailSysblk'
    BY <1>5 DEF EraseFailed, Good, FailBit
  <2> QED
    BY <1>1, <1>4, <2>1, SameWindow DEF CleanInv, Clean
<1> QED
  BY <1>5, <1>6, <1>7, <1>8 DEF RestInv

LEMMA StepConfig ==
    ASSUME CopiesInv, SetConfig
    PROVE  RestInv'
<1>1. /\ pc = "config" /\ pc' = "heads" /\ job.kind # "update" /\ Copies = {}
      /\ UNCHANGED <<job, window, flash, gulEraseFailSysblk>>
      /\ gubSblkStart \in Nat /\ gubSblkBankStart \in Nat
      /\ guwSBlkNo \in [Place -> {"good", "bad", "absent"}]
  BY DEF CopiesInv, RestInv, BranchInv, ExactInv, SetConfig, TypeOK, tables
<1>2. /\ gulSblkCHCEMap' = gulSblkCHCEMap \ {EntryOf(p) : p \in EraseFailed}
      /\ guwSBlkNo' = [p \in Place |-> IF p \in EraseFailed THEN "bad" ELSE guwSBlkNo[p]]
      /\ cur' = 0 /\ pass' = 1
  BY DEF SetConfig
<1>3. EraseFailed \subseteq Place
  BY DEF EraseFailed
<1>4. WindowInv'
  <2>1. guwSBlkNo = AllBad => guwSBlkNo' = AllBad'
    BY <1>2 DEF AllBad
  <2> QED
    BY <1>1, <2>1, SameWindow DEF CopiesInv, RestInv, WindowInv
<1>5. BranchInv'
  BY <1>1 DEF BranchInv
<1>6. MapInv'
  <2>1. ASSUME NEW p \in Place
        PROVE  /\ guwSBlkNo'[p] = "absent" => EntryOf(p) \notin gulSblkCHCEMap'
               /\ guwSBlkNo'[p] = "good" => EntryOf(p) \in gulSblkCHCEMap'
    <3>1. /\ guwSBlkNo[p] = "absent" => EntryOf(p) \notin gulSblkCHCEMap
          /\ guwSBlkNo[p] = "good" => EntryOf(p) \in gulSblkCHCEMap
      BY <1>1 DEF CopiesInv, RestInv, MapInv
    <3>2. p \notin EraseFailed => EntryOf(p) \notin {EntryOf(q) : q \in EraseFailed}
      BY <1>1, <1>3, Geometry
    <3> QED
      BY <1>2, <3>1, <3>2
  <2> QED
    BY <1>1, <2>1, SameWindow DEF MapInv
<1>7. ProtectedInv' /\ ExactInv' /\ CountInv'
  <2>1. Copies' = {}
    BY <1>1 DEF Copies
  <2> QED
    BY <1>1, <2>1 DEF ProtectedInv, ExactInv, CountInv
<1>8. CleanInv'
  <2>1. ASSUME NEW p \in Place, IsWritten(p)'
        PROVE  Clean(p)
    <3>1. guwSBlkNo'[p] # "bad" /\ EntryOf(p) \in gulSblkCHCEMap'
      BY <1>1, <2>1, SameWindow DEF IsWritten
    <3>2. p \notin EraseFailed /\ guwSBlkNo[p] = "good"
      BY <1>1, <1>2, <3>1 DEF CopiesInv, RestInv, MapInv
    <3> QED
      BY <1>1, <3>2 DEF CopiesInv, RestInv, CleanInv, Good
  <2> QED
    BY <1>1, <2>1, SameWindow DEF CleanInv, Clean
<1> QED
  BY <1>4, <1>5, <1>6, <1>7, <1>8 DEF RestInv

\* What the loops over the copies use of the state before.
LEMMA LoopFacts ==
    ASSUME CopiesInv, cur < Places
    PROVE  /\ Current \in Place /\ Index(Current) = cur /\ cur \in Nat
           /\ gubSblkStart \in Nat /\ gubSblkBankStart \in Nat
           /\ guwSBlkNo \in [Place -> {"good", "bad", "absent"}]
           /\ flash \in [Block -> Content]
           /\ \A p \in Place : Index(p) \in Nat
           /\ \A p \in Place : p # Current => Index(p) # cur /\ BlockOf(p) # BlockOf(Current)
           /\ IsWritten(Current) => Current \in Good /\ WindowValid /\ BlockOf(Current) \in Block
<1>1. /\ cur \in 0 .. Places /\ cur \in Nat
      /\ gubSblkStart \in Nat /\ gubSblkBankStart \in Nat
      /\ guwSBlkNo \in [Place -> {"good", "bad", "absent"}]
      /\ flash \in [Block -> Content]
  BY Banks DEF CopiesInv, TypeOK
<1>2. Current \in Place /\ Index(Current) = cur
  BY <1>1, CurrentPlace
<1>3. \A p \in Place : Index(p) \in Nat
  BY PlaceIndex, Banks
<1>4. \A p \in Place : p # Current => Index(p) # cur /\ BlockOf(p) # BlockOf(Current)
  BY <1>1, <1>2, IndexUnique, Geometry
<1>5. ASSUME IsWritten(Current)
      PROVE  Current \in Good /\ WindowValid /\ BlockOf(Current) \in Block
  <2>1. guwSBlkNo[Current] = "good"
    BY <1>1, <1>2, <1>5 DEF IsWritten, CopiesInv, RestInv, MapInv
  <2>2. WindowValid
    BY <2>1, <1>2 DEF CopiesInv, RestInv, WindowInv, AllBad
  <2> QED
    BY <1>1, <1>2, <2>1, <2>2, Geometry DEF Good
<1> QED
  BY <1>1, <1>2, <1>3, <1>4, <1>5

LEMMA StepSkipHead ==
    ASSUME CopiesInv, SkipHead
    PROVE  RestInv'
<1>1. /\ pc = "heads" /\ pc' = "heads" /\ cur' = cur + 1 /\ ~IsWritten(Current) /\ cur < Places
      /\ UNCHANGED <<job, window, guwSBlkNo, gulSblkCHCEMap, dbt, flash, pass>>
  BY DEF SkipHead, tables, loop
<1>2. WindowInv' /\ BranchInv' /\ MapInv'
  BY <1>1, SameWindow DEF CopiesInv, RestInv, WindowInv, BranchInv, MapInv, AllBad
<1>3. ProtectedInv' /\ ExactInv' /\ CountInv'
  BY <1>1 DEF CopiesInv, RestInv, ProtectedInv, ExactInv, CountInv, Copies
<1>4. CleanInv'
  <2>1. ASSUME NEW p \in Place, IsWritten(p)', cur' <= Index(p)', pass' = 1
        PROVE  Clean(p)
    <3>1. IsWritten(p) /\ cur <= Index(p)
      BY <1>1, <2>1, SameWindow, LoopFacts DEF IsWritten, Index
    <3> QED
      BY <1>1, <2>1, <3>1 DEF CopiesInv, RestInv, CleanInv
  <2> QED
    BY <1>1, <2>1, SameWindow DEF CleanInv, Clean
<1> QED
  BY <1>2, <1>3, <1>4 DEF RestInv

LEMMA StepHead ==
    ASSUME CopiesInv, WriteHead \/ HeadFails
    PROVE  RestInv'
<1>1. /\ pc = "heads" /\ pc' = "heads" /\ cur' = cur + 1 /\ IsWritten(Current) /\ cur < Places
      /\ UNCHANGED <<job, window, gulSblkCHCEMap, dbt, pass>>
      /\ guwSBlkNo' = guwSBlkNo \/ guwSBlkNo' = [guwSBlkNo EXCEPT ![Current] = "bad"]
  BY DEF WriteHead, HeadFails, tables, loop
<1>2. PICK c : c.state # "full" /\ flash' = [flash EXCEPT ![BlockOf(Current)] = c]
  <2>1. CASE WriteHead
    <3>1. [state |-> "head", page |-> sblk].state # "full"
      OBVIOUS
    <3> QED
      BY <2>1, <3>1 DEF WriteHead
  <2>2. CASE HeadFails
    <3>1. Erased.state # "full" /\ Torn.state # "full"
      BY DEF Erased, Torn
    <3> QED
      BY <2>2, <3>1 DEF HeadFails
  <2> QED
    BY <2>1, <2>2
<1>3. Copies' \subseteq Copies
  BY <1>2, <1>1, LoopFacts DEF Copies
<1>4. WindowInv' /\ BranchInv'
  BY <1>1, LoopFacts, SameWindow DEF CopiesInv, RestInv, WindowInv, BranchInv, AllBad
<1>5. MapInv'
  BY <1>1, LoopFacts, SameWindow DEF CopiesInv, RestInv, MapInv
<1>6. ProtectedInv' /\ ExactInv' /\ CountInv'
  BY <1>1, <1>3 DEF CopiesInv, RestInv, ProtectedInv, ExactInv, CountInv
<1>7. CleanInv'
  <2>1. ASSUME NEW p \in Place, IsWritten(p)', cur' <= Index(p)', pass' = 1
        PROVE  flash'[BlockOf(p)].state \in {"erased", "used"}
    <3>1. IsWritten(p) /\ cur <= Index(p) /\ p # Current
      BY <1>1, <2>1, SameWindow, LoopFacts DEF IsWritten, Index
    <3>2. Clean(p)
      BY <1>1, <2>1, <3>1 DEF CopiesInv, RestInv, CleanInv
    <3>3. flash'[BlockOf(p)] = flash[BlockOf(p)]
      <4>1. BlockOf(p) # BlockOf(Current)
        BY <1>1, <3>1, LoopFacts
      <4>2. guwSBlkNo[p] = "good"
        BY <1>1, <3>1, LoopFacts DEF IsWritten, CopiesInv, RestInv, MapInv
      <4>3. BlockOf(p) \in Block
        BY <1>1, LoopFacts, Geometry
      <4> QED
        BY <1>1, <1>2, <4>1, <4>3, LoopFacts
    <3> QED
      BY <3>2, <3>3 DEF Clean
  <2> QED
    BY <1>1, <2>1, SameWindow DEF CleanInv, Clean
<1> QED
  BY <1>4, <1>5, <1>6, <1>7 DEF RestInv

LEMMA StepHeadsDone ==
    ASSUME CopiesInv, HeadsDone
    PROVE  RestInv'
<1>1. /\ pc = "heads" /\ pc' \in {"mark", "again", "done"}
      /\ pc' = "done" => ret' # "ERR_OK"
      /\ UNCHANGED <<job, window, guwSBlkNo, gulSblkCHCEMap, dbt, flash>>
  BY DEF HeadsDone, tables
<1>2. WindowInv' /\ BranchInv' /\ MapInv'
  BY <1>1, SameWindow DEF CopiesInv, RestInv, WindowInv, BranchInv, MapInv, AllBad
<1>3. ProtectedInv' /\ ExactInv' /\ CountInv' /\ CleanInv'
  BY <1>1 DEF CopiesInv, RestInv, ProtectedInv, ExactInv, CountInv, CleanInv, Copies
<1> QED
  BY <1>2, <1>3 DEF RestInv

\* An erase of the blocks of the map leaves no copy that was not there.
LEMMA EraseLeaves ==
    ASSUME TypeOK, NEW stop, EraseSblk(stop)
    PROVE  /\ Copies' \subseteq Copies
           /\ stop = {} => \A e \in gulSblkCHCEMap : EntryBlock(e) \in Block
                               => flash'[EntryBlock(e)].state = "erased"
BY DEF EraseSblk, llfEraseSblk, Copies, Erased

LEMMA StepAgain ==
    ASSUME CopiesInv, WriteAgain
    PROVE  RestInv'
<1>1. /\ pc = "again" /\ pc' = "heads" /\ pass' = 2
      /\ UNCHANGED <<job, window, guwSBlkNo, gulSblkCHCEMap, dbt>>
  BY DEF WriteAgain, tables
<1>2. Copies' \subseteq Copies
  BY EraseLeaves DEF WriteAgain, CopiesInv
<1>3. WindowInv' /\ BranchInv' /\ MapInv'
  BY <1>1, SameWindow DEF CopiesInv, RestInv, WindowInv, BranchInv, MapInv, AllBad
<1>4. ProtectedInv' /\ ExactInv' /\ CountInv' /\ CleanInv'
  BY <1>1, <1>2 DEF CopiesInv, RestInv, ProtectedInv, ExactInv, CountInv, CleanInv
<1> QED
  BY <1>3, <1>4 DEF RestInv

LEMMA StepMark ==
    ASSUME CopiesInv, SetSblkToDBT
    PROVE  RestInv'
<1>1. /\ pc = "mark" /\ pc' = "codes" /\ cur' = 0 /\ bads' = 0
      /\ UNCHANGED <<job, window, guwSBlkNo, gulSblkCHCEMap, flash>>
      /\ dbt \subseteq dbt'
  BY DEF SetSblkToDBT
<1>2. {BlockOf(p) : p \in Good} \subseteq dbt'
  BY DEF SetSblkToDBT, BlockOf, BlockAt, MarkedBank
<1>3. Good' = Good /\ Copies' = Copies
  BY <1>1 DEF Good, Copies
<1>4. WindowInv' /\ BranchInv' /\ MapInv'
  BY <1>1, SameWindow DEF CopiesInv, RestInv, WindowInv, BranchInv, MapInv, AllBad
<1>5. ProtectedInv'
  BY <1>1, <1>2, <1>3, SameWindow DEF CopiesInv, RestInv, ProtectedInv
<1>6. ExactInv'
  <2>1. \A p \in Place : ~(Index(p)' < cur')
    BY <1>1, PlaceIndex, Banks DEF Index
  <2>2. \A p \in Good' : p \in Place
    BY <1>3 DEF Good
  <2>3. {q \in Good : Index(q) < cur}' = {}
    BY <2>1, <2>2
  <2> QED
    BY <1>1, <1>3, <2>3 DEF CopiesInv, RestInv, ExactInv
<1>7. CountInv'
  <2>1. 0 % SblkBlks \in 0 .. (SblkBlks - 1)
    BY DivMod
  <2> QED
    BY <1>1, <2>1 DEF CountInv
<1>8. CleanInv'
  BY <1>1 DEF CleanInv
<1> QED
  BY <1>4, <1>5, <1>6, <1>7, <1>8 DEF RestInv

\* The part of a step of the second loop that is the same for all its actions.
LEMMA StepCodesRest ==
    ASSUME CopiesInv, SkipCode \/ WriteCode \/ CodeFails
    PROVE  /\ pc = "codes" /\ pc' = "codes" /\ cur' = cur + 1 /\ cur < Places
           /\ UNCHANGED <<job, window, gulSblkCHCEMap, dbt>>
           /\ guwSBlkNo' = guwSBlkNo \/ guwSBlkNo' = [guwSBlkNo EXCEPT ![Current] = "bad"]
           /\ WindowInv' /\ BranchInv' /\ MapInv' /\ CleanInv' /\ CountInv'
           /\ Good' \subseteq Good
<1>1. /\ pc = "codes" /\ pc' = "codes" /\ cur' = cur + 1 /\ cur < Places
      /\ UNCHANGED <<job, window, gulSblkCHCEMap, dbt>>
      /\ guwSBlkNo' = guwSBlkNo \/ guwSBlkNo' = [guwSBlkNo EXCEPT ![Current] = "bad"]
  BY DEF SkipCode, WriteCode, CodeFails, NextCode, WithoutPlace, tables
<1>2. WindowInv' /\ BranchInv'
  BY <1>1, LoopFacts, SameWindow DEF CopiesInv, RestInv, WindowInv, BranchInv, AllBad
<1>3. MapInv'
  BY <1>1, LoopFacts, SameWindow DEF CopiesInv, RestInv, MapInv
<1>4. CleanInv'
  BY <1>1 DEF CleanInv
<1>5. CountInv'
  BY TypeCodes DEF CopiesInv, RestInv
<1>6. Good' \subseteq Good
  BY <1>1, LoopFacts DEF Good
<1> QED
  BY <1>1, <1>2, <1>3, <1>4, <1>5, <1>6

LEMMA StepSkipCode ==
    ASSUME CopiesInv, SkipCode
    PROVE  RestInv'
<1>1. /\ pc = "codes" /\ cur' = cur + 1 /\ cur < Places /\ ~IsWritten(Current)
      /\ UNCHANGED <<job, window, guwSBlkNo, gulSblkCHCEMap, dbt, flash>>
  BY StepCodesRest DEF SkipCode
<1>2. Good' = Good /\ Copies' = Copies
  BY <1>1 DEF Good, Copies
<1>3. ProtectedInv'
  BY <1>1, <1>2, SameWindow DEF CopiesInv, RestInv, ProtectedInv
<1>4. ExactInv'
  <2> SUFFICES ASSUME job.kind # "update"
               PROVE  Copies = {BlockOf(p) : p \in {q \in Good : Index(q) < cur + 1}}
    <3>1. \A q : Index(q)' = Index(q)
      BY DEF Index
    <3>2. \A q : BlockOf(q)' = BlockOf(q)
      BY <1>1, SameWindow
    <3>3. pc' = "codes"
      BY StepCodesRest
    <3> QED
      BY <1>1, <1>2, <3>1, <3>2, <3>3 DEF ExactInv
  <2>1. Copies = {BlockOf(p) : p \in {q \in Good : Index(q) < cur}}
    BY <1>1 DEF CopiesInv, RestInv, ExactInv
  <2>2. Current \notin Good
    BY <1>1, LoopFacts DEF CopiesInv, RestInv, MapInv, IsWritten, Good
  <2>3. \A q \in Good : Index(q) < cur + 1 <=> Index(q) < cur
    <3>1. \A q \in Good : q \in Place /\ q # Current
      BY <2>2 DEF Good
    <3> QED
      BY <1>1, <3>1, LoopFacts
  <2> QED
    BY <2>1, <2>3
<1> QED
  BY <1>3, <1>4, StepCodesRest DEF RestInv

LEMMA StepWriteCode ==
    ASSUME CopiesInv, WriteCode
    PROVE  RestInv'
<1>1. /\ pc = "codes" /\ cur' = cur + 1 /\ cur < Places /\ IsWritten(Current)
      /\ UNCHANGED <<job, window, guwSBlkNo, gulSblkCHCEMap, dbt>>
      /\ flash' = [flash EXCEPT ![BlockOf(Current)].state = "full"]
  BY StepCodesRest DEF WriteCode
<1>2. Current \in Good /\ BlockOf(Current) \in Block
  BY <1>1, LoopFacts
<1>3. Good' = Good /\ Copies' = Copies \cup {BlockOf(Current)}
  <2>1. Good' = Good
    BY <1>1 DEF Good
  <2>2. \A b \in Block : flash'[b].state = IF b = BlockOf(Current) THEN "full" ELSE flash[b].state
    <3>1. flash[BlockOf(Current)] \in Content
      BY <1>1, <1>2, LoopFacts
    <3> QED
      BY <1>1, <1>2, <3>1, LoopFacts DEF Content
  <2> QED
    BY <1>2, <2>1, <2>2 DEF Copies
<1>4. ProtectedInv'
  BY <1>1, <1>2, <1>3, SameWindow DEF CopiesInv, RestInv, ProtectedInv
<1>5. ExactInv'
  <2> SUFFICES ASSUME job.kind # "update"
               PROVE  Copies \cup {BlockOf(Current)}
                      = {BlockOf(p) : p \in {q \in Good : Index(q) < cur + 1}}
    <3>1. \A q : Index(q)' = Index(q)
      BY DEF Index
    <3>2. \A q : BlockOf(q)' = BlockOf(q)
      BY <1>1, SameWindow
    <3>3. pc' = "codes"
      BY StepCodesRest
    <3> QED
      BY <1>1, <1>3, <3>1, <3>2, <3>3 DEF ExactInv
  <2>1. Copies = {BlockOf(p) : p \in {q \in Good : Index(q) < cur}}
    BY <1>1 DEF CopiesInv, RestInv, ExactInv
  <2>2. \A q \in Good : Index(q) < cur + 1 <=> Index(q) < cur \/ q = Current
    <3>1. \A q \in Good : q \in Place
      BY DEF Good
    <3> QED
      BY <1>1, <3>1, LoopFacts
  <2> QED
    BY <1>2, <2>1, <2>2
<1> QED
  BY <1>4, <1>5, StepCodesRest DEF RestInv

LEMMA StepCodeFails ==
    ASSUME CopiesInv, CodeFails
    PROVE  RestInv'
<1>1. /\ pc = "codes" /\ cur' = cur + 1 /\ cur < Places /\ IsWritten(Current)
      /\ UNCHANGED <<job, window, gulSblkCHCEMap, dbt>>
      /\ guwSBlkNo' = [guwSBlkNo EXCEPT ![Current] = "bad"]
      /\ flash' = [flash EXCEPT ![BlockOf(Current)].state = "part"]
  BY StepCodesRest DEF CodeFails, WithoutPlace
<1>2. Current \in Good /\ BlockOf(Current) \in Block
  BY <1>1, LoopFacts
<1>3. Good' = Good \ {Current} /\ Copies' = Copies \ {BlockOf(Current)}
  <2>1. Good' = Good \ {Current}
    BY <1>1, LoopFacts DEF Good
  <2>2. \A b \in Block : flash'[b].state = IF b = BlockOf(Current) THEN "part" ELSE flash[b].state
    <3>1. flash[BlockOf(Current)] \in Content
      BY <1>1, <1>2, LoopFacts
    <3> QED
      BY <1>1, <1>2, <3>1, LoopFacts DEF Content
  <2> QED
    BY <1>2, <2>1, <2>2 DEF Copies
<1>4. ProtectedInv'
  BY <1>1, <1>3, SameWindow DEF CopiesInv, RestInv, ProtectedInv
<1>5. ExactInv'
  <2> SUFFICES ASSUME job.kind # "update"
               PROVE  Copies \ {BlockOf(Current)}
                      = {BlockOf(p) : p \in {q \in Good \ {Current} : Index(q) < cur + 1}}
    <3>1. \A q : Index(q)' = Index(q)
      BY DEF Index
    <3>2. \A q : BlockOf(q)' = BlockOf(q)
      BY <1>1, SameWindow
    <3>3. pc' = "codes"
      BY StepCodesRest
    <3> QED
      BY <1>1, <1>3, <3>1, <3>2, <3>3 DEF ExactInv
  <2>1. Copies = {BlockOf(p) : p \in {q \in Good : Index(q) < cur}}
    BY <1>1 DEF CopiesInv, RestInv, ExactInv
  <2>2. /\ \A q \in Good \ {Current} : /\ Index(q) < cur + 1 <=> Index(q) < cur
                                       /\ BlockOf(q) # BlockOf(Current)
        /\ ~(Index(Current) < cur)
    <3>1. \A q \in Good : q \in Place
      BY DEF Good
    <3> QED
      BY <1>1, <3>1, LoopFacts
  <2> QED
    BY <1>2, <2>1, <2>2
<1> QED
  BY <1>4, <1>5, StepCodesRest DEF RestInv

LEMMA StepCodesDone ==
    ASSUME CopiesInv, CodesDone
    PROVE  RestInv'
<1>1. /\ pc = "codes" /\ cur = Places /\ pc' \in {"check", "done"}
      /\ pc' = "check" => job.kind # "update"
      /\ pc' = "done" /\ ret' = "ERR_OK" => job.kind = "update"
      /\ UNCHANGED <<job, window, guwSBlkNo, gulSblkCHCEMap, dbt, flash>>
  BY DEF CodesDone, tables
<1>2. WindowInv' /\ BranchInv' /\ MapInv'
  BY <1>1, SameWindow DEF CopiesInv, RestInv, WindowInv, BranchInv, MapInv, AllBad
<1>3. Good' = Good /\ Copies' = Copies
  BY <1>1 DEF Good, Copies
<1>4. ExactInv'
  <2>1. {q \in Good : Index(q) < Places} = Good
    BY PlaceIndex, Banks DEF Good
  <2>2. pc' = "check" => Copies = {BlockOf(p) : p \in Good}
    BY <1>1, <2>1 DEF CopiesInv, RestInv, ExactInv
  <2> QED
    BY <1>1, <1>3, <2>2, SameWindow DEF ExactInv
<1>5. ProtectedInv' /\ CountInv' /\ CleanInv'
  BY <1>1, <1>3 DEF CopiesInv, RestInv, ProtectedInv, CountInv, CleanInv
<1> QED
  BY <1>2, <1>4, <1>5 DEF RestInv

LEMMA StepCheck ==
    ASSUME CopiesInv, CheckSblock
    PROVE  RestInv'
<1>1. /\ pc = "check" /\ pc' = "done" /\ job.kind # "update"
      /\ gulSblkCHCEMap' = {EntryOf(p) : p \in Good}
      /\ UNCHANGED <<job, window, guwSBlkNo, dbt, flash>>
      /\ gubSblkStart \in Nat /\ gubSblkBankStart \in Nat
  BY DEF CheckSblock, CopiesInv, RestInv, BranchInv, TypeOK, tables
<1>2. Good' = Good /\ Copies' = Copies /\ Good \subseteq Place
  BY <1>1 DEF Good, Copies
<1>3. WindowInv'
  BY <1>1, SameWindow DEF CopiesInv, RestInv, WindowInv, AllBad
<1>4. {EntryBlock(e) : e \in gulSblkCHCEMap'} = {BlockOf(p) : p \in Good}
  <2>1. \A p \in Good : EntryBlock(EntryOf(p)) = BlockOf(p)
    BY <1>1, <1>2, Geometry
  <2> QED
    BY <1>1, <2>1
<1>5. BranchInv'
  BY <1>1, <1>2, <1>4, SameWindow DEF BranchInv
<1>6. MapInv'
  <2>1. ASSUME NEW p \in Place, guwSBlkNo[p] = "absent"
        PROVE  EntryOf(p) \notin {EntryOf(q) : q \in Good}
    BY <1>1, <1>2, <2>1, Geometry DEF Good
  <2> QED
    BY <1>1, <2>1, SameWindow DEF MapInv
<1>7. ExactInv'
  BY <1>1, <1>2, SameWindow DEF CopiesInv, RestInv, ExactInv
<1>8. ProtectedInv' /\ CountInv' /\ CleanInv'
  BY <1>1, <1>2 DEF CopiesInv, RestInv, ProtectedInv, CountInv, CleanInv
<1> QED
  BY <1>3, <1>5, <1>6, <1>7, <1>8 DEF RestInv

LEMMA StepRead ==
    ASSUME CopiesInv,
           ReadConfig \/ ReadTable("readDbt", "readRemap") \/ ReadTable("readRemap", "eraseCopies")
    PROVE  RestInv'
<1>1. /\ pc \in {"readConfig", "readDbt", "readRemap"}
      /\ pc' \in {"readDbt", "readRemap", "eraseCopies", "again", "done"}
      /\ UNCHANGED <<job, window, dbt, flash>>
  BY DEF ReadConfig, ReadTable
<1>2. job.kind = "update" /\ WindowValid
  BY <1>1 DEF CopiesInv, RestInv, BranchInv, WindowInv
<1>3. PICK lost : Drop(lost)
  BY DEF ReadConfig, ReadTable
<1>4. WindowInv' /\ BranchInv' /\ ExactInv'
  BY <1>1, <1>2, SameWindow DEF WindowInv, BranchInv, ExactInv
<1>5. MapInv'
  BY <1>1, <1>2, <1>3, SameWindow DEF Drop, MapInv, CopiesInv, RestInv
<1>6. Copies' = Copies
  BY <1>1 DEF Copies
<1>7. ProtectedInv' /\ CountInv' /\ CleanInv'
  BY <1>1, <1>6 DEF CopiesInv, RestInv, ProtectedInv, CountInv, CleanInv
<1> QED
  BY <1>4, <1>5, <1>7 DEF RestInv

LEMMA StepEraseCopies ==
    ASSUME CopiesInv, EraseCopies
    PROVE  RestInv'
<1>1. /\ pc = "eraseCopies" /\ pc' \in {"heads", "done"}
      /\ UNCHANGED <<job, window, guwSBlkNo, gulSblkCHCEMap, dbt>>
  BY DEF EraseCopies
<1>2. job.kind = "update" /\ WindowValid /\ gubSblkStart \in Nat /\ gubSblkBankStart \in Nat
  BY <1>1 DEF CopiesInv, RestInv, BranchInv, WindowInv, TypeOK
<1>3. PICK stop \in SUBSET gulSblkCHCEMap : EraseSblk(stop) /\ (pc' = "heads" => stop = {})
  BY DEF EraseCopies
<1>4. /\ Copies' \subseteq Copies
      /\ stop = {} => \A e \in gulSblkCHCEMap : EntryBlock(e) \in Block
                          => flash'[EntryBlock(e)].state = "erased"
  BY <1>3, EraseLeaves DEF CopiesInv
<1>5. WindowInv' /\ BranchInv' /\ MapInv'
  BY <1>1, <1>2, SameWindow DEF CopiesInv, RestInv, WindowInv, BranchInv, MapInv
<1>6. ProtectedInv' /\ ExactInv' /\ CountInv'
  BY <1>1, <1>2, <1>4 DEF CopiesInv, RestInv, ProtectedInv, ExactInv, CountInv
<1>7. CleanInv'
  <2>1. ASSUME NEW p \in Place, IsWritten(p)', pc' = "heads"
        PROVE  flash'[BlockOf(p)].state = "erased"
    <3>1. EntryOf(p) \in gulSblkCHCEMap
      BY <1>1, <2>1, SameWindow DEF IsWritten
    <3>2. EntryBlock(EntryOf(p)) = BlockOf(p) /\ BlockOf(p) \in Block
      BY <1>2, Geometry
    <3> QED
      BY <1>3, <1>4, <2>1, <3>1, <3>2
  <2> QED
    BY <1>1, <2>1, SameWindow DEF CleanInv, Clean
<1> QED
  BY <1>5, <1>6, <1>7 DEF RestInv

------------------------------------------------------------------------------
(* The theorems                                                            *)

LEMMA InitFacts ==
    ASSUME Init
    PROVE  /\ job \in Job /\ job \in Jobs
           /\ KnownMap(job) \subseteq Entry
           /\ {<<e[1], job.start + e[2]>> : e \in KnownMap(job)} \subseteq Block
           /\ job.failed \subseteq Block
           /\ job.bankStart + SysBanks <= BankNum
           /\ job.start \in 0 .. ExtBlks /\ job.bankStart \in Nat
<1>1. /\ job \in Job /\ job \in Jobs /\ job.failed \subseteq Block
      /\ job.start \in 0 .. ExtBlks /\ job.bankStart \in Nat
      /\ job.bankStart + SysBanks <= BankNum /\ job.map \subseteq Entry
  BY DEF Init, Job, Bank
<1>2. KnownMap(job) \subseteq Entry
  <2>1. \A p \in Place : <<job.bankStart + p[1], p[2]>> \in Entry
    BY <1>1, Banks DEF Place, Entry, Bank
  <2> QED
    BY <1>1, <2>1 DEF KnownMap
<1>3. \A e \in Entry : <<e[1], job.start + e[2]>> \in Block
  BY <1>1 DEF Entry, Block, Bank
<1> QED
  BY <1>1, <1>2, <1>3

LEMMA InitType == Init => TypeOK
<1> SUFFICES ASSUME Init PROVE TypeOK
  OBVIOUS
<1> DEFINE map == KnownMap(job)
           old == {<<e[1], job.start + e[2]>> : e \in map}
<1>1. /\ job \in Job /\ job \in Jobs /\ map \subseteq Entry /\ old \subseteq Block
      /\ job.failed \subseteq Block /\ job.start \in 0 .. ExtBlks
      /\ job.bankStart \in 0 .. BankNum
  BY InitFacts, Banks
<1>2. gubSblkStart \in 0 .. (ExtBlks + SblkBlks) /\ gubSblkBankStart \in 0 .. BankNum
  BY <1>1 DEF Init
<1>3. guwSBlkNo \in [Place -> {"good", "bad", "absent"}]
  BY DEF Init
<1>4. gulSblkCHCEMap \subseteq Entry /\ dbt \subseteq Block
  BY <1>1 DEF Init
<1>5. sysDbt \subseteq Block
  BY <1>1 DEF Init, MarksAfterErase
<1>6. gulEraseFailSysblk \subseteq Bit /\ gulFailedImageBitMap \subseteq Bit
  BY Bits DEF Init
<1>7. flash \in [Block -> Content]
  <2>1. [bitmap |-> {}, map |-> map] \in Page
    BY <1>1 DEF Page
  <2>2. /\ [state |-> "part", page |-> [bitmap |-> {}, map |-> map]] \in Content
        /\ [state |-> "full", page |-> [bitmap |-> {}, map |-> map]] \in Content
    BY <2>1 DEF Content
  <2> QED
    BY <2>2, Contents DEF Init
<1>8. sblk \in Page
  BY Contents DEF Init
<1>9. /\ pc \in {"choose", "readConfig"} /\ cur \in 0 .. Places /\ pass \in {1, 2}
      /\ pre \subseteq Bit /\ bads \in 0 .. SblkBlks /\ ret \in Results /\ fails \in 0 .. MaxFail
  BY Banks DEF Init, Results
<1>10. errs \in BOOLEAN /\ lastErr \in BOOLEAN
  BY Zenon DEF Init
<1> QED
  BY <1>1, <1>2, <1>3, <1>4, <1>5, <1>6, <1>7, <1>8, <1>9, <1>10 DEF TypeOK

LEMMA InitRest == Init => RestInv
<1> SUFFICES ASSUME Init PROVE RestInv
  OBVIOUS
<1> DEFINE map == KnownMap(job)
           old == {<<e[1], job.start + e[2]>> : e \in map}
<1>1. /\ pc \in {"choose", "readConfig"} /\ (pc = "choose" <=> job.kind # "update")
      /\ job.start \in 0 .. ExtBlks /\ job.bankStart \in Nat
      /\ job.bankStart + SysBanks <= BankNum
      /\ old \subseteq Block
  BY InitFacts DEF Init
<1>2. WindowInv
  BY <1>1, Banks DEF Init, WindowInv, WindowValid
<1>3. MapInv
  <2>1. CASE job.kind = "update"
    <3>1. /\ gubSblkBankStart = job.bankStart /\ gulSblkCHCEMap = map
          /\ guwSBlkNo = [p \in Place |-> IF <<job.bankStart + p[1], p[2]>> \in map
                                          THEN "good" ELSE "absent"]
      BY <2>1 DEF Init
    <3> QED
      BY <2>1, <3>1 DEF MapInv, EntryOf
  <2>2. CASE job.kind # "update"
    <3>1. guwSBlkNo = [p \in Place |-> "bad"]
      BY <2>2 DEF Init
    <3> QED
      BY <3>1 DEF MapInv
  <2> QED
    BY <2>1, <2>2
<1>4. /\ \A b \in Copies : job.kind = "update" /\ b \in old
      /\ job.kind = "update" => dbt = old
  <2>1. ASSUME NEW b \in Block, flash[b].state = "full"
        PROVE  job.kind = "update" /\ b \in old
    BY <2>1 DEF Init, Torn, Used, Erased
  <2>2. job.kind = "update" => dbt = old
    BY DEF Init
  <2> QED
    BY <2>1, <2>2 DEF Copies
<1>5. ProtectedInv /\ ExactInv
  BY <1>1, <1>4 DEF ProtectedInv, ExactInv
<1>6. BranchInv /\ CleanInv /\ CountInv
  BY <1>1 DEF BranchInv, CleanInv, CountInv
<1> QED
  BY <1>2, <1>3, <1>5, <1>6 DEF RestInv

LEMMA Step == CopiesInv /\ [Next]_vars => CopiesInv'
<1> SUFFICES ASSUME CopiesInv, [Next]_vars PROVE CopiesInv'
  OBVIOUS
<1>1. TypeOK /\ WindowInv /\ CountInv
  BY DEF CopiesInv, RestInv
<1>2. CASE ChooseWindow
  BY <1>1, <1>2, TypeChoose, StepChoose DEF CopiesInv
<1>3. CASE EraseWindow
  BY <1>1, <1>3, TypeErase, StepErase DEF CopiesInv
<1>4. CASE SetConfig
  BY <1>1, <1>4, TypeConfig, StepConfig DEF CopiesInv
<1>5. CASE SkipHead \/ WriteHead \/ HeadFails \/ HeadsDone
  BY <1>1, <1>5, TypeHeads, StepSkipHead, StepHead, StepHeadsDone DEF CopiesInv
<1>6. CASE WriteAgain \/ EraseCopies
  BY <1>1, <1>6, TypeAgain, StepAgain, StepEraseCopies DEF CopiesInv
<1>7. CASE SetSblkToDBT
  BY <1>1, <1>7, TypeMark, StepMark DEF CopiesInv
<1>8. CASE SkipCode \/ WriteCode \/ CodeFails
  BY <1>1, <1>8, TypeCodes, StepSkipCode, StepWriteCode, StepCodeFails DEF CopiesInv
<1>9. CASE CodesDone \/ CheckSblock
  BY <1>1, <1>9, TypeCheck, StepCodesDone, StepCheck DEF CopiesInv
<1>10. CASE \/ ReadConfig \/ ReadTable("readDbt", "readRemap")
            \/ ReadTable("readRemap", "eraseCopies")
  BY <1>1, <1>10, TypeRead, StepRead DEF CopiesInv
<1>11. CASE UNCHANGED vars
  <2>1. /\ UNCHANGED <<job, gubSblkStart, gubSblkBankStart, guwSBlkNo, gulSblkCHCEMap, sysDbt,
                       dbt, gulEraseFailSysblk, gulFailedImageBitMap, sblk, flash, pc, cur,
                       pass, pre, bads, ret, fails>>
        /\ UNCHANGED <<errs, lastErr>>
    BY <1>11 DEF vars, window, tables, loop
  <2>2. TypeOK'
    BY <1>1, <2>1 DEF TypeOK
  <2>3. RestInv'
    <3>1. Good' = Good /\ Copies' = Copies /\ EraseFailed' = EraseFailed
      BY <2>1 DEF Good, Copies, EraseFailed, FailBit
    <3>2. (\A p : IsWritten(p)' = IsWritten(p)) /\ AllBad' = AllBad /\ \A p : Index(p)' = Index(p)
      BY <2>1, SameWindow DEF IsWritten, AllBad, Index, window
    <3>3. WindowInv' /\ BranchInv' /\ MapInv'
      BY <2>1, <3>1, <3>2, SameWindow
      DEF CopiesInv, RestInv, WindowInv, BranchInv, MapInv, window
    <3>4. ProtectedInv' /\ ExactInv' /\ CountInv'
      BY <2>1, <3>1, <3>2, SameWindow
      DEF CopiesInv, RestInv, ProtectedInv, ExactInv, CountInv, window
    <3>5. CleanInv'
      BY <2>1, <3>1, <3>2, SameWindow DEF CopiesInv, RestInv, CleanInv, Clean, window
    <3> QED
      BY <3>3, <3>4, <3>5 DEF RestInv
  <2> QED
    BY <2>2, <2>3 DEF CopiesInv
<1> QED
  BY <1>2, <1>3, <1>4, <1>5, <1>6, <1>7, <1>8, <1>9, <1>10, <1>11 DEF Next

\* In every reachable state the places that are chosen, the map, the blocks and the marks
\* are as CopiesInv says for the phase the writing is in (llfWriteConfig, the update).
THEOREM CopiesInvariant == Spec => []CopiesInv
<1>1. Init => CopiesInv
  BY InitType, InitRest DEF CopiesInv
<1> QED
  BY <1>1, Step, PTL DEF Spec

\* Every variable keeps its type: no bit, bank, block or count leaves its range.
THEOREM TypeCorrect == Spec => []TypeOK
<1>1. CopiesInv => TypeOK
  BY DEF CopiesInv
<1> QED
  BY <1>1, CopiesInvariant, PTL

\* Whatever fails, the defect table keeps data off every complete copy
\* (llfSetSblkToDBT, llfWriteCodeBlock).
THEOREM CopiesAreProtected == Spec => []CopiesProtected
<1>1. CopiesInv => CopiesProtected
  BY DEF CopiesInv, RestInv, ProtectedInv, CopiesProtected
<1> QED
  BY <1>1, CopiesInvariant, PTL

\* When llfWriteConfig reports success, the map that is saved names the complete copies,
\* all of them and no other (llfCheckSblock).
THEOREM SavedMapIsExact == Spec => []MapIsExact
<1>1. CopiesInv => MapIsExact
  BY DEF CopiesInv, RestInv, BranchInv, ExactInv, MapIsExact, Configured, Succeeded
<1> QED
  BY <1>1, CopiesInvariant, PTL

\* The first round writes first pages only to blocks that were erased or passed the test
\* of llfGetSBlk: those that could not be erased were taken out (llfSetSBlockFWConfig).
THEOREM FirstPagesAreClean == Spec => []CleanWrites
<1>1. CopiesInv => CleanWrites
  <2> SUFFICES ASSUME CopiesInv, pc = "heads", pass = 1, cur < Places, IsWritten(Current)
               PROVE  Clean(Current)
    BY DEF CleanWrites, Clean
  <2> QED
    BY LoopFacts DEF CopiesInv, RestInv, CleanInv
<1> QED
  BY <1>1, CopiesInvariant, PTL

------------------------------------------------------------------------------
(* Enough copies                                                           *)

\* What llfCheckSblock counted when it accepted.
CountedInv ==
    pc = "done" /\ ret = "ERR_OK" /\ job.kind # "update" =>
        /\ Cardinality(Good) >= BlkTh
        /\ Cardinality({p[1] : p \in Good} \cup {0}) >= Least(BankNum, BankTh)

\* An image under an injection has the size of its origin.
LEMMA ImageSize ==
    ASSUME NEW S, NEW T, NEW f \in [S -> T], IsFiniteSet(S),
           \A x, y \in S : f[x] = f[y] => x = y, T = {f[x] : x \in S}
    PROVE  Cardinality(T) = Cardinality(S)
<1>1. f \in Bijection(S, T)
  BY DEF Bijection, Injection, Surjection, IsInjective
<1> QED
  BY <1>1, FS_Bijection DEF ExistsBijection

LEMMA BanksFinite ==
    /\ IsFiniteSet({p[1] : p \in Good} \cup {0})
    /\ IsFiniteSet(Good) /\ {p[1] : p \in Good} \cup {0} \subseteq Nat
<1>1. Good \subseteq Place
  BY DEF Good
<1>2. {p[1] : p \in Good} \cup {0} \subseteq 0 .. (SysBanks - 1)
  BY <1>1, Banks DEF Place
<1>3. IsFiniteSet(0 .. (SysBanks - 1))
  BY Banks, FS_Interval
<1>4. IsFiniteSet({p[1] : p \in Good} \cup {0})
  BY <1>2, <1>3, FS_Subset
<1>5. IsFiniteSet(Good)
  BY <1>1, Finite, FS_Subset
<1>6. {p[1] : p \in Good} \cup {0} \subseteq Nat
  BY <1>2, Banks
<1> QED
  BY <1>4, <1>5, <1>6

LEMMA CountedStep == CopiesInv /\ CountedInv /\ [Next]_vars => CountedInv'
<1> SUFFICES ASSUME CopiesInv, CountedInv, [Next]_vars,
                    pc' = "done", ret' = "ERR_OK", job'.kind # "update"
             PROVE  /\ Cardinality(Good') >= BlkTh
                    /\ Cardinality({p[1] : p \in Good'} \cup {0}) >= Least(BankNum, BankTh)
  BY DEF CountedInv
<1>1. UNCHANGED vars \/ CheckSblock
  <2>1. job' = job
    BY JobFixed
  <2>2. job.kind # "update" /\ pc \notin {"readConfig", "readDbt", "readRemap", "eraseCopies"}
    BY <2>1 DEF CopiesInv, RestInv, BranchInv
  <2>3. ~ChooseWindow
    BY DEF ChooseWindow, TakeWindow, TryNext
  <2> QED
    BY <2>1, <2>2, <2>3
    DEF Next, EraseWindow, SetConfig, SkipHead, WriteHead, HeadFails,
        HeadsDone, WriteAgain, SetSblkToDBT, SkipCode, WriteCode, CodeFails, CodesDone,
        ReadConfig, ReadTable, EraseCopies
<1>2. CASE UNCHANGED vars
  BY <1>2 DEF CountedInv, Good, vars
<1>3. CASE CheckSblock
  <2>1. Good' = Good
    BY <1>3 DEF CheckSblock, Good
  <2>2. PICK lucky \in BOOLEAN :
          LET banks == {p[1] : p \in Good} \cup (IF lucky THEN {0} ELSE {})
          IN  ret' = IF /\ Cardinality(banks) >= Least(BankNum, BankTh)
                        /\ Cardinality(Good) >= BlkTh
                     THEN "ERR_OK" ELSE "ERR_BAD_SBLOCK"
    BY <1>3 DEF CheckSblock
  <2> DEFINE banks == {p[1] : p \in Good} \cup (IF lucky THEN {0} ELSE {})
             all   == {p[1] : p \in Good} \cup {0}
  <2>3. Cardinality(banks) >= Least(BankNum, BankTh) /\ Cardinality(Good) >= BlkTh
    BY <2>2
  <2>4. banks \subseteq all
    OBVIOUS
  <2>5. Cardinality(banks) <= Cardinality(all) /\ Cardinality(banks) \in Nat
        /\ Cardinality(all) \in Nat
    <3>1. IsFiniteSet(all)
      BY BanksFinite
    <3> HIDE DEF banks, all
    <3> QED
      BY <3>1, <2>4, FS_Subset, FS_CardinalityType
  <2>6. Least(BankNum, BankTh) \in Int
    BY DEF Least
  <2> HIDE DEF banks
  <2> QED
    BY <2>1, <2>3, <2>5, <2>6
<1> QED
  BY <1>1, <1>2, <1>3

\* A command is accepted only with enough complete copies on the flash, in enough banks
\* but for one that was not looked at (llfCheckSblock).
THEOREM EnoughCopiesLeft == Spec => []EnoughCopies
<1>1. Init => CountedInv
  BY DEF Init, CountedInv
<1>2. CopiesInv /\ CountedInv => EnoughCopies
  <2> SUFFICES ASSUME CopiesInv, CountedInv, Configured
               PROVE  /\ Cardinality(Copies) >= BlkTh
                      /\ Cardinality({b[1] : b \in Copies} \cup {gubSblkBankStart})
                            >= Least(BankNum, BankTh)
    BY DEF EnoughCopies
  <2>1. /\ Copies = {BlockOf(p) : p \in Good} /\ Good \subseteq Place
        /\ gubSblkStart \in Nat /\ gubSblkBankStart \in Nat
        /\ Cardinality(Good) >= BlkTh
        /\ Cardinality({p[1] : p \in Good} \cup {0}) >= Least(BankNum, BankTh)
    BY DEF CopiesInv, RestInv, ExactInv, CountedInv, Configured, Succeeded, Good, TypeOK
  <2>2. Cardinality(Copies) = Cardinality(Good)
    <3> DEFINE f == [p \in Good |-> BlockOf(p)]
    <3>1. f \in [Good -> Copies] /\ Copies = {f[p] : p \in Good}
      BY <2>1
    <3>2. \A p, q \in Good : f[p] = f[q] => p = q
      BY <2>1, Geometry
    <3> HIDE DEF f
    <3> QED
      BY <3>1, <3>2, BanksFinite, ImageSize
  <2>3. Cardinality({b[1] : b \in Copies} \cup {gubSblkBankStart})
        = Cardinality({p[1] : p \in Good} \cup {0})
    <3> DEFINE S == {p[1] : p \in Good} \cup {0}
               T == {b[1] : b \in Copies} \cup {gubSblkBankStart}
               f == [k \in S |-> gubSblkBankStart + k]
    <3>1. S \subseteq Nat /\ IsFiniteSet(S)
      BY BanksFinite
    <3>2. \A p \in Good : BlockOf(p)[1] = gubSblkBankStart + p[1]
      BY DEF BlockOf, BlockAt
    <3>3. {b[1] : b \in Copies} = {gubSblkBankStart + p[1] : p \in Good}
      BY <2>1, <3>2
    <3>4. T = {gubSblkBankStart + k : k \in S}
      <4>1. gubSblkBankStart + 0 = gubSblkBankStart
        BY <2>1
      <4>2. {gubSblkBankStart + k : k \in S}
            = {gubSblkBankStart + p[1] : p \in Good} \cup {gubSblkBankStart + 0}
        OBVIOUS
      <4> QED
        BY <3>3, <4>1, <4>2
    <3> HIDE DEF S, T
    <3>5. f \in [S -> T] /\ T = {f[k] : k \in S}
      BY <3>4
    <3>6. \A k, m \in S : f[k] = f[m] => k = m
      <4> TAKE k, m \in S
      <4>1. k \in Nat /\ m \in Nat /\ f[k] = gubSblkBankStart + k /\ f[m] = gubSblkBankStart + m
        BY <3>1
      <4> HIDE DEF f
      <4> QED
        BY <2>1, <4>1
    <3> HIDE DEF f
    <3>7. Cardinality(T) = Cardinality(S)
      BY <3>1, <3>5, <3>6, ImageSize
    <3> QED
      BY <3>7 DEF S, T
  <2> QED
    BY <2>1, <2>2, <2>3
<1> QED
  BY <1>1, <1>2, CountedStep, CopiesInvariant, PTL DEF Spec

------------------------------------------------------------------------------
(* A copy in every bank                                                    *)

\* A complete copy among the places before cur of bank k of the window.
HasCopy(k) == \E p \in Place : p[1] = k /\ Index(p) < cur /\ BlockOf(p) \in Copies

\* A bank that is done has a copy or is an error; the count of a bank that is not done
\* is all of it as long as it has none.
BanksInv ==
    gubSblkStart = 0 =>
        /\ pc = "codes" =>
               /\ \A k \in 0 .. (SysBanks - 1) : k < cur \div SblkBlks => errs \/ HasCopy(k)
               /\ \A k \in Nat : k = cur \div SblkBlks => bads = cur % SblkBlks \/ HasCopy(k)
        /\ pc = "done" /\ ret = "ERR_OK" /\ job.kind = "update" =>
               \A k \in 0 .. (SysBanks - 1) : \E b \in Copies : b[1] = gubSblkBankStart + k

\* A copy that was written stays.
LEMMA HasCopyStays ==
    ASSUME CopiesInv, SkipCode \/ WriteCode \/ CodeFails, NEW k, HasCopy(k)
    PROVE  HasCopy(k)'
<1>1. /\ UNCHANGED window /\ cur' = cur + 1 /\ cur < Places
      /\ flash' = flash \/ \E st : flash' = [flash EXCEPT ![BlockOf(Current)].state = st]
  BY StepCodesRest DEF SkipCode, WriteCode, CodeFails
<1>2. PICK p \in Place : p[1] = k /\ Index(p) < cur /\ BlockOf(p) \in Copies
  BY DEF HasCopy
<1>3. Index(p) < cur + 1 /\ p # Current
  BY <1>1, <1>2, LoopFacts
<1>4. BlockOf(p) # BlockOf(Current)
  BY <1>1, <1>3, LoopFacts
<1>5. BlockOf(p) \in Block /\ flash'[BlockOf(p)] = flash[BlockOf(p)]
  BY <1>1, <1>2, <1>4, LoopFacts DEF Copies
<1>6. BlockOf(p) \in Copies'
  BY <1>2, <1>5 DEF Copies
<1> QED
  BY <1>1, <1>2, <1>3, <1>6, SameWindow DEF HasCopy, Index

LEMMA BanksCodes ==
    ASSUME CopiesInv, BanksInv, SkipCode \/ WriteCode \/ CodeFails
    PROVE  BanksInv'
<1>1. /\ pc = "codes" /\ pc' = "codes" /\ cur' = cur + 1 /\ cur < Places /\ cur \in Nat
      /\ UNCHANGED window /\ Current \in Place /\ bads \in Nat
  BY StepCodesRest, LoopFacts DEF CopiesInv, TypeOK
<1>2. PICK q \in Nat, r \in 0 .. (SblkBlks - 1) :
        q = cur \div SblkBlks /\ r = cur % SblkBlks
  BY <1>1, DivMod
<1>3. /\ cur' % SblkBlks = IF r = SblkBlks - 1 THEN 0 ELSE r + 1
      /\ cur' \div SblkBlks = IF r = SblkBlks - 1 THEN q + 1 ELSE q
  <2>1. /\ (cur + 1) % SblkBlks = IF cur % SblkBlks = SblkBlks - 1
                                  THEN 0 ELSE (cur % SblkBlks) + 1
        /\ (cur + 1) \div SblkBlks = IF cur % SblkBlks = SblkBlks - 1
                                     THEN (cur \div SblkBlks) + 1 ELSE cur \div SblkBlks
    BY <1>1, NextMod
  <2> QED
    BY <1>1, <1>2, <2>1
<1> SUFFICES ASSUME gubSblkStart = 0
             PROVE  /\ \A k \in 0 .. (SysBanks - 1) :
                          k < cur' \div SblkBlks => errs' \/ HasCopy(k)'
                    /\ \A k \in Nat : k = cur' \div SblkBlks
                          => bads' = cur' % SblkBlks \/ HasCopy(k)'
  <2>1. gubSblkStart' = gubSblkStart
    BY <1>1 DEF window
  <2> QED
    BY <1>1, <2>1 DEF BanksInv
<1>4. \A k \in 0 .. (SysBanks - 1) : k < q => errs' \/ HasCopy(k)'
  <2> SUFFICES ASSUME NEW k \in 0 .. (SysBanks - 1), k < q PROVE errs' \/ HasCopy(k)'
    OBVIOUS
  <2>1. errs \/ HasCopy(k)
    BY <1>1, <1>2 DEF BanksInv
  <2>2. errs => errs'
    BY DEF SkipCode, WriteCode, CodeFails, NextCode
  <2>3. HasCopy(k) => HasCopy(k)'
    BY HasCopyStays
  <2> QED
    BY <2>1, <2>2, <2>3
<1>5. bads = r \/ HasCopy(q)'
  <2>1. bads = r \/ HasCopy(q)
    BY <1>1, <1>2 DEF BanksInv
  <2>2. HasCopy(q) => HasCopy(q)'
    BY HasCopyStays
  <2> QED
    BY <2>1, <2>2
<1>6. PICK n \in {bads, bads + 1} : NextCode(n) /\ (n = bads + 1 \/ HasCopy(q)')
  <2>1. CASE SkipCode \/ CodeFails
    BY <2>1 DEF SkipCode, CodeFails
  <2>2. CASE WriteCode
    <3>1. BlockOf(Current) \in Block /\ Index(Current) = cur /\ Current[1] = q
      BY <1>1, <1>2, <2>2, LoopFacts DEF WriteCode, Current
    <3>2. BlockOf(Current) \in Copies'
      <4>1. flash[BlockOf(Current)] \in Content /\ flash \in [Block -> Content]
        BY <1>1, <3>1, LoopFacts
      <4> QED
        BY <2>2, <3>1, <4>1 DEF WriteCode, Copies, Content
    <3>3. \A p \in Place : BlockOf(p) \in Copies' /\ Index(p) < cur + 1 /\ p[1] = q => HasCopy(q)'
      BY <1>1, SameWindow DEF HasCopy, Index
    <3>4. HasCopy(q)'
      BY <1>1, <3>1, <3>2, <3>3
    <3> QED
      BY <2>2, <3>4 DEF WriteCode
  <2> QED
    BY <2>1, <2>2
<1>7. CASE r = SblkBlks - 1
  <2>1. bads' = 0 /\ (errs' <=> errs \/ BankIsBad(n))
    BY <1>2, <1>6, <1>7 DEF NextCode
  <2>2. HasCopy(q)' \/ n = SblkBlks
    BY <1>1, <1>5, <1>6, <1>7
  <2>3. HasCopy(q)' \/ errs'
    BY <2>1, <2>2 DEF BankIsBad
  <2>4. \A k \in 0 .. (SysBanks - 1) : k < q + 1 => k < q \/ k = q
    OBVIOUS
  <2>5. \A k \in 0 .. (SysBanks - 1) : k < q + 1 => errs' \/ HasCopy(k)'
    BY <1>4, <2>3, <2>4
  <2> QED
    BY <1>3, <1>7, <2>1, <2>5
<1>8. CASE r # SblkBlks - 1
  <2>1. bads' = n
    BY <1>2, <1>6, <1>8 DEF NextCode
  <2>2. bads' = r + 1 \/ HasCopy(q)'
    BY <1>5, <1>6, <2>1
  <2> QED
    BY <1>3, <1>4, <1>8, <2>2
<1> QED
  BY <1>7, <1>8

LEMMA BanksStep == CopiesInv /\ BanksInv /\ [Next]_vars => BanksInv'
<1> SUFFICES ASSUME CopiesInv, BanksInv, [Next]_vars PROVE BanksInv'
  OBVIOUS
<1>1. CASE SkipCode \/ WriteCode \/ CodeFails
  BY <1>1, BanksCodes
<1>2. CASE SetSblkToDBT
  <2>1. pc' = "codes" /\ cur' = 0 /\ bads' = 0
    BY <1>2 DEF SetSblkToDBT
  <2>2. 0 \div SblkBlks = 0 /\ 0 % SblkBlks = 0
    <3>1. /\ 0 \div SblkBlks \in Nat /\ 0 % SblkBlks \in 0 .. (SblkBlks - 1)
          /\ 0 * SblkBlks + 0 = (0 \div SblkBlks) * SblkBlks + (0 % SblkBlks)
      BY DivMod
    <3> QED
      BY <3>1, Unique
  <2> QED
    BY <2>1, <2>2, Banks DEF BanksInv
<1>3. CASE CodesDone
  <2> SUFFICES ASSUME gubSblkStart = 0, pc' = "done", ret' = "ERR_OK", job.kind = "update",
                      NEW k \in 0 .. (SysBanks - 1)
               PROVE  \E b \in Copies : b[1] = gubSblkBankStart + k
    BY <1>3 DEF CodesDone, BanksInv, Copies, window
  <2>1. pc = "codes" /\ cur = Places /\ ~errs
    BY <1>3 DEF CodesDone
  <2>2. cur \div SblkBlks = SysBanks
    <3>1. /\ cur \in Nat /\ cur \div SblkBlks \in Nat /\ cur % SblkBlks \in 0 .. (SblkBlks - 1)
          /\ SysBanks * SblkBlks + 0 = (cur \div SblkBlks) * SblkBlks + (cur % SblkBlks)
      <4>1. cur \in Nat
        BY <2>1, Banks
      <4>2. /\ cur \div SblkBlks \in Nat /\ cur % SblkBlks \in 0 .. (SblkBlks - 1)
            /\ cur = (cur \div SblkBlks) * SblkBlks + (cur % SblkBlks)
        BY <4>1, DivMod
      <4>3. cur = SysBanks * SblkBlks + 0
        BY <2>1, Banks DEF Places
      <4> QED
        BY <4>1, <4>2, <4>3
    <3> QED
      BY <3>1, Banks, Unique
  <2>3. HasCopy(k)
    BY <2>1, <2>2, Banks DEF BanksInv
  <2> QED
    BY <2>3 DEF HasCopy, BlockOf, BlockAt
<1>4. CASE CheckSblock
  BY <1>4 DEF CheckSblock, BanksInv, CopiesInv, RestInv, BranchInv
<1>5. CASE \/ ReadConfig \/ ReadTable("readDbt", "readRemap")
           \/ ReadTable("readRemap", "eraseCopies") \/ EraseCopies
  BY <1>5 DEF ReadConfig, ReadTable, EraseCopies, BanksInv
<1>6. CASE SkipHead \/ WriteHead \/ HeadFails \/ HeadsDone \/ WriteAgain \/ SetConfig \/ EraseWindow
  BY <1>6 DEF SkipHead, WriteHead, HeadFails, HeadsDone, WriteAgain, SetConfig, EraseWindow, BanksInv
<1>7. CASE ChooseWindow
  BY <1>7 DEF ChooseWindow, TakeWindow, TryNext, BanksInv
<1>8. CASE UNCHANGED vars
  <2>1. UNCHANGED <<window, pc, ret, cur, bads, job, flash>> /\ UNCHANGED errs
    BY <1>8 DEF vars, loop
  <2>2. Copies' = Copies /\ \A k : HasCopy(k)' <=> HasCopy(k)
    BY <2>1, SameWindow DEF Copies, HasCopy, Index
  <2> QED
    BY <2>1, <2>2 DEF BanksInv, window
<1> QED
  BY <1>1, <1>2, <1>3, <1>4, <1>5, <1>6, <1>7, <1>8 DEF Next

\* An update in a window at the start that reports success leaves a complete copy in every
\* bank (llfWriteCodeBlock, BadSblk_num).
THEOREM UpdatesLeaveCopies == Spec => []UpdateLeavesCopies
<1>1. Init => BanksInv
  BY DEF Init, BanksInv
<1>2. BanksInv => UpdateLeavesCopies
  BY DEF BanksInv, UpdateLeavesCopies, Succeeded
<1> QED
  BY <1>1, <1>2, BanksStep, CopiesInvariant, PTL DEF Spec

------------------------------------------------------------------------------
(* The first pages agree                                                   *)

\* A chosen place has the first page that is in memory, and the page names it; of the
\* others the page says that they failed, or the code did.
Told(p) ==
    /\ guwSBlkNo[p] = "good" => /\ flash[BlockOf(p)].page = sblk
                                /\ EntryOf(p) \in sblk.map
    /\ guwSBlkNo[p] = "bad" => \/ ImageBit(p) \in sblk.bitmap
                               \/ flash[BlockOf(p)].state = "part"

\* In the first loop that holds of the places before cur, the bitmap in memory being that
\* of the start of the loop.
ToldInLoop(p) ==
    /\ guwSBlkNo[p] = "good" => flash[BlockOf(p)].page = sblk
    /\ guwSBlkNo[p] = "bad" => ImageBit(p) \in gulFailedImageBitMap

PagesInv ==
    job.kind # "update" =>
        /\ \A p \in Place : guwSBlkNo[p] # "absent"
        /\ pc \in {"heads", "again", "mark", "codes"} => sblk.map = gulSblkCHCEMap
        /\ pc = "heads" => /\ sblk.bitmap = pre
                           /\ \A p \in Place : Index(p) < cur => ToldInLoop(p)
        /\ pc = "again" => sblk.bitmap = gulFailedImageBitMap
        /\ pc \in {"mark", "codes", "check"} \/ (pc = "done" /\ ret = "ERR_OK")
               => \A p \in Place : Told(p)

LEMMA SameTold ==
    ASSUME UNCHANGED <<window, guwSBlkNo, flash, sblk>>
    PROVE  \A p : Told(p) => Told(p)'
BY SameWindow DEF Told, ImageBit, window

LEMMA PagesChoose ==
    ASSUME CopiesInv, PagesInv, ChooseWindow \/ EraseWindow \/ SetConfig
    PROVE  PagesInv'
<1>1. UNCHANGED job
  BY DEF ChooseWindow, EraseWindow, SetConfig
<1>2. CASE ChooseWindow
  <2>1. \A p \in Place : guwSBlkNo'[p] # "absent"
    BY <1>2 DEF ChooseWindow, TakeWindow, TryNext, AllBad
  <2>2. pc' \in {"choose", "erase", "config", "done"} /\ (pc' = "done" => ret' # "ERR_OK")
    BY <1>2 DEF ChooseWindow, TakeWindow, TryNext
  <2> QED
    BY <2>1, <2>2 DEF PagesInv
<1>3. CASE EraseWindow
  BY <1>3 DEF EraseWindow, PagesInv
<1>4. CASE SetConfig
  <2>1. job.kind # "update"
    BY <1>4 DEF SetConfig, CopiesInv, RestInv, BranchInv
  <2>2. \A p \in Place : guwSBlkNo'[p] # "absent"
    BY <1>4, <2>1 DEF SetConfig, PagesInv
  <2>3. /\ pc' = "heads" /\ cur' = 0
        /\ sblk'.map = gulSblkCHCEMap' /\ sblk'.bitmap = pre'
    BY <1>4 DEF SetConfig
  <2>4. \A p \in Place : ~(Index(p) < 0)
    BY PlaceIndex, Banks
  <2>5. \A p : Index(p)' = Index(p)
    BY DEF Index
  <2> QED
    BY <2>2, <2>3, <2>4, <2>5 DEF PagesInv
<1> QED
  BY <1>2, <1>3, <1>4

LEMMA PagesHeads ==
    ASSUME CopiesInv, PagesInv, job.kind # "update", SkipHead \/ WriteHead \/ HeadFails
    PROVE  PagesInv'
<1>1. /\ pc = "heads" /\ pc' = "heads" /\ cur' = cur + 1 /\ cur < Places
      /\ UNCHANGED <<job, window, gulSblkCHCEMap, sblk, pre>>
      /\ gulFailedImageBitMap \subseteq gulFailedImageBitMap'
      /\ guwSBlkNo' = guwSBlkNo \/ guwSBlkNo' = [guwSBlkNo EXCEPT ![Current] = "bad"]
      /\ flash' = flash \/ \E c : flash' = [flash EXCEPT ![BlockOf(Current)] = c]
  BY DEF SkipHead, WriteHead, HeadFails, NoteBad, tables, loop
<1>2. ASSUME NEW p \in Place, Index(p) < cur
      PROVE  ToldInLoop(p)'
  <2>1. ToldInLoop(p) /\ p # Current
    BY <1>1, <1>2, LoopFacts DEF PagesInv
  <2>2. guwSBlkNo'[p] = guwSBlkNo[p]
    BY <1>1, <2>1, LoopFacts
  <2>3. guwSBlkNo[p] = "good" => flash'[BlockOf(p)] = flash[BlockOf(p)]
    <3> SUFFICES ASSUME guwSBlkNo[p] = "good" PROVE flash'[BlockOf(p)] = flash[BlockOf(p)]
      OBVIOUS
    <3>1. BlockOf(p) # BlockOf(Current)
      BY <1>1, <2>1, LoopFacts
    <3>2. WindowValid
      BY DEF CopiesInv, RestInv, WindowInv, AllBad
    <3>3. BlockOf(p) \in Block
      BY <1>1, <3>2, LoopFacts, Geometry
    <3> QED
      BY <1>1, <3>1, <3>3, LoopFacts
  <2>4. BlockOf(p)' = BlockOf(p) /\ ImageBit(p)' = ImageBit(p)
    BY <1>1, SameWindow DEF ImageBit, window
  <2> QED
    BY <1>1, <2>1, <2>2, <2>3, <2>4 DEF ToldInLoop
<1>3. ASSUME NEW p \in Place, p = Current
      PROVE  ToldInLoop(p)'
  <2>1. BlockOf(p)' = BlockOf(p) /\ ImageBit(p)' = ImageBit(p)
    BY <1>1, SameWindow DEF ImageBit, window
  <2>2. CASE SkipHead
    <3>1. guwSBlkNo'[p] # "good"
      BY <1>1, <1>3, <2>2 DEF SkipHead, IsWritten, CopiesInv, RestInv, MapInv
    <3>2. guwSBlkNo[p] = "bad" => ImageBit(p) \in gulFailedImageBitMap'
      BY <1>3, <2>2 DEF SkipHead, NoteBad
    <3> QED
      BY <2>1, <2>2, <3>1, <3>2 DEF ToldInLoop, SkipHead
  <2>3. CASE WriteHead
    <3>1. p \in Good /\ BlockOf(p) \in Block
      BY <1>1, <1>3, <2>3, LoopFacts DEF WriteHead
    <3>2. flash'[BlockOf(p)].page = sblk
      BY <1>1, <1>3, <2>3, <3>1, LoopFacts DEF WriteHead
    <3> QED
      BY <1>1, <2>1, <2>3, <3>1, <3>2 DEF ToldInLoop, WriteHead, Good
  <2>4. CASE HeadFails
    <3>1. guwSBlkNo'[p] = "bad" /\ ImageBit(p) \in gulFailedImageBitMap'
      BY <1>1, <1>3, <2>4, LoopFacts DEF HeadFails, NoteBad
    <3> QED
      BY <2>1, <3>1 DEF ToldInLoop
  <2> QED
    BY <2>2, <2>3, <2>4
<1>4. \A p \in Place : Index(p) < cur + 1 => ToldInLoop(p)'
  BY <1>1, <1>2, <1>3, LoopFacts
<1>5. \A p \in Place : guwSBlkNo'[p] # "absent"
  BY <1>1, LoopFacts DEF PagesInv
<1>6. \A p : Index(p)' = Index(p)
  BY DEF Index
<1> QED
  BY <1>1, <1>4, <1>5, <1>6 DEF PagesInv

LEMMA PagesHeadsDone ==
    ASSUME CopiesInv, PagesInv, job.kind # "update", HeadsDone
    PROVE  PagesInv'
<1>1. /\ pc = "heads" /\ cur = Places /\ pc' \in {"mark", "again", "done"}
      /\ pc' = "done" => ret' # "ERR_OK"
      /\ UNCHANGED <<job, window, guwSBlkNo, gulSblkCHCEMap, gulFailedImageBitMap, flash>>
  BY DEF HeadsDone
<1>2. sblk \in Page /\ sblk.map = gulSblkCHCEMap /\ sblk.bitmap = pre
  BY <1>1 DEF CopiesInv, TypeOK, PagesInv
<1>3. sblk'.map = sblk.map /\ sblk'.bitmap = gulFailedImageBitMap
  BY <1>2 DEF HeadsDone, StaleHeads, Page
<1>4. CASE pc' # "mark"
  BY <1>1, <1>2, <1>3, <1>4 DEF PagesInv
<1>5. CASE pc' = "mark"
  <2>1. sblk' = sblk
    BY <1>2, <1>5 DEF HeadsDone, StaleHeads, Page
  <2>2. ASSUME NEW p \in Place
        PROVE  Told(p)'
    <3>1. ToldInLoop(p)
      BY <1>1, PlaceIndex, Banks DEF PagesInv
    <3>2. guwSBlkNo[p] = "good" => EntryOf(p) \in gulSblkCHCEMap
      BY <1>1 DEF CopiesInv, RestInv, MapInv
    <3>3. BlockOf(p)' = BlockOf(p) /\ EntryOf(p)' = EntryOf(p) /\ ImageBit(p)' = ImageBit(p)
      BY <1>1, SameWindow DEF ImageBit, window
    <3> QED
      BY <1>1, <1>2, <1>3, <2>1, <3>1, <3>2, <3>3 DEF Told, ToldInLoop
  <2> QED
    BY <1>1, <1>2, <1>3, <1>5, <2>2 DEF PagesInv
<1> QED
  BY <1>4, <1>5

LEMMA PagesCodes ==
    ASSUME CopiesInv, PagesInv, job.kind # "update", SkipCode \/ WriteCode \/ CodeFails
    PROVE  PagesInv'
<1>1. /\ pc = "codes" /\ pc' = "codes" /\ cur < Places
      /\ UNCHANGED <<job, window, gulSblkCHCEMap, sblk>>
      /\ guwSBlkNo' = guwSBlkNo \/ guwSBlkNo' = [guwSBlkNo EXCEPT ![Current] = "bad"]
  BY StepCodesRest DEF SkipCode, WriteCode, CodeFails
<1>2. \A p \in Place : guwSBlkNo'[p] # "absent"
  BY <1>1, LoopFacts DEF PagesInv
<1>3. ASSUME NEW p \in Place
      PROVE  Told(p)'
  <2>1. Told(p)
    BY <1>1 DEF PagesInv
  <2>2. CASE SkipCode
    BY <1>1, <2>1, <2>2, SameTold DEF SkipCode
  <2>3. CASE WriteCode \/ CodeFails
    <3>1. PICK st \in {"full", "part"} :
             /\ flash' = [flash EXCEPT ![BlockOf(Current)].state = st]
             /\ st = "full" => guwSBlkNo' = guwSBlkNo
             /\ st = "part" => guwSBlkNo' = [guwSBlkNo EXCEPT ![Current] = "bad"]
      BY <2>3 DEF WriteCode, CodeFails, WithoutPlace
    <3>2. /\ Current \in Good /\ WindowValid /\ BlockOf(Current) \in Block
          /\ BlockOf(p) \in Block
      BY <1>1, <2>3, LoopFacts, Geometry DEF WriteCode, CodeFails
    <3>3. flash[BlockOf(Current)] \in Content /\ flash[BlockOf(p)] \in Content
      BY <1>1, <3>2, LoopFacts
    <3>4. flash'[BlockOf(p)].page = flash[BlockOf(p)].page
      BY <1>1, <3>1, <3>2, <3>3, LoopFacts DEF Content
    <3>5. /\ BlockOf(p)' = BlockOf(p) /\ EntryOf(p)' = EntryOf(p)
          /\ ImageBit(p)' = ImageBit(p)
      BY <1>1, SameWindow DEF ImageBit, window
    <3>6. CASE p = Current
      <4>1. flash'[BlockOf(p)].state = st
        BY <1>1, <3>1, <3>2, <3>3, <3>6, LoopFacts DEF Content
      <4>2. guwSBlkNo[p] = "good"
        BY <3>2, <3>6 DEF Good
      <4>3. st = "full" => guwSBlkNo'[p] = "good"
        BY <3>1, <4>2
      <4>4. st = "part" => guwSBlkNo'[p] = "bad"
        BY <1>1, <3>1, <3>6, LoopFacts
      <4> QED
        BY <1>1, <2>1, <3>1, <3>4, <3>5, <4>1, <4>2, <4>3, <4>4 DEF Told
    <3>7. CASE p # Current
      <4>1. guwSBlkNo'[p] = guwSBlkNo[p]
        BY <1>1, <3>7, LoopFacts
      <4>2. flash'[BlockOf(p)] = flash[BlockOf(p)]
        BY <1>1, <3>1, <3>2, <3>7, LoopFacts
      <4> QED
        BY <1>1, <2>1, <3>5, <4>1, <4>2 DEF Told
    <3> QED
      BY <3>6, <3>7
  <2> QED
    BY <2>2, <2>3
<1> QED
  BY <1>1, <1>2, <1>3 DEF PagesInv

LEMMA PagesStep == CopiesInv /\ PagesInv /\ [Next]_vars => PagesInv'
<1> SUFFICES ASSUME CopiesInv, PagesInv, [Next]_vars PROVE PagesInv'
  OBVIOUS
<1>0. job' = job
  BY JobFixed
<1> SUFFICES ASSUME job.kind # "update" PROVE PagesInv'
  BY <1>0 DEF PagesInv
<1>1. CASE ChooseWindow \/ EraseWindow \/ SetConfig
  BY <1>1, PagesChoose
<1>2. CASE SkipHead \/ WriteHead \/ HeadFails
  BY <1>2, PagesHeads
<1>3. CASE HeadsDone
  BY <1>3, PagesHeadsDone
<1>4. CASE WriteAgain
  <2>1. /\ pc = "again" /\ pc' = "heads" /\ cur' = 0 /\ pre' = gulFailedImageBitMap
        /\ UNCHANGED <<job, guwSBlkNo, gulSblkCHCEMap, sblk>>
    BY <1>4 DEF WriteAgain
  <2>2. \A p \in Place : ~(Index(p) < 0)
    BY PlaceIndex, Banks
  <2>3. \A p : Index(p)' = Index(p)
    BY DEF Index
  <2> QED
    BY <2>1, <2>2, <2>3 DEF PagesInv
<1>5. CASE SetSblkToDBT
  <2>1. /\ pc = "mark" /\ pc' = "codes"
        /\ UNCHANGED <<job, window, guwSBlkNo, gulSblkCHCEMap, flash, sblk>>
    BY <1>5 DEF SetSblkToDBT
  <2> QED
    BY <2>1, SameTold DEF PagesInv
<1>6. CASE SkipCode \/ WriteCode \/ CodeFails
  BY <1>6, PagesCodes
<1>7. CASE CodesDone \/ CheckSblock
  <2>1. /\ pc \in {"codes", "check"} /\ pc' \in {"check", "done"}
        /\ UNCHANGED <<job, window, guwSBlkNo, flash, sblk>>
    BY <1>7 DEF CodesDone, CheckSblock
  <2> QED
    BY <2>1, SameTold DEF PagesInv
<1>8. CASE \/ ReadConfig \/ ReadTable("readDbt", "readRemap")
           \/ ReadTable("readRemap", "eraseCopies") \/ EraseCopies
  BY <1>8 DEF ReadConfig, ReadTable, EraseCopies, CopiesInv, RestInv, BranchInv
<1>9. CASE UNCHANGED vars
  <2>1. UNCHANGED <<job, window, guwSBlkNo, gulSblkCHCEMap, gulFailedImageBitMap, sblk, flash,
                    pc, cur, pre, ret>>
    BY <1>9 DEF vars, loop
  <2>2. \A p : /\ (Told(p) => Told(p)') /\ (ToldInLoop(p) => ToldInLoop(p)')
               /\ Index(p)' = Index(p)
    BY <2>1, SameTold, SameWindow DEF ToldInLoop, ImageBit, Index, window
  <2> QED
    BY <2>1, <2>2 DEF PagesInv
<1> QED
  BY <1>1, <1>2, <1>3, <1>4, <1>5, <1>6, <1>7, <1>8, <1>9 DEF Next

\* All complete copies of an accepted command have the same first page, which names them
\* all and says of the others which failed (llfWriteSBlkFailHandle).
THEOREM FirstPagesAgree == Spec => []PagesAgree
<1>1. Init => PagesInv
  <2> SUFFICES ASSUME Init, job.kind # "update" PROVE PagesInv
    BY DEF PagesInv
  <2>1. guwSBlkNo = [p \in Place |-> "bad"] /\ pc = "choose"
    BY DEF Init
  <2> QED
    BY <2>1 DEF PagesInv
<1>2. CopiesInv /\ PagesInv => PagesAgree
  <2> SUFFICES ASSUME CopiesInv, PagesInv, Configured PROVE PagesAgree
    BY DEF PagesAgree
  <2>1. /\ Copies = {BlockOf(p) : p \in Good} /\ \A p \in Place : Told(p)
        /\ \A p \in Place : guwSBlkNo[p] # "absent"
    BY DEF CopiesInv, RestInv, ExactInv, PagesInv, Configured, Succeeded
  <2>2. \A b \in Copies : flash[b].page = sblk
    BY <2>1 DEF Told, Good
  <2>3. Copies \subseteq {EntryBlock(e) : e \in sblk.map}
    <3>1. \A p \in Good : EntryBlock(EntryOf(p)) = BlockOf(p) /\ EntryOf(p) \in sblk.map
      BY <2>1, Geometry DEF Told, Good, CopiesInv, TypeOK
    <3> QED
      BY <2>1, <3>1
  <2>4. ASSUME NEW p \in Place, flash[BlockOf(p)].state \notin {"part", "full"}
        PROVE  ImageBit(p) \in sblk.bitmap
    <3>1. p \notin Good
      BY <2>1, <2>4 DEF Copies
    <3>2. guwSBlkNo[p] = "bad"
      BY <2>1, <3>1 DEF Good, CopiesInv, TypeOK
    <3> QED
      BY <2>1, <2>4, <3>2 DEF Told
  <2> QED
    BY <2>2, <2>3, <2>4 DEF PagesAgree
<1> QED
  BY <1>1, <1>2, PagesStep, CopiesInvariant, PTL DEF Spec
=============================================================================
