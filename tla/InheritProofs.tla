--------------------------- MODULE InheritProofs ---------------------------
(***************************************************************************)
(* Theorems about Inherit, for every flash, every geometry and any number  *)
(* of states, spoiled pages and reads that are not answered.               *)
(***************************************************************************)
EXTENDS Inherit, TLAPS

------------------------------------------------------------------------------
(* The flash                                                               *)

Given ==
    \E f \in Flashes :
        /\ tested = f.tested /\ home = f.home /\ formatted = f.formatted /\ told = f.told

\* What is on the flash: the drive's states up to the one it wrote last, whole but for
\* that one, and the first of the pages of the copies.
Known(pg) ==
    /\ pg.kind = "snap" => \E w \in 1 .. state : pg.at = <<w, 0>>
    /\ pg.kind = "dyn" =>
         \/ pg = PageAt("dyn", OldPlace, 0)
         \/ \E w \in 1 .. state : pg \in StatePages(w)
    /\ pg.kind = "head" => pg.at \in Copies(home.window)
    /\ pg.kind = "result" => pg.at[1] \in Bank

FlashInv ==
    /\ Given
    /\ state \in 0 .. Len(Grown)
    /\ written \in 0 .. Len(CopyPages)
    /\ state > 0 => Formatted
    /\ \A pg \in pages : Known(pg)
    /\ \A w \in 1 .. (state - 1) : StatePages(w) \subseteq pages
    /\ DOMAIN spoiled \subseteq pages
    /\ \A pg \in DOMAIN spoiled :
         spoiled[pg] \in {"weak", "bad", "over"} /\ (spoiled[pg] = "over" => pg.kind = "head")

LEMMA HomeType == Given => home \in Home /\ tested \in [Bank -> Test]
BY InheritAssumption DEF Given

\* What later steps need of the geometry, without the products.
LEMMA Sizes ==
    /\ BankNum \in Nat /\ BankNum > 0 /\ SysBanks \in Nat /\ SysBanks > 0 /\ SysBanks <= BankNum
    /\ SblkBlks \in Nat /\ SblkBlks > 0 /\ ExtSys \in Nat /\ ExtRdt \in Nat /\ ExtRdt > 0
    /\ MpNum \in Nat /\ Planes \in Nat /\ Planes > 0 /\ SysMax \in Nat
    /\ MpNum * Planes \in Nat /\ ExtSys + SblkBlks + ExtRdt <= MpNum * Planes
<1>1. MpNum * Planes \in Nat
    BY ReadsAssumption, GeometryAssumption
<1> DEFINE all == MpNum * Planes
<1>2. all \in Nat /\ SysMax <= all
    BY <1>1, ReadsAssumption
<1> HIDE DEF all
<1>3. ExtSys + SblkBlks + ExtRdt <= all
    BY <1>2, ReadsAssumption, GeometryAssumption
<1> QED BY <1>1, <1>3, ReadsAssumption, GeometryAssumption DEF SysBanks, all

LEMMA CopyPlaces ==
    ASSUME home \in Home
    PROVE  /\ CopyNum \in Nat
           /\ \A i \in 1 .. CopyNum : Copy(i) \in Copies(home.window)
<1>1. home.window.bank \in Bank /\ home.window.start \in 0 .. ExtSys
    BY DEF Home, Window
<1> DEFINE w == home.window
<1>2. CopyBanks \in Nat /\ CopyBanks <= SysBanks /\ w.bank + CopyBanks <= BankNum
    BY <1>1, Sizes DEF CopyBanks, Bank
<1>3. CopyNum \in Nat
    BY <1>2, Sizes DEF CopyNum
<1>4. ASSUME NEW i \in 1 .. CopyNum PROVE Copy(i) \in Copies(w)
  <2> DEFINE d == (i - 1) \div SblkBlks
             r == (i - 1) % SblkBlks
  <2>1. d \in Nat /\ r \in Nat /\ r < SblkBlks /\ i - 1 = SblkBlks * d + r
      BY <1>3, Sizes
  <2>2. d < CopyBanks
    <3>1. SUFFICES ASSUME d >= CopyBanks PROVE FALSE
        BY <1>2, <2>1
    <3> HIDE DEF d
    <3>2. SblkBlks * d >= SblkBlks * CopyBanks
        BY <1>2, <2>1, <3>1, Sizes
    <3>3. i <= SblkBlks * CopyBanks
        BY <1>3 DEF CopyNum
    <3>4. SblkBlks * d \in Nat /\ SblkBlks * CopyBanks \in Nat
        BY <1>2, <2>1, Sizes
    <3> HIDE DEF r
    <3> QED BY <2>1, <3>2, <3>3, <3>4
  <2>3. Copy(i) = <<w.bank + d, w.start + r>>
      BY DEF Copy
  <2> HIDE DEF d, r
  <2>4. w.bank + d \in Bank /\ w.bank + d \in w.bank .. (w.bank + SysBanks - 1)
      BY <1>1, <1>2, <2>1, <2>2, Sizes DEF Bank
  <2> DEFINE all == MpNum * Planes
  <2>5. all \in Nat /\ ExtSys + SblkBlks + ExtRdt <= all /\ Blk = 0 .. (all - 1)
      BY Sizes DEF Blk
  <2> HIDE DEF all
  <2>6. w.start + r \in Blk /\ w.start + r \in w.start .. (w.start + SblkBlks - 1)
      BY <1>1, <2>1, <2>5, Sizes
  <2> HIDE DEF w
  <2> QED BY <2>3, <2>4, <2>6 DEF Copies, InWindow, Place
<1> QED BY <1>3, <1>4

LEMMA CopyKinds ==
    ASSUME home \in Home
    PROVE  /\ Len(CopyPages) \in Nat
           /\ \A i \in 1 .. Len(CopyPages) :
                /\ CopyPages[i].kind \in {"head", "body", "remap"}
                /\ CopyPages[i].kind = "head" => CopyPages[i].at \in Copies(home.window)
<1>1. CopyNum \in Nat /\ \A i \in 1 .. CopyNum : Copy(i) \in Copies(home.window)
    BY CopyPlaces
<1>2. Len(CopyPages) = 3 * CopyNum
    BY <1>1 DEF CopyPages
<1>3. ASSUME NEW i \in 1 .. (3 * CopyNum)
      PROVE  /\ CopyPages[i].kind \in {"head", "body", "remap"}
             /\ CopyPages[i].kind = "head" => CopyPages[i].at \in Copies(home.window)
  <2>1. CopyPages[i] = IF i <= CopyNum THEN PageAt("head", Copy(i), 0)
                       ELSE PageAt(IF (i - CopyNum) % 2 = 1 THEN "body" ELSE "remap",
                                   Copy((i - CopyNum + 1) \div 2), 0)
      BY DEF CopyPages
  <2>2. CASE i <= CopyNum
      BY <1>1, <2>1, <2>2 DEF PageAt
  <2>3. CASE ~(i <= CopyNum)
      BY <2>1, <2>3 DEF PageAt
  <2> QED BY <2>2, <2>3
<1> QED BY <1>1, <1>2, <1>3

LEMMA SameHome ==
    ASSUME home' = home
    PROVE  /\ \A w \in Nat : StatePages(w)' = StatePages(w)
           /\ OldPlace' = OldPlace /\ CopyPages' = CopyPages
           /\ Copies(home.window)' = Copies(home.window)
<1>1. DynBegin' = DynBegin /\ DynEnd' = DynEnd
    BY DEF DynBegin, DynEnd
<1>2. \A w \in Nat : StatePages(w)' = StatePages(w)
    BY <1>1 DEF StatePages, StatePage, Primary, Backup, PairBlock
<1>3. CopyNum' = CopyNum /\ \A i \in Nat : Copy(i)' = Copy(i)
    BY DEF CopyNum, CopyBanks, Copy
<1>4. CopyPages' = CopyPages
    BY DEF CopyPages, CopyNum, CopyBanks, Copy
<1> QED BY <1>1, <1>2, <1>4 DEF OldPlace, Copies

\* Whoever reads leaves the flash alone.
LEMMA SearchReads ==
    ASSUME \/ BlockInfoNext /\ UNCHANGED <<rdtVars, writer>>
           \/ LlfInheritRemappingTable /\ UNCHANGED <<home, infoVars, rdtVars, writer>>
    PROVE  UNCHANGED <<flash, home, tested, writer>>
<1> USE DEF tables, rdtVars
<1>1. CASE LlfInheritRemappingTable /\ UNCHANGED <<home, infoVars, rdtVars, writer>>
    BY <1>1 DEF LlfInheritRemappingTable, RemapRead, RemapMissed, RemapNotFound
<1>2. CASE llfLoadBlockInfo \/ FindCopy \/ NoCopy \/ FindAny \/ NothingFound
    BY <1>2 DEF llfLoadBlockInfo, FindCopy, NoCopy, FindAny, NothingFound, Found
<1>3. CASE llfSearchDynamicSBlock
    BY <1>3 DEF llfSearchDynamicSBlock, ScanSkips, ScanReads, ScanEnds, ReadTarget,
                BisectDown, BisectUp, ReadLast
<1>4. CASE ReadBody \/ NoBody \/ TakeState \/ AfterRemap \/ ReadSnapPage \/ SnapPageLost
    BY <1>4 DEF ReadBody, NoBody, TakeState, AfterRemap, ReadSnapPage, SnapPageLost
<1> QED BY <1>1, <1>2, <1>3, <1>4 DEF BlockInfoNext

LEMMA ReadersRead ==
    ASSUME [Next]_vars
    PROVE  \/ WriteCopy \/ BeginState \/ WriteState \/ PowerLoss \/ Decay
           \/ UNCHANGED <<flash, home, tested, writer>>
<1> USE DEF tables, rdtVars
<1>1. ASSUME RdtNext, UNCHANGED <<home, infoVars, writer>>
      PROVE UNCHANGED <<flash, home, tested, writer>>
  <2>1. CASE llfLoadRDTResult \/ llfGetRDTBankResult
      BY <1>1, <2>1 DEF llfLoadRDTResult, llfGetRDTBankResult, ResultRead, ResultLost, ResultNotFound
  <2>2. CASE TakeTag \/ CheckTags \/ BankNotTaken
      BY <1>1, <2>2 DEF TakeTag, CheckTags, BankNotTaken
  <2>3. CASE llfParseRDTResult
      BY <1>1, <2>3 DEF llfParseRDTResult, ParseTables, StartRebuild, StaticRead, StaticLost,
                        StaticMissed, NoStatic
  <2> QED BY <1>1, <2>1, <2>2, <2>3 DEF RdtNext
<1>2. ASSUME llfInherit \/ AfterResult \/ ResultInherited \/ WithoutResult
      PROVE UNCHANGED <<flash, home, tested, writer>>
    BY <1>2 DEF llfInherit, AfterResult, ResultInherited, WithoutResult
<1>3. CASE UNCHANGED vars
    BY <1>3 DEF vars
<1> QED BY <1>1, <1>2, <1>3, SearchReads DEF Next

\* What the flash holds stays what the test and the drive have written: every state below the
\* one written last is whole, and nothing but the copies, the states and their snapshots is added.
THEOREM FlashInvariant == Spec => []FlashInv
<1>1. Init => FlashInv
  <2>1. SUFFICES ASSUME Init PROVE FlashInv
      OBVIOUS
  <2>2. PICK f \in Flashes :
          /\ tested = f.tested /\ home = f.home /\ formatted = f.formatted /\ told = f.told
          /\ pages = (IF f.formatted THEN {} ELSE TestPages(Ahead(f.tested[0].window)))
                     \cup (IF f.rests THEN TestPages(Behind(f.tested, f.tested[0].window))
                                           \cup Static(f.tested, f.tested[0].window) ELSE {})
                     \cup (IF f.home.old THEN {PageAt("dyn", OldPlace, 0)} ELSE {})
      BY <2>1 DEF Init
  <2>3. Given /\ home \in Home
      BY <2>2, HomeType DEF Given
  <2>4. state = 0 /\ written = 0 /\ DOMAIN spoiled = {}
      BY <2>1 DEF Init
  <2>5. Len(CopyPages) \in Nat /\ Len(Grown) \in Nat
      BY <2>3, CopyKinds, BlockInfoAssumption
  <2>6. ASSUME NEW pg \in pages PROVE Known(pg)
    <3>1. CASE pg.kind \in {"result", "remap", "static"} /\ (pg.kind = "result" => pg.at[1] \in Bank)
        BY <3>1 DEF Known
    <3>2. CASE pg = PageAt("dyn", OldPlace, 0)
        BY <3>2 DEF Known, PageAt
    <3>3. \A S \in SUBSET (Bank \X Int) :
            \A q \in TestPages(S) : q.kind \in {"result", "remap"} /\ q.at[1] \in Bank
        BY DEF TestPages, PageAt
    <3>5. /\ Ahead(tested[0].window) \in SUBSET (Bank \X Int)
          /\ Behind(tested, tested[0].window) \in SUBSET (Bank \X Int)
      <4>1. Blk \subseteq Int
          BY Sizes DEF Blk
      <4>2. TestBlocks(tested[0].window) \subseteq Int
          BY DEF TestBlocks
      <4> QED BY <4>1, <4>2 DEF Ahead, Behind, Place
    <3>4. \A q \in Static(tested, tested[0].window) : q.kind = "static"
        BY DEF Static, PageAt
    <3> QED BY <2>2, <2>6, <3>1, <3>2, <3>3, <3>4, <3>5
  <2> QED BY <2>3, <2>4, <2>5, <2>6 DEF FlashInv
<1>2. FlashInv /\ [Next]_vars => FlashInv'
  <2>1. SUFFICES ASSUME FlashInv, [Next]_vars PROVE FlashInv'
      OBVIOUS
  <2>2. home \in Home /\ Len(CopyPages) \in Nat /\ Len(Grown) \in Nat
      BY <2>1, HomeType, CopyKinds, BlockInfoAssumption DEF FlashInv
  <2>3. ASSUME UNCHANGED <<home, tested, formatted, told>>
        PROVE  /\ Given'
               /\ \A w \in Nat : StatePages(w)' = StatePages(w)
               /\ OldPlace' = OldPlace /\ CopyPages' = CopyPages
               /\ Copies(home.window)' = Copies(home.window)
      BY <2>1, <2>3, SameHome DEF FlashInv, Given
  <2>10. ASSUME UNCHANGED <<home, tested, formatted, told, state>>, NEW pg, Known(pg)
         PROVE  Known(pg)'
    <3>1. 1 .. state \subseteq Nat /\ state \in Nat
        BY <2>1, <2>2 DEF FlashInv
    <3> QED BY <2>3, <2>10, <3>1 DEF Known
  <2> USE DEF infoVars, search, rdtVars, writer
  <2>4. CASE WriteCopy
    <3>1. /\ pages' = pages \cup {CopyPages[written + 1]} /\ written' = written + 1
          /\ ~Formatted /\ UNCHANGED <<spoiled, home, tested, formatted, told, state>>
        BY <2>4 DEF WriteCopy
    <3>2. written + 1 \in 1 .. Len(CopyPages) /\ state = 0
        BY <2>1, <2>2, <3>1 DEF Formatted, FlashInv
    <3>3. ASSUME NEW pg \in pages' PROVE Known(pg)'
      <4>1. CASE pg \in pages
          BY <2>1, <2>3, <3>1, <4>1 DEF FlashInv, Known
      <4>2. CASE pg = CopyPages[written + 1]
          BY <2>2, <2>3, <3>1, <3>2, <4>2, CopyKinds DEF Known
      <4> QED BY <3>1, <3>3, <4>1, <4>2
    <3> QED BY <2>1, <2>2, <2>3, <3>1, <3>2, <3>3 DEF FlashInv
  <2>5. CASE BeginState
    <3> DEFINE snaps == {PageAt("snap", <<state + 1, 0>>, i) : i \in 0 .. (SnapPages(home.real) - 1)}
    <3>1. /\ pages' = pages \cup snaps /\ state' = state + 1 /\ state < Len(Grown)
          /\ Formatted /\ IsWhole(state)
          /\ UNCHANGED <<spoiled, home, tested, formatted, told, written>>
        BY <2>5 DEF BeginState
    <3>2. ASSUME NEW pg \in pages' PROVE Known(pg)'
      <4>1. CASE pg \in pages
        <5>1. Known(pg) /\ 1 .. state \subseteq 1 .. state' /\ 1 .. state \subseteq Nat
              /\ \A w \in 1 .. state : StatePages(w)' = StatePages(w)
            BY <2>1, <2>2, <2>3, <3>1, <4>1 DEF FlashInv
        <5> QED BY <2>3, <3>1, <5>1 DEF Known
      <4>2. CASE pg \in snaps
        <5>1. PICK i \in 0 .. (SnapPages(home.real) - 1) : pg = PageAt("snap", <<state + 1, 0>>, i)
            BY <4>2
        <5>2. state' \in 1 .. state' /\ pg.at = <<state', 0>> /\ pg.kind = "snap"
            BY <2>1, <2>2, <3>1, <5>1 DEF FlashInv, PageAt
        <5> QED BY <3>1, <5>1, <5>2 DEF Known
      <4> QED BY <3>1, <3>2, <4>1, <4>2
    <3>3. \A w \in 1 .. (state' - 1) : StatePages(w)' \subseteq pages'
      <4>1. TAKE w \in 1 .. (state' - 1)
      <4>2. StatePages(w)' = StatePages(w) /\ (w = state \/ w \in 1 .. (state - 1)) /\ w # 0
          BY <2>1, <2>2, <2>3, <3>1 DEF FlashInv
      <4> QED BY <2>1, <3>1, <4>2 DEF FlashInv, IsWhole
    <3>4. Formatted'
        BY <2>3, <3>1 DEF Formatted
    <3>5. DOMAIN spoiled' \subseteq pages'
        BY <2>1, <3>1 DEF FlashInv
    <3> HIDE DEF snaps
    <3> QED BY <2>1, <2>2, <2>3, <3>1, <3>2, <3>3, <3>4, <3>5 DEF FlashInv
  <2>6. CASE WriteState
    <3>1. PICK pg \in StatePages(state) : pages' = pages \cup {pg}
        BY <2>6 DEF WriteState
    <3>2. /\ UNCHANGED <<spoiled, home, tested, formatted, told, written, state>>
          /\ state \in Nat /\ state # 0
        BY <2>1, <2>2, <2>6 DEF WriteState, IsWhole, FlashInv
    <3>3. ASSUME NEW q \in pages' PROVE Known(q)'
      <4>1. CASE q \in pages
          BY <2>1, <2>3, <3>2, <4>1 DEF FlashInv, Known
      <4>2. CASE q = pg
        <5>1. state \in 1 .. state /\ pg.kind = "dyn" /\ pg \in StatePages(state)'
            BY <2>3, <3>1, <3>2 DEF StatePages, StatePage, PageAt
        <5> QED BY <3>2, <4>2, <5>1 DEF Known
      <4> QED BY <3>1, <3>3, <4>1, <4>2
    <3> QED BY <2>1, <2>2, <2>3, <3>1, <3>2, <3>3 DEF FlashInv, Formatted
  <2>7. CASE PowerLoss
    <3>1. UNCHANGED <<home, tested, formatted, told, written, state>>
        BY <2>7 DEF PowerLoss
    <3>2. CASE UNCHANGED <<pages, spoiled>>
      <4>1. \A q \in pages' : Known(q)'
          BY <2>1, <2>10, <3>1, <3>2 DEF FlashInv
      <4> QED BY <2>1, <2>2, <2>3, <3>1, <3>2, <4>1 DEF FlashInv, Formatted
    <3>3. CASE \E pg \in NextPages : pages' = pages \cup {pg} /\ Spoil(pg, "bad")
      <4>1. PICK pg \in NextPages : pages' = pages \cup {pg} /\ Spoil(pg, "bad")
          BY <3>3
      <4>2. Known(pg)'
        <5>1. CASE ~Formatted
          <6>1. pg = CopyPages[written + 1] /\ written + 1 \in 1 .. Len(CopyPages)
              BY <2>1, <2>2, <4>1, <5>1 DEF NextPages, Formatted, FlashInv
          <6> QED BY <2>2, <2>3, <3>1, <6>1, CopyKinds DEF Known
        <5>2. CASE Formatted
          <6>1. pg \in StatePages(state) /\ state \in Nat /\ state # 0
              BY <2>1, <2>2, <4>1, <5>2 DEF NextPages, IsWhole, FlashInv
          <6>2. state \in 1 .. state /\ pg.kind = "dyn" /\ pg \in StatePages(state)'
              BY <2>3, <3>1, <6>1 DEF StatePages, StatePage, PageAt
          <6> QED BY <3>1, <6>2 DEF Known
        <5> QED BY <5>1, <5>2
      <4>3. \A q \in pages' : Known(q)'
          BY <2>1, <2>10, <3>1, <4>1, <4>2 DEF FlashInv
      <4>4. /\ DOMAIN spoiled' = DOMAIN spoiled \cup {pg}
            /\ \A q \in DOMAIN spoiled' : spoiled'[q] = IF q = pg THEN "bad" ELSE spoiled[q]
          BY <4>1 DEF Spoil
      <4> QED BY <2>1, <2>2, <2>3, <3>1, <4>1, <4>3, <4>4 DEF FlashInv, Formatted
    <3> QED BY <2>7, <3>2, <3>3 DEF PowerLoss
  <2>8. CASE Decay
    <3>1. UNCHANGED <<pages, home, tested, formatted, told, written, state>>
        BY <2>8 DEF Decay
    <3>2. PICK pg \in pages, how \in {"weak", "bad", "over"} :
            Spoil(pg, how) /\ (how = "over" => pg.kind = "head")
        BY <2>8 DEF Decay
    <3>3. /\ DOMAIN spoiled' = DOMAIN spoiled \cup {pg}
          /\ \A q \in DOMAIN spoiled' : spoiled'[q] = IF q = pg THEN how ELSE spoiled[q]
        BY <3>2 DEF Spoil
    <3>4. \A q \in pages' : Known(q)'
        BY <2>1, <2>10, <3>1 DEF FlashInv
    <3> QED BY <2>1, <2>2, <2>3, <3>1, <3>2, <3>3, <3>4 DEF FlashInv, Formatted
  <2>9. CASE UNCHANGED <<flash, home, tested, writer>>
    <3>1. \A q \in pages' : Known(q)'
        BY <2>1, <2>9, <2>10 DEF FlashInv, flash
    <3> QED BY <2>1, <2>2, <2>3, <2>9, <3>1 DEF FlashInv, Formatted, flash
  <2> QED BY <2>1, <2>4, <2>5, <2>6, <2>7, <2>8, <2>9, ReadersRead
<1> QED BY <1>1, <1>2, PTL DEF Spec

------------------------------------------------------------------------------
(* The table of defects                                                    *)

\* The groups before n that the snapshot of state t says are bad.
Marked(t, n) == [b \in Bank |-> {m \in Mp : m < n /\ IsBad(Entry(t, m), b)}]

\* The defects of a system are with those of its system blocks, and of the state that was
\* taken: all of them if they are from the copy, or as far as the snapshot was parsed.
SnapInv ==
    /\ taken \in Count \cup {0, OldCount}
    /\ pc \in {"state", "snap"} => taken # 0
    /\ taken # 0 => pc \in {"state", "remap", "remap done", "snap", "end"}
    /\ gfDBTInitDone = "SYSTEM" =>
         /\ pc \in {"remap", "remap done", "snap", "end"}
         /\ guwRealMPBlkNum = home.real
         /\ sysDbt = SystemTable(SystemBlocksOf(taken))
         /\ taken = 0 => dbt = TableOf(home.bad)
    /\ pc = "snap" =>
         /\ gfDBTInitDone = "SYSTEM"
         /\ window = home.window /\ gulSblkCHCEMap = MapOf(home.window)
         /\ snapPage \in Nat
         /\ dbt = Marked(taken, Buffer * (snapPage \div PageLimit))
    /\ Inherited("SYSTEM") =>
         /\ taken \in 0 .. state
         /\ window = home.window /\ gulSblkCHCEMap = MapOf(home.window)
         /\ taken # 0 => \A b \in Bank, m \in 0 .. (home.real - 1) :
                           m \in dbt[b] <=> IsBad(Entry(taken, m), b)

LEMMA Counts ==
    /\ Len(Grown) \in Nat /\ Count = 1 .. Len(Grown) /\ OldCount \in Nat
    /\ OldCount > Len(Grown) /\ 0 \notin Count /\ OldCount \notin Count /\ OldCount # 0
    /\ \A w \in Count : Grown[w] \in Factory
BY BlockInfoAssumption DEF Count

\* A page of a state has a write count, and it is one of the drive, or the old one.
LEMMA CountType ==
    ASSUME FlashInv, NEW pg \in pages, pg.kind = "dyn"
    PROVE  WriteCount(pg) \in Count \cup {OldCount}
<1>1. CASE pg.at = OldPlace
    BY <1>1 DEF WriteCount
<1>2. CASE pg.at # OldPlace
  <2>1. PICK w \in 1 .. state : pg \in StatePages(w)
      BY <1>2 DEF FlashInv, Known, PageAt
  <2>2. w \in Count
      BY <2>1, Counts DEF FlashInv
  <2>3. \E v \in Count : \E p \in {Primary(v), Backup(v)} : StatePage(v, p) = pg
      BY <2>1, <2>2 DEF StatePages
  <2> QED BY <1>2, <2>3 DEF WriteCount
<1> QED BY <1>1, <1>2

\* With the marks of the program failures a snapshot says what went bad up to its state.
LEMMA EntryExact ==
    ASSUME home \in Home, NEW t \in Count, NEW m \in Mp, NEW b \in Bank
    PROVE  IsBad(Entry(t, m), b)
             <=> [bank |-> b, group |-> m] \in home.bad \cup {Grown[i] : i \in 1 .. t}
<1> DEFINE x == [bank |-> b, group |-> m]
           e == Entry(t, m)
<1>1. home.bad \subseteq Factory /\ \A i \in Count : Grown[i] \in Factory
    BY Counts DEF Home
<1>2. t \in Nat /\ t >= 1 /\ t <= Len(Grown) /\ Len(Grown) \in Nat /\ 1 .. t \subseteq Count
    BY Counts
<1>3. \A g \in Factory : g = x <=> g.bank = b /\ g.group = m
    BY DEF Factory
<1>4. b \in e.bad <=> x \in home.bad \cup {Grown[i] : i \in 1 .. (t - 1)}
  <2>1. b \in e.bad <=> \E g \in home.bad \cup {Grown[i] : i \in 1 .. (t - 1)} :
                          g.group = m /\ g.bank = b
      BY DEF Entry
  <2>2. home.bad \cup {Grown[i] : i \in 1 .. (t - 1)} \subseteq Factory
      BY <1>1, <1>2
  <2> HIDE DEF x, e
  <2> QED BY <1>3, <2>1, <2>2
<1>5. (e.pf /\ b \in e.new) <=> x = Grown[t]
  <2>1. e.pf <=> Grown[t].group = m
      BY DEF Entry
  <2>2. b \in e.new <=> \E i \in Count : i \in {t, t + 1} /\ Grown[i].group = m /\ Grown[i].bank = b
      BY DEF Entry
  <2>3. t + 1 \in Count => Grown[t].group # Grown[t + 1].group
    <3>1. SUFFICES ASSUME t + 1 \in Count PROVE Grown[t].group # Grown[t + 1].group
        OBVIOUS
    <3>2. t \in 1 .. (Len(Grown) - 1)
        BY <1>2, <3>1, Counts
    <3> QED BY <3>2, BlockInfoAssumption
  <2> HIDE DEF x, e
  <2> QED BY <1>1, <1>3, <2>1, <2>2, <2>3
<1>6. {Grown[i] : i \in 1 .. t} = {Grown[i] : i \in 1 .. (t - 1)} \cup {Grown[t]}
  <2>1. 1 .. t = (1 .. (t - 1)) \cup {t}
      BY <1>2
  <2> QED BY <2>1
<1>7. IsBad(e, b) <=> b \in e.bad \/ (e.pf /\ b \in e.new)
    BY DEF IsBad
<1> HIDE DEF x, e
<1>8. IsBad(e, b) <=> x \in home.bad \cup {Grown[i] : i \in 1 .. t}
    BY <1>4, <1>5, <1>6, <1>7
<1> QED BY <1>8 DEF x, e

\* Where the pieces of a snapshot begin.
LEMMA Pieces ==
    ASSUME NEW k \in Nat
    PROVE  LET n == k \div PageLimit
           IN  /\ n \in Nat /\ Buffer * n \in Nat /\ Buffer \in Nat
               /\ Buffer * (n + 1) = Buffer * n + Buffer
               /\ IF k % PageLimit = PageLimit - 1
                  THEN (k + 1) \div PageLimit = n + 1 /\ PerPage * (k + 1) = Buffer * (n + 1)
                  ELSE (k + 1) \div PageLimit = n
<1>1. PageLimit \in Nat /\ PageLimit > 0 /\ PerPage \in Nat
    BY BlockInfoAssumption
<1> DEFINE n == k \div PageLimit
           r == k % PageLimit
<1>2. n \in Nat /\ r \in Nat /\ r < PageLimit /\ k = PageLimit * n + r
    BY <1>1
<1>3. Buffer \in Nat
    BY <1>1 DEF Buffer
<1>4. Buffer * n \in Nat /\ Buffer * (n + 1) = Buffer * n + Buffer
    BY <1>2, <1>3
<1>5. r = PageLimit - 1 => k + 1 = PageLimit * (n + 1)
    BY <1>1, <1>2
<1>6. r = PageLimit - 1 => PerPage * (k + 1) = Buffer * (n + 1)
  <2>1. SUFFICES ASSUME r = PageLimit - 1 PROVE PerPage * (k + 1) = Buffer * (n + 1)
      OBVIOUS
  <2>2. PerPage * (PageLimit * (n + 1)) = (PerPage * PageLimit) * (n + 1)
      BY <1>1, <1>2
  <2> QED BY <1>5, <2>1, <2>2 DEF Buffer
<1>7. r = PageLimit - 1 => (k + 1) \div PageLimit = n + 1
  <2>1. SUFFICES ASSUME r = PageLimit - 1 PROVE (k + 1) \div PageLimit = n + 1
      OBVIOUS
  <2>2. k + 1 = PageLimit * (n + 1) /\ n + 1 \in Nat
      BY <1>2, <1>5, <2>1
  <2> HIDE DEF n, r
  <2> QED BY <1>1, <2>2
<1>8. r # PageLimit - 1 => (k + 1) \div PageLimit = n
  <2>1. SUFFICES ASSUME r # PageLimit - 1 PROVE (k + 1) \div PageLimit = n
      OBVIOUS
  <2>2. k + 1 = PageLimit * n + (r + 1) /\ r + 1 < PageLimit /\ r + 1 \in Nat
      BY <1>1, <1>2, <2>1
  <2> HIDE DEF n, r
  <2> QED BY <1>1, <1>2, <2>2
<1> QED BY <1>2, <1>3, <1>4, <1>6, <1>7, <1>8

LEMMA Whole ==
    ASSUME NEW real \in Nat
    PROVE  SnapPages(real) \in Nat /\ PerPage * SnapPages(real) >= real
<1>1. PerPage \in Nat /\ PerPage > 0
    BY BlockInfoAssumption
<1> DEFINE x == real + PerPage - 1
           q == x \div PerPage
           r == x % PerPage
<1>2. x \in Nat /\ q \in Nat /\ r \in Nat /\ r < PerPage /\ x = PerPage * q + r
    BY <1>1
<1>3. PerPage * q \in Nat
    BY <1>1, <1>2
<1> HIDE DEF q, r
<1>4. PerPage * q >= real
    BY <1>1, <1>2, <1>3
<1> QED BY <1>2, <1>4 DEF SnapPages, q

LEMMA SameTables ==
    ASSUME home' = home
    PROVE  /\ \A t, n : Marked(t, n)' = Marked(t, n)
           /\ \A t, m, b : IsBad(Entry(t, m), b)' = IsBad(Entry(t, m), b)
           /\ \A t : SystemBlocksOf(t)' = SystemBlocksOf(t)
BY DEF Marked, IsBad, Entry, SystemBlocksOf

\* While there is no state and no table of a system there is nothing to say.
LEMMA SnapQuiet ==
    ASSUME taken' = 0, gfDBTInitDone' # "SYSTEM", pc' \notin {"state", "snap"}
    PROVE  SnapInv'
BY DEF SnapInv, Inherited

LEMMA SnapDrive ==
    ASSUME SnapInv, WriteCopy \/ BeginState \/ WriteState \/ PowerLoss \/ Decay
    PROVE  SnapInv'
<1> USE DEF infoVars, tables
<1>1. /\ pc \in {"format", "decay"} /\ pc' \in {"format", "decay"}
      /\ taken' = taken /\ gfDBTInitDone' = gfDBTInitDone
    BY DEF WriteCopy, BeginState, WriteState, PowerLoss, Decay
<1>2. taken = 0 /\ gfDBTInitDone # "SYSTEM"
    BY <1>1 DEF SnapInv
<1> QED BY <1>1, <1>2, SnapQuiet

LEMMA SnapResult ==
    ASSUME SnapInv,
           \/ RdtNext /\ UNCHANGED <<home, infoVars, writer>>
           \/ llfInherit \/ AfterResult \/ ResultInherited \/ WithoutResult
    PROVE  SnapInv'
<1> USE DEF infoVars, tables
<1> DEFINE early == {"decay", "rdt", "result", "found", "not found", "tags", "static", "rdt taken",
                     "rdt fails"}
<1>1. CASE RdtNext /\ UNCHANGED <<home, infoVars, writer>>
  <2>1. \/ llfLoadRDTResult \/ ResultRead \/ ResultLost \/ ResultNotFound \/ TakeTag \/ CheckTags
        \/ ParseTables \/ StartRebuild \/ StaticRead \/ StaticLost \/ StaticMissed \/ NoStatic
        \/ BankNotTaken
      BY <1>1 DEF RdtNext, llfGetRDTBankResult, llfParseRDTResult
  <2>2. pc \in early
      BY <2>1 DEF llfLoadRDTResult, ResultRead, ResultLost, ResultNotFound, TakeTag, CheckTags,
                  ParseTables, StartRebuild, StaticRead, StaticLost, StaticMissed, NoStatic,
                  BankNotTaken
  <2>3. taken = 0 /\ gfDBTInitDone # "SYSTEM" /\ taken' = taken
      BY <1>1, <2>2 DEF SnapInv
  <2>4. pc' \notin {"state", "snap"} /\ gfDBTInitDone' \in {gfDBTInitDone, "RDT"}
    <3>1. CASE ResultRead \/ ResultLost
      <4>1. pc' \in {"not found", "found", pc}
          BY <3>1 DEF ResultRead, ResultLost, NextPage
      <4> QED BY <2>2, <3>1, <4>1 DEF ResultRead, ResultLost
    <3>2. CASE ParseTables \/ BankNotTaken \/ StaticRead
      <4>1. PICK passed : AfterBank(passed)
          BY <3>2 DEF ParseTables, BankNotTaken, StaticRead
      <4> QED BY <2>2, <4>1 DEF AfterBank
    <3>3. CASE StaticLost
      <4>1. CASE \E passed : AfterBank(passed)
          BY <4>1 DEF AfterBank
      <4>2. CASE UNCHANGED <<pc, tables>>
          BY <2>2, <4>2
      <4> QED BY <3>3, <4>1, <4>2 DEF StaticLost
    <3>4. CASE \/ llfLoadRDTResult \/ ResultNotFound \/ TakeTag \/ CheckTags
               \/ StartRebuild \/ StaticMissed \/ NoStatic
        BY <2>2, <3>4 DEF llfLoadRDTResult, ResultNotFound, TakeTag, CheckTags, StartRebuild,
                          StaticMissed, NoStatic
    <3> QED BY <2>1, <3>1, <3>2, <3>3, <3>4
  <2> QED BY <2>3, <2>4, SnapQuiet
<1>2. CASE llfInherit \/ AfterResult \/ WithoutResult
  <2>1. /\ pc \in early /\ pc' \in {"rdt", "end", "remap", "load"}
        /\ taken' = taken /\ gfDBTInitDone' = gfDBTInitDone
      BY <1>2 DEF llfInherit, AfterResult, WithoutResult, StartRemap
  <2> QED BY <2>1, SnapQuiet DEF SnapInv
<1>3. CASE ResultInherited
  <2>1. pc' = "end" /\ UNCHANGED <<taken, gfDBTInitDone, home, tables, state>> /\ gfDBTInitDone = "RDT"
      BY <1>3 DEF ResultInherited, writer
  <2>2. taken' \in Count \cup {0, OldCount}
      BY <2>1 DEF SnapInv
  <2> QED BY <2>1, <2>2 DEF SnapInv, Inherited
<1> QED BY <1>1, <1>2, <1>3

LEMMA SnapSearch ==
    ASSUME FlashInv, SnapInv,
           \/ llfLoadBlockInfo \/ FindCopy \/ NoCopy \/ FindAny \/ NothingFound
           \/ llfSearchDynamicSBlock \/ NoBody
    PROVE  SnapInv'
<1> USE DEF infoVars, tables, search
<1>1. CASE llfLoadBlockInfo \/ FindCopy \/ NoCopy \/ FindAny \/ NothingFound \/ NoBody
  <2>1. /\ pc \in {"load", "copy", "any", "body"} /\ pc' \notin {"state", "snap"}
        /\ taken' = taken /\ gfDBTInitDone' = gfDBTInitDone
      BY <1>1 DEF llfLoadBlockInfo, FindCopy, NoCopy, FindAny, NothingFound, Found, NoBody
  <2> QED BY <2>1, SnapQuiet DEF SnapInv
<1>2. CASE ScanSkips \/ ScanReads \/ ScanEnds \/ ReadTarget \/ BisectDown \/ BisectUp
  <2>1. /\ pc \in {"scan", "target", "bisect"} /\ pc' \notin {"state", "snap"}
        /\ taken' = taken /\ gfDBTInitDone' = gfDBTInitDone
      BY <1>2 DEF ScanSkips, ScanReads, ScanEnds, ReadTarget, BisectDown, BisectUp, NoState, Bisect
  <2> QED BY <2>1, SnapQuiet DEF SnapInv
<1>3. CASE ReadLast
  <2>1. pc = "bisect" /\ gfDBTInitDone' = gfDBTInitDone /\ home' = home
      BY <1>3 DEF ReadLast
  <2>2. taken = 0 /\ gfDBTInitDone # "SYSTEM"
      BY <2>1 DEF SnapInv
  <2>3. CASE pc' # "state"
    <3>1. taken' = taken /\ pc' \in {"bisect", "body"}
        BY <1>3, <2>1, <2>3 DEF ReadLast, Bisect, NoState
    <3> QED BY <2>1, <2>2, <3>1, SnapQuiet
  <2>4. CASE pc' = "state"
    <3>1. Reads(llfReadSBlock(LastPage)) /\ taken' = WriteCount(LastPage)
        BY <1>3, <2>1, <2>4 DEF ReadLast, Bisect, NoState
    <3>2. LastPage \in pages /\ LastPage.kind = "dyn"
        BY <3>1 DEF Reads, llfReadSBlock, llfReadRetry, Readable, Quality, LastPage, PageAt
    <3>3. taken' \in Count \cup {OldCount}
        BY <3>1, <3>2, CountType
    <3> QED BY <2>1, <2>2, <2>4, <3>3, Counts DEF SnapInv, Inherited
  <2> QED BY <2>3, <2>4
<1> QED BY <1>1, <1>2, <1>3 DEF llfSearchDynamicSBlock

LEMMA SnapTables ==
    ASSUME FlashInv, SnapInv, UNCHANGED writer,
           \/ ReadBody \/ TakeState \/ AfterRemap
           \/ LlfInheritRemappingTable /\ UNCHANGED <<home, infoVars>>
    PROVE  SnapInv'
<1> USE DEF infoVars, tables, search, writer, where
<1>1. CASE ReadBody
  <2>1. /\ pc = "body" /\ pc' = "remap" /\ gfDBTInitDone' = "SYSTEM" /\ taken' = taken
        /\ home' = home /\ guwRealMPBlkNum' = home.real
        /\ dbt' = TableOf(home.bad) /\ sysDbt' = SystemTable(home.sys)
      BY <1>1 DEF ReadBody, StartRemap
  <2>2. taken = 0
      BY <2>1 DEF SnapInv
  <2>3. SystemBlocksOf(taken)' = home.sys
      BY <2>1, <2>2, Counts DEF SystemBlocksOf
  <2> QED BY <2>1, <2>2, <2>3 DEF SnapInv, Inherited
<1>2. CASE TakeState
  <2>1. /\ pc = "state" /\ pc' = "remap" /\ gfDBTInitDone' = "SYSTEM" /\ taken' = taken
        /\ home' = home /\ guwRealMPBlkNum' = home.real
        /\ sysDbt' = SystemTable(SystemBlocksOf(taken))
      BY <1>2 DEF TakeState, StartRemap
  <2>2. taken # 0 /\ taken \in Count \cup {0, OldCount}
      BY <2>1 DEF SnapInv
  <2> QED BY <2>1, <2>2, SameTables DEF SnapInv, Inherited
<1>3. CASE AfterRemap
  <2>1. /\ pc = "remap done" /\ gfDBTInitDone = "SYSTEM" /\ home' = home
        /\ window' = home.window /\ gulSblkCHCEMap' = MapOf(home.window)
        /\ UNCHANGED <<sysDbt, gfDBTInitDone, guwRealMPBlkNum, taken, state>>
      BY <1>3 DEF AfterRemap
  <2>2. CASE taken = 0
    <3>1. pc' = "end" /\ ret' = "ERR_OK" /\ UNCHANGED dbt
        BY <1>3, <2>2 DEF AfterRemap
    <3>2. 0 \in 0 .. state
        BY Counts DEF FlashInv
    <3> QED BY <2>1, <2>2, <3>1, <3>2, SameTables DEF SnapInv, Inherited
  <2>3. CASE taken # 0
    <3>1. pc' = "snap" /\ dbt' = Empty /\ snapPage' = 0
        BY <1>3, <2>3 DEF AfterRemap
    <3>2. Buffer * (0 \div PageLimit) = 0
        BY BlockInfoAssumption DEF Buffer
    <3>3. Marked(taken, 0) = Empty
        BY DEF Marked, Empty, Mp
    <3> QED BY <2>1, <2>3, <3>1, <3>2, <3>3, SameTables DEF SnapInv, Inherited
  <2> QED BY <2>2, <2>3
<1>4. CASE LlfInheritRemappingTable /\ UNCHANGED <<home, infoVars>>
  <2>1. /\ UNCHANGED <<home, tables, taken, state>>
        /\ pc = "remap"
        /\ pc' \in {"remap", "remap done"} \/ (pc' = "end" /\ ret' # "ERR_OK")
      BY <1>4 DEF LlfInheritRemappingTable, RemapRead, RemapMissed, RemapNotFound
  <2>2. ~Inherited("SYSTEM")'
      BY <2>1 DEF Inherited
  <2> QED BY <2>1, <2>2, SameTables DEF SnapInv
<1> QED BY <1>1, <1>2, <1>3, <1>4

LEMMA SnapSnapshot ==
    ASSUME FlashInv, SnapInv, UNCHANGED writer, ReadSnapPage \/ SnapPageLost
    PROVE  SnapInv'
<1> USE DEF infoVars, tables, search, writer, where
<1>1. /\ pc = "snap" /\ UNCHANGED <<home, state, gfDBTInitDone, sysDbt, guwRealMPBlkNum, taken,
                                    window, gulSblkCHCEMap>>
      /\ taken # 0 /\ gfDBTInitDone = "SYSTEM" /\ guwRealMPBlkNum = home.real
      /\ snapPage \in Nat /\ home \in Home
    BY HomeType DEF ReadSnapPage, SnapPageLost, SnapInv, FlashInv
<1>2. CASE SnapPageLost
  <2>1. pc' = "end" /\ ret' # "ERR_OK"
      BY <1>2 DEF SnapPageLost
  <2> QED BY <1>1, <2>1, SameTables DEF SnapInv, Inherited
<1>3. CASE ReadSnapPage
  <2> DEFINE n == snapPage \div PageLimit
             real == home.real
             Bad(m, b) == IsBad(Entry(taken, m), b)
  <2>1. n \in Nat /\ Buffer * n \in Nat /\ Buffer \in Nat
      BY <1>1, Pieces
  <2>2. real \in Nat /\ real <= MpNum /\ 0 .. (real - 1) \subseteq Mp /\ Mp \subseteq Nat
      BY <1>1, Sizes DEF Home, Mp
  <2>3. dbt = Marked(taken, Buffer * n) /\ Before = Buffer * n
      BY <1>1 DEF SnapInv, Before
  <2>4. \A b \in Bank, m \in Mp : m \in dbt[b] <=> m < Buffer * n /\ Bad(m, b)
      BY <2>3 DEF Marked
  <2>5. taken \in 1 .. state
    <3>1. llfReadRetry(SnapPage)
        BY <1>3 DEF ReadSnapPage, Reads
    <3>2. SnapPage \in pages /\ SnapPage.kind = "snap"
        BY <3>1 DEF llfReadRetry, Readable, Quality, SnapPage, PageAt
    <3>3. PICK w \in 1 .. state : SnapPage.at = <<w, 0>>
        BY <3>2 DEF FlashInv, Known
    <3>4. SnapPage.at = <<taken, 0>>
        BY DEF SnapPage, PageAt
    <3>5. <<taken, 0>> = <<w, 0>>
        BY <3>3, <3>4 DEF PageAt
    <3> QED BY <3>5
  <2>6. CASE IsFull
    <3>1. /\ (snapPage + 1) \div PageLimit = n + 1 /\ Buffer * (n + 1) = Buffer * n + Buffer
          /\ PerPage * (snapPage + 1) = Buffer * n + Buffer
        BY <1>1, <2>6, Pieces DEF IsFull
    <3>2. dbt' = llfParseBlockInfoToDBT(Before, Buffer)
        BY <1>3, <2>6 DEF ReadSnapPage
    <3>3. \A b \in Bank : dbt'[b] = {m \in Mp : m < Buffer * n + Buffer /\ Bad(m, b)}
      <4>1. TAKE b \in Bank
      <4>2. dbt[b] = {m \in Mp : m < Buffer * n /\ Bad(m, b)}
          BY <2>3 DEF Marked
      <4>3. dbt'[b] = dbt[b] \cup {m \in Mp : m \in Buffer * n .. (Buffer * n + Buffer - 1) /\ Bad(m, b)}
          BY <2>3, <3>2 DEF llfParseBlockInfoToDBT
      <4> DEFINE c == Buffer * n
      <4>4. c \in Nat /\ \A m \in Mp : m < c + Buffer <=> m < c \/ m \in c .. (c + Buffer - 1)
          BY <2>1, <2>2
      <4> HIDE DEF c, Bad
      <4> QED BY <4>2, <4>3, <4>4 DEF c
    <3>4. dbt' = Marked(taken, Buffer * ((snapPage + 1) \div PageLimit))
      <4>1. dbt' = [b \in Bank |-> dbt'[b]]
          BY <3>2 DEF llfParseBlockInfoToDBT
      <4> HIDE DEF n
      <4> QED BY <3>1, <3>3, <4>1 DEF Marked
    <3>5. CASE ~IsLast
      <4>1. pc' = "snap" /\ snapPage' = snapPage + 1
          BY <1>1, <1>3, <3>5 DEF ReadSnapPage
      <4>2. dbt' = Marked(taken, Buffer * (snapPage \div PageLimit))'
          BY <1>1, <3>4, <4>1, SameTables
      <4>3. snapPage' \in Nat
          BY <1>1, <4>1
      <4> QED BY <1>1, <4>1, <4>2, <4>3, SameTables DEF SnapInv, Inherited
    <3>6. CASE IsLast
      <4>1. pc' = "end" /\ snapPage + 1 = SnapPages(real)
          BY <1>1, <1>3, <3>6 DEF ReadSnapPage, IsLast
      <4>2. Buffer * n + Buffer >= real
          BY <2>2, <3>1, <4>1, Whole
      <4>3. \A b \in Bank, m \in 0 .. (real - 1) : m \in dbt'[b] <=> Bad(m, b)
        <5> DEFINE c == Buffer * n
        <5>1. c \in Nat /\ \A m \in 0 .. (real - 1) : m \in Mp /\ m < c + Buffer
            BY <2>1, <2>2, <4>2
        <5> HIDE DEF c, Bad
        <5> QED BY <3>3, <5>1 DEF c
      <4> QED BY <1>1, <2>5, <4>1, <4>3, SameTables DEF SnapInv, Inherited
    <3> QED BY <3>5, <3>6
  <2>7. CASE ~IsFull
    <3>1. (snapPage + 1) \div PageLimit = n
        BY <1>1, <2>7, Pieces DEF IsFull
    <3>2. CASE ~IsLast
      <4>1. pc' = "snap" /\ snapPage' = snapPage + 1 /\ dbt' = dbt
          BY <1>1, <1>3, <2>7, <3>2 DEF ReadSnapPage
      <4>2. dbt' = Marked(taken, Buffer * (snapPage \div PageLimit))'
          BY <1>1, <2>3, <3>1, <4>1, SameTables
      <4>3. snapPage' \in Nat
          BY <1>1, <4>1
      <4> QED BY <1>1, <4>1, <4>2, <4>3, SameTables DEF SnapInv, Inherited
    <3>3. CASE IsLast
      <4>1. pc' = "end" /\ dbt' = llfParseBlockInfoToDBT(Before, real - Before)
          BY <1>1, <1>3, <2>7, <3>3 DEF ReadSnapPage
      <4>2. \A b \in Bank, m \in 0 .. (real - 1) : m \in dbt'[b] <=> Bad(m, b)
        <5> DEFINE c == Buffer * n
        <5>1. TAKE b \in Bank, m \in 0 .. (real - 1)
        <5>2. m \in dbt'[b] <=> m \in dbt[b] \/ (m \in Mp /\ m \in c .. (c + (real - c) - 1) /\ Bad(m, b))
            BY <2>3, <4>1 DEF llfParseBlockInfoToDBT
        <5>3. c \in Nat /\ m \in Mp /\ (m < c \/ m \in c .. (c + (real - c) - 1))
            BY <2>1, <2>2
        <5>4. m \in dbt[b] <=> m < c /\ Bad(m, b)
            BY <2>4, <5>3
        <5> HIDE DEF c, Bad
        <5> QED BY <5>2, <5>3, <5>4
      <4> QED BY <1>1, <2>5, <4>1, <4>2, SameTables DEF SnapInv, Inherited
    <3> QED BY <3>2, <3>3
  <2> QED BY <2>6, <2>7
<1> QED BY <1>2, <1>3

\* The table that is read is at every page of the snapshot what its state says of the groups that
\* were read, and it is parsed at the end as a whole (llfReadBlockInfo).
THEOREM SnapInvariant == Spec => []SnapInv
<1>1. Init => SnapInv
  <2>1. SUFFICES ASSUME Init PROVE SnapInv
      OBVIOUS
  <2>2. taken = 0 /\ gfDBTInitDone # "SYSTEM" /\ pc \in {"format", "decay"}
      BY <2>1 DEF Init
  <2> QED BY <2>2 DEF SnapInv, Inherited
<1>2. FlashInv /\ SnapInv /\ [Next]_vars => SnapInv'
  <2>1. SUFFICES ASSUME FlashInv, SnapInv, [Next]_vars PROVE SnapInv'
      OBVIOUS
  <2>2. CASE WriteCopy \/ BeginState \/ WriteState \/ PowerLoss \/ Decay
      BY <2>1, <2>2, SnapDrive
  <2>3. CASE \/ RdtNext /\ UNCHANGED <<home, infoVars, writer>>
             \/ llfInherit \/ AfterResult \/ ResultInherited \/ WithoutResult
      BY <2>1, <2>3, SnapResult
  <2>4. CASE BlockInfoNext /\ UNCHANGED <<rdtVars, writer>>
    <3>1. CASE \/ llfLoadBlockInfo \/ FindCopy \/ NoCopy \/ FindAny \/ NothingFound
               \/ llfSearchDynamicSBlock \/ NoBody
        BY <2>1, <3>1, SnapSearch
    <3>2. CASE ReadBody \/ TakeState \/ AfterRemap
        BY <2>1, <2>4, <3>2, SnapTables
    <3>3. CASE ReadSnapPage \/ SnapPageLost
        BY <2>1, <2>4, <3>3, SnapSnapshot
    <3> QED BY <2>4, <3>1, <3>2, <3>3 DEF BlockInfoNext
  <2>5. CASE LlfInheritRemappingTable /\ UNCHANGED <<home, infoVars, rdtVars, writer>>
      BY <2>1, <2>5, SnapTables
  <2>6. CASE UNCHANGED vars
    <3>1. UNCHANGED <<home, taken, gfDBTInitDone, guwRealMPBlkNum, sysDbt, dbt, pc, window,
                      gulSblkCHCEMap, snapPage, state, ret>>
        BY <2>6 DEF vars, infoVars, tables, where, writer
    <3>2. /\ Marked(taken, Buffer * (snapPage \div PageLimit))' = Marked(taken, Buffer * (snapPage \div PageLimit))
          /\ MapOf(home.window)' = MapOf(home.window)
          /\ SystemTable(SystemBlocksOf(taken))' = SystemTable(SystemBlocksOf(taken))
          /\ TableOf(home.bad)' = TableOf(home.bad)
        BY <3>1, SameTables DEF MapOf, Copies, SystemTable, TableOf
    <3>3. (pc = "snap" =>
             /\ gfDBTInitDone = "SYSTEM"
             /\ window = home.window /\ gulSblkCHCEMap = MapOf(home.window)
             /\ snapPage \in Nat
             /\ dbt = Marked(taken, Buffer * (snapPage \div PageLimit)))'
        BY <2>1, <3>1, <3>2 DEF SnapInv
    <3>4. (gfDBTInitDone = "SYSTEM" =>
             /\ pc \in {"remap", "remap done", "snap", "end"}
             /\ guwRealMPBlkNum = home.real
             /\ sysDbt = SystemTable(SystemBlocksOf(taken))
             /\ taken = 0 => dbt = TableOf(home.bad))'
        BY <2>1, <3>1, <3>2 DEF SnapInv
    <3>5. (Inherited("SYSTEM") =>
             /\ taken \in 0 .. state
             /\ window = home.window /\ gulSblkCHCEMap = MapOf(home.window)
             /\ taken # 0 => \A b \in Bank, m \in 0 .. (home.real - 1) :
                               m \in dbt[b] <=> IsBad(Entry(taken, m), b))'
      <4>1. Inherited("SYSTEM")' <=> Inherited("SYSTEM")
          BY <3>1 DEF Inherited
      <4>2. \A m, b : IsBad(Entry(taken, m), b)' <=> IsBad(Entry(taken, m), b)
          BY <3>1 DEF IsBad, Entry
      <4> QED BY <2>1, <3>1, <3>2, <4>1, <4>2 DEF SnapInv
    <3> QED BY <2>1, <3>1, <3>3, <3>4, <3>5 DEF SnapInv
  <2> QED BY <2>1, <2>2, <2>3, <2>4, <2>5, <2>6 DEF Next
<1> QED BY <1>1, <1>2, FlashInvariant, PTL DEF Spec

\* The defects that are inherited are exactly those of the state that was taken, or of the
\* format (llfReadBlockInfo, llfParseBlockInfoToDBT, llfReadDBTFromStaticSblock), with the
\* window and the defects of the system blocks, whatever could not be read.
THEOREM SnapshotExact == Spec => []TableIsSnapshot
<1>1. FlashInv /\ SnapInv => TableIsSnapshot
  <2>1. SUFFICES ASSUME FlashInv, SnapInv, Inherited("SYSTEM") PROVE TableIsSnapshot
      BY DEF TableIsSnapshot
  <2>2. home \in Home /\ taken \in 0 .. state /\ state \in Nat /\ state <= Len(Grown)
    <3>1. home \in Home /\ state \in 0 .. Len(Grown)
        BY <2>1, HomeType DEF FlashInv
    <3>2. taken \in 0 .. state
        BY <2>1 DEF SnapInv
    <3> QED BY <3>1, <3>2, Counts
  <2>3. 0 .. (home.real - 1) \subseteq Mp
      BY <2>2, Sizes DEF Home, Mp
  <2>4. sysDbt = SystemTable(home.sys)
    <3>1. taken # OldCount
        BY <2>2, Counts
    <3> QED BY <2>1, <3>1 DEF SnapInv, Inherited, SystemBlocksOf
  <2>5. ASSUME NEW b \in Bank, NEW m \in 0 .. (home.real - 1)
        PROVE m \in dbt[b] <=> [bank |-> b, group |-> m] \in home.bad \cup {Grown[i] : i \in 1 .. taken}
    <3>1. CASE taken = 0
      <4>1. dbt[b] = {g.group : g \in {g \in home.bad : g.bank = b}}
          BY <2>1, <3>1 DEF SnapInv, Inherited, TableOf
      <4>2. \A g \in home.bad : g = [bank |-> b, group |-> m] <=> g.bank = b /\ g.group = m
          BY <2>2 DEF Home, Factory
      <4>3. {Grown[i] : i \in 1 .. taken} = {}
          BY <3>1
      <4>4. m \in dbt[b] <=> \E g \in home.bad : g.bank = b /\ g.group = m
          BY <4>1
      <4> QED BY <4>2, <4>3, <4>4
    <3>2. CASE taken # 0
      <4>1. taken \in Count
          BY <2>2, <3>2, Counts
      <4> QED BY <2>1, <2>2, <2>3, <2>5, <3>2, <4>1, EntryExact DEF SnapInv
    <3> QED BY <3>1, <3>2
  <2> QED BY <2>1, <2>4, <2>5 DEF TableIsSnapshot, SnapInv
<1> QED BY <1>1, FlashInvariant, SnapInvariant, PTL

------------------------------------------------------------------------------
(* Where the reader looks for the copies                                   *)

\* Never where the drive has its states: they are read with every retry.
WindowInv ==
    /\ buf \in Bank \cup {NoResult}
    /\ window.start \in Nat /\ window.start + SblkBlks <= DynBegin

\* The window moves to that of the drive, or of the last result that was read.
LEMMA WindowMoves ==
    ASSUME FlashInv, [Next]_vars
    PROVE  /\ \/ window' \in {window, home.window}
              \/ buf # NoResult /\ window' = tested[buf].window
           /\ \/ buf' \in {buf, NoResult}
              \/ \E pg \in pages : pg.kind = "result" /\ buf' = pg.at[1]
<1> USE DEF where
<1>1. CASE UNCHANGED <<buf, where>>
    BY <1>1
<1>2. CASE ResultRead
  <2>1. PICK pg : pg = ResultPage(at, page) /\ buf' \in {ResultOf(pg), NoResult}
                  /\ (buf' # NoResult => llfReadRetry(pg) /\ buf' = ResultOf(pg))
      BY <1>2 DEF ResultRead, llfReadRetry
  <2>2. buf' # NoResult => pg \in pages /\ pg.kind = "result" /\ buf' = pg.at[1]
      BY <2>1 DEF ResultOf, llfReadRetry, Readable, Quality
  <2> QED BY <1>2, <2>2 DEF ResultRead
<1>3. CASE StaticRead
    BY <1>3 DEF StaticRead
<1>4. CASE CheckTags
    BY <1>4 DEF CheckTags
<1> USE DEF rdtVars, buffers
<1>5. CASE BlockInfoNext /\ UNCHANGED <<rdtVars, writer>>
  <2>1. CASE llfLoadBlockInfo \/ FindCopy \/ NoCopy \/ FindAny \/ NothingFound
      BY <1>1, <1>5, <2>1 DEF llfLoadBlockInfo, FindCopy, NoCopy, FindAny, NothingFound, Found
  <2>2. CASE ReadTarget \/ AfterRemap
      BY <1>5, <2>2 DEF ReadTarget, AfterRemap
  <2>3. CASE ScanSkips \/ ScanReads \/ ScanEnds \/ BisectDown \/ BisectUp \/ ReadLast
      BY <1>1, <1>5, <2>3 DEF ScanSkips, ScanReads, ScanEnds, BisectDown, BisectUp, ReadLast
  <2>4. CASE ReadBody \/ NoBody \/ TakeState \/ ReadSnapPage \/ SnapPageLost
      BY <1>1, <1>5, <2>4 DEF ReadBody, NoBody, TakeState, ReadSnapPage, SnapPageLost
  <2> QED BY <1>5, <2>1, <2>2, <2>3, <2>4 DEF BlockInfoNext, llfSearchDynamicSBlock
<1>6. CASE RdtNext
  <2>1. CASE \/ llfLoadRDTResult \/ ResultLost \/ ResultNotFound \/ TakeTag \/ BankNotTaken
             \/ ParseTables \/ StartRebuild \/ StaticLost \/ StaticMissed \/ NoStatic
      BY <1>1, <2>1 DEF llfLoadRDTResult, ResultLost, ResultNotFound, TakeTag, BankNotTaken,
                        ParseTables, StartRebuild, StaticLost, StaticMissed, NoStatic
  <2> QED BY <1>2, <1>3, <1>4, <1>6, <2>1 DEF RdtNext, llfGetRDTBankResult, llfParseRDTResult
<1>7. CASE LlfInheritRemappingTable /\ UNCHANGED <<home, infoVars, rdtVars, writer>>
    BY <1>1, <1>7 DEF LlfInheritRemappingTable, RemapRead, RemapMissed, RemapNotFound
<1>8. CASE \/ WriteCopy \/ BeginState \/ WriteState \/ PowerLoss \/ Decay
           \/ llfInherit \/ AfterResult \/ ResultInherited \/ WithoutResult
    BY <1>1, <1>8 DEF WriteCopy, BeginState, WriteState, PowerLoss, Decay,
                      llfInherit, AfterResult, ResultInherited, WithoutResult
<1>9. CASE UNCHANGED vars
    BY <1>1, <1>9 DEF vars
<1> QED BY <1>5, <1>6, <1>7, <1>8, <1>9 DEF Next

LEMMA WindowStep ==
    ASSUME FlashInv, WindowInv, [Next]_vars
    PROVE  WindowInv'
<1>1. home \in Home /\ home' = home
    BY HomeType, ReadersRead DEF FlashInv, WriteCopy, BeginState, WriteState, PowerLoss, Decay
<1>2. DynBegin' = DynBegin
    BY <1>1 DEF DynBegin
<1>3. home.window.start \in Nat /\ home.window.start + SblkBlks <= DynBegin
    BY <1>1, Sizes DEF Home, Window, DynBegin
<1>4. \A b \in Bank : tested[b].window.start \in Nat /\ tested[b].window.start + SblkBlks <= DynBegin
  <2>1. PICK f \in Flashes : tested = f.tested /\ home = f.home
      BY DEF FlashInv, Given
  <2>2. \A b \in Bank : tested[b].window.start + SblkBlks <= home.window.start + SblkBlks + ExtRdt
      BY <2>1, InheritAssumption, Sizes DEF Bank
  <2>3. \A b \in Bank : tested[b] \in Test
      BY <2>1, InheritAssumption
  <2>4. \A b \in Bank : tested[b].window.start \in Nat
      BY <2>3, Sizes DEF Test, Window
  <2> QED BY <2>2, <2>4 DEF DynBegin
<1>5. buf' \in Bank \cup {NoResult}
  <2>1. \A pg \in pages : pg.kind = "result" => pg.at[1] \in Bank
      BY DEF FlashInv, Known
  <2> QED BY <2>1, WindowMoves DEF WindowInv
<1>6. window'.start \in Nat /\ window'.start + SblkBlks <= DynBegin
  <2>1. CASE window' \in {window, home.window}
      BY <1>3, <2>1 DEF WindowInv
  <2>2. CASE buf # NoResult /\ window' = tested[buf].window
      BY <1>4, <2>2 DEF WindowInv
  <2> QED BY <2>1, <2>2, WindowMoves
<1> QED BY <1>2, <1>5, <1>6 DEF WindowInv

\* The window, wherever the reader moves it, ends below the blocks of the states.
THEOREM WindowInvariant == Spec => []WindowInv
<1>1. Init => WindowInv
  <2>1. SUFFICES ASSUME Init PROVE WindowInv
      OBVIOUS
  <2>2. PICK f \in Flashes :
          home = f.home /\ window = IF f.told THEN f.home.window ELSE [bank |-> 0, start |-> 0]
      BY <2>1 DEF Init
  <2>3. home \in Home
      BY <2>2, InheritAssumption
  <2>4. home.window.start \in Nat /\ home.window.start + SblkBlks <= DynBegin
      BY <2>3, Sizes DEF Home, Window, DynBegin
  <2> QED BY <2>1, <2>2, <2>4, Sizes DEF Init, WindowInv, DynBegin
<1> QED BY <1>1, WindowStep, FlashInvariant, PTL DEF Spec

------------------------------------------------------------------------------
(* The newest state                                                        *)

\* The pair of blocks of state w, its page there, and the first state of the pair.
PairNo(w) == (w - 1) \div Pages
PageNo(w) == (w - 1) % Pages
First(w) == w - PageNo(w)

\* No read was lost, and no page of a state but of the one the power loss left torn.
Clean ==
    /\ lost = 0
    /\ \A pg \in DOMAIN spoiled : pg.kind = "dyn" => pg \in Torn \/ spoiled[pg] = "weak"

Ok(p, n) == llfReadRetry(PageAt("dyn", p, n))

DynPlace == {p \in Bank \X Nat : p[2] >= DynBegin /\ p[2] < DynEnd}

\* A first page with count c can be read in block p of its pair.
Seen(c, p) ==
    /\ c \in Count \cup {OldCount}
    /\ p \in {PairOf(c)[1], PairOf(c)[2]} /\ Ok(p, 0)
    /\ c \in Count => c <= state /\ PageNo(c) = 0

\* The search has come to a, and found the newest before it.
Scanned(skip, a, f) ==
    \A p \in DynPlace :
        (p[2] < a[2] \/ (p[2] = a[2] /\ p[1] < a[1])) /\ p \notin skip /\ Ok(p, 0)
            => f.count >= WriteCount(PageAt("dyn", p, 0))

ScanInv ==
    /\ at \in Bank \X Nat /\ DynBegin <= at[2] /\ at[2] <= DynEnd
    /\ found.count = 0 \/ Seen(found.count, found.at)
    /\ IF tag = "STATIC" \/ FirstPage(head).kind = "dyn"
       THEN Scanned(KnownDefects, at, found)
       ELSE at[2] = DynEnd /\ found.count = 0

TargetInv == Seen(found.count, found.at) /\ found.count >= First(Newest)

\* The last page that can be read is at page_down or behind it, and before page_up; there
\* may be none in the first block, but then there is one in the other.
BisectInv ==
    LET c == found.count
    IN  /\ page_down \in Nat /\ page_up \in Nat /\ page_down < page_up /\ page_up <= Pages
        /\ targetWCnt = IF c = OldCount THEN c ELSE c + page_down
        /\ page_down > 0 => Ok(at, page_down)
        /\ page_up < Pages => ~Ok(at, page_up)
        /\ \/ at = PairOf(c)[1] /\ other = PairOf(c)[2]
           \/ at = PairOf(c)[2] /\ other = NoPlace /\ ~Ok(PairOf(c)[1], 0)

NewestInv ==
    /\ lost \in Nat
    /\ pc \in {"copy", "any"} => found.count = 0
    /\ Clean /\ Newest > 0 =>
         /\ pc = "scan" => ScanInv
         /\ pc = "target" => TargetInv /\ at = found.at
         /\ pc = "bisect" => TargetInv /\ BisectInv
         /\ pc = "body" => tag # "STATIC"
         /\ pc = "state" \/ gfDBTInitDone = "SYSTEM" => taken >= Newest

LEMMA Split ==
    ASSUME NEW w \in Nat, w > 0
    PROVE  /\ PairNo(w) \in Nat /\ PageNo(w) \in Nat /\ PageNo(w) < Pages
           /\ w = Pages * PairNo(w) + PageNo(w) + 1 /\ Pages * PairNo(w) \in Nat
           /\ First(w) \in 1 .. w /\ First(w) = Pages * PairNo(w) + 1
<1> DEFINE k == (w - 1) \div Pages
           n == (w - 1) % Pages
<1>1. Pages \in Nat /\ Pages > 0 /\ w - 1 \in Nat
    BY BlockInfoAssumption
<1>2. k \in Nat /\ n \in Nat /\ n < Pages /\ w - 1 = Pages * k + n
    BY <1>1
<1> HIDE DEF k, n
<1>3. Pages * k \in Nat
    BY <1>1, <1>2
<1>4. PairNo(w) = k /\ PageNo(w) = n
    BY DEF PairNo, PageNo, k, n
<1>5. First(w) = w - n
    BY <1>4 DEF First
<1> QED BY <1>2, <1>3, <1>4, <1>5

LEMMA SplitOnce ==
    ASSUME NEW k \in Nat, NEW n \in Nat, n < Pages
    PROVE  PairNo(Pages * k + n + 1) = k /\ PageNo(Pages * k + n + 1) = n
<1>1. Pages \in Nat /\ Pages > 0 /\ Pages * k \in Nat
    BY BlockInfoAssumption
<1> DEFINE x == Pages * k + n
<1>2. x \div Pages = k /\ x % Pages = n /\ x \in Nat
    BY <1>1
<1> HIDE DEF x
<1>3. (x + 1) - 1 = x
    BY <1>2
<1>4. PairNo(x + 1) = k /\ PageNo(x + 1) = n
    BY <1>2, <1>3 DEF PairNo, PageNo
<1> QED BY <1>4 DEF x

LEMMA FirstOfPair ==
    ASSUME NEW w \in Nat, w > 0
    PROVE  PairNo(First(w)) = PairNo(w) /\ PageNo(First(w)) = 0
<1>1. First(w) = Pages * PairNo(w) + 0 + 1 /\ PairNo(w) \in Nat
    BY Split
<1>2. 0 \in Nat /\ 0 < Pages
    BY BlockInfoAssumption
<1> QED BY <1>1, <1>2, SplitOnce

LEMMA PairBound ==
    ASSUME NEW w \in Count
    PROVE  w \in Nat /\ w > 0 /\ PairNo(w) \in 0 .. (Pairs - 1)
<1>1. w \in Nat /\ w > 0 /\ w <= Len(Grown) /\ Len(Grown) \in Nat
    BY Counts
<1>2. Pages \in Nat /\ Pages > 0 /\ Pairs \in Nat /\ Len(Grown) <= Pages * Pairs
    BY BlockInfoAssumption
<1>3. PairNo(w) \in Nat /\ Pages * PairNo(w) < w
    BY <1>1, Split
<1>4. PairNo(w) < Pairs
  <2>1. SUFFICES ASSUME PairNo(w) >= Pairs PROVE FALSE
      BY <1>2, <1>3
  <2> DEFINE k == PairNo(w)
  <2>2. k \in Nat /\ k >= Pairs
      BY <1>3, <2>1
  <2>3. Pages * k < w
      BY <1>3
  <2> HIDE DEF k
  <2>4. Pages * k >= Pages * Pairs /\ Pages * k \in Nat /\ Pages * Pairs \in Nat
      BY <1>2, <2>2
  <2> QED BY <1>1, <1>2, <2>3, <2>4
<1> QED BY <1>1, <1>2, <1>3, <1>4

\* The first state of a pair is that of w's pair, or of an earlier one, or comes after w.
LEMMA Later ==
    ASSUME NEW c \in Nat, c > 0, PageNo(c) = 0, NEW w \in Nat, w > 0, c >= First(w)
    PROVE  c = First(w) \/ c > w
<1> DEFINE k == PairNo(c)
           l == PairNo(w)
<1>1. /\ k \in Nat /\ c = Pages * k + 1 /\ Pages * k \in Nat
      /\ l \in Nat /\ First(w) = Pages * l + 1 /\ Pages * l \in Nat
      /\ w = Pages * l + PageNo(w) + 1 /\ PageNo(w) \in Nat /\ PageNo(w) < Pages
    BY Split
<1>2. Pages \in Nat /\ Pages > 0
    BY BlockInfoAssumption
<1> HIDE DEF k, l
<1>3. CASE k = l
    BY <1>1, <1>3
<1>4. CASE k > l
  <2>1. Pages * k >= Pages * (l + 1) /\ Pages * (l + 1) = Pages * l + Pages
      BY <1>1, <1>2, <1>4
  <2> QED BY <1>1, <1>2, <2>1
<1>5. CASE k < l
  <2>1. Pages * l >= Pages * (k + 1) /\ Pages * (k + 1) = Pages * k + Pages
      BY <1>1, <1>2, <1>5
  <2> QED BY <1>1, <1>2, <2>1
<1> QED BY <1>1, <1>3, <1>4, <1>5

LEMMA Blocks ==
    ASSUME home \in Home
    PROVE  /\ DynBegin \in Nat /\ DynEnd = DynBegin + Pairs + 1 /\ Pairs \in Nat /\ Pairs > 0
           /\ \A k \in 0 .. (Pairs - 1) : PairBlock(k) \in DynBegin .. (DynBegin + Pairs - 1)
           /\ \A k, l \in 0 .. (Pairs - 1) : PairBlock(k) = PairBlock(l) => k = l
<1>1. DynBegin \in Nat /\ DynEnd = DynBegin + Pairs + 1 /\ Pairs \in Nat /\ Pairs > 0
    BY Sizes, BlockInfoAssumption DEF Home, Window, DynBegin, DynEnd
<1>2. home.first \in 0 .. (Pairs - 1)
    BY DEF Home
<1>3. \A k \in 0 .. (Pairs - 1) :
        (home.first + k) % Pairs = IF home.first + k < Pairs THEN home.first + k
                                   ELSE home.first + k - Pairs
    BY <1>1, <1>2
<1>4. \A k \in 0 .. (Pairs - 1) :
        PairBlock(k) = IF home.first + k < Pairs THEN DynBegin + home.first + k
                       ELSE DynBegin + home.first + k - Pairs
  <2>1. TAKE k \in 0 .. (Pairs - 1)
  <2> DEFINE m == (home.first + k) % Pairs
  <2>2. PairBlock(k) = DynBegin + m
      BY DEF PairBlock
  <2>3. m = IF home.first + k < Pairs THEN home.first + k ELSE home.first + k - Pairs
      BY <1>3
  <2> HIDE DEF m
  <2> QED BY <1>1, <1>2, <2>2, <2>3
<1>5. \A k \in 0 .. (Pairs - 1) : PairBlock(k) \in DynBegin .. (DynBegin + Pairs - 1)
    BY <1>1, <1>2, <1>4
<1>6. ASSUME NEW k \in 0 .. (Pairs - 1), NEW l \in 0 .. (Pairs - 1), PairBlock(k) = PairBlock(l)
      PROVE  k = l
    BY <1>1, <1>2, <1>4, <1>6
<1> QED BY <1>1, <1>5, <1>6

\* Places of a pair, and of the old state.
LEMMA PairPlaces ==
    ASSUME home \in Home, NEW c \in Count \cup {OldCount}, NEW p \in {PairOf(c)[1], PairOf(c)[2]}
    PROVE  /\ p \in DynPlace
           /\ p = OldPlace <=> c = OldCount
           /\ c \in Count => /\ p[2] = PairBlock(PairNo(c)) /\ p \in {Primary(c), Backup(c)}
                             /\ p[1] \in {0, BankNum - 1}
           /\ c \in Count => PairOf(c) = <<Primary(c), Backup(c)>>
<1>1. 0 \in Bank /\ BankNum - 1 \in Bank
    BY Sizes DEF Bank
<1>2. CASE c = OldCount
  <2>1. p = OldPlace /\ p = <<0, DynEnd - 1>>
      BY <1>2 DEF PairOf, OldPlace
  <2> QED BY <1>1, <1>2, <2>1, Blocks, Counts DEF DynPlace
<1>3. CASE c # OldCount
  <2>1. c \in Count /\ PairNo(c) \in 0 .. (Pairs - 1) /\ PairOf(c) = <<Primary(c), Backup(c)>>
      BY <1>3, PairBound DEF PairOf
  <2>2. p \in {<<0, PairBlock(PairNo(c))>>, <<BankNum - 1, PairBlock(PairNo(c))>>}
      BY <2>1 DEF Primary, Backup, PairNo
  <2>3. PairBlock(PairNo(c)) \in DynBegin .. (DynBegin + Pairs - 1)
      BY <2>1, Blocks
  <2>4. p[2] # DynEnd - 1
      BY <2>2, <2>3, Blocks
  <2> QED BY <1>1, <1>3, <2>1, <2>2, <2>3, <2>4, Blocks DEF DynPlace, OldPlace
<1> QED BY <1>2, <1>3

\* A page is of one state only.
LEMMA OneState ==
    ASSUME home \in Home, NEW v \in Count, NEW w \in Count, NEW pg \in StatePages(v),
           pg \in StatePages(w)
    PROVE  v = w
<1>1. /\ pg.n = PageNo(v) /\ pg.n = PageNo(w)
      /\ pg.at[2] = PairBlock(PairNo(v)) /\ pg.at[2] = PairBlock(PairNo(w))
    BY DEF StatePages, StatePage, PageAt, Primary, Backup, PageNo, PairNo
<1>2. PairNo(v) = PairNo(w)
    BY <1>1, PairBound, Blocks
<1> QED BY <1>1, <1>2, PairBound, Split

\* What a page of a state says.
LEMMA CountOf ==
    ASSUME FlashInv, NEW w \in Count, NEW pg \in StatePages(w)
    PROVE  WriteCount(pg) = w
<1>1. home \in Home
    BY HomeType DEF FlashInv
<1>2. PICK p \in {Primary(w), Backup(w)} : pg = StatePage(w, p)
    BY DEF StatePages
<1>3. p \in {PairOf(w)[1], PairOf(w)[2]} /\ pg.at = p
    BY <1>2, Counts DEF PairOf, StatePage, PageAt
<1>4. pg.at # OldPlace
    BY <1>1, <1>3, PairPlaces, Counts
<1> DEFINE v == CHOOSE v \in Count : \E q \in {Primary(v), Backup(v)} : StatePage(v, q) = pg
<1>5. v \in Count /\ \E q \in {Primary(v), Backup(v)} : StatePage(v, q) = pg
    BY <1>2
<1>6. pg \in StatePages(v)
    BY <1>5 DEF StatePages
<1> QED BY <1>1, <1>4, <1>5, <1>6, OneState DEF WriteCount

LEMMA CountAt ==
    ASSUME FlashInv, NEW c \in Count \cup {OldCount}, NEW p \in {PairOf(c)[1], PairOf(c)[2]},
           c \in Count => PageNo(c) = 0,
           NEW n \in Nat, n < Pages, PageAt("dyn", p, n) \in pages
    PROVE  WriteCount(PageAt("dyn", p, n)) = IF c = OldCount THEN c ELSE c + n
<1> DEFINE pg == PageAt("dyn", p, n)
<1>1. home \in Home /\ pg.kind = "dyn" /\ pg.at = p /\ pg.n = n
    BY HomeType DEF FlashInv, PageAt
<1>2. CASE c = OldCount
    BY <1>1, <1>2, PairPlaces DEF WriteCount
<1>3. CASE c # OldCount
  <2>1. c \in Count /\ p # OldPlace /\ p[2] = PairBlock(PairNo(c))
      BY <1>1, <1>3, PairPlaces
  <2>2. PICK w \in 1 .. state : pg \in StatePages(w)
    <3>1. pg \in pages /\ pg # PageAt("dyn", OldPlace, 0)
        BY <1>1, <2>1 DEF PageAt
    <3> HIDE DEF pg
    <3> QED BY <1>1, <3>1 DEF FlashInv, Known
  <2>3. w \in Count
      BY <2>2, Counts DEF FlashInv
  <2>4. pg.n = PageNo(w) /\ pg.at[2] = PairBlock(PairNo(w))
      BY <2>2 DEF StatePages, StatePage, PageAt, Primary, Backup, PageNo, PairNo
  <2>5. PairNo(w) = PairNo(c)
      BY <1>1, <2>1, <2>3, <2>4, PairBound, Blocks
  <2>6. w = Pages * PairNo(c) + n + 1 /\ c = Pages * PairNo(c) + 1 /\ Pages * PairNo(c) \in Nat
      BY <1>1, <2>1, <2>3, <2>4, <2>5, PairBound, Split
  <2> HIDE DEF pg
  <2>7. WriteCount(pg) = w
      BY <2>2, <2>3, CountOf
  <2> QED BY <1>3, <2>6, <2>7 DEF pg
<1> QED BY <1>2, <1>3

LEMMA FirstCount ==
    ASSUME FlashInv, NEW p, Ok(p, 0)
    PROVE  Seen(WriteCount(PageAt("dyn", p, 0)), p)
<1> DEFINE pg == PageAt("dyn", p, 0)
           c == WriteCount(pg)
<1>1. pg \in pages /\ pg.kind = "dyn" /\ pg.at = p /\ pg.n = 0
    BY DEF Ok, llfReadRetry, Readable, Quality, PageAt
<1>2. CASE pg.at = OldPlace
  <2>1. c = OldCount
      BY <1>2 DEF WriteCount
  <2> HIDE DEF c
  <2> QED BY <1>1, <1>2, <2>1, Counts DEF Seen, PairOf, c
<1>3. CASE pg.at # OldPlace
  <2>1. PICK w \in 1 .. state : pg \in StatePages(w)
      BY <1>1, <1>3 DEF FlashInv, Known, PageAt
  <2>2. w \in Count
      BY <2>1, Counts DEF FlashInv
  <2> HIDE DEF pg
  <2>3. c = w
      BY <2>1, <2>2, CountOf
  <2>4. PageNo(w) = 0 /\ p \in {Primary(w), Backup(w)}
      BY <1>1, <2>1 DEF StatePages, StatePage, PageAt, PageNo
  <2>5. PairOf(w) = <<Primary(w), Backup(w)>> /\ w <= state
      BY <2>1, <2>2, Counts DEF PairOf, FlashInv
  <2> HIDE DEF c
  <2> QED BY <2>2, <2>3, <2>4, <2>5 DEF Seen, c, pg
<1> QED BY <1>2, <1>3

LEMMA NewestType ==
    ASSUME FlashInv
    PROVE  Newest \in 0 .. state /\ state \in Nat /\ 1 .. state \subseteq Count
BY Counts DEF FlashInv, Newest

\* The pages of the whole states can be read.
LEMMA StatesRead ==
    ASSUME FlashInv, Clean, NEW w \in 1 .. Newest, NEW p \in {Primary(w), Backup(w)}
    PROVE  Ok(p, PageNo(w))
<1>1. home \in Home /\ Newest \in 0 .. state /\ state \in Nat /\ w \in Count /\ state \in Count
    BY HomeType, NewestType DEF FlashInv
<1> DEFINE pg == PageAt("dyn", p, PageNo(w))
<1>2. pg \in StatePages(w) /\ pg.kind = "dyn"
    BY DEF StatePages, StatePage, PageAt, PageNo
<1> HIDE DEF pg
<1>3. CASE w = state
  <2>1. StatePages(state) \subseteq pages \ DOMAIN spoiled
      BY <1>1, <1>3 DEF Newest
  <2> QED BY <1>2, <1>3, <2>1 DEF Ok, llfReadRetry, Readable, Quality, pg
<1>4. CASE w # state
  <2>1. pg \in pages
      BY <1>1, <1>2, <1>4 DEF FlashInv
  <2>2. pg \notin StatePages(state)
      BY <1>1, <1>2, <1>4, OneState
  <2>3. Torn = StatePages(state)
      BY <1>1 DEF Torn, FlashInv, Formatted
  <2>4. pg \in DOMAIN spoiled => spoiled[pg] = "weak"
      BY <1>2, <2>2, <2>3 DEF Clean
  <2> QED BY <2>1, <2>4 DEF Ok, llfReadRetry, Readable, Quality, pg
<1> QED BY <1>3, <1>4

\* The drive's blocks are read with every retry, and hold nothing else.
LEMMA DynRead ==
    ASSUME FlashInv, WindowInv, NEW p \in DynPlace
    PROVE  /\ \A n : llfReadSBlock(PageAt("dyn", p, n)) <=> Ok(p, n)
           /\ FirstPage(p) = PageAt("dyn", p, 0)
<1>1. home \in Home /\ DynBegin \in Nat /\ p[2] \in Nat /\ p[2] >= DynBegin
    BY HomeType, Blocks DEF FlashInv, DynPlace
<1>2. ~InWindow(window, p)
    BY <1>1, Sizes DEF InWindow, WindowInv
<1>3. PageAt("head", p, 0) \notin pages
  <2>1. SUFFICES ASSUME PageAt("head", p, 0) \in pages PROVE FALSE
      OBVIOUS
  <2>2. p \in Copies(home.window)
      BY <2>1 DEF FlashInv, Known, PageAt
  <2>3. p[2] <= home.window.start + SblkBlks - 1 /\ home.window.start \in Nat
      BY <1>1, <2>2, Sizes DEF Copies, InWindow, Home, Window
  <2> QED BY <1>1, <2>3, Sizes DEF DynBegin
<1>4. \A n : PageAt("dyn", p, n).at = p
    BY DEF PageAt
<1> QED BY <1>2, <1>3, <1>4 DEF llfReadSBlock, FirstPage, Ok

LEMMA SamePlaces ==
    ASSUME home' = home
    PROVE  /\ DynBegin' = DynBegin /\ DynEnd' = DynEnd /\ DynPlace' = DynPlace
           /\ OldPlace' = OldPlace
           /\ \A c : PairOf(c)' = PairOf(c)
           /\ \A pg : WriteCount(pg)' = WriteCount(pg)
<1>1. DynBegin' = DynBegin /\ DynEnd' = DynEnd
    BY DEF DynBegin, DynEnd
<1>2. OldPlace' = OldPlace /\ DynPlace' = DynPlace
    BY <1>1 DEF OldPlace, DynPlace
<1>3. \A w : PairBlock(w)' = PairBlock(w)
    BY <1>1 DEF PairBlock
<1>4. \A w : Primary(w)' = Primary(w) /\ Backup(w)' = Backup(w)
    BY <1>3 DEF Primary, Backup
<1>5. \A c : PairOf(c)' = PairOf(c)
    BY <1>2, <1>4 DEF PairOf
<1>6. \A pg : WriteCount(pg)' = WriteCount(pg)
    BY <1>1 DEF WriteCount, Primary, Backup, PairBlock, StatePage, OldPlace
<1> QED BY <1>1, <1>2, <1>5, <1>6

LEMMA SameDisk ==
    ASSUME UNCHANGED <<pages, spoiled, home, written, state>>
    PROVE  /\ \A p, n : Ok(p, n)' <=> Ok(p, n)
           /\ \A p : FirstPage(p)' = FirstPage(p)
           /\ \A c, p : Seen(c, p)' <=> Seen(c, p)
           /\ \A skip, a, f : Scanned(skip, a, f)' <=> Scanned(skip, a, f)
           /\ Newest' = Newest
           /\ lost \in Nat /\ lost' \in {lost, lost + 1} => (Clean' => Clean)
<1>1. \A p, n : Ok(p, n)' <=> Ok(p, n)
    BY DEF Ok, llfReadRetry, Readable, Quality
<1>2. \A p : FirstPage(p)' = FirstPage(p)
    BY DEF FirstPage
<1>3. \A c, p : Seen(c, p)' <=> Seen(c, p)
    BY <1>1, SamePlaces DEF Seen
<1>4. \A skip, a, f : Scanned(skip, a, f)' <=> Scanned(skip, a, f)
    BY <1>1, SamePlaces DEF Scanned
<1>5. StatePages(state)' = StatePages(state) /\ CopyPages' = CopyPages
    BY DEF StatePages, StatePage, Primary, Backup, PairBlock, DynBegin, CopyPages, CopyNum,
           CopyBanks, Copy
<1>6. Newest' = Newest
    BY <1>5 DEF Newest
<1>7. Torn' = Torn
    BY <1>5 DEF Torn
<1>8. lost \in Nat /\ lost' \in {lost, lost + 1} => (Clean' => Clean)
    BY <1>7 DEF Clean
<1> QED BY <1>1, <1>2, <1>3, <1>4, <1>6, <1>8

LEMMA SameKnown ==
    ASSUME UNCHANGED <<pages, spoiled, home, written, state>>, head' = head
    PROVE  KnownDefects' = KnownDefects
<1>1. \A pg : WriteCount(pg)' = WriteCount(pg) /\ \A p : FirstPage(p)' = FirstPage(p)
    BY SamePlaces, SameDisk
<1>2. \A c : SystemBlocksOf(c)' = SystemBlocksOf(c)
    BY DEF SystemBlocksOf
<1> QED BY <1>1, <1>2 DEF KnownDefects

\* The drive has its states where no block was known to be bad.
LEMMA NotKnown ==
    ASSUME FlashInv, NEW w \in Count
    PROVE  Primary(w) \notin KnownDefects
<1>1. PICK f \in Flashes : home = f.home
    BY DEF FlashInv, Given
<1>2. home \in Home /\ PairNo(w) \in 0 .. (Pairs - 1)
    BY <1>1, PairBound, InheritAssumption
<1>3. PairBlock(PairNo(w)) \in DynBegin .. (DynBegin + Pairs - 1) /\ DynBegin \in Nat /\ Pairs \in Nat
    BY <1>2, Blocks
<1> DEFINE k == PairBlock(PairNo(w)) - DynBegin
<1>4. k \in 0 .. (Pairs - 1) /\ PairBlock(PairNo(w)) = DynBegin + k
    BY <1>3
<1>5. <<0, f.home.window.start + SblkBlks + ExtRdt + k>> \notin f.home.sys
    BY <1>4, InheritAssumption
<1> HIDE DEF k
<1>6. Primary(w) \notin home.sys
    BY <1>1, <1>4, <1>5 DEF Primary, PairNo, DynBegin
<1>7. KnownDefects \subseteq home.sys
    BY DEF KnownDefects, SystemBlocksOf
<1> QED BY <1>6, <1>7

\* Nothing was searched yet, or what was found is of no matter.
LEMMA NewestQuiet ==
    ASSUME lost' \in Nat, pc' \notin {"scan", "target", "bisect", "body", "state"},
           pc' \in {"copy", "any"} => found.count' = 0,
           gfDBTInitDone' # "SYSTEM"
    PROVE  NewestInv'
BY DEF NewestInv

\* One step of the scan: what comes before the next place.
LEMMA NextPlace ==
    ASSUME NEW a \in Bank \X Nat
    PROVE  /\ NextByBlock(a) \in Bank \X Nat
           /\ NextByBlock(a)[2] \in {a[2], a[2] + 1}
           /\ \A p \in Bank \X Nat :
                (p[2] < NextByBlock(a)[2] \/ (p[2] = NextByBlock(a)[2] /\ p[1] < NextByBlock(a)[1]))
                  <=> p[2] < a[2] \/ (p[2] = a[2] /\ p[1] < a[1]) \/ p = a
<1>1. BankNum \in Nat /\ BankNum > 0 /\ Bank = 0 .. (BankNum - 1)
    BY Sizes DEF Bank
<1>2. PICK x \in Bank, y \in Nat : a = <<x, y>>
    OBVIOUS
<1>3. NextByBlock(a) = IF x + 1 < BankNum THEN <<x + 1, y>> ELSE <<0, y + 1>>
    BY <1>2 DEF NextByBlock
<1>4. CASE x + 1 < BankNum
    BY <1>1, <1>2, <1>3, <1>4
<1>5. CASE ~(x + 1 < BankNum)
    BY <1>1, <1>2, <1>3, <1>5
<1> QED BY <1>4, <1>5

LEMMA ScanStep ==
    ASSUME FlashInv, WindowInv, NewestInv, UNCHANGED <<pages, spoiled, home, written, state>>,
           ScanSkips \/ ScanReads
    PROVE  NewestInv'
<1> USE DEF infoVars, search, tables
<1>1. /\ pc = "scan" /\ pc' = "scan" /\ at[2] < DynEnd /\ at' = NextByBlock(at)
      /\ gfDBTInitDone' = gfDBTInitDone /\ taken' = taken /\ tag' = tag /\ head' = head
    BY DEF ScanSkips, ScanReads
<1>2. lost \in Nat /\ lost' \in {lost, lost + 1}
    BY DEF ScanSkips, ScanReads, Misses, Reads, TimesOut, NewestInv
<1>3. KnownDefects' = KnownDefects
    BY <1>1, SameKnown
<1>4. ASSUME Clean', Newest' > 0 PROVE ScanInv'
  <2>1. Clean /\ Newest > 0 /\ lost' = 0 /\ lost = 0
      BY <1>2, <1>4, SameDisk DEF Clean
  <2>2. ScanInv /\ at \in Bank \X Nat /\ home \in Home
      BY <1>1, <2>1, HomeType DEF NewestInv, ScanInv, FlashInv
  <2>3. at \in DynPlace /\ DynEnd \in Nat /\ DynBegin \in Nat
      BY <1>1, <2>2, Blocks DEF ScanInv, DynPlace
  <2>4. FirstPage(at) = PageAt("dyn", at, 0) /\ (llfReadSBlock(FirstPage(at)) <=> Ok(at, 0))
      BY <2>3, DynRead
  <2>5. tag = "STATIC" \/ FirstPage(head).kind = "dyn"
      BY <1>1, <2>2, <2>3 DEF ScanInv
  <2>6. Scanned(KnownDefects, at, found)
      BY <2>2, <2>5 DEF ScanInv
  <2>7. at' \in Bank \X Nat /\ at'[2] \in {at[2], at[2] + 1}
        /\ \A p \in Bank \X Nat : (p[2] < at'[2] \/ (p[2] = at'[2] /\ p[1] < at'[1]))
                                    <=> p[2] < at[2] \/ (p[2] = at[2] /\ p[1] < at[1]) \/ p = at
      BY <1>1, <2>2, NextPlace
  <2>8. DynBegin <= at'[2] /\ at'[2] <= DynEnd
      BY <1>1, <2>2, <2>3, <2>7 DEF ScanInv
  <2>9. /\ found'.count = 0 \/ Seen(found'.count, found'.at)
        /\ Scanned(KnownDefects, at', found')
    <3>1. CASE ScanSkips
      <4>1. found' = found /\ (at \in KnownDefects \/ ~Ok(at, 0))
          BY <2>1, <2>4, <3>1 DEF ScanSkips, Misses, TimesOut
      <4> QED BY <2>2, <2>6, <2>7, <4>1 DEF ScanInv, Scanned, DynPlace
    <3>2. CASE ScanReads
      <4> DEFINE c == WriteCount(PageAt("dyn", at, 0))
      <4>1. Ok(at, 0) /\ found' = IF c >= found.count THEN [count |-> c, at |-> at] ELSE found
          BY <2>4, <3>2 DEF ScanReads, Reads
      <4>2. Seen(c, at)
          BY <4>1, FirstCount
      <4>3. c \in Nat /\ found.count \in Nat
        <5>1. Count \subseteq Nat /\ OldCount \in Nat
            BY Counts
        <5>2. c \in Count \cup {OldCount}
            BY <4>2 DEF Seen
        <5>3. found.count = 0 \/ found.count \in Count \cup {OldCount}
            BY <2>2 DEF ScanInv, Seen
        <5> HIDE DEF c
        <5>4. c \in Nat
            BY <5>1, <5>2
        <5>5. found.count \in Nat
          <6>1. CASE found.count = 0
              BY <6>1
          <6>2. CASE found.count # 0
              BY <5>1, <5>3, <6>2
          <6> QED BY <6>1, <6>2
        <5> QED BY <5>4, <5>5
      <4>4. found'.count \in Nat /\ found'.count >= c /\ found'.count >= found.count
          BY <4>1, <4>3
      <4>5. found'.count = 0 \/ Seen(found'.count, found'.at)
          BY <2>2, <4>1, <4>2 DEF ScanInv
      <4>6. Scanned(KnownDefects, at', found')
        <5>1. SUFFICES ASSUME NEW p \in DynPlace,
                              p[2] < at'[2] \/ (p[2] = at'[2] /\ p[1] < at'[1]),
                              p \notin KnownDefects, Ok(p, 0)
                       PROVE  found'.count >= WriteCount(PageAt("dyn", p, 0))
            BY DEF Scanned
        <5>2. CASE p = at
            BY <4>4, <5>2
        <5>3. CASE p # at
          <6>1. found.count >= WriteCount(PageAt("dyn", p, 0))
              BY <2>6, <2>7, <5>1, <5>3 DEF Scanned, DynPlace
          <6>2. WriteCount(PageAt("dyn", p, 0)) \in Nat
              BY <5>1, FirstCount, Counts DEF Seen
          <6> QED BY <4>3, <4>4, <6>1, <6>2
        <5> QED BY <5>2, <5>3
      <4> QED BY <4>5, <4>6
    <3> QED BY <3>1, <3>2
  <2>10. /\ DynBegin' = DynBegin /\ DynEnd' = DynEnd /\ FirstPage(head)' = FirstPage(head)
      BY <1>1, SamePlaces, SameDisk
  <2>11. (found.count = 0 \/ Seen(found.count, found.at))'
      BY <2>9, SameDisk
  <2>12. Scanned(KnownDefects, at, found)'
      BY <1>3, <2>9, SameDisk
  <2> QED BY <1>1, <2>5, <2>7, <2>8, <2>10, <2>11, <2>12 DEF ScanInv
<1>5. gfDBTInitDone = "SYSTEM" /\ Clean /\ Newest > 0 => taken >= Newest
    BY DEF NewestInv
<1> QED BY <1>1, <1>2, <1>4, <1>5, SameDisk DEF NewestInv
\* The steps of the search leave the disk alone, and there is no table of a system yet.
LEMMA SearchQuiet ==
    ASSUME FlashInv, SnapInv, NewestInv,
           pc \in {"load", "copy", "any", "scan", "target", "bisect", "body"},
           gfDBTInitDone' = gfDBTInitDone, lost' \in {lost, lost + 1},
           UNCHANGED <<pages, spoiled, home, written, state>>,
           pc' \in {"copy", "any"} => found'.count = 0,
           Clean /\ Newest > 0 /\ lost = 0 /\ lost' = 0 =>
             /\ pc' = "scan" => ScanInv'
             /\ pc' = "target" => (TargetInv /\ at = found.at)'
             /\ pc' = "bisect" => (TargetInv /\ BisectInv)'
             /\ pc' = "body" => tag' # "STATIC"
             /\ pc' = "state" => taken' >= Newest
    PROVE  NewestInv'
<1>1. gfDBTInitDone' # "SYSTEM"
    BY DEF SnapInv
<1>2. lost \in Nat /\ lost' \in Nat
    BY DEF NewestInv
<1>3. Newest' = Newest /\ (Clean' => Clean)
    BY <1>2, SameDisk
<1>4. Clean' => lost = 0 /\ lost' = 0
    BY <1>2 DEF Clean
<1> QED BY <1>1, <1>2, <1>3, <1>4 DEF NewestInv

LEMMA FirstSearch ==
    ASSUME FlashInv, SnapInv, NewestInv, UNCHANGED <<pages, spoiled, home, written, state>>,
           llfLoadBlockInfo \/ FindCopy \/ NoCopy \/ FindAny \/ NothingFound
    PROVE  NewestInv'
<1> USE DEF infoVars, search, tables
<1>1. pc \in {"load", "copy", "any"} /\ gfDBTInitDone' = gfDBTInitDone
    BY DEF llfLoadBlockInfo, FindCopy, NoCopy, FindAny, NothingFound, Found
<1>2. lost' \in {lost, lost + 1}
    BY DEF llfLoadBlockInfo, FindCopy, NoCopy, FindAny, NothingFound, Misses, Reads, TimesOut
<1>3. found'.count = 0
    BY DEF llfLoadBlockInfo, FindCopy, NoCopy, FindAny, NothingFound, Found, NewestInv
<1>4. CASE pc' # "scan"
  <2>1. pc' \in {"copy", "any", "end"}
      BY <1>4 DEF llfLoadBlockInfo, FindCopy, NoCopy, FindAny, NothingFound, Found
  <2> QED BY <1>1, <1>2, <1>3, <2>1, SearchQuiet
<1>5. CASE pc' = "scan"
  <2>1. PICK how : Found(how)
      BY <1>1, <1>5 DEF llfLoadBlockInfo, FindCopy, NoCopy, FindAny, NothingFound
  <2>2. /\ tag' = how /\ head' = at
        /\ at' = IF how = "STATIC" \/ FirstPage(at).kind = "dyn" THEN <<0, DynBegin>>
                 ELSE <<0, DynEnd>>
      BY <2>1 DEF Found, FirstDynamic
  <2>3. home \in Home /\ 0 \in Bank
      BY HomeType, Sizes DEF FlashInv, Bank
  <2>4. DynBegin \in Nat /\ DynEnd \in Nat /\ DynBegin <= DynEnd
      BY <2>3, Blocks
  <2>5. FirstPage(head)' = FirstPage(at) /\ DynBegin' = DynBegin /\ DynEnd' = DynEnd
        /\ DynPlace' = DynPlace
      BY <2>2, SameDisk, SamePlaces
  <2>6. at' \in Bank \X Nat /\ DynBegin <= at'[2] /\ at'[2] <= DynEnd
      BY <2>2, <2>3, <2>4
  <2>7. ASSUME tag' = "STATIC" \/ FirstPage(head)'.kind = "dyn"
        PROVE  Scanned(KnownDefects, at, found)'
    <3>1. at' = <<0, DynBegin>>
        BY <2>2, <2>5, <2>7
    <3>2. \A p \in DynPlace : ~(p[2] < at'[2] \/ (p[2] = at'[2] /\ p[1] < at'[1]))
        BY <2>4, <3>1 DEF DynPlace, Bank
    <3> QED BY <2>5, <3>2 DEF Scanned
  <2>8. ~(tag' = "STATIC" \/ FirstPage(head)'.kind = "dyn") => at'[2] = DynEnd
      BY <2>2, <2>5
  <2>9. ScanInv'
      BY <1>3, <2>5, <2>6, <2>7, <2>8 DEF ScanInv
  <2> QED BY <1>1, <1>2, <1>3, <1>5, <2>9, SearchQuiet
<1> QED BY <1>4, <1>5

\* The scan saw the first state of the newest one's pair, or of a later pair.
LEMMA ScanEnd ==
    ASSUME FlashInv, SnapInv, NewestInv, UNCHANGED <<pages, spoiled, home, written, state>>,
           ScanEnds
    PROVE  NewestInv'
<1> USE DEF infoVars, search, tables
<1>1. /\ pc = "scan" /\ at[2] = DynEnd /\ UNCHANGED <<lost, found, tag, gfDBTInitDone>>
      /\ IF found.count = 0 THEN pc' = "body" ELSE pc' = "target" /\ at' = found.at
    BY DEF ScanEnds, NoState
<1>2. ASSUME Clean, Newest > 0
      PROVE  /\ pc' = "target" => TargetInv /\ at' = found.at
             /\ pc' = "body" => tag # "STATIC"
  <2>1. ScanInv
      BY <1>1, <1>2 DEF NewestInv
  <2>2. CASE tag = "STATIC" \/ FirstPage(head).kind = "dyn"
    <3> DEFINE w == First(Newest)
               pg == PageAt("dyn", Primary(w), 0)
    <3>1. w \in 1 .. Newest /\ PageNo(w) = 0 /\ Newest \in Nat
      <4>1. Newest \in Nat
          BY NewestType
      <4> QED BY <1>2, <4>1, Split, FirstOfPair
    <3>2. w \in Count /\ w \in Nat /\ w > 0
      <4>1. w \in 1 .. state
          BY <3>1, NewestType
      <4> QED BY <4>1, <3>1, NewestType
    <3>3. home \in Home
        BY HomeType DEF FlashInv
    <3> HIDE DEF w
    <3>4. Ok(Primary(w), 0)
        BY <1>2, <3>1, StatesRead
    <3>5. pg \in StatePages(w)
        BY <3>1 DEF StatePages, StatePage, PageNo
    <3> HIDE DEF pg
    <3>6. WriteCount(pg) = w
        BY <3>2, <3>5, CountOf
    <3>7. Primary(w) \notin KnownDefects
        BY <3>2, NotKnown
    <3>8. Primary(w) \in DynPlace
      <4>1. Primary(w) = PairOf(w)[1]
          BY <3>2, Counts DEF PairOf
      <4> QED BY <3>2, <3>3, <4>1, PairPlaces
    <3>9. Primary(w)[2] < at[2]
        BY <1>1, <3>8 DEF DynPlace
    <3>10. found.count >= w
        BY <2>1, <2>2, <3>4, <3>6, <3>7, <3>8, <3>9 DEF ScanInv, Scanned, pg
    <3>11. found.count # 0
        BY <3>2, <3>10
    <3> QED BY <1>1, <2>1, <3>10, <3>11 DEF TargetInv, ScanInv, w
  <2>3. CASE ~(tag = "STATIC" \/ FirstPage(head).kind = "dyn")
      BY <1>1, <2>1, <2>3 DEF ScanInv
  <2> QED BY <2>2, <2>3
<1>3. TargetInv' <=> TargetInv
    BY <1>1, SameDisk DEF TargetInv, First, PageNo
<1> QED BY <1>1, <1>2, <1>3, SearchQuiet

\* The page that was found can be read again.
LEMMA TargetStep ==
    ASSUME FlashInv, SnapInv, WindowInv, NewestInv,
           UNCHANGED <<pages, spoiled, home, written, state>>, ReadTarget
    PROVE  NewestInv'
<1> USE DEF infoVars, search, tables
<1>1. pc = "target" /\ pc' \in {"body", "bisect"} /\ gfDBTInitDone' = gfDBTInitDone
    BY DEF ReadTarget, NoState, Bisect
<1>2. lost' \in {lost, lost + 1}
    BY DEF ReadTarget, Misses, Reads, TimesOut
<1>3. ASSUME Clean, Newest > 0, lost = 0, lost' = 0
      PROVE  pc' = "bisect" /\ TargetInv' /\ BisectInv'
  <2> DEFINE c == found.count
  <2>1. TargetInv /\ at = found.at /\ home \in Home
      BY <1>1, <1>3, HomeType DEF NewestInv, FlashInv
  <2>2. /\ c \in Count \cup {OldCount} /\ c \in Nat
        /\ at \in {PairOf(c)[1], PairOf(c)[2]} /\ Ok(at, 0) /\ (c \in Count => PageNo(c) = 0)
    <3>1. c \in Count \cup {OldCount}
        BY <2>1 DEF TargetInv, Seen
    <3>2. Count \subseteq Nat /\ OldCount \in Nat
        BY Counts
    <3> QED BY <2>1, <3>1, <3>2 DEF TargetInv, Seen
  <2> HIDE DEF c
  <2>3. FirstPage(at) = PageAt("dyn", at, 0) /\ llfReadSBlock(FirstPage(at))
      BY <2>1, <2>2, PairPlaces, DynRead
  <2>4. WriteCount(FirstPage(at)) = c
    <3>1. 0 \in Nat /\ 0 < Pages
        BY BlockInfoAssumption
    <3>2. PageAt("dyn", at, 0) \in pages
        BY <2>2 DEF Ok, llfReadRetry, Readable, Quality
    <3>3. WriteCount(PageAt("dyn", at, 0)) = IF c = OldCount THEN c ELSE c + 0
        BY <2>2, <3>1, <3>2, CountAt
    <3> QED BY <2>2, <2>3, <3>3
  <2>5. at[1] \in {PairOf(c)[1][1], PairOf(c)[2][1]} /\ at[2] \in {PairOf(c)[1][2], PairOf(c)[2][2]}
      BY <2>2
  <2>6. /\ pc' = "bisect" /\ at' = PairOf(c)[1] /\ page_down' = 0 /\ page_up' = Pages
        /\ other' = PairOf(c)[2] /\ targetWCnt' = c /\ found' = found
    <3>1. ~Misses(llfReadSBlock(FirstPage(at)))
        BY <1>3, <2>3 DEF Misses, TimesOut
    <3> QED BY <2>4, <2>5, <3>1 DEF ReadTarget, Bisect, c
  <2>7. TargetInv'
      BY <2>1, <2>6, SameDisk DEF TargetInv, First, PageNo
  <2>8. found'.count = c /\ \A d : PairOf(d)' = PairOf(d)
      BY <2>6, SamePlaces DEF c
  <2>9. Pages \in Nat /\ 0 < Pages
      BY BlockInfoAssumption
  <2>10. BisectInv'
    <3>1. (at = PairOf(found.count)[1] /\ other = PairOf(found.count)[2])'
        BY <2>6, <2>8
    <3>2. targetWCnt' = IF found'.count = OldCount THEN found'.count ELSE found'.count + page_down'
        BY <2>2, <2>6, <2>8
    <3> QED BY <2>6, <2>9, <3>1, <3>2 DEF BisectInv
  <2> QED BY <2>6, <2>7, <2>10
<1> QED BY <1>1, <1>2, <1>3, SearchQuiet

LEMMA Halves ==
    ASSUME page_down \in Nat, page_up \in Nat, page_up - 1 > page_down
    PROVE  Middle \in Nat /\ page_down < Middle /\ Middle < page_up
BY DEF Middle
\* What a page of the pair that is searched says.
LEMMA BisectPlace ==
    ASSUME FlashInv, WindowInv, TargetInv,
           at \in {PairOf(found.count)[1], PairOf(found.count)[2]}, NEW n \in Nat, n < Pages
    PROVE  /\ llfReadSBlock(PageAt("dyn", at, n)) <=> Ok(at, n)
           /\ Ok(at, n) => WriteCount(PageAt("dyn", at, n)) =
                             IF found.count = OldCount THEN found.count ELSE found.count + n
<1> DEFINE c == found.count
<1>1. home \in Home /\ c \in Count \cup {OldCount} /\ (c \in Count => PageNo(c) = 0)
    BY HomeType DEF FlashInv, TargetInv, Seen
<1> HIDE DEF c
<1>2. at \in {PairOf(c)[1], PairOf(c)[2]}
    BY DEF c
<1>3. at \in DynPlace
    BY <1>1, <1>2, PairPlaces
<1>4. Ok(at, n) => PageAt("dyn", at, n) \in pages
    BY DEF Ok, llfReadRetry, Readable, Quality
<1>5. Ok(at, n) => WriteCount(PageAt("dyn", at, n)) = IF c = OldCount THEN c ELSE c + n
    BY <1>1, <1>2, <1>4, CountAt
<1> QED BY <1>3, <1>5, DynRead DEF c

LEMMA CountNat ==
    ASSUME TargetInv
    PROVE  found.count \in Nat
<1>1. found.count \in Count \cup {OldCount}
    BY DEF TargetInv, Seen
<1>2. Count \subseteq Nat /\ OldCount \in Nat
    BY Counts
<1> QED BY <1>1, <1>2

LEMMA BisectStep ==
    ASSUME FlashInv, SnapInv, WindowInv, NewestInv,
           UNCHANGED <<pages, spoiled, home, written, state>>, BisectDown \/ BisectUp
    PROVE  NewestInv'
<1> USE DEF infoVars, search, tables
<1>1. /\ pc = "bisect" /\ pc' \in {"body", "bisect"} /\ page_up - 1 > page_down
      /\ UNCHANGED <<gfDBTInitDone, found, other>>
    BY DEF BisectDown, BisectUp, NoState
<1>2. lost' \in {lost, lost + 1}
    BY DEF BisectDown, BisectUp, Misses, Reads, TimesOut
<1>3. ASSUME Clean, Newest > 0, lost = 0, lost' = 0
      PROVE  pc' = "bisect" /\ TargetInv' /\ BisectInv'
  <2> DEFINE c == found.count
  <2>1. TargetInv /\ BisectInv
      BY <1>1, <1>3 DEF NewestInv
  <2>2. c \in Nat
      BY <2>1, CountNat
  <2>3. /\ page_down \in Nat /\ page_up \in Nat /\ page_down < page_up /\ page_up <= Pages
        /\ targetWCnt = IF c = OldCount THEN c ELSE c + page_down
        /\ page_down > 0 => Ok(at, page_down)
        /\ page_up < Pages => ~Ok(at, page_up)
        /\ at \in {PairOf(c)[1], PairOf(c)[2]}
      BY <2>1 DEF BisectInv
  <2>4. Middle \in Nat /\ page_down < Middle /\ Middle < page_up
      BY <1>1, <2>3, Halves
  <2>5. Pages \in Nat /\ Middle < Pages
      BY <2>3, <2>4, BlockInfoAssumption
  <2>6. /\ llfReadSBlock(PageAt("dyn", at, Middle)) <=> Ok(at, Middle)
        /\ Ok(at, Middle) => WriteCount(PageAt("dyn", at, Middle)) =
                               IF c = OldCount THEN c ELSE c + Middle
      BY <2>1, <2>3, <2>4, <2>5, BisectPlace
  <2>7. TargetInv'
      BY <1>1, <2>1, SameDisk DEF TargetInv, First, PageNo
  <2>8. (\/ at = PairOf(found.count)[1] /\ other = PairOf(found.count)[2]
         \/ at = PairOf(found.count)[2] /\ other = NoPlace /\ ~Ok(PairOf(found.count)[1], 0))
      BY <2>1 DEF BisectInv
  <2> HIDE DEF c
  <2>9. /\ pc' = "bisect" /\ at' = at /\ page_down' \in Nat /\ page_up' \in Nat
        /\ page_down' < page_up' /\ page_up' <= Pages
        /\ targetWCnt' = IF c = OldCount THEN c ELSE c + page_down'
        /\ page_down' > 0 => Ok(at, page_down')
        /\ page_up' < Pages => ~Ok(at, page_up')
    <3>1. CASE BisectDown
      <4>1. /\ page_up' = Middle /\ UNCHANGED <<pc, at, page_down, targetWCnt>>
            /\ ~Ok(at, Middle)
          BY <1>3, <2>6, <3>1 DEF BisectDown, Misses, TimesOut
      <4> QED BY <1>1, <2>3, <2>4, <2>5, <4>1 DEF c
    <3>2. CASE BisectUp
      <4> DEFINE n == WriteCount(PageAt("dyn", at, Middle))
      <4>1. Ok(at, Middle) /\ page_up' = page_up
          BY <2>6, <3>2 DEF BisectUp, Reads
      <4>2. n = IF c = OldCount THEN c ELSE c + Middle
          BY <2>6, <4>1
      <4>3. IF n < targetWCnt THEN TRUE
            ELSE targetWCnt' = n /\ page_down' = Middle /\ UNCHANGED <<pc, at>>
          BY <3>2 DEF BisectUp
      <4> HIDE DEF n
      <4>4. ~(n < targetWCnt)
          BY <2>2, <2>3, <2>4, <4>2 DEF c
      <4> QED BY <1>1, <2>3, <2>4, <2>5, <4>1, <4>2, <4>3, <4>4 DEF c
    <3> QED BY <3>1, <3>2
  <2>10. BisectInv'
    <3>1. (\/ at = PairOf(found.count)[1] /\ other = PairOf(found.count)[2]
           \/ at = PairOf(found.count)[2] /\ other = NoPlace /\ ~Ok(PairOf(found.count)[1], 0))'
      <4>1. /\ PairOf(found.count)' = PairOf(found.count) /\ NoPlace' = NoPlace
            /\ Ok(PairOf(found.count)[1], 0)' <=> Ok(PairOf(found.count)[1], 0)
          BY <1>1, SamePlaces, SameDisk
      <4> QED BY <1>1, <2>8, <2>9, <4>1
    <3>2. (page_down > 0 => Ok(at, page_down))'
        BY <2>9, SameDisk
    <3>3. (page_up < Pages => ~Ok(at, page_up))'
        BY <2>9, SameDisk
    <3>4. targetWCnt' = IF found'.count = OldCount THEN found'.count ELSE found'.count + page_down'
        BY <1>1, <2>9 DEF c
    <3> QED BY <2>9, <3>1, <3>2, <3>3, <3>4 DEF BisectInv
  <2> QED BY <2>7, <2>9, <2>10
<1> QED BY <1>1, <1>2, <1>3, SearchQuiet

\* Between the last page that was read and the next there is no state of the drive.
LEMMA LastIsNewest ==
    ASSUME FlashInv, WindowInv, TargetInv, BisectInv, Clean, Newest > 0, page_up - 1 <= page_down,
           Ok(at, page_down)
    PROVE  WriteCount(LastPage) >= Newest
<1> DEFINE c == found.count
           N == Newest
<1>1. c \in Nat /\ N \in Nat /\ N > 0 /\ N <= state /\ state \in Nat /\ home \in Home
    BY CountNat, NewestType, HomeType DEF FlashInv
<1>2. /\ page_down \in Nat /\ page_up \in Nat /\ page_up = page_down + 1 /\ page_up <= Pages
      /\ page_up < Pages => ~Ok(at, page_up)
      /\ at \in {PairOf(c)[1], PairOf(c)[2]} /\ Pages \in Nat
    BY BlockInfoAssumption DEF BisectInv
<1>3. WriteCount(LastPage) = IF c = OldCount THEN c ELSE c + page_down
    BY <1>2, BisectPlace DEF LastPage
<1>4. CASE c = OldCount
  <2>1. OldCount \in Nat /\ Len(Grown) \in Nat /\ OldCount > Len(Grown) /\ state <= Len(Grown)
      BY Counts DEF FlashInv
  <2> QED BY <1>1, <1>3, <1>4, <2>1
<1>5. CASE c # OldCount
  <2>1. c \in Count /\ PageNo(c) = 0 /\ c >= First(N) /\ c > 0
      BY <1>5, Counts DEF TargetInv, Seen
  <2>2. c = First(N) \/ c > N
      BY <1>1, <2>1, Later
  <2>3. CASE c > N
      BY <1>1, <1>2, <1>3, <1>5, <2>3
  <2>4. CASE c = First(N)
    <3>1. /\ c = Pages * PairNo(N) + 1 /\ N = Pages * PairNo(N) + PageNo(N) + 1
          /\ Pages * PairNo(N) \in Nat /\ PageNo(N) \in Nat /\ PageNo(N) < Pages
          /\ PairNo(N) \in Nat /\ PairNo(c) = PairNo(N)
        BY <1>1, <2>4, Split, FirstOfPair
    <3>2. PageNo(N) <= page_down
      <4>1. SUFFICES ASSUME PageNo(N) >= page_up PROVE FALSE
          BY <1>2, <3>1
      <4> DEFINE w == Pages * PairNo(N) + page_up + 1
      <4>2. page_up < Pages
          BY <1>2, <3>1, <4>1
      <4>3. PairNo(w) = PairNo(N) /\ PageNo(w) = page_up
          BY <1>2, <3>1, <4>2, SplitOnce
      <4>4. w \in 1 .. N
          BY <1>2, <3>1, <4>1
      <4> HIDE DEF w, N
      <4>5. at \in {Primary(c), Backup(c)}
          BY <1>2, <2>1, <1>5 DEF PairOf
      <4>6. Primary(w) = Primary(c) /\ Backup(w) = Backup(c)
          BY <3>1, <4>3 DEF Primary, Backup, PairNo
      <4>7. Ok(at, PageNo(w))
          BY <4>4, <4>5, <4>6, StatesRead DEF N
      <4> QED BY <1>2, <4>2, <4>3, <4>7
    <3> HIDE DEF c, N
    <3> QED BY <1>1, <1>2, <1>3, <1>5, <3>1, <3>2 DEF N
  <2> QED BY <2>2, <2>3, <2>4
<1> QED BY <1>4, <1>5

LEMMA LastStep ==
    ASSUME FlashInv, SnapInv, WindowInv, NewestInv,
           UNCHANGED <<pages, spoiled, home, written, state>>, ReadLast
    PROVE  NewestInv'
<1> USE DEF infoVars, search, tables
<1>1. /\ pc = "bisect" /\ pc' \in {"body", "bisect", "state"} /\ page_up - 1 <= page_down
      /\ UNCHANGED <<gfDBTInitDone, found>>
    BY DEF ReadLast, NoState, Bisect
<1>2. lost' \in {lost, lost + 1}
    BY DEF ReadLast, Misses, Reads, TimesOut
<1>3. ASSUME Clean, Newest > 0, lost = 0, lost' = 0
      PROVE  /\ pc' # "body"
             /\ pc' = "bisect" => TargetInv' /\ BisectInv'
             /\ pc' = "state" => taken' >= Newest'
  <2>1. TargetInv /\ BisectInv
      BY <1>1, <1>3 DEF NewestInv
  <2>2. /\ page_down \in Nat /\ page_up \in Nat /\ page_down < page_up /\ page_up <= Pages
        /\ Pages \in Nat /\ 0 < Pages /\ page_down < Pages
      BY <1>1, <2>1, BlockInfoAssumption DEF BisectInv
  <2>3. at \in {PairOf(found.count)[1], PairOf(found.count)[2]}
      BY <2>1 DEF BisectInv
  <2>4. llfReadSBlock(LastPage) <=> Ok(at, page_down)
      BY <2>1, <2>2, <2>3, BisectPlace DEF LastPage
  <2>5. CASE Ok(at, page_down)
    <3>1. pc' = "state" /\ taken' = WriteCount(LastPage)
        BY <1>3, <2>4, <2>5 DEF ReadLast, Misses, TimesOut
    <3>2. taken' >= Newest
        BY <1>1, <1>3, <2>1, <2>5, <3>1, LastIsNewest
    <3> QED BY <3>1, <3>2, SameDisk
  <2>6. CASE ~Ok(at, page_down)
    <3>1. page_down = 0 /\ ~Ok(at, 0)
        BY <2>1, <2>2, <2>6 DEF BisectInv
    <3>2. Ok(found.at, 0) /\ found.at \in {PairOf(found.count)[1], PairOf(found.count)[2]}
          /\ found.count \in Count \cup {OldCount}
        BY <2>1 DEF TargetInv, Seen
    <3>3. at = PairOf(found.count)[1] /\ other = PairOf(found.count)[2] /\ other # NoPlace
      <4>1. PairOf(found.count)[2] \in DynPlace
          BY <3>2, HomeType, PairPlaces DEF FlashInv
      <4>2. PairOf(found.count)[2] # NoPlace
          BY <4>1, Sizes DEF DynPlace, NoPlace, Bank
      <4> QED BY <2>1, <3>1, <3>2, <4>2 DEF BisectInv
    <3>4. /\ pc' = "bisect" /\ at' = other /\ page_down' = 0 /\ page_up' = Pages
          /\ other' = NoPlace /\ UNCHANGED <<found, targetWCnt>>
        BY <1>3, <2>4, <2>6, <3>3 DEF ReadLast, Reads, Bisect
    <3>5. TargetInv'
        BY <2>1, <3>4, SameDisk DEF TargetInv, First, PageNo
    <3>6. targetWCnt' = IF found'.count = OldCount THEN found'.count ELSE found'.count + page_down'
        BY <2>1, <3>1, <3>4 DEF BisectInv
    <3>7. (at = PairOf(found.count)[2] /\ other = NoPlace /\ ~Ok(PairOf(found.count)[1], 0))'
      <4>1. /\ PairOf(found.count)' = PairOf(found.count) /\ NoPlace' = NoPlace
            /\ Ok(PairOf(found.count)[1], 0)' <=> Ok(PairOf(found.count)[1], 0)
          BY <1>1, SamePlaces, SameDisk
      <4> QED BY <3>1, <3>3, <3>4, <4>1
    <3>8. BisectInv'
        BY <2>2, <3>4, <3>6, <3>7 DEF BisectInv
    <3> QED BY <3>4, <3>5, <3>8
  <2> QED BY <2>5, <2>6
<1>4. Newest' = Newest
    BY SameDisk
<1> QED BY <1>1, <1>2, <1>3, <1>4, SearchQuiet
\* The body of a copy is read only when the copy is of no use for a newer state.
LEMMA TablesStep ==
    ASSUME FlashInv, SnapInv, NewestInv, UNCHANGED <<pages, spoiled, home, written, state>>,
           \/ ReadBody \/ NoBody \/ TakeState \/ AfterRemap \/ ReadSnapPage \/ SnapPageLost
           \/ LlfInheritRemappingTable /\ UNCHANGED infoVars
    PROVE  NewestInv'
<1> USE DEF infoVars, search, tables, where
<1>1. lost' \in {lost, lost + 1} /\ lost \in Nat
  <2>1. lost \in Nat
      BY DEF NewestInv
  <2>2. CASE ReadBody \/ NoBody
      BY <2>1, <2>2 DEF ReadBody, NoBody, Misses, Reads, TimesOut
  <2>3. CASE TakeState \/ AfterRemap
      BY <2>1, <2>3 DEF TakeState, AfterRemap
  <2>4. CASE ReadSnapPage
      BY <2>1, <2>4 DEF ReadSnapPage, Reads
  <2>5. CASE SnapPageLost
      BY <2>1, <2>5 DEF SnapPageLost, TimesOut
  <2>6. CASE LlfInheritRemappingTable
      BY <2>1, <2>6 DEF LlfInheritRemappingTable, RemapRead, RemapMissed, RemapNotFound, Reads,
                        Misses, TimesOut
  <2> QED BY <2>1, <2>2, <2>3, <2>4, <2>5, <2>6
<1>2. /\ pc' \in {"remap", "remap done", "end", "snap"} /\ taken' = taken
      /\ pc \in {"body", "state", "remap", "remap done", "snap"}
  <2>1. CASE ReadBody \/ NoBody \/ TakeState \/ AfterRemap
      BY <2>1 DEF ReadBody, NoBody, TakeState, AfterRemap, StartRemap
  <2>2. CASE ReadSnapPage
      BY <2>2 DEF ReadSnapPage
  <2>3. CASE SnapPageLost
      BY <2>3 DEF SnapPageLost
  <2>4. CASE LlfInheritRemappingTable /\ UNCHANGED infoVars
      BY <2>4 DEF LlfInheritRemappingTable, RemapRead, RemapMissed, RemapNotFound
  <2> QED BY <2>1, <2>2, <2>3, <2>4
<1>3. Newest' = Newest /\ (Clean' => Clean)
    BY <1>1, SameDisk
<1>4. ASSUME Clean, Newest > 0, gfDBTInitDone' = "SYSTEM" PROVE taken >= Newest
  <2>1. CASE ReadBody
      BY <1>4, <2>1 DEF ReadBody, NewestInv
  <2>2. CASE TakeState
      BY <1>4, <2>2 DEF TakeState, NewestInv
  <2>3. CASE gfDBTInitDone' = gfDBTInitDone
      BY <1>4, <2>3 DEF NewestInv
  <2>4. CASE NoBody \/ AfterRemap \/ ReadSnapPage \/ SnapPageLost
      BY <2>3, <2>4 DEF NoBody, AfterRemap, ReadSnapPage, SnapPageLost
  <2>5. CASE LlfInheritRemappingTable
      BY <2>3, <2>5 DEF LlfInheritRemappingTable, RemapRead, RemapMissed, RemapNotFound
  <2> QED BY <2>1, <2>2, <2>4, <2>5
<1>5. lost' \in Nat
    BY <1>1
<1> QED BY <1>2, <1>3, <1>4, <1>5 DEF NewestInv

\* Before the search, and beside it.
LEMMA OtherStep ==
    ASSUME SnapInv, NewestInv,
           \/ WriteCopy \/ BeginState \/ WriteState \/ PowerLoss \/ Decay
           \/ llfInherit \/ AfterResult \/ WithoutResult
           \/ RdtNext /\ UNCHANGED <<home, infoVars, writer>>
    PROVE  NewestInv'
<1> USE DEF infoVars, search, tables
<1> DEFINE early == {"format", "decay", "rdt", "result", "found", "not found", "tags", "static",
                     "rdt taken", "rdt fails"}
<1>1. pc \in early => gfDBTInitDone # "SYSTEM"
    BY DEF SnapInv
<1>2. lost \in Nat
    BY DEF NewestInv
<1>3. CASE WriteCopy \/ BeginState \/ WriteState \/ PowerLoss \/ Decay
  <2>1. pc \in early /\ pc' \in {"format", "decay"} /\ UNCHANGED <<gfDBTInitDone, lost>>
      BY <1>3 DEF WriteCopy, BeginState, WriteState, PowerLoss, Decay
  <2> QED BY <1>1, <1>2, <2>1, NewestQuiet
<1>4. CASE llfInherit \/ AfterResult \/ WithoutResult
  <2>1. pc \in early /\ pc' \in {"rdt", "end", "remap", "load"} /\ UNCHANGED <<gfDBTInitDone, lost>>
      BY <1>4 DEF llfInherit, AfterResult, WithoutResult, StartRemap
  <2> QED BY <1>1, <1>2, <2>1, NewestQuiet
<1>5. CASE RdtNext
  <2>1. /\ pc \in early /\ pc' \in early \cup {"halt"}
        /\ gfDBTInitDone' \in {gfDBTInitDone, "RDT"} /\ lost' \in {lost, lost + 1}
    <3>1. CASE ResultRead \/ ResultLost
      <4>1. pc' \in {"not found", "found", pc}
          BY <3>1 DEF ResultRead, ResultLost, NextPage
      <4> QED BY <3>1, <4>1 DEF ResultRead, ResultLost, TimesOut
    <3>2. CASE ParseTables \/ BankNotTaken
      <4>1. PICK passed : AfterBank(passed)
          BY <3>2 DEF ParseTables, BankNotTaken
      <4> QED BY <3>2, <4>1 DEF AfterBank, ParseTables, BankNotTaken
    <3>3. CASE StaticRead
      <4>1. PICK passed : AfterBank(passed)
          BY <3>3 DEF StaticRead
      <4> QED BY <3>3, <4>1 DEF AfterBank, StaticRead, Reads
    <3>4. CASE StaticLost
      <4>1. lost' = lost + 1 /\ pc \in early
          BY <3>4 DEF StaticLost, TimesOut
      <4>2. CASE \E passed : AfterBank(passed)
          BY <4>1, <4>2 DEF AfterBank
      <4>3. CASE UNCHANGED <<pc, tables>>
          BY <4>1, <4>3
      <4> QED BY <3>4, <4>2, <4>3 DEF StaticLost
    <3>5. CASE \/ llfLoadRDTResult \/ ResultNotFound \/ TakeTag \/ CheckTags
               \/ StartRebuild \/ StaticMissed \/ NoStatic
        BY <3>5 DEF llfLoadRDTResult, ResultNotFound, TakeTag, CheckTags, StartRebuild,
                    StaticMissed, NoStatic
    <3> QED BY <1>5, <3>1, <3>2, <3>3, <3>4, <3>5
          DEF RdtNext, llfGetRDTBankResult, llfParseRDTResult
  <2>2. lost' \in {lost, lost + 1}
      BY <2>1
  <2> HIDE DEF early
  <2>3. lost' \in Nat
      BY <1>2, <2>2
  <2> QED BY <1>1, <2>1, <2>3, NewestQuiet DEF early
<1> QED BY <1>3, <1>4, <1>5

\* The states that can be read are those up to the newest, so that the bisection, which
\* keeps one page that can be read below one that cannot, ends at the newest.
THEOREM NewestInvariant == Spec => []NewestInv
<1>1. Init => NewestInv
  <2>1. SUFFICES ASSUME Init PROVE NewestInv
      OBVIOUS
  <2>2. lost = 0 /\ gfDBTInitDone # "SYSTEM" /\ pc \in {"format", "decay"}
      BY <2>1 DEF Init
  <2> QED BY <2>2 DEF NewestInv
<1>2. FlashInv /\ SnapInv /\ WindowInv /\ NewestInv /\ [Next]_vars => NewestInv'
  <2>1. SUFFICES ASSUME FlashInv, SnapInv, WindowInv, NewestInv, [Next]_vars PROVE NewestInv'
      OBVIOUS
  <2>2. CASE \/ WriteCopy \/ BeginState \/ WriteState \/ PowerLoss \/ Decay
             \/ llfInherit \/ AfterResult \/ WithoutResult
             \/ RdtNext /\ UNCHANGED <<home, infoVars, writer>>
      BY <2>1, <2>2, OtherStep
  <2>3. CASE ResultInherited
    <3>1. /\ pc' = "end" /\ lost' = lost /\ gfDBTInitDone' # "SYSTEM"
        BY <2>3 DEF ResultInherited, tables
    <3> QED BY <2>1, <3>1, NewestQuiet DEF NewestInv
  <2>4. CASE BlockInfoNext /\ UNCHANGED <<rdtVars, writer>>
    <3>1. UNCHANGED <<pages, spoiled, home, written, state>>
        BY <2>4, SearchReads DEF flash, writer
    <3>2. CASE llfLoadBlockInfo \/ FindCopy \/ NoCopy \/ FindAny \/ NothingFound
        BY <2>1, <3>1, <3>2, FirstSearch
    <3>3. CASE ScanSkips \/ ScanReads
        BY <2>1, <3>1, <3>3, ScanStep
    <3>4. CASE ScanEnds
        BY <2>1, <3>1, <3>4, ScanEnd
    <3>5. CASE ReadTarget
        BY <2>1, <3>1, <3>5, TargetStep
    <3>6. CASE BisectDown \/ BisectUp
        BY <2>1, <3>1, <3>6, BisectStep
    <3>7. CASE ReadLast
        BY <2>1, <3>1, <3>7, LastStep
    <3>8. CASE ReadBody \/ NoBody \/ TakeState \/ AfterRemap \/ ReadSnapPage \/ SnapPageLost
        BY <2>1, <3>1, <3>8, TablesStep
    <3> QED BY <2>4, <3>2, <3>3, <3>4, <3>5, <3>6, <3>7, <3>8
          DEF BlockInfoNext, llfSearchDynamicSBlock
  <2>5. CASE LlfInheritRemappingTable /\ UNCHANGED <<home, infoVars, rdtVars, writer>>
    <3>1. UNCHANGED <<pages, spoiled, home, written, state>>
        BY <2>5, SearchReads DEF flash, writer
    <3> QED BY <2>1, <2>5, <3>1, TablesStep
  <2>6. CASE UNCHANGED vars
    <3>1. UNCHANGED <<pages, spoiled, home, written, state, lost, pc, at, tag, head, found, other,
                      targetWCnt, page_down, page_up, taken, gfDBTInitDone>>
        BY <2>6 DEF vars, flash, infoVars, search, tables, writer
    <3>2. /\ Newest' = Newest /\ lost \in Nat
          /\ Clean' => Clean
        BY <2>1, <3>1, SameDisk DEF NewestInv
    <3>3. TargetInv' <=> TargetInv
        BY <3>1, SameDisk DEF TargetInv, First, PageNo
    <3>4. ScanInv => ScanInv'
      <4>1. (found.count = 0 \/ Seen(found.count, found.at))'
              <=> (found.count = 0 \/ Seen(found.count, found.at))
          BY <3>1, SameDisk
      <4>2. Scanned(KnownDefects, at, found)' <=> Scanned(KnownDefects, at, found)
          BY <3>1, SameDisk, SameKnown
      <4>3. /\ FirstPage(head)' = FirstPage(head) /\ DynBegin' = DynBegin /\ DynEnd' = DynEnd
          BY <3>1, SameDisk, SamePlaces
      <4> QED BY <3>1, <4>1, <4>2, <4>3 DEF ScanInv
    <3>5. BisectInv => BisectInv'
      <4>1. /\ PairOf(found.count)' = PairOf(found.count) /\ NoPlace' = NoPlace
            /\ Ok(PairOf(found.count)[1], 0)' <=> Ok(PairOf(found.count)[1], 0)
            /\ Ok(at, page_down)' <=> Ok(at, page_down)
            /\ Ok(at, page_up)' <=> Ok(at, page_up)
          BY <3>1, SamePlaces, SameDisk
      <4> QED BY <3>1, <4>1 DEF BisectInv
    <3> QED BY <2>1, <3>1, <3>2, <3>3, <3>4, <3>5 DEF NewestInv
  <2> QED BY <2>1, <2>2, <2>3, <2>4, <2>5, <2>6 DEF Next
<1> QED BY <1>1, <1>2, FlashInvariant, SnapInvariant, WindowInvariant, PTL DEF Spec

\* A system that is inherited has the newest state the drive wrote as a whole, if every read
\* was answered and no page of a state was lost but the one the power loss left torn
\* (llfSearchDynamicSBlock); and never one the drive did not write.
THEOREM NewestTaken == Spec => []TakesNewest
<1>1. FlashInv /\ SnapInv /\ NewestInv => TakesNewest
  <2>1. SUFFICES ASSUME FlashInv, SnapInv, NewestInv, Inherited("SYSTEM") PROVE TakesNewest
      BY DEF TakesNewest
  <2>2. taken \in Nat /\ taken <= state /\ Newest \in Nat /\ lost \in Nat
    <3>1. taken \in 0 .. state
        BY <2>1 DEF SnapInv
    <3>2. state \in Nat /\ Newest \in 0 .. state
        BY <2>1, NewestType
    <3> QED BY <2>1, <3>1, <3>2 DEF NewestInv
  <2>3. CASE Clean
    <3>1. Newest > 0 => taken >= Newest
        BY <2>1, <2>3 DEF NewestInv, Inherited
    <3> QED BY <2>2, <3>1 DEF TakesNewest
  <2>4. CASE ~Clean
    <3>1. lost > 0 \/ \E pg \in Lost : pg.kind = "dyn"
        BY <2>2, <2>4 DEF Clean, Lost
    <3> QED BY <2>2, <3>1 DEF TakesNewest
  <2> QED BY <2>3, <2>4
<1> QED BY <1>1, FlashInvariant, SnapInvariant, NewestInvariant, PTL
------------------------------------------------------------------------------
(* The result of the test                                                  *)

\* What ends the search of a bank at page n of block y: a result, or code.
Hit(b, y, n) == LET pg == ResultPage(<<b, y>>, n) IN pg.kind = "result" /\ llfReadRetry(pg)
Stop(b, y, n) ==
    LET pg == ResultPage(<<b, y>>, n)
    IN  gubLLFMode # "DEFECT" /\ pg.kind = "body" /\ Readable(pg)

\* Nothing that is searched before page n of block y ends the search.
Passed(b, y, n) ==
    \A z \in FirstResultBlock .. (EndResultBlock - 1), m \in 0 .. (ResultPages - 1) :
       z < y \/ (z = y /\ m < n) => ~Hit(b, z, m) /\ ~Stop(b, z, m)

HasResult(b) ==
    \E y \in FirstResultBlock .. (EndResultBlock - 1), n \in 0 .. (ResultPages - 1) :
       Hit(b, y, n) /\ Passed(b, y, n)

LastBank == BankNum - 1

Own(b) ==
    /\ dbt[b] = {Group(x) : x \in tested[b].bad}
    /\ sysDbt[b] = {x \in tested[b].bad : x < SysMax}

\* The window is that of the test, whose results count; and what was found on a flash that
\* was formatted was found behind the copies.
InPlace == window = tested[0].window /\ (formatted => gubLLFMode = "DEFECT")
SeenBehind == formatted => gubTSblk >= tested[0].window.start + SblkBlks

ResultPlaces ==
    \A pg \in pages : pg.kind = "result" =>
        /\ pg.at[1] \in Bank /\ pg.at[2] \in Nat
        /\ formatted => pg.at[2] >= tested[0].window.start + SblkBlks

\* A bank's search finds what there is to be found.
SearchInv ==
    /\ at \in Bank \X Nat
    /\ pc = "result" =>
         /\ page \in 0 .. (ResultPages - 1) /\ at[2] \in FirstResultBlock .. EndResultBlock
         /\ Passed(at[1], at[2], page)
         /\ at[2] > FirstResultBlock \/ page > 0 => buf = NoResult
    /\ pc = "found" => buf = at[1] /\ HasResult(at[1]) /\ SeenBehind
    /\ pc = "not found" => buf = NoResult /\ ~HasResult(at[1])

\* The second pass: the tables of the banks before this one, if all were taken over.  It does
\* not find the last bank's result if the first pass did not.
TakeInv ==
    /\ at[1] \in Bank /\ passNum \in 0 .. at[1]
    /\ DOMAIN dbt = Bank /\ DOMAIN sysDbt = Bank
    /\ InPlace \/ ~HasResult(LastBank)
    /\ \A b \in Bank : b >= at[1] => dbt[b] = {} /\ sysDbt[b] = {}
    /\ passNum = at[1] /\ InPlace => \A b \in Bank : b < at[1] => Own(b)

Searching == pc \in {"result", "found", "not found"}
FirstPass == pc \in {"rdt", "tags"} \/ (Searching /\ pass = 1)
SecondPass == pc = "static" \/ (Searching /\ pass = 2)

ResultInv ==
    /\ ResultPlaces /\ lost \in Nat
    /\ Searching => pass \in {1, 2}
    /\ pc = "static" => pass = 2
    /\ gfDBTInitDone = "RDT" => pc \in {"rdt taken", "remap", "remap done", "end"}
    /\ lost = 0 =>
         /\ gubTSblk \in Nat
         /\ Searching => SearchInv
         /\ FirstPass => dbt = Empty /\ sysDbt = Empty /\ (pc # "rdt" => passNum = 0)
         /\ pc = "tags" =>
              IF buf = NoResult THEN ~HasResult(LastBank) ELSE buf \in Bank /\ SeenBehind
         /\ SecondPass => TakeInv
         /\ pc = "static" => HasResult(at[1])
         /\ gfDBTInitDone = "RDT" =>
              (formatted => gubLLFMode = "DEFECT") /\ \A b \in Bank : Own(b)

\* The window of the test, and of every reader, is one of the system area.
LEMMA TestedWindow ==
    ASSUME FlashInv
    PROVE  /\ 0 \in Bank /\ LastBank \in Bank /\ NoResult \notin Bank
           /\ \A b \in Bank : /\ tested[b] \in Test /\ tested[b].window = tested[0].window
                              /\ tested[b].window.start \in 0 .. ExtSys
<1>1. 0 \in Bank /\ LastBank \in Bank /\ NoResult \notin Bank
    BY Sizes DEF Bank, LastBank, NoResult
<1>2. PICK f \in Flashes : tested = f.tested
    BY DEF FlashInv, Given
<1>3. tested \in [Bank -> Test] /\ \A b \in Bank : tested[b].window = tested[0].window
    BY <1>2, InheritAssumption
<1>4. \A b \in Bank : tested[b].window.start \in 0 .. ExtSys
    BY <1>3 DEF Test, Window
<1> QED BY <1>1, <1>3, <1>4

LEMMA ResultRange ==
    ASSUME WindowInv
    PROVE  /\ FirstResultBlock \in Nat /\ EndResultBlock \in Nat
           /\ FirstResultBlock < EndResultBlock
           /\ ResultPages \in Nat /\ ResultPages > 0
BY Sizes, ResultAssumption DEF WindowInv, FirstResultBlock, EndResultBlock

LEMMA SameSearch ==
    ASSUME UNCHANGED <<pages, spoiled, gubLLFMode, window>>
    PROVE  /\ FirstResultBlock' = FirstResultBlock /\ EndResultBlock' = EndResultBlock
           /\ \A b, y, n : Passed(b, y, n)' <=> Passed(b, y, n)
           /\ \A b : HasResult(b)' <=> HasResult(b)
<1>1. FirstResultBlock' = FirstResultBlock /\ EndResultBlock' = EndResultBlock
    BY DEF FirstResultBlock, EndResultBlock
<1>2. \A p, n : ResultPage(p, n)' = ResultPage(p, n)
    BY DEF ResultPage
<1>3. \A pg : (llfReadRetry(pg)' <=> llfReadRetry(pg)) /\ (Readable(pg)' <=> Readable(pg))
    BY DEF llfReadRetry, Readable, Quality
<1>4. \A b, y, n : (Hit(b, y, n)' <=> Hit(b, y, n)) /\ (Stop(b, y, n)' <=> Stop(b, y, n))
    BY <1>2, <1>3 DEF Hit, Stop
<1>5. \A b, y, n : Passed(b, y, n)' <=> Passed(b, y, n)
    BY <1>1, <1>4 DEF Passed
<1> QED BY <1>1, <1>4, <1>5 DEF HasResult

LEMMA SameLast ==
    ASSUME UNCHANGED <<pages, spoiled, gubLLFMode, window>>
    PROVE  HasResult(LastBank)' <=> HasResult(LastBank)
<1>1. LastBank' = LastBank
    BY DEF LastBank
<1>2. \A b : HasResult(b)' <=> HasResult(b)
    BY SameSearch
<1> QED BY <1>1, <1>2

\* The search of a bank begins with nothing behind it.
LEMMA PassedNone ==
    ASSUME WindowInv, NEW b
    PROVE  Passed(b, FirstResultBlock, 0)
BY ResultRange DEF Passed

LEMMA PassedNext ==
    ASSUME WindowInv, NEW b, NEW y \in Nat, NEW n \in Nat, Passed(b, y, n),
           ~Hit(b, y, n), ~Stop(b, y, n)
    PROVE  /\ Passed(b, y, n + 1)
           /\ n + 1 >= ResultPages => Passed(b, y + 1, 0)
BY ResultRange DEF Passed

LEMMA EndsFound ==
    ASSUME NEW b, NEW y \in FirstResultBlock .. (EndResultBlock - 1),
           NEW n \in 0 .. (ResultPages - 1), Passed(b, y, n), Hit(b, y, n)
    PROVE  HasResult(b)
BY DEF HasResult

LEMMA EndsAtCode ==
    ASSUME WindowInv, NEW b, NEW y \in FirstResultBlock .. (EndResultBlock - 1),
           NEW n \in 0 .. (ResultPages - 1), Passed(b, y, n), Stop(b, y, n)
    PROVE  ~HasResult(b)
<1>1. SUFFICES ASSUME NEW z \in FirstResultBlock .. (EndResultBlock - 1),
                      NEW m \in 0 .. (ResultPages - 1), Hit(b, z, m), Passed(b, z, m)
               PROVE  FALSE
    BY DEF HasResult
<1>2. y \in Nat /\ n \in Nat /\ z \in Nat /\ m \in Nat
    BY ResultRange
<1>3. CASE z < y \/ (z = y /\ m < n)
    BY <1>1, <1>3 DEF Passed
<1>4. CASE y < z \/ (y = z /\ n < m)
    BY <1>1, <1>4 DEF Passed
<1>5. CASE y = z /\ n = m
    BY <1>1, <1>5 DEF Hit, Stop
<1> QED BY <1>2, <1>3, <1>4, <1>5

LEMMA EndsNowhere ==
    ASSUME WindowInv, NEW b, NEW n, Passed(b, EndResultBlock, n)
    PROVE  ~HasResult(b)
<1>1. SUFFICES ASSUME NEW z \in FirstResultBlock .. (EndResultBlock - 1),
                      NEW m \in 0 .. (ResultPages - 1), Hit(b, z, m)
               PROVE  FALSE
    BY DEF HasResult
<1>2. z < EndResultBlock
    BY ResultRange
<1> QED BY <1>1, <1>2 DEF Passed
\* The tables of a bank, as they are taken from its result.
LEMMA TakenExact ==
    ASSUME FlashInv, NEW b \in Bank, window = tested[0].window
    PROVE  /\ GroupsBad(b) \cup TestDefects(b) = {Group(x) : x \in tested[b].bad}
           /\ SystemBad(b) = {x \in tested[b].bad : x < SysMax}
<1>1. tested[b].window = window /\ window.start \in 0 .. ExtSys
    BY TestedWindow
<1>2. \A x \in TestBlocks(window) : x < SysMax
    BY <1>1, ReadsAssumption, GeometryAssumption DEF TestBlocks
<1>3. \A x \in tested[b].bad : x \in TestBlocks(window) => x \in TestBlocks(window) \cap SystemBad(b)
    BY <1>2 DEF SystemBad
<1>4. \A x \in TestBlocks(window) \cap SystemBad(b) : x \in tested[b].bad
    BY DEF SystemBad
<1>5. GroupsBad(b) = {Group(x) : x \in tested[b].bad \ TestBlocks(window)}
    BY <1>1 DEF GroupsBad
<1>6. TestDefects(b) = {Group(x) : x \in TestBlocks(window) \cap SystemBad(b)}
    BY DEF TestDefects
<1> HIDE DEF GroupsBad, TestDefects, SystemBad
<1> QED BY <1>3, <1>4, <1>5, <1>6 DEF SystemBad

\* Outside the two passes, and without tables of the test, there is nothing to say.
LEMMA ResultQuiet ==
    ASSUME ResultPlaces', lost' \in Nat, lost' = 0 => gubTSblk' \in Nat,
           pc' \notin {"rdt", "result", "found", "not found", "tags", "static"},
           gfDBTInitDone' # "RDT"
    PROVE  ResultInv'
BY DEF ResultInv, Searching, FirstPass, SecondPass

LEMMA SameResults ==
    ASSUME ResultPlaces, UNCHANGED <<pages, formatted, tested>>
    PROVE  ResultPlaces'
BY DEF ResultPlaces

LEMMA ResultDrive ==
    ASSUME FlashInv, ResultInv, WriteCopy \/ BeginState \/ WriteState \/ PowerLoss \/ Decay
    PROVE  ResultInv'
<1>1. /\ pc \in {"format", "decay"} /\ pc' \in {"format", "decay"}
      /\ UNCHANGED <<gfDBTInitDone, lost, gubTSblk, formatted, tested>>
    BY DEF WriteCopy, BeginState, WriteState, PowerLoss, Decay, tables, rdtVars, writer
<1>2. gfDBTInitDone' # "RDT" /\ lost' \in Nat /\ (lost' = 0 => gubTSblk' \in Nat)
    BY <1>1 DEF ResultInv
<1>3. ~Formatted => CopyPages[written + 1].kind # "result"
  <2>1. home \in Home /\ written \in 0 .. Len(CopyPages)
      BY HomeType DEF FlashInv
  <2>2. Len(CopyPages) \in Nat
      BY <2>1, CopyKinds
  <2>3. ~Formatted => written + 1 \in 1 .. Len(CopyPages)
      BY <2>1, <2>2 DEF Formatted
  <2> QED BY <2>1, <2>3, CopyKinds
<1>4. \A pg \in pages' : pg \in pages \/ pg.kind # "result"
  <2>1. CASE WriteCopy
    <3>1. pages' = pages \cup {CopyPages[written + 1]} /\ ~Formatted
        BY <2>1 DEF WriteCopy
    <3> QED BY <1>3, <3>1
  <2>2. CASE BeginState
      BY <2>2 DEF BeginState, PageAt
  <2>3. CASE WriteState
      BY <2>3 DEF WriteState, StatePages, StatePage, PageAt
  <2>4. CASE PowerLoss
    <3>1. pages' = pages \/ \E pg \in NextPages : pages' = pages \cup {pg}
        BY <2>4 DEF PowerLoss
    <3>2. \A pg \in NextPages : pg.kind # "result"
      <4>1. CASE ~Formatted
          BY <1>3, <4>1 DEF NextPages
      <4>2. CASE Formatted
          BY <4>2 DEF NextPages, StatePages, StatePage, PageAt
      <4> QED BY <4>1, <4>2
    <3> QED BY <3>1, <3>2
  <2>5. CASE Decay
      BY <2>5 DEF Decay
  <2> QED BY <2>1, <2>2, <2>3, <2>4, <2>5
<1>5. ResultPlaces'
    BY <1>1, <1>4 DEF ResultInv, ResultPlaces
<1> QED BY <1>1, <1>2, <1>5, ResultQuiet

\* A page of the search, of the bank it is in.
LEMMA PageOfBank ==
    ASSUME NEW p \in Bank \X Nat, NEW n
    PROVE  LET pg == ResultPage(p, n)
           IN  /\ pg.kind \in {"result", "head", "body"} /\ pg.at = p
               /\ Hit(p[1], p[2], n) <=> pg.kind = "result" /\ llfReadRetry(pg)
               /\ Stop(p[1], p[2], n) <=> gubLLFMode # "DEFECT" /\ pg.kind = "body" /\ Readable(pg)
<1>1. <<p[1], p[2]>> = p
    OBVIOUS
<1> QED BY <1>1 DEF ResultPage, PageAt, Hit, Stop
\* One page of the search, with every read answered so far.
LEMMA ReadResult ==
    ASSUME FlashInv, WindowInv, ResultInv, lost = 0, ResultRead, formatted' = formatted
    PROVE  SearchInv' /\ pc' \in {"result", "found", "not found"} /\ at'[1] = at[1]
<1> DEFINE pg == ResultPage(at, page)
           b == at[1]
           y == at[2]
<1>1. /\ pc = "result" /\ y < EndResultBlock
      /\ UNCHANGED <<pages, spoiled, gubLLFMode, window, tested, formatted>>
    BY DEF ResultRead, flash, where
<1>2. SearchInv
    BY <1>1 DEF ResultInv, Searching
<1>3. /\ at \in Bank \X Nat /\ b \in Bank /\ y \in Nat /\ at = <<b, y>>
      /\ page \in 0 .. (ResultPages - 1) /\ page \in Nat
      /\ y \in FirstResultBlock .. (EndResultBlock - 1) /\ Passed(b, y, page)
    BY <1>1, <1>2, ResultRange DEF SearchInv
<1>4. /\ pg.kind \in {"result", "head", "body"} /\ pg.at = at
      /\ Hit(b, y, page) <=> pg.kind = "result" /\ llfReadRetry(pg)
      /\ Stop(b, y, page) <=> gubLLFMode # "DEFECT" /\ pg.kind = "body" /\ Readable(pg)
    BY <1>3, PageOfBank
<1>5. FirstResultBlock' = FirstResultBlock /\ EndResultBlock' = EndResultBlock
      /\ (\A c, z, n : Passed(c, z, n)' <=> Passed(c, z, n)) /\ (\A c : HasResult(c)' <=> HasResult(c))
    BY <1>1, SameSearch
<1>6. Readable(pg) => llfReadRetry(pg)
    BY DEF llfReadRetry
<1>7. Quality(pg) = "weak" => llfReadRetry(pg) /\ ~Readable(pg)
    BY DEF llfReadRetry, Readable
<1> DEFINE find == /\ Hit(b, y, page) /\ buf' = b
                   /\ pc' = "found" /\ UNCHANGED <<at, page>>
                   /\ gubTSblk' = IF at[2] > gubTSblk THEN at[2] ELSE gubTSblk
           halt == Stop(b, y, page) /\ buf' = NoResult /\ pc' = "not found" /\ UNCHANGED <<at, page>>
           next == ~Hit(b, y, page) /\ ~Stop(b, y, page) /\ buf' = NoResult /\ hdr' # "RDT" /\ NextPage
<1>8. find \/ halt \/ next
  <2> HIDE DEF pg
  <2>1. Hit(b, y, page) => ResultOf(pg) = b
      BY <1>4 DEF ResultOf
  <2>2. ~Hit(b, y, page) /\ llfReadRetry(pg) => ResultOf(pg) = NoResult /\ Header(pg) # "RDT"
      BY <1>4 DEF ResultOf, Header
  <2>3. Hit(b, y, page) => Header(pg) = "RDT"
      BY <1>4 DEF Header
  <2>4. llfReadRetry(pg) => (Header(pg) = "CODE" <=> pg.kind = "body")
      BY <1>4 DEF Header
  <2>5. CASE Readable(pg) /\ hdr' = Header(pg) /\ buf' = ResultOf(pg)
             /\ CASE StopsAtCode(hdr') -> pc' = "not found" /\ UNCHANGED <<at, page, gubTSblk>>
                  [] hdr' = "RDT"      ->
                       /\ pc' = "found" /\ UNCHANGED <<at, page>>
                       /\ gubTSblk' = IF at[2] > gubTSblk THEN at[2] ELSE gubTSblk
                  [] OTHER             -> NextPage
    <3>1. CASE Stop(b, y, page)
      <4>1. StopsAtCode(hdr') /\ hdr' # "RDT" /\ ~Hit(b, y, page)
          BY <1>4, <1>6, <2>4, <2>5, <3>1 DEF StopsAtCode
      <4> QED BY <1>6, <2>2, <2>5, <3>1, <4>1
    <3>2. CASE ~Stop(b, y, page)
      <4>1. ~StopsAtCode(hdr')
          BY <1>4, <1>6, <2>4, <2>5, <3>2 DEF StopsAtCode
      <4> QED BY <1>6, <2>1, <2>2, <2>3, <2>5, <3>2, <4>1
    <3> QED BY <3>1, <3>2
  <2>6. CASE Quality(pg) = "weak" /\ hdr' = Header(pg) /\ buf' = ResultOf(pg)
             /\ IF hdr' = "RDT"
                THEN /\ pc' = "found" /\ UNCHANGED <<at, page>>
                     /\ gubTSblk' = IF at[2] > gubTSblk THEN at[2] ELSE gubTSblk
                ELSE NextPage
    <3>1. llfReadRetry(pg) /\ ~Stop(b, y, page)
        BY <1>4, <1>7, <2>6
    <3> QED BY <2>1, <2>2, <2>3, <2>6, <3>1
  <2>7. CASE ~llfReadRetry(pg) /\ hdr' = "other" /\ buf' = NoResult /\ NextPage
      BY <1>4, <1>6, <2>7
  <2> QED BY <2>5, <2>6, <2>7 DEF ResultRead, pg
<1>9. CASE find
  <2>1. HasResult(b)
      BY <1>3, <1>9, EndsFound
  <2>2. pg \in pages /\ pg.kind = "result"
      BY <1>4, <1>9 DEF llfReadRetry, Readable, Quality
  <2>3. SeenBehind'
    <3>1. formatted => y >= tested[0].window.start + SblkBlks
        BY <1>4, <2>2 DEF ResultInv, ResultPlaces
    <3>2. gubTSblk' \in Nat /\ gubTSblk' >= y
      <4>1. gubTSblk \in Nat
          BY DEF ResultInv
      <4>2. gubTSblk' = IF y > gubTSblk THEN y ELSE gubTSblk
          BY <1>9
      <4> HIDE DEF y, find, halt, next
      <4> QED BY <1>3, <4>1, <4>2
    <3>3. tested[0].window.start + SblkBlks \in Nat
        BY TestedWindow, Sizes
    <3> QED BY <1>1, <1>3, <3>1, <3>2, <3>3 DEF SeenBehind
  <2> QED BY <1>3, <1>5, <1>9, <2>1, <2>3 DEF SearchInv
<1>10. CASE halt
    BY <1>3, <1>5, <1>10, EndsAtCode DEF SearchInv
<1>11. CASE next
  <2>1. Passed(b, y, page + 1) /\ (page + 1 >= ResultPages => Passed(b, y + 1, 0))
      BY <1>3, <1>11, PassedNext
  <2>2. ~FoundIn(cmp', hdr')
      BY <1>11 DEF FoundIn
  <2>3. CASE page + 1 < ResultPages
    <3>1. page' = page + 1 /\ at' = at /\ pc' = pc
        BY <1>11, <2>3 DEF NextPage
    <3> QED BY <1>1, <1>3, <1>5, <1>11, <2>1, <2>3, <3>1, ResultRange DEF SearchInv
  <2>4. CASE ~(page + 1 < ResultPages)
    <3>1. page' = 0 /\ at' = <<b, y + 1>> /\ pc' = pc
        BY <1>11, <2>2, <2>4 DEF NextPage
    <3>2. Passed(b, y + 1, 0)
        BY <1>3, <2>1, <2>4, ResultRange
    <3> QED BY <1>1, <1>3, <1>5, <1>11, <3>1, <3>2, ResultRange DEF SearchInv
  <2> QED BY <2>3, <2>4
<1> QED BY <1>8, <1>9, <1>10, <1>11
\* The search of a bank, in the tables' eyes: they stay as they are.
LEMMA SearchKeeps ==
    ASSUME FlashInv, WindowInv, ResultInv, formatted' = formatted,
           ResultRead \/ ResultLost \/ ResultNotFound
    PROVE  ResultInv'
<1>1. /\ pc = "result" /\ pc' \in {"result", "found", "not found"}
      /\ UNCHANGED <<pages, spoiled, gubLLFMode, window, tested, formatted, dbt, sysDbt,
                     gfDBTInitDone, pass, passNum>>
  <2>1. CASE ResultRead \/ ResultLost
    <3>1. pc' \in {"not found", "found", pc}
        BY <2>1 DEF ResultRead, ResultLost, NextPage
    <3> QED BY <2>1, <3>1 DEF ResultRead, ResultLost, flash, where, tables
  <2>2. CASE ResultNotFound
      BY <2>2 DEF ResultNotFound, flash, where, tables, rdtVars
  <2> QED BY <2>1, <2>2
<1>2. ResultPlaces' /\ pass \in {1, 2} /\ gfDBTInitDone # "RDT"
    BY <1>1, SameResults DEF ResultInv, Searching
<1>3. lost' \in Nat /\ (lost' = 0 => lost = 0 /\ ~ResultLost)
  <2>1. lost \in Nat
      BY DEF ResultInv
  <2>2. CASE ResultLost
    <3>1. lost' = lost + 1
        BY <2>2 DEF ResultLost, TimesOut
    <3> QED BY <2>1, <3>1
  <2>3. CASE ResultRead \/ ResultNotFound
    <3>1. lost' = lost
        BY <2>3 DEF ResultRead, ResultNotFound
    <3>2. ResultLost => lost' = lost + 1
        BY DEF ResultLost, TimesOut
    <3> QED BY <2>1, <3>1, <3>2
  <2> QED BY <2>2, <2>3
<1>4. ASSUME lost' = 0
      PROVE  SearchInv' /\ at'[1] = at[1] /\ gubTSblk' \in Nat
  <2>1. lost = 0 /\ SearchInv /\ gubTSblk \in Nat
      BY <1>1, <1>3, <1>4 DEF ResultInv, Searching
  <2>2. CASE ResultRead
    <3>1. SearchInv' /\ at'[1] = at[1]
        BY <1>1, <2>1, <2>2, ReadResult
    <3>2. gubTSblk' \in {gubTSblk, at[2]}
        BY <2>2 DEF ResultRead, NextPage
    <3> QED BY <2>1, <3>1, <3>2 DEF SearchInv
  <2>3. CASE ResultNotFound
    <3>1. at[2] = EndResultBlock /\ pc' = "not found" /\ UNCHANGED <<at, buf, gubTSblk>>
        BY <2>3 DEF ResultNotFound, rdtVars, buffers
    <3>2. Passed(at[1], EndResultBlock, page) /\ EndResultBlock > FirstResultBlock
        BY <1>1, <2>1, <3>1, ResultRange DEF SearchInv
    <3>3. ~HasResult(at[1])
        BY <3>2, EndsNowhere
    <3>4. ~HasResult(at[1])'
        BY <1>1, <3>1, <3>3, SameSearch
    <3> QED BY <1>1, <2>1, <3>1, <3>2, <3>4 DEF SearchInv
  <2> QED BY <1>3, <1>4, <2>2, <2>3
<1>5. ASSUME lost' = 0, pass = 2 PROVE TakeInv'
  <2>1. TakeInv
      BY <1>1, <1>3, <1>5 DEF ResultInv, SecondPass, Searching
  <2>2. at'[1] = at[1]
      BY <1>4, <1>5
  <2>3. HasResult(LastBank)' <=> HasResult(LastBank)
      BY <1>1, SameLast
  <2>4. (InPlace' <=> InPlace) /\ \A b : Own(b)' <=> Own(b)
    <3>1. UNCHANGED <<dbt, sysDbt, tested>>
        BY <1>1
    <3>2. UNCHANGED <<window, formatted, gubLLFMode>>
        BY <1>1
    <3>3. InPlace' <=> InPlace
        BY <3>1, <3>2 DEF InPlace
    <3>4. \A b : Own(b)' <=> Own(b)
        BY <3>1 DEF Own
    <3> QED BY <3>3, <3>4
  <2> QED BY <1>1, <2>1, <2>2, <2>3, <2>4 DEF TakeInv
<1>6. ASSUME lost' = 0, pass = 1 PROVE dbt = Empty /\ sysDbt = Empty /\ passNum = 0
    BY <1>1, <1>3, <1>6 DEF ResultInv, FirstPass, Searching
<1>7. Searching' /\ pc' \notin {"rdt", "tags", "static"} /\ gfDBTInitDone' # "RDT" /\ pass' = pass
    BY <1>1, <1>2 DEF Searching
<1>8. (FirstPass' => pass = 1) /\ (SecondPass' => pass = 2)
    BY <1>7 DEF FirstPass, SecondPass
<1> QED BY <1>1, <1>2, <1>3, <1>4, <1>5, <1>6, <1>7, <1>8 DEF ResultInv, Empty

\* A call for a bank begins its search.
LEMMA CallBegins ==
    ASSUME WindowInv, NEW b \in Bank, CallForBank(b), pc' = "result",
           UNCHANGED <<pages, spoiled, gubLLFMode, window>>
    PROVE  SearchInv' /\ at'[1] = b
<1>1. at' = <<b, FirstResultBlock>> /\ page' = 0
    BY DEF CallForBank
<1>2. Passed(b, FirstResultBlock, 0)
    BY PassedNone
<1>3. FirstResultBlock' = FirstResultBlock /\ EndResultBlock' = EndResultBlock
      /\ \A c, z, n : Passed(c, z, n)' <=> Passed(c, z, n)
    BY SameSearch
<1>4. at' \in Bank \X Nat /\ at'[2] \in FirstResultBlock .. EndResultBlock
      /\ page' \in 0 .. (ResultPages - 1)
    BY <1>1, ResultRange
<1>5. Passed(at[1], at[2], page)'
    BY <1>1, <1>2, <1>3
<1> QED BY <1>1, <1>3, <1>4, <1>5, ResultRange DEF SearchInv

LEMMA TagKeeps ==
    ASSUME FlashInv, WindowInv, ResultInv, formatted' = formatted,
           llfLoadRDTResult \/ TakeTag
    PROVE  ResultInv'
<1>1. /\ pc' \in {"result", "tags"} /\ pass' = 1 /\ pc \in {"rdt", "found", "not found"}
      /\ UNCHANGED <<pages, spoiled, gubLLFMode, window, tested, formatted, dbt, sysDbt,
                     gfDBTInitDone, lost, gubTSblk, buf>>
    BY DEF llfLoadRDTResult, TakeTag, flash, where, tables
<1>2. ResultPlaces' /\ lost' \in Nat /\ gfDBTInitDone' # "RDT"
    BY <1>1, SameResults DEF ResultInv
<1>3. ASSUME lost = 0 PROVE dbt = Empty /\ sysDbt = Empty /\ gubTSblk \in Nat
  <2>1. FirstPass
      BY <1>1 DEF llfLoadRDTResult, TakeTag, FirstPass, Searching
  <2> QED BY <1>3, <2>1 DEF ResultInv
<1>4. ASSUME lost = 0 PROVE passNum' = 0
  <2>1. CASE llfLoadRDTResult
      BY <2>1 DEF llfLoadRDTResult
  <2>2. CASE TakeTag
    <3>1. FirstPass /\ pc # "rdt" /\ passNum' = passNum
        BY <2>2 DEF TakeTag, FirstPass, Searching
    <3> QED BY <1>4, <3>1 DEF ResultInv
  <2> QED BY <2>1, <2>2
<1>5. ASSUME lost = 0, pc' = "result" PROVE SearchInv'
  <2>1. PICK b \in Bank : CallForBank(b)
    <3>1. CASE llfLoadRDTResult
        BY <3>1, TestedWindow DEF llfLoadRDTResult
    <3>2. CASE TakeTag
      <4>1. at[1] \in Bank
          BY <1>5, <3>2 DEF TakeTag, ResultInv, Searching, SearchInv
      <4>2. at[1] + 1 < BankNum /\ CallForBank(at[1] + 1)
          BY <1>5, <3>2 DEF TakeTag
      <4>3. at[1] + 1 \in Bank
          BY <4>1, <4>2, Sizes DEF Bank
      <4> QED BY <4>2, <4>3
    <3> QED BY <3>1, <3>2
  <2> QED BY <1>1, <1>5, <2>1, CallBegins
<1>6. ASSUME lost = 0, pc' = "tags"
      PROVE  IF buf = NoResult THEN ~HasResult(LastBank) ELSE buf \in Bank /\ SeenBehind
  <2>1. TakeTag /\ pc \in {"found", "not found"} /\ ~(at[1] + 1 < BankNum)
      BY <1>6 DEF TakeTag, llfLoadRDTResult
  <2>2. SearchInv /\ at[1] \in Bank
      BY <1>6, <2>1 DEF ResultInv, Searching, SearchInv
  <2>3. at[1] = LastBank
    <3>1. BankNum \in Nat
        BY Sizes
    <3>2. at[1] \in Bank /\ ~(at[1] + 1 < BankNum)
        BY <2>1, <2>2
    <3> QED BY <3>1, <3>2 DEF Bank, LastBank
  <2> QED BY <2>1, <2>2, <2>3, TestedWindow DEF SearchInv
<1>7. /\ (HasResult(LastBank)' <=> HasResult(LastBank)) /\ (SeenBehind' <=> SeenBehind)
  <2>1. SeenBehind' <=> SeenBehind
    <3>1. UNCHANGED <<formatted, tested, gubTSblk>>
        BY <1>1
    <3> QED BY <3>1 DEF SeenBehind
  <2> QED BY <1>1, <2>1, SameLast
<1>8. ~SecondPass' /\ pc' # "static" /\ pc' # "rdt"
  <2>1. pass' # 2
    <3>1. pass' = 1
        BY <1>1
    <3> QED BY <3>1
  <2> QED BY <1>1, <2>1 DEF SecondPass, Searching
<1>9. (pc = "tags" => IF buf = NoResult THEN ~HasResult(LastBank) ELSE buf \in Bank /\ SeenBehind)'
      \/ lost' # 0
    BY <1>1, <1>6, <1>7
<1>10. Searching' => pc' = "result"
    BY <1>1 DEF Searching
<1> QED BY <1>1, <1>2, <1>3, <1>5, <1>8, <1>9, <1>10, <1>4 DEF ResultInv, Empty
\* The window of a result is that of the test, and what lies behind the copies is refused.
LEMMA TagsKeep ==
    ASSUME FlashInv, ResultInv, formatted' = formatted, CheckTags, WindowInv'
    PROVE  ResultInv'
<1>1. /\ pc = "tags" /\ pc' \in {"rdt fails", "result"}
      /\ UNCHANGED <<pages, spoiled, gubLLFMode>>
    BY DEF CheckTags, flash
<1>2. UNCHANGED <<tested, dbt, sysDbt, gfDBTInitDone, lost, gubTSblk, buf, passNum>>
    BY DEF CheckTags, tables
<1>3. ResultPlaces' /\ lost' \in Nat /\ gfDBTInitDone' # "RDT"
  <2>1. ResultPlaces' /\ UNCHANGED <<lost, gfDBTInitDone>>
      BY <1>1, <1>2, SameResults DEF ResultInv
  <2> QED BY <1>1, <2>1 DEF ResultInv
<1>4. lost = 0 => gubTSblk' \in Nat
    BY <1>2 DEF ResultInv
<1>5. CASE pc' = "rdt fails"
    BY <1>2, <1>3, <1>4, <1>5, ResultQuiet
<1>6. CASE pc' = "result"
  <2>1. /\ pass' = 2 /\ page' = 0 /\ ~OutOfPlace(window')
        /\ window' = IF buf = NoResult THEN window ELSE tested[buf].window
      BY <1>1, <1>6 DEF CheckTags
  <2>2. at' = <<0, FirstResultBlock'>>
      BY <1>1, <1>6 DEF CheckTags, FirstResultBlock
  <2>3. SearchInv'
    <3>0. (FirstResultBlock \in Nat /\ EndResultBlock \in Nat /\ FirstResultBlock < EndResultBlock)'
          /\ ResultPages \in Nat /\ ResultPages > 0
        BY Sizes, ResultAssumption DEF WindowInv, FirstResultBlock, EndResultBlock
    <3>1. Passed(0, FirstResultBlock, 0)'
        BY <3>0 DEF Passed
    <3>2. Passed(at[1], at[2], page)'
        BY <2>1, <2>2, <3>1
    <3>3. at' \in Bank \X Nat /\ at'[2] \in (FirstResultBlock .. EndResultBlock)'
          /\ page' \in 0 .. (ResultPages - 1)
        BY <2>1, <2>2, <3>0, TestedWindow
    <3>4. ~(at[2] > FirstResultBlock \/ page > 0)'
        BY <2>1, <2>2, <3>0
    <3> QED BY <1>6, <3>2, <3>3, <3>4 DEF SearchInv
  <2>4. ASSUME lost = 0 PROVE TakeInv'
    <3>1. IF buf = NoResult THEN ~HasResult(LastBank) ELSE buf \in Bank /\ SeenBehind
        BY <1>1, <2>4 DEF ResultInv
    <3>2. dbt = Empty /\ sysDbt = Empty /\ passNum = 0
        BY <1>1, <2>4 DEF ResultInv, FirstPass
    <3>3. CASE buf = NoResult
      <4>1. ~HasResult(LastBank)'
          BY <1>1, <2>1, <3>1, <3>3, SameLast
      <4> QED BY <1>2, <2>2, <3>2, <4>1, TestedWindow DEF TakeInv, Empty, Bank
    <3>4. CASE buf # NoResult
      <4>1. window' = tested[0].window /\ tested' = tested
          BY <1>2, <2>1, <3>1, <3>4, TestedWindow
      <4>2. formatted => gubTSblk >= window'.start + SblkBlks
          BY <3>1, <3>4, <4>1 DEF SeenBehind
      <4>3. formatted => gubLLFMode = "DEFECT"
          BY <2>1, <4>2 DEF OutOfPlace
      <4>4. InPlace'
          BY <1>1, <4>1, <4>3 DEF InPlace
      <4> QED BY <1>2, <2>2, <3>2, <4>4, TestedWindow DEF TakeInv, Empty, Bank
    <3> QED BY <3>3, <3>4
  <2>5. Searching' /\ ~FirstPass' /\ pc' # "tags" /\ pc' # "static"
    <3>1. pass' # 1
        BY <2>1
    <3> QED BY <1>6, <3>1 DEF Searching, FirstPass
  <2>6. lost' = lost /\ pass' \in {1, 2}
      BY <1>2, <2>1
  <2> QED BY <1>3, <1>4, <2>3, <2>4, <2>5, <2>6 DEF ResultInv
<1> QED BY <1>1, <1>5, <1>6

\* The end of a bank in the second pass.
LEMMA BankDone ==
    ASSUME FlashInv, WindowInv, ResultInv, SecondPass, lost = 0 => TakeInv,
           UNCHANGED <<pages, spoiled, gubLLFMode>>, UNCHANGED <<window, formatted, tested>>,
           UNCHANGED <<lost, gubTSblk, pass>>, pass = 2,
           NEW passed, AfterBank(passed),
           lost = 0 =>
             /\ DOMAIN dbt' = Bank /\ DOMAIN sysDbt' = Bank
             /\ \A b \in Bank : b # at[1] => dbt'[b] = dbt[b] /\ sysDbt'[b] = sysDbt[b]
             /\ passed => HasResult(at[1]) /\ (InPlace => \A b \in Bank : b = at[1] => Own(b)')
    PROVE  ResultInv'
<1>1. ResultPlaces' /\ lost \in Nat /\ gfDBTInitDone # "RDT" /\ (lost = 0 => gubTSblk \in Nat)
  <2>1. pc \notin {"rdt taken", "remap", "remap done", "end"}
      BY DEF SecondPass, Searching
  <2> QED BY <2>1, SameResults DEF ResultInv
<1>2. (\A b : HasResult(b)' <=> HasResult(b)) /\ (InPlace' <=> InPlace)
  <2>1. InPlace' <=> InPlace
      BY DEF InPlace
  <2> QED BY <2>1, SameSearch
<1>3. ASSUME lost = 0 PROVE at[1] \in 0 .. (BankNum - 1) /\ passNum \in 0 .. at[1] /\ at[1] \in Nat
  <2>1. at[1] \in Bank /\ passNum \in 0 .. at[1]
      BY <1>3 DEF TakeInv
  <2> QED BY <2>1, Sizes DEF Bank
<1>4. \A b \in Bank : b # at[1] /\ lost = 0 => (Own(b)' <=> Own(b))
    BY DEF Own
<1>8. passNum' = IF passed THEN passNum + 1 ELSE passNum
    BY DEF AfterBank
<1>5. ASSUME lost = 0, passNum' = at[1] + 1
      PROVE  passed /\ passNum = at[1] /\ (InPlace => \A b \in Bank : b <= at[1] => Own(b)')
  <2> DEFINE x == at[1]
  <2>6. x \in Nat /\ passNum \in 0 .. x /\ passNum' = x + 1
      BY <1>3, <1>5
  <2> HIDE DEF x
  <2>7. passed /\ passNum = x
      BY <1>8, <2>6
  <2> USE DEF x
  <2>1. passed /\ passNum = at[1]
      BY <2>7
  <2>2. InPlace => \A b \in Bank : b < at[1] => Own(b)
      BY <1>5, <2>1 DEF TakeInv
  <2>3. InPlace => \A b \in Bank : b = at[1] => Own(b)'
      BY <1>5, <2>1
  <2>4. \A b \in Bank : b <= at[1] => b < at[1] \/ b = at[1]
      BY <1>3, <1>5 DEF Bank
  <2>5. \A b \in Bank : b < at[1] => b # at[1]
      BY <1>3, <1>5 DEF Bank
  <2>8. ASSUME InPlace, NEW b \in Bank, b <= at[1] PROVE Own(b)'
    <3>1. CASE b = at[1]
        BY <2>3, <2>8, <3>1
    <3>2. CASE b < at[1]
        BY <1>4, <1>5, <2>2, <2>5, <2>8, <3>2
    <3> QED BY <2>4, <2>8, <3>1, <3>2
  <2> QED BY <2>1, <2>8
<1>6. CASE at[1] + 1 < BankNum
  <2>1. pc' = "result" /\ CallForBank(at[1] + 1) /\ gfDBTInitDone' = gfDBTInitDone
      BY <1>6 DEF AfterBank
  <2>2. ASSUME lost = 0 PROVE SearchInv' /\ TakeInv'
    <3>1. at[1] + 1 \in Bank /\ BankNum \in Nat
        BY <1>3, <1>6, <2>2, Sizes DEF Bank
    <3>2. SearchInv' /\ at'[1] = at[1] + 1
        BY <2>1, <3>1, CallBegins
    <3>3. passNum' \in 0 .. (at[1] + 1)
      <4> DEFINE x == at[1]
      <4>1. x \in Nat /\ passNum \in 0 .. x
          BY <1>3, <2>2
      <4> HIDE DEF x
      <4>2. passNum' \in 0 .. (x + 1)
          BY <1>8, <4>1
      <4> QED BY <4>2 DEF x
    <3>4. InPlace' \/ ~HasResult(LastBank)'
        BY <1>2, <2>2, SameLast DEF TakeInv
    <3>5. \A b \in Bank : b >= at[1] + 1 => dbt'[b] = {} /\ sysDbt'[b] = {}
      <4>1. \A b \in Bank : b >= at[1] + 1 => b # at[1] /\ b >= at[1]
          BY <1>3, <2>2 DEF Bank
      <4> QED BY <2>2, <4>1 DEF TakeInv
    <3>6. passNum' = at[1] + 1 /\ InPlace' => \A b \in Bank : b < at[1] + 1 => Own(b)'
      <4>1. \A b \in Bank : b < at[1] + 1 => b <= at[1]
          BY <1>3, <2>2 DEF Bank
      <4> QED BY <1>2, <1>5, <2>2, <4>1
    <3>7. DOMAIN dbt' = Bank /\ DOMAIN sysDbt' = Bank
        BY <2>2
    <3> QED BY <3>1, <3>2, <3>3, <3>4, <3>5, <3>6, <3>7 DEF TakeInv
  <2>3. Searching' /\ ~FirstPass' /\ pc' # "tags" /\ pc' # "static"
      BY <2>1 DEF Searching, FirstPass
  <2> QED BY <1>1, <2>1, <2>2, <2>3 DEF ResultInv
<1>7. CASE ~(at[1] + 1 < BankNum)
  <2>1. \/ pc' = "rdt taken" /\ gfDBTInitDone' = "RDT" /\ passNum' = BankNum
        \/ pc' = "rdt fails" /\ gfDBTInitDone' = gfDBTInitDone
      BY <1>7 DEF AfterBank
  <2>2. CASE pc' = "rdt fails" /\ gfDBTInitDone' = gfDBTInitDone
      BY <1>1, <2>2, ResultQuiet
  <2>3. CASE pc' = "rdt taken" /\ gfDBTInitDone' = "RDT" /\ passNum' = BankNum
    <3>1. ASSUME lost = 0 PROVE (formatted => gubLLFMode = "DEFECT") /\ \A b \in Bank : Own(b)'
      <4>1. at[1] = LastBank /\ passNum' = at[1] + 1
        <5> DEFINE x == at[1]
        <5>1. x \in Nat /\ x \in 0 .. (BankNum - 1) /\ BankNum \in Nat /\ ~(x + 1 < BankNum)
            BY <1>3, <1>7, <3>1, Sizes
        <5> HIDE DEF x
        <5>2. x = BankNum - 1 /\ BankNum = x + 1
            BY <5>1
        <5> QED BY <2>3, <5>2 DEF x, LastBank
      <4>2. passed
          BY <1>5, <3>1, <4>1
      <4>3. InPlace
          BY <3>1, <4>1, <4>2 DEF TakeInv
      <4>4. \A b \in Bank : b <= at[1]
          BY <4>1, Sizes DEF Bank, LastBank
      <4> QED BY <1>5, <3>1, <4>1, <4>3, <4>4 DEF InPlace
    <3>2. ~Searching' /\ ~FirstPass' /\ ~SecondPass' /\ pc' # "tags" /\ pc' # "static"
        BY <2>3 DEF Searching, FirstPass, SecondPass
    <3> QED BY <1>1, <2>3, <3>1, <3>2 DEF ResultInv
  <2> QED BY <2>1, <2>2, <2>3
<1> QED BY <1>6, <1>7
\* Taking over the tables of a bank.
LEMMA TakeKeeps ==
    ASSUME FlashInv, WindowInv, ResultInv, formatted' = formatted,
           ParseTables \/ BankNotTaken \/ StaticRead
    PROVE  ResultInv'
<1>1. /\ SecondPass /\ pc \in {"found", "not found", "static"}
      /\ UNCHANGED <<pages, spoiled, gubLLFMode>> /\ UNCHANGED <<window, formatted, tested>>
      /\ UNCHANGED <<lost, gubTSblk, pass>>
  <2>1. CASE ParseTables \/ BankNotTaken
      BY <2>1 DEF ParseTables, BankNotTaken, SecondPass, Searching, flash, where
  <2>2. CASE StaticRead
      BY <2>2 DEF StaticRead, SecondPass, Reads, flash, where
  <2> QED BY <2>1, <2>2
<1>2. pass = 2
    BY <1>1 DEF SecondPass, ResultInv
<1>3. ASSUME lost = 0
      PROVE  /\ TakeInv /\ at[1] \in Bank /\ DOMAIN dbt = Bank /\ DOMAIN sysDbt = Bank
             /\ dbt[at[1]] = {} /\ sysDbt[at[1]] = {}
  <2>1. TakeInv
      BY <1>1, <1>3 DEF ResultInv
  <2>2. at[1] \in Bank /\ at[1] >= at[1]
      BY <2>1, Sizes DEF TakeInv, Bank
  <2> QED BY <2>1, <2>2 DEF TakeInv
<1>4. CASE BankNotTaken
  <2>1. AfterBank(FALSE) /\ UNCHANGED <<dbt, sysDbt>>
      BY <1>4 DEF BankNotTaken
  <2> QED BY <1>1, <1>2, <1>3, <2>1, BankDone
<1>5. CASE ParseTables
  <2>1. PICK passed : AfterBank(passed)
      BY <1>5 DEF ParseTables
  <2>2. /\ sysDbt' = [sysDbt EXCEPT ![at[1]] = @ \cup SystemBad(buf)]
        /\ dbt' = [dbt EXCEPT ![at[1]] = GroupsBad(buf) \cup TestDefects(buf)]
        /\ pc = "found"
      BY <1>5 DEF ParseTables
  <2>3. ASSUME lost = 0
        PROVE  /\ DOMAIN dbt' = Bank /\ DOMAIN sysDbt' = Bank
               /\ \A b \in Bank : b # at[1] => dbt'[b] = dbt[b] /\ sysDbt'[b] = sysDbt[b]
               /\ HasResult(at[1]) /\ (InPlace => \A b \in Bank : b = at[1] => Own(b)')
    <3>1. buf = at[1] /\ HasResult(at[1])
        BY <2>2, <2>3 DEF ResultInv, Searching, SearchInv
    <3>2. /\ DOMAIN dbt' = Bank /\ DOMAIN sysDbt' = Bank
          /\ \A b \in Bank : b # at[1] => dbt'[b] = dbt[b] /\ sysDbt'[b] = sysDbt[b]
        BY <1>3, <2>2, <2>3
    <3>3. ASSUME InPlace, NEW b \in Bank, b = at[1] PROVE Own(b)'
      <4>1. GroupsBad(b) \cup TestDefects(b) = {Group(x) : x \in tested[b].bad}
            /\ SystemBad(b) = {x \in tested[b].bad : x < SysMax}
          BY <3>3, TakenExact DEF InPlace
      <4>2. dbt'[b] = GroupsBad(b) \cup TestDefects(b) /\ sysDbt'[b] = SystemBad(b)
          BY <1>3, <2>2, <2>3, <3>1, <3>3
      <4> QED BY <1>1, <4>1, <4>2 DEF Own
    <3> QED BY <3>1, <3>2, <3>3
  <2> QED BY <1>1, <1>2, <1>3, <2>1, <2>3, BankDone
<1>6. CASE StaticRead
  <2>1. PICK passed : AfterBank(passed)
      BY <1>6 DEF StaticRead
  <2> DEFINE bad == tested[at[1]].bad
  <2>2. /\ sysDbt' = [sysDbt EXCEPT ![at[1]] = @ \cup {x \in bad : x < SysMax}]
        /\ dbt' = [dbt EXCEPT ![at[1]] = @ \cup {Group(x) : x \in bad}]
        /\ pc = "static"
      BY <1>6 DEF StaticRead, TakeStatic
  <2>3. ASSUME lost = 0
        PROVE  /\ DOMAIN dbt' = Bank /\ DOMAIN sysDbt' = Bank
               /\ \A b \in Bank : b # at[1] => dbt'[b] = dbt[b] /\ sysDbt'[b] = sysDbt[b]
               /\ HasResult(at[1]) /\ (InPlace => \A b \in Bank : b = at[1] => Own(b)')
    <3>1. HasResult(at[1])
        BY <2>2, <2>3 DEF ResultInv
    <3>2. /\ DOMAIN dbt' = Bank /\ DOMAIN sysDbt' = Bank
          /\ \A b \in Bank : b # at[1] => dbt'[b] = dbt[b] /\ sysDbt'[b] = sysDbt[b]
        BY <1>3, <2>2, <2>3
    <3>3. ASSUME NEW b \in Bank, b = at[1] PROVE Own(b)'
      <4>1. dbt'[b] = {Group(x) : x \in bad} /\ sysDbt'[b] = {x \in bad : x < SysMax}
          BY <1>3, <2>2, <2>3, <3>3
      <4> QED BY <1>1, <3>3, <4>1 DEF Own
    <3> QED BY <3>1, <3>2, <3>3
  <2> QED BY <1>1, <1>2, <1>3, <2>1, <2>3, BankDone
<1> QED BY <1>4, <1>5, <1>6

\* The table of single blocks is looked for in the bank whose result was found.
LEMMA StaticKeeps ==
    ASSUME FlashInv, WindowInv, ResultInv, formatted' = formatted,
           StartRebuild \/ StaticMissed \/ NoStatic \/ StaticLost
    PROVE  ResultInv'
<1>1. /\ SecondPass /\ pc \in {"found", "static"} /\ UNCHANGED <<pages, spoiled, gubLLFMode>>
      /\ UNCHANGED <<window, formatted, tested>> /\ UNCHANGED <<gubTSblk, pass>>
    BY DEF StartRebuild, StaticMissed, NoStatic, StaticLost, SecondPass, Searching, flash, where,
           rdtVars
<1>2. pass = 2 /\ lost \in Nat /\ gfDBTInitDone # "RDT" /\ (lost = 0 => gubTSblk \in Nat)
    BY <1>1 DEF SecondPass, ResultInv
<1>3. ResultPlaces'
    BY <1>1, SameResults DEF ResultInv
<1>4. CASE NoStatic
  <2>1. pc' = "halt" /\ UNCHANGED <<lost, gfDBTInitDone>>
      BY <1>4 DEF NoStatic, tables
  <2> QED BY <1>1, <1>2, <1>3, <2>1, ResultQuiet
<1>5. CASE StaticLost
  <2>1. lost' = lost + 1
      BY <1>5 DEF StaticLost, TimesOut
  <2>2. lost' \in Nat /\ lost' # 0
      BY <1>2, <2>1
  <2>3. \/ (pc' \in {"static", "result"} /\ gfDBTInitDone' = gfDBTInitDone)
        \/ (pc' = "rdt fails" /\ gfDBTInitDone' = gfDBTInitDone)
        \/ pc' = "rdt taken"
    <3>1. CASE \E passed : AfterBank(passed)
        BY <3>1 DEF AfterBank
    <3>2. CASE UNCHANGED <<pc, tables>>
        BY <1>5, <3>2 DEF StaticLost, tables
    <3> QED BY <1>5, <3>1, <3>2 DEF StaticLost
  <2>4. pass' \in {1, 2} /\ pass' = 2
      BY <1>1, <1>2
  <2> QED BY <1>2, <1>3, <2>2, <2>3, <2>4 DEF ResultInv
<1>6. CASE StartRebuild \/ StaticMissed
  <2>1. pc' = "static" /\ UNCHANGED <<lost, gfDBTInitDone, dbt, sysDbt, passNum>> /\ at'[1] = at[1]
      BY <1>6 DEF StartRebuild, StaticMissed, tables
  <2>2. ASSUME lost = 0 PROVE TakeInv /\ HasResult(at[1])
    <3>1. TakeInv
        BY <1>1, <2>2 DEF ResultInv
    <3>2. CASE pc = "static"
        BY <2>2, <3>1, <3>2 DEF ResultInv
    <3>3. CASE pc = "found"
        BY <2>2, <3>1, <3>3 DEF ResultInv, Searching, SearchInv
    <3> QED BY <1>1, <3>1, <3>2, <3>3
  <2>3. (\A b : HasResult(b)' <=> HasResult(b)) /\ (HasResult(LastBank)' <=> HasResult(LastBank))
      BY <1>1, SameSearch, SameLast
  <2>4. (InPlace' <=> InPlace) /\ \A b : Own(b)' <=> Own(b)
    <3>1. InPlace' <=> InPlace
        BY <1>1 DEF InPlace
    <3>2. UNCHANGED <<dbt, sysDbt, tested>>
        BY <1>1, <2>1
    <3>3. \A b : Own(b)' <=> Own(b)
        BY <3>2 DEF Own
    <3> QED BY <3>1, <3>3
  <2>5. ASSUME lost = 0 PROVE TakeInv' /\ HasResult(at[1])'
    <3>1. HasResult(at[1])'
        BY <2>1, <2>2, <2>3, <2>5
    <3>2. TakeInv'
        BY <2>1, <2>2, <2>3, <2>4, <2>5 DEF TakeInv
    <3> QED BY <3>1, <3>2
  <2>6. ~Searching' /\ ~FirstPass' /\ pc' # "tags"
      BY <2>1 DEF Searching, FirstPass
  <2>7. pass' = 2
      BY <1>1, <1>2
  <2> QED BY <1>1, <1>2, <1>3, <2>1, <2>5, <2>6, <2>7 DEF ResultInv
<1> QED BY <1>4, <1>5, <1>6
LEMMA OneMore == \A m \in Nat : m + 1 \in Nat /\ m + 1 # 0
OBVIOUS

\* The tables, once they are there, stay; beside them only the search for the replacements.
LEMMA ResultKept ==
    ASSUME ResultInv, UNCHANGED <<pages, formatted, tested, gubLLFMode>>,
           UNCHANGED <<dbt, sysDbt, gfDBTInitDone, gubTSblk>>,
           lost' \in {lost, lost + 1}, pc' \in {"remap", "remap done", "end"}
    PROVE  ResultInv'
<1>1. ResultPlaces' /\ lost \in Nat /\ lost' \in Nat /\ (lost' = 0 => lost = 0)
  <2>1. ResultPlaces'
      BY SameResults DEF ResultInv
  <2>2. lost \in Nat
      BY DEF ResultInv
  <2>3. CASE lost' = lost
      BY <2>1, <2>2, <2>3
  <2>4. CASE lost' = lost + 1
    <3>1. lost' \in Nat /\ lost' # 0
        BY <2>2, <2>4, OneMore
    <3> QED BY <2>1, <2>2, <3>1
  <2> QED BY <2>3, <2>4
<1>2. lost = 0 => gubTSblk' \in Nat
    BY DEF ResultInv
<1>3. \A b : Own(b)' <=> Own(b)
    BY DEF Own
<1>4. ASSUME lost = 0, gfDBTInitDone' = "RDT"
      PROVE  (formatted' => gubLLFMode' = "DEFECT") /\ \A b \in Bank : Own(b)'
  <2>1. gfDBTInitDone = "RDT"
      BY <1>4
  <2>2. (formatted => gubLLFMode = "DEFECT") /\ \A b \in Bank : Own(b)
      BY <1>4, <2>1 DEF ResultInv
  <2>3. \A b \in Bank : Own(b)'
      BY <1>3, <2>2
  <2>4. formatted' => gubLLFMode' = "DEFECT"
      BY <2>2
  <2> QED BY <2>3, <2>4
<1> QED BY <1>1, <1>2, <1>4 DEF ResultInv, Searching, FirstPass, SecondPass

\* The search for a system begins without tables of the test, and takes none.
LEMMA ResultSearch ==
    ASSUME ResultInv, BlockInfoNext, UNCHANGED <<rdtVars, writer>>
    PROVE  ResultInv'
<1> DEFINE searches == {"load", "copy", "any", "scan", "target", "bisect", "body", "state", "snap"}
<1>1. UNCHANGED <<pages, formatted, tested, gubTSblk>>
  <2>1. UNCHANGED flash
      BY DEF BlockInfoNext, llfLoadBlockInfo, FindCopy, Found, NoCopy, FindAny, NothingFound,
             llfSearchDynamicSBlock, ScanSkips, ScanReads, ScanEnds, ReadTarget, BisectDown,
             BisectUp, ReadLast, ReadBody, NoBody, TakeState, AfterRemap, ReadSnapPage, SnapPageLost
  <2> QED BY <2>1 DEF flash, rdtVars, writer
<1>2. pc \in searches \/ (pc = "remap done" /\ gfDBTInitDone = "SYSTEM")
    BY DEF BlockInfoNext, llfLoadBlockInfo, FindCopy, NoCopy, FindAny, NothingFound,
           llfSearchDynamicSBlock, ScanSkips, ScanReads, ScanEnds, ReadTarget, BisectDown,
           BisectUp, ReadLast, ReadBody, NoBody, TakeState, AfterRemap, ReadSnapPage, SnapPageLost
<1>3. gfDBTInitDone # "RDT" /\ lost \in Nat /\ (lost = 0 => gubTSblk \in Nat)
    BY <1>2 DEF ResultInv
<1>4. /\ pc' \in searches \cup {"remap", "end"} /\ gfDBTInitDone' \in {gfDBTInitDone, "SYSTEM"}
      /\ lost' \in {lost, lost + 1}
  <2>1. CASE llfLoadBlockInfo
      BY <2>1 DEF llfLoadBlockInfo
  <2>2. CASE FindCopy \/ NoCopy \/ FindAny \/ NothingFound
      BY <2>2 DEF FindCopy, Found, NoCopy, FindAny, NothingFound, Reads, Misses, TimesOut, tables
  <2>3. CASE ScanSkips \/ ScanReads \/ ScanEnds
      BY <2>3 DEF ScanSkips, ScanReads, ScanEnds, Reads, Misses, TimesOut, NoState, tables
  <2>4. CASE ReadTarget
      BY <2>4 DEF ReadTarget, Bisect, Reads, Misses, TimesOut, NoState, tables
  <2>5. CASE BisectDown \/ BisectUp \/ ReadLast
      BY <2>5 DEF BisectDown, BisectUp, ReadLast, Bisect, Reads, Misses, TimesOut, NoState, tables
  <2>6. CASE ReadBody \/ NoBody \/ TakeState \/ AfterRemap
      BY <2>6 DEF ReadBody, NoBody, TakeState, AfterRemap, StartRemap, Reads, Misses, TimesOut, tables
  <2>7. CASE ReadSnapPage \/ SnapPageLost
      BY <2>7 DEF ReadSnapPage, SnapPageLost, Reads, TimesOut, tables
  <2> QED BY <2>1, <2>2, <2>3, <2>4, <2>5, <2>6, <2>7 DEF BlockInfoNext, llfSearchDynamicSBlock
<1>5. lost' \in Nat /\ (lost' = 0 => gubTSblk' \in Nat)
  <2>1. lost' \in {lost, lost + 1} /\ gubTSblk' = gubTSblk
      BY <1>1, <1>4
  <2> QED BY <1>3, <2>1
<1>6. ResultPlaces'
    BY <1>1, SameResults DEF ResultInv
<1> QED BY <1>3, <1>4, <1>5, <1>6, ResultQuiet

\* What comes between the searches.
LEMMA ResultBetween ==
    ASSUME ResultInv,
           \/ llfInherit \/ AfterResult \/ ResultInherited \/ WithoutResult
           \/ LlfInheritRemappingTable /\ UNCHANGED <<home, infoVars, rdtVars, writer>>
    PROVE  ResultInv'
<1>1. lost \in Nat /\ ResultPlaces /\ (lost = 0 => gubTSblk \in Nat)
    BY DEF ResultInv
<1>2. CASE llfInherit
  <2>1. /\ pc = "decay" /\ pc' = "rdt" /\ dbt' = Empty /\ sysDbt' = Empty
        /\ UNCHANGED <<pages, formatted, tested, lost, gfDBTInitDone, gubTSblk>>
      BY <1>2 DEF llfInherit, flash, rdtVars, writer
  <2>2. gfDBTInitDone' # "RDT" /\ ResultPlaces'
      BY <2>1, <1>1, SameResults DEF ResultInv
  <2>3. Empty' = Empty
      BY DEF Empty, Bank
  <2>4. ~Searching' /\ ~SecondPass'
      BY <2>1 DEF Searching, SecondPass
  <2> QED BY <1>1, <2>1, <2>2, <2>3, <2>4 DEF ResultInv
<1>3. CASE AfterResult
  <2>1. pc' \in {"remap", "end"} /\ UNCHANGED <<flash, lost, tables, rdtVars, writer>>
      BY <1>3 DEF AfterResult, StartRemap
  <2>2. UNCHANGED <<pages, formatted, tested, gubLLFMode>> /\ UNCHANGED <<dbt, sysDbt, gfDBTInitDone, gubTSblk>>
      BY <2>1 DEF flash, tables, rdtVars, writer
  <2> QED BY <2>1, <2>2, ResultKept
<1>4. CASE ResultInherited
  <2>1. pc' = "end" /\ UNCHANGED <<flash, lost, tables, rdtVars, writer>>
      BY <1>4 DEF ResultInherited
  <2>2. UNCHANGED <<pages, formatted, tested, gubLLFMode>> /\ UNCHANGED <<dbt, sysDbt, gfDBTInitDone, gubTSblk>>
      BY <2>1 DEF flash, tables, rdtVars, writer
  <2> QED BY <2>1, <2>2, ResultKept
<1>5. CASE WithoutResult
  <2>1. /\ pc = "rdt fails" /\ pc' = "load"
        /\ UNCHANGED <<pages, formatted, tested, lost, gfDBTInitDone, gubTSblk>>
      BY <1>5 DEF WithoutResult, flash, tables, writer
  <2>2. gfDBTInitDone' # "RDT" /\ ResultPlaces'
      BY <2>1, <1>1, SameResults DEF ResultInv
  <2> QED BY <1>1, <2>1, <2>2, ResultQuiet
<1>6. CASE LlfInheritRemappingTable /\ UNCHANGED <<home, infoVars, rdtVars, writer>>
  <2>1. /\ pc' \in {"remap", "remap done", "end"} /\ UNCHANGED <<flash, tables, rdtVars, writer>>
        /\ lost' \in {lost, lost + 1}
    <3>1. CASE RemapRead
        BY <1>6, <3>1, <1>1 DEF RemapRead, Reads
    <3>2. CASE RemapMissed
        BY <1>6, <3>2 DEF RemapMissed, Misses, TimesOut
    <3>3. CASE RemapNotFound
        BY <1>6, <3>3 DEF RemapNotFound
    <3> QED BY <1>6, <3>1, <3>2, <3>3 DEF LlfInheritRemappingTable
  <2>2. UNCHANGED <<pages, formatted, tested, gubLLFMode>> /\ UNCHANGED <<dbt, sysDbt, gfDBTInitDone, gubTSblk>>
      BY <2>1 DEF flash, tables, rdtVars, writer
  <2> QED BY <2>1, <2>2, ResultKept
<1> QED BY <1>2, <1>3, <1>4, <1>5, <1>6

\* When every read is answered the search of a bank finds what there is to be found, so that
\* the second pass, behind the window the first has found, finds every bank's own result; and
\* a flash that was formatted has results behind its copies only.
THEOREM ResultInvariant == Spec => []ResultInv
<1>1. Init => ResultInv
  <2>1. SUFFICES ASSUME Init PROVE ResultInv
      OBVIOUS
  <2>2. PICK f \in Flashes :
          /\ tested = f.tested /\ formatted = f.formatted /\ home = f.home
          /\ pages = (IF f.formatted THEN {} ELSE TestPages(Ahead(f.tested[0].window)))
                       \cup (IF f.rests THEN TestPages(Behind(f.tested, f.tested[0].window))
                                               \cup Static(f.tested, f.tested[0].window) ELSE {})
                       \cup (IF f.home.old THEN {PageAt("dyn", OldPlace, 0)} ELSE {})
          /\ pc = IF f.formatted THEN "format" ELSE "decay"
      BY <2>1 DEF Init
  <2>3. pc \in {"format", "decay"} /\ lost = 0 /\ gfDBTInitDone = "NONE" /\ gubTSblk = 0
      BY <2>1, <2>2 DEF Init
  <2> DEFINE w == f.tested[0].window
  <2>4. w.start \in Nat /\ SblkBlks \in Nat
    <3>1. 0 \in Bank
        BY Sizes DEF Bank
    <3>2. f.tested \in [Bank -> Test]
        BY <2>2, InheritAssumption
    <3>3. w.start \in 0 .. ExtSys
        BY <3>1, <3>2 DEF Test, Window
    <3> QED BY <3>3, Sizes
  <2>5. \A p \in Ahead(w) : p[1] \in Bank /\ p[2] \in Nat
      BY Sizes DEF Ahead, Place, Blk
  <2>6. \A p \in Behind(f.tested, w) :
          p[1] \in Bank /\ p[2] \in Nat /\ p[2] >= w.start + SblkBlks
    <3> HIDE DEF w
    <3>1. TestBlocks(w) \subseteq {n \in Nat : n >= w.start + SblkBlks}
        BY <2>4, Sizes DEF TestBlocks
    <3> QED BY <3>1 DEF Behind
  <2>7. \A pg \in pages : pg.kind = "result" =>
          \/ ~f.formatted /\ pg.at \in Ahead(w)
          \/ pg.at \in Behind(f.tested, w)
    <3>1. SUFFICES ASSUME NEW pg \in pages, pg.kind = "result"
                   PROVE  \/ ~f.formatted /\ pg.at \in Ahead(w)
                          \/ pg.at \in Behind(f.tested, w)
        OBVIOUS
    <3>2. pg \notin Static(f.tested, w) /\ pg # PageAt("dyn", OldPlace, 0)
        BY <3>1 DEF Static, PageAt
    <3>3. CASE ~f.formatted /\ pg \in TestPages(Ahead(w))
        BY <3>1, <3>3 DEF TestPages, PageAt
    <3>4. CASE pg \in TestPages(Behind(f.tested, w))
        BY <3>1, <3>4 DEF TestPages, PageAt
    <3> QED BY <2>2, <3>1, <3>2, <3>3, <3>4
  <2>8. ResultPlaces
    <3> HIDE DEF w
    <3>1. tested[0].window = w
        BY <2>2 DEF w
    <3> QED BY <2>2, <2>5, <2>6, <2>7, <3>1 DEF ResultPlaces
  <2> QED BY <2>3, <2>8 DEF ResultInv, Searching, FirstPass, SecondPass
<1>2. FlashInv /\ WindowInv /\ ResultInv /\ [Next]_vars => ResultInv'
  <2>1. SUFFICES ASSUME FlashInv, WindowInv, ResultInv, [Next]_vars PROVE ResultInv'
      OBVIOUS
  <2>2. WindowInv'
      BY <2>1, WindowStep
  <2>3. CASE WriteCopy \/ BeginState \/ WriteState \/ PowerLoss \/ Decay
      BY <2>1, <2>3, ResultDrive
  <2>4. CASE \/ llfInherit \/ AfterResult \/ ResultInherited \/ WithoutResult
             \/ LlfInheritRemappingTable /\ UNCHANGED <<home, infoVars, rdtVars, writer>>
      BY <2>1, <2>4, ResultBetween
  <2>5. CASE BlockInfoNext /\ UNCHANGED <<rdtVars, writer>>
      BY <2>1, <2>5, ResultSearch
  <2>6. CASE RdtNext /\ UNCHANGED <<home, infoVars, writer>>
    <3>1. formatted' = formatted
        BY <2>6 DEF writer
    <3>2. CASE llfLoadRDTResult \/ TakeTag
        BY <2>1, <3>1, <3>2, TagKeeps
    <3>3. CASE ResultRead \/ ResultLost \/ ResultNotFound
        BY <2>1, <3>1, <3>3, SearchKeeps
    <3>4. CASE CheckTags
        BY <2>1, <2>2, <3>1, <3>4, TagsKeep
    <3>5. CASE ParseTables \/ BankNotTaken \/ StaticRead
        BY <2>1, <3>1, <3>5, TakeKeeps
    <3>6. CASE StartRebuild \/ StaticMissed \/ NoStatic \/ StaticLost
        BY <2>1, <3>1, <3>6, StaticKeeps
    <3> QED BY <2>6, <3>2, <3>3, <3>4, <3>5, <3>6
          DEF RdtNext, llfGetRDTBankResult, llfParseRDTResult
  <2>7. CASE UNCHANGED vars
    <3>1. UNCHANGED <<pages, spoiled, gubLLFMode, window>> /\ UNCHANGED <<dbt, sysDbt, tested, formatted>>
        BY <2>7 DEF vars, flash, where, tables, rdtVars, writer
    <3>2. UNCHANGED <<pc, at, page, pass, passNum, buf, lost, gfDBTInitDone, gubTSblk>>
        BY <2>7 DEF vars, tables, rdtVars, buffers
    <3>3. /\ FirstResultBlock' = FirstResultBlock /\ EndResultBlock' = EndResultBlock
          /\ \A b, y, n : Passed(b, y, n)' <=> Passed(b, y, n)
          /\ \A b : HasResult(b)' <=> HasResult(b)
          /\ HasResult(LastBank)' <=> HasResult(LastBank)
        BY <3>1, SameSearch, SameLast
    <3>4. \A b : Own(b)' <=> Own(b)
        BY <3>1 DEF Own
    <3>5. (InPlace' <=> InPlace) /\ (SeenBehind' <=> SeenBehind) /\ (ResultPlaces' <=> ResultPlaces)
        BY <3>1, <3>2 DEF InPlace, SeenBehind, ResultPlaces
    <3>6. Searching' <=> Searching
        BY <3>2 DEF Searching
    <3>7. (FirstPass' <=> FirstPass) /\ (SecondPass' <=> SecondPass)
        BY <3>2, <3>6 DEF FirstPass, SecondPass
    <3>8. SearchInv => SearchInv'
      <4>1. Passed(at[1], at[2], page)' <=> Passed(at[1], at[2], page)
          BY <3>2, <3>3
      <4>2. HasResult(at[1])' <=> HasResult(at[1])
          BY <3>2, <3>3
      <4> QED BY <3>2, <3>3, <3>5, <4>1, <4>2 DEF SearchInv
    <3>9. TakeInv => TakeInv'
        BY <3>1, <3>2, <3>3, <3>4, <3>5 DEF TakeInv
    <3>10. HasResult(at[1])' <=> HasResult(at[1])
        BY <3>2, <3>3
    <3>11. Empty' = Empty
        BY DEF Empty
    <3> QED BY <2>1, <3>1, <3>2, <3>3, <3>4, <3>5, <3>6, <3>7, <3>8, <3>9, <3>10, <3>11 DEF ResultInv
  <2> QED BY <2>1, <2>3, <2>4, <2>5, <2>6, <2>7 DEF Next
<1> QED BY <1>1, <1>2, FlashInvariant, WindowInvariant, PTL DEF Spec

\* If every read was answered and the tables are those of the test, every bank has the defects
\* its own test found, and the flash was not formatted since, or the format that asked for its
\* results is this one (llfLoadRDTResult).
THEOREM ResultsOwn == Spec => []OwnResult
<1>1. ResultInv => OwnResult
    BY DEF ResultInv, OwnResult, Inherited, Own
<1> QED BY <1>1, ResultInvariant, PTL
------------------------------------------------------------------------------
(* The drive that was formatted                                            *)

\* A format moves no copies, or leaves no result of the test; and what is read is read to be
\* inherited, not to find the defects once more.
Stays ==
    \A f \in Flashes :
        f.formatted /\ f.told =>
            f.mode = "INHERIT" /\ (f.rests => f.tested[0].window = f.home.window)

Results == \E pg \in pages : pg.kind = "result"

\* What was written is there, and the reader looks where the copies are.
DiskInv ==
    /\ formatted /\ told =>
         /\ gubLLFMode = "INHERIT" /\ window = home.window
         /\ Results => tested[0].window = home.window
    /\ buf # NoResult => Results
    /\ PageAt("dyn", OldPlace, 0) \in pages => OldPlace \in home.sys
    /\ \A i \in 1 .. written : CopyPages[i] \in pages
    /\ \A w \in 1 .. state, i \in 0 .. (SnapPages(home.real) - 1) :
         PageAt("snap", <<w, 0>>, i) \in pages

LEMMA DiskDrive ==
    ASSUME FlashInv, DiskInv, WriteCopy \/ BeginState \/ WriteState \/ PowerLoss \/ Decay
    PROVE  DiskInv'
<1>1. UNCHANGED <<formatted, told, gubLLFMode, window, buf, tested, home>>
    BY DEF WriteCopy, BeginState, WriteState, PowerLoss, Decay, where, rdtVars, buffers, writer
<1>2. home \in Home /\ written \in Nat /\ state \in Nat /\ Len(CopyPages) \in Nat
      /\ written <= Len(CopyPages) /\ state <= Len(Grown)
  <2>1. home \in Home /\ written \in 0 .. Len(CopyPages) /\ state \in 0 .. Len(Grown)
      BY HomeType DEF FlashInv
  <2>2. Len(CopyPages) \in Nat /\ Len(Grown) \in Nat
      BY <2>1, CopyKinds, Counts
  <2> QED BY <2>1, <2>2
<1>3. ~Formatted => CopyPages[written + 1].kind \notin {"result", "dyn"}
  <2>1. ~Formatted => written + 1 \in 1 .. Len(CopyPages)
      BY <1>2 DEF Formatted
  <2> QED BY <1>2, <2>1, CopyKinds
<1>4. ~IsWhole(state) => \A pg \in StatePages(state) : pg.kind = "dyn" /\ pg.at # OldPlace
  <2>1. SUFFICES ASSUME ~IsWhole(state), NEW pg \in StatePages(state)
                 PROVE  pg.kind = "dyn" /\ pg.at # OldPlace
      OBVIOUS
  <2>2. state \in Count
      BY <1>2, <2>1, Counts DEF IsWhole
  <2>3. pg.kind = "dyn" /\ pg.at \in {PairOf(state)[1], PairOf(state)[2]}
      BY <2>1, <2>2, Counts DEF StatePages, StatePage, PageAt, PairOf
  <2>4. pg.at # OldPlace
      BY <1>2, <2>2, <2>3, PairPlaces, Counts
  <2> QED BY <2>3, <2>4
<1>5. \A pg \in NextPages : pg.kind # "result" /\ pg # PageAt("dyn", OldPlace, 0)
    BY <1>3, <1>4 DEF NextPages, PageAt
<1>6. \A pg \in pages' : pg \in pages \/ (pg.kind # "result" /\ pg # PageAt("dyn", OldPlace, 0))
  <2>1. CASE WriteCopy
    <3>1. pages' = pages \cup {CopyPages[written + 1]} /\ ~Formatted
        BY <2>1 DEF WriteCopy
    <3> QED BY <1>3, <3>1 DEF PageAt
  <2>2. CASE BeginState
      BY <2>2 DEF BeginState, PageAt
  <2>3. CASE WriteState
      BY <1>4, <2>3 DEF WriteState, PageAt
  <2>4. CASE PowerLoss
      BY <1>5, <2>4 DEF PowerLoss
  <2>5. CASE Decay
      BY <2>5 DEF Decay
  <2> QED BY <2>1, <2>2, <2>3, <2>4, <2>5
<1>7. pages \subseteq pages'
    BY DEF WriteCopy, BeginState, WriteState, PowerLoss, Decay
<1>8. Results' <=> Results
    BY <1>6, <1>7 DEF Results
<1>9. CopyPages' = CopyPages /\ OldPlace' = OldPlace
    BY <1>1, SameHome
<1>10. \A i \in 1 .. written' : CopyPages[i] \in pages'
  <2>1. CASE WriteCopy
    <3>1. written' = written + 1 /\ CopyPages[written + 1] \in pages'
        BY <2>1 DEF WriteCopy
    <3>2. \A i \in 1 .. written' : i \in 1 .. written \/ i = written + 1
        BY <1>2, <3>1
    <3>3. \A i \in 1 .. written : CopyPages[i] \in pages
        BY DEF DiskInv
    <3> QED BY <1>7, <3>1, <3>2, <3>3
  <2>2. CASE BeginState \/ WriteState \/ PowerLoss \/ Decay
    <3>1. written' = written
        BY <2>2 DEF BeginState, WriteState, PowerLoss, Decay, writer
    <3> QED BY <1>7, <3>1 DEF DiskInv
  <2> QED BY <2>1, <2>2
<1>11. \A w \in 1 .. state', i \in 0 .. (SnapPages(home.real) - 1) : PageAt("snap", <<w, 0>>, i) \in pages'
  <2>1. \A w \in 1 .. state, i \in 0 .. (SnapPages(home.real) - 1) : PageAt("snap", <<w, 0>>, i) \in pages
      BY DEF DiskInv
  <2>2. CASE BeginState
    <3>1. /\ state' = state + 1
          /\ \A i \in 0 .. (SnapPages(home.real) - 1) : PageAt("snap", <<state', 0>>, i) \in pages'
        BY <2>2 DEF BeginState
    <3>2. \A w \in 1 .. state' : w \in 1 .. state \/ w = state'
        BY <1>2, <3>1
    <3> QED BY <1>7, <2>1, <3>1, <3>2
  <2>3. CASE WriteCopy \/ WriteState \/ PowerLoss \/ Decay
    <3>1. state' = state
        BY <2>3 DEF WriteCopy, WriteState, PowerLoss, Decay, writer
    <3> QED BY <1>7, <2>1, <3>1
  <2> QED BY <2>2, <2>3
<1>12. (PageAt("dyn", OldPlace, 0) \in pages)' => OldPlace \in home.sys
    BY <1>6, <1>9 DEF DiskInv
<1>13. SnapPages(home.real)' = SnapPages(home.real)
    BY <1>1 DEF SnapPages
<1> QED BY <1>1, <1>8, <1>9, <1>10, <1>11, <1>12, <1>13 DEF DiskInv

LEMMA DiskReads ==
    ASSUME FlashInv, WindowInv, DiskInv, [Next]_vars,
           ~(WriteCopy \/ BeginState \/ WriteState \/ PowerLoss \/ Decay)
    PROVE  DiskInv'
<1>1. UNCHANGED <<flash, home, tested, writer>>
    BY ReadersRead
<1>2. UNCHANGED <<pages, gubLLFMode>> /\ UNCHANGED <<formatted, told, written, state>>
    BY <1>1 DEF flash, writer
<1>3. Results' <=> Results
    BY <1>2 DEF Results
<1>4. formatted /\ told => window' = home.window
  <2>1. CASE window' \in {window, home.window}
      BY <2>1 DEF DiskInv
  <2>2. CASE buf # NoResult /\ window' = tested[buf].window
    <3>1. buf \in Bank
        BY <2>2 DEF WindowInv
    <3>2. tested[buf].window = tested[0].window
        BY <3>1, TestedWindow
    <3> QED BY <2>2, <3>2 DEF DiskInv
  <2> QED BY <2>1, <2>2, WindowMoves
<1>5. buf' # NoResult => Results
    BY WindowMoves DEF Results, DiskInv
<1>6. CopyPages' = CopyPages /\ OldPlace' = OldPlace /\ SnapPages(home.real)' = SnapPages(home.real)
    BY <1>1, SameHome DEF SnapPages
<1> QED BY <1>1, <1>2, <1>3, <1>4, <1>5, <1>6 DEF DiskInv

\* The copies, the snapshots and the old block are as the drive left them, and the reader keeps
\* to the window it was told.
THEOREM DiskInvariant == ASSUME Stays PROVE Spec => []DiskInv
<1>1. Init => DiskInv
  <2>1. SUFFICES ASSUME Init PROVE DiskInv
      OBVIOUS
  <2>2. PICK f \in Flashes :
          /\ tested = f.tested /\ formatted = f.formatted /\ home = f.home /\ told = f.told
          /\ gubLLFMode = f.mode
          /\ window = IF f.told THEN f.home.window ELSE [bank |-> 0, start |-> 0]
          /\ pages = (IF f.formatted THEN {} ELSE TestPages(Ahead(f.tested[0].window)))
                       \cup (IF f.rests THEN TestPages(Behind(f.tested, f.tested[0].window))
                                               \cup Static(f.tested, f.tested[0].window) ELSE {})
                       \cup (IF f.home.old THEN {PageAt("dyn", OldPlace, 0)} ELSE {})
      BY <2>1 DEF Init
  <2>3. written = 0 /\ state = 0 /\ buf = NoResult
      BY <2>1 DEF Init
  <2>4. \A places : \A pg \in TestPages(places) : pg.kind # "dyn"
      BY DEF TestPages, PageAt
  <2>5. \A pg \in Static(f.tested, f.tested[0].window) : pg.kind = "static"
      BY DEF Static, PageAt
  <2>6. PageAt("dyn", OldPlace, 0).kind = "dyn"
      BY DEF PageAt
  <2>7. PageAt("dyn", OldPlace, 0) \in pages => f.home.old
      BY <2>2, <2>4, <2>5, <2>6
  <2>8. f.home.old => OldPlace \in home.sys
    <3>1. f.home.old => <<0, f.home.window.start + SblkBlks + ExtRdt + Pairs>> \in f.home.sys
        BY InheritAssumption
    <3>2. home \in Home
        BY <2>2, InheritAssumption
    <3>3. OldPlace = <<0, DynBegin + Pairs>>
        BY <3>2, Blocks DEF OldPlace
    <3> QED BY <2>2, <3>1, <3>3 DEF DynBegin
  <2>9. formatted /\ told /\ Results => tested[0].window = home.window
    <3>1. SUFFICES ASSUME formatted, told, Results, ~f.rests PROVE FALSE
        BY <2>2 DEF Stays
    <3>2. pages \subseteq {PageAt("dyn", OldPlace, 0)}
        BY <2>2, <3>1
    <3> QED BY <2>6, <3>1, <3>2 DEF Results
  <2>10. formatted /\ told => gubLLFMode = "INHERIT" /\ window = home.window
      BY <2>2 DEF Stays
  <2>11. 1 .. 0 = {}
      OBVIOUS
  <2> QED BY <2>3, <2>7, <2>8, <2>9, <2>10, <2>11 DEF DiskInv
<1>2. FlashInv /\ WindowInv /\ DiskInv /\ [Next]_vars => DiskInv'
    BY DiskDrive, DiskReads
<1> QED BY <1>1, <1>2, FlashInvariant, WindowInvariant, PTL DEF Spec

\* The state of a drive that lost nothing but what the power loss tore.
ClearNow ==
    formatted /\ Formatted /\ told /\ lost = 0 /\ DOMAIN spoiled \subseteq Torn

\* A block of the drive that is not the one of its former life.
Live(p) == p \in DynPlace /\ p # OldPlace

\* The first copy is found and names the states; no state of the former life is seen; and the
\* table of replacements is, at the latest, that of the first copy.
CleanInv ==
    /\ pc = "rdt taken" => gfDBTInitDone = "RDT"
    /\ ClearNow =>
         /\ pc # "any"
         /\ pc = "copy" => at = Copy(1)
         /\ pc \in {"scan", "target", "bisect", "body"} => tag = "STATIC" /\ head = Copy(1)
         /\ pc = "scan" =>
              at \in Bank \X Nat /\ at[2] >= DynBegin /\ (found.count = 0 \/ Live(found.at))
         /\ pc = "target" => Live(at)
         /\ pc = "bisect" => at # OldPlace /\ other # OldPlace
         /\ taken \in 0 .. state
         /\ pc = "remap" =>
              gfDBTInitDone = "SYSTEM" /\ at[1] \in Nat /\ (at[1] < home.window.bank \/ at = Copy(1))
         /\ pc = "remap done" => gfDBTInitDone = "SYSTEM"
         /\ pc = "snap" => snapPage < SnapPages(home.real)
         /\ pc = "end" => ret = "ERR_OK"

\* Where the first copy is, and when its pages are written.
LEMMA FirstCopy ==
    ASSUME home \in Home
    PROVE  /\ CopyNum \in Nat /\ Copy(1) = <<home.window.bank, home.window.start>>
           /\ home.window.bank \in Bank /\ home.window.start \in Nat
           /\ 1 \in 1 .. Len(CopyPages) /\ CopyPages[1] = PageAt("head", Copy(1), 0)
           /\ CopyNum + 1 \in 1 .. Len(CopyPages)
           /\ CopyPages[CopyNum + 1] = PageAt("body", Copy(1), 0)
           /\ CopyNum + 2 \in 1 .. Len(CopyPages)
           /\ CopyPages[CopyNum + 2] = PageAt("remap", Copy(1), 0)
<1>1. home.window.bank \in Bank /\ home.window.start \in 0 .. ExtSys
    BY DEF Home, Window
<1>2. CopyBanks \in Nat /\ CopyBanks > 0
    BY <1>1, Sizes DEF CopyBanks, Bank
<1>3. CopyNum \in Nat /\ CopyNum > 0
  <2> DEFINE k == CopyBanks
  <2>1. k \in Nat /\ k > 0 /\ SblkBlks \in Nat /\ SblkBlks > 0
      BY <1>2, Sizes
  <2> HIDE DEF k
  <2>2. SblkBlks * k \in Nat /\ SblkBlks * k > 0
      BY <2>1
  <2> QED BY <2>2 DEF CopyNum, k
<1>4. Copy(1) = <<home.window.bank, home.window.start>>
  <2>1. (1 - 1) \div SblkBlks = 0 /\ (1 - 1) % SblkBlks = 0
      BY Sizes
  <2>2. home.window.bank + 0 = home.window.bank /\ home.window.start + 0 = home.window.start
      BY <1>1, Sizes DEF Bank
  <2> QED BY <2>1, <2>2 DEF Copy
<1> DEFINE n == CopyNum
<1>5. n \in Nat /\ n > 0
    BY <1>3
<1>6. Len(CopyPages) = 3 * n
    BY <1>3 DEF CopyPages
<1>7. \A i \in 1 .. (3 * n) :
        CopyPages[i] = IF i <= n THEN PageAt("head", Copy(i), 0)
                       ELSE PageAt(IF (i - n) % 2 = 1 THEN "body" ELSE "remap",
                                   Copy((i - n + 1) \div 2), 0)
    BY DEF CopyPages
<1> HIDE DEF n
<1>8. 1 \in 1 .. (3 * n) /\ n + 1 \in 1 .. (3 * n) /\ n + 2 \in 1 .. (3 * n)
    BY <1>5
<1>9. CopyPages[1] = PageAt("head", Copy(1), 0)
    BY <1>5, <1>7, <1>8
<1>10. CopyPages[n + 1] = PageAt("body", Copy(1), 0)
  <2>1. PICK i \in 1 .. (3 * n) : i = n + 1
      BY <1>8
  <2>2. ~(i <= n) /\ (i - n) % 2 = 1 /\ (i - n + 1) \div 2 = 1
      BY <1>5, <2>1
  <2>3. CopyPages[i] = PageAt("body", Copy(1), 0)
      BY <1>7, <2>2, Zenon
  <2> QED BY <2>1, <2>3
<1>11. CopyPages[n + 2] = PageAt("remap", Copy(1), 0)
  <2>1. PICK i \in 1 .. (3 * n) : i = n + 2
      BY <1>8
  <2>2. ~(i <= n) /\ (i - n) % 2 # 1 /\ (i - n + 1) \div 2 = 1
      BY <1>5, <2>1
  <2>3. CopyPages[i] = PageAt("remap", Copy(1), 0)
      BY <1>7, <2>2, Zenon
  <2> QED BY <2>1, <2>3
<1> QED BY <1>1, <1>3, <1>4, <1>6, <1>8, <1>9, <1>10, <1>11, Sizes DEF n

\* Then all pages but those of the newest state can be read.
LEMMA ClearRead ==
    ASSUME FlashInv, ClearNow, NEW pg \in pages, pg.kind # "dyn"
    PROVE  Quality(pg) = "good" /\ Readable(pg) /\ llfReadRetry(pg) /\ llfReadSBlock(pg)
<1>1. pg \notin Torn
    BY DEF ClearNow, Torn, Formatted, StatePages, StatePage, PageAt
<1> QED BY <1>1 DEF ClearNow, Quality, Readable, llfReadRetry, llfReadSBlock

LEMMA CopyRead ==
    ASSUME FlashInv, DiskInv, ClearNow
    PROVE  /\ IsCopy(Copy(1)) /\ FirstPage(Copy(1)).kind = "head"
           /\ Readable(PageAt("body", Copy(1), 0))
           /\ llfReadRetry(PageAt("remap", Copy(1), 0))
<1>1. home \in Home /\ written = Len(CopyPages)
    BY HomeType DEF FlashInv, ClearNow, Formatted
<1>2. \A i \in 1 .. Len(CopyPages) : CopyPages[i] \in pages
    BY <1>1 DEF DiskInv
<1>3. /\ PageAt("head", Copy(1), 0) \in pages /\ PageAt("body", Copy(1), 0) \in pages
      /\ PageAt("remap", Copy(1), 0) \in pages
    BY <1>1, <1>2, FirstCopy
<1>4. \A kind \in {"head", "body", "remap"} : PageAt(kind, Copy(1), 0).kind = kind
    BY DEF PageAt
<1>5. FirstPage(Copy(1)) = PageAt("head", Copy(1), 0)
    BY <1>3 DEF FirstPage
<1>6. IsCopy(Copy(1))
    BY <1>3, <1>4, <1>5, ClearRead DEF IsCopy
<1> QED BY <1>3, <1>4, <1>5, <1>6, ClearRead

\* A state read in a block of the drive is one of this life.
LEMMA LiveCount ==
    ASSUME FlashInv, NEW p, p # OldPlace, NEW n, PageAt("dyn", p, n) \in pages
    PROVE  WriteCount(PageAt("dyn", p, n)) \in 1 .. state
<1> DEFINE pg == PageAt("dyn", p, n)
<1>1. pg \in pages /\ pg.kind = "dyn" /\ pg.at = p
    BY DEF PageAt
<1>2. pg # PageAt("dyn", OldPlace, 0)
    BY DEF PageAt
<1> HIDE DEF pg
<1>3. PICK w \in 1 .. state : pg \in StatePages(w)
    BY <1>1, <1>2 DEF FlashInv, Known
<1>4. w \in Count
    BY <1>3, NewestType
<1> QED BY <1>3, <1>4, CountOf DEF pg

LEMMA IsWritten ==
    ASSUME NEW pg, llfReadSBlock(pg) \/ llfReadRetry(pg) \/ Readable(pg)
    PROVE  pg \in pages
BY DEF llfReadSBlock, llfReadRetry, Readable, Quality
LEMMA ClearSame ==
    ASSUME UNCHANGED <<flash, home, writer>>, lost \in Nat, lost' \in {lost, lost + 1}
    PROVE  /\ ClearNow' => ClearNow /\ lost' = lost /\ state' = state
           /\ Copy(1)' = Copy(1) /\ OldPlace' = OldPlace /\ DynBegin' = DynBegin
           /\ \A p : Live(p)' <=> Live(p)
           /\ SnapPages(home.real)' = SnapPages(home.real)
<1>1. UNCHANGED <<spoiled, formatted, told, written, state>> /\ home' = home
    BY DEF flash, writer
<1>2. CopyPages' = CopyPages /\ \A w \in Nat : StatePages(w)' = StatePages(w)
    BY <1>1, SameHome
<1>3. StatePages(state)' = StatePages(state)
    BY <1>1 DEF StatePages, StatePage, Primary, Backup, PairBlock, DynBegin
<1>4. Torn' = Torn /\ (Formatted' <=> Formatted)
    BY <1>1, <1>2, <1>3 DEF Torn, Formatted
<1>5. lost' = 0 => lost = 0
    BY OneMore
<1>6. OldPlace' = OldPlace /\ DynBegin' = DynBegin /\ DynPlace' = DynPlace
    BY <1>1, SamePlaces
<1>7. Copy(1)' = Copy(1)
    BY <1>1 DEF Copy
<1>8. SnapPages(home.real)' = SnapPages(home.real)
    BY <1>1 DEF SnapPages
<1> QED BY <1>1, <1>4, <1>5, <1>6, <1>7, <1>8 DEF ClearNow, Live

\* A read that was answered did not miss what can be read.
LEMMA NotMissed ==
    ASSUME lost \in Nat, lost' = lost, NEW readable, readable
    PROVE  ~Misses(readable) /\ ~TimesOut
<1>1. lost + 1 # lost
    OBVIOUS
<1>2. ~TimesOut
    BY <1>1 DEF TimesOut
<1> QED BY <1>2 DEF Misses

LEMMA CleanQuiet ==
    ASSUME pc' \notin {"any", "copy", "scan", "target", "bisect", "body", "remap", "remap done",
                       "snap", "end"},
           pc' = "rdt taken" => gfDBTInitDone' = "RDT", taken' \in 0 .. state'
    PROVE  CleanInv'
BY DEF CleanInv

\* Before the copy is looked for: with the tables of the test the flash is none to be inherited.
LEMMA CleanOther ==
    ASSUME FlashInv, SnapInv, ResultInv, DiskInv, CleanInv,
           \/ WriteCopy \/ BeginState \/ WriteState \/ PowerLoss \/ Decay
           \/ llfInherit \/ AfterResult \/ ResultInherited \/ WithoutResult
           \/ RdtNext /\ UNCHANGED <<home, infoVars, writer>>
    PROVE  CleanInv'
<1> USE DEF infoVars, search, tables
<1> DEFINE early == {"format", "decay", "rdt", "result", "found", "not found", "tags", "static",
                     "rdt taken", "rdt fails"}
<1>1. (pc \in early => taken = 0) /\ state \in Nat
  <2>1. pc \in early => taken = 0
      BY DEF SnapInv
  <2>2. state \in Nat
      BY NewestType
  <2> QED BY <2>1, <2>2
<1>2. CASE WriteCopy \/ BeginState \/ WriteState \/ PowerLoss \/ Decay
  <2>1. pc \in early /\ pc' \in {"format", "decay"} /\ taken' = taken
        /\ state' \in {state, state + 1}
      BY <1>2 DEF WriteCopy, BeginState, WriteState, PowerLoss, Decay, writer
  <2>2. taken' = 0 /\ state' \in Nat
      BY <1>1, <2>1, OneMore
  <2>3. taken' \in 0 .. state'
      BY <2>2
  <2> QED BY <2>1, <2>3, CleanQuiet
<1>3. CASE llfInherit \/ WithoutResult
  <2>1. pc \in early /\ pc' \in {"rdt", "load"} /\ taken' = taken /\ state' = state
      BY <1>3 DEF llfInherit, WithoutResult, writer
  <2>2. taken' = 0 /\ state' \in Nat
      BY <1>1, <2>1, OneMore
  <2>3. taken' \in 0 .. state'
      BY <2>2
  <2> QED BY <2>1, <2>3, CleanQuiet
<1>4. CASE AfterResult \/ ResultInherited
  <2>1. /\ gfDBTInitDone = "RDT" /\ pc' \in {"remap", "end"}
        /\ UNCHANGED <<lost, gubLLFMode, formatted, told>>
      BY <1>4 DEF AfterResult, ResultInherited, StartRemap, CleanInv, flash, writer
  <2>2. lost = 0 => ~(formatted /\ told)
      BY <2>1 DEF ResultInv, DiskInv
  <2>3. ~ClearNow'
      BY <2>1, <2>2 DEF ClearNow
  <2> QED BY <2>1, <2>3 DEF CleanInv
<1>5. CASE RdtNext /\ UNCHANGED <<home, infoVars, writer>>
  <2>1. /\ pc \in early /\ pc' \in early \cup {"halt"}
        /\ pc' = "rdt taken" => gfDBTInitDone' = "RDT"
    <3>1. CASE ResultRead \/ ResultLost
      <4>1. pc' \in {"not found", "found", pc}
          BY <3>1 DEF ResultRead, ResultLost, NextPage
      <4> QED BY <3>1, <4>1 DEF ResultRead, ResultLost
    <3>2. CASE ParseTables \/ BankNotTaken \/ StaticRead
      <4>1. PICK passed : AfterBank(passed)
          BY <3>2 DEF ParseTables, BankNotTaken, StaticRead
      <4> QED BY <3>2, <4>1 DEF AfterBank, ParseTables, BankNotTaken, StaticRead
    <3>3. CASE StaticLost
      <4>1. pc = "static"
          BY <3>3 DEF StaticLost
      <4>2. CASE \E passed : AfterBank(passed)
          BY <4>1, <4>2 DEF AfterBank
      <4>3. CASE UNCHANGED <<pc, tables>>
          BY <4>1, <4>3
      <4> QED BY <3>3, <4>2, <4>3 DEF StaticLost
    <3>4. CASE \/ llfLoadRDTResult \/ ResultNotFound \/ TakeTag \/ CheckTags
               \/ StartRebuild \/ StaticMissed \/ NoStatic
        BY <3>4 DEF llfLoadRDTResult, ResultNotFound, TakeTag, CheckTags, StartRebuild,
                    StaticMissed, NoStatic
    <3> QED BY <1>5, <3>1, <3>2, <3>3, <3>4 DEF RdtNext, llfGetRDTBankResult, llfParseRDTResult
  <2>2. taken' = taken /\ state' = state
      BY <1>5 DEF writer
  <2>3. taken' = 0 /\ state' \in Nat
      BY <1>1, <2>1, <2>2
  <2>4. taken' \in 0 .. state'
      BY <2>3
  <2> QED BY <2>1, <2>4, CleanQuiet
<1> QED BY <1>2, <1>3, <1>4, <1>5

\* The first place in the window has a copy, and the copy can be read.
LEMMA CleanFirst ==
    ASSUME FlashInv, NewestInv, DiskInv, CleanInv, UNCHANGED <<flash, home, writer>>,
           llfLoadBlockInfo \/ FindCopy \/ NoCopy \/ FindAny \/ NothingFound
    PROVE  CleanInv'
<1> USE DEF infoVars, search, tables, where
<1>1. lost \in Nat /\ lost' \in {lost, lost + 1} /\ (pc' # "rdt taken")
  <2>1. lost \in Nat
      BY DEF NewestInv
  <2> QED BY <2>1 DEF llfLoadBlockInfo, FindCopy, Found, NoCopy, FindAny, NothingFound, Reads,
                      Misses, TimesOut, CleanInv
<1>2. SUFFICES ASSUME ClearNow' PROVE CleanInv'
    BY <1>1 DEF CleanInv
<1>3. ClearNow /\ lost' = lost /\ state' = state /\ Copy(1)' = Copy(1) /\ home' = home
    BY <1>1, <1>2, ClearSame
<1>4. home \in Home /\ window = home.window /\ taken \in 0 .. state
    BY <1>3, HomeType DEF FlashInv, ClearNow, DiskInv, CleanInv
<1>5. Copy(1) = <<window.bank, window.start>> /\ window.bank \in Bank
    BY <1>4, FirstCopy
<1>6. CASE llfLoadBlockInfo
  <2>1. pc' = "copy" /\ at' = <<window.bank, window.start>> /\ taken' = taken
      BY <1>6 DEF llfLoadBlockInfo
  <2> QED BY <1>1, <1>3, <1>4, <1>5, <2>1 DEF CleanInv
<1>7. CASE FindCopy
  <2>1. pc = "copy" /\ at = Copy(1) /\ IsCopy(at)
    <3>1. pc = "copy"
        BY <1>7 DEF FindCopy
    <3>2. at = Copy(1)
        BY <1>3, <3>1 DEF CleanInv
    <3> QED BY <1>3, <3>1, <3>2, CopyRead
  <2>2. Found("STATIC")
    <3>1. ~Misses(IsCopy(at))
        BY <1>1, <1>3, <2>1, NotMissed
    <3> QED BY <1>7, <3>1 DEF FindCopy
  <2>3. /\ pc' = "scan" /\ tag' = "STATIC" /\ head' = at /\ at' = <<0, DynBegin>>
        /\ found' = found /\ taken' = taken
      BY <2>2 DEF Found, FirstDynamic
  <2>4. found.count = 0
      BY <2>1 DEF NewestInv
  <2>5. DynBegin \in Nat /\ 0 \in Bank
      BY <1>4, Blocks, Sizes DEF Bank
  <2>6. at' \in Bank \X Nat /\ at'[2] >= DynBegin /\ DynBegin' = DynBegin
      BY <1>1, <2>3, <2>5, ClearSame
  <2> QED BY <1>1, <1>3, <1>4, <2>1, <2>3, <2>4, <2>6 DEF CleanInv
<1>8. CASE NoCopy
  <2>1. at = Copy(1) /\ at[1] = window.bank + SysBanks
      BY <1>3, <1>8 DEF NoCopy, CleanInv
  <2>2. window.bank = window.bank + SysBanks
      BY <1>5, <2>1
  <2> QED BY <1>5, <2>2, Sizes DEF Bank
<1>9. CASE FindAny \/ NothingFound
    BY <1>3, <1>9 DEF FindAny, NothingFound, CleanInv
<1> QED BY <1>6, <1>7, <1>8, <1>9
\* The scan passes over the block of the former life.
LEMMA CleanScan ==
    ASSUME FlashInv, WindowInv, NewestInv, DiskInv, CleanInv, UNCHANGED <<flash, home, writer>>,
           ScanSkips \/ ScanReads \/ ScanEnds
    PROVE  CleanInv'
<1> USE DEF infoVars, search, tables, where
<1>1. /\ lost \in Nat /\ lost' \in {lost, lost + 1} /\ pc = "scan"
      /\ pc' \in {"scan", "target", "body"} /\ UNCHANGED <<tag, head, taken>>
  <2>1. lost \in Nat
      BY DEF NewestInv
  <2> QED BY <2>1 DEF ScanSkips, ScanReads, ScanEnds, Reads, Misses, TimesOut, NoState
<1>2. SUFFICES ASSUME ClearNow' PROVE CleanInv'
    BY <1>1 DEF CleanInv
<1>3. /\ ClearNow /\ lost' = lost /\ state' = state /\ Copy(1)' = Copy(1) /\ DynBegin' = DynBegin
      /\ \A p : Live(p)' <=> Live(p)
    BY <1>1, <1>2, ClearSame
<1>4. /\ tag = "STATIC" /\ head = Copy(1) /\ taken \in 0 .. state
      /\ at \in Bank \X Nat /\ at[2] >= DynBegin /\ (found.count = 0 \/ Live(found.at))
    BY <1>1, <1>3 DEF CleanInv
<1>5. CASE ScanSkips \/ ScanReads
  <2>1. pc' = "scan" /\ at' = NextByBlock(at) /\ at[2] < DynEnd
      BY <1>1, <1>5 DEF ScanSkips, ScanReads
  <2>2. at' \in Bank \X Nat /\ at'[2] \in {at[2], at[2] + 1}
      BY <1>4, <2>1, NextPlace
  <2>3. DynBegin \in Nat
      BY HomeType, Blocks DEF FlashInv
  <2>4. at'[2] >= DynBegin
    <3> DEFINE x == at[2]
    <3>1. x \in Nat /\ x >= DynBegin
        BY <1>4
    <3> HIDE DEF x
    <3>2. x + 1 >= DynBegin
        BY <2>3, <3>1
    <3> QED BY <2>2, <3>1, <3>2 DEF x
  <2>5. found'.count = 0 \/ Live(found'.at)
    <3>1. CASE found' = found
        BY <1>4, <3>1
    <3>2. CASE found' # found
      <4>1. /\ at \notin KnownDefects /\ llfReadSBlock(FirstPage(at))
            /\ found'.at = at
          BY <1>5, <3>2 DEF ScanSkips, ScanReads, Reads
      <4>2. at \in DynPlace
          BY <1>4, <2>1 DEF DynPlace
      <4>3. KnownDefects = home.sys
          BY <1>3, <1>4, CopyRead DEF KnownDefects
      <4>4. PageAt("dyn", at, 0) \in pages
          BY <4>1, <4>2, DynRead, IsWritten
      <4>5. at # OldPlace
          BY <4>1, <4>3, <4>4 DEF DiskInv
      <4> QED BY <4>1, <4>2, <4>5 DEF Live
    <3> QED BY <3>1, <3>2
  <2> QED BY <1>1, <1>3, <1>4, <2>1, <2>2, <2>4, <2>5 DEF CleanInv
<1>6. CASE ScanEnds
  <2>1. \/ pc' = "body" /\ found.count = 0
        \/ pc' = "target" /\ at' = found.at /\ found.count # 0
      BY <1>6 DEF ScanEnds, NoState
  <2>2. pc' = "target" => Live(at')
      BY <1>4, <2>1
  <2>3. pc' = "target" => Live(at)'
      BY <1>3, <2>2 DEF Live
  <2> QED BY <1>1, <1>3, <1>4, <2>1, <2>3 DEF CleanInv
<1> QED BY <1>1, <1>5, <1>6

\* The pair that is bisected is one of this life, and so is the state that is taken.
LEMMA CleanBisect ==
    ASSUME FlashInv, WindowInv, NewestInv, DiskInv, CleanInv, UNCHANGED <<flash, home, writer>>,
           ReadTarget \/ BisectDown \/ BisectUp \/ ReadLast
    PROVE  CleanInv'
<1> USE DEF infoVars, search, tables, where
<1>1. /\ lost \in Nat /\ lost' \in {lost, lost + 1} /\ pc \in {"target", "bisect"}
      /\ pc' \in {"bisect", "body", "state"} /\ UNCHANGED <<tag, head>>
  <2>1. lost \in Nat
      BY DEF NewestInv
  <2>2. CASE ReadTarget
      BY <2>1, <2>2 DEF ReadTarget, Bisect, Reads, Misses, TimesOut, NoState
  <2>3. CASE BisectDown \/ BisectUp
      BY <2>1, <2>3 DEF BisectDown, BisectUp, Reads, Misses, TimesOut, NoState
  <2>4. CASE ReadLast
      BY <2>1, <2>4 DEF ReadLast, Bisect, Reads, Misses, TimesOut, NoState
  <2> QED BY <2>2, <2>3, <2>4
<1>2. SUFFICES ASSUME ClearNow' PROVE CleanInv'
    BY <1>1 DEF CleanInv
<1>3. ClearNow /\ lost' = lost /\ state' = state /\ Copy(1)' = Copy(1) /\ OldPlace' = OldPlace
    BY <1>1, <1>2, ClearSame
<1>4. tag = "STATIC" /\ head = Copy(1) /\ taken \in 0 .. state
    BY <1>1, <1>3 DEF CleanInv
<1>5. home \in Home /\ state \in Nat
    BY HomeType, NewestType DEF FlashInv
<1>6. taken' \in 0 .. state /\ (pc' = "bisect" => at' # OldPlace /\ other' # OldPlace)
  <2>1. CASE ReadTarget
    <3>1. pc = "target" /\ taken' = taken
        BY <2>1 DEF ReadTarget
    <3>2. Live(at)
        BY <1>3, <3>1 DEF CleanInv
    <3>3. ASSUME pc' = "bisect" PROVE at' # OldPlace /\ other' # OldPlace
      <4> DEFINE c == WriteCount(FirstPage(at))
      <4>1. llfReadSBlock(FirstPage(at)) /\ at' = PairOf(c)[1] /\ other' = PairOf(c)[2]
          BY <2>1, <3>3 DEF ReadTarget, Reads, NoState, Bisect
      <4>2. FirstPage(at) = PageAt("dyn", at, 0) /\ at # OldPlace
          BY <3>2, DynRead DEF Live
      <4>3. c \in Count
          BY <4>1, <4>2, NewestType, IsWritten, LiveCount
      <4> HIDE DEF c
      <4> QED BY <1>5, <4>1, <4>3, PairPlaces, Counts
    <3> QED BY <1>4, <3>1, <3>3
  <2>2. CASE BisectDown \/ BisectUp
    <3>1. pc = "bisect" /\ UNCHANGED <<taken, other>> /\ (pc' = "bisect" => at' = at)
        BY <2>2 DEF BisectDown, BisectUp, NoState
    <3> QED BY <1>3, <1>4, <3>1 DEF CleanInv
  <2>3. CASE ReadLast
    <3>1. at # OldPlace /\ other # OldPlace
        BY <1>3, <2>3 DEF CleanInv, ReadLast
    <3>2. NoPlace # OldPlace
        BY Sizes DEF NoPlace, OldPlace
    <3>3. CASE llfReadSBlock(LastPage) /\ taken' = WriteCount(LastPage) /\ pc' = "state"
      <4>1. WriteCount(LastPage) \in 1 .. state
          BY <3>1, <3>3, IsWritten, LiveCount DEF LastPage
      <4> QED BY <1>5, <3>3, <4>1
    <3>4. CASE Bisect(other) /\ other' = NoPlace /\ taken' = taken
        BY <1>4, <3>1, <3>2, <3>4 DEF Bisect
    <3>5. CASE NoState /\ taken' = taken
        BY <1>4, <3>5 DEF NoState
    <3> QED BY <2>3, <3>3, <3>4, <3>5 DEF ReadLast, Reads
  <2> QED BY <2>1, <2>2, <2>3
<1> QED BY <1>1, <1>3, <1>4, <1>6 DEF CleanInv

\* The copy has all that is left to be read.
LEMMA CleanTables ==
    ASSUME FlashInv, SnapInv, WindowInv, NewestInv, DiskInv, CleanInv,
           UNCHANGED <<flash, home, writer>>,
           ReadBody \/ NoBody \/ TakeState \/ AfterRemap
    PROVE  CleanInv'
<1> USE DEF infoVars, search, tables, where
<1>1. /\ lost \in Nat /\ lost' \in {lost, lost + 1} /\ taken' = taken
      /\ pc \in {"body", "state", "remap done"} /\ pc' \in {"remap", "end", "snap"}
  <2>1. lost \in Nat
      BY DEF NewestInv
  <2> QED BY <2>1 DEF ReadBody, NoBody, TakeState, AfterRemap, StartRemap, Reads, Misses, TimesOut
<1>2. SUFFICES ASSUME ClearNow' PROVE CleanInv'
    BY <1>1 DEF CleanInv
<1>3. /\ ClearNow /\ lost' = lost /\ state' = state /\ Copy(1)' = Copy(1) /\ home' = home
      /\ SnapPages(home.real)' = SnapPages(home.real)
    BY <1>1, <1>2, ClearSame
<1>4. home \in Home /\ window = home.window /\ gubLLFMode = "INHERIT" /\ taken \in 0 .. state
    BY <1>3, HomeType DEF FlashInv, ClearNow, DiskInv, CleanInv
<1>5. ASSUME StartRemap, gfDBTInitDone' = "SYSTEM" PROVE CleanInv'
  <2>1. pc' = "remap" /\ at' = <<0, window.start>>
      BY <1>4, <1>5 DEF StartRemap, RemapFirst
  <2>2. 0 < home.window.bank \/ at' = Copy(1)
      BY <1>4, <2>1, FirstCopy, Sizes DEF Bank
  <2> QED BY <1>1, <1>3, <1>4, <1>5, <2>1, <2>2 DEF CleanInv
<1>6. CASE ReadBody \/ TakeState
    BY <1>5, <1>6 DEF ReadBody, TakeState
<1>7. CASE NoBody
  <2>1. tag = "STATIC" /\ head = Copy(1)
      BY <1>3, <1>7 DEF NoBody, CleanInv
  <2>2. Readable(Body)
      BY <1>3, <2>1, CopyRead DEF Body
  <2> QED BY <1>1, <1>3, <1>7, <2>1, <2>2, NotMissed DEF NoBody
<1>8. CASE AfterRemap
  <2>1. \/ pc' = "end" /\ ret' = "ERR_OK"
        \/ pc' = "snap" /\ snapPage' = 0
      BY <1>8 DEF AfterRemap
  <2>2. SnapPages(home.real) > 0
    <3>1. home.real \in Nat /\ home.real > 0
      <4>1. PICK f \in Flashes : home = f.home
          BY DEF FlashInv, Given
      <4>2. home.real > 0
          BY <4>1, InheritAssumption
      <4>3. home.real \in Nat
          BY <1>4, Sizes DEF Home, Mp
      <4> QED BY <4>2, <4>3
    <3>2. SnapPages(home.real) \in Nat /\ PerPage * SnapPages(home.real) >= home.real
        BY <3>1, Whole
    <3>3. PerPage * 0 = 0
        BY BlockInfoAssumption
    <3> QED BY <3>1, <3>2, <3>3
  <2> QED BY <1>1, <1>3, <1>4, <2>1, <2>2 DEF CleanInv
<1> QED BY <1>6, <1>7, <1>8

\* The banks before the copies may have no table; the first copy has one.
LEMMA CleanRemap ==
    ASSUME FlashInv, NewestInv, DiskInv, CleanInv, UNCHANGED <<flash, home, writer>>,
           LlfInheritRemappingTable, UNCHANGED infoVars
    PROVE  CleanInv'
<1> USE DEF infoVars, search, tables, where
<1>1. /\ lost \in Nat /\ lost' \in {lost, lost + 1} /\ UNCHANGED <<taken, gfDBTInitDone>>
      /\ pc = "remap" /\ pc' \in {"remap", "remap done", "end"}
  <2>1. lost \in Nat
      BY DEF NewestInv
  <2> QED BY <2>1 DEF LlfInheritRemappingTable, RemapRead, RemapMissed, RemapNotFound, Reads,
                      Misses, TimesOut
<1>2. SUFFICES ASSUME ClearNow' PROVE CleanInv'
    BY <1>1 DEF CleanInv
<1>3. ClearNow /\ lost' = lost /\ state' = state /\ Copy(1)' = Copy(1) /\ home' = home
    BY <1>1, <1>2, ClearSame
<1>4. home \in Home /\ window = home.window /\ gubLLFMode = "INHERIT" /\ taken \in 0 .. state
    BY <1>3, HomeType DEF FlashInv, ClearNow, DiskInv, CleanInv
<1>5. gfDBTInitDone = "SYSTEM" /\ at[1] \in Nat /\ (at[1] < home.window.bank \/ at = Copy(1))
    BY <1>1, <1>3 DEF CleanInv
<1>6. Copy(1) = <<home.window.bank, home.window.start>> /\ home.window.bank \in Bank
    BY <1>4, FirstCopy
<1>7. CASE RemapRead
  <2>1. pc' = "remap done"
      BY <1>7 DEF RemapRead
  <2> QED BY <1>1, <1>3, <1>4, <1>5, <2>1 DEF CleanInv
<1>8. CASE RemapMissed
  <2>1. pc' = "remap" /\ at' = NextByBank(at, RemapFirst, RemapEnd) /\ Misses(llfReadRetry(RemapPage))
      BY <1>1, <1>8 DEF RemapMissed
  <2>2. at # Copy(1)
    <3>1. SUFFICES ASSUME at = Copy(1) PROVE FALSE
        OBVIOUS
    <3>2. RemapPage = PageAt("remap", Copy(1), 0)
        BY <1>5, <3>1 DEF RemapPage
    <3>3. llfReadRetry(RemapPage)
        BY <1>3, <3>2, CopyRead
    <3> QED BY <1>1, <1>3, <2>1, <3>3, NotMissed
  <2>3. RemapFirst = home.window.start
      BY <1>4 DEF RemapFirst
  <2>4. at'[1] \in Nat /\ (at'[1] < home.window.bank \/ at' = Copy(1))
    <3> DEFINE x == at[1]
               b == home.window.bank
    <3>1. x \in Nat /\ x < b /\ b \in Nat
        BY <1>5, <1>6, <2>2, Sizes DEF Bank
    <3>2. at' = <<x, at[2] + 1>> \/ at' = <<x + 1, home.window.start>>
        BY <2>1, <2>3 DEF NextByBank
    <3> HIDE DEF x, b
    <3>3. x + 1 \in Nat /\ (x + 1 < b \/ x + 1 = b)
        BY <3>1
    <3>4. Copy(1) = <<b, home.window.start>>
        BY <1>6 DEF b
    <3>5. at'[1] \in Nat /\ (at'[1] < b \/ at' = Copy(1))
        BY <3>1, <3>2, <3>3, <3>4
    <3> QED BY <3>5 DEF b
  <2> QED BY <1>1, <1>3, <1>4, <1>5, <2>1, <2>4 DEF CleanInv
<1>9. CASE RemapNotFound
  <2>1. at[1] = BankNum
      BY <1>9 DEF RemapNotFound
  <2>2. at[1] <= home.window.bank
      BY <1>5, <1>6, Sizes DEF Bank
  <2> QED BY <1>6, <2>1, <2>2, Sizes DEF Bank
<1> QED BY <1>7, <1>8, <1>9 DEF LlfInheritRemappingTable

\* The snapshot of the state is whole.
LEMMA CleanSnap ==
    ASSUME FlashInv, SnapInv, NewestInv, DiskInv, CleanInv, UNCHANGED <<flash, home, writer>>,
           ReadSnapPage \/ SnapPageLost
    PROVE  CleanInv'
<1> USE DEF infoVars, search, tables, where
<1>1. /\ lost \in Nat /\ lost' \in {lost, lost + 1} /\ taken' = taken
      /\ pc = "snap" /\ pc' \in {"snap", "end"}
  <2>1. lost \in Nat
      BY DEF NewestInv
  <2> QED BY <2>1 DEF ReadSnapPage, SnapPageLost, Reads, TimesOut
<1>2. SUFFICES ASSUME ClearNow' PROVE CleanInv'
    BY <1>1 DEF CleanInv
<1>3. ClearNow /\ lost' = lost /\ state' = state /\ SnapPages(home.real)' = SnapPages(home.real)
    BY <1>1, <1>2, ClearSame
<1>4. snapPage \in Nat /\ guwRealMPBlkNum = home.real /\ taken # 0
    BY <1>1 DEF SnapInv
<1>5. snapPage < SnapPages(home.real) /\ SnapPages(home.real) \in Nat /\ taken \in 0 .. state
  <2>1. home.real \in Nat
      BY HomeType, Sizes DEF FlashInv, Home, Mp
  <2> QED BY <1>1, <1>3, <2>1, Whole DEF CleanInv
<1>6. CASE ReadSnapPage
  <2>1. CASE IsLast
    <3>1. pc' = "end" /\ ret' = "ERR_OK"
        BY <1>6, <2>1 DEF ReadSnapPage
    <3> QED BY <1>1, <1>3, <1>5, <3>1 DEF CleanInv
  <2>2. CASE ~IsLast
    <3>1. pc' = "snap" /\ snapPage' = snapPage + 1 /\ snapPage + 1 # SnapPages(home.real)
        BY <1>1, <1>4, <1>6, <2>2 DEF ReadSnapPage, IsLast
    <3>2. snapPage' < SnapPages(home.real)
        BY <1>4, <1>5, <3>1
    <3> QED BY <1>1, <1>3, <1>5, <3>1, <3>2 DEF CleanInv
  <2> QED BY <2>1, <2>2
<1>7. CASE SnapPageLost
  <2>1. taken \in 1 .. state
      BY <1>4, <1>5, NewestType
  <2>2. SnapPage \in pages
    <3>1. snapPage \in 0 .. (SnapPages(home.real) - 1)
        BY <1>4, <1>5
    <3> QED BY <2>1, <3>1 DEF DiskInv, SnapPage
  <2>3. llfReadRetry(SnapPage)
    <3>1. SnapPage.kind = "snap"
        BY DEF SnapPage, PageAt
    <3> QED BY <1>3, <2>2, <3>1, ClearRead
  <2> QED BY <1>1, <1>3, <1>7, <2>3, NotMissed DEF SnapPageLost
<1> QED BY <1>6, <1>7

\* Under the power alone every read of the search ends where the drive's own copies and states
\* are, the last of them the first copy.
THEOREM CleanInvariant == ASSUME Stays PROVE Spec => []CleanInv
<1>1. Init => CleanInv
  <2>1. SUFFICES ASSUME Init PROVE CleanInv
      OBVIOUS
  <2>2. pc \in {"format", "decay"} /\ taken = 0 /\ state = 0
      BY <2>1 DEF Init
  <2>3. taken \in 0 .. state
      BY <2>2
  <2> QED BY <2>2, <2>3 DEF CleanInv
<1> DEFINE Inv == FlashInv /\ SnapInv /\ WindowInv /\ NewestInv /\ ResultInv /\ DiskInv
<1>2. Inv /\ CleanInv /\ [Next]_vars => CleanInv'
  <2>1. SUFFICES ASSUME Inv, CleanInv, [Next]_vars PROVE CleanInv'
      OBVIOUS
  <2>2. CASE \/ WriteCopy \/ BeginState \/ WriteState \/ PowerLoss \/ Decay
             \/ llfInherit \/ AfterResult \/ ResultInherited \/ WithoutResult
             \/ RdtNext /\ UNCHANGED <<home, infoVars, writer>>
      BY <2>1, <2>2, CleanOther
  <2>3. CASE BlockInfoNext /\ UNCHANGED <<rdtVars, writer>>
    <3>1. UNCHANGED <<flash, home, writer>>
        BY <2>3, SearchReads
    <3>2. CASE llfLoadBlockInfo \/ FindCopy \/ NoCopy \/ FindAny \/ NothingFound
        BY <2>1, <3>1, <3>2, CleanFirst
    <3>3. CASE ScanSkips \/ ScanReads \/ ScanEnds
        BY <2>1, <3>1, <3>3, CleanScan
    <3>4. CASE ReadTarget \/ BisectDown \/ BisectUp \/ ReadLast
        BY <2>1, <3>1, <3>4, CleanBisect
    <3>5. CASE ReadBody \/ NoBody \/ TakeState \/ AfterRemap
        BY <2>1, <3>1, <3>5, CleanTables
    <3>6. CASE ReadSnapPage \/ SnapPageLost
        BY <2>1, <3>1, <3>6, CleanSnap
    <3> QED BY <2>3, <3>2, <3>3, <3>4, <3>5, <3>6 DEF BlockInfoNext, llfSearchDynamicSBlock
  <2>4. CASE LlfInheritRemappingTable /\ UNCHANGED <<home, infoVars, rdtVars, writer>>
    <3>1. UNCHANGED <<flash, home, writer>>
        BY <2>4, SearchReads
    <3> QED BY <2>1, <2>4, <3>1, CleanRemap
  <2>5. CASE UNCHANGED vars
    <3>1. UNCHANGED <<flash, home, writer>> /\ lost' = lost
        BY <2>5 DEF vars
    <3>2. UNCHANGED <<pc, at, ret, tag, head, found, other, taken, snapPage, gfDBTInitDone>>
        BY <2>5 DEF vars, infoVars, search, tables
    <3>3. lost \in Nat
        BY <2>1 DEF NewestInv
    <3>4. /\ ClearNow' => ClearNow
          /\ Copy(1)' = Copy(1) /\ OldPlace' = OldPlace /\ DynBegin' = DynBegin
          /\ \A p : Live(p)' <=> Live(p)
          /\ SnapPages(home.real)' = SnapPages(home.real) /\ home' = home /\ state' = state
        BY <3>1, <3>3, ClearSame DEF writer
    <3>5. (Live(at)' <=> Live(at)) /\ (Live(found.at)' <=> Live(found.at))
        BY <3>2, <3>4
    <3> QED BY <2>1, <3>2, <3>4, <3>5 DEF CleanInv
  <2> QED BY <2>1, <2>2, <2>3, <2>4, <2>5 DEF Next
<1> QED BY <1>1, <1>2, FlashInvariant, SnapInvariant, WindowInvariant, NewestInvariant,
          ResultInvariant, DiskInvariant, PTL DEF Spec

\* Power loss alone never makes a drive that was formatted one that cannot be inherited, if the
\* loader knows where the copies are (llfLoadBlockInfo), and the copies lie where the result
\* the format left behind says (Stays).
THEOREM CleanInherited == ASSUME Stays PROVE Spec => []CleanInherits
<1>1. CleanInv => CleanInherits
    BY DEF CleanInv, CleanInherits, ClearNow
<1> QED BY <1>1, CleanInvariant, PTL
=============================================================================
