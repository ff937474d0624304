----------------------------- MODULE BlockInfo -----------------------------
(***************************************************************************)
(* llfLoadBlockInfo: the tables of a drive that was in use.                *)
(*                                                                         *)
(* A copy of the firmware names the blocks of the dynamic system blocks.   *)
(* The drive appends a page to one of them, and to its backup, for every   *)
(* state it writes, and starts a new pair when they are full.              *)
(* llfSearchDynamicSBlock takes the block whose first page has the highest *)
(* write count and looks for its last page by bisection; llfReadBlockInfo  *)
(* reads the defects from the snapshot the page names.  Without a state    *)
(* the tables are those the copy holds.                                    *)
(***************************************************************************)
EXTENDS SystemReads

CONSTANTS
    Pages,       \* NandPara.uwSLCPageNumPerBlock
    Pairs,       \* pairs of dynamic blocks the drive uses
    Grown,       \* the groups that go bad: with state w the one of Grown[w]
    PerPage,     \* entries of a snapshot page: page size / BS_INFO_SIZE
    PageLimit,   \* pages of the buffer: TEMP_BUF_SIZE / page size
    OldCount     \* write count of a state of the drive's former life

Count == 1 .. Len(Grown)
Factory == [bank : Bank, group : Mp]

ASSUME BlockInfoAssumption ==
    /\ Pages \in Nat \ {0, 1} /\ Pairs \in Nat \ {0}
    /\ Grown \in Seq(Factory) /\ Len(Grown) <= Pages * Pairs
    /\ PerPage \in Nat \ {0} /\ PageLimit \in Nat \ {0}
    \* The former life was the longer one: its block is taken for the newest where it is seen.
    /\ OldCount \in Nat /\ OldCount > Len(Grown)
    \* The flag of a program failure stands for all new banks of a group: with it the
    \* state has no mark of a bank that goes bad only later.
    /\ \A w \in 1 .. (Len(Grown) - 1) : Grown[w].group # Grown[w + 1].group

VARIABLES
    home,        \* the flash as it was formatted
    tag,         \* StaticSblkTag: how the copy was found
    head,        \* and where
    found,       \* the highest write count of a first page, and its place
    other,       \* the backup, while the primary is searched; then NoPlace
    targetWCnt,
    page_down,   \* of the bisection
    page_up,
    taken,       \* write count of the state that was taken, or 0
    snapPage     \* next page of the snapshot

search == <<tag, head, found, other, targetWCnt, page_down, page_up>>
infoVars == <<search, taken, snapPage>>

\* What a format decides: the window, the bad groups and blocks, the groups in use; in
\* which block the drive writes first; and whether a block of the former life, which
\* could not be erased, still holds a state.
Home == [ window : Window, bad : SUBSET Factory, sys : SUBSET Place, real : Mp \cup {MpNum},
          first : 0 .. (Pairs - 1), old : BOOLEAN ]

DynBegin == home.window.start + SblkBlks + ExtRdt
DynEnd == DynBegin + Pairs + 1

\* The blocks of pair k, and the place of state w.
PairBlock(k) == DynBegin + ((home.first + k) % Pairs)
Primary(w) == <<0, PairBlock((w - 1) \div Pages)>>
Backup(w) == <<BankNum - 1, PairBlock((w - 1) \div Pages)>>
StatePage(w, p) == PageAt("dyn", p, (w - 1) % Pages)
OldPlace == <<0, DynEnd - 1>>

\* What a state page holds: its count and the pair it is in.
WriteCount(pg) ==
    IF pg.at = OldPlace THEN OldCount
    ELSE CHOOSE w \in Count : \E p \in {Primary(w), Backup(w)} : StatePage(w, p) = pg
PairOf(w) == IF w = OldCount THEN <<OldPlace, OldPlace>> ELSE <<Primary(w), Backup(w)>>

\* The system blocks that are defective, as a copy or a state has them: the blocks that
\* could not be erased are not known to the former life.
SystemBlocksOf(w) == IF w = OldCount THEN {} ELSE home.sys

\* The first page of a block, if it is one of a system block.
FirstPage(p) ==
    IF PageAt("head", p, 0) \in pages THEN PageAt("head", p, 0) ELSE PageAt("dyn", p, 0)

\* The number of pages of a snapshot.
SnapPages(real) == (real + PerPage - 1) \div PerPage

\* The entry of a group in the snapshot of state w: the banks in which it is bad, and
\* the new ones, which count only with the flag of a program failure.
Entry(w, m) ==
    [ bad |-> {g.bank : g \in {g \in home.bad \cup {Grown[i] : i \in 1 .. (w - 1)} :
                                 g.group = m}},
      pf  |-> Grown[w].group = m,
      new |-> {Grown[i].bank : i \in {i \in Count : i \in {w, w + 1} /\ Grown[i].group = m}} ]

------------------------------------------------------------------------------
(* The copy of the firmware                                                *)

llfLoadBlockInfo ==
    /\ pc = "load"
    /\ dbt' = Empty /\ sysDbt' = Empty
    /\ tag' = "none" /\ head' = NoPlace /\ found' = [count |-> 0, at |-> NoPlace]
    /\ other' = NoPlace /\ targetWCnt' = 0 /\ page_down' = 0 /\ page_up' = 0
    /\ pc' = "copy" /\ at' = <<window.bank, window.start>>
    /\ UNCHANGED <<flash, home, lost, where, gfDBTInitDone, guwRealMPBlkNum, remapFrom,
                   taken, snapPage, ret>>

\* Where the copy says the states are; one that was not found in the window is taken for
\* a state, and has nothing where a state has the blocks.
FirstDynamic(how, p) ==
    at' = IF how = "STATIC" \/ FirstPage(p).kind = "dyn" THEN <<0, DynBegin>> ELSE <<0, DynEnd>>

Found(how) ==
    /\ tag' = how /\ head' = at /\ FirstDynamic(how, at) /\ pc' = "scan"
    /\ UNCHANGED <<flash, home, where, tables, remapFrom, found, other, targetWCnt, page_down,
                   page_up, taken, snapPage, ret>>

\* A copy whose tables have other sizes is passed over.
IsCopy(p) == llfReadSBlock(FirstPage(p)) /\ Quality(FirstPage(p)) # "over"

FindCopy ==
    /\ pc = "copy" /\ at[1] < window.bank + SysBanks
    /\ \/ Reads(IsCopy(at)) /\ Found("STATIC")
       \/ /\ Misses(IsCopy(at))
          /\ at' = NextByBank(at, window.start, window.start + SblkBlks)
          /\ UNCHANGED <<flash, home, where, tables, remapFrom, infoVars, pc, ret>>

NoCopy ==
    /\ pc = "copy" /\ at[1] = window.bank + SysBanks
    /\ pc' = "any" /\ at' = <<0, 0>>
    /\ UNCHANGED <<flash, home, lost, where, tables, remapFrom, infoVars, ret>>

GivenUp(p) == \/ p[2] < window.start
              \/ p[1] < window.bank /\ p[2] < window.start + SblkBlks

\* The first page of any system block.
FindAny ==
    /\ pc = "any" /\ at[2] < SysMax
    /\ \/ Reads(~GivenUp(at) /\ llfReadSBlock(FirstPage(at))) /\ Found("DYNAMIC")
       \/ /\ \/ GivenUp(at) /\ UNCHANGED lost
             \/ ~GivenUp(at) /\ Misses(llfReadSBlock(FirstPage(at)))
          /\ at' = NextByBlock(at)
          /\ UNCHANGED <<flash, home, where, tables, remapFrom, infoVars, pc, ret>>

\* llfInherit reports ERR_READ_SBLK as ERR_READ_RDT.
NothingFound ==
    /\ pc = "any" /\ at[2] = SysMax
    /\ pc' = "end" /\ ret' = "ERR_READ_RDT"
    /\ UNCHANGED <<flash, home, lost, where, tables, remapFrom, infoVars, at>>

------------------------------------------------------------------------------
(* llfSearchDynamicSBlock                                                  *)

KnownDefects ==
    LET pg == FirstPage(head)
    IN  IF pg.kind = "dyn" THEN SystemBlocksOf(WriteCount(pg)) ELSE home.sys

NoState == pc' = "body" /\ UNCHANGED at

ScanSkips ==
    /\ pc = "scan" /\ at[2] < DynEnd
    /\ \/ at \in KnownDefects /\ UNCHANGED lost
       \/ at \notin KnownDefects /\ Misses(llfReadSBlock(FirstPage(at)))
    /\ at' = NextByBlock(at)
    /\ UNCHANGED <<flash, home, where, tables, remapFrom, infoVars, pc, ret>>

ScanReads ==
    /\ pc = "scan" /\ at[2] < DynEnd /\ at \notin KnownDefects
    /\ Reads(llfReadSBlock(FirstPage(at)))
    /\ LET count == WriteCount(FirstPage(at))
       IN  found' = IF count >= found.count THEN [count |-> count, at |-> at] ELSE found
    /\ at' = NextByBlock(at)
    /\ UNCHANGED <<flash, home, where, tables, remapFrom, tag, head, other, targetWCnt,
                   page_down, page_up, taken, snapPage, pc, ret>>

ScanEnds ==
    /\ pc = "scan" /\ at[2] = DynEnd
    /\ IF found.count = 0 THEN NoState ELSE pc' = "target" /\ at' = found.at
    /\ UNCHANGED <<flash, home, lost, where, tables, remapFrom, infoVars, ret>>

\* The bisection goes over the block the page names as the primary.
Bisect_Short(p) == at' = p /\ page_down' = 0 /\ page_up' = Pages - 1 /\ pc' = "bisect"
Bisect(p) == at' = p /\ page_down' = 0 /\ page_up' = Pages /\ pc' = "bisect"

ReadTarget ==
    /\ pc = "target"
    /\ \/ /\ Misses(llfReadSBlock(FirstPage(at))) /\ NoState
          /\ UNCHANGED <<where, search>>
       \/ /\ Reads(llfReadSBlock(FirstPage(at)))
          /\ LET pair == PairOf(WriteCount(FirstPage(at)))
             IN  IF at[1] \in {pair[1][1], pair[2][1]} /\ at[2] \in {pair[1][2], pair[2][2]}
                 THEN /\ window' = home.window /\ gulSblkCHCEMap' = MapOf(home.window)
                      /\ Bisect(pair[1]) /\ other' = pair[2] /\ targetWCnt' = found.count
                      /\ UNCHANGED <<tag, head, found>>
                 ELSE NoState /\ UNCHANGED <<where, search>>
    /\ UNCHANGED <<flash, home, tables, remapFrom, taken, snapPage, ret>>

Middle == (page_up + page_down) \div 2

BisectDown ==
    /\ pc = "bisect" /\ page_up - 1 > page_down
    /\ Misses(llfReadSBlock(PageAt("dyn", at, Middle)))
    /\ page_up' = Middle
    /\ UNCHANGED <<flash, home, where, tables, remapFrom, tag, head, found, other, targetWCnt,
                   page_down, taken, snapPage, pc, at, ret>>

\* A page with a lower count than one before it is an error.
BisectUp ==
    /\ pc = "bisect" /\ page_up - 1 > page_down
    /\ Reads(llfReadSBlock(PageAt("dyn", at, Middle)))
    /\ LET count == WriteCount(PageAt("dyn", at, Middle))
       IN  IF count < targetWCnt
           THEN NoState /\ UNCHANGED <<targetWCnt, page_down>>
           ELSE targetWCnt' = count /\ page_down' = Middle /\ UNCHANGED <<pc, at>>
    /\ UNCHANGED <<flash, home, where, tables, remapFrom, tag, head, found, other, page_up,
                   taken, snapPage, ret>>

\* The page that was found is read again; when that fails the backup is searched.
LastPage == PageAt("dyn", at, page_down)

ReadLast ==
    /\ pc = "bisect" /\ page_up - 1 <= page_down
    /\ \/ /\ Reads(llfReadSBlock(LastPage))
          /\ taken' = WriteCount(LastPage) /\ pc' = "state"
          /\ UNCHANGED <<search, at>>
       \/ /\ Misses(llfReadSBlock(LastPage)) /\ other # NoPlace
          /\ Bisect(other) /\ other' = NoPlace
          /\ UNCHANGED <<tag, head, found, targetWCnt, taken>>
       \/ /\ Misses(llfReadSBlock(LastPage)) /\ other = NoPlace
          /\ NoState /\ UNCHANGED <<search, taken>>
    /\ UNCHANGED <<flash, home, where, tables, remapFrom, snapPage, ret>>

llfSearchDynamicSBlock ==
    ScanSkips \/ ScanReads \/ ScanEnds \/ ReadTarget \/ BisectDown \/ BisectUp \/ ReadLast

------------------------------------------------------------------------------
(* The tables                                                              *)

TableOf(bad) == [b \in Bank |-> {g.group : g \in {g \in bad : g.bank = b}}]
SystemTable(sys) == [b \in Bank |-> {p[2] : p \in {p \in sys : p[1] = b}}]

\* llfReadDBTFromStaticSblock, of the copy that was found, and in the window only.
Body == PageAt("body", head, 0)

ReadBody ==
    /\ pc = "body" /\ tag = "STATIC"
    /\ Reads(Readable(Body))
    /\ dbt' = TableOf(home.bad) /\ sysDbt' = SystemTable(home.sys)
    /\ gfDBTInitDone' = "SYSTEM" /\ guwRealMPBlkNum' = home.real
    /\ StartRemap
    /\ UNCHANGED <<flash, home, where, remapFrom, infoVars, ret>>

NoBody ==
    /\ pc = "body"
    /\ \/ Misses(Readable(Body))
       \/ tag = "DYNAMIC" /\ Reads(Readable(Body))
    /\ pc' = "end" /\ ret' = "ERR_READ_RDT"
    /\ UNCHANGED <<flash, home, where, tables, remapFrom, infoVars, at>>

\* The defects of the system blocks are in the state itself (llfInheritRDTInfoFromSBLK).
TakeState ==
    /\ pc = "state"
    /\ sysDbt' = SystemTable(SystemBlocksOf(taken))
    /\ gfDBTInitDone' = "SYSTEM" /\ guwRealMPBlkNum' = home.real
    /\ StartRemap
    /\ UNCHANGED <<flash, home, lost, where, dbt, remapFrom, infoVars, ret>>

\* The window and the copies are taken from the copy or from the state.
AfterRemap ==
    /\ pc = "remap done" /\ gfDBTInitDone = "SYSTEM"
    /\ window' = home.window /\ gulSblkCHCEMap' = MapOf(home.window)
    /\ IF taken = 0 THEN pc' = "end" /\ ret' = "ERR_OK" /\ UNCHANGED <<dbt, snapPage>>
       ELSE pc' = "snap" /\ dbt' = Empty /\ snapPage' = 0 /\ UNCHANGED ret
    /\ UNCHANGED <<flash, home, lost, sysDbt, gfDBTInitDone, guwRealMPBlkNum, remapFrom, search,
                   taken, at>>

\* llfParseBlockInfoToDBT: n entries of the buffer, which are those of the groups from first.
IsBad(e, b) == b \in e.bad \/ (e.pf /\ b \in e.new)
llfParseBlockInfoToDBT_NoNew(first, n) ==
    [b \in Bank |-> dbt[b] \cup
        {m \in Mp : m \in first .. (first + n - 1) /\ b \in Entry(taken, m).bad}]
llfParseBlockInfoToDBT(first, n) ==
    [b \in Bank |-> dbt[b] \cup
        {m \in Mp : m \in first .. (first + n - 1) /\ IsBad(Entry(taken, m), b)}]

\* llfReadBlockInfo: the buffer is parsed when it is full, as a whole, and at the end.
Buffer == PerPage * PageLimit
SnapPage == PageAt("snap", <<taken, 0>>, snapPage)
IsFull == snapPage % PageLimit = PageLimit - 1
Before == Buffer * (snapPage \div PageLimit)
IsLast == snapPage + 1 = SnapPages(guwRealMPBlkNum)

ReadSnapPage ==
    /\ pc = "snap"
    /\ Reads(llfReadRetry(SnapPage))
    /\ dbt' = IF IsFull THEN llfParseBlockInfoToDBT(Before, Buffer)
              ELSE IF IsLast THEN llfParseBlockInfoToDBT(Before, guwRealMPBlkNum - Before)
              ELSE dbt
    /\ snapPage' = snapPage + 1
    /\ IF IsLast THEN pc' = "end" /\ ret' = "ERR_OK" ELSE UNCHANGED <<pc, ret>>
    /\ UNCHANGED <<flash, home, where, sysDbt, gfDBTInitDone, guwRealMPBlkNum, remapFrom, search,
                   taken, at>>

SnapPageLost ==
    /\ pc = "snap"
    /\ \/ TimesOut /\ ret' = "ERR_READ_DBT_TIMEOUT"
       \/ ~llfReadRetry(SnapPage) /\ UNCHANGED lost /\ ret' = "ERR_READ_RDT"
    /\ pc' = "end"
    /\ UNCHANGED <<flash, home, where, tables, remapFrom, infoVars, at>>

BlockInfoNext ==
    \/ llfLoadBlockInfo \/ FindCopy \/ NoCopy \/ FindAny \/ NothingFound
    \/ llfSearchDynamicSBlock
    \/ ReadBody \/ NoBody \/ TakeState \/ AfterRemap \/ ReadSnapPage \/ SnapPageLost
=============================================================================
