----------------------------- MODULE RemapBuild -----------------------------
(***************************************************************************)
(* How a format turns the good blocks of broken groups into replacements   *)
(* (llfWriteConfig, llf.c:11447-11496).  The erase has left a table of     *)
(* them per bank and plane (RemapTable); then                              *)
(*                                                                         *)
(*   LlfGetGoodSystemBlock   adds those of the system area                 *)
(*   LlfUpdateRemapBlock     takes out those with a mark of the vendor     *)
(*   llfSortingRemapBS...    sorts them; on chips of several LUNs an entry *)
(*                           has to be of the same LUN in all planes       *)
(*   llfRemapFindBrokenBS    gives up what is left of broken superblocks   *)
(*   llfRemaptableReDefine   replaces the broken groups, from the lowest   *)
(*   LlfCheckRemappingTable  checks the result                             *)
(*                                                                         *)
(* A superblock is the group of the same number in all banks.  Entry i of  *)
(* a bank is the group made of the entries i of its planes; a group whose  *)
(* bank is in the bitmap is at entry index[group] of that bank.            *)
(***************************************************************************)
EXTENDS RemapTable, Integers, FiniteSets

CONSTANTS
    BankNum,       \* NandPara.ubBankNum
    MpNum,         \* NandPara.uwMpBlockNumPerLun
    SSEnd,         \* guwCaclSSGroupEnd: groups before it are not replaced
    Serial,        \* gubIsSerialMultiLUN: several LUNs one after the other
    RealBlockNum,  \* guwRealBlockNum: blocks of one of them
    BadBsTh,       \* BAD_BS_TH: a superblock with so many bad banks is broken
    SelectMax,     \* 64: length of Block_selected
    BadSets,       \* the sets of bad blocks a flash may have: pairs of bank and block
    MaxMark,       \* bound: those of them that have the mark of the vendor
    MaxUnread      \* bound: good blocks whose mark cannot be read

Bank == 0 .. (BankNum - 1)
Mp == 0 .. (MpNum - 1)
UserMp == SSEnd .. (MpNum - 1)
Blk == 0 .. (MpNum * Planes - 1)
AnyBlk == Bank \X Blk
Slot == 0 .. (TableLen - 1)
NoIndex == 255        \* 0xff

Increasing(s) == \A i, j \in 1 .. Len(s) : i < j => s[i] < s[j]
SortedSeqs(S) == {s \in [1 .. Cardinality(S) -> S] : Increasing(s)}

\* The blocks of a bank in a set of blocks of all banks.
Of(b, S) == {c[2] : c \in {c \in S : c[1] = b}}

ASSUME RemapAssumption ==
    /\ BankNum \in Nat \ {0} /\ MpNum \in Nat \ {0}
    /\ SSEnd \in Nat \ {0} /\ SSEnd * Planes < SysMax /\ SysMax <= MpNum * Planes
    /\ MpNum * Planes <= None         \* block numbers are U16
    /\ TableLen <= 254                \* llfRemaptableReDefine halts on a longer one
    /\ Serial \in BOOLEAN
    /\ RealBlockNum \in Nat \ {0}
    /\ ~Serial => RealBlockNum = MpNum * Planes
    /\ BadBsTh \in Nat /\ SelectMax \in Nat
    /\ MaxMark \in Nat /\ MaxUnread \in Nat
    /\ BadSets \subseteq SUBSET AnyBlk

VARIABLES
    failed,      \* the blocks that could not be erased; fixed
    marked,      \* the others that have the mark of the vendor; fixed
    dbt, sysDbt, \* DefectTable
    remap,       \* per bank a collector (RemapTable); mp, guwMpDefectBlock, becomes
                 \* the number of entries
    selected,    \* Block_selected
    index,       \* BLK_REMAP_BS_INDEX_TABLE: the entry that replaces a group
    bitmap,      \* BLK_REMAP_BITMAP_TABLE: the banks in which it is replaced
    used,        \* BLK_REMAP_TEMP: the banks in which an entry is taken
    cur,         \* gubCurRemapIndex: per bank, entries before it are taken
    pc, bank, plane, place,   \* where the loop is: an entry, a block or a group
    uwcount,     \* of LlfCheckRemappingTable
    ret,
    unread       \* marks that could not be read

flash == <<failed, marked>>
result == <<index, bitmap, used, cur>>
vars == <<flash, dbt, sysDbt, remap, selected, result, pc, bank, plane, place, uwcount,
          ret, unread>>

Bad(b) == Of(b, failed \cup marked)

\* The length of the shortest plane (LlfGetRealMaxBsNum).
Shortest(c) == CHOOSE n \in {Len(c.tab[p]) : p \in PlaneSet} :
                   \A p \in PlaneSet : n <= Len(c.tab[p])

LlfGetRealMaxBsNum(r) == [b \in Bank |-> [r[b] EXCEPT !.mp = Shortest(r[b])]]

Goto(label, at) == pc' = label /\ bank' = 0 /\ plane' = 0 /\ place' = at

\* The next plane of the tables, or the next phase.
NextPlane(label, at) ==
    IF plane + 1 < Planes
    THEN pc' = pc /\ bank' = bank /\ plane' = plane + 1 /\ place' = 0
    ELSE IF bank + 1 < BankNum
         THEN pc' = pc /\ bank' = bank + 1 /\ plane' = 0 /\ place' = 0
         ELSE Goto(label, at)

Init ==
    /\ \E bad \in BadSets :
         /\ marked \in {S \in SUBSET bad : Cardinality(S) <= MaxMark}
         /\ failed = bad \ marked
    /\ dbt = [b \in Bank |-> {Group(x) : x \in Bad(b)}]
    /\ sysDbt = [b \in Bank |-> {x \in Bad(b) : x < SysMax}]
    /\ remap = [b \in Bank |-> LlfInitReMapTable]
    /\ selected = <<>>
    /\ index = [m \in Mp |-> NoIndex] /\ bitmap = [m \in Mp |-> {}]
    /\ used = [i \in Slot |-> {}] /\ cur = [b \in Bank |-> 0]
    /\ pc = "erase" /\ bank = 0 /\ plane = 0 /\ place = 0
    /\ uwcount = 0 /\ ret = "ERR_OK" /\ unread = 0

------------------------------------------------------------------------------
(* The tables of replacements                                              *)

\* The good blocks, in a plane of a bank, of the groups that broke in the erase.
Leftover(b, p) ==
    LET broken == {Group(x) : x \in {x \in Of(b, failed) : x >= SysMax}}
    IN  {g * Planes + p : g \in {g \in broken : g * Planes + p \notin Of(b, failed)}}

\* Those the table has room for, the lowest first.
Found(S) ==
    {T \in SUBSET S : /\ T = S \/ Cardinality(T) = TableLen
                      /\ Cardinality(T) <= TableLen
                      /\ \A x \in T, y \in S \ T : x < y}

\* What the erase has left in the table (EraseAll!RemapTableExact).
EraseResult ==
    /\ pc = "erase"
    /\ \E T \in Found(Leftover(bank, plane)) : \E s \in SortedSeqs(T) :
         remap' = [remap EXCEPT ![bank].tab[plane] = s]
    /\ NextPlane("system", SSEnd * Planes)
    /\ UNCHANGED <<flash, dbt, sysDbt, selected, result, uwcount, ret, unread>>

\* LlfGetGoodSystemBlock, a block of a bank.
CollectSystem ==
    /\ pc = "system"
    /\ LET begun   == [remap[bank] EXCEPT !.mp = IF place = SSEnd * Planes THEN None ELSE @]
           defect  == llfIsSystemBlkDefect(sysDbt, bank, place)
           noted   == IF defect THEN CollectBad(begun, place) ELSE begun
           last    == place = SysMax - 1
           flushes == last /\ (defect \/ ~llfIsBlockBad(dbt, bank, place))
           after   == [remap EXCEPT ![bank] =
                         IF flushes THEN LlfCreatReMappingTable(noted) ELSE noted]
       IN  IF ~last
           THEN /\ remap' = after
                /\ place' = place + 1 /\ UNCHANGED <<pc, bank, plane>>
           ELSE IF bank + 1 < BankNum
                THEN /\ remap' = after
                     /\ bank' = bank + 1 /\ place' = SSEnd * Planes /\ UNCHANGED <<pc, plane>>
                ELSE remap' = LlfGetRealMaxBsNum(after) /\ Goto("update", 0)
    /\ UNCHANGED <<flash, dbt, sysDbt, selected, result, uwcount, ret, unread>>

\* The last entry of the plane takes the place of a bad one, and is looked at next.
WithoutEntry(b, p, i) ==
    /\ remap' = [remap EXCEPT ![b].tab[p] =
                   [j \in 1 .. (Len(@) - 1) |-> IF j = i + 1 THEN @[Len(@)] ELSE @[j]]]
    /\ place' = i

Entry == remap[bank].tab[plane][place + 1]

\* Mutant: an entry stays whatever its mark.
KeepEntry_Always ==
    /\ pc = "update" /\ place < Len(remap[bank].tab[plane])
    /\ place' = place + 1
    /\ UNCHANGED <<flash, dbt, sysDbt, remap, selected, result, pc, bank, plane, uwcount, ret,
                   unread>>

\* LlfUpdateRemapBlock: the mark of the vendor is read; one that cannot be read is bad.
KeepEntry ==
    /\ pc = "update" /\ place < Len(remap[bank].tab[plane])
    /\ <<bank, Entry>> \notin marked
    /\ place' = place + 1
    /\ UNCHANGED <<flash, dbt, sysDbt, remap, selected, result, pc, bank, plane, uwcount, ret,
                   unread>>

DropEntry ==
    /\ pc = "update" /\ place < Len(remap[bank].tab[plane])
    /\ IF <<bank, Entry>> \in marked THEN UNCHANGED unread
       ELSE unread < MaxUnread /\ unread' = unread + 1
    /\ WithoutEntry(bank, plane, place)
    /\ sysDbt' = IF Entry < SysMax THEN llfMarkSystemBlkDefect(sysDbt, bank, Entry) ELSE sysDbt
    /\ dbt' = IF Entry < SysMax THEN dbt ELSE llfSetDBT(dbt, bank, Entry)
    /\ UNCHANGED <<flash, selected, result, pc, bank, plane, uwcount, ret>>

EndOfPlane ==
    /\ pc = "update" /\ place = Len(remap[bank].tab[plane])
    /\ NextPlane("sort", 0)
    /\ UNCHANGED <<flash, dbt, sysDbt, remap, selected, result, uwcount, ret, unread>>

\* The entries of a plane, and those of a LUN.
Entries(b, p) == {remap[b].tab[p][i] : i \in 1 .. Len(remap[b].tab[p])}
OfLun(S, lun) == {x \in S : x \div RealBlockNum = lun}

\* Mutant: entries stay that have no partner of their LUN in another plane.
Paired_All(b, p) == Entries(b, p)

\* The entries that have a partner of their LUN in every plane: the lowest of each LUN.
Paired(b, p) ==
    IF ~Serial THEN Entries(b, p)
    ELSE {x \in Entries(b, p) :
            LET lun == x \div RealBlockNum
            IN  \A q \in PlaneSet :
                   Cardinality({y \in OfLun(Entries(b, p), lun) : y < x})
                      < Cardinality(OfLun(Entries(b, q), lun))}

\* llfSortingRemapBSForMultiLUN, a plane of a bank; before llfRemapFindBrokenBS the
\* planes are cut to the shortest.
Cut(r) ==
    [b \in Bank |-> [r[b] EXCEPT !.mp = Shortest(r[b]),
                                 !.tab = [p \in PlaneSet |->
                                            SubSeq(r[b].tab[p], 1, Shortest(r[b]))]]]

LastPlane == bank = BankNum - 1 /\ plane = Planes - 1

SortPlane ==
    /\ pc = "sort"
    /\ \E s \in SortedSeqs(Paired(bank, plane)) :
         LET sorted == [remap EXCEPT ![bank].tab[plane] = s]
         IN  remap' = IF LastPlane THEN Cut(sorted) ELSE sorted
    /\ NextPlane("find", MpNum - 1)
    /\ UNCHANGED <<flash, dbt, sysDbt, selected, result, uwcount, ret, unread>>

SortAgain ==
    /\ pc = "sortAgain"
    /\ \E s \in SortedSeqs(Paired(bank, plane)) :
         remap' = [remap EXCEPT ![bank].tab[plane] = s]
    /\ NextPlane("redefine", SSEnd)
    /\ UNCHANGED <<flash, dbt, sysDbt, selected, result, uwcount, ret, unread>>

------------------------------------------------------------------------------
(* llfRemapFindBrokenBS                                                    *)

BadBanks(m) == {b \in Bank : llfIsMpBlockBad(dbt, b, m)}

\* Mutant: one entry more than there is room for.
HasRoom_OneMore(b) == Len(remap[b].tab[0]) <= TableLen

HasRoom(b) == Len(remap[b].tab[0]) < TableLen

\* A group of each of these banks becomes an entry and is marked bad.
llfRemapFlagInsertBlock(banks, m) ==
    /\ remap' = [b \in Bank |->
                   IF b \notin banks THEN remap[b]
                   ELSE [remap[b] EXCEPT !.tab = [p \in PlaneSet |->
                                                    Append(@[p], m * Planes + p)]]]
    /\ dbt' = [b \in Bank |-> IF b \in banks THEN dbt[b] \cup {m} ELSE dbt[b]]

\* Mutant: the superblocks of the first areas are given up too.
NextBroken_All ==
    IF place > 0 THEN place' = place - 1 /\ UNCHANGED <<pc, bank, plane>>
                 ELSE Goto("select", 1)

NextBroken ==
    IF place > SSEnd THEN place' = place - 1 /\ UNCHANGED <<pc, bank, plane>>
                     ELSE Goto("select", 1)

\* A broken superblock is given up in all its banks that have room for an entry.
GiveUpBroken ==
    /\ pc = "find"
    /\ BadBanks(place) # {} /\ Cardinality(BadBanks(place)) >= BadBsTh
    /\ llfRemapFlagInsertBlock({b \in Bank \ BadBanks(place) : HasRoom(b)}, place)
    /\ NextBroken
    /\ UNCHANGED <<flash, sysDbt, selected, result, uwcount, ret, unread>>

\* One with fewer bad banks is noted, if there is room.
NoteBroken ==
    /\ pc = "find"
    /\ BadBanks(place) = {} \/ Cardinality(BadBanks(place)) < BadBsTh
    /\ selected' = IF BadBanks(place) # {} /\ Len(selected) < SelectMax
                   THEN Append(selected, place) ELSE selected
    /\ NextBroken
    /\ UNCHANGED <<flash, dbt, sysDbt, remap, result, uwcount, ret, unread>>

\* One that was noted is given up if every good bank of it has room.
GiveUpSelected ==
    /\ pc = "select" /\ place <= Len(selected)
    /\ LET good == Bank \ BadBanks(selected[place])
       IN  IF \A b \in good : HasRoom(b)
           THEN llfRemapFlagInsertBlock(good, selected[place])
           ELSE UNCHANGED <<dbt, remap>>
    /\ place' = place + 1
    /\ UNCHANGED <<flash, sysDbt, selected, result, pc, bank, plane, uwcount, ret, unread>>

EndSelect ==
    /\ pc = "select" /\ place > Len(selected)
    /\ remap' = LlfGetRealMaxBsNum(remap)
    /\ IF Serial THEN Goto("sortAgain", 0) ELSE Goto("redefine", SSEnd)
    /\ UNCHANGED <<flash, dbt, sysDbt, selected, result, uwcount, ret, unread>>

------------------------------------------------------------------------------
(* llfRemaptableReDefine                                                   *)

\* The first entry of a bank that is free, or the number of its entries.
FreeSlot(b) ==
    IF cur[b] >= remap[b].mp THEN cur[b]
    ELSE CHOOSE i \in cur[b] .. remap[b].mp :
            /\ i = remap[b].mp \/ b \notin used[i]
            /\ \A j \in cur[b] .. (i - 1) : b \in used[j]

\* The banks in which a group is bad and could be replaced.
Replaceable(m) == {b \in BadBanks(m) : FreeSlot(b) < remap[b].mp}

\* The entry for all banks of a superblock: the highest of their first free ones.
CommonSlot(m) == CHOOSE i \in {FreeSlot(b) : b \in Replaceable(m)} :
                     \A b \in Replaceable(m) : FreeSlot(b) <= i

\* Mutant: an entry is taken twice.
Taken_Again(m) == {b \in BadBanks(m) : CommonSlot(m) < remap[b].mp}

\* The banks that have this entry.
Taken(m) == {b \in BadBanks(m) : CommonSlot(m) < remap[b].mp /\ b \notin used[CommonSlot(m)]}

\* Mutant: the index is not written.
IndexAfter_Lost(m) == index

IndexAfter(m) == [index EXCEPT ![m] = CommonSlot(m)]

ReplaceGroup ==
    /\ pc = "redefine" /\ Replaceable(place) # {}
    /\ LET i    == CommonSlot(place)
           gets == Taken(place)
       IN  /\ index' = IndexAfter(place)
           /\ bitmap' = [bitmap EXCEPT ![place] = @ \cup gets]
           /\ used' = [used EXCEPT ![i] = @ \cup gets]
           /\ cur' = [b \in Bank |->
                        CASE b \notin BadBanks(place)        -> cur[b]
                          [] b \in gets /\ i = FreeSlot(b)
                             /\ Cardinality(Replaceable(place)) > 1 -> i + 1
                          [] OTHER                            -> FreeSlot(b)]
           /\ dbt' = [b \in Bank |-> IF b \in gets THEN dbt[b] \ {place} ELSE dbt[b]]
           /\ sysDbt' = [b \in Bank |-> IF b \in gets /\ place * Planes < SysMax
                                        THEN sysDbt[b] \ BlocksOf(place) ELSE sysDbt[b]]
    /\ IF place + 1 < MpNum THEN place' = place + 1 /\ UNCHANGED <<pc, bank, plane>>
                            ELSE Goto("check", 0)
    /\ UNCHANGED <<flash, remap, selected, uwcount, ret, unread>>

\* A superblock without a bad bank, or no entry is free for it.
LeaveGroup ==
    /\ pc = "redefine" /\ Replaceable(place) = {}
    /\ cur' = [b \in Bank |-> IF b \in BadBanks(place) THEN FreeSlot(b) ELSE cur[b]]
    /\ IF place + 1 < MpNum THEN place' = place + 1 /\ UNCHANGED <<pc, bank, plane>>
                            ELSE Goto("check", 0)
    /\ UNCHANGED <<flash, dbt, sysDbt, remap, selected, index, bitmap, used, uwcount, ret, unread>>

------------------------------------------------------------------------------
(* LlfCheckRemappingTable                                                  *)

WrongPlane == PlaneOf(Entry) # plane
Duplicate == \E j \in 1 .. Len(remap[bank].tab[plane]) :
                j > place + 1 /\ remap[bank].tab[plane][j] = Entry

\* The group of an entry is not in use; or more than half of its superblock is broken
\* (uwcount, which is not reset); or it was replaced itself.
CountAfter == uwcount + Cardinality(BadBanks(Group(Entry)))
NotInUse ==
    \/ llfIsMpBlockBad(dbt, bank, Group(Entry))
    \/ CountAfter > BankNum \div 2 /\ CountAfter # BankNum
    \/ bitmap[Group(Entry)] # {} /\ index[Group(Entry)] # NoIndex

Refuse == pc' = "done" /\ ret' = "ERR_BLOCK_MAPPING" /\ UNCHANGED <<bank, plane, place>>

CheckEntry ==
    /\ pc = "check" /\ place < Len(remap[bank].tab[plane])
    /\ uwcount' = IF WrongPlane \/ Duplicate \/ llfIsMpBlockBad(dbt, bank, Group(Entry))
                  THEN uwcount ELSE CountAfter
    /\ IF WrongPlane \/ Duplicate \/ ~NotInUse THEN Refuse
       ELSE place' = place + 1 /\ UNCHANGED <<pc, bank, plane, ret>>
    /\ UNCHANGED <<flash, dbt, sysDbt, remap, selected, result, unread>>

EndOfEntries ==
    /\ pc = "check" /\ place = Len(remap[bank].tab[plane])
    /\ NextPlane("checkLun", 0)
    /\ UNCHANGED <<flash, dbt, sysDbt, remap, selected, result, uwcount, ret, unread>>

SameLun(b, i) ==
    \A p, q \in PlaneSet :
        remap[b].tab[p][i] \div RealBlockNum = remap[b].tab[q][i] \div RealBlockNum

CheckLun ==
    /\ pc = "checkLun"
    /\ IF \A b \in Bank : \A i \in 1 .. Shortest(remap[b]) : SameLun(b, i)
       THEN pc' = "done" /\ UNCHANGED <<bank, plane, place, ret>>
       ELSE Refuse
    /\ UNCHANGED <<flash, dbt, sysDbt, remap, selected, result, uwcount, unread>>

Next ==
    \/ EraseResult \/ CollectSystem
    \/ KeepEntry \/ DropEntry \/ EndOfPlane
    \/ SortPlane \/ SortAgain
    \/ GiveUpBroken \/ NoteBroken \/ GiveUpSelected \/ EndSelect
    \/ ReplaceGroup \/ LeaveGroup
    \/ CheckEntry \/ EndOfEntries \/ CheckLun

Spec == Init /\ [][Next]_vars

------------------------------------------------------------------------------
(* Properties                                                              *)

Phases == {"erase", "system", "update", "sort", "find", "select", "sortAgain", "redefine",
           "check", "checkLun", "done"}

\* Types; no plane of the table is longer than it is configured to be.
TypeOK ==
    /\ failed \subseteq Bank \X Blk /\ marked \subseteq Bank \X Blk
    /\ dbt \in [Bank -> SUBSET Mp] /\ sysDbt \in [Bank -> SUBSET Blk]
    /\ remap \in [Bank -> Collector]
    /\ \A b \in Bank, p \in PlaneSet :
         /\ Len(remap[b].tab[p]) <= TableLen
         /\ \A i \in 1 .. Len(remap[b].tab[p]) : remap[b].tab[p][i] \in Blk
    /\ selected \in Seq(UserMp)
    /\ index \in [Mp -> Slot \cup {NoIndex}] /\ bitmap \in [Mp -> SUBSET Bank]
    /\ used \in [Slot -> SUBSET Bank] /\ cur \in [Bank -> 0 .. TableLen]
    /\ pc \in Phases /\ bank \in Bank /\ plane \in PlaneSet /\ place \in Nat
    /\ uwcount \in Nat /\ ret \in {"ERR_OK", "ERR_BLOCK_MAPPING"}
    /\ unread \in 0 .. MaxUnread

Built == pc = "done"

\* Where the firmware finds a plane of a group of a bank: at the entry that replaces it,
\* or at its own block.
Location(b, m, p) ==
    IF b \in bitmap[m] THEN remap[b].tab[p][index[m] + 1] ELSE m * Planes + p

InUse(b) == UserMp \ dbt[b]

Distinct(s) == \A i, j \in 1 .. Len(s) : i # j => s[i] # s[j]

\* No block is in the table twice, in any phase, and in the end none is the place of two
\* groups, although broken superblocks give blocks and get some.
NoBlockTwice ==
    /\ \A b \in Bank, p \in PlaneSet : Distinct(remap[b].tab[p])
    /\ Built => \A b \in Bank, p \in PlaneSet : \A m, n \in InUse(b) :
                   m # n => Location(b, m, p) # Location(b, n, p)

\* No group in use is at a block that failed or has a mark: what the erase, the scan and
\* LlfUpdateRemapBlock found stays out.
OnlyGoodBlocks ==
    Built => \A b \in Bank, p \in PlaneSet : \A m \in InUse(b) :
                Location(b, m, p) \notin Bad(b)

\* The planes of a group in use are in one LUN, and each in its own plane.
GroupsAreWhole ==
    Built => \A b \in Bank, p \in PlaneSet : \A m \in InUse(b) :
                /\ PlaneOf(Location(b, m, p)) = p
                /\ Location(b, m, p) \div RealBlockNum = Location(b, m, 0) \div RealBlockNum

\* What a format has built passes its own check, whatever the count of broken banks that
\* is not reset (llf.c:19042) has come to.
TableAccepted == Built => ret = "ERR_OK"
=============================================================================
