------------------------------ MODULE Inherit ------------------------------
(***************************************************************************)
(* llfInherit: the tables of an earlier system, those of the reliability   *)
(* test if they fit, or those of a drive that was in use.                  *)
(*                                                                         *)
(* The flash is one that was tested, or one that was formatted and then    *)
(* used; the power went at any moment of that, and since then some pages   *)
(* became hard or impossible to read.                                      *)
(***************************************************************************)
EXTENDS RdtResult, BlockInfo

CONSTANTS
    Flashes   \* the flashes: [tested, home, formatted, told, rests, mode]

\* All banks were tested with one window.  The drive has groups in use; it uses no block it
\* knows to be bad, knows the one it could not erase, and no earlier window reaches its blocks.
ASSUME InheritAssumption ==
    \A f \in Flashes :
        /\ f.tested \in [Bank -> Test] /\ f.home \in Home
        /\ f.formatted \in BOOLEAN /\ f.told \in BOOLEAN /\ f.rests \in BOOLEAN
        /\ f.mode \in {"INHERIT", "DEFECT"}
        /\ \A b \in Bank : f.tested[b].window = f.tested[0].window
        /\ f.home.real > 0
        /\ LET begin == f.home.window.start + SblkBlks + ExtRdt
           IN  /\ \A b \in {0, BankNum - 1}, k \in 0 .. (Pairs - 1) : <<b, begin + k>> \notin f.home.sys
               /\ f.home.old => <<0, begin + Pairs>> \in f.home.sys
               /\ f.tested[0].window.start + SblkBlks <= begin

VARIABLES
    formatted,   \* whether the flash was formatted after the test; fixed
    told,        \* whether the loader says where the copies are; fixed
    written,     \* pages of the copies that were written
    state        \* the state the drive writes, or wrote last

writer == <<formatted, told, written, state>>
vars == <<flash, lost, where, tables, remapFrom, pc, at, ret, home, infoVars, rdtVars, writer>>

\* What the test leaves in the given blocks.
TestPages(places) ==
    {PageAt("result", p, n) : p \in places, n \in 0 .. (ResultPages - 1)}
        \cup {PageAt("remap", p, 1) : p \in places}

\* Behind the copies it writes to good blocks only.
Behind(t, w) == {p \in Bank \X TestBlocks(w) : p[2] \notin t[p[1]].bad}
Ahead(w) == {p \in Place : InWindow(w, p)}
Static(t, w) == {PageAt("static", p, 0) : p \in Behind(t, w)}

\* rests: the format left the blocks of the test behind.
Init ==
    /\ \E f \in Flashes :
         /\ tested = f.tested /\ home = f.home /\ formatted = f.formatted
         /\ told = f.told
         /\ gubLLFMode = f.mode
         /\ window = IF f.told THEN f.home.window ELSE [bank |-> 0, start |-> 0]
         /\ LET w == f.tested[0].window
            IN  pages = (IF f.formatted THEN {} ELSE TestPages(Ahead(w)))
                          \cup (IF f.rests THEN TestPages(Behind(f.tested, w)) \cup Static(f.tested, w) ELSE {})
                          \cup (IF f.home.old THEN {PageAt("dyn", OldPlace, 0)} ELSE {})
         /\ pc = IF f.formatted THEN "format" ELSE "decay"
    /\ spoiled = <<>> /\ lost = 0 /\ gulSblkCHCEMap = {}
    /\ dbt = Empty /\ sysDbt = Empty /\ gfDBTInitDone = "NONE" /\ guwRealMPBlkNum = MpNum
    /\ remapFrom = NoPlace /\ at = NoPlace /\ ret = "none"
    /\ tag = "none" /\ head = NoPlace /\ found = [count |-> 0, at |-> NoPlace]
    /\ other = NoPlace /\ targetWCnt = 0 /\ page_down = 0 /\ page_up = 0
    /\ taken = 0 /\ snapPage = 0
    /\ buf = NoResult /\ hdr = "other" /\ cmp = FALSE /\ page = 0 /\ pass = 0
    /\ tags = [b \in Bank |-> NoResult] /\ gubTSblk = 0 /\ gubNeedRebuildRemap = FALSE
    /\ passNum = 0 /\ remap = [b \in Bank |-> LlfInitReMapTable]
    /\ gulEraseFailSysblk = {}
    /\ written = 0 /\ state = 0

------------------------------------------------------------------------------
(* The flash is formatted and used                                         *)

\* The copies, bank by bank.
CopyBanks ==
    IF home.window.bank + SysBanks <= BankNum THEN SysBanks ELSE BankNum - home.window.bank
CopyNum == SblkBlks * CopyBanks
Copy(i) ==
    <<home.window.bank + ((i - 1) \div SblkBlks), home.window.start + ((i - 1) % SblkBlks)>>

\* The pages of the copies, as they are written: all heads before the rest of any copy.
CopyPages ==
    [i \in 1 .. (3 * CopyNum) |->
       IF i <= CopyNum THEN PageAt("head", Copy(i), 0)
       ELSE PageAt(IF (i - CopyNum) % 2 = 1 THEN "body" ELSE "remap",
                   Copy((i - CopyNum + 1) \div 2), 0)]

Formatted == written = Len(CopyPages)

WriteCopy ==
    /\ pc = "format" /\ ~Formatted
    /\ pages' = pages \cup {CopyPages[written + 1]} /\ written' = written + 1
    /\ UNCHANGED <<spoiled, gubLLFMode, lost, where, tables, remapFrom, pc, at, ret, home, infoVars,
                   rdtVars, formatted, told, state>>

StatePages(w) == {StatePage(w, p) : p \in {Primary(w), Backup(w)}}
IsWhole(w) == w = 0 \/ StatePages(w) \subseteq pages

\* The drive: a snapshot, then the state in both blocks, in any order.
BeginState ==
    /\ pc = "format" /\ Formatted /\ IsWhole(state) /\ state < Len(Grown)
    /\ state' = state + 1
    /\ pages' = pages \cup {PageAt("snap", <<state', 0>>, i) : i \in 0 .. (SnapPages(home.real) - 1)}
    /\ UNCHANGED <<spoiled, gubLLFMode, lost, where, tables, remapFrom, pc, at, ret, home, infoVars,
                   rdtVars, formatted, told, written>>

WriteState ==
    /\ pc = "format" /\ ~IsWhole(state)
    /\ \E pg \in StatePages(state) \ pages : pages' = pages \cup {pg}
    /\ UNCHANGED <<spoiled, gubLLFMode, lost, where, tables, remapFrom, pc, at, ret, home, infoVars,
                   rdtVars, writer>>

\* The power goes, perhaps in the middle of a page.
NextPages ==
    IF ~Formatted THEN {CopyPages[written + 1]}
    ELSE IF ~IsWhole(state) THEN StatePages(state) \ pages ELSE {}

Spoil(pg, how) == spoiled' = [q \in DOMAIN spoiled \cup {pg} |-> IF q = pg THEN how ELSE spoiled[q]]

PowerLoss ==
    /\ pc = "format" /\ pc' = "decay"
    /\ \/ UNCHANGED <<pages, spoiled>>
       \/ /\ Faults < MaxFaults
          /\ \E pg \in NextPages : pages' = pages \cup {pg} /\ Spoil(pg, "bad")
    /\ UNCHANGED <<gubLLFMode, lost, where, tables, remapFrom, at, ret, home, infoVars, rdtVars,
                   writer>>

Decay ==
    /\ pc = "decay" /\ Faults < MaxFaults
    /\ \E pg \in pages \ DOMAIN spoiled :
         \E how \in {"weak", "bad"} \cup (IF pg.kind = "head" THEN {"over"} ELSE {}) :
            Spoil(pg, how)
    /\ UNCHANGED <<pages, gubLLFMode, lost, where, tables, remapFrom, pc, at, ret, home, infoVars,
                   rdtVars, writer>>

------------------------------------------------------------------------------
(* llfInherit                                                              *)

llfInherit ==
    /\ pc = "decay"
    /\ dbt' = Empty /\ sysDbt' = Empty
    /\ pc' = "rdt"
    /\ UNCHANGED <<flash, lost, where, gfDBTInitDone, guwRealMPBlkNum, remapFrom, at, ret, home,
                   infoVars, rdtVars, writer>>

\* With the tables of the test, that of the replacements is read, or was rebuilt.
AfterResult ==
    /\ pc = "rdt taken"
    /\ IF gubNeedRebuildRemap THEN pc' = "end" /\ ret' = "ERR_OK" /\ UNCHANGED at
       ELSE StartRemap /\ UNCHANGED ret
    /\ UNCHANGED <<flash, lost, where, tables, remapFrom, home, infoVars, rdtVars, writer>>

ResultInherited ==
    /\ pc = "remap done" /\ gfDBTInitDone = "RDT"
    /\ pc' = "end" /\ ret' = "ERR_OK"
    /\ UNCHANGED <<flash, lost, where, tables, remapFrom, at, home, infoVars, rdtVars, writer>>

WithoutResult ==
    /\ pc = "rdt fails"
    /\ gubNeedRebuildRemap' = FALSE /\ pc' = "load"
    /\ UNCHANGED <<flash, lost, where, tables, remapFrom, at, ret, home, infoVars, tested, buffers,
                   page, pass, tags, gubTSblk, passNum, rebuilt, writer>>

Next ==
    \/ WriteCopy \/ BeginState \/ WriteState \/ PowerLoss \/ Decay
    \/ llfInherit \/ AfterResult \/ ResultInherited \/ WithoutResult
    \/ RdtNext /\ UNCHANGED <<home, infoVars, writer>>
    \/ BlockInfoNext /\ UNCHANGED <<rdtVars, writer>>
    \/ LlfInheritRemappingTable /\ UNCHANGED <<home, infoVars, rdtVars, writer>>

Spec == Init /\ [][Next]_vars

------------------------------------------------------------------------------
(* Properties                                                              *)

Inherited(from) == pc = "end" /\ ret = "ERR_OK" /\ gfDBTInitDone = from

\* The page the power loss left torn is no loss: its state was not complete.
Torn == IF written < Len(CopyPages) THEN {CopyPages[written + 1]}
        ELSE IF state = 0 THEN {} ELSE StatePages(state)
Lost == {pg \in DOMAIN spoiled \ Torn : spoiled[pg] # "weak"}
Newest == IF state = 0 \/ (StatePages(state) \subseteq pages \ DOMAIN spoiled) THEN state
          ELSE state - 1

\* An older state than the newest that was written as a whole is inherited, or that of
\* the format, only when a page of a state cannot be read or a read was not answered;
\* and never one of the drive's former life.
TakesNewest ==
    Inherited("SYSTEM") =>
        /\ taken <= state
        /\ taken >= Newest \/ lost > 0 \/ \E pg \in Lost : pg.kind = "dyn"

\* The table of defects is that of the state, or of the format, exactly, for every group
\* in use; and so are the defects of the system blocks and the place of the copies.
TableIsSnapshot ==
    Inherited("SYSTEM") =>
        /\ \A b \in Bank, m \in 0 .. (home.real - 1) :
             m \in dbt[b] <=> [bank |-> b, group |-> m] \in home.bad \cup {Grown[i] : i \in 1 .. taken}
        /\ sysDbt = SystemTable(home.sys)
        /\ window = home.window /\ gulSblkCHCEMap = MapOf(home.window)

\* Power loss alone never makes a drive that was formatted one that cannot be inherited,
\* if the loader knows where the copies are.
CleanInherits ==
    (pc = "end" /\ formatted /\ Formatted /\ told /\ lost = 0 /\ DOMAIN spoiled \subseteq Torn)
        => ret = "ERR_OK"

\* When every read is answered the result of a test is taken only where it still counts,
\* and every bank has the defects its own test found.  On a drive that was formatted since,
\* what the test left is not taken for its defects, however far the format came, and
\* whatever page it is that cannot be read.
OwnResult ==
    Inherited("RDT") /\ lost = 0 =>
        /\ formatted => gubLLFMode = "DEFECT"
        /\ \A b \in Bank :
             /\ dbt[b] = {Group(x) : x \in tested[b].bad}
             /\ sysDbt[b] = {x \in tested[b].bad : x < SysMax}

\* A rebuilt table of replacements has, of every plane, the good blocks of the broken
\* groups in their order, but of the last of them only if the bank ends with a bad block.
Broken(b) ==
    LET all == {Group(x) : x \in {x \in tested[b].bad : x >= SysMax}}
    IN  IF MpNum * Planes - 1 \in tested[b].bad THEN all
        ELSE {g \in all : \E h \in all : h > g}

RebuildExact ==
    Inherited("RDT") /\ gubNeedRebuildRemap /\ lost = 0 =>
        \A b \in Bank, p \in PlaneSet :
            LET good == {x \in Blk : /\ PlaneOf(x) = p /\ Group(x) \in Broken(b)
                                     /\ x \notin tested[b].bad}
                all == SetToSortSeq(good, LAMBDA x, y : x < y)
            IN  remap[b].tab[p] = IF Len(all) <= TableLen THEN all ELSE SubSeq(all, 1, TableLen)
=============================================================================
