----------------------------- MODULE RdtResult -----------------------------
(***************************************************************************)
(* llfLoadRDTResult: the tables of a flash that went through the           *)
(* reliability test (RDT).                                                 *)
(*                                                                         *)
(* The test leaves its result in system blocks of every bank.  A first     *)
(* pass over the banks finds out whether the results fit this flash: a     *)
(* flash whose dies were moved or regrouped since has its tables rebuilt   *)
(* from the table of single bad blocks.  A second pass takes them over.    *)
(*                                                                         *)
(* llfGetRDTBankResult looks at the buffers whatever became of the read,   *)
(* and its cmp is not initialised.                                         *)
(***************************************************************************)
EXTENDS SystemReads, SequencesExt

CONSTANT ResultPages   \* RDT_RESULT_PAGE_NUM: pages of a block a result is looked for in

ASSUME ResultAssumption == ResultPages \in Nat \ {0}

VARIABLES
    tested,      \* what the test of each bank found; fixed
    buf,         \* the bank whose result TEMP_BUF holds, or NoResult
    hdr,         \* the page header in TEMP_HBUF: "RDT", "CODE", "other"
    cmp,         \* the last read was completed without an error
    page,        \* next page of the block
    pass,        \* 1 or 2
    tags,        \* gulBankRdtResultTag, as the bank it is of
    gubTSblk,    \* the highest block a result was found in
    gubNeedRebuildRemap,
    passNum,     \* banks whose result was taken over
    remap,       \* per bank the collector of replacements (RemapTable)
    gulEraseFailSysblk   \* bad blocks among the copies

buffers == <<buf, hdr, cmp>>
rebuilt == <<remap, gulEraseFailSysblk>>
rdtVars == <<tested, buffers, page, pass, tags, gubTSblk, gubNeedRebuildRemap, passNum, rebuilt>>

NoResult == BankNum

\* The result of a bank: the run of the test and the place of the bank in it; whether it
\* has a static table and the geometry of this flash; its verdict and the bad blocks; the
\* window of its copies.
Test == [ run : 1 .. 2, bank : Nat, total : Nat, static : BOOLEAN, fits : BOOLEAN,
          ok : BOOLEAN, bad : SUBSET Blk, window : Window, real : Mp \cup {MpNum} ]

\* A buffer without a result has no tag, and may say anything of the verdict.
HasStatic(r) == r # NoResult /\ tested[r].static
Verdicts(r) == IF r = NoResult THEN BOOLEAN ELSE {tested[r].ok}

\* The bit tables of a result: the defects of the system blocks, and of the groups; the
\* blocks of the test are not in the latter.
SystemBad(r) == {x \in tested[r].bad : x < SysMax}
GroupsBad(r) == {Group(x) : x \in tested[r].bad \ TestBlocks(tested[r].window)}
TestDefects(r) == {Group(x) : x \in TestBlocks(window) \cap SystemBad(r)}

------------------------------------------------------------------------------
(* llfGetRDTBankResult: at is the block that is read                       *)

FirstResultBlock ==
    IF gubLLFMode = "DEFECT" THEN window.start + SblkBlks ELSE window.start
EndResultBlock == window.start + SblkBlks + ExtRdt

\* The page a copy, or the test, has put there.
ResultPage(p, n) ==
    IF PageAt("result", p, n) \in pages THEN PageAt("result", p, n)
    ELSE IF n = 0 THEN PageAt("head", p, 0) ELSE PageAt("body", p, 0)

Header(pg) == CASE pg.kind = "result" -> "RDT" [] pg.kind = "body" -> "CODE" [] OTHER -> "other"
ResultOf(pg) == IF pg.kind = "result" THEN pg.at[1] ELSE NoResult

\* Begins a call; what cmp holds then is open.
CallForBank(b) ==
    /\ at' = <<b, FirstResultBlock>> /\ page' = 0
    /\ cmp' \in BOOLEAN

\* After a page: the result is found, or the next page or block is tried.
FoundIn(c, h) == c /\ h = "RDT"
NextPage ==
    IF page + 1 < ResultPages
    THEN page' = page + 1 /\ UNCHANGED <<at, pc, gubTSblk>>
    ELSE IF FoundIn(cmp', hdr')
         THEN /\ pc' = "found" /\ gubTSblk' = IF at[2] > gubTSblk THEN at[2] ELSE gubTSblk
              /\ UNCHANGED <<at, page>>
         ELSE page' = 0 /\ at' = <<at[1], at[2] + 1>> /\ UNCHANGED <<pc, gubTSblk>>

\* A copy of the firmware is no place to look further, except for what the test left
\* behind it.
StopsAtCode(h) == gubLLFMode # "DEFECT" /\ h = "CODE"

\* A read in time: the page is good, or readable with another voltage, or not.
ResultRead ==
    /\ pc = "result" /\ at[2] < EndResultBlock
    /\ UNCHANGED lost
    /\ LET pg == ResultPage(at, page)
       IN  \/ /\ Readable(pg)
              /\ hdr' = Header(pg) /\ buf' = ResultOf(pg) /\ cmp' = TRUE
              /\ CASE StopsAtCode(hdr') -> pc' = "not found" /\ UNCHANGED <<at, page, gubTSblk>>
                   [] hdr' = "RDT"      ->
                        /\ pc' = "found" /\ UNCHANGED <<at, page>>
                        /\ gubTSblk' = IF at[2] > gubTSblk THEN at[2] ELSE gubTSblk
                   [] OTHER             -> NextPage
           \/ /\ Quality(pg) = "weak"
              /\ hdr' = Header(pg) /\ buf' = ResultOf(pg) /\ cmp' = TRUE
              /\ IF hdr' = "RDT"
                 THEN /\ pc' = "found" /\ UNCHANGED <<at, page>>
                      /\ gubTSblk' = IF at[2] > gubTSblk THEN at[2] ELSE gubTSblk
                 ELSE NextPage
           \/ /\ ~llfReadRetry(pg)
              /\ hdr' = "other" /\ buf' = NoResult /\ cmp' = FALSE
              /\ NextPage
    /\ UNCHANGED <<flash, where, tables, remapFrom, tested, pass, tags, gubNeedRebuildRemap,
                   passNum, rebuilt, ret>>

\* Not in time: the buffers hold what was read last, and are looked at.
ResultLost ==
    /\ pc = "result" /\ at[2] < EndResultBlock
    /\ TimesOut
    /\ UNCHANGED buffers
    /\ IF StopsAtCode(hdr) THEN pc' = "not found" /\ UNCHANGED <<at, page, gubTSblk>>
       ELSE NextPage
    /\ UNCHANGED <<flash, where, tables, remapFrom, tested, pass, tags, gubNeedRebuildRemap,
                   passNum, rebuilt, ret>>

ResultNotFound ==
    /\ pc = "result" /\ at[2] = EndResultBlock
    /\ pc' = "not found"
    /\ UNCHANGED <<flash, lost, where, tables, remapFrom, rdtVars, at, ret>>

llfGetRDTBankResult == ResultRead \/ ResultLost \/ ResultNotFound

------------------------------------------------------------------------------
(* llfLoadRDTResult                                                        *)

llfLoadRDTResult ==
    /\ pc = "rdt"
    /\ tags' = [b \in Bank |-> NoResult] /\ pass' = 1 /\ passNum' = 0
    /\ CallForBank(0) /\ pc' = "result"
    /\ UNCHANGED <<flash, lost, where, tables, remapFrom, tested, buf, hdr, gubTSblk,
                   gubNeedRebuildRemap, rebuilt, ret>>

\* llfCheckRDTPlaneAndDBTSize: planes and size of the table of groups.
OtherGeometry(r) == ~tested[r].fits

\* A bank of the first pass.  The tag is taken from the buffer in any case.
TakeTag ==
    /\ pc \in {"found", "not found"} /\ pass = 1
    /\ tags' = [tags EXCEPT ![at[1]] = buf]
    /\ gubNeedRebuildRemap' = (gubNeedRebuildRemap \/ (pc = "found" /\ OtherGeometry(buf)))
    /\ IF at[1] + 1 < BankNum
       THEN pc' = "result" /\ CallForBank(at[1] + 1)
       ELSE pc' = "tags" /\ UNCHANGED <<at, page, cmp>>
    /\ UNCHANGED <<flash, lost, where, tables, remapFrom, tested, buf, hdr, pass, gubTSblk,
                   passNum, rebuilt, ret>>

\* llfCheckBankRdtResultTag: one run of the test, and the banks are where they were.
llfCheckBankRdtResultTag ==
    \A b \in Bank : /\ b + 1 < BankNum => tested[tags[b]].run = tested[tags[b + 1]].run
                    /\ tested[tags[b]].bank = b
                    /\ tested[tags[b]].total = BankNum

AllStatic == \A b \in Bank : HasStatic(tags[b])

\* Results behind the copies are of no use, except for a format that asks for them.
OutOfPlace_Behind(w) == gubLLFMode # "DEFECT" /\ gubTSblk > w.start + SblkBlks
OutOfPlace(w) == gubLLFMode # "DEFECT" /\ gubTSblk >= w.start + SblkBlks

\* The window of the last result that was read is taken over, before it is known whether
\* the results are.
CheckTags ==
    /\ pc = "tags"
    /\ window' = IF buf = NoResult THEN window ELSE tested[buf].window
    /\ gulSblkCHCEMap' = IF buf = NoResult THEN {} ELSE MapOf(tested[buf].window)
    /\ gubNeedRebuildRemap' =
         (gubNeedRebuildRemap \/ (AllStatic /\ ~llfCheckBankRdtResultTag))
    /\ IF (~AllStatic /\ gubNeedRebuildRemap) \/ OutOfPlace(window')
       THEN pc' = "rdt fails" /\ UNCHANGED <<at, page, cmp, pass>>
       ELSE /\ pc' = "result" /\ pass' = 2 /\ page' = 0 /\ cmp' \in BOOLEAN
            /\ at' = <<0, IF gubLLFMode = "DEFECT" THEN window'.start + SblkBlks
                          ELSE window'.start>>
    /\ UNCHANGED <<flash, lost, tables, remapFrom, tested, buf, hdr, tags, gubTSblk, passNum,
                   rebuilt, ret>>

\* The end of a bank of the second pass; all of them have to be taken over.
AfterBank(passed) ==
    /\ passNum' = IF passed THEN passNum + 1 ELSE passNum
    /\ IF at[1] + 1 < BankNum
       THEN pc' = "result" /\ CallForBank(at[1] + 1) /\ UNCHANGED gfDBTInitDone
       ELSE /\ IF passNum' = BankNum
               THEN pc' = "rdt taken" /\ gfDBTInitDone' = "RDT"
               ELSE pc' = "rdt fails" /\ UNCHANGED gfDBTInitDone
            /\ UNCHANGED <<at, page, cmp>>

\* llfParseRDTResult, of a flash that is as it was tested.
ParseTables ==
    /\ pc = "found" /\ pass = 2 /\ ~gubNeedRebuildRemap
    /\ sysDbt' = [sysDbt EXCEPT ![at[1]] = @ \cup SystemBad(buf)]
    /\ dbt' = [dbt EXCEPT ![at[1]] = GroupsBad(buf) \cup TestDefects(buf)]
    /\ guwRealMPBlkNum' = tested[buf].real
    /\ \E ok \in Verdicts(buf) : AfterBank(ok)
    /\ UNCHANGED <<flash, lost, where, remapFrom, tested, buf, hdr, pass, tags, gubTSblk,
                   gubNeedRebuildRemap, rebuilt, ret>>

BankNotTaken ==
    /\ pc = "not found" /\ pass = 2
    /\ AfterBank(FALSE)
    /\ UNCHANGED <<flash, lost, where, dbt, sysDbt, guwRealMPBlkNum, remapFrom, tested, buf, hdr,
                   pass, tags, gubTSblk, gubNeedRebuildRemap, rebuilt, ret>>

------------------------------------------------------------------------------
(* llfParseRDTResult, of another flash: the table of single blocks         *)

StartRebuild ==
    /\ pc = "found" /\ pass = 2 /\ gubNeedRebuildRemap
    /\ pc' = "static" /\ at' = <<at[1], window.start + SblkBlks>> /\ cmp' \in BOOLEAN
    /\ UNCHANGED <<flash, lost, where, tables, remapFrom, tested, buf, hdr, page, pass, tags,
                   gubTSblk, gubNeedRebuildRemap, passNum, rebuilt, ret>>

CollectAll_NoFlush(c, bad) ==
    FoldLeft(CollectBad, [LlfInitReMapTable EXCEPT !.tab = c.tab],
             SetToSortSeq({x \in bad : x >= SysMax}, LAMBDA x, y : x < y))

\* The collector of a bank with the bad blocks; the last group stays in it, unless the
\* last block of the bank is bad.
CollectAll(c, bad) ==
    LET start == [LlfInitReMapTable EXCEPT !.tab = c.tab]
        end   == FoldLeft(CollectBad, start,
                          SetToSortSeq({x \in bad : x >= SysMax}, LAMBDA x, y : x < y))
    IN  IF MpNum * Planes - 1 \in bad THEN LlfCreatReMappingTable(end) ELSE end

TakeStatic(bad) ==
    LET b == at[1]
    IN  /\ sysDbt' = [sysDbt EXCEPT ![b] = @ \cup {x \in bad : x < SysMax}]
        /\ gulEraseFailSysblk' =
             gulEraseFailSysblk \cup {p \in Copies(window) : p[1] = b /\ p[2] \in bad}
        /\ remap' = [remap EXCEPT ![b] = CollectAll(@, bad)]
        /\ dbt' = [dbt EXCEPT ![b] = @ \cup {Group(x) : x \in bad}]

StaticPage == PageAt("static", at, 0)

\* The result is in buf until the table takes its place; the header is of its kind.
StaticRead ==
    /\ pc = "static" /\ at[2] < EndResultBlock
    /\ Reads(llfReadRetry(StaticPage))
    /\ TakeStatic(tested[at[1]].bad)
    /\ hdr' = "RDT" /\ buf' = NoResult
    /\ \E ok \in Verdicts(buf) : AfterBank(ok)
    /\ UNCHANGED <<flash, where, guwRealMPBlkNum, remapFrom, tested, pass, tags, gubTSblk,
                   gubNeedRebuildRemap, ret>>

\* Whether the read was answered is forgotten: with a header of the test in the buffer,
\* the result itself is taken for the table, and which blocks are bad in it is open.
StaticLost ==
    /\ pc = "static" /\ at[2] < EndResultBlock
    /\ TimesOut
    /\ IF FoundIn(cmp, hdr)
       THEN /\ \E bad \in {{}, Blk} : TakeStatic(bad)
            /\ \E ok \in Verdicts(buf) : AfterBank(ok)
       ELSE at' = <<at[1], at[2] + 1>> /\ UNCHANGED <<pc, page, cmp, tables, passNum, rebuilt>>
    /\ UNCHANGED <<flash, where, guwRealMPBlkNum, remapFrom, tested, buf, hdr, pass, tags, gubTSblk,
                   gubNeedRebuildRemap, ret>>

StaticMissed ==
    /\ pc = "static" /\ at[2] < EndResultBlock
    /\ ~llfReadRetry(StaticPage) /\ UNCHANGED lost
    /\ hdr' = "other" /\ cmp' = FALSE
    /\ at' = <<at[1], at[2] + 1>>
    /\ UNCHANGED <<flash, where, tables, remapFrom, tested, buf, page, pass, tags, gubTSblk,
                   gubNeedRebuildRemap, passNum, rebuilt, pc, ret>>

\* An assertion: the program stops.
NoStatic ==
    /\ pc = "static" /\ at[2] = EndResultBlock
    /\ pc' = "halt" /\ ret' = "ASSERT"
    /\ UNCHANGED <<flash, lost, where, tables, remapFrom, rdtVars, at>>

llfParseRDTResult ==
    ParseTables \/ StartRebuild \/ StaticRead \/ StaticLost \/ StaticMissed \/ NoStatic

RdtNext ==
    \/ llfLoadRDTResult \/ llfGetRDTBankResult \/ TakeTag \/ CheckTags
    \/ llfParseRDTResult \/ BankNotTaken
=============================================================================
