---------------------------- MODULE MCTaskCommand ----------------------------
(* A small flash, its marks, the commands and the eyes for TaskCommand.      *)
EXTENDS TaskCommand

OneMore(sets, from) == sets \cup {S \cup {c} : S \in sets, c \in from}

\* Up to two defective blocks, anywhere.
SomeVendors ==
    [bad : OneMore(OneMore({{}}, Bank \X Blk), Bank \X Blk),
     how : {<<"first", "spare">>, <<"last", "data">>, <<"last", "unread">>}]

Cmd(all, nondefect, rdtImg, normalEn, test, sandisk, bankStart, start) ==
    [all |-> all, nondefect |-> nondefect, rdtImg |-> rdtImg, normalEn |-> normalEn,
     test |-> test, sandisk |-> sandisk, bankStart |-> bankStart, start |-> start]

SomeCommands ==
    {Cmd(TRUE, FALSE, FALSE, FALSE, FALSE, TRUE, 0, 0),   \* a flash without marks
     Cmd(TRUE, TRUE, FALSE, FALSE, FALSE, FALSE, 1, 1),   \* a table is looked for
     Cmd(TRUE, TRUE, TRUE, TRUE, FALSE, FALSE, 1, 1),     \* the same for a reliability test
     Cmd(TRUE, TRUE, TRUE, FALSE, FALSE, FALSE, 1, 1),    \* one without a scan
     Cmd(FALSE, FALSE, FALSE, FALSE, FALSE, FALSE, 0, 0)} \* BE_LLF_ODBT

SomeTables == {Empty, [Empty EXCEPT ![1] = {0, 2}]}

\* Eyes of writes: one piece anywhere, or two; of reads: one piece.
SomeTxEyes ==
    {lo .. hi : lo \in -4 .. 2, hi \in -2 .. 4}
    \cup {(lo .. (lo + 1)) \cup (hi .. 4) : lo \in -4 .. 0, hi \in 2 .. 3}
    \cup {(-4 .. lo) \cup (hi .. (hi + 1)) : lo \in -3 .. -2, hi \in 0 .. 2}

SomeRxEyes == {lo .. hi : lo \in 0 .. 3, hi \in 0 .. 3}

\* A flash with three pages per word line, of which some other flashes differ in what is
\* named, and configurations of it that are refused.
Flash ==
    [banks |-> 2, luns |-> 1, blocks |-> 1006, pages |-> 576, type |-> 3, species |-> "TLC",
     planes |-> 2, sectors |-> 32, lbn |-> 8, fullPage |-> 18432, parity |-> 128, capacity |-> 480,
     heat |-> 85, errBits |-> 0, pads |-> [p \in {"ocd", "dqs", "dq", "dqs en", "dq en"} |-> -1],
     raid |-> 0, raidFlag |-> FALSE, raidTlc |-> 0, remap |-> TRUE, remapLen |-> 64,
     mapped |-> TRUE, rdt |-> FALSE, to12V |-> FALSE, rounds |-> TRUE, oneShift |-> FALSE,
     flashes |-> {0, 1}]

OtherFlashes ==
    {[Flash EXCEPT !.luns = 3, !.rounds = r] : r \in BOOLEAN}
    \cup {[Flash EXCEPT !.type = 1, !.species = "SLC", !.oneShift = TRUE, !.to12V = TRUE, !.heat = 40],
          [Flash EXCEPT !.type = 4, !.species = "QLC", !.pages = 768, !.planes = 4],
          [Flash EXCEPT !.pages = 1152, !.type = 4, !.species = "QLC", !.banks = 3, !.planes = 5,
                        !.flashes = 0 .. 2],
          [Flash EXCEPT !.banks = 1, !.planes = 1, !.pages = 384, !.flashes = {0}],
          [Flash EXCEPT !.capacity = 937703088],
          [Flash EXCEPT !.raid = 2, !.raidFlag = TRUE, !.raidTlc = 16, !.species = "other"],
          [Flash EXCEPT !.planes = 16, !.species = "other", !.pads["ocd"] = 197],
          [Flash EXCEPT !.raid = 16, !.raidFlag = TRUE, !.rdt = TRUE, !.remapLen = 300]}

RefusedConfigs ==
    {[Flash EXCEPT !.pages = 580], [Flash EXCEPT !.type = 0, !.pages = 577],
     [Flash EXCEPT !.species = "other"], [Flash EXCEPT !.fullPage = 16000],
     [Flash EXCEPT !.fullPage = 17000], [Flash EXCEPT !.sectors = 16], [Flash EXCEPT !.mapped = FALSE],
     [Flash EXCEPT !.remapLen = 300]}

\* And flashes of another kind in some of the banks.
SomeConfigs ==
    OtherFlashes \cup RefusedConfigs
    \cup {[Flash EXCEPT !.banks = 3, !.pages = 1152, !.flashes = f] : f \in SUBSET (0 .. 2)}
    \cup {Flash}
=============================================================================
