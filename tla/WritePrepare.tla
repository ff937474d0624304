---------------------------- MODULE WritePrepare ----------------------------
(***************************************************************************)
(* How llfWriteConfig finds out whether the flash has room (llf.c:11423 to *)
(* 11606): CalculateSnapshotArea lays the areas of the firmware out over   *)
(* the table of defects; a format then builds the table of replacements    *)
(* (RemapBuild), which takes superblocks out of use and brings others      *)
(* back; llfCheckDefectThreshold counts what is left behind the areas, and *)
(* where that is too little smaller capacities are tried.  A table that    *)
(* was inherited is checked before the erase, which finds more defects;    *)
(* only LLF_DEFECT_BAD_BLOCK checks again.                                 *)
(*                                                                         *)
(* Sizes are in groups (multi-plane blocks).  The table of defects has     *)
(* room for more groups than the flash has; those behind it are unmarked.  *)
(***************************************************************************)
EXTENDS RemapBuild

CONSTANTS
    DynBegin,     \* guwCaclDynSBlockBegin: the first block behind those of the test
    DynamicNum,   \* TotalDynamicSblkNum: blocks for the state of the drive
    SnapshotNum,  \* SnapshotGroupNum: superblocks for snapshots
    Capacities,   \* the capacity configured, then gulAutoCapacity
    Reserve,      \* 14: groups of each bank that garbage collection needs
    BankLimit,    \* gubDefectRatioPerBank: bad groups a bank may have in a test
    L2PLimit,     \* the last group the format of L2P addresses can have
    Inherited,    \* the pairs of bad blocks and mode of the inherited tables
    MaxBad        \* bound: blocks whose erase fails after a table was inherited

\* A capacity: the groups the host gets, superblocks and groups of its map (L2P), and
\* the share of free groups per thousand.
Capacity == [host : Nat, bs : Nat \ {0}, mp : Nat, op : Nat]

ASSUME PrepareAssumption ==
    /\ DynBegin \in 0 .. (SysMax - 1)
    /\ DynamicNum \in Nat \ {0} /\ SnapshotNum \in Nat \ {0}
    /\ Capacities \in Seq(Capacity) /\ Capacities # <<>>
    /\ Reserve \in Nat /\ BankLimit \in Nat /\ L2PLimit \in Nat
    /\ \A x \in Inherited : x.bad \subseteq Bank \X Blk /\ x.mode \in {"INHERIT", "DEFECT", "TEST"}
    /\ MaxBad \in Nat

VARIABLES
    mode,      \* "FORMAT", or gubLLFMode of an inheritance; "TEST" for the test's own firmware
    phase,     \* where llfWriteConfig is
    wanted,    \* the capacity that is tried, a place in Capacities
    tried,     \* how many of gulAutoCapacity were tried in this check
    areas,     \* the first group of snapshots, and the first behind snapshots and L2P
    grown      \* blocks whose erase failed after the table was inherited

ours == <<mode, phase, wanted, tried, areas, grown>>
allVars == <<vars, ours>>

Cap == Capacities[wanted]

------------------------------------------------------------------------------
(* CalculateSnapshotArea                                                   *)

\* A superblock with few bad banks is used; its good groups are.
Usable(m) == Cardinality(BadBanks(m)) <= BadBsTh

Good(S) == {g \in Bank \X S : Usable(g[2]) /\ ~llfIsMpBlockBad(dbt, g[1], g[2])}

\* No area ends behind this group: all groups behind the flash are unmarked.
Far(cap) == MpNum + DynamicNum + SnapshotNum + cap.bs + cap.mp

\* Blocks for the state of the drive, which does without the superblocks' tables.
HoldsStates(S) ==
    Cardinality({x \in Bank \X UNION {BlocksOf(m) : m \in S} :
                   x[2] >= DynBegin /\ ~llfIsSystemBlkDefect(sysDbt, x[1], x[2])}) >= DynamicNum

HoldsSnapshots(S) == Cardinality({m \in S : Usable(m)}) >= SnapshotNum

HoldsMap(cap, S) ==
    Cardinality({m \in S : Usable(m)}) >= cap.bs /\ Cardinality(Good(S)) >= cap.mp

\* An area has one group at least, and ends with the first that makes it large enough.
IsEnd(first, end, enough, enoughBefore) == enough /\ (end = first + 1 \/ ~enoughBefore)

StatesEnd(cap) ==
    LET first == Group(DynBegin) IN
    CHOOSE end \in (first + 1) .. Far(cap) :
        IsEnd(first, end, HoldsStates(first .. (end - 1)), HoldsStates(first .. (end - 2)))

SnapshotsEnd(cap, first) ==
    CHOOSE end \in (first + 1) .. Far(cap) :
        IsEnd(first, end, HoldsSnapshots(first .. (end - 1)), HoldsSnapshots(first .. (end - 2)))

MapEnd(cap, first) ==
    CHOOSE end \in (first + 1) .. Far(cap) :
        IsEnd(first, end, HoldsMap(cap, first .. (end - 1)), HoldsMap(cap, first .. (end - 2)))

CalculateSnapshotArea(cap) ==
    LET begin == StatesEnd(cap)
        end   == SnapshotsEnd(cap, begin)
    IN  [ssBegin |-> begin, ssEnd |-> end, l2pEnd |-> MapEnd(cap, end)]

------------------------------------------------------------------------------
(* llfCheckDefectThreshold                                                 *)

Total == MpNum * BankNum

\* The groups behind the areas.
Behind == {m \in Mp : m >= areas.l2pEnd}

BadBehind == Cardinality((Bank \X Behind) \ Good(Behind))

Used(cap) == BadBehind + cap.host + areas.l2pEnd * BankNum

\* llfCheckCapacityOP
FreeEnough(cap) ==
    /\ Total - Used(cap) >= (cap.host * cap.op) \div 1000
    /\ Total - Used(cap) >= Reserve * BankNum

\* The limit of a bank, in the firmware of the reliability test.
BankOverLimit == mode = "TEST" /\ \E b \in Bank :
    Cardinality({m \in Behind : llfIsMpBlockBad(dbt, b, m)}) * 1000 > MpNum * BankLimit

\* llfCheckSuperPBABits
MapTooLong == areas.l2pEnd > L2PLimit

llfCheckDefectThreshold(cap) ==
    IF BankOverLimit THEN "ERR_UNENOUGH_USER_NOSLC"
    ELSE IF areas.ssEnd * Planes >= SysMax \/ MapTooLong THEN "ERR_UNENOUGH_SNAPSHOT"
    ELSE IF Total < Used(cap) THEN "ERR_UNENOUGH_USER_NOSLC"
    ELSE IF Total = Used(cap) \/ ~FreeEnough(cap) THEN "ERR_LESS_FREE_FOR_GC"
    ELSE "ERR_OK"

------------------------------------------------------------------------------
(* The preparation                                                         *)

PrepareInit ==
    /\ wanted = 1 /\ tried = 0 /\ phase = "areas" /\ grown = {}
    /\ areas = [ssBegin |-> 0, ssEnd |-> 0, l2pEnd |-> 0]
    /\ \/ mode = "FORMAT" /\ Init
       \/ \E x \in Inherited :
            /\ mode = x.mode
            /\ failed = x.bad /\ marked = {}
            /\ dbt = [b \in Bank |-> {Group(c) : c \in Of(b, x.bad)}]
            /\ sysDbt = [b \in Bank |-> {c \in Of(b, x.bad) : c < SysMax}]
            /\ remap = [b \in Bank |-> LlfInitReMapTable] /\ selected = <<>>
            /\ index = [m \in Mp |-> NoIndex] /\ bitmap = [m \in Mp |-> {}]
            /\ used = [i \in Slot |-> {}] /\ cur = [b \in Bank |-> 0]
            /\ pc = "erase" /\ bank = 0 /\ plane = 0 /\ place = 0
            /\ uwcount = 0 /\ ret = "ERR_OK" /\ unread = 0

LayOut ==
    /\ phase = "areas"
    /\ areas' = CalculateSnapshotArea(Cap)
    /\ phase' = IF mode = "FORMAT" THEN "remap" ELSE "check"
    /\ UNCHANGED <<vars, mode, wanted, tried, grown>>

\* The table of replacements is built by the areas of the old table.
BuildRemap ==
    /\ phase = "remap" /\ pc # "done" /\ areas.ssEnd = SSEnd
    /\ Next
    /\ UNCHANGED ours

RemapBuilt ==
    /\ phase = "remap" /\ pc = "done"
    /\ phase' = IF ret = "ERR_OK" THEN "check" ELSE "refused"
    /\ UNCHANGED <<vars, mode, wanted, tried, areas, grown>>

Checks == phase \in {"check", "recheck"}

Accept ==
    /\ Checks /\ llfCheckDefectThreshold(Cap) = "ERR_OK"
    /\ phase' = IF phase = "check" /\ mode \in {"INHERIT", "DEFECT"} THEN "erase" ELSE "accepted"
    /\ UNCHANGED <<vars, mode, wanted, tried, areas, grown>>

Another == tried + 1 < Len(Capacities)

\* The next capacity: the first of gulAutoCapacity in the repeated check too
\* (llfCheckDefectThresholdAgain).
TryNext ==
    /\ Checks /\ llfCheckDefectThreshold(Cap) # "ERR_OK" /\ Another
    /\ tried' = tried + 1 /\ wanted' = tried' + 1
    /\ areas' = CalculateSnapshotArea(Capacities[wanted'])
    /\ UNCHANGED <<vars, mode, phase, grown>>

GiveUp ==
    /\ Checks /\ llfCheckDefectThreshold(Cap) # "ERR_OK" /\ ~Another
    /\ phase' = "refused"
    /\ UNCHANGED <<vars, mode, wanted, tried, areas, grown>>

\* A block fails in the erase that follows an inheritance (EraseAll).
EraseFails ==
    /\ phase = "erase" /\ Cardinality(grown) < MaxBad
    /\ \E b \in Bank, x \in Blk :
         /\ ~llfIsBlockBad(dbt, b, x)
         /\ grown' = grown \cup {<<b, x>>}
         /\ dbt' = llfSetDBT(dbt, b, x)
         /\ sysDbt' = IF x < SysMax THEN llfMarkSystemBlkDefect(sysDbt, b, x) ELSE sysDbt
    /\ UNCHANGED <<flash, remap, selected, result, pc, bank, plane, place, uwcount, ret, unread,
                   mode, phase, wanted, tried, areas>>

\* Mutant: what the erase has found is not looked at.
AfterErase_Accepted == "accepted"

AfterErase == IF mode = "DEFECT" THEN "recheck" ELSE "accepted"

EraseDone ==
    /\ phase = "erase" /\ phase' = AfterErase
    /\ tried' = 0
    /\ UNCHANGED <<vars, mode, wanted, areas, grown>>

PrepareNext ==
    \/ LayOut \/ BuildRemap \/ RemapBuilt \/ Accept \/ TryNext \/ GiveUp
    \/ EraseFails \/ EraseDone

PrepareSpec == PrepareInit /\ [][PrepareNext]_allVars

------------------------------------------------------------------------------
(* Properties                                                              *)

\* A capacity that was accepted finds its groups: behind the areas as many good groups of
\* superblocks that are used are left as the host and garbage collection need, with the
\* table as it is then, after the build of replacements and the erase.  (Not after an
\* inheritance in the other modes, where the erase may take away what was counted.)
RoomForHost ==
    phase = "accepted" /\ mode # "INHERIT" =>
        LET free == Cardinality(Good(Behind)) - Cap.host
        IN  free >= (Cap.host * Cap.op) \div 1000 /\ free >= Reserve * BankNum

\* No block of these groups failed or has a mark of the vendor.
Whole(S) == \A b \in Bank : \A x \in Bad(b) : Group(x) \notin S

\* In a format the areas still hold what they were laid out for, although that was done
\* before superblocks were given up and replaced: those of the states and snapshots always,
\* and that of the map (L2P) unless superblocks in it were broken and the areas were not laid
\* out again for a smaller capacity.
AreasSuffice ==
    phase = "accepted" /\ mode = "FORMAT" =>
        LET map == areas.ssEnd .. (areas.l2pEnd - 1)
        IN  /\ HoldsStates(Group(DynBegin) .. (areas.ssBegin - 1))
            /\ HoldsSnapshots(areas.ssBegin .. (areas.ssEnd - 1))
            /\ tried > 0 \/ Whole(map) => HoldsMap(Cap, map)
=============================================================================
