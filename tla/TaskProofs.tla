----------------------------- MODULE TaskProofs -----------------------------
(***************************************************************************)
(* Theorems about the parts of TaskCommand, for every flash and every      *)
(* bound.  Each part has an inductive invariant of its own; the variables  *)
(* of the other parts do not change.                                       *)
(***************************************************************************)
EXTENDS TaskCommand, FiniteSetTheorems, WellFoundedInduction, TLAPS

Tables == [Bank -> SUBSET Nat]

----------------------------------------------------------------------------
(* The defect tables of a new flash                                        *)

ScanRecord ==
    [pc : {"begin", "search", "choose", "scan", "done", "assert"}, bank : Int, blk : Int,
     ubBankNo : Nat, calls : Nat, lost : Nat, first : BOOLEAN, ret : {"SEARCH", "OK"},
     gfDBTInitDone : {"NONE", "SYSTEM", "FACTORY"}, from : {<<>>} \cup (Tables \X Tables)]

\* The blocks before a place of llfScanFactoryDefectBlocks.
SeenBefore(bank, blk) ==
    {p \in Bank \X Blk : p[2] < blk \/ (p[2] = blk /\ p[1] < bank)}

\* Of the blocks that have to be found, those of S in a bank.
FoundIn(S, b) == {blk \in Looked(b) : <<b, blk>> \in S}

\* The tables of a bank show the blocks of S that have to be found, on top of what the scan
\* began with; of the system blocks outside S none is marked by the scan.
ShownIn(sys, grp, lost, S, b) ==
    LET sysFound == scan.from[2][b] \cup {blk \in FoundIn(S, b) : blk < SysMax}
        grpFound == scan.from[1][b] \cup {Group(blk) : blk \in FoundIn(S, b)}
    IN  /\ sysFound \subseteq sys /\ grpFound \subseteq grp
        /\ (lost = 0 => sys = sysFound /\ grp = grpFound)
        /\ sys \subseteq scan.from[2][b] \cup {blk \in Blk : <<b, blk>> \in S}

Shown(sys, grp, lost, S) == \A b \in Bank : ShownIn(sys[b], grp[b], lost, S, b)

ScanType ==
    /\ vendor \in VendorMarks /\ cmd \in Command /\ dbt \in Tables /\ sysDbt \in Tables
    /\ scan \in ScanRecord

ScanInv ==
    /\ ScanType
    /\ scan.pc \in {"search", "choose"} => scan.from = <<>>
    /\ scan.pc = "scan" =>
         /\ scan.bank \in Bank /\ scan.blk \in Blk /\ scan.from \in Tables \X Tables
         /\ Shown(sysDbt, dbt, scan.lost, SeenBefore(scan.bank, scan.blk))
    /\ scan.pc = "done" /\ scan.from # <<>> => Shown(sysDbt, dbt, scan.lost, Bank \X Blk)

ScanPart == IF part = "defect tables" THEN ScanInv ELSE scan.pc = "idle"

\* A pair is what its two parts say.
LEMMA PairOf == \A X, Y : \A h \in X \X Y : h = <<h[1], h[2]>> /\ h[1] \in X /\ h[2] \in Y
<1> SUFFICES ASSUME NEW X, NEW Y, NEW h \in X \X Y
             PROVE  h = <<h[1], h[2]>> /\ h[1] \in X /\ h[2] \in Y
  OBVIOUS
<1>1. h = <<h[1], h[2]>>
  OBVIOUS
<1>2. h[1] \in X /\ h[2] \in Y
  OBVIOUS
<1> QED BY <1>1, <1>2

\* The four reads that are answered show a block's mark, and only a mark.
LEMMA MarksAreSeen ==
    /\ llfChkDefectBlk(Good, Good, "answered")
    /\ \A how \in Conditions : \A lost : \A answer \in {"answered", "stale error", "stale ok"} :
         ~llfChkDefectBlk(how, lost, answer)
<1>1. llfChkDefectBlk(Good, Good, "answered")
  <2> SUFFICES ASSUME NEW k \in MarkPlaces
               PROVE  llffioDefectRead(Good, k, "answered") = "clean"
    BY DEF llfChkDefectBlk, llfIsDefectBlk
  <2> QED BY DEF llffioDefectRead, Good, MarkPlaces
<1>2. ASSUME NEW how \in Conditions, NEW lost, NEW answer \in {"answered", "stale error", "stale ok"}
      PROVE  ~llfChkDefectBlk(how, lost, answer)
  <2> DEFINE seen(k) == llffioDefectRead(how, k, IF k = lost THEN answer ELSE "answered")
  <2> SUFFICES \E k \in MarkPlaces : seen(k) = "error" \/ seen(k) = "marked"
    BY DEF llfChkDefectBlk, llfIsDefectBlk
  <2>1. PICK x \in {"first", "last"} :
          how = <<x, "data">> \/ how = <<x, "spare">> \/ how = <<x, "unread">>
    <3>1. how \in {"first", "last"} \X {"data", "spare"}
          \/ how \in {"first", "last"} \X {"unread"}
      BY DEF Conditions, MarkPlaces
    <3>2. how = <<how[1], how[2]>> /\ how[1] \in {"first", "last"}
          /\ how[2] \in {"data", "spare", "unread"}
      <4>2. CASE how \in {"first", "last"} \X {"data", "spare"}
        <5> DEFINE X == {"first", "last"}
                   Y == {"data", "spare"}
        <5>1. how \in X \X Y
          BY <4>2
        <5> HIDE DEF X, Y
        <5>2. how = <<how[1], how[2]>> /\ how[1] \in X /\ how[2] \in Y
          BY PairOf, <5>1
        <5> QED BY <5>2 DEF X, Y
      <4>3. CASE how \in {"first", "last"} \X {"unread"}
        BY PairOf, <4>3
      <4> QED BY <3>1, <4>2, <4>3
    <3>3. how[2] = "data" \/ how[2] = "spare" \/ how[2] = "unread"
      BY <3>2
    <3>4. how = <<how[1], "data">> \/ how = <<how[1], "spare">> \/ how = <<how[1], "unread">>
      BY <3>2, <3>3
    <3> QED BY <3>2, <3>4
  <2>2. <<x, "data">> \in MarkPlaces /\ <<x, "spare">> \in MarkPlaces
    BY DEF MarkPlaces
  <2>3. CASE how = <<x, "data">>
    <3>1. seen(<<x, "data">>) \in {"error", "marked"}
      BY <2>3 DEF llffioDefectRead
    <3> QED BY <2>2, <3>1
  <2>4. CASE how = <<x, "spare">>
    <3>1. seen(<<x, "spare">>) \in {"error", "marked"}
      BY <2>4 DEF llffioDefectRead
    <3> QED BY <2>2, <3>1
  <2>5. CASE how = <<x, "unread">>
    <3>1. seen(<<x, "data">>) \in {"error", "marked"}
      BY <2>5 DEF llffioDefectRead
    <3> QED BY <2>2, <3>1
  <2> QED BY <2>1, <2>3, <2>4, <2>5
<1> QED BY <1>1, <1>2

\* One more block: it is passed over, or it is looked at and found good or not.
LEMMA OneMore ==
    ASSUME ScanType, scan.from \in Tables \X Tables,
           NEW b \in Bank, NEW blk \in Blk, NEW S, <<b, blk>> \notin S,
           NEW s \in SUBSET Nat, NEW g \in SUBSET Nat, NEW lost \in Nat,
           ShownIn(sysDbt[b], dbt[b], scan.lost, S, b),
           \/ PassOver(b, blk) /\ s = sysDbt[b] /\ g = dbt[b] /\ lost = scan.lost
           \/ \E good \in BOOLEAN :
                /\ ~PassOver(b, blk)
                /\ <<b, blk>> \in vendor.bad => ~good
                /\ lost = 0 => scan.lost = 0 /\ (<<b, blk>> \notin vendor.bad => good)
                /\ s = sysDbt[b] \cup (IF ~good /\ blk < SysMax THEN {blk} ELSE {})
                /\ g = dbt[b] \cup (IF good THEN {} ELSE {Group(blk)})
    PROVE  ShownIn(s, g, lost, S \cup {<<b, blk>>}, b)
<1> DEFINE T == S \cup {<<b, blk>>}
<1>0. blk \in Int /\ SysMax \in Int
  BY GeometryAssumption, ScanAssumption DEF Blk
<1>1. FoundIn(T, b) = FoundIn(S, b) \cup (IF blk \in Looked(b) THEN {blk} ELSE {})
  BY DEF FoundIn
<1>2. {q \in Blk : <<b, q>> \in T} = {q \in Blk : <<b, q>> \in S} \cup {blk}
  OBVIOUS
<1>4. blk \in Looked(b) <=>
        /\ <<b, blk>> \in vendor.bad
        /\ IF blk < SysMax THEN blk \notin scan.from[2][b] /\ (blk \in TestBlocks => cmd.rdtImg)
           ELSE Group(blk) \notin scan.from[1][b]
  <2>1. vendor.bad \subseteq Bank \X Blk
    BY DEF ScanType, VendorMarks
  <2>2. blk \in Marked(b) => <<b, blk>> \in vendor.bad
    <3>1. ASSUME NEW p \in vendor.bad, p[1] = b, p[2] = blk
          PROVE  p = <<b, blk>>
      BY <2>1, <3>1
    <3> QED BY <3>1 DEF Marked
  <2>3. <<b, blk>> \in vendor.bad => blk \in Marked(b)
    <3>1. <<b, blk>>[1] = b /\ <<b, blk>>[2] = blk
      OBVIOUS
    <3> QED BY <3>1 DEF Marked
  <2> QED BY <2>2, <2>3 DEF Looked
<1>5. PassOver(b, blk) <=>
        IF blk < SysMax THEN blk \in sysDbt[b] \/ (blk \in TestBlocks /\ ~cmd.rdtImg)
        ELSE Group(blk) \in dbt[b]
  BY DEF PassOver, llfIsSystemBlkDefect, llfIsBlockBad, llfIsMpBlockBad
<1> DEFINE F1 == scan.from[1][b]
           F2 == scan.from[2][b]
           sysS == F2 \cup {q \in FoundIn(S, b) : q < SysMax}
           grpS == F1 \cup {Group(q) : q \in FoundIn(S, b)}
           here == {q \in Blk : <<b, q>> \in S}
<1>6. /\ sysS \subseteq sysDbt[b] /\ grpS \subseteq dbt[b]
      /\ (scan.lost = 0 => sysDbt[b] = sysS /\ dbt[b] = grpS)
      /\ sysDbt[b] \subseteq F2 \cup here
  BY DEF ShownIn
<1>7. F2 \cup {q \in FoundIn(T, b) : q < SysMax}
        = sysS \cup (IF blk \in Looked(b) /\ blk < SysMax THEN {blk} ELSE {})
  BY <1>1
<1>8. F1 \cup {Group(q) : q \in FoundIn(T, b)}
        = grpS \cup (IF blk \in Looked(b) THEN {Group(blk)} ELSE {})
  BY <1>1
<1>9. blk \notin here /\ F2 \subseteq sysDbt[b] /\ F1 \subseteq dbt[b]
  BY <1>6
<1>10. SUFFICES /\ sysS \cup (IF blk \in Looked(b) /\ blk < SysMax THEN {blk} ELSE {}) \subseteq s
                /\ grpS \cup (IF blk \in Looked(b) THEN {Group(blk)} ELSE {}) \subseteq g
                /\ lost = 0 =>
                     /\ s = sysS \cup (IF blk \in Looked(b) /\ blk < SysMax THEN {blk} ELSE {})
                     /\ g = grpS \cup (IF blk \in Looked(b) THEN {Group(blk)} ELSE {})
                /\ s \subseteq F2 \cup here \cup {blk}
  <2> HIDE DEF sysS, grpS
  <2> QED BY <1>2, <1>7, <1>8 DEF ShownIn
<1> HIDE DEF T, F1, F2, sysS, grpS, here
<1>11. CASE PassOver(b, blk) /\ s = sysDbt[b] /\ g = dbt[b] /\ lost = scan.lost
  <2>1. CASE blk < SysMax
    <3>1. blk \notin Looked(b)
      BY <1>4, <1>5, <1>6, <1>9, <1>11, <2>1 DEF F2
    <3> QED BY <3>1, <1>6, <1>11
  <2>2. CASE ~(blk < SysMax)
    <3>1. Group(blk) \in dbt[b]
      BY <1>5, <1>11, <2>2
    <3>2. lost = 0 /\ blk \in Looked(b) => Group(blk) \in grpS
      BY <3>1, <1>6, <1>11
    <3> QED BY <3>1, <3>2, <1>6, <1>11, <2>2
  <2> QED BY <2>1, <2>2
<1>12. ASSUME NEW good \in BOOLEAN, ~PassOver(b, blk), <<b, blk>> \in vendor.bad => ~good,
              lost = 0 => scan.lost = 0 /\ (<<b, blk>> \notin vendor.bad => good),
              s = sysDbt[b] \cup (IF ~good /\ blk < SysMax THEN {blk} ELSE {}),
              g = dbt[b] \cup (IF good THEN {} ELSE {Group(blk)})
       PROVE  /\ sysS \cup (IF blk \in Looked(b) /\ blk < SysMax THEN {blk} ELSE {}) \subseteq s
              /\ grpS \cup (IF blk \in Looked(b) THEN {Group(blk)} ELSE {}) \subseteq g
              /\ lost = 0 =>
                   /\ s = sysS \cup (IF blk \in Looked(b) /\ blk < SysMax THEN {blk} ELSE {})
                   /\ g = grpS \cup (IF blk \in Looked(b) THEN {Group(blk)} ELSE {})
              /\ s \subseteq F2 \cup here \cup {blk}
  <2>1. blk \in Looked(b) <=> <<b, blk>> \in vendor.bad
    BY <1>4, <1>5, <1>9, <1>12 DEF F1, F2
  <2>2. CASE good
    BY <2>1, <2>2, <1>6, <1>12
  <2>3. CASE ~good
    BY <2>1, <2>3, <1>6, <1>12
  <2> QED BY <2>2, <2>3
<1> QED BY <1>11, <1>12

\* A step to the next place, or from the last one to the end.
OnFrom(n) ==
    /\ n \in ScanRecord /\ n.from = scan.from
    /\ \/ /\ n.pc = "scan" /\ n.bank \in Bank /\ n.blk \in Blk
          /\ SeenBefore(n.bank, n.blk) = SeenBefore(scan.bank, scan.blk) \cup {<<scan.bank, scan.blk>>}
       \/ /\ n.pc = "done"
          /\ Bank \X Blk = SeenBefore(scan.bank, scan.blk) \cup {<<scan.bank, scan.blk>>}

\* The place moves over the banks of a block and then to the next block.
LEMMA Onward ==
    ASSUME ScanType, scan.pc = "scan", scan.bank \in Bank, scan.blk \in Blk
    PROVE  \A n : n = NextPlace => OnFrom(n) /\ n.lost = scan.lost
<1> TAKE n
<1> HAVE n = NextPlace
<1>0. /\ BankNum \in Nat /\ BlockNum \in Nat /\ BankNum > 0
      /\ scan.bank \in Int /\ scan.blk \in Int /\ 0 <= scan.bank /\ 0 <= scan.blk
      /\ scan.bank <= BankNum - 1 /\ scan.blk <= BlockNum - 1
  BY ScanAssumption DEF Bank, Blk
<1>t. scan \in ScanRecord
  BY DEF ScanType
<1> DEFINE S == SeenBefore(scan.bank, scan.blk) \cup {<<scan.bank, scan.blk>>}
<1>1. CASE scan.bank < BankNum - 1
  <2>1. n = [scan EXCEPT !.bank = scan.bank + 1]
    BY <1>1 DEF NextPlace
  <2>2. n \in ScanRecord
    BY SMTT(30), <1>t, <1>0, <2>1 DEF ScanRecord
  <2>3. /\ n.from = scan.from /\ n.lost = scan.lost /\ n.pc = "scan"
        /\ n.bank = scan.bank + 1 /\ n.blk = scan.blk
    BY <1>t, <2>1 DEF ScanRecord
  <2>4. n.bank \in Bank /\ n.blk \in Blk
    BY <1>0, <1>1, <2>3 DEF Bank, Blk
  <2>5. ASSUME NEW p \in Bank \X Blk
        PROVE  (p[2] < scan.blk \/ (p[2] = scan.blk /\ p[1] < scan.bank + 1))
               <=> (p[2] < scan.blk \/ (p[2] = scan.blk /\ p[1] < scan.bank))
                   \/ p = <<scan.bank, scan.blk>>
    <3>1. p[1] \in Int /\ p[2] \in Int
      BY DEF Bank, Blk
    <3>2. p = <<p[1], p[2]>>
      OBVIOUS
    <3> QED BY <1>0, <3>1, <3>2
  <2>6. SeenBefore(n.bank, n.blk) = S
    BY <2>3, <2>5 DEF SeenBefore
  <2> QED BY <2>2, <2>3, <2>4, <2>6 DEF OnFrom
<1>2. CASE ~(scan.bank < BankNum - 1) /\ scan.blk < BlockNum - 1
  <2>1. n = [scan EXCEPT !.bank = 0, !.blk = scan.blk + 1]
    BY <1>2 DEF NextPlace
  <2>2. n \in ScanRecord
    <3>1. PICK next \in Int : next = scan.blk + 1
      BY <1>0
    <3>2. n = [[scan EXCEPT !.bank = 0] EXCEPT !.blk = next]
      BY <2>1, <3>1
    <3>3. [scan EXCEPT !.bank = 0] \in ScanRecord
      BY <1>t DEF ScanRecord
    <3>4. \A r \in ScanRecord : [r EXCEPT !.blk = next] \in ScanRecord
      BY DEF ScanRecord
    <3> QED BY <3>2, <3>3, <3>4
  <2>3. /\ n.from = scan.from /\ n.lost = scan.lost /\ n.pc = "scan"
        /\ n.bank = 0 /\ n.blk = scan.blk + 1
    BY <1>t, <2>1 DEF ScanRecord
  <2>4. n.bank \in Bank /\ n.blk \in Blk
    BY <1>0, <1>2, <2>3 DEF Bank, Blk
  <2>5. ASSUME NEW p \in Bank \X Blk
        PROVE  (p[2] < scan.blk + 1 \/ (p[2] = scan.blk + 1 /\ p[1] < 0))
               <=> (p[2] < scan.blk \/ (p[2] = scan.blk /\ p[1] < scan.bank))
                   \/ p = <<scan.bank, scan.blk>>
    <3>1. p[1] \in Int /\ p[2] \in Int /\ 0 <= p[1] /\ p[1] <= scan.bank
      BY <1>0, <1>2 DEF Bank, Blk
    <3>2. p = <<p[1], p[2]>>
      OBVIOUS
    <3> QED BY <1>0, <3>1, <3>2
  <2>6. SeenBefore(n.bank, n.blk) = S
    BY <2>3, <2>5 DEF SeenBefore
  <2> QED BY <2>2, <2>3, <2>4, <2>6 DEF OnFrom
<1>3. CASE ~(scan.bank < BankNum - 1) /\ ~(scan.blk < BlockNum - 1)
  <2>1. n = [scan EXCEPT !.pc = "done", !.gfDBTInitDone = "FACTORY"]
    BY <1>3 DEF NextPlace, Done
  <2>2. n \in ScanRecord
    BY <1>t, <2>1 DEF ScanRecord
  <2>3. n.from = scan.from /\ n.lost = scan.lost /\ n.pc = "done"
    BY <1>t, <2>1 DEF ScanRecord
  <2>4. ASSUME NEW p \in Bank \X Blk
        PROVE  (p[2] < scan.blk \/ (p[2] = scan.blk /\ p[1] < scan.bank))
               \/ p = <<scan.bank, scan.blk>>
    <3>1. /\ p[1] \in Int /\ p[2] \in Int /\ p[1] <= scan.bank /\ p[2] <= scan.blk
      BY <1>0, <1>3 DEF Bank, Blk
    <3>2. p = <<p[1], p[2]>>
      OBVIOUS
    <3> QED BY <1>0, <3>1, <3>2
  <2>5. Bank \X Blk = S
    BY <2>4 DEF SeenBefore
  <2> QED BY <2>2, <2>3, <2>5 DEF OnFrom
<1> QED BY <1>1, <1>2, <1>3

\* What one block adds to the tables.
Adds(good) ==
    /\ sysDbt' = IF ~good /\ scan.blk < SysMax
                 THEN llfMarkSystemBlkDefect(sysDbt, scan.bank, scan.blk) ELSE sysDbt
    /\ dbt' = IF good THEN dbt ELSE llfSetDBT(dbt, scan.bank, scan.blk)

\* One block of the scan keeps the invariant.
LEMMA OneBlock ==
    ASSUME ScanInv, scan.pc = "scan", vendor' = vendor, cmd' = cmd, OnFrom(scan'),
           \/ PassOver(scan.bank, scan.blk) /\ scan'.lost = scan.lost
              /\ sysDbt' = sysDbt /\ dbt' = dbt
           \/ \E good \in BOOLEAN :
                /\ ~PassOver(scan.bank, scan.blk) /\ Adds(good)
                /\ <<scan.bank, scan.blk>> \in vendor.bad => ~good
                /\ \/ /\ scan'.lost = scan.lost
                      /\ <<scan.bank, scan.blk>> \notin vendor.bad => good
                   \/ scan'.lost = scan.lost + 1
    PROVE  ScanInv'
<1> DEFINE here == <<scan.bank, scan.blk>>
           S == SeenBefore(scan.bank, scan.blk)
           T == S \cup {here}
<1>0. /\ ScanType /\ scan.bank \in Bank /\ scan.blk \in Blk /\ scan.from \in Tables \X Tables
      /\ Shown(sysDbt, dbt, scan.lost, S)
  BY DEF ScanInv
<1>1. scan' \in ScanRecord /\ scan'.from = scan.from /\ scan'.lost \in Nat
  BY DEF OnFrom, ScanRecord
<1>2. scan.blk \in Nat /\ Group(scan.blk) \in Nat
  BY <1>0, GeometryAssumption, ScanAssumption DEF Group, Blk
<1>3. /\ sysDbt' \in Tables /\ dbt' \in Tables
      /\ \A b \in Bank \ {scan.bank} : sysDbt'[b] = sysDbt[b] /\ dbt'[b] = dbt[b]
  <2>1. sysDbt \in Tables /\ dbt \in Tables
    BY <1>0 DEF ScanType
  <2>2. CASE sysDbt' = sysDbt /\ dbt' = dbt
    BY <2>1, <2>2
  <2>3. ASSUME NEW good \in BOOLEAN, Adds(good)
        PROVE  /\ sysDbt' \in Tables /\ dbt' \in Tables
               /\ \A b \in Bank \ {scan.bank} : sysDbt'[b] = sysDbt[b] /\ dbt'[b] = dbt[b]
    <3>1. sysDbt' \in Tables /\ \A b \in Bank \ {scan.bank} : sysDbt'[b] = sysDbt[b]
      <4>1. CASE sysDbt' = sysDbt
        BY <2>1, <4>1
      <4>2. CASE sysDbt' = llfMarkSystemBlkDefect(sysDbt, scan.bank, scan.blk)
        BY <2>1, <1>0, <1>2, <4>2 DEF llfMarkSystemBlkDefect, Tables
      <4> QED BY <2>3, <4>1, <4>2 DEF Adds
    <3>2. dbt' \in Tables /\ \A b \in Bank \ {scan.bank} : dbt'[b] = dbt[b]
      <4>1. CASE dbt' = dbt
        BY <2>1, <4>1
      <4>2. CASE dbt' = llfSetDBT(dbt, scan.bank, scan.blk)
        BY <2>1, <1>0, <1>2, <4>2 DEF llfSetDBT, llfMarkUserMPBlkDefect, Tables
      <4> QED BY <2>3, <4>1, <4>2 DEF Adds
    <3> QED BY <3>1, <3>2
  <2> QED BY <2>2, <2>3
<1>4. ScanType'
  BY <1>0, <1>1, <1>3 DEF ScanType
<1>5. here \notin S
  BY <1>0, ScanAssumption DEF SeenBefore, Bank, Blk
<1>6. ShownIn(sysDbt'[scan.bank], dbt'[scan.bank], scan'.lost, T, scan.bank)
  <2> DEFINE s == sysDbt'[scan.bank]
             g == dbt'[scan.bank]
             lost == scan'.lost
  <2>1. s \in SUBSET Nat /\ g \in SUBSET Nat
    BY <1>0, <1>3 DEF Tables
  <2>2. ShownIn(sysDbt[scan.bank], dbt[scan.bank], scan.lost, S, scan.bank)
    BY <1>0 DEF Shown
  <2>3. CASE PassOver(scan.bank, scan.blk) /\ scan'.lost = scan.lost
             /\ sysDbt' = sysDbt /\ dbt' = dbt
    <3>1. s = sysDbt[scan.bank] /\ g = dbt[scan.bank] /\ lost = scan.lost
      BY <2>3
    <3> HIDE DEF S, s, g, lost
    <3> QED BY <1>0, <1>1, <1>5, <2>1, <2>2, <2>3, <3>1, OneMore DEF lost
  <2>4. ASSUME NEW good \in BOOLEAN, ~PassOver(scan.bank, scan.blk), Adds(good), here \in vendor.bad => ~good,
               (scan'.lost = scan.lost /\ (here \notin vendor.bad => good)) \/ scan'.lost = scan.lost + 1
        PROVE  ShownIn(sysDbt'[scan.bank], dbt'[scan.bank], scan'.lost, T, scan.bank)
    <3>0. sysDbt \in Tables /\ dbt \in Tables
      BY <1>0 DEF ScanType
    <3>1. s = sysDbt[scan.bank] \cup (IF ~good /\ scan.blk < SysMax THEN {scan.blk} ELSE {})
      <4>1. CASE ~good /\ scan.blk < SysMax
        BY <1>0, <2>4, <3>0, <4>1 DEF Adds, llfMarkSystemBlkDefect, Tables
      <4>2. CASE ~(~good /\ scan.blk < SysMax)
        BY <2>4, <4>2 DEF Adds
      <4> QED BY <4>1, <4>2
    <3>2. g = dbt[scan.bank] \cup (IF good THEN {} ELSE {Group(scan.blk)})
      <4>1. CASE ~good
        BY <1>0, <2>4, <3>0, <4>1 DEF Adds, llfSetDBT, llfMarkUserMPBlkDefect, Tables
      <4>2. CASE good
        BY <2>4, <4>2 DEF Adds
      <4> QED BY <4>1, <4>2
    <3>3. lost = 0 => scan.lost = 0 /\ (here \notin vendor.bad => good)
      BY <1>0, <2>4 DEF ScanType, ScanRecord
    <3>4. lost \in Nat
      BY <1>1
    <3> HIDE DEF S, s, g, lost
    <3> QED BY <1>0, <1>5, <2>1, <2>2, <2>4, <3>1, <3>2, <3>3, <3>4, OneMore DEF s, g, lost
  <2> QED BY <2>3, <2>4
<1>7. ASSUME NEW b \in Bank \ {scan.bank}
      PROVE  ShownIn(sysDbt'[b], dbt'[b], scan'.lost, T, b)
  <2>1. ShownIn(sysDbt[b], dbt[b], scan.lost, S, b)
    BY <1>0 DEF Shown
  <2>2. \A q : <<b, q>> \in T <=> <<b, q>> \in S
    OBVIOUS
  <2>3. FoundIn(T, b) = FoundIn(S, b) /\ {q \in Blk : <<b, q>> \in T} = {q \in Blk : <<b, q>> \in S}
    BY <2>2 DEF FoundIn
  <2>4. scan'.lost = 0 => scan.lost = 0
    BY <1>0 DEF ScanType, ScanRecord
  <2>5. sysDbt'[b] = sysDbt[b] /\ dbt'[b] = dbt[b]
    BY <1>3
  <2> HIDE DEF S, T
  <2> QED BY <2>1, <2>3, <2>4, <2>5 DEF ShownIn
<1>8. \A b \in Bank : ShownIn(sysDbt'[b], dbt'[b], scan'.lost, T, b)
  BY <1>6, <1>7
<1>9. ASSUME NEW U, U = T
      PROVE  Shown(sysDbt, dbt, scan.lost, U)'
  <2>1. \A b : Looked(b)' = Looked(b)
    BY <1>1 DEF Looked, Marked, TestBlocks
  <2>2. ASSUME NEW b \in Bank
        PROVE  ShownIn(sysDbt[b], dbt[b], scan.lost, U, b)'
    <3>1. FoundIn(U, b)' = FoundIn(U, b)
      BY <2>1 DEF FoundIn
    <3>2. ShownIn(sysDbt'[b], dbt'[b], scan'.lost, U, b)
      BY <1>8, <1>9
    <3> QED BY <1>1, <3>1, <3>2 DEF ShownIn
  <2> QED BY <2>2 DEF Shown
<1>10. CASE scan'.pc = "scan"
  <2>1. T = SeenBefore(scan'.bank, scan'.blk) /\ scan'.bank \in Bank /\ scan'.blk \in Blk
    BY <1>10 DEF OnFrom
  <2>2. SeenBefore(scan.bank, scan.blk)' = T
    BY <2>1 DEF SeenBefore
  <2> HIDE DEF T
  <2>3. Shown(sysDbt, dbt, scan.lost, SeenBefore(scan.bank, scan.blk))'
    BY <1>9, <2>2
  <2> QED BY <1>0, <1>1, <1>4, <1>10, <2>1, <2>3 DEF ScanInv
<1>11. CASE scan'.pc = "done"
  <2>1. T = Bank \X Blk
    BY <1>11 DEF OnFrom
  <2>2. Shown(sysDbt, dbt, scan.lost, Bank \X Blk)'
    BY <1>9, <2>1
  <2> QED BY <1>4, <1>11, <2>2 DEF ScanInv
<1> QED BY <1>10, <1>11 DEF OnFrom

\* Tables that hold what an old table may hold.
LEMMA OldOnes == OldTables \subseteq Tables /\ Empty \in Tables
<1>1. Planes \in Nat \ {0} /\ BlockNum \in Nat
  BY GeometryAssumption, ScanAssumption
<1>2. 0 .. (BlockNum \div Planes - 1) \subseteq Nat
  OBVIOUS
<1>3. OldTables \subseteq Tables
  BY <1>2, ScanAssumption DEF Tables
<1> QED BY <1>3 DEF Empty, Tables

LEMMA ScanBegins == ScanInit => ScanInv
<1> SUFFICES ASSUME ScanInit PROVE ScanInv
  OBVIOUS
<1>1. vendor \in VendorMarks /\ cmd \in Command
  BY ScanAssumption DEF ScanInit
<1>2. dbt \in Tables /\ sysDbt \in Tables
  BY OldOnes, GeometryAssumption DEF ScanInit, Tables
<1>3. scan \in ScanRecord /\ scan.pc = "begin"
  BY DEF ScanInit, ScanRecord
<1> QED BY <1>1, <1>2, <1>3 DEF ScanInv, ScanType

\* Outside the scan only the types matter, and that no scan has begun.
LEMMA Outside ==
    ASSUME ScanType', \/ scan'.pc \in {"search", "choose"} /\ scan'.from = <<>>
                      \/ scan'.pc \in {"begin", "assert"}
                      \/ scan'.pc = "done" /\ scan'.from = <<>>
    PROVE  ScanInv'
BY DEF ScanInv

LEMMA ScanSteps == ASSUME ScanInv, ScanNext PROVE ScanInv'
<1>0. /\ ScanType /\ scan \in ScanRecord /\ dbt \in Tables /\ sysDbt \in Tables /\ cmd \in Command
      /\ vendor \in VendorMarks
  BY DEF ScanInv, ScanType
<1>t. ASSUME scan' \in ScanRecord, dbt' \in Tables, sysDbt' \in Tables, vendor' = vendor, cmd' = cmd
      PROVE  ScanType'
  BY <1>0, <1>t DEF ScanType
<1>1. CASE Begin
  <2> DEFINE bank == cmd.bankStart + SearchBank - 1
             no == IF scan.first THEN 0 ELSE scan.ubBankNo
             pc == IF Searches /\ ~cmd.test /\ (scan.first \/ scan.ubBankNo = 0) THEN "search" ELSE "choose"
             calls == scan.calls + 1
  <2>1. bank \in Int /\ no \in Nat /\ pc \in {"search", "choose"} /\ calls \in Nat
    BY <1>0, ScanAssumption DEF SearchBank, Command, ScanRecord
  <2>2. scan' = [scan EXCEPT !.calls = calls, !.ret = "SEARCH", !.first = FALSE, !.from = <<>>,
                  !.ubBankNo = no, !.bank = bank, !.pc = pc]
    BY <1>0, <1>1 DEF Begin, ScanRecord
  <2> HIDE DEF bank, no, pc, calls
  <2>3. scan' \in ScanRecord /\ scan'.pc = pc /\ scan'.from = <<>>
    BY <1>0, <2>1, <2>2 DEF ScanRecord
  <2>4. dbt' \in Tables
    BY <1>0, <1>1, OldOnes DEF Begin
  <2>5. ScanType'
    BY <1>0, <1>1, <1>t, <2>3, <2>4 DEF Begin
  <2> QED BY <2>1, <2>3, <2>5, Outside
<1>2. CASE SearchNext
  <2>1. StepDown(scan.bank) \in Int /\ scan.from = <<>> /\ scan.pc = "search"
    BY <1>0, <1>2, ScanAssumption DEF SearchNext, StepDown, ScanInv, ScanRecord
  <2>2. scan' \in ScanRecord /\ scan'.pc = "search" /\ scan'.from = <<>>
    BY <1>0, <1>2, <2>1 DEF SearchNext, ScanRecord
  <2>3. ScanType'
    BY <1>0, <1>2, <1>t, <2>2 DEF SearchNext
  <2> QED BY <2>2, <2>3, Outside
<1>3. CASE SearchFound
  <2>1. scan.from = <<>> /\ BankNum \in Nat
    BY <1>3, ScanAssumption DEF SearchFound, ScanInv
  <2>2. scan' \in ScanRecord /\ scan'.pc = "choose" /\ scan'.from = <<>>
    BY <1>0, <1>3, <2>1 DEF SearchFound, ScanRecord
  <2>3. PICK table \in OldTables : dbt' = table /\ sysDbt' = MarkFound(table, sysDbt)
    BY <1>3 DEF SearchFound
  <2>4. \A b \in Bank : sysDbt[b] \cup {blk \in 0 .. (SysMax - 1) : Group(blk) \in table[b] \cup {0}} \in SUBSET Nat
    BY <1>0, GeometryAssumption DEF Tables
  <2>5. dbt' \in Tables /\ sysDbt' \in Tables
    BY <2>3, <2>4, OldOnes DEF MarkFound, Tables
  <2>6. ScanType'
    BY <1>0, <1>3, <1>t, <2>2, <2>5 DEF SearchFound
  <2> QED BY <2>2, <2>6, Outside
<1>4. CASE SearchFails
  <2>1. scan.from = <<>>
    BY <1>4 DEF SearchFails, ScanInv
  <2>2. scan' \in ScanRecord /\ scan'.pc = "choose" /\ scan'.from = <<>>
    BY <1>0, <1>4, <2>1 DEF SearchFails, ScanRecord
  <2>3. ScanType'
    BY <1>0, <1>4, <1>t, <2>2, OldOnes DEF SearchFails
  <2> QED BY <2>2, <2>3, Outside
<1>5. CASE Choose
  <2>1. scan.from = <<>>
    BY <1>5 DEF Choose, ScanInv
  <2>2. CASE Scans
    <3>1. /\ scan' \in ScanRecord /\ scan'.pc = "scan" /\ scan'.bank = 0 /\ scan'.blk = 0
          /\ scan'.from = <<dbt, sysDbt>> /\ scan'.lost = scan.lost
      <4>1. PICK from \in Tables \X Tables : from = <<dbt, sysDbt>>
        BY <1>0
      <4>2. scan' = [scan EXCEPT !.pc = "scan", !.ret = "OK", !.bank = 0, !.blk = 0, !.from = from]
        BY <1>5, <2>2, <4>1 DEF Choose
      <4>3. \A x \in ScanRecord :
               LET y == [x EXCEPT !.pc = "scan", !.ret = "OK", !.bank = 0, !.blk = 0, !.from = from]
               IN  /\ y \in ScanRecord /\ y.pc = "scan" /\ y.bank = 0 /\ y.blk = 0
                   /\ y.from = from /\ y.lost = x.lost
        <5> SUFFICES ASSUME NEW x \in ScanRecord, NEW y,
                            y = [x EXCEPT !.pc = "scan", !.ret = "OK", !.bank = 0, !.blk = 0, !.from = from]
                     PROVE  /\ y \in ScanRecord /\ y.pc = "scan" /\ y.bank = 0 /\ y.blk = 0
                            /\ y.from = from /\ y.lost = x.lost
          OBVIOUS
        <5>1. y.pc = "scan" /\ y.bank = 0 /\ y.blk = 0 /\ y.from = from /\ y.lost = x.lost
          BY DEF ScanRecord
        <5>2. from \in {<<>>} \cup (Tables \X Tables)
          OBVIOUS
        <5>3. y \in ScanRecord
          <6>1. \A z \in ScanRecord : [z EXCEPT !.from = from] \in ScanRecord
            BY <5>2 DEF ScanRecord
          <6>2. [x EXCEPT !.pc = "scan", !.ret = "OK", !.bank = 0, !.blk = 0] \in ScanRecord
            <7>1. [x EXCEPT !.pc = "scan", !.ret = "OK"] \in ScanRecord
              BY DEF ScanRecord
            <7>2. \A z \in ScanRecord : [z EXCEPT !.bank = 0] \in ScanRecord
              BY SMTT(30) DEF ScanRecord
            <7>3. \A z \in ScanRecord : [z EXCEPT !.blk = 0] \in ScanRecord
              BY SMTT(30) DEF ScanRecord
            <7>4. [x EXCEPT !.pc = "scan", !.ret = "OK", !.bank = 0, !.blk = 0]
                    = [[[x EXCEPT !.pc = "scan", !.ret = "OK"] EXCEPT !.bank = 0] EXCEPT !.blk = 0]
              OBVIOUS
            <7> QED BY <7>1, <7>2, <7>3, <7>4
          <6>3. y = [[x EXCEPT !.pc = "scan", !.ret = "OK", !.bank = 0, !.blk = 0] EXCEPT !.from = from]
            OBVIOUS
          <6> QED BY <6>1, <6>2, <6>3
        <5> QED BY <5>1, <5>3
      <4> QED BY <1>0, <4>1, <4>2, <4>3
    <3>2. ScanType'
      BY <1>0, <1>5, <1>t, <3>1 DEF Choose
    <3>3. 0 \in Bank /\ 0 \in Blk
      BY ScanAssumption, GeometryAssumption DEF Bank, Blk
    <3>4. SeenBefore(0, 0) = {}
      BY DEF SeenBefore, Bank, Blk
    <3>5. SeenBefore(scan.bank, scan.blk)' = {}
      BY <3>1, <3>4 DEF SeenBefore
    <3>6. Shown(sysDbt, dbt, scan.lost, {})'
      <4> SUFFICES ASSUME NEW b \in Bank
                   PROVE  ShownIn(sysDbt[b], dbt[b], scan.lost, {}, b)'
        BY DEF Shown
      <4>1. FoundIn({}, b)' = {}
        BY DEF FoundIn
      <4>2. scan'.from[1] = dbt' /\ scan'.from[2] = sysDbt'
        BY <1>5, <3>1 DEF Choose
      <4> QED BY <4>1, <4>2 DEF ShownIn
    <3>7. Shown(sysDbt, dbt, scan.lost, SeenBefore(scan.bank, scan.blk))'
      BY <3>5, <3>6
    <3>8. scan'.from \in Tables \X Tables
      BY <1>0, <3>1
    <3> QED BY <3>1, <3>2, <3>3, <3>7, <3>8 DEF ScanInv
  <2>3. CASE ~Scans
    <3>1. scan' \in ScanRecord /\ scan'.pc = "done" /\ scan'.from = <<>>
      BY <1>0, <1>5, <2>1, <2>3 DEF Choose, Done, ScanRecord
    <3>2. ScanType'
      BY <1>0, <1>5, <1>t, <3>1 DEF Choose
    <3> QED BY <3>1, <3>2, Outside
  <2> QED BY <2>2, <2>3
<1> DEFINE here == <<scan.bank, scan.blk>>
<1>p. ASSUME scan.pc = "scan"
      PROVE  scan.bank \in Bank /\ scan.blk \in Blk /\ How(here) \in Conditions \cup {Good}
             /\ (How(here) = Good <=> here \notin vendor.bad)
  <2>1. scan.bank \in Bank /\ scan.blk \in Blk
    BY <1>p DEF ScanInv
  <2>2. vendor.how \in Conditions /\ Good \notin Conditions
    <3>1. Good \notin Conditions
      <4>1. \A x \in Conditions : x[1] \in {"first", "last"}
        BY DEF Conditions, MarkPlaces
      <4>2. Good[1] = "none"
        BY DEF Good
      <4> QED BY <4>1, <4>2
    <3> QED BY <1>0, <3>1 DEF VendorMarks
  <2> QED BY <2>1, <2>2 DEF How
<1>6. CASE ScanAnswered
  <2>1. scan.pc = "scan" /\ vendor' = vendor /\ cmd' = cmd
    BY <1>6 DEF ScanAnswered, ScanBlock
  <2> DEFINE good == IF cmd.sandisk THEN llfChkDefectBlkForSandisk(How(here))
                     ELSE llfChkDefectBlk(How(here), Good, "answered")
  <2>2. ScanBlock(good) /\ scan' = NextPlace
    BY <1>6 DEF ScanAnswered
  <2>3. (good = TRUE) <=> here \notin vendor.bad
    <3>1. CASE cmd.sandisk
      BY <1>p, <2>1, <3>1 DEF llfChkDefectBlkForSandisk
    <3>2. CASE ~cmd.sandisk
      <4>1. CASE How(here) = Good
        BY <1>p, <2>1, <3>2, <4>1, MarksAreSeen
      <4>2. CASE How(here) \in Conditions
        BY <1>p, <2>1, <3>2, <4>2, MarksAreSeen
      <4> QED BY <1>p, <2>1, <4>1, <4>2
    <3> QED BY <3>1, <3>2
  <2>4. OnFrom(scan') /\ scan'.lost = scan.lost
    BY <1>0, <1>p, <2>1, <2>2, Onward
  <2>b. good \in BOOLEAN
    BY <1>0 DEF llfChkDefectBlk, llfChkDefectBlkForSandisk
  <2> HIDE DEF good
  <2>5. PICK g \in BOOLEAN : ScanBlock(g) /\ (g <=> here \notin vendor.bad)
    BY <2>2, <2>3, <2>b
  <2>6. ~PassOver(scan.bank, scan.blk) /\ Adds(g)
    BY <2>5 DEF ScanBlock, Adds
  <2> QED BY <2>1, <2>4, <2>5, <2>6, OneBlock
<1>n. scan.lost + 1 \in Nat
  BY <1>0 DEF ScanRecord
<1>7. CASE ScanLost
  <2>1. PICK k \in MarkPlaces, answer \in {"stale error", "stale ok"} :
           ScanBlock(llfChkDefectBlk(How(here), k, answer))
    BY <1>7 DEF ScanLost
  <2>2. scan.pc = "scan" /\ vendor' = vendor /\ cmd' = cmd
    BY <2>1 DEF ScanBlock
  <2>3. here \in vendor.bad => ~llfChkDefectBlk(How(here), k, answer)
    BY <1>p, <2>2, MarksAreSeen
  <2>4. OnFrom(scan') /\ scan'.lost = scan.lost + 1
    <3>1. PICK n : n = NextPlace
      OBVIOUS
    <3>2. OnFrom(n) /\ n.lost = scan.lost
      BY <1>0, <1>p, <2>2, <3>1, Onward
    <3>3. PICK lost \in Nat : lost = scan.lost + 1
      BY <1>n
    <3>4. scan' = [n EXCEPT !.lost = lost]
      BY <1>7, <3>1, <3>2, <3>3 DEF ScanLost, OnFrom, ScanRecord
    <3>5. /\ scan' \in ScanRecord /\ scan'.lost = lost
          /\ scan'.pc = n.pc /\ scan'.bank = n.bank /\ scan'.blk = n.blk /\ scan'.from = n.from
      BY <3>2, <3>4 DEF OnFrom, ScanRecord
    <3> QED BY <3>2, <3>3, <3>5 DEF OnFrom
  <2>5. PICK g \in BOOLEAN : ScanBlock(g) /\ (here \in vendor.bad => ~g)
    <3>1. llfChkDefectBlk(How(here), k, answer) \in BOOLEAN
      BY DEF llfChkDefectBlk
    <3> QED BY <2>1, <2>3, <3>1
  <2>6. ~PassOver(scan.bank, scan.blk) /\ Adds(g)
    BY <2>5 DEF ScanBlock, Adds
  <2> QED BY <2>2, <2>4, <2>5, <2>6, OneBlock
<1>8. CASE ScanAsserts
  <2>1. scan' \in ScanRecord /\ scan'.pc = "assert"
    <3>1. PICK lost \in Nat : lost = scan.lost + 1
      BY <1>n
    <3>2. scan' = [scan EXCEPT !.pc = "assert", !.lost = lost]
      BY <1>0, <1>8, <3>1 DEF ScanAsserts, ScanRecord
    <3> QED BY <1>0, <3>2 DEF ScanRecord
  <2>2. ScanType'
    BY <1>0, <1>8, <1>t, <2>1 DEF ScanAsserts
  <2> QED BY <2>1, <2>2, Outside
<1>9. CASE SkipBlock
  <2>1. /\ scan.pc = "scan" /\ PassOver(scan.bank, scan.blk) /\ scan' = NextPlace
        /\ vendor' = vendor /\ cmd' = cmd /\ dbt' = dbt /\ sysDbt' = sysDbt
    BY <1>9 DEF SkipBlock
  <2>2. OnFrom(scan') /\ scan'.lost = scan.lost
    BY <1>0, <1>p, <2>1, Onward
  <2> QED BY <2>1, <2>2, OneBlock
<1>10. CASE Again
  <2>1. scan' \in ScanRecord /\ scan'.pc = "begin"
    BY <1>0, <1>10 DEF Again, ScanRecord
  <2>2. ScanType'
    BY <1>0, <1>10, <1>t, <2>1 DEF Again
  <2> QED BY <2>1, <2>2, Outside
<1> QED BY <1>1, <1>2, <1>3, <1>4, <1>5, <1>6, <1>7, <1>8, <1>9, <1>10 DEF ScanNext

LEMMA ScanPartBegins == TaskInit => ScanPart
<1> SUFFICES ASSUME TaskInit PROVE ScanPart
  OBVIOUS
<1>1. CASE part = "defect tables"
  <2>1. ScanInit
    BY <1>1 DEF TaskInit
  <2> QED BY <1>1, <2>1, ScanBegins DEF ScanPart
<1>2. CASE part # "defect tables"
  <2>1. OtherScan
    BY <1>2 DEF TaskInit
  <2> QED BY <1>2, <2>1 DEF ScanPart, OtherScan
<1> QED BY <1>1, <1>2

LEMMA ScanPartKept == ASSUME ScanPart, [TaskNext]_taskVars PROVE ScanPart'
<1>1. CASE part = "defect tables" /\ ScanNext /\ UNCHANGED part
  <2>1. ScanInv
    BY <1>1 DEF ScanPart
  <2> QED BY <1>1, <2>1, ScanSteps DEF ScanPart
<1>2. CASE part # "defect tables" /\ UNCHANGED <<part, scan>>
  BY <1>2 DEF ScanPart
<1>3. CASE UNCHANGED taskVars
  <2>1. UNCHANGED <<part, vendor, cmd, dbt, sysDbt, scan>>
    BY <1>3 DEF taskVars
  <2>2. ScanInv => ScanInv'
    <3>1. \A b : Looked(b)' = Looked(b)
      BY <2>1 DEF Looked, Marked, TestBlocks
    <3>2. \A S, b : FoundIn(S, b)' = FoundIn(S, b)
      BY <3>1 DEF FoundIn
    <3>3. \A S : Shown(sysDbt, dbt, scan.lost, S)' <=> Shown(sysDbt, dbt, scan.lost, S)
      BY <2>1, <3>2 DEF Shown, ShownIn
    <3>4. SeenBefore(scan.bank, scan.blk)' = SeenBefore(scan.bank, scan.blk)
      BY <2>1 DEF SeenBefore
    <3>5. Shown(sysDbt, dbt, scan.lost, SeenBefore(scan.bank, scan.blk))'
          <=> Shown(sysDbt, dbt, scan.lost, SeenBefore(scan.bank, scan.blk))
      <4>1. ASSUME NEW S, S = SeenBefore(scan.bank, scan.blk)
            PROVE  Shown(sysDbt, dbt, scan.lost, SeenBefore(scan.bank, scan.blk))'
                   <=> Shown(sysDbt, dbt, scan.lost, SeenBefore(scan.bank, scan.blk))
        BY <3>3, <3>4, <4>1
      <4> QED BY <4>1
    <3>6. Shown(sysDbt, dbt, scan.lost, Bank \X Blk)' <=> Shown(sysDbt, dbt, scan.lost, Bank \X Blk)
      BY <3>3
    <3> QED BY <2>1, <3>5, <3>6 DEF ScanInv, ScanType
  <2> QED BY <2>1, <2>2 DEF ScanPart
<1>4. \/ part = "defect tables" /\ ScanNext /\ UNCHANGED part
      \/ part # "defect tables" /\ UNCHANGED <<part, scan>>
      \/ UNCHANGED taskVars
  BY DEF TaskNext
<1> QED BY <1>1, <1>2, <1>3, <1>4

\* The tables of a new flash mark exactly the defective blocks (ScanExact), for every flash,
\* every table the scan begins with, any number of reads that are not answered and of calls.
THEOREM TablesAreExact == TaskSpec => []ScanExact
<1>1. TaskInit => ScanPart
  BY ScanPartBegins
<1>2. ScanPart /\ [TaskNext]_taskVars => ScanPart'
  BY ScanPartKept
<1>3. ScanPart => ScanExact
  <2> SUFFICES ASSUME ScanPart, scan.pc = "done", scan.from # <<>> PROVE ScanExact
    BY DEF ScanExact
  <2>1. ScanInv
    BY DEF ScanPart
  <2>2. Shown(sysDbt, dbt, scan.lost, Bank \X Blk) /\ ScanType
    BY <2>1 DEF ScanInv
  <2>3. \A b \in Bank : FoundIn(Bank \X Blk, b) = Looked(b)
    BY <2>2 DEF FoundIn, Looked, Marked, ScanType, VendorMarks
  <2> QED BY <2>2, <2>3 DEF ScanExact, Shown, ShownIn
<1> QED BY <1>1, <1>2, <1>3, PTL DEF TaskSpec

----------------------------------------------------------------------------
(* The erase that starts a reliability test                                *)

\* The blocks before the place of llfAPEraseAllSblk.
Passed(w) ==
    {p \in Bank \X EraseBlk : p[1] < w.bank \/ (p[1] = w.bank /\ p[2] < w.blk)}

Here(w) == <<w.bank, w.blk>>

\* Both tables mark exactly the blocks of a set, that of the system blocks those it has
\* room for.
InBank(S, b) == {p[2] : p \in {f \in S : f[1] = b}}

MarkExactly(S) ==
    \A b \in Bank :
        /\ sysDbt[b] = {blk \in InBank(S, b) : blk < SysMax}
        /\ dbt[b] = {Group(blk) : blk \in InBank(S, b)}

WipeRecord ==
    [retry : BOOLEAN, pc : {"begin", "erase", "retry", "accepted", "refused"}, bank : Bank,
     blk : EraseBlk, cmp : {"ok", "fail"}, ret : {"OK", "TIMEOUT"}, err_msg_num : Nat,
     fails : Nat, silent : Nat, failed : SUBSET (Bank \X EraseBlk), erased : SUBSET (Bank \X EraseBlk)]

WipeType == cmd \in Command /\ wipe \in WipeRecord /\ dbt \in Tables /\ sysDbt \in Tables

\* As long as every erase was answered the tables mark the blocks that failed, except the
\* one that is erased again; every block that was passed was erased or failed.
WipeProgress ==
    /\ wipe.pc = "begin" =>
         /\ wipe.bank = 0 /\ wipe.blk = cmd.start
         /\ wipe.failed = {} /\ wipe.erased = {}
    /\ wipe.pc = "erase" =>
         /\ MarkExactly(wipe.failed) /\ wipe.failed \subseteq Passed(wipe)
         /\ Passed(wipe) \subseteq wipe.erased \cup wipe.failed
    /\ wipe.pc = "retry" =>
         /\ Here(wipe) \in wipe.failed /\ MarkExactly(wipe.failed \ {Here(wipe)})
         /\ wipe.failed \subseteq Passed(wipe) \cup {Here(wipe)}
         /\ Passed(wipe) \subseteq wipe.erased \cup wipe.failed
    /\ wipe.pc = "accepted" =>
         /\ MarkExactly(wipe.failed)
         /\ Bank \X EraseBlk \subseteq wipe.erased \cup wipe.failed

\* An erase that was not answered leaves a message, and any message refuses the erase.
WipeInv ==
    /\ WipeType
    /\ wipe.err_msg_num = 0 <=> wipe.silent = 0
    /\ wipe.pc = "accepted" => wipe.silent = 0
    /\ wipe.silent = 0 => WipeProgress

WipePart == IF part = "start of RDT" THEN WipeInv ELSE wipe.pc = "idle"

\* The numbers of a bank and of a block are natural numbers.
LEMMA PlacesAreNat == Bank \subseteq Nat /\ (cmd \in Command => EraseBlk \subseteq Nat)
BY ScanAssumption, GeometryAssumption DEF Bank, EraseBlk, Command

\* What an erase does to the record: the block failed or was erased, and its completion
\* was seen or a message more is counted.
Result(w, fate) ==
    /\ w \in WipeRecord
    /\ w.retry = wipe.retry /\ w.pc = wipe.pc /\ w.bank = wipe.bank /\ w.blk = wipe.blk
    /\ w.failed = IF fate = "fail" THEN wipe.failed \cup {Here(wipe)} ELSE wipe.failed \ {Here(wipe)}
    /\ w.erased = IF fate = "ok" THEN wipe.erased \cup {Here(wipe)} ELSE wipe.erased
    /\ \/ w.silent = wipe.silent /\ w.err_msg_num = wipe.err_msg_num
          /\ (wipe.silent = 0 => w.cmp = fate)
       \/ w.silent = wipe.silent + 1 /\ w.err_msg_num = wipe.err_msg_num + 2

\* One erase: what becomes of the block, what completion is seen and what is counted.
LEMMA ErasedIs ==
    ASSUME wipe \in WipeRecord, NEW w \in Erased
    PROVE  \E fate \in {"ok", "fail"} : Result(w, fate)
<1>1. PICK fate \in {"ok", "fail"} : w \in After(fate)
  BY DEF Erased
<1> DEFINE known == [wipe EXCEPT !.fails = IF fate = "fail" THEN @ + 1 ELSE @,
                       !.failed = IF fate = "fail" THEN @ \cup {Here(wipe)} ELSE @ \ {Here(wipe)},
                       !.erased = IF fate = "ok" THEN @ \cup {Here(wipe)} ELSE @]
<1>h. Here(wipe) \in Bank \X EraseBlk
  BY DEF Here, WipeRecord
<1>2. /\ known \in WipeRecord
      /\ known.retry = wipe.retry /\ known.pc = wipe.pc
      /\ known.bank = wipe.bank /\ known.blk = wipe.blk
      /\ known.silent = wipe.silent /\ known.err_msg_num = wipe.err_msg_num
      /\ known.failed = (IF fate = "fail" THEN wipe.failed \cup {Here(wipe)}
                         ELSE wipe.failed \ {Here(wipe)})
      /\ known.erased = (IF fate = "ok" THEN wipe.erased \cup {Here(wipe)} ELSE wipe.erased)
  <2> DEFINE failed == IF fate = "fail" THEN wipe.failed \cup {Here(wipe)}
                       ELSE wipe.failed \ {Here(wipe)}
             erased == IF fate = "ok" THEN wipe.erased \cup {Here(wipe)} ELSE wipe.erased
             fails == IF fate = "fail" THEN wipe.fails + 1 ELSE wipe.fails
  <2>1. wipe.failed \in SUBSET (Bank \X EraseBlk) /\ wipe.erased \in SUBSET (Bank \X EraseBlk)
    BY DEF WipeRecord
  <2>2. failed \in SUBSET (Bank \X EraseBlk) /\ erased \in SUBSET (Bank \X EraseBlk)
    BY <1>h, <2>1, Zenon
  <2>3. fails \in Nat
    BY DEF WipeRecord
  <2>4. known = [wipe EXCEPT !.fails = fails, !.failed = failed, !.erased = erased]
    BY DEF WipeRecord
  <2> HIDE DEF known, failed, erased, fails
  <2>5. known \in WipeRecord
    BY <2>2, <2>3, <2>4 DEF WipeRecord
  <2>6. /\ known.retry = wipe.retry /\ known.pc = wipe.pc
        /\ known.bank = wipe.bank /\ known.blk = wipe.blk
        /\ known.silent = wipe.silent /\ known.err_msg_num = wipe.err_msg_num
        /\ known.failed = failed /\ known.erased = erased
    BY <2>4 DEF WipeRecord
  <2> QED BY <2>5, <2>6 DEF failed, erased
<1>3. \/ \E cmp \in Completion(fate) : w = [known EXCEPT !.cmp = cmp, !.ret = "OK"]
      \/ w = [known EXCEPT !.silent = @ + 1, !.err_msg_num = @ + 2, !.ret = "TIMEOUT"]
  BY <1>1 DEF After, Here
<1> HIDE DEF known
<1>4. CASE \E cmp \in Completion(fate) : w = [known EXCEPT !.cmp = cmp, !.ret = "OK"]
  <2>1. PICK cmp \in Completion(fate) : w = [known EXCEPT !.cmp = cmp, !.ret = "OK"]
    BY <1>4
  <2>2. cmp \in {"ok", "fail"} /\ (wipe.silent = 0 => cmp = fate)
    BY DEF Completion
  <2> QED BY <1>2, <2>1, <2>2 DEF WipeRecord, Result
<1>5. CASE w = [known EXCEPT !.silent = @ + 1, !.err_msg_num = @ + 2, !.ret = "TIMEOUT"]
  <2>1. known.silent + 1 \in Nat /\ known.err_msg_num + 2 \in Nat
    BY <1>2 DEF WipeRecord
  <2>2. w \in WipeRecord
    BY <1>2, <1>5, <2>1 DEF WipeRecord
  <2>3. /\ w.retry = known.retry /\ w.pc = known.pc /\ w.bank = known.bank /\ w.blk = known.blk
        /\ w.failed = known.failed /\ w.erased = known.erased
        /\ w.silent = known.silent + 1 /\ w.err_msg_num = known.err_msg_num + 2
    BY <1>2, <1>5 DEF WipeRecord
  <2> QED BY <1>2, <2>2, <2>3 DEF Result
<1> QED BY <1>3, <1>4, <1>5

\* The place after a block: what was passed before it and the block itself.
LEMMA NextBlkIs ==
    ASSUME cmd \in Command, NEW w \in WipeRecord
    PROVE  /\ NextBlk(w) \in WipeRecord
           /\ NextBlk(w).pc \in {"erase", "accepted", "refused"}
           /\ NextBlk(w).failed = w.failed /\ NextBlk(w).erased = w.erased
           /\ NextBlk(w).silent = w.silent /\ NextBlk(w).err_msg_num = w.err_msg_num
           /\ NextBlk(w).pc = "erase" => Passed(NextBlk(w)) = Passed(w) \cup {Here(w)}
           /\ NextBlk(w).pc = "accepted" =>
                w.err_msg_num = 0 /\ Bank \X EraseBlk \subseteq Passed(w) \cup {Here(w)}
<1>1. /\ w.bank \in Nat /\ w.bank <= BankNum - 1 /\ BankNum \in Nat
      /\ cmd.start \in Nat /\ SysMax \in Nat
      /\ w.blk \in Nat /\ cmd.start <= w.blk /\ w.blk <= cmd.start + SysMax - 1
  BY ScanAssumption, GeometryAssumption DEF WipeRecord, Bank, EraseBlk, Command
<1>2. CASE w.blk < cmd.start + SysMax - 1
  <2>1. NextBlk(w) = [w EXCEPT !.pc = "erase", !.blk = @ + 1]
    BY <1>2 DEF NextBlk
  <2>2. w.blk + 1 \in EraseBlk
    BY <1>1, <1>2 DEF EraseBlk
  <2>3. NextBlk(w) \in WipeRecord /\ NextBlk(w).bank = w.bank /\ NextBlk(w).blk = w.blk + 1
    BY <2>1, <2>2 DEF WipeRecord
  <2>4. \A b \in Bank, k \in EraseBlk : k < w.blk + 1 <=> (k < w.blk \/ k = w.blk)
    BY <1>1 DEF EraseBlk
  <2>5. w.bank \in Bank /\ w.blk \in EraseBlk
    BY DEF WipeRecord
  <2>6. Passed(NextBlk(w)) = Passed(w) \cup {Here(w)}
    BY <2>3, <2>4, <2>5 DEF Passed, Here
  <2> QED BY <2>1, <2>3, <2>6 DEF WipeRecord
<1>3. CASE ~(w.blk < cmd.start + SysMax - 1) /\ w.bank < BankNum - 1
  <2>1. NextBlk(w) = [w EXCEPT !.pc = "erase", !.bank = @ + 1, !.blk = cmd.start]
    BY <1>3 DEF NextBlk
  <2>2. w.bank + 1 \in Bank /\ cmd.start \in EraseBlk
    BY <1>1, <1>3, GeometryAssumption DEF EraseBlk, Bank
  <2>3. NextBlk(w) \in WipeRecord /\ NextBlk(w).bank = w.bank + 1 /\ NextBlk(w).blk = cmd.start
    BY <2>1, <2>2 DEF WipeRecord
  <2>4. /\ \A k \in EraseBlk : ~(k < cmd.start) /\ (k < w.blk \/ k = w.blk)
        /\ \A b \in Bank : b < w.bank + 1 <=> (b < w.bank \/ b = w.bank)
    BY <1>1, <1>3 DEF EraseBlk, Bank
  <2>5. w.bank \in Bank /\ w.blk \in EraseBlk
    BY DEF WipeRecord
  <2>6. Passed(NextBlk(w)) = Passed(w) \cup {Here(w)}
    BY <2>3, <2>4, <2>5 DEF Passed, Here
  <2> QED BY <2>1, <2>3, <2>6 DEF WipeRecord
<1>4. CASE ~(w.blk < cmd.start + SysMax - 1) /\ ~(w.bank < BankNum - 1)
  <2>1. NextBlk(w) = [w EXCEPT !.pc = Verdict(w)]
    BY <1>4 DEF NextBlk
  <2>2. Verdict(w) \in {"accepted", "refused"} /\ (Verdict(w) = "accepted" => w.err_msg_num = 0)
    BY DEF Verdict
  <2>3. /\ \A k \in EraseBlk : k < w.blk \/ k = w.blk
        /\ \A b \in Bank : b < w.bank \/ b = w.bank
    BY <1>1, <1>4 DEF EraseBlk, Bank
  <2>4. Bank \X EraseBlk \subseteq Passed(w) \cup {Here(w)}
    BY <2>3 DEF Passed, Here
  <2> QED BY <2>1, <2>2, <2>4 DEF WipeRecord
<1> QED BY <1>2, <1>3, <1>4

\* The place itself is not passed yet.
LEMMA HereIsNotPassed ==
    ASSUME cmd \in Command, NEW w \in WipeRecord
    PROVE  Here(w) \notin Passed(w)
BY ScanAssumption, GeometryAssumption DEF WipeRecord, Here, Passed, Bank, EraseBlk, Command

\* Marking one block more.
LEMMA MarksMore ==
    ASSUME WipeType, NEW S \in SUBSET (Bank \X EraseBlk), MarkExactly(S), wipe \in WipeRecord, MarkBlk,
           NEW q, q = Here(wipe)
    PROVE  MarkExactly(S \cup {q})'
<1>1. wipe.bank \in Bank /\ wipe.blk \in EraseBlk
  BY DEF WipeRecord
<1>2. /\ sysDbt' = IF wipe.blk < SysMax THEN [sysDbt EXCEPT ![wipe.bank] = @ \cup {wipe.blk}]
                   ELSE sysDbt
      /\ dbt' = [dbt EXCEPT ![wipe.bank] = @ \cup {Group(wipe.blk)}]
  BY DEF MarkBlk, llfMarkSystemBlkDefect, llfSetDBT, llfMarkUserMPBlkDefect
<1> DEFINE more == S \cup {q}
<1>3. SUFFICES ASSUME NEW b \in Bank
               PROVE  /\ sysDbt'[b] = {blk \in InBank(more, b) : blk < SysMax}
                      /\ dbt'[b] = {Group(blk) : blk \in InBank(more, b)}
  BY DEF MarkExactly, InBank
<1>4. /\ sysDbt[b] = {blk \in InBank(S, b) : blk < SysMax}
      /\ dbt[b] = {Group(blk) : blk \in InBank(S, b)}
  BY DEF MarkExactly
<1>5. q[1] = wipe.bank /\ q[2] = wipe.blk
  BY DEF Here
<1>6. DOMAIN sysDbt = Bank /\ DOMAIN dbt = Bank
  BY DEF WipeType, Tables
<1>7. CASE b = wipe.bank
  <2>1. /\ sysDbt'[b] = sysDbt[b] \cup (IF wipe.blk < SysMax THEN {wipe.blk} ELSE {})
        /\ dbt'[b] = dbt[b] \cup {Group(wipe.blk)}
    <3>1. sysDbt'[b] = sysDbt[b] \cup (IF wipe.blk < SysMax THEN {wipe.blk} ELSE {})
      <4>1. CASE wipe.blk < SysMax
        <5>1. sysDbt' = [sysDbt EXCEPT ![wipe.bank] = @ \cup {wipe.blk}]
          BY <1>2, <4>1
        <5>2. sysDbt'[b] = sysDbt[b] \cup {wipe.blk}
          BY <1>6, <1>7, <5>1
        <5> QED BY <4>1, <5>2
      <4>2. CASE ~(wipe.blk < SysMax)
        BY <1>2, <1>7, <4>2
      <4> QED BY <4>1, <4>2
    <3>2. dbt'[b] = dbt[b] \cup {Group(wipe.blk)}
      BY <1>2, <1>6, <1>7
    <3> QED BY <3>1, <3>2
  <2>2. InBank(more, b) = InBank(S, b) \cup {wipe.blk}
    BY <1>5, <1>7 DEF InBank
  <2>3. sysDbt'[b] = {blk \in InBank(more, b) : blk < SysMax}
    BY <1>4, <2>1, <2>2
  <2>4. dbt'[b] = {Group(blk) : blk \in InBank(more, b)}
    BY <1>4, <2>1, <2>2
  <2> QED BY <2>3, <2>4
<1>8. CASE b # wipe.bank
  <2>1. sysDbt'[b] = sysDbt[b] /\ dbt'[b] = dbt[b]
    BY <1>2, <1>6, <1>8
  <2>2. InBank(more, b) = InBank(S, b)
    BY <1>5, <1>8 DEF InBank
  <2> QED BY <1>4, <2>1, <2>2
<1> QED BY <1>7, <1>8

\* What follows an erase, when the place moves on: f and e are what failed and was erased.
LEMMA Moves ==
    ASSUME WipeType, cmd' = cmd, NEW w \in WipeRecord, wipe' = NextBlk(w),
           dbt' \in Tables, sysDbt' \in Tables,
           w.err_msg_num = 0 <=> w.silent = 0,
           w.silent = 0 =>
              /\ MarkExactly(w.failed)' /\ w.failed \subseteq Passed(w) \cup {Here(w)}
              /\ Passed(w) \cup {Here(w)} \subseteq w.erased \cup w.failed
    PROVE  WipeInv'
<1>1. cmd \in Command /\ cmd' \in Command
  BY DEF WipeType
<1>2. EraseBlk' = EraseBlk /\ WipeRecord' = WipeRecord
  BY DEF EraseBlk, WipeRecord
<1> DEFINE n == NextBlk(w)
<1>3. /\ n \in WipeRecord /\ n.pc \in {"erase", "accepted", "refused"}
      /\ n.failed = w.failed /\ n.erased = w.erased
      /\ n.silent = w.silent /\ n.err_msg_num = w.err_msg_num
      /\ n.pc = "erase" => Passed(n) = Passed(w) \cup {Here(w)}
      /\ n.pc = "accepted" =>
           w.err_msg_num = 0 /\ Bank \X EraseBlk \subseteq Passed(w) \cup {Here(w)}
  BY <1>1, NextBlkIs
<1> HIDE DEF n
<1>4. wipe' = n
  BY DEF n
<1>5. WipeType'
  BY <1>1, <1>2, <1>3, <1>4 DEF WipeType
<1>6. Passed(wipe)' = Passed(n) /\ (MarkExactly(wipe.failed)' <=> MarkExactly(w.failed)')
  BY <1>2, <1>3, <1>4 DEF Passed, MarkExactly
<1>7. (wipe.silent = 0)' => WipeProgress'
  BY <1>2, <1>3, <1>4, <1>6 DEF WipeProgress
<1> QED BY <1>3, <1>4, <1>5, <1>7 DEF WipeInv

\* A block that failed and is erased again.
LEMMA Retries ==
    ASSUME WipeInv, UNCHANGED <<cmd, dbt, sysDbt>>, wipe.pc = "erase", NEW w \in Erased,
           w.cmp = "fail", wipe' = [w EXCEPT !.pc = "retry"]
    PROVE  WipeInv'
<1>1. PICK fate \in {"ok", "fail"} : Result(w, fate)
  BY ErasedIs DEF WipeInv, WipeType
<1> USE DEF Result
<1>2. /\ wipe' \in WipeRecord /\ wipe'.pc = "retry" /\ wipe'.bank = wipe.bank /\ wipe'.blk = wipe.blk
      /\ wipe'.failed = w.failed /\ wipe'.erased = w.erased /\ wipe'.silent = w.silent
      /\ wipe'.err_msg_num = w.err_msg_num
  BY <1>1 DEF WipeRecord
<1>3. EraseBlk' = EraseBlk /\ WipeRecord' = WipeRecord /\ Passed(wipe)' = Passed(wipe) /\ Here(wipe)' = Here(wipe)
  BY <1>2 DEF EraseBlk, WipeRecord, Passed, Here
<1>4. WipeType'
  BY <1>2, <1>3 DEF WipeInv, WipeType
<1>5. wipe.silent \in Nat /\ wipe.err_msg_num \in Nat
  BY DEF WipeInv, WipeType, WipeRecord
<1>6. ASSUME wipe'.silent = 0
      PROVE  WipeProgress'
  <2>1. fate = "fail" /\ wipe.silent = 0
    BY <1>1, <1>2, <1>5, <1>6
  <2>2. /\ MarkExactly(wipe.failed) /\ wipe.failed \subseteq Passed(wipe)
        /\ Passed(wipe) \subseteq wipe.erased \cup wipe.failed
    BY <2>1 DEF WipeInv, WipeProgress
  <2>3. Here(wipe) \notin Passed(wipe)
    BY HereIsNotPassed DEF WipeInv, WipeType
  <2>4. wipe'.failed = wipe.failed \cup {Here(wipe)} /\ wipe'.erased = wipe.erased
    BY <1>1, <1>2, <2>1
  <2>5. (wipe'.failed \ {Here(wipe)'}) = wipe.failed
    BY <1>3, <2>2, <2>3, <2>4
  <2>6. MarkExactly(wipe.failed \ {Here(wipe)})'
    BY <2>2, <2>5 DEF MarkExactly
  <2> QED BY <1>2, <1>3, <2>2, <2>4, <2>6 DEF WipeProgress
<1>7. (wipe.err_msg_num = 0 <=> wipe.silent = 0)'
  BY <1>1, <1>2, <1>5 DEF WipeInv
<1> QED BY <1>2, <1>4, <1>6, <1>7 DEF WipeInv

\* The end of an erase whose block is good, or is marked.
LEMMA Settles ==
    ASSUME WipeInv, cmd' = cmd, wipe.pc \in {"erase", "retry"}, NEW w \in Erased,
           \/ w.cmp = "ok" /\ wipe' = NextBlk(w) /\ UNCHANGED <<dbt, sysDbt>>
           \/ w.cmp = "fail" /\ wipe' = NextBlk([w EXCEPT !.ret = "OK"]) /\ MarkBlk
    PROVE  WipeInv'
<1>1. PICK fate \in {"ok", "fail"} : Result(w, fate)
  BY ErasedIs DEF WipeInv, WipeType
<1> USE DEF Result
<1>2. WipeType /\ wipe \in WipeRecord /\ wipe.silent \in Nat /\ wipe.err_msg_num \in Nat
  BY DEF WipeInv, WipeType, WipeRecord
<1>3. Passed(w) = Passed(wipe) /\ Here(w) = Here(wipe)
  BY <1>1 DEF Passed, Here
<1>4. w.err_msg_num = 0 <=> w.silent = 0
  BY <1>1, <1>2 DEF WipeInv
<1>5. Here(wipe) \notin Passed(wipe)
  BY HereIsNotPassed DEF WipeInv, WipeType
\* As long as every erase was answered: what was marked before this one.
<1>6. ASSUME w.silent = 0
      PROVE  /\ w.cmp = fate
             /\ MarkExactly(wipe.failed \ {Here(wipe)})
             /\ wipe.failed \subseteq Passed(wipe) \cup {Here(wipe)}
             /\ Passed(wipe) \subseteq wipe.erased \cup wipe.failed
  <2>1. wipe.silent = 0 /\ w.cmp = fate /\ WipeProgress
    BY <1>1, <1>2, <1>6 DEF WipeInv
  <2>2. CASE wipe.pc = "erase"
    <3>1. /\ MarkExactly(wipe.failed) /\ wipe.failed \subseteq Passed(wipe)
          /\ Passed(wipe) \subseteq wipe.erased \cup wipe.failed
      BY <2>1, <2>2 DEF WipeProgress
    <3>2. wipe.failed \ {Here(wipe)} = wipe.failed
      BY <1>5, <3>1
    <3> QED BY <2>1, <3>1, <3>2
  <2>3. CASE wipe.pc = "retry"
    BY <2>1, <2>3 DEF WipeProgress
  <2> QED BY <2>2, <2>3
<1>7. CASE w.cmp = "ok" /\ wipe' = NextBlk(w) /\ UNCHANGED <<dbt, sysDbt>>
  <2>1. ASSUME w.silent = 0
        PROVE  /\ MarkExactly(w.failed)' /\ w.failed \subseteq Passed(w) \cup {Here(w)}
               /\ Passed(w) \cup {Here(w)} \subseteq w.erased \cup w.failed
    <3>1. w.failed = wipe.failed \ {Here(wipe)} /\ w.erased = wipe.erased \cup {Here(wipe)}
      BY <1>1, <1>6, <1>7, <2>1
    <3>2. MarkExactly(w.failed)'
      BY <1>6, <1>7, <2>1, <3>1 DEF MarkExactly
    <3> QED BY <1>3, <1>6, <2>1, <3>1, <3>2
  <2>2. dbt' \in Tables /\ sysDbt' \in Tables
    BY <1>2, <1>7 DEF WipeType, Tables
  <2> QED BY <1>1, <1>2, <1>4, <1>7, <2>1, <2>2, Moves
<1>8. CASE w.cmp = "fail" /\ wipe' = NextBlk([w EXCEPT !.ret = "OK"]) /\ MarkBlk
  <2> DEFINE v == [w EXCEPT !.ret = "OK"]
  <2>1. /\ v \in WipeRecord /\ v.bank = w.bank /\ v.blk = w.blk /\ v.failed = w.failed
        /\ v.erased = w.erased /\ v.silent = w.silent /\ v.err_msg_num = w.err_msg_num
    BY <1>1 DEF WipeRecord
  <2>2. wipe' = NextBlk(v)
    BY <1>8
  <2> HIDE DEF v
  <2>3. Passed(v) = Passed(wipe) /\ Here(v) = Here(wipe)
    BY <1>1, <2>1 DEF Passed, Here
  <2>4. ASSUME v.silent = 0
        PROVE  /\ MarkExactly(v.failed)' /\ v.failed \subseteq Passed(v) \cup {Here(v)}
               /\ Passed(v) \cup {Here(v)} \subseteq v.erased \cup v.failed
    <3>1. v.failed = wipe.failed \cup {Here(wipe)} /\ v.erased = wipe.erased
      BY <1>1, <1>6, <1>8, <2>1, <2>4
    <3> DEFINE S == wipe.failed \ {Here(wipe)}
    <3>2. S \in SUBSET (Bank \X EraseBlk)
      BY <1>2 DEF WipeRecord
    <3>3. MarkExactly(S)
      BY <1>6, <2>1, <2>4
    <3>4. PICK q : q = Here(wipe)
      OBVIOUS
    <3>5. \A T : T = S => MarkExactly(T \cup {q})'
      <4> SUFFICES ASSUME NEW T, T = S PROVE MarkExactly(T \cup {q})'
        OBVIOUS
      <4>1. T \in SUBSET (Bank \X EraseBlk) /\ MarkExactly(T)
        BY <3>2, <3>3
      <4> QED BY <1>2, <1>8, <3>4, <4>1, MarksMore
    <3>6. \A T : T = v.failed => MarkExactly(T)'
      <4> SUFFICES ASSUME NEW T, T = v.failed PROVE MarkExactly(T)'
        OBVIOUS
      <4>1. PICK Z : Z = S
        OBVIOUS
      <4>2. T = Z \cup {q}
        BY <3>1, <3>4, <4>1
      <4>3. MarkExactly(Z \cup {q})'
        BY <3>5, <4>1
      <4> QED BY <4>2, <4>3
    <3>7. MarkExactly(v.failed)'
      BY <3>6
    <3> QED BY <1>6, <2>1, <2>3, <2>4, <3>1, <3>7
  <2>5. dbt' \in Tables /\ sysDbt' \in Tables
    <3>1. Group(wipe.blk) \in Nat /\ wipe.blk \in Nat
      BY <1>2, PlacesAreNat, GeometryAssumption DEF WipeType, WipeRecord, Group
    <3> QED
      BY <1>2, <1>8, <3>1 DEF MarkBlk, llfMarkSystemBlkDefect, llfSetDBT, llfMarkUserMPBlkDefect,
                             WipeType, Tables
  <2>6. v.err_msg_num = 0 <=> v.silent = 0
    BY <1>4, <2>1
  <2> QED BY <1>2, <2>1, <2>2, <2>4, <2>5, <2>6, Moves
<1> QED BY <1>7, <1>8

LEMMA WipeBegins == WipeInit /\ cmd \in Command /\ dbt \in Tables /\ sysDbt \in Tables => WipeInv
<1> SUFFICES ASSUME WipeInit, cmd \in Command, dbt \in Tables, sysDbt \in Tables
             PROVE  WipeInv
  OBVIOUS
<1>1. 0 \in Bank /\ cmd.start \in EraseBlk
  BY ScanAssumption, GeometryAssumption DEF Bank, EraseBlk, Command
<1>2. WipeType
  BY <1>1 DEF WipeInit, WipeType, WipeRecord
<1>3. /\ wipe.pc = "begin" /\ wipe.bank = 0 /\ wipe.blk = cmd.start
      /\ wipe.failed = {} /\ wipe.erased = {} /\ wipe.err_msg_num = 0 /\ wipe.silent = 0
  BY DEF WipeInit
<1> QED BY <1>2, <1>3 DEF WipeInv, WipeProgress

LEMMA WipeSteps == WipeInv /\ WipeNext => WipeInv'
<1> SUFFICES ASSUME WipeInv, WipeNext
             PROVE  WipeInv'
  OBVIOUS
<1>1. CASE WipeBegin
  <2>1. /\ wipe' \in WipeRecord /\ wipe'.pc = "erase" /\ wipe'.bank = wipe.bank /\ wipe'.blk = wipe.blk
        /\ wipe'.failed = wipe.failed /\ wipe'.erased = wipe.erased /\ wipe'.silent = wipe.silent
        /\ wipe'.err_msg_num = wipe.err_msg_num
    BY <1>1 DEF WipeBegin, WipeInv, WipeType, WipeRecord
  <2>2. EraseBlk' = EraseBlk /\ WipeRecord' = WipeRecord
    BY <1>1 DEF WipeBegin, EraseBlk, WipeRecord
  <2>3. dbt' = Empty /\ sysDbt' = Empty /\ cmd' = cmd
    BY <1>1 DEF WipeBegin
  <2>4. WipeType'
    BY <2>1, <2>2, <2>3 DEF WipeInv, WipeType, Tables, Empty
  <2>5. ASSUME wipe'.silent = 0
        PROVE  WipeProgress'
    <3>1. wipe.bank = 0 /\ wipe.blk = cmd.start /\ wipe.failed = {} /\ wipe.erased = {}
      BY <1>1, <2>1, <2>5 DEF WipeInv, WipeProgress, WipeBegin
    <3>2. \A b \in Bank, blk \in EraseBlk : ~(b < 0) /\ ~(blk < cmd.start)
      BY ScanAssumption, GeometryAssumption DEF WipeInv, WipeType, Bank, EraseBlk, Command
    <3>3. Passed(wipe)' = {}
      BY <2>1, <2>2, <3>1, <3>2 DEF Passed
    <3>4. wipe'.failed = {}
      BY <2>1, <3>1
    <3>5. MarkExactly(wipe.failed)'
      BY <2>3, <3>4 DEF MarkExactly, InBank, Empty
    <3> QED BY <2>1, <3>3, <3>4, <3>5 DEF WipeProgress
  <2> QED BY <2>1, <2>4, <2>5 DEF WipeInv
<1>2. CASE WipeBlk
  <2>1. wipe.pc = "erase" /\ cmd' = cmd
    BY <1>2 DEF WipeBlk
  <2>2. PICK w \in Erased :
          \/ w.cmp = "ok" /\ wipe' = NextBlk(w) /\ UNCHANGED <<dbt, sysDbt>>
          \/ w.cmp = "fail" /\ wipe' = [w EXCEPT !.pc = "retry"] /\ UNCHANGED <<dbt, sysDbt>>
          \/ w.cmp = "fail" /\ wipe' = NextBlk([w EXCEPT !.ret = "OK"]) /\ MarkBlk
    BY <1>2 DEF WipeBlk
  <2>3. CASE w.cmp = "fail" /\ wipe' = [w EXCEPT !.pc = "retry"] /\ UNCHANGED <<dbt, sysDbt>>
    BY <2>1, <2>3, Retries
  <2> QED BY <2>1, <2>2, <2>3, Settles
<1>3. CASE WipeAgain
  <2>1. wipe.pc = "retry" /\ cmd' = cmd
    BY <1>3 DEF WipeAgain
  <2>2. PICK w \in Erased :
          \/ w.cmp = "ok" /\ wipe' = NextBlk(w) /\ UNCHANGED <<dbt, sysDbt>>
          \/ w.cmp = "fail" /\ wipe' = NextBlk([w EXCEPT !.ret = "OK"]) /\ MarkBlk
    BY <1>3 DEF WipeAgain
  <2> QED BY <2>1, <2>2, Settles
<1> QED BY <1>1, <1>2, <1>3 DEF WipeNext

LEMMA MarksAreExact == WipeInv => EraseMarksExact
<1> SUFFICES ASSUME WipeInv, wipe.pc = "accepted", NEW b \in Bank
             PROVE  /\ sysDbt[b] = {blk \in Failed(b) : blk < SysMax}
                    /\ dbt[b] = {Group(blk) : blk \in Failed(b)}
                    /\ \A blk \in EraseBlk : <<b, blk>> \in wipe.erased \cup wipe.failed
  BY DEF EraseMarksExact
<1>1. MarkExactly(wipe.failed) /\ Bank \X EraseBlk \subseteq wipe.erased \cup wipe.failed
  BY DEF WipeInv, WipeProgress
<1> QED BY <1>1 DEF MarkExactly, InBank, Failed

\* When the task does something else the part does not change.
LEMMA WipePartBegins == TaskInit => WipePart
<1> SUFFICES ASSUME TaskInit
             PROVE  WipePart
  OBVIOUS
<1>1. CASE part = "start of RDT"
  <2>1. cmd \in RdtCommands /\ dbt \in OldTables /\ sysDbt = Empty /\ WipeInit
    BY <1>1 DEF TaskInit
  <2>2. cmd \in Command
    BY <2>1, ScanAssumption DEF RdtCommands
  <2>3. dbt \in Tables /\ sysDbt \in Tables
    <3>1. OldTables \subseteq [Bank -> SUBSET (0 .. (BlockNum \div Planes - 1))]
      BY ScanAssumption
    <3>2. dbt \in [Bank -> SUBSET Nat]
      BY <2>1, <3>1
    <3> QED BY <2>1, <3>2 DEF Tables, Empty
  <2> QED BY <1>1, <2>1, <2>2, <2>3, WipeBegins DEF WipePart
<1>2. CASE part # "start of RDT"
  <2>1. OtherWipe
    BY <1>2 DEF TaskInit
  <2> QED BY <1>2, <2>1 DEF WipePart, OtherWipe
<1> QED BY <1>1, <1>2

LEMMA WipePartSteps == WipePart /\ [TaskNext]_taskVars => WipePart'
<1> SUFFICES ASSUME WipePart, [TaskNext]_taskVars
             PROVE  WipePart'
  OBVIOUS
<1>1. part' = part
  BY DEF TaskNext, taskVars
<1>2. CASE part = "start of RDT"
  <2>1. CASE WipeNext
    BY <1>1, <1>2, <2>1, WipeSteps DEF WipePart
  <2>2. CASE UNCHANGED <<cmd, dbt, sysDbt, wipe>>
    <3>1. WipeInv
      BY <1>2 DEF WipePart
    <3>2. WipeInv'
      BY <2>2, <3>1 DEF WipeInv, WipeType, WipeProgress, WipeRecord, Passed, Here, MarkExactly,
                        EraseBlk
    <3> QED BY <1>1, <1>2, <3>2 DEF WipePart
  <2> QED BY <1>2, <2>1, <2>2 DEF TaskNext, taskVars
<1>3. CASE part # "start of RDT"
  <2>1. wipe' = wipe
    BY <1>3 DEF TaskNext, taskVars, WipeNext
  <2> QED BY <1>1, <1>3, <2>1 DEF WipePart
<1> QED BY <1>2, <1>3

\* The erase before a reliability test: when the test is started, every block of the window
\* was erased or failed and the tables mark exactly those that failed, for every number of
\* banks and blocks and every order of failed and unanswered erases.
THEOREM MarksExact == TaskSpec => []EraseMarksExact
<1>1. TaskInit => WipePart
  BY WipePartBegins
<1>2. WipePart /\ [TaskNext]_taskVars => WipePart'
  BY WipePartSteps
<1>3. WipePart => EraseMarksExact
  <2>1. CASE part = "start of RDT"
    BY <2>1, MarksAreExact DEF WipePart
  <2>2. CASE part # "start of RDT"
    BY <2>2 DEF WipePart, EraseMarksExact
  <2> QED BY <2>1, <2>2
<1> QED BY <1>1, <1>2, <1>3, PTL DEF TaskSpec

----------------------------------------------------------------------------
(* The test of the flash interface                                         *)

CacheRecord ==
    [pc : {"issue", "drain", "rooms", "compare", "next", "ok", "error"}, bank : CacheBank,
     cycle : Nat, read_no : Nat, count : Int, look : Nat, ret : {"OK", "ERR"}, place : Seq(CacheBank),
     owed : SUBSET (Nat \X Kinds), queue : Seq(Nat \X Kinds \X BOOLEAN),
     cmp_tag : [CacheBank -> Nat], buf : [Pairs -> {"pattern", "other"}], fresh : SUBSET Nat,
     failed : SUBSET (Nat \X Kinds), flaws : Nat, errs : SUBSET CacheBank, timeout : BOOLEAN]

Cmds(c) == (1 .. c.read_no) \X Kinds

\* The command a completion in the queue is of, and the places of the completions that are
\* counted; a completion of a transfer is passed over, and may be of a round before.
CmdOf(e) == <<e[1], e[2]>>
Places(c) == {j \in 1 .. Len(c.queue) : c.queue[j][2] # "transfer"}
Queued(c) == {CmdOf(c.queue[j]) : j \in Places(c)}

\* A command is owed its completion or not, and one that is was not read yet.
Owing(c) ==
    /\ Len(c.place) = c.read_no /\ c.read_no <= Buffers
    /\ c.owed \subseteq Cmds(c) /\ c.failed \subseteq Cmds(c) /\ c.owed \cap c.failed = {}
    /\ \A o \in c.failed : o[2] # "transfer"
    /\ c.fresh = {i \in 1 .. c.read_no : <<i, "read">> \notin c.owed}
    /\ c.timeout = FALSE

\* Each completion that is counted is in the queue once, and says whether its command failed.
QueueIs(c) ==
    /\ \A j \in Places(c) :
         /\ CmdOf(c.queue[j]) \in Cmds(c) \ c.owed
         /\ c.queue[j][3] <=> CmdOf(c.queue[j]) \in c.failed
    /\ \A i, j \in Places(c) : CmdOf(c.queue[i]) = CmdOf(c.queue[j]) => i = j

\* A failure is still in the queue, or was seen.
FailuresSeen(c) ==
    \A o \in c.failed : o \in Queued(c) \/ (c.ret = "ERR" /\ c.place[o[1]] \in c.errs)

\* The pairs of a bank with a completion that is owed.
Active(c, b) == {i \in 1 .. Len(c.place) : c.place[i] = b /\ \E k \in Kinds : <<i, k>> \in c.owed}

RoomKept(c) == \A b \in CacheBank : Cardinality(Active(c, b)) <= Room

\* The pairs of a bank whose write, or read, was not taken from cmp_tag.
Open(c, k, b) ==
    {i \in 1 .. Len(c.place) : c.place[i] = b /\ <<i, k>> \in c.owed \cup c.failed \cup Queued(c)}

TagsCount(c) ==
    \A b \in CacheBank :
        c.cmp_tag[b] = (Cardinality(Open(c, "write", b)) + 16 * Cardinality(Open(c, "read", b))) % 256

CacheFlow(c) == Owing(c) /\ QueueIs(c) /\ FailuresSeen(c) /\ RoomKept(c) /\ TagsCount(c)

\* The writes and reads that are still to be counted.
Waiting(c) == {o \in Cmds(c) : o[2] # "transfer" /\ o \in c.owed \cup Queued(c)}

\* Nothing is counted while pairs are queued; then the count is of what is missing; and with
\* nothing missing the banks are looked at, each of which stays without a command.
CountIs(c) ==
    /\ c.pc = "issue" => Waiting(c) = (1 .. c.read_no) \X {"write", "read"} /\ c.look = 0
    /\ c.pc = "drain" => Cardinality(Waiting(c)) = c.count /\ c.look = 0
    /\ c.pc = "rooms" => /\ Waiting(c) = {} /\ c.look \in CacheBank
                         /\ c.ret = "OK" => \A b \in CacheBank : b < c.look => Active(c, b) = {}

TransfersOnly(queue) == \A k \in 1 .. Len(queue) : queue[k][2] = "transfer"

Answered(c) ==
    c.owed = {} /\ TransfersOnly(c.queue) /\ c.failed = {} /\ c.fresh = 1 .. c.read_no

CacheOk(c) ==
    /\ c \in CacheRecord
    /\ c.pc \in {"issue", "drain", "rooms"} => CacheFlow(c) /\ CountIs(c) /\ c.cycle > 0
    /\ c.pc \in {"compare", "next"} => Answered(c) /\ c.cycle > 0
    /\ c.pc = "ok" /\ c.cycle > 0 => Answered(c)
    /\ c.pc \in {"next", "ok"} /\ c.cycle > 0 => \A i \in 1 .. c.read_no : c.buf[i] = "pattern"
    /\ c.timeout => /\ c.pc = "error"
                     /\ \A o \in c.owed \cup c.failed :
                          o[2] = "transfer" \/ c.place[o[1]] \in c.errs

CacheInv == CacheOk(ct)

CachePart == IF part = "interface test" THEN CacheInv
             ELSE ct.pc = "idle" /\ ct.cycle = 0 /\ ct.timeout = FALSE

LEMMA UnfinishedIs == \A b : Unfinished(b) = Cardinality(Active(ct, b))
<1> SUFFICES ASSUME NEW b
             PROVE  {i \in OfBank(b) : \E k \in Kinds : <<i, k>> \in ct.owed} = Active(ct, b)
  BY DEF Unfinished
<1> QED BY DEF OfBank, Active

\* Sets of pairs are finite.
LEMMA PairsFinite ==
    ASSUME NEW c \in CacheRecord
    PROVE  \A S \in SUBSET (1 .. Len(c.place)) : IsFiniteSet(S) /\ Cardinality(S) \in Nat
<1> TAKE S \in SUBSET (1 .. Len(c.place))
<1>1. Len(c.place) \in Nat
  BY DEF CacheRecord
<1>2. IsFiniteSet(1 .. Len(c.place))
  BY <1>1, FS_Interval
<1> QED BY <1>2, FS_Subset, FS_CardinalityType

LEMMA WaitingFinite ==
    ASSUME NEW c \in CacheRecord
    PROVE  IsFiniteSet(Waiting(c)) /\ Cardinality(Waiting(c)) \in Nat
<1>1. IsFiniteSet(1 .. c.read_no)
  BY FS_Interval DEF CacheRecord
<1>2. IsFiniteSet(Kinds)
  <2>1. Kinds = (({} \cup {"transfer"}) \cup {"write"}) \cup {"read"}
    BY DEF Kinds
  <2> QED BY <2>1, FS_EmptySet, FS_AddElement
<1>3. IsFiniteSet(Cmds(c))
  BY <1>1, <1>2, FS_Product DEF Cmds
<1>4. Waiting(c) \subseteq Cmds(c)
  BY DEF Waiting
<1> QED BY <1>3, <1>4, FS_Subset, FS_CardinalityType

\* A completion that is sent: it joins the queue, and its command is not owed it any more.
LEMMA Sends ==
    ASSUME ct \in CacheRecord, CacheFlow(ct), NEW o \in ct.owed, NEW err \in BOOLEAN,
           NEW data \in {"pattern", "other"}, err => o[2] # "transfer", Send(o, err, data)
    PROVE  /\ ct' \in CacheRecord /\ CacheFlow(ct') /\ ct'.pc = ct.pc /\ ct'.cycle = ct.cycle
           /\ ct'.count = ct.count /\ ct'.look = ct.look /\ ct'.read_no = ct.read_no /\ ct'.ret = ct.ret
           /\ Waiting(ct') = Waiting(ct) /\ \A b : Active(ct', b) \subseteq Active(ct, b)
<1> DEFINE e == <<o[1], o[2], err>>
           buf == IF o[2] = "read" THEN [ct.buf EXCEPT ![o[1]] = data] ELSE ct.buf
           fresh == IF o[2] = "read" THEN ct.fresh \cup {o[1]} ELSE ct.fresh
           failed == IF err THEN ct.failed \cup {o} ELSE ct.failed
           flaws == IF err \/ data = "other" THEN ct.flaws + 1 ELSE ct.flaws
<1>1. /\ ct.read_no \in Nat /\ ct.read_no <= Buffers /\ Buffers \in Nat
      /\ ct.place \in Seq(CacheBank) /\ Len(ct.place) = ct.read_no
      /\ ct.queue \in Seq(Nat \X Kinds \X BOOLEAN) /\ Len(ct.queue) \in Nat
      /\ ct.owed \in SUBSET (Nat \X Kinds) /\ ct.failed \in SUBSET (Nat \X Kinds)
      /\ ct.owed \subseteq Cmds(ct) /\ ct.failed \subseteq Cmds(ct) /\ ct.owed \cap ct.failed = {}
      /\ ct.flaws \in Nat /\ ct.buf \in [Pairs -> {"pattern", "other"}] /\ ct.fresh \in SUBSET Nat
  BY CacheAssumption DEF CacheRecord, CacheFlow, Owing
<1>2. /\ o[1] \in 1 .. ct.read_no /\ o[2] \in Kinds /\ o = <<o[1], o[2]>> /\ o[1] \in Nat
      /\ o[1] \in Pairs /\ o \in Cmds(ct)
  BY <1>1 DEF Cmds, Pairs
<1>3. e \in Nat \X Kinds \X BOOLEAN /\ CmdOf(e) = o /\ e[3] = err
  BY <1>2 DEF CmdOf
<1>4. buf \in [Pairs -> {"pattern", "other"}] /\ fresh \in SUBSET Nat /\ flaws \in Nat
  BY <1>1, <1>2
<1>5. failed \in SUBSET (Nat \X Kinds) /\ ct.owed \ {o} \in SUBSET (Nat \X Kinds)
  BY <1>1, <1>2
<1>6. Append(ct.queue, e) \in Seq(Nat \X Kinds \X BOOLEAN)
  BY <1>1, <1>3
<1>7. ct' = [ct EXCEPT !.owed = ct.owed \ {o}, !.queue = Append(ct.queue, e), !.flaws = flaws,
               !.failed = failed, !.buf = buf, !.fresh = fresh]
  BY DEF Send, CacheRecord
<1> HIDE DEF e, buf, fresh, failed, flaws
<1>8. ct' \in CacheRecord
  BY <1>4, <1>5, <1>6, <1>7 DEF CacheRecord
<1>9. /\ ct'.owed = ct.owed \ {o} /\ ct'.queue = Append(ct.queue, e) /\ ct'.failed = failed
      /\ ct'.fresh = fresh /\ ct'.pc = ct.pc /\ ct'.cycle = ct.cycle /\ ct'.read_no = ct.read_no
      /\ ct'.place = ct.place /\ ct'.ret = ct.ret /\ ct'.errs = ct.errs /\ ct'.cmp_tag = ct.cmp_tag
      /\ ct'.timeout = ct.timeout /\ ct'.count = ct.count /\ ct'.look = ct.look
  BY <1>7 DEF CacheRecord
<1>10. failed = ct.failed \/ (err /\ failed = ct.failed \cup {o})
  BY DEF failed
<1>10a. err => failed = ct.failed \cup {o}
  BY DEF failed
<1>11. Cmds(ct') = Cmds(ct)
  BY <1>9 DEF Cmds
<1>12. Owing(ct')
  <2>1. fresh = {i \in 1 .. ct.read_no : <<i, "read">> \notin ct.owed \ {o}}
    <3>0. ct.fresh = {i \in 1 .. ct.read_no : <<i, "read">> \notin ct.owed}
      BY DEF CacheFlow, Owing
    <3>1. CASE o[2] = "read"
      BY <1>2, <3>0, <3>1 DEF fresh
    <3>2. CASE o[2] # "read"
      BY <1>2, <3>0, <3>2 DEF fresh
    <3> QED BY <3>1, <3>2
  <2>2. failed \subseteq Cmds(ct) /\ (ct.owed \ {o}) \cap failed = {}
    BY <1>1, <1>2, <1>10
  <2>3. \A f \in failed : f[2] # "transfer"
    BY <1>10 DEF CacheFlow, Owing
  <2>4. ct.timeout = FALSE
    BY DEF CacheFlow, Owing
  <2> QED BY <1>1, <1>9, <1>11, <2>1, <2>2, <2>3, <2>4 DEF Owing
<1>13. /\ Len(ct'.queue) = Len(ct.queue) + 1 /\ ct'.queue[Len(ct.queue) + 1] = e
       /\ \A j \in 1 .. Len(ct.queue) : ct'.queue[j] = ct.queue[j]
  BY <1>1, <1>3, <1>9
<1>13a. /\ e[2] = o[2]
        /\ \A j : j \in Places(ct') <=> j \in Places(ct) \/ (j = Len(ct.queue) + 1 /\ o[2] # "transfer")
        /\ \A j \in Places(ct) : ct'.queue[j] = ct.queue[j]
  <2>1. e[2] = o[2]
    BY DEF e
  <2>2. \A j : j \in 1 .. Len(ct.queue) + 1 <=> j \in 1 .. Len(ct.queue) \/ j = Len(ct.queue) + 1
    BY <1>1
  <2>3. Places(ct) \subseteq 1 .. Len(ct.queue)
    BY DEF Places
  <2> QED BY <1>13, <2>1, <2>2, <2>3 DEF Places
<1>14. \A j \in Places(ct) : CmdOf(ct.queue[j]) \in Cmds(ct) \ ct.owed /\ CmdOf(ct.queue[j]) # o
  BY DEF CacheFlow, QueueIs
<1>15. QueueIs(ct')
  <2>1. ASSUME NEW j \in Places(ct')
        PROVE  /\ CmdOf(ct'.queue[j]) \in Cmds(ct') \ ct'.owed
               /\ ct'.queue[j][3] <=> CmdOf(ct'.queue[j]) \in ct'.failed
    <3>1. CASE j = Len(ct.queue) + 1
      <4>1. o \notin ct.failed
        BY <1>1
      <4> QED BY <1>2, <1>3, <1>9, <1>10, <1>10a, <1>11, <1>13, <3>1, <4>1
    <3>2. CASE j \in Places(ct)
      <4>1. ct'.queue[j] = ct.queue[j]
        BY <1>13a, <3>2
      <4>2. ct.queue[j][3] <=> CmdOf(ct.queue[j]) \in ct.failed
        BY <3>2 DEF CacheFlow, QueueIs
      <4> QED BY <1>9, <1>10, <1>11, <1>14, <3>2, <4>1, <4>2
    <3> QED BY <1>13a, <3>1, <3>2
  <2>2. ASSUME NEW i \in Places(ct'), NEW j \in Places(ct'), CmdOf(ct'.queue[i]) = CmdOf(ct'.queue[j])
        PROVE  i = j
    <3>1. CASE i \in Places(ct) /\ j \in Places(ct)
      <4>1. CmdOf(ct.queue[i]) = CmdOf(ct.queue[j])
        BY <1>13a, <2>2, <3>1
      <4> QED BY <3>1, <4>1 DEF CacheFlow, QueueIs
    <3>2. CASE i \in Places(ct) /\ j = Len(ct.queue) + 1
      BY <1>3, <1>13, <1>13a, <1>14, <2>2, <3>2
    <3>3. CASE j \in Places(ct) /\ i = Len(ct.queue) + 1
      BY <1>3, <1>13, <1>13a, <1>14, <2>2, <3>3
    <3> QED BY <1>13a, <3>1, <3>2, <3>3
  <2> QED BY <2>1, <2>2 DEF QueueIs
<1>16. Queued(ct') = IF o[2] = "transfer" THEN Queued(ct) ELSE Queued(ct) \cup {o}
  <2>1. \A x : x \in Queued(ct') <=> \E j \in Places(ct') : x = CmdOf(ct'.queue[j])
    BY DEF Queued
  <2>2. \A x : x \in Queued(ct) <=> \E j \in Places(ct) : x = CmdOf(ct'.queue[j])
    BY <1>13a DEF Queued
  <2>3. CASE o[2] = "transfer"
    <3>1. Places(ct') = Places(ct)
      BY <1>13a, <2>3
    <3>2. Queued(ct') = Queued(ct)
      BY <2>1, <2>2, <3>1
    <3> QED BY <2>3, <3>2
  <2>4. CASE o[2] # "transfer"
    <3>1. \A j : j \in Places(ct') <=> j \in Places(ct) \/ j = Len(ct.queue) + 1
      BY <1>13a, <2>4
    <3>2. \A x : x \in Queued(ct') <=> x \in Queued(ct) \/ x = CmdOf(ct'.queue[Len(ct.queue) + 1])
      BY <2>1, <2>2, <3>1
    <3>3. CmdOf(ct'.queue[Len(ct.queue) + 1]) = o
      BY <1>3, <1>13
    <3>4. Queued(ct') = Queued(ct) \cup {o}
      BY <3>2, <3>3
    <3> QED BY <2>4, <3>4
  <2> QED BY <2>3, <2>4
<1>17. FailuresSeen(ct')
  <2>1. o \in failed => o \in ct.failed \/ o[2] # "transfer"
    BY <1>10
  <2> QED BY <1>1, <1>9, <1>10, <1>16, <2>1 DEF CacheFlow, FailuresSeen
<1>18. RoomKept(ct')
  <2> SUFFICES ASSUME NEW b \in CacheBank PROVE Cardinality(Active(ct', b)) <= Room
    BY DEF RoomKept
  <2>1. Active(ct', b) \subseteq Active(ct, b) /\ Active(ct, b) \subseteq 1 .. Len(ct.place)
    BY <1>9 DEF Active
  <2>2. IsFiniteSet(Active(ct, b)) /\ Cardinality(Active(ct, b)) \in Nat
    BY <2>1, PairsFinite
  <2>3. Cardinality(Active(ct', b)) <= Cardinality(Active(ct, b)) /\ Cardinality(Active(ct', b)) \in Nat
    BY <2>1, <2>2, FS_Subset, FS_CardinalityType
  <2>4. Cardinality(Active(ct, b)) <= Room
    BY DEF CacheFlow, RoomKept
  <2> QED BY <2>2, <2>3, <2>4, CacheAssumption
<1>19. TagsCount(ct')
  <2>1. \A i, k : k # "transfer" =>
           (<<i, k>> \in ct'.owed \cup ct'.failed \cup Queued(ct') <=> <<i, k>> \in ct.owed \cup ct.failed \cup Queued(ct))
    BY <1>2, <1>9, <1>10, <1>16
  <2>2. \A b : Open(ct', "write", b) = Open(ct, "write", b) /\ Open(ct', "read", b) = Open(ct, "read", b)
    BY <1>9, <2>1 DEF Open
  <2> SUFFICES ASSUME NEW b \in CacheBank
               PROVE  ct'.cmp_tag[b] = (Cardinality(Open(ct', "write", b))
                                        + 16 * Cardinality(Open(ct', "read", b))) % 256
    BY DEF TagsCount
  <2>3. ct.cmp_tag[b] = (Cardinality(Open(ct, "write", b)) + 16 * Cardinality(Open(ct, "read", b))) % 256
    BY DEF CacheFlow, TagsCount
  <2>4. Open(ct', "write", b) = Open(ct, "write", b) /\ Open(ct', "read", b) = Open(ct, "read", b)
    BY <2>2
  <2> QED BY <1>9, <2>3, <2>4
<1>20. Waiting(ct') = Waiting(ct)
  BY <1>9, <1>11, <1>16 DEF Waiting
<1>21. \A b : Active(ct', b) \subseteq Active(ct, b)
  BY <1>9 DEF Active
<1> QED BY <1>8, <1>9, <1>12, <1>15, <1>17, <1>18, <1>19, <1>20, <1>21 DEF CacheFlow

\* Taking one off a number of 8 bits, in the low or the high half.
LEMMA TakesOff ==
    /\ \A a \in Nat : a >= 1 => ((a % 256) - 1) % 256 = (a - 1) % 256
    /\ \A a \in Nat : a >= 16 => ((a % 256) - 16) % 256 = (a - 16) % 256
    /\ \A a \in Nat : ((a % 256) + 17) % 256 = (a + 17) % 256
<1>1. \A a \in Nat : \E q \in Nat, r \in 0 .. 255 : a = 256 * q + r /\ a % 256 = r
  OBVIOUS
<1>2. \A q \in Int, r \in 0 .. 255 : (256 * q + r) % 256 = r
  OBVIOUS
<1>3. ASSUME NEW a \in Nat, NEW d \in {-1, -16, 17}
      PROVE  ((a % 256) + d) % 256 = (a + d) % 256
  <2>1. PICK q \in Nat, r \in 0 .. 255 : a = 256 * q + r /\ a % 256 = r
    BY <1>1
  <2>2. CASE r + d < 0
    <3>1. r + d = 256 * (-1) + (r + d + 256) /\ a + d = 256 * (q - 1) + (r + d + 256)
          /\ r + d + 256 \in 0 .. 255 /\ q - 1 \in Int
      BY <2>1, <2>2
    <3> QED BY <1>2, <2>1, <3>1
  <2>3. CASE r + d \in 0 .. 255
    <3>1. r + d = 256 * 0 + (r + d) /\ a + d = 256 * q + (r + d)
      BY <2>1, <2>3
    <3> QED BY <1>2, <2>1, <2>3, <3>1
  <2>4. CASE r + d > 255
    <3>1. r + d = 256 * 1 + (r + d - 256) /\ a + d = 256 * (q + 1) + (r + d - 256)
          /\ r + d - 256 \in 0 .. 255 /\ q + 1 \in Int
      BY <2>1, <2>4
    <3> QED BY <1>2, <2>1, <3>1
  <2> QED BY <2>1, <2>2, <2>3, <2>4
<1>4. \A a \in Nat : a - 1 = a + (-1) /\ a - 16 = a + (-16)
                     /\ (a % 256) - 1 = (a % 256) + (-1) /\ (a % 256) - 16 = (a % 256) + (-16)
  OBVIOUS
<1> QED BY <1>3, <1>4

\* The first completion is taken from the queue: if it is counted, it is in the queue no more.
LEMMA TailIs ==
    ASSUME ct \in CacheRecord, QueueIs(ct), ct.queue # <<>>, NEW c, c = Head(ct.queue),
           NEW s, s.queue = Tail(ct.queue), s.owed = ct.owed, s.failed = ct.failed, s.read_no = ct.read_no
    PROVE  /\ QueueIs(s)
           /\ c[2] = "transfer" => Queued(s) = Queued(ct)
           /\ c[2] # "transfer" => /\ CmdOf(c) \in Cmds(ct) \ ct.owed /\ (c[3] <=> CmdOf(c) \in ct.failed)
                                   /\ Queued(ct) = Queued(s) \cup {CmdOf(c)} /\ CmdOf(c) \notin Queued(s)
<1> DEFINE n == Len(ct.queue)
           o == CmdOf(c)
<1>1. ct.queue \in Seq(Nat \X Kinds \X BOOLEAN) /\ n \in Nat /\ n > 0
  BY DEF CacheRecord
<1>2. /\ c = ct.queue[1] /\ Len(s.queue) = n - 1
      /\ \A j \in 1 .. (n - 1) : s.queue[j] = ct.queue[j + 1]
  BY <1>1
<1> HIDE DEF n, o
<1>3. /\ \A j \in Places(s) : j \in Nat /\ j + 1 \in Places(ct) /\ s.queue[j] = ct.queue[j + 1]
      /\ \A j \in Places(ct) : j = 1 \/ (j - 1 \in Places(s) /\ s.queue[j - 1] = ct.queue[j])
  <2>1. ASSUME NEW j \in Places(s)
        PROVE  j \in Nat /\ j + 1 \in Places(ct) /\ s.queue[j] = ct.queue[j + 1]
    <3>1. j \in 1 .. (n - 1) /\ s.queue[j][2] # "transfer"
      BY <1>2 DEF Places
    <3>2. j \in Nat /\ j + 1 \in 1 .. n /\ s.queue[j] = ct.queue[j + 1]
      BY <1>1, <1>2, <3>1
    <3> QED BY <3>1, <3>2 DEF Places, n
  <2>2. ASSUME NEW j \in Places(ct), j # 1
        PROVE  j - 1 \in Places(s) /\ s.queue[j - 1] = ct.queue[j]
    <3>1. j \in 1 .. n /\ ct.queue[j][2] # "transfer"
      BY DEF Places, n
    <3>2. j - 1 \in 1 .. (n - 1) /\ (j - 1) + 1 = j
      BY <1>1, <2>2, <3>1
    <3>3. s.queue[j - 1] = ct.queue[j]
      BY <1>2, <3>2
    <3> QED BY <1>2, <3>1, <3>2, <3>3 DEF Places
  <2> QED BY <2>1, <2>2
<1>3a. /\ \A j \in Places(s) : j \in Nat /\ \E i \in Places(ct) : i = j + 1 /\ s.queue[j] = ct.queue[i]
       /\ \A j \in Places(ct) : j = 1 \/ \E i \in Places(s) : s.queue[i] = ct.queue[j]
  BY <1>3
<1>4. Cmds(s) = Cmds(ct)
  BY DEF Cmds
<1>q. /\ \A j \in Places(ct) :
           /\ CmdOf(ct.queue[j]) \in Cmds(ct) \ ct.owed
           /\ ct.queue[j][3] <=> CmdOf(ct.queue[j]) \in ct.failed
      /\ \A i, j \in Places(ct) : CmdOf(ct.queue[i]) = CmdOf(ct.queue[j]) => i = j
  BY DEF QueueIs
<1>5. QueueIs(s)
  <2>1. ASSUME NEW j \in Places(s)
        PROVE  /\ CmdOf(s.queue[j]) \in Cmds(s) \ s.owed
               /\ s.queue[j][3] <=> CmdOf(s.queue[j]) \in s.failed
    <3>1. PICK i \in Places(ct) : s.queue[j] = ct.queue[i]
      BY <1>3a
    <3>2. /\ CmdOf(ct.queue[i]) \in Cmds(ct) \ ct.owed
          /\ ct.queue[i][3] <=> CmdOf(ct.queue[i]) \in ct.failed
      BY <1>q
    <3>3. CmdOf(s.queue[j]) = CmdOf(ct.queue[i]) /\ s.queue[j][3] = ct.queue[i][3]
      BY <3>1
    <3>4. CmdOf(s.queue[j]) \in Cmds(s) \ s.owed
      BY <1>4, <3>2, <3>3
    <3> QED BY Zenon, <3>2, <3>3, <3>4
  <2>2. ASSUME NEW i \in Places(s), NEW j \in Places(s), CmdOf(s.queue[i]) = CmdOf(s.queue[j])
        PROVE  i = j
    <3>0. PICK k \in Places(ct), l \in Places(ct) :
             k = i + 1 /\ s.queue[i] = ct.queue[k] /\ l = j + 1 /\ s.queue[j] = ct.queue[l]
      BY <1>3a
    <3>0a. CmdOf(ct.queue[k]) = CmdOf(ct.queue[l])
      BY <2>2, <3>0
    <3>1. i + 1 = j + 1
      BY <1>q, <3>0, <3>0a
    <3>2. i \in Nat /\ j \in Nat
      BY <1>3
    <3> QED BY <3>1, <3>2
  <2> QED BY <2>1, <2>2 DEF QueueIs
<1>6. Queued(s) \subseteq Queued(ct)
  <2> SUFFICES ASSUME NEW j \in Places(s) PROVE CmdOf(s.queue[j]) \in Queued(ct)
    BY DEF Queued
  <2>1. PICK i \in Places(ct) : s.queue[j] = ct.queue[i]
    BY <1>3a
  <2> QED BY <2>1 DEF Queued
<1>6a. ASSUME NEW x \in Queued(ct)
       PROVE  x \in Queued(s) \/ (1 \in Places(ct) /\ x = CmdOf(ct.queue[1]))
  <2>1. PICK j \in Places(ct) : x = CmdOf(ct.queue[j])
    BY DEF Queued
  <2>2. CASE j = 1
    BY <2>1, <2>2
  <2>3. CASE j # 1
    <3>1. PICK i \in Places(s) : s.queue[i] = ct.queue[j]
      BY <1>3a, <2>3
    <3> QED BY <2>1, <3>1 DEF Queued
  <2> QED BY <2>2, <2>3
<1>7. ASSUME c[2] = "transfer"
      PROVE  Queued(s) = Queued(ct)
  <2>1. 1 \notin Places(ct)
    BY <1>2, <1>7 DEF Places
  <2> QED BY <1>6, <1>6a, <2>1
<1>8. ASSUME c[2] # "transfer"
      PROVE  /\ o \in Cmds(ct) \ ct.owed /\ (c[3] <=> o \in ct.failed)
             /\ Queued(ct) = Queued(s) \cup {o} /\ o \notin Queued(s)
  <2>1. 1 \in Places(ct) /\ o = CmdOf(ct.queue[1])
    <3>1. 1 \in 1 .. n
      BY <1>1
    <3> QED BY <1>2, <1>8, <3>1 DEF Places, n, o
  <2>2. o \in Cmds(ct) \ ct.owed /\ (c[3] <=> o \in ct.failed)
    <3>1. c[3] = ct.queue[1][3]
      BY <1>2
    <3>2. /\ CmdOf(ct.queue[1]) \in Cmds(ct) \ ct.owed
          /\ ct.queue[1][3] <=> CmdOf(ct.queue[1]) \in ct.failed
      BY <1>q, <2>1
    <3> QED BY Zenon, <2>1, <3>1, <3>2
  <2>3. ASSUME NEW j \in Places(s), CmdOf(s.queue[j]) = o
        PROVE  FALSE
    <3>0. PICK i \in Places(ct) : i = j + 1 /\ s.queue[j] = ct.queue[i]
      BY <1>3a
    <3>1. i = 1
      BY <1>q, <2>1, <2>3, <3>0
    <3>2. j \in 1 .. Len(s.queue) /\ j \in Nat
      BY <1>3a DEF Places
    <3> QED BY <1>1, <1>2, <3>0, <3>1, <3>2
  <2>4. o \notin Queued(s)
    BY <2>3 DEF Queued
  <2>5. \A x \in Queued(ct) : x = o \/ x \in Queued(s)
    BY <1>6a, <2>1
  <2>6. o \in Queued(ct)
    BY <2>1 DEF Queued
  <2> QED BY <1>6, <2>2, <2>4, <2>5, <2>6
<1> QED BY <1>5, <1>7, <1>8 DEF o

\* The completion of a transfer is taken from the queue, and is passed over.
LEMMA PassesOver ==
    ASSUME ct \in CacheRecord, CacheFlow(ct), ct.queue # <<>>, NEW s,
           Head(ct.queue)[2] = "transfer", s = [ct EXCEPT !.queue = Tail(@)]
    PROVE  /\ s \in CacheRecord /\ CacheFlow(s) /\ Waiting(s) = Waiting(ct)
           /\ s.pc = ct.pc /\ s.cycle = ct.cycle /\ s.count = ct.count /\ s.look = ct.look
<1>1. ct.queue \in Seq(Nat \X Kinds \X BOOLEAN) /\ Tail(ct.queue) \in Seq(Nat \X Kinds \X BOOLEAN)
  BY DEF CacheRecord
<1>2. /\ s \in CacheRecord
      /\ s.queue = Tail(ct.queue) /\ s.pc = ct.pc /\ s.cycle = ct.cycle /\ s.owed = ct.owed
      /\ s.place = ct.place /\ s.read_no = ct.read_no /\ s.failed = ct.failed /\ s.fresh = ct.fresh
      /\ s.timeout = ct.timeout /\ s.ret = ct.ret /\ s.errs = ct.errs /\ s.cmp_tag = ct.cmp_tag
      /\ s.count = ct.count /\ s.look = ct.look
  BY <1>1 DEF CacheRecord
<1>3. QueueIs(s) /\ Queued(s) = Queued(ct)
  <2>1. QueueIs(ct)
    BY DEF CacheFlow
  <2>2. PICK c : c = Head(ct.queue) /\ c[2] = "transfer"
    OBVIOUS
  <2>3. /\ s.queue = Tail(ct.queue) /\ s.owed = ct.owed /\ s.failed = ct.failed
        /\ s.read_no = ct.read_no
    BY <1>2
  <2> QED BY ZenonT(30), <2>1, <2>2, <2>3, TailIs
<1>4. Owing(s)
  BY <1>2 DEF CacheFlow, Owing, Cmds
<1>5. FailuresSeen(s)
  BY <1>2, <1>3 DEF CacheFlow, FailuresSeen
<1>6. RoomKept(s)
  <2>1. \A b : Active(s, b) = Active(ct, b)
    BY <1>2 DEF Active
  <2> QED BY <2>1 DEF CacheFlow, RoomKept
<1>7. TagsCount(s)
  <2> SUFFICES ASSUME NEW b \in CacheBank
               PROVE  s.cmp_tag[b] = (Cardinality(Open(s, "write", b))
                                      + 16 * Cardinality(Open(s, "read", b))) % 256
    BY DEF TagsCount
  <2>1. Open(s, "write", b) = Open(ct, "write", b) /\ Open(s, "read", b) = Open(ct, "read", b)
    BY <1>2, <1>3 DEF Open
  <2>2. ct.cmp_tag[b] = (Cardinality(Open(ct, "write", b)) + 16 * Cardinality(Open(ct, "read", b))) % 256
    BY DEF CacheFlow, TagsCount
  <2> QED BY <1>2, <2>1, <2>2
<1>8. Waiting(s) = Waiting(ct)
  BY <1>2, <1>3 DEF Waiting, Cmds
<1> QED BY <1>2, <1>3, <1>4, <1>5, <1>6, <1>7, <1>8 DEF CacheFlow

\* A completion taken from the queue and counted, with or without an error.
LEMMA Takes ==
    ASSUME ct \in CacheRecord, CacheFlow(ct), ct.queue # <<>>, NEW c, c = Head(ct.queue),
           c[2] # "transfer", NEW s, s = Counted(c)
    PROVE  /\ s \in CacheRecord /\ CacheFlow(s)
           /\ s.pc = ct.pc /\ s.cycle = ct.cycle /\ s.count = ct.count - 1 /\ s.look = ct.look
           /\ \E o \in Waiting(ct) : Waiting(s) = Waiting(ct) \ {o}
<1>1. /\ ct.read_no \in Nat /\ ct.read_no <= Buffers
      /\ ct.place \in Seq(CacheBank) /\ Len(ct.place) = ct.read_no
      /\ ct.queue \in Seq(Nat \X Kinds \X BOOLEAN) /\ Len(ct.queue) \in Nat /\ Len(ct.queue) > 0
      /\ ct.owed \cap ct.failed = {} /\ ct.count \in Int /\ ct.errs \in SUBSET CacheBank
      /\ ct.cmp_tag \in [CacheBank -> Nat]
  BY DEF CacheRecord, CacheFlow, Owing
<1>2. c \in Nat \X Kinds \X BOOLEAN /\ Tail(ct.queue) \in Seq(Nat \X Kinds \X BOOLEAN)
  BY <1>1
<1> DEFINE o == CmdOf(c)
<1>3. o \in Cmds(ct) \ ct.owed /\ (c[3] <=> o \in ct.failed) /\ o = <<c[1], c[2]>>
  <2>1. PICK t : t = [ct EXCEPT !.queue = Tail(ct.queue)]
    OBVIOUS
  <2>2. /\ t.queue = Tail(ct.queue) /\ t.owed = ct.owed /\ t.failed = ct.failed
        /\ t.read_no = ct.read_no
    BY <2>1 DEF CacheRecord
  <2>3. CmdOf(c) \in Cmds(ct) \ ct.owed /\ (c[3] <=> CmdOf(c) \in ct.failed)
    BY <2>2, TailIs DEF CacheFlow
  <2> QED BY <2>3 DEF CmdOf
<1>4. c[1] \in 1 .. ct.read_no /\ c[2] \in {"write", "read"} /\ c[3] \in BOOLEAN /\ ct.place[c[1]] \in CacheBank
  BY SMTT(30), <1>1, <1>2, <1>3 DEF Cmds, Kinds
<1> DEFINE b0 == ct.place[c[1]]
           tag == IF c[3] THEN ct.cmp_tag[b0]
                  ELSE (ct.cmp_tag[b0] - (IF c[2] = "read" THEN 16 ELSE 1)) % 256
           errs == IF c[3] THEN ct.errs \cup {b0} ELSE ct.errs
           ret == IF c[3] THEN "ERR" ELSE ct.ret
<1>5. s = [ct EXCEPT !.queue = Tail(ct.queue), !.count = ct.count - 1, !.ret = ret,
                     !.errs = errs, !.cmp_tag = [ct.cmp_tag EXCEPT ![b0] = tag]]
  <2>1. Counted(c) =
          [ct EXCEPT !.queue = Tail(ct.queue), !.count = ct.count - 1,
             !.ret = IF c[3] THEN "ERR" ELSE ct.ret,
             !.errs = IF c[3] THEN ct.errs \cup {ct.place[c[1]]} ELSE ct.errs,
             !.cmp_tag = [ct.cmp_tag EXCEPT ![ct.place[c[1]]] =
                 IF c[3] THEN ct.cmp_tag[ct.place[c[1]]]
                 ELSE (ct.cmp_tag[ct.place[c[1]]] - (IF c[2] = "read" THEN 16 ELSE 1)) % 256]]
    BY ZenonT(30) DEF Counted
  <2> QED BY <2>1, Zenon
<1>7. ret \in {"OK", "ERR"} /\ errs \in SUBSET CacheBank /\ tag \in Nat
  <2>1. ret \in {"OK", "ERR"} /\ errs \in SUBSET CacheBank
    BY <1>1, <1>4 DEF CacheRecord
  <2>2. ct.cmp_tag[b0] \in Nat
    BY <1>1, <1>4
  <2>3. \A x \in Nat : (x - 1) % 256 \in Nat /\ (x - 16) % 256 \in Nat
    OBVIOUS
  <2>4. tag = ct.cmp_tag[b0] \/ tag = (ct.cmp_tag[b0] - 1) % 256 \/ tag = (ct.cmp_tag[b0] - 16) % 256
    OBVIOUS
  <2> HIDE DEF tag
  <2>5. tag \in Nat
    BY SMTT(30), <2>2, <2>3, <2>4
  <2> QED BY <2>1, <2>5
<1> DEFINE tags == [ct.cmp_tag EXCEPT ![b0] = tag]
<1>8. tags \in [CacheBank -> Nat] /\ tags[b0] = tag /\ \A b \in CacheBank : b # b0 => tags[b] = ct.cmp_tag[b]
  BY <1>1, <1>4, <1>7
<1> HIDE DEF o, tag, errs, ret, tags
<1>9. /\ s \in CacheRecord
      /\ s.queue = Tail(ct.queue) /\ s.pc = ct.pc /\ s.cycle = ct.cycle /\ s.owed = ct.owed
      /\ s.place = ct.place /\ s.read_no = ct.read_no /\ s.failed = ct.failed /\ s.fresh = ct.fresh
      /\ s.timeout = ct.timeout /\ s.ret = ret /\ s.errs = errs /\ s.cmp_tag = tags
      /\ s.count = ct.count - 1 /\ s.look = ct.look
  <2>1. s = [ct EXCEPT !.queue = Tail(ct.queue), !.count = ct.count - 1, !.ret = ret,
                       !.errs = errs, !.cmp_tag = tags]
    BY <1>5 DEF tags
  <2>2. ct.count - 1 \in Int
    BY <1>1
  <2>3. s \in CacheRecord
    <3>1. Tail(ct.queue) \in Seq(Nat \X Kinds \X BOOLEAN)
      BY <1>2
    <3>2. ret \in {"OK", "ERR"} /\ errs \in SUBSET CacheBank /\ tags \in [CacheBank -> Nat]
      BY <1>7, <1>8
    <3> QED BY ZenonT(40), <2>1, <2>2, <3>1, <3>2 DEF CacheRecord
  <2>4. /\ s.queue = Tail(ct.queue) /\ s.pc = ct.pc /\ s.cycle = ct.cycle /\ s.owed = ct.owed
        /\ s.place = ct.place /\ s.read_no = ct.read_no /\ s.failed = ct.failed /\ s.fresh = ct.fresh
        /\ s.timeout = ct.timeout /\ s.ret = ret /\ s.errs = errs /\ s.cmp_tag = tags
        /\ s.count = ct.count - 1 /\ s.look = ct.look
    BY <2>1 DEF CacheRecord
  <2> QED BY <2>3, <2>4
<1>10. Owing(s)
  BY <1>9 DEF CacheFlow, Owing, Cmds
<1>12. QueueIs(s)
  BY <1>9, TailIs DEF CacheFlow
<1>13. Queued(ct) = Queued(s) \cup {o} /\ o \notin Queued(s)
  BY <1>9, TailIs DEF CacheFlow, o
<1>14. FailuresSeen(s)
  <2> SUFFICES ASSUME NEW f \in ct.failed
               PROVE  f \in Queued(s) \/ (s.ret = "ERR" /\ s.place[f[1]] \in s.errs)
    BY <1>9 DEF FailuresSeen
  <2>1. CASE f = o
    <3>1. c[3] /\ f[1] = c[1]
      BY <1>3, <2>1
    <3> QED BY <1>9, <3>1 DEF ret, errs
  <2>2. CASE f # o
    <3>1. f \in Queued(ct) \/ (ct.ret = "ERR" /\ ct.place[f[1]] \in ct.errs)
      BY DEF CacheFlow, FailuresSeen
    <3> QED BY <1>9, <1>13, <2>2, <3>1 DEF ret, errs
  <2> QED BY <2>1, <2>2
<1>15. RoomKept(s)
  <2>1. \A b : Active(s, b) = Active(ct, b)
    BY <1>9 DEF Active
  <2> QED BY <2>1 DEF CacheFlow, RoomKept
<1>16. TagsCount(s)
  <2>0. \A k, b : Open(ct, k, b) \subseteq 1 .. Len(ct.place)
    BY DEF Open
  <2>2. CASE c[3]
    <3>1. \A k, b : Open(s, k, b) = Open(ct, k, b)
      BY <1>3, <1>9, <1>13, <2>2 DEF Open
    <3>2. \A b \in CacheBank : s.cmp_tag[b] = ct.cmp_tag[b]
      BY <1>4, <1>8, <1>9, <2>2 DEF tag
    <3>3. TagsCount(ct)
      BY DEF CacheFlow
    <3> SUFFICES ASSUME NEW b \in CacheBank
                 PROVE  s.cmp_tag[b] = (Cardinality(Open(s, "write", b))
                                        + 16 * Cardinality(Open(s, "read", b))) % 256
      BY DEF TagsCount
    <3>4. Open(s, "write", b) = Open(ct, "write", b) /\ Open(s, "read", b) = Open(ct, "read", b)
      BY <3>1
    <3>5. s.cmp_tag[b] = ct.cmp_tag[b]
      BY <3>2
    <3>6. ct.cmp_tag[b] = (Cardinality(Open(ct, "write", b))
                                        + 16 * Cardinality(Open(ct, "read", b))) % 256
      BY <3>3 DEF TagsCount
    <3> QED BY <3>4, <3>5, <3>6
  <2>3. CASE ~c[3]
    <3>1. \A k, b : Open(s, k, b) = IF k = c[2] /\ b = b0 THEN Open(ct, k, b) \ {c[1]} ELSE Open(ct, k, b)
      <4> SUFFICES ASSUME NEW k, NEW b
                   PROVE  Open(s, k, b) = IF k = c[2] /\ b = b0 THEN Open(ct, k, b) \ {c[1]} ELSE Open(ct, k, b)
        OBVIOUS
      <4>1. \A i : <<i, k>> = o <=> (i = c[1] /\ k = c[2])
        BY <1>3
      <4>2. o \notin ct.owed \cup ct.failed
        BY <1>3, <2>3
      <4>3. \A i \in 1 .. Len(ct.place) : i = c[1] => ct.place[i] = b0
        OBVIOUS
      <4>4. \A i : <<i, k>> \in s.owed \cup s.failed \cup Queued(s) <=>
                    <<i, k>> \in ct.owed \cup ct.failed \cup Queued(ct) /\ ~(i = c[1] /\ k = c[2])
        BY <1>9, <1>13, <4>1, <4>2
      <4>5. s.place = ct.place
        BY <1>9
      <4>6. Open(s, k, b) = {i \in Open(ct, k, b) : ~(i = c[1] /\ k = c[2])}
        BY <4>4, <4>5 DEF Open
      <4>7. c[1] \in Open(ct, k, b) => b = b0
        BY DEF Open
      <4> QED BY <4>6, <4>7
    <3>2. c[1] \in Open(ct, c[2], b0)
      BY <1>1, <1>3, <1>4, <1>13 DEF Open
    <3> SUFFICES ASSUME NEW b \in CacheBank
                 PROVE  s.cmp_tag[b] = (Cardinality(Open(s, "write", b))
                                        + 16 * Cardinality(Open(s, "read", b))) % 256
      BY DEF TagsCount
    <3> DEFINE W == Cardinality(Open(ct, "write", b))
               R == Cardinality(Open(ct, "read", b))
    <3>3. ct.cmp_tag[b] = (W + 16 * R) % 256
      BY DEF CacheFlow, TagsCount
    <3>4. /\ IsFiniteSet(Open(ct, "write", b)) /\ IsFiniteSet(Open(ct, "read", b))
          /\ W \in Nat /\ R \in Nat
      BY <2>0, PairsFinite
    <3>5. CASE b # b0
      <4>1. Open(s, "write", b) = Open(ct, "write", b) /\ Open(s, "read", b) = Open(ct, "read", b)
        BY <3>1, <3>5
      <4> QED BY <1>8, <1>9, <2>3, <3>3, <3>5, <4>1
    <3>6. CASE b = b0 /\ c[2] = "write"
      <4>1. Open(s, "write", b) = Open(ct, "write", b) \ {c[1]} /\ Open(s, "read", b) = Open(ct, "read", b)
        BY <3>1, <3>6
      <4>2. Cardinality(Open(s, "write", b)) = W - 1
        <5>1. c[1] \in Open(ct, "write", b)
          BY <3>2, <3>6
        <5> QED BY <3>4, <4>1, <5>1, FS_RemoveElement
      <4>3. W >= 1
        BY <3>2, <3>4, <3>6, FS_EmptySet
      <4>4. s.cmp_tag[b] = (ct.cmp_tag[b] - 1) % 256
        BY <1>8, <1>9, <2>3, <3>6 DEF tag
      <4>5. (((W + 16 * R) % 256) - 1) % 256 = ((W + 16 * R) - 1) % 256
        <5>1. W + 16 * R \in Nat /\ W + 16 * R >= 1
          BY <3>4, <4>3
        <5> HIDE DEF W, R
        <5> QED BY <5>1, TakesOff
      <4> HIDE DEF W, R
      <4>6. (W + 16 * R) - 1 = (W - 1) + 16 * R
        BY <3>4
      <4> QED BY <3>3, <4>1, <4>2, <4>4, <4>5, <4>6 DEF R
    <3>7. CASE b = b0 /\ c[2] = "read"
      <4>1. Open(s, "read", b) = Open(ct, "read", b) \ {c[1]} /\ Open(s, "write", b) = Open(ct, "write", b)
        BY <3>1, <3>7
      <4>2. Cardinality(Open(s, "read", b)) = R - 1
        <5>1. c[1] \in Open(ct, "read", b)
          BY <3>2, <3>7
        <5> QED BY <3>4, <4>1, <5>1, FS_RemoveElement
      <4>3. R >= 1
        BY <3>2, <3>4, <3>7, FS_EmptySet
      <4>4. s.cmp_tag[b] = (ct.cmp_tag[b] - 16) % 256
        BY <1>8, <1>9, <2>3, <3>7 DEF tag
      <4>5. (((W + 16 * R) % 256) - 16) % 256 = ((W + 16 * R) - 16) % 256
        <5>1. W + 16 * R \in Nat /\ W + 16 * R >= 16
          BY <3>4, <4>3
        <5> HIDE DEF W, R
        <5> QED BY <5>1, TakesOff
      <4> HIDE DEF W, R
      <4>6. (W + 16 * R) - 16 = W + 16 * (R - 1)
        BY <3>4
      <4> QED BY <3>3, <4>1, <4>2, <4>4, <4>5, <4>6 DEF W
    <3> QED BY <1>4, <2>3, <3>5, <3>6, <3>7 DEF Kinds
  <2> QED BY <2>2, <2>3
<1>17. o \in Waiting(ct) /\ Waiting(s) = Waiting(ct) \ {o}
  <2>1. o[2] # "transfer" /\ o \in Cmds(ct) /\ o \notin s.owed /\ Cmds(s) = Cmds(ct)
    BY <1>3, <1>9 DEF Cmds
  <2> QED BY <1>9, <1>13, <2>1 DEF Waiting
<1> QED BY <1>9, <1>10, <1>12, <1>14, <1>15, <1>16, <1>17 DEF CacheFlow

\* A pair that is queued: the bank had room for it.
LEMMA Issues ==
    ASSUME ct \in CacheRecord, CacheFlow(ct), CountIs(ct), Issue
    PROVE  ct' \in CacheRecord /\ CacheFlow(ct') /\ CountIs(ct') /\ ct'.pc = "issue" /\ ct'.cycle = ct.cycle
<1> DEFINE n == ct.read_no
           i == n + 1
           p == Append(ct.place, ct.bank)
           owed == ct.owed \cup ({i} \X Kinds)
           tags == [ct.cmp_tag EXCEPT ![ct.bank] = (ct.cmp_tag[ct.bank] + 17) % 256]
<1>1. /\ n \in Nat /\ n < Buffers /\ Buffers \in Nat
      /\ ct.place \in Seq(CacheBank) /\ Len(ct.place) = n /\ ct.bank \in CacheBank
      /\ ct.owed \in SUBSET (Nat \X Kinds) /\ ct.owed \subseteq Cmds(ct) /\ ct.failed \subseteq Cmds(ct)
      /\ ct.owed \cap ct.failed = {} /\ ct.cmp_tag \in [CacheBank -> Nat]
      /\ Unfinished(ct.bank) < Room
  BY CacheAssumption DEF CacheRecord, CacheFlow, Owing, Issue, HasRoom
<1>2. ct' = [ct EXCEPT !.place = p, !.read_no = i, !.bank = NextBank, !.owed = owed, !.cmp_tag = tags]
  BY DEF Issue, CacheRecord
<1>3. /\ p \in Seq(CacheBank) /\ Len(p) = i /\ p[i] = ct.bank
      /\ \A j \in 1 .. n : p[j] = ct.place[j]
  BY <1>1
<1>4. /\ i \in Nat /\ i <= Buffers /\ i \notin 1 .. n /\ \A j : j \in 1 .. i <=> j \in 1 .. n \/ j = i
  BY <1>1
<1>5. NextBank \in CacheBank
  BY <1>1, CacheAssumption DEF NextBank, CacheBank
<1>6. owed \in SUBSET (Nat \X Kinds)
  BY <1>1, <1>4
<1>7. /\ tags \in [CacheBank -> Nat] /\ tags[ct.bank] = (ct.cmp_tag[ct.bank] + 17) % 256
      /\ \A b \in CacheBank : b # ct.bank => tags[b] = ct.cmp_tag[b]
  <2>1. (ct.cmp_tag[ct.bank] + 17) % 256 \in Nat
    BY <1>1
  <2> QED BY <1>1, <2>1
<1> HIDE DEF p, owed, tags, n, i
<1>8. ct' \in CacheRecord
  BY ZenonT(40), <1>2, <1>3, <1>4, <1>5, <1>6, <1>7 DEF CacheRecord
<1>9. /\ ct'.place = p /\ ct'.read_no = i /\ ct'.owed = owed /\ ct'.cmp_tag = tags
      /\ ct'.queue = ct.queue /\ ct'.failed = ct.failed /\ ct'.fresh = ct.fresh /\ ct'.pc = ct.pc
      /\ ct'.cycle = ct.cycle /\ ct'.ret = ct.ret /\ ct'.errs = ct.errs /\ ct'.timeout = ct.timeout
      /\ ct'.look = ct.look
  BY <1>2 DEF CacheRecord
<1>10. /\ Cmds(ct') = Cmds(ct) \cup ({i} \X Kinds)
       /\ Cmds(ct) \cap ({i} \X Kinds) = {}
  BY <1>4, <1>9 DEF Cmds, n
<1>11. Owing(ct')
  <2>1. ct.fresh = {j \in 1 .. n : <<j, "read">> \notin ct.owed}
    BY DEF CacheFlow, Owing, n
  <2>2. <<i, "read">> \in owed /\ \A j \in 1 .. n : <<j, "read">> \in owed <=> <<j, "read">> \in ct.owed
    BY <1>4 DEF owed, Kinds
  <2>3. ct.fresh = {j \in 1 .. i : <<j, "read">> \notin owed}
    BY <1>4, <2>1, <2>2
  <2>4. owed \subseteq Cmds(ct') /\ ct.failed \subseteq Cmds(ct') /\ owed \cap ct.failed = {}
    BY <1>1, <1>10 DEF owed
  <2>5. (\A o \in ct.failed : o[2] # "transfer") /\ ct.timeout = FALSE
    BY DEF CacheFlow, Owing
  <2> QED BY <1>3, <1>4, <1>9, <2>3, <2>4, <2>5 DEF Owing
<1>12. Queued(ct') = Queued(ct) /\ Places(ct') = Places(ct)
  BY <1>9 DEF Queued, Places
<1>13. Queued(ct) \subseteq Cmds(ct)
  BY DEF CacheFlow, QueueIs, Queued
<1>14. QueueIs(ct')
  <2>1. \A j \in Places(ct) :
           /\ CmdOf(ct.queue[j]) \in Cmds(ct) \ ct.owed
           /\ ct.queue[j][3] <=> CmdOf(ct.queue[j]) \in ct.failed
    BY DEF CacheFlow, QueueIs
  <2>2. \A o \in Cmds(ct) \ ct.owed : o \in Cmds(ct') \ owed
    BY <1>10 DEF owed
  <2>3. \A k, j \in Places(ct) : CmdOf(ct.queue[k]) = CmdOf(ct.queue[j]) => k = j
    BY DEF CacheFlow, QueueIs
  <2> QED BY <1>9, <1>12, <2>1, <2>2, <2>3 DEF QueueIs
<1>15. FailuresSeen(ct')
  <2>1. \A o \in ct.failed : p[o[1]] = ct.place[o[1]]
    BY <1>1, <1>3 DEF Cmds, n
  <2>2. \A o \in ct.failed : o \in Queued(ct) \/ (ct.ret = "ERR" /\ ct.place[o[1]] \in ct.errs)
    BY DEF CacheFlow, FailuresSeen
  <2> QED BY <1>9, <1>12, <2>1, <2>2 DEF FailuresSeen
<1>16. RoomKept(ct')
  <2> SUFFICES ASSUME NEW b \in CacheBank PROVE Cardinality(Active(ct', b)) <= Room
    BY DEF RoomKept
  <2>1. Active(ct, b) \subseteq 1 .. Len(ct.place) /\ Active(ct, b) \subseteq 1 .. n
    BY <1>1 DEF Active
  <2>2. IsFiniteSet(Active(ct, b)) /\ Cardinality(Active(ct, b)) \in Nat
    BY <2>1, PairsFinite
  <2>3. \A j \in 1 .. n, k \in Kinds : <<j, k>> \in owed <=> <<j, k>> \in ct.owed
    BY <1>4 DEF owed
  <2>4. Active(ct', b) = IF b = ct.bank THEN Active(ct, b) \cup {i} ELSE Active(ct, b)
    <3>1. Active(ct', b) = {j \in 1 .. i : p[j] = b /\ \E k \in Kinds : <<j, k>> \in owed}
      BY <1>3, <1>9 DEF Active
    <3>2. Active(ct, b) = {j \in 1 .. n : ct.place[j] = b /\ \E k \in Kinds : <<j, k>> \in ct.owed}
      BY <1>1 DEF Active
    <3>3. \E k \in Kinds : <<i, k>> \in owed
      BY DEF owed, Kinds
    <3> QED BY ZenonT(40), <1>3, <1>4, <2>3, <3>1, <3>2, <3>3
  <2>5. CASE b = ct.bank
    <3>1. Cardinality(Active(ct, b)) < Room
      BY <1>1, <2>5, UnfinishedIs
    <3>2. Cardinality(Active(ct', b)) = Cardinality(Active(ct, b)) + 1
      BY <1>4, <2>1, <2>2, <2>4, <2>5, FS_AddElement
    <3> QED BY <2>2, <3>1, <3>2, CacheAssumption
  <2>6. CASE b # ct.bank
    BY <2>4, <2>6 DEF CacheFlow, RoomKept
  <2> QED BY <2>5, <2>6
<1>17. TagsCount(ct')
  <2> SUFFICES ASSUME NEW b \in CacheBank
               PROVE  tags[b] = (Cardinality(Open(ct', "write", b))
                                  + 16 * Cardinality(Open(ct', "read", b))) % 256
    BY <1>9 DEF TagsCount
  <2> DEFINE W == Cardinality(Open(ct, "write", b))
             R == Cardinality(Open(ct, "read", b))
  <2>1. ct.cmp_tag[b] = (W + 16 * R) % 256
    BY DEF CacheFlow, TagsCount
  <2>2. ASSUME NEW k \in {"write", "read"}
        PROVE  /\ IsFiniteSet(Open(ct, k, b)) /\ Cardinality(Open(ct, k, b)) \in Nat
               /\ Open(ct', k, b) = IF b = ct.bank THEN Open(ct, k, b) \cup {i} ELSE Open(ct, k, b)
               /\ i \notin Open(ct, k, b)
    <3>1. Open(ct, k, b) = {j \in 1 .. n : ct.place[j] = b /\ <<j, k>> \in ct.owed \cup ct.failed \cup Queued(ct)}
      BY <1>1 DEF Open
    <3>2. Open(ct', k, b) = {j \in 1 .. i : p[j] = b /\ <<j, k>> \in owed \cup ct.failed \cup Queued(ct)}
      BY <1>3, <1>9, <1>12 DEF Open
    <3>3. \A j \in 1 .. n : <<j, k>> \in owed <=> <<j, k>> \in ct.owed
      BY <1>4 DEF owed
    <3>4. <<i, k>> \in owed
      BY DEF owed, Kinds
    <3>5. Open(ct, k, b) \subseteq 1 .. Len(ct.place)
      BY DEF Open
    <3>6. IsFiniteSet(Open(ct, k, b)) /\ Cardinality(Open(ct, k, b)) \in Nat
      BY <3>5, PairsFinite
    <3>7. Open(ct', k, b) = IF b = ct.bank THEN Open(ct, k, b) \cup {i} ELSE Open(ct, k, b)
      BY <1>3, <1>4, <3>1, <3>2, <3>3, <3>4
    <3> QED BY <1>4, <3>1, <3>6, <3>7
  <2>3. CASE b = ct.bank
    <3>1. /\ Cardinality(Open(ct', "write", b)) = W + 1 /\ Cardinality(Open(ct', "read", b)) = R + 1
          /\ W \in Nat /\ R \in Nat
      BY SMTT(30), <2>2, <2>3, FS_AddElement
    <3> HIDE DEF W, R
    <3>2. W + 16 * R \in Nat /\ (W + 1) + 16 * (R + 1) = (W + 16 * R) + 17
      BY <3>1
    <3>3. (((W + 16 * R) % 256) + 17) % 256 = ((W + 16 * R) + 17) % 256
      BY <3>2, TakesOff
    <3> QED BY <1>7, <2>1, <2>3, <3>1, <3>2, <3>3
  <2>4. CASE b # ct.bank
    <3>1. Open(ct', "write", b) = Open(ct, "write", b) /\ Open(ct', "read", b) = Open(ct, "read", b)
      BY <2>2, <2>4
    <3> QED BY <1>7, <2>1, <2>4, <3>1
  <2> QED BY <2>3, <2>4
<1>18. ct.pc = "issue" /\ ct'.pc = "issue"
  BY <1>9 DEF Issue
<1>19. Waiting(ct') = (1 .. i) \X {"write", "read"}
  <2>1. Waiting(ct) = (1 .. n) \X {"write", "read"}
    BY <1>18 DEF CountIs, n
  <2>2. Waiting(ct') = Waiting(ct) \cup ({i} \X {"write", "read"})
    <3>1. \A o \in {i} \X Kinds : o \in owed
      BY DEF owed
    <3>2. \A o \in Cmds(ct) : o \in owed <=> o \in ct.owed
      BY <1>10 DEF owed
    <3>3. \A o : o \in {i} \X {"write", "read"} <=> o \in {i} \X Kinds /\ o[2] # "transfer"
      BY DEF Kinds
    <3> QED BY <1>9, <1>10, <1>12, <3>1, <3>2, <3>3 DEF Waiting
  <2> QED BY <1>4, <2>1, <2>2
<1>20. CountIs(ct')
  BY <1>9, <1>18, <1>19 DEF CountIs
<1> QED BY <1>8, <1>9, <1>11, <1>14, <1>15, <1>16, <1>17, <1>18, <1>20 DEF CacheFlow

\* A queue that stays empty: with at most 15 pairs in the queue of a bank neither half of its
\* number can overflow, and a bank whose answers are missing has a number that is not 0.
LEMMA TimesOut ==
    ASSUME Room < 16, ct \in CacheRecord, CacheFlow(ct), Timeout
    PROVE  \A o \in ct.owed \cup ct.failed : o[2] = "transfer" \/ ct.place[o[1]] \in ct.errs \cup TimeoutNames
<1>1. ct.queue = <<>> /\ Queued(ct) = {}
  BY DEF Timeout, Queued, Places
<1> SUFFICES ASSUME NEW o \in ct.owed \cup ct.failed, o[2] # "transfer", ct.place[o[1]] \notin ct.errs
             PROVE  ct.place[o[1]] \in TimeoutNames
  OBVIOUS
<1>2. o \notin ct.failed /\ o \in ct.owed
  BY <1>1 DEF CacheFlow, FailuresSeen
<1> DEFINE b == ct.place[o[1]]
<1>3. /\ o = <<o[1], o[2]>> /\ o[1] \in 1 .. Len(ct.place) /\ o[2] \in {"write", "read"}
      /\ ct.place \in Seq(CacheBank) /\ b \in CacheBank
  BY <1>2 DEF CacheFlow, Owing, Cmds, Kinds, CacheRecord
<1> HIDE DEF b
<1> DEFINE W == Cardinality(Open(ct, "write", b))
           R == Cardinality(Open(ct, "read", b))
\* No command of the bank failed: a failure has been seen, and names the bank.
<1>4. \A f \in ct.failed : ct.place[f[1]] # b
  BY <1>1 DEF CacheFlow, FailuresSeen, b
<1>5. ASSUME NEW k \in {"write", "read"}
      PROVE  Open(ct, k, b) \subseteq Active(ct, b)
  <2> SUFFICES ASSUME NEW j \in Open(ct, k, b) PROVE j \in Active(ct, b)
    OBVIOUS
  <2>1. j \in 1 .. Len(ct.place) /\ ct.place[j] = b /\ <<j, k>> \in ct.owed \cup ct.failed
    BY <1>1 DEF Open
  <2>2. <<j, k>> \notin ct.failed
    BY <1>4, <2>1
  <2> QED BY <2>1, <2>2 DEF Active, Kinds
<1>6. IsFiniteSet(Active(ct, b)) /\ Cardinality(Active(ct, b)) \in Nat
  <2>1. Active(ct, b) \subseteq 1 .. Len(ct.place)
    BY DEF Active
  <2> QED BY <2>1, PairsFinite
<1>7. Cardinality(Active(ct, b)) <= Room
  BY <1>3 DEF CacheFlow, RoomKept
<1>8. ASSUME NEW k \in {"write", "read"}
      PROVE  Cardinality(Open(ct, k, b)) \in 0 .. 15 /\ IsFiniteSet(Open(ct, k, b))
  <2>1. IsFiniteSet(Open(ct, k, b)) /\ Cardinality(Open(ct, k, b)) <= Cardinality(Active(ct, b))
        /\ Cardinality(Open(ct, k, b)) \in Nat
    BY <1>5, <1>6, FS_Subset, FS_CardinalityType
  <2> QED BY <1>6, <1>7, <2>1, CacheAssumption
<1>9. o[1] \in Open(ct, o[2], b)
  BY <1>2, <1>3 DEF Open, b
<1>10. Cardinality(Open(ct, o[2], b)) # 0
  BY <1>3, <1>8, <1>9, FS_EmptySet
<1>11. W \in 0 .. 15 /\ R \in 0 .. 15 /\ (W # 0 \/ R # 0)
  BY <1>3, <1>8, <1>10
<1>12. ct.cmp_tag[b] = (W + 16 * R) % 256
  BY <1>3 DEF CacheFlow, TagsCount
<1> HIDE DEF W, R
<1>13. W + 16 * R \in 1 .. 255
  BY <1>11
<1>14. ct.cmp_tag[b] # 0
  BY <1>12, <1>13
<1> QED BY <1>3, <1>14 DEF TimeoutNames, b

\* A round begins with nothing owed, and with no completion but those of transfers.
LEMMA RoundBegins ==
    \A bank \in CacheBank, cycle \in Nat, buf \in [Pairs -> {"pattern", "other"}], flaws \in Nat,
       queue \in Seq(Nat \X Kinds \X BOOLEAN) :
        LET c == Round(bank, cycle, buf, flaws, queue) IN
        TransfersOnly(queue) =>
            c \in CacheRecord /\ CacheFlow(c) /\ CountIs(c) /\ c.pc = "issue" /\ c.cycle = cycle /\ c.timeout = FALSE
<1> TAKE bank \in CacheBank, cycle \in Nat, buf \in [Pairs -> {"pattern", "other"}], flaws \in Nat,
         queue \in Seq(Nat \X Kinds \X BOOLEAN)
<1> SUFFICES ASSUME TransfersOnly(queue), NEW c, c = Round(bank, cycle, buf, flaws, queue)
             PROVE  c \in CacheRecord /\ CacheFlow(c) /\ CountIs(c) /\ c.pc = "issue" /\ c.cycle = cycle /\ c.timeout = FALSE
  OBVIOUS
<1>1. c = [pc |-> "issue", bank |-> bank, cycle |-> cycle, read_no |-> 0, count |-> 0, ret |-> "OK",
           place |-> <<>>, owed |-> {}, queue |-> queue, cmp_tag |-> [b \in CacheBank |-> 0], look |-> 0,
           buf |-> buf, fresh |-> {}, failed |-> {}, flaws |-> flaws, errs |-> {}, timeout |-> FALSE]
  BY DEF Round
<1>2. c \in CacheRecord
  BY <1>1 DEF CacheRecord
<1>3. /\ c.place = <<>> /\ c.read_no = 0 /\ c.owed = {} /\ c.queue = queue /\ c.fresh = {}
      /\ c.failed = {} /\ c.timeout = FALSE /\ c.cmp_tag = [b \in CacheBank |-> 0]
      /\ c.pc = "issue" /\ c.cycle = cycle /\ c.look = 0
  BY <1>1
<1>4. Len(c.place) = 0 /\ Places(c) = {} /\ Queued(c) = {}
  BY <1>3 DEF Places, Queued, TransfersOnly
<1>5. Owing(c)
  BY <1>3, <1>4, CacheAssumption DEF Owing
<1>6. QueueIs(c) /\ FailuresSeen(c)
  BY <1>3, <1>4 DEF QueueIs, FailuresSeen
<1>6a. CountIs(c)
  <2>1. Waiting(c) = {} /\ (1 .. c.read_no) \X {"write", "read"} = {}
    BY <1>3, <1>4 DEF Waiting
  <2> QED BY <1>3, <2>1 DEF CountIs
<1>7. \A b : Active(c, b) = {} /\ Open(c, "write", b) = {} /\ Open(c, "read", b) = {}
  BY <1>4 DEF Active, Open
<1>8. Cardinality({}) = 0
  BY FS_EmptySet
<1>9. RoomKept(c)
  <2> SUFFICES ASSUME NEW b \in CacheBank PROVE Cardinality(Active(c, b)) <= Room
    BY DEF RoomKept
  <2>1. Cardinality(Active(c, b)) = 0
    BY <1>7, <1>8
  <2> QED BY <2>1, CacheAssumption
<1>10. TagsCount(c)
  <2> SUFFICES ASSUME NEW b \in CacheBank
               PROVE  c.cmp_tag[b] = (Cardinality(Open(c, "write", b))
                                      + 16 * Cardinality(Open(c, "read", b))) % 256
    BY DEF TagsCount
  <2>1. c.cmp_tag[b] = 0
    BY <1>3
  <2>2. Cardinality(Open(c, "write", b)) = 0 /\ Cardinality(Open(c, "read", b)) = 0
    BY <1>7, <1>8
  <2> QED BY <2>1, <2>2
<1>11. CacheFlow(c)
  BY <1>5, <1>6, <1>9, <1>10 DEF CacheFlow
<1> QED BY <1>2, <1>3, <1>6a, <1>11

LEMMA CacheBegins == CacheInit => CacheInv
<1> SUFFICES ASSUME CacheInit
             PROVE  CacheInv
  OBVIOUS
<1> DEFINE r == Round(0, 1, [i \in Pairs |-> "other"], 0, <<>>)
<1>1. r \in CacheRecord /\ CacheFlow(r) /\ CountIs(r) /\ r.pc = "issue" /\ r.cycle = 1 /\ r.timeout = FALSE
  <2>1. 0 \in CacheBank
    BY CacheAssumption DEF CacheBank
  <2>2. [i \in Pairs |-> "other"] \in [Pairs -> {"pattern", "other"}]
    OBVIOUS
  <2>3. PICK buf \in [Pairs -> {"pattern", "other"}] : buf = [i \in Pairs |-> "other"]
    BY <2>2
  <2>3a. <<>> \in Seq(Nat \X Kinds \X BOOLEAN)
    OBVIOUS
  <2>4. PICK queue \in Seq(Nat \X Kinds \X BOOLEAN) : queue = <<>>
    BY Zenon, <2>3a
  <2>5. TransfersOnly(queue)
    BY <2>4 DEF TransfersOnly
  <2>6. 0 \in Nat /\ 1 \in Nat
    OBVIOUS
  <2>7. PICK c : c = Round(0, 1, buf, 0, queue)
    OBVIOUS
  <2>8. c = r
    BY <2>3, <2>4, <2>7
  <2> HIDE DEF r
  <2>9. c \in CacheRecord /\ CacheFlow(c) /\ CountIs(c) /\ c.pc = "issue" /\ c.cycle = 1 /\ c.timeout = FALSE
    BY <2>1, <2>3, <2>5, <2>6, <2>7, RoundBegins
  <2> QED BY <2>8, <2>9
<1>2. ct = r \/ ct = [r EXCEPT !.pc = "ok", !.cycle = 0]
  BY DEF CacheInit
<1> HIDE DEF r
<1>3. CASE ct = r
  BY <1>1, <1>3 DEF CacheInv, CacheOk
<1>4. CASE ct = [r EXCEPT !.pc = "ok", !.cycle = 0]
  <2>1. ct \in CacheRecord /\ ct.pc = "ok" /\ ct.cycle = 0 /\ ct.timeout = FALSE
    BY <1>1, <1>4 DEF CacheRecord
  <2> QED BY <2>1 DEF CacheInv, CacheOk
<1> QED BY <1>2, <1>3, <1>4

\* What CacheFlow and Waiting look at.
LEMMA SameFlow ==
    ASSUME NEW c, NEW d, CacheFlow(c), d.place = c.place, d.read_no = c.read_no, d.owed = c.owed,
           d.queue = c.queue, d.failed = c.failed, d.fresh = c.fresh, d.ret = c.ret, d.errs = c.errs,
           d.cmp_tag = c.cmp_tag, d.timeout = c.timeout
    PROVE  CacheFlow(d) /\ Waiting(d) = Waiting(c)
<1>1. Owing(d)
  BY DEF CacheFlow, Owing, Cmds
<1>2. QueueIs(d) /\ FailuresSeen(d)
  BY DEF CacheFlow, QueueIs, FailuresSeen, Cmds, Queued, Places
<1>3. \A b : /\ Active(d, b) = Active(c, b)
            /\ Open(d, "write", b) = Open(c, "write", b)
            /\ Open(d, "read", b) = Open(c, "read", b)
  BY DEF Active, Open, Queued, Places
<1>4. RoomKept(d)
  BY <1>3 DEF CacheFlow, RoomKept
<1>5. TagsCount(d)
  <2> SUFFICES ASSUME NEW b \in CacheBank
               PROVE  d.cmp_tag[b] = (Cardinality(Open(d, "write", b))
                                      + 16 * Cardinality(Open(d, "read", b))) % 256
    BY DEF TagsCount
  <2>1. c.cmp_tag[b] = (Cardinality(Open(c, "write", b)) + 16 * Cardinality(Open(c, "read", b))) % 256
    BY DEF CacheFlow, TagsCount
  <2>2. Open(d, "write", b) = Open(c, "write", b) /\ Open(d, "read", b) = Open(c, "read", b)
    BY <1>3
  <2> QED BY <2>1, <2>2
<1>6. Waiting(d) = Waiting(c)
  BY DEF Waiting, Cmds, Queued, Places
<1> QED BY <1>1, <1>2, <1>4, <1>5, <1>6 DEF CacheFlow

\* The last completion of a round is counted: nothing more may be queued.
LEMMA LastCounts ==
    ASSUME ct.cycle > 0, NEW s \in CacheRecord, CacheFlow(s), s.cycle = ct.cycle,
           Waiting(s) = {}, s.look = 0, ct' = AtLast(s)
    PROVE  CacheInv'
<1>0. s.timeout = FALSE
  BY DEF CacheFlow, Owing
<1>1. CASE s.queue # <<>>
  <2>1. ct' = [s EXCEPT !.pc = "error", !.ret = "ERR"]
    BY <1>1 DEF AtLast
  <2>2. ct' \in CacheRecord /\ ct'.pc = "error" /\ ct'.timeout = FALSE
    BY <1>0, <2>1 DEF CacheRecord
  <2> QED BY <2>2 DEF CacheInv, CacheOk, CacheRecord
<1>2. CASE s.queue = <<>>
  <2>1. ct' = [s EXCEPT !.pc = "rooms"]
    BY <1>2 DEF AtLast
  <2>2. /\ ct' \in CacheRecord /\ ct'.pc = "rooms" /\ ct'.timeout = FALSE /\ ct'.cycle = s.cycle
        /\ ct'.place = s.place /\ ct'.read_no = s.read_no /\ ct'.owed = s.owed
        /\ ct'.queue = s.queue /\ ct'.failed = s.failed /\ ct'.fresh = s.fresh /\ ct'.ret = s.ret
        /\ ct'.errs = s.errs /\ ct'.cmp_tag = s.cmp_tag /\ ct'.look = 0
    BY <1>0, <2>1 DEF CacheRecord
  <2>3. CacheFlow(ct') /\ Waiting(ct') = Waiting(s)
    BY ZenonT(30), <1>0, <2>2, SameFlow
  <2>4. 0 \in CacheBank /\ \A b \in CacheBank : ~(b < 0)
    BY CacheAssumption DEF CacheBank
  <2>5. CountIs(ct')
    BY <2>2, <2>3, <2>4 DEF CountIs
  <2> QED BY <2>2, <2>3, <2>5 DEF CacheInv, CacheOk, CacheRecord
<1> QED BY <1>1, <1>2

\* The look at the last bank: nothing is owed, nothing failed, and what is queued is of transfers.
LEMMA AllLooked ==
    ASSUME NEW c \in CacheRecord, CacheFlow(c), Waiting(c) = {}, c.ret = "OK",
           \A b \in CacheBank : Active(c, b) = {}
    PROVE  Answered(c)
<1>1. c.owed = {}
  <2> SUFFICES ASSUME NEW o \in c.owed PROVE FALSE
    OBVIOUS
  <2>1. o \in Cmds(c) /\ Len(c.place) = c.read_no /\ c.place \in Seq(CacheBank)
    BY DEF CacheFlow, Owing, CacheRecord
  <2>2. o = <<o[1], o[2]>> /\ o[1] \in 1 .. Len(c.place) /\ o[2] \in Kinds
    BY <2>1 DEF Cmds
  <2>3. c.place[o[1]] \in CacheBank
    BY <2>1, <2>2
  <2>4. o[1] \in Active(c, c.place[o[1]])
    BY <2>2 DEF Active
  <2> QED BY <2>3, <2>4
<1>2. Queued(c) = {}
  <2>1. Queued(c) \subseteq Waiting(c)
    <3> SUFFICES ASSUME NEW j \in Places(c) PROVE CmdOf(c.queue[j]) \in Waiting(c)
      BY DEF Queued
    <3>1. CmdOf(c.queue[j]) \in Cmds(c) /\ CmdOf(c.queue[j]) \in Queued(c)
      BY DEF CacheFlow, QueueIs, Queued
    <3>2. CmdOf(c.queue[j])[2] # "transfer"
      BY DEF Places, CmdOf
    <3> QED BY <3>1, <3>2 DEF Waiting
  <2> QED BY <2>1
<1>3. Places(c) = {}
  BY <1>2 DEF Queued
<1>4. c.failed = {}
  BY <1>2 DEF CacheFlow, FailuresSeen
<1>5. c.fresh = 1 .. c.read_no
  BY <1>1 DEF CacheFlow, Owing
<1> QED BY <1>1, <1>3, <1>4, <1>5 DEF Answered, Places, TransfersOnly

LEMMA Looks ==
    ASSUME CacheInv, LookAtRoom
    PROVE  CacheInv'
<1> DEFINE stuck == Unfinished(ct.look) # 0
           ret == IF stuck THEN "ERR" ELSE ct.ret
           errs == IF stuck THEN ct.errs \cup {ct.look} ELSE ct.errs
           pc == IF ct.look < CacheBanks - 1 THEN "rooms" ELSE IF ret = "OK" THEN "compare" ELSE "error"
<1>1. /\ ct \in CacheRecord /\ ct.pc = "rooms" /\ CacheFlow(ct) /\ ct.cycle > 0 /\ Waiting(ct) = {}
      /\ ct.look \in CacheBank /\ ct.timeout = FALSE
      /\ ct.ret = "OK" => \A b \in CacheBank : b < ct.look => Active(ct, b) = {}
  BY DEF LookAtRoom, CacheInv, CacheOk, CountIs, CacheFlow, Owing
<1>2. ct.look \in 0 .. (CacheBanks - 1) /\ CacheBanks \in Nat /\ ct.look + 1 \in Nat
  BY <1>1, CacheAssumption DEF CacheBank
<1>3. ct' = [ct EXCEPT !.ret = ret, !.errs = errs, !.look = ct.look + 1, !.pc = pc]
  BY <1>1 DEF LookAtRoom, CacheRecord
<1>4. ret \in {"OK", "ERR"} /\ errs \in SUBSET CacheBank /\ pc \in {"rooms", "compare", "error"}
  BY <1>1 DEF CacheRecord
<1>5. ret = "OK" => ct.ret = "OK" /\ Active(ct, ct.look) = {}
  <2>1. IsFiniteSet(Active(ct, ct.look))
    <3>1. Active(ct, ct.look) \subseteq 1 .. Len(ct.place)
      BY DEF Active
    <3> QED BY <1>1, <3>1, PairsFinite
  <2> QED BY <1>1, <2>1, UnfinishedIs, FS_EmptySet DEF CacheRecord
<1>6. \A f \in ct.failed : f \in Queued(ct) \/ (ret = "ERR" /\ ct.place[f[1]] \in errs)
  BY <1>1 DEF CacheFlow, FailuresSeen
<1>7. /\ pc = "rooms" <=> ct.look < CacheBanks - 1
      /\ pc = "compare" => ret = "OK"
  BY <1>2
<1> HIDE DEF stuck, ret, errs, pc
<1>8. ct' \in CacheRecord
  BY ZenonT(40), <1>1, <1>2, <1>3, <1>4 DEF CacheRecord
<1>9. /\ ct'.pc = pc /\ ct'.timeout = FALSE /\ ct'.cycle = ct.cycle
      /\ ct'.place = ct.place /\ ct'.read_no = ct.read_no /\ ct'.owed = ct.owed
      /\ ct'.queue = ct.queue /\ ct'.failed = ct.failed /\ ct'.fresh = ct.fresh /\ ct'.ret = ret
      /\ ct'.errs = errs /\ ct'.cmp_tag = ct.cmp_tag /\ ct'.look = ct.look + 1
  BY <1>1, <1>3 DEF CacheRecord
<1>10. CacheFlow(ct') /\ Waiting(ct') = {} /\ \A b : Active(ct', b) = Active(ct, b)
  <2>1. Owing(ct') /\ QueueIs(ct')
    BY <1>1, <1>9 DEF CacheFlow, Owing, QueueIs, Cmds, Places
  <2>2. Queued(ct') = Queued(ct)
    BY <1>9 DEF Queued, Places
  <2>3. FailuresSeen(ct')
    BY <1>6, <1>9, <2>2 DEF FailuresSeen
  <2>4. \A b : /\ Active(ct', b) = Active(ct, b) /\ Open(ct', "write", b) = Open(ct, "write", b)
              /\ Open(ct', "read", b) = Open(ct, "read", b)
    BY <1>9, <2>2 DEF Active, Open
  <2>5. RoomKept(ct')
    BY <1>1, <2>4 DEF CacheFlow, RoomKept
  <2>6. TagsCount(ct')
    <3> SUFFICES ASSUME NEW b \in CacheBank
                 PROVE  ct'.cmp_tag[b] = (Cardinality(Open(ct', "write", b))
                                          + 16 * Cardinality(Open(ct', "read", b))) % 256
      BY DEF TagsCount
    <3>1. ct.cmp_tag[b] = (Cardinality(Open(ct, "write", b)) + 16 * Cardinality(Open(ct, "read", b))) % 256
      BY <1>1 DEF CacheFlow, TagsCount
    <3>2. Open(ct', "write", b) = Open(ct, "write", b) /\ Open(ct', "read", b) = Open(ct, "read", b)
      BY <2>4
    <3> QED BY <1>9, <3>1, <3>2
  <2>7. Waiting(ct') = {}
    BY <1>1, <1>9, <2>2 DEF Waiting, Cmds
  <2> QED BY <2>1, <2>3, <2>4, <2>5, <2>6, <2>7 DEF CacheFlow
<1>11. ret = "OK" => \A b \in CacheBank : b < ct.look + 1 => Active(ct', b) = {}
  <2> SUFFICES ASSUME ret = "OK", NEW b \in CacheBank, b < ct.look + 1 PROVE Active(ct, b) = {}
    BY <1>10
  <2>1. b = ct.look \/ b < ct.look
    BY <1>2 DEF CacheBank
  <2> QED BY <1>1, <1>5, <2>1
<1>12. CASE pc = "rooms"
  <2>1. ct.look + 1 \in CacheBank
    BY <1>2, <1>7, <1>12 DEF CacheBank
  <2>2. CountIs(ct')
    BY <1>9, <1>10, <1>11, <1>12, <2>1 DEF CountIs
  <2> QED BY <1>1, <1>8, <1>9, <1>10, <1>12, <2>2 DEF CacheInv, CacheOk, CacheRecord
<1>13. CASE pc = "compare"
  <2>1. \A b \in CacheBank : b < ct.look + 1
    BY <1>2, <1>7, <1>13 DEF CacheBank
  <2>2. Answered(ct')
    BY <1>7, <1>8, <1>9, <1>10, <1>11, <1>13, <2>1, AllLooked
  <2> QED BY <1>1, <1>8, <1>9, <1>13, <2>2 DEF CacheInv, CacheOk, CacheRecord
<1>14. CASE pc = "error"
  BY <1>8, <1>9, <1>14 DEF CacheInv, CacheOk, CacheRecord
<1> QED BY <1>4, <1>12, <1>13, <1>14

LEMMA CacheSteps == Room < 16 /\ CacheInv /\ CacheNext => CacheInv'
<1> SUFFICES ASSUME Room < 16, CacheInv, CacheNext
             PROVE  CacheInv'
  OBVIOUS
<1>0. /\ ct \in CacheRecord /\ CacheRecord' = CacheRecord
      /\ ct.pc \in {"issue", "drain", "rooms"} => CacheFlow(ct) /\ CountIs(ct) /\ ct.cycle > 0
  BY DEF CacheInv, CacheOk, CacheRecord
<1>t. ASSUME ct.pc \in {"issue", "drain", "rooms"}
      PROVE  ct.timeout = FALSE
  BY <1>0, <1>t DEF CacheFlow, Owing
\* A step that stays in the queueing, the counting or the looking.
<1>f. ASSUME ct' \in CacheRecord, CacheFlow(ct'), CountIs(ct'), ct'.pc \in {"issue", "drain", "rooms"},
             ct'.cycle > 0
      PROVE  CacheInv'
  <2>1. ct'.timeout = FALSE
    BY <1>f DEF CacheFlow, Owing
  <2> QED BY <1>f, <2>1 DEF CacheInv, CacheOk
<1>1. CASE Complete
  <2>1. PICK o \in ct.owed, err \in BOOLEAN, data \in {"pattern", "other"} :
           (err => o[2] # "transfer") /\ Send(o, err, data)
    BY <1>1 DEF Complete
  <2>2. ct.pc \in {"issue", "drain", "rooms"}
    BY <1>1 DEF Complete
  <2>3. /\ ct' \in CacheRecord /\ CacheFlow(ct') /\ ct'.pc = ct.pc /\ ct'.cycle = ct.cycle
        /\ ct'.count = ct.count /\ ct'.look = ct.look /\ ct'.read_no = ct.read_no /\ ct'.ret = ct.ret
        /\ Waiting(ct') = Waiting(ct) /\ \A b : Active(ct', b) \subseteq Active(ct, b)
    BY <1>0, <2>1, <2>2, Sends
  <2>4. CountIs(ct')
    <3>1. CountIs(ct)
      BY <1>0, <2>2
    <3>2. \A b : Active(ct, b) = {} => Active(ct', b) = {}
      BY <2>3
    <3> QED BY <2>3, <3>1, <3>2 DEF CountIs
  <2> QED BY <1>0, <1>f, <2>2, <2>3, <2>4
<1>2. CASE Issue
  <2>1. ct.pc = "issue"
    BY <1>2 DEF Issue
  <2>2. ct' \in CacheRecord /\ CacheFlow(ct') /\ CountIs(ct') /\ ct'.pc = "issue" /\ ct'.cycle = ct.cycle
    BY <1>0, <1>2, <2>1, Issues
  <2> QED BY <1>0, <1>f, <2>1, <2>2
<1>3. CASE IssueEnds
  <2>1. /\ ct.pc = "issue"
        /\ ct' = [ct EXCEPT !.count = Expected, !.pc = IF ct.read_no = 0 THEN "error" ELSE "drain"]
    BY <1>3 DEF IssueEnds
  <2>2. Expected = 2 * ct.read_no /\ Expected \in Int /\ ct.read_no \in Nat
    BY <1>0 DEF Expected, CacheRecord
  <2>3. /\ ct' \in CacheRecord /\ ct'.pc \in {"error", "drain"} /\ ct'.timeout = ct.timeout
        /\ ct'.place = ct.place /\ ct'.read_no = ct.read_no /\ ct'.owed = ct.owed
        /\ ct'.queue = ct.queue /\ ct'.failed = ct.failed /\ ct'.fresh = ct.fresh /\ ct'.ret = ct.ret
        /\ ct'.errs = ct.errs /\ ct'.cmp_tag = ct.cmp_tag /\ ct'.cycle = ct.cycle
        /\ ct'.look = ct.look /\ ct'.count = Expected
    <3>1. ASSUME NEW n \in Int, NEW end \in {"error", "drain"}, ct' = [ct EXCEPT !.count = n, !.pc = end]
          PROVE  /\ ct' \in CacheRecord /\ ct'.pc = end /\ ct'.timeout = ct.timeout
                 /\ ct'.place = ct.place /\ ct'.read_no = ct.read_no /\ ct'.owed = ct.owed
                 /\ ct'.queue = ct.queue /\ ct'.failed = ct.failed /\ ct'.fresh = ct.fresh
                 /\ ct'.ret = ct.ret /\ ct'.errs = ct.errs /\ ct'.cmp_tag = ct.cmp_tag
                 /\ ct'.cycle = ct.cycle /\ ct'.look = ct.look /\ ct'.count = n
      BY ZenonT(40), <1>0, <3>1 DEF CacheRecord
    <3>2. CASE ct.read_no = 0
      <4>1. ct' = [ct EXCEPT !.count = Expected, !.pc = "error"]
        BY <2>1, <3>2
      <4>2. "error" \in {"error", "drain"}
        OBVIOUS
      <4> QED BY Zenon, <2>2, <3>1, <4>1, <4>2
    <3>3. CASE ct.read_no # 0
      <4>1. ct' = [ct EXCEPT !.count = Expected, !.pc = "drain"]
        BY <2>1, <3>3
      <4>2. "drain" \in {"error", "drain"}
        OBVIOUS
      <4> QED BY Zenon, <2>2, <3>1, <4>1, <4>2
    <3> QED BY <3>2, <3>3
  <2>4. CacheFlow(ct') /\ Waiting(ct') = Waiting(ct)
    <3>1. CacheFlow(ct)
      BY <1>0, <2>1
    <3> QED BY ZenonT(30), <2>3, <3>1, SameFlow
  <2>5. Cardinality(Waiting(ct)) = 2 * ct.read_no
    <3>1. Waiting(ct) = (1 .. ct.read_no) \X {"write", "read"}
      BY <1>0, <2>1 DEF CountIs
    <3>2. IsFiniteSet(1 .. ct.read_no) /\ Cardinality(1 .. ct.read_no) = ct.read_no
      <4>1. 1 \in Int /\ ct.read_no \in Int
        BY <2>2
      <4>2. /\ IsFiniteSet(1 .. ct.read_no)
            /\ Cardinality(1 .. ct.read_no) = IF 1 > ct.read_no THEN 0 ELSE ct.read_no - 1 + 1
        BY <4>1, FS_Interval
      <4> QED BY <2>2, <4>2
    <3>3. IsFiniteSet({"write", "read"}) /\ Cardinality({"write", "read"}) = 2
      <4>1. {"write", "read"} = {"write"} \cup {"read"} /\ "read" \notin {"write"}
        OBVIOUS
      <4>2. IsFiniteSet({"write"}) /\ Cardinality({"write"}) = 1
        BY FS_Singleton
      <4> QED BY <4>1, <4>2, FS_AddElement
    <3>4. Cardinality((1 .. ct.read_no) \X {"write", "read"}) = ct.read_no * 2
      <4>1. Cardinality((1 .. ct.read_no) \X {"write", "read"}) =
               Cardinality(1 .. ct.read_no) * Cardinality({"write", "read"})
        BY ZenonT(30), <3>2, <3>3, FS_Product
      <4> QED BY Zenon, <3>2, <3>3, <4>1
    <3>5. ct.read_no * 2 = 2 * ct.read_no
      BY <2>2
    <3> QED BY <3>1, <3>4, <3>5
  <2>6. CountIs(ct')
    BY <1>0, <2>1, <2>2, <2>3, <2>4, <2>5 DEF CountIs
  <2>7. CASE ct'.pc = "error"
    BY <1>0, <1>t, <2>1, <2>3, <2>7 DEF CacheInv, CacheOk
  <2> QED BY <1>0, <1>f, <2>1, <2>3, <2>4, <2>6, <2>7
<1>4. CASE Take
  <2>1. ct.pc = "drain" /\ ct.queue # <<>> /\ ct.cycle > 0
    BY <1>0, <1>4 DEF Take
  <2>2. PICK c : c = Head(ct.queue)
    OBVIOUS
  <2>3. Cardinality(Waiting(ct)) = ct.count /\ ct.look = 0
    BY <1>0, <2>1 DEF CountIs
  <2>4. CASE c[2] = "transfer"
    <3>1. ct' = [ct EXCEPT !.queue = Tail(@)]
      BY <1>4, <2>2, <2>4 DEF Take
    <3>2. /\ ct' \in CacheRecord /\ CacheFlow(ct') /\ Waiting(ct') = Waiting(ct)
          /\ ct'.pc = ct.pc /\ ct'.cycle = ct.cycle /\ ct'.count = ct.count /\ ct'.look = ct.look
      BY <1>0, <2>1, <2>2, <2>4, <3>1, PassesOver
    <3>3. CountIs(ct')
      BY <2>1, <2>3, <3>2 DEF CountIs
    <3> QED BY <1>f, <2>1, <3>2, <3>3
  <2>5. CASE c[2] # "transfer"
    <3>1. PICK s : s = Counted(c)
      OBVIOUS
    <3>2. /\ s \in CacheRecord /\ CacheFlow(s)
          /\ s.pc = ct.pc /\ s.cycle = ct.cycle /\ s.count = ct.count - 1 /\ s.look = ct.look
          /\ \E o \in Waiting(ct) : Waiting(s) = Waiting(ct) \ {o}
      BY <1>0, <2>1, <2>2, <2>5, <3>1, Takes
    <3>3. Cardinality(Waiting(s)) = s.count /\ IsFiniteSet(Waiting(s)) /\ ct.count \in Int
      <4>1. IsFiniteSet(Waiting(ct)) /\ Cardinality(Waiting(ct)) \in Nat
        BY <1>0, WaitingFinite
      <4>2. PICK o \in Waiting(ct) : Waiting(s) = Waiting(ct) \ {o}
        BY <3>2
      <4>3. IsFiniteSet(Waiting(s)) /\ Cardinality(Waiting(s)) = Cardinality(Waiting(ct)) - 1
        BY <4>1, <4>2, FS_RemoveElement
      <4> QED BY <2>3, <3>2, <4>1, <4>3
    <3>4. CASE ct.count = 1
      <4>1. ct' = AtLast(s)
        BY <1>4, <2>2, <2>5, <3>1, <3>4 DEF Take
      <4>2. Waiting(s) = {}
        BY <3>2, <3>3, <3>4, FS_EmptySet
      <4> QED BY <2>1, <2>3, <3>2, <4>1, <4>2, LastCounts
    <3>5. CASE ct.count # 1
      <4>1. ct' = s
        BY <1>4, <2>2, <2>5, <3>1, <3>5 DEF Take
      <4>2. CountIs(ct')
        BY <2>1, <2>3, <3>2, <3>3, <4>1 DEF CountIs
      <4> QED BY <1>f, <2>1, <3>2, <4>1, <4>2
    <3> QED BY <3>4, <3>5
  <2> QED BY <2>4, <2>5
<1>5. CASE Timeout
  <2>1. /\ ct.pc = "drain"
        /\ ct' = [ct EXCEPT !.pc = "error", !.ret = "ERR", !.timeout = TRUE, !.errs = @ \cup TimeoutNames]
    BY <1>5 DEF Timeout
  <2>2. \A o \in ct.owed \cup ct.failed : o[2] = "transfer" \/ ct.place[o[1]] \in ct.errs \cup TimeoutNames
    BY <1>0, <1>5, <2>1, TimesOut
  <2>3. ct.errs \cup TimeoutNames \in SUBSET CacheBank
    BY <1>0 DEF CacheRecord, TimeoutNames
  <2>4. /\ ct' \in CacheRecord /\ ct'.pc = "error" /\ ct'.owed = ct.owed /\ ct'.failed = ct.failed
        /\ ct'.place = ct.place /\ ct'.errs = ct.errs \cup TimeoutNames
    BY <1>0, <2>1, <2>3 DEF CacheRecord
  <2> QED BY <1>0, <2>2, <2>4 DEF CacheInv, CacheOk
<1>6. CASE Compare
  <2>1. ct.pc = "compare" /\ Answered(ct) /\ ct.cycle > 0 /\ ct.timeout = FALSE
    BY <1>0, <1>6 DEF Compare, CacheInv, CacheOk, CacheRecord
  <2>2. CASE \E i \in 1 .. ct.read_no : ct.buf[i] # "pattern"
    <3>1. ct' = [ct EXCEPT !.pc = "error", !.ret = "ERR"]
      BY <1>6, <2>2 DEF Compare
    <3>2. ct' \in CacheRecord /\ ct'.pc = "error" /\ ct'.timeout = FALSE
      BY <1>0, <2>1, <3>1 DEF CacheRecord
    <3> QED BY <1>0, <3>2 DEF CacheInv, CacheOk
  <2>3. CASE \A i \in 1 .. ct.read_no : ct.buf[i] = "pattern"
    <3>1. PICK pc \in {"next", "ok"} : ct' = [ct EXCEPT !.pc = pc]
      BY <1>6, <2>3 DEF Compare
    <3>2. /\ ct' \in CacheRecord /\ ct'.pc \in {"next", "ok"} /\ ct'.timeout = FALSE
          /\ ct'.cycle = ct.cycle /\ ct'.owed = ct.owed /\ ct'.queue = ct.queue
          /\ ct'.failed = ct.failed /\ ct'.fresh = ct.fresh /\ ct'.read_no = ct.read_no
          /\ ct'.buf = ct.buf
      BY <1>0, <2>1, <3>1 DEF CacheRecord
    <3> QED BY <1>0, <2>1, <2>3, <3>2 DEF CacheInv, CacheOk, Answered
  <2> QED BY <2>2, <2>3
<1>7. CASE NextRound
  <2>1. ct' = Round(ct.bank, ct.cycle + 1, ct.buf, ct.flaws, ct.queue) /\ ct.pc = "next"
    BY <1>7 DEF NextRound
  <2>2. /\ ct.bank \in CacheBank /\ ct.cycle + 1 \in Nat /\ ct.cycle + 1 > 0 /\ ct.flaws \in Nat
        /\ ct.buf \in [Pairs -> {"pattern", "other"}] /\ ct.queue \in Seq(Nat \X Kinds \X BOOLEAN)
    BY <1>0 DEF CacheRecord
  <2>3. TransfersOnly(ct.queue)
    BY <2>1 DEF CacheInv, CacheOk, Answered
  <2>4. PICK c : c = Round(ct.bank, ct.cycle + 1, ct.buf, ct.flaws, ct.queue)
    OBVIOUS
  <2>5. c \in CacheRecord /\ CacheFlow(c) /\ CountIs(c) /\ c.pc = "issue" /\ c.cycle = ct.cycle + 1
    <3>1. PICK bank \in CacheBank, cycle \in Nat, buf \in [Pairs -> {"pattern", "other"}], flaws \in Nat,
               queue \in Seq(Nat \X Kinds \X BOOLEAN) :
             bank = ct.bank /\ cycle = ct.cycle + 1 /\ buf = ct.buf /\ flaws = ct.flaws /\ queue = ct.queue
      BY ZenonT(30), <2>2
    <3>2. c = Round(bank, cycle, buf, flaws, queue) /\ TransfersOnly(queue)
      BY <2>3, <2>4, <3>1
    <3>3. c \in CacheRecord /\ CacheFlow(c) /\ CountIs(c) /\ c.pc = "issue" /\ c.cycle = cycle
      BY <3>1, <3>2, RoundBegins
    <3> QED BY <3>1, <3>3
  <2>6. ct' = c
    BY <2>1, <2>4
  <2> QED BY <1>f, <2>2, <2>5, <2>6
<1>8. CASE LookAtRoom
  BY <1>8, Looks
<1> QED BY <1>1, <1>2, <1>3, <1>4, <1>5, <1>6, <1>7, <1>8 DEF CacheNext

LEMMA VerdictIsTrue == CacheInv => CacheVerdictTrue
BY DEF CacheInv, CacheOk, CacheVerdictTrue, Answered, TransfersOnly, CacheRecord

LEMMA CachePartBegins == TaskInit => CachePart
<1> SUFFICES ASSUME TaskInit
             PROVE  CachePart
  OBVIOUS
<1>1. CASE part = "interface test"
  <2>1. CacheInit
    BY <1>1 DEF TaskInit
  <2> QED BY <1>1, <2>1, CacheBegins DEF CachePart
<1>2. CASE part # "interface test"
  <2>1. OtherTest
    BY <1>2 DEF TaskInit
  <2> QED BY <1>2, <2>1 DEF CachePart, OtherTest
<1> QED BY <1>1, <1>2

LEMMA CachePartSteps == Room < 16 /\ CachePart /\ [TaskNext]_taskVars => CachePart'
<1> SUFFICES ASSUME Room < 16, CachePart, [TaskNext]_taskVars
             PROVE  CachePart'
  OBVIOUS
<1>1. part' = part
  BY DEF TaskNext, taskVars
<1>2. CASE part = "interface test" /\ CacheNext
  BY <1>1, <1>2, CacheSteps DEF CachePart
<1>3. CASE ct' = ct
  <2>1. CacheInv => CacheInv'
    BY <1>3 DEF CacheInv
  <2> QED BY <1>1, <1>3, <2>1 DEF CachePart
<1> QED BY <1>2, <1>3 DEF TaskNext, taskVars

\* The test of the flash interface: its verdict is true, for every number of banks, buffers
\* and rounds and every order of completions, those between the looks that end a round among
\* them, as long as a bank queues at most 15 pairs: with
\* 16 writes and 15 reads of a bank missing its number is 256, which 8 bits show as 0, and the
\* bank is not named.
THEOREM VerdictsAreTrue ==
    ASSUME Room < 16
    PROVE  TaskSpec => []CacheVerdictTrue
<1>1. TaskInit => CachePart
  BY CachePartBegins
<1>2. CachePart /\ [TaskNext]_taskVars => CachePart'
  BY CachePartSteps
<1>3. CachePart => CacheVerdictTrue
  <2>1. CASE part = "interface test"
    BY <2>1, VerdictIsTrue DEF CachePart
  <2>2. CASE part # "interface test"
    BY <2>2 DEF CachePart, CacheVerdictTrue
  <2> QED BY <2>1, <2>2
<1> QED BY <1>1, <1>2, <1>3, PTL DEF TaskSpec

----------------------------------------------------------------------------
(* A search over the delay of reads                                        *)

\* lo .. hi is a run of good values that has ended before value n.
IsRun(lo, hi, good, n) ==
    /\ lo <= hi /\ hi + 1 < n
    /\ \A v \in lo .. hi : v \in good
    /\ lo - 1 \notin good /\ hi + 1 \notin good

\* The window is the first of the widest runs.
Best(w, good, n) ==
    /\ w.gap = 0 => \A lo \in Nat, hi \in Nat : ~IsRun(lo, hi, good, n)
    /\ w.gap > 0 => IsRun(w.min, w.max, good, n) /\ w.gap = w.max - w.min + 1
    /\ \A lo \in Nat, hi \in Nat : IsRun(lo, hi, good, n) =>
         w.gap > hi - lo + 1 \/ (w.gap = hi - lo + 1 /\ w.min <= lo)

\* The run in progress ends with the value tried last.
InProgress(w, good, n) ==
    IF w.run = {} THEN n - 1 \notin good
    ELSE \E lo \in Nat : /\ lo < n /\ w.run = lo .. (n - 1)
                         /\ w.run \subseteq good /\ lo - 1 \notin good

Windows == [gap : Nat, min : Nat, max : Nat, run : SUBSET Nat]

SweepType ==
    /\ sweep.pc \in {"try", "end", "cut"} /\ sweep.value \in Nat
    /\ sweep.good \subseteq 0 .. (sweep.value - 1)
    /\ sweep \in [pc : {"try", "end", "cut"}, kind : {"auto", "fixed"}, value : Nat,
                  good : SUBSET Nat, w : Windows]

\* A search that goes on has its window and its run; some window is found as soon as any
\* value is good.
SweepInv ==
    /\ SweepType
    /\ sweep.pc \in {"try", "cut"} => Best(sweep.w, sweep.good, sweep.value)
    /\ sweep.pc = "try" =>
         /\ InProgress(sweep.w, sweep.good, sweep.value)
         /\ sweep.good # {} => sweep.w.gap > 0 \/ sweep.w.run # {}
    /\ sweep.pc = "end" =>
         /\ Best(sweep.w, sweep.good, sweep.value + 1)
         /\ sweep.good # {} => sweep.w.gap > 0

SweepPart == IF part = "search for a delay" THEN SweepInv ELSE sweep.pc = "idle"

LEMMA IntervalIs ==
    ASSUME NEW lo \in Nat, NEW hi \in Nat, lo <= hi
    PROVE  /\ Min(lo .. hi) = lo /\ Max(lo .. hi) = hi /\ Cardinality(lo .. hi) = hi - lo + 1
           /\ lo .. hi # {}
<1>1. Cardinality(lo .. hi) = hi - lo + 1
  BY FS_Interval
<1>2. \A x \in lo .. hi : (\A y \in lo .. hi : x =< y) <=> x = lo
  OBVIOUS
<1>3. \A x \in lo .. hi : (\A y \in lo .. hi : x >= y) <=> x = hi
  OBVIOUS
<1>4. lo \in lo .. hi /\ hi \in lo .. hi
  OBVIOUS
<1>5. Min(lo .. hi) = lo
  BY <1>2, <1>4 DEF Min
<1>6. Max(lo .. hi) = hi
  BY <1>3, <1>4 DEF Max
<1> QED BY <1>1, <1>4, <1>5, <1>6

\* A value that is good makes the run in progress longer, and ends none.
LEMMA Longer ==
    ASSUME NEW n \in Nat, NEW good \in SUBSET (0 .. (n - 1)), NEW w \in Windows,
           Best(w, good, n), InProgress(w, good, n)
    PROVE  LET more == good \cup {n}
               longer == [w EXCEPT !.run = @ \cup {n}]
           IN  longer \in Windows /\ Best(longer, more, n + 1) /\ InProgress(longer, more, n + 1)
               /\ longer.run # {}
<1> DEFINE more == good \cup {n}
           longer == [w EXCEPT !.run = @ \cup {n}]
<1>1. /\ longer \in Windows /\ longer.gap = w.gap /\ longer.min = w.min /\ longer.max = w.max
      /\ longer.run = w.run \cup {n}
  BY DEF Windows
<1>2. \A lo \in Nat, hi \in Nat : IsRun(lo, hi, more, n + 1) <=> IsRun(lo, hi, good, n)
  <2> TAKE lo \in Nat, hi \in Nat
  <2>1. ASSUME IsRun(lo, hi, more, n + 1)
        PROVE  IsRun(lo, hi, good, n)
    BY <2>1 DEF IsRun
  <2>2. ASSUME IsRun(lo, hi, good, n)
        PROVE  IsRun(lo, hi, more, n + 1)
    BY <2>2 DEF IsRun
  <2> QED BY <2>1, <2>2
<1>3. w.gap \in Nat /\ w.min \in Nat /\ w.max \in Nat
  BY DEF Windows
<1> HIDE DEF longer
<1>4. Best(longer, more, n + 1)
  BY <1>1, <1>2, <1>3 DEF Best
<1>5. InProgress(longer, more, n + 1)
  <2>1. CASE w.run = {}
    <3>1. longer.run = n .. n
      BY <1>1, <2>1
    <3>2. n - 1 \notin good /\ n - 1 \notin more
      BY <2>1 DEF InProgress
    <3> QED BY <3>1, <3>2 DEF InProgress
  <2>2. CASE w.run # {}
    <3>1. PICK lo \in Nat : /\ lo < n /\ w.run = lo .. (n - 1)
                           /\ w.run \subseteq good /\ lo - 1 \notin good
      BY <2>2 DEF InProgress
    <3>2. longer.run = lo .. n /\ lo - 1 \notin more
      BY <1>1, <3>1
    <3>3. longer.run \subseteq more /\ lo < n + 1 /\ (n + 1) - 1 = n
      BY <1>1, <3>1
    <3> QED BY <3>1, <3>2, <3>3 DEF InProgress
  <2> QED BY <2>1, <2>2
<1> QED BY <1>1, <1>4, <1>5 DEF longer

\* The run in progress ends: the window is the best of those that have ended then.
LEMMA Settled ==
    ASSUME NEW n \in Nat, NEW good \in SUBSET (0 .. (n - 1)), NEW w \in Windows,
           Best(w, good, n), InProgress(w, good, n)
    PROVE  /\ Settle(w) \in Windows /\ Best(Settle(w), good, n + 1) /\ Settle(w).run = {}
           /\ w.gap > 0 \/ w.run # {} => Settle(w).gap > 0
<1>0. w.gap \in Nat /\ w.min \in Nat /\ w.max \in Nat
  BY DEF Windows
<1>1. CASE w.run = {}
  <2>1. ~(Cardinality(w.run) > w.gap)
    BY <1>0, <1>1, FS_EmptySet
  <2>2. Settle(w) = [w EXCEPT !.run = {}]
    BY <2>1 DEF Settle
  <2>3. /\ Settle(w) \in Windows /\ Settle(w).run = {}
        /\ Settle(w).gap = w.gap /\ Settle(w).min = w.min /\ Settle(w).max = w.max
    BY <2>2 DEF Windows
  <2>4. n - 1 \notin good
    BY <1>1 DEF InProgress
  <2>5. \A lo \in Nat, hi \in Nat : IsRun(lo, hi, good, n + 1) <=> IsRun(lo, hi, good, n)
    <3> TAKE lo \in Nat, hi \in Nat
    <3>1. ASSUME IsRun(lo, hi, good, n + 1)
          PROVE  IsRun(lo, hi, good, n)
      <4>1. hi \in good
        BY <3>1 DEF IsRun
      <4>2. hi # n - 1
        BY <2>4, <4>1
      <4> QED BY <3>1, <4>2 DEF IsRun
    <3> QED BY <3>1 DEF IsRun
  <2>6. Best(Settle(w), good, n + 1)
    BY <1>0, <2>3, <2>5 DEF Best
  <2> QED BY <1>1, <2>3, <2>6
<1>2. CASE w.run # {}
  <2>1. PICK lo0 \in Nat : /\ lo0 < n /\ w.run = lo0 .. (n - 1)
                          /\ w.run \subseteq good /\ lo0 - 1 \notin good
    BY <1>2 DEF InProgress
  <2>2. /\ Min(w.run) = lo0 /\ Max(w.run) = n - 1 /\ Cardinality(w.run) = n - lo0
    <3>1. n - 1 \in Nat /\ lo0 <= n - 1 /\ (n - 1) - lo0 + 1 = n - lo0
      BY <2>1
    <3> QED BY <2>1, <3>1, IntervalIs
  <2>3. IsRun(lo0, n - 1, good, n + 1)
    <3>1. n \notin good
      OBVIOUS
    <3> QED BY <2>1, <3>1 DEF IsRun
  \* A run that has ended by then is one that had ended before, or this one.
  <2>4. ASSUME NEW lo \in Nat, NEW hi \in Nat, IsRun(lo, hi, good, n + 1)
        PROVE  IsRun(lo, hi, good, n) \/ (lo = lo0 /\ hi = n - 1)
    <3>1. CASE hi + 1 < n
      BY <2>4, <3>1 DEF IsRun
    <3>2. CASE hi = n - 1
      <4>1. ~(lo < lo0)
        <5> SUFFICES ASSUME lo < lo0 PROVE FALSE
          OBVIOUS
        <5>1. lo0 - 1 \in lo .. hi
          BY <2>1, <3>2
        <5> QED BY <2>1, <2>4, <5>1 DEF IsRun
      <4>2. ~(lo > lo0)
        <5> SUFFICES ASSUME lo > lo0 PROVE FALSE
          OBVIOUS
        <5>1. lo <= hi
          BY <2>4 DEF IsRun
        <5>2. lo - 1 \in lo0 .. (n - 1)
          BY <3>2, <5>1
        <5> QED BY <2>1, <2>4, <5>2 DEF IsRun
      <4> QED BY <3>2, <4>1, <4>2
    <3> QED BY <2>4, <3>1, <3>2 DEF IsRun
  <2>5. ASSUME NEW lo \in Nat, NEW hi \in Nat, IsRun(lo, hi, good, n)
        PROVE  IsRun(lo, hi, good, n + 1) /\ hi < lo0
    <3>1. IsRun(lo, hi, good, n + 1)
      BY <2>5 DEF IsRun
    <3>2. ~(lo0 <= hi)
      <4> SUFFICES ASSUME lo0 <= hi PROVE FALSE
        OBVIOUS
      <4>1. hi + 1 \in lo0 .. (n - 1)
        BY <2>5 DEF IsRun
      <4> QED BY <2>1, <2>5, <4>1 DEF IsRun
    <3> QED BY <3>1, <3>2
  <2>6. CASE n - lo0 > w.gap
    <3>1. Settle(w) = [gap |-> n - lo0, min |-> lo0, max |-> n - 1, run |-> {}]
      BY <2>2, <2>6 DEF Settle
    <3>2. /\ Settle(w) \in Windows /\ Settle(w).run = {}
          /\ Settle(w).gap = n - lo0 /\ Settle(w).min = lo0 /\ Settle(w).max = n - 1
      BY <2>1, <3>1 DEF Windows
    <3>3. n - lo0 > 0 /\ n - lo0 = (n - 1) - lo0 + 1
      BY <2>1
    <3>4. ASSUME NEW lo \in Nat, NEW hi \in Nat, IsRun(lo, hi, good, n + 1)
          PROVE  n - lo0 > hi - lo + 1 \/ (n - lo0 = hi - lo + 1 /\ lo0 <= lo)
      <4>1. CASE IsRun(lo, hi, good, n)
        <5>1. w.gap >= hi - lo + 1
          BY <1>0, <4>1 DEF Best
        <5> QED BY <1>0, <2>6, <5>1
      <4>2. CASE lo = lo0 /\ hi = n - 1
        BY <3>3, <4>2
      <4> QED BY <2>4, <3>4, <4>1, <4>2
    <3>5. Best(Settle(w), good, n + 1)
      BY <2>3, <3>2, <3>3, <3>4 DEF Best
    <3> QED BY <3>2, <3>3, <3>5
  <2>7. CASE ~(n - lo0 > w.gap)
    <3>1. Settle(w) = [w EXCEPT !.run = {}]
      BY <2>2, <2>7 DEF Settle
    <3>2. /\ Settle(w) \in Windows /\ Settle(w).run = {}
          /\ Settle(w).gap = w.gap /\ Settle(w).min = w.min /\ Settle(w).max = w.max
      BY <3>1 DEF Windows
    <3>3. w.gap > 0 /\ w.gap >= n - lo0 /\ (n - 1) - lo0 + 1 = n - lo0
      BY <1>0, <2>1, <2>7
    <3>4. IsRun(w.min, w.max, good, n) /\ w.gap = w.max - w.min + 1
      BY <3>3 DEF Best
    <3>5. IsRun(w.min, w.max, good, n + 1) /\ w.max < lo0
      BY <1>0, <2>5, <3>4
    <3>6. w.min <= lo0
      BY <1>0, <3>4, <3>5 DEF IsRun
    <3>7. ASSUME NEW lo \in Nat, NEW hi \in Nat, IsRun(lo, hi, good, n + 1)
          PROVE  w.gap > hi - lo + 1 \/ (w.gap = hi - lo + 1 /\ w.min <= lo)
      <4>1. CASE IsRun(lo, hi, good, n)
        BY <4>1 DEF Best
      <4>2. CASE lo = lo0 /\ hi = n - 1
        BY <1>0, <3>3, <3>6, <4>2
      <4> QED BY <2>4, <3>7, <4>1, <4>2
    <3>8. Best(Settle(w), good, n + 1)
      BY <3>2, <3>3, <3>4, <3>5, <3>7 DEF Best
    <3> QED BY <3>2, <3>3, <3>8
  <2> QED BY <2>6, <2>7
<1> QED BY <1>1, <1>2

LEMMA SweepBegins == SweepInit => SweepInv
<1> SUFFICES ASSUME SweepInit
             PROVE  SweepInv
  OBVIOUS
<1>1. /\ sweep.pc = "try" /\ sweep.value = 0 /\ sweep.good = {} /\ sweep.w = NoWindow
      /\ sweep.kind \in {"auto", "fixed"}
      /\ sweep = [pc |-> "try", kind |-> sweep.kind, value |-> 0, good |-> {}, w |-> NoWindow]
  BY DEF SweepInit
<1>2. NoWindow \in Windows
  BY DEF NoWindow, Windows
<1>3. SweepType
  BY <1>1, <1>2 DEF SweepType
<1>4. \A lo \in Nat, hi \in Nat : ~IsRun(lo, hi, {}, 0)
  BY DEF IsRun
<1>5. Best(NoWindow, {}, 0) /\ InProgress(NoWindow, {}, 0)
  BY <1>4 DEF Best, InProgress, NoWindow
<1> QED BY <1>1, <1>3, <1>5 DEF SweepInv

LEMMA SweepSteps == SweepInv /\ SweepNext => SweepInv'
<1> SUFFICES ASSUME SweepInv, SweepNext
             PROVE  SweepInv'
  OBVIOUS
<1>1. /\ sweep.value \in Nat /\ sweep.good \in SUBSET (0 .. (sweep.value - 1)) /\ sweep.w \in Windows
      /\ sweep \in [pc : {"try", "end", "cut"}, kind : {"auto", "fixed"}, value : Nat,
                    good : SUBSET Nat, w : Windows]
  BY DEF SweepInv, SweepType
<1>2. /\ sweep.pc = "try" /\ Best(sweep.w, sweep.good, sweep.value)
      /\ InProgress(sweep.w, sweep.good, sweep.value)
      /\ sweep.good # {} => sweep.w.gap > 0 \/ sweep.w.run # {}
  BY DEF SweepInv, SweepNext, TryValue, NoAnswer, AllTried
<1>3. /\ Settle(sweep.w) \in Windows /\ Best(Settle(sweep.w), sweep.good, sweep.value + 1)
      /\ Settle(sweep.w).run = {}
      /\ sweep.good # {} => Settle(sweep.w).gap > 0
  BY <1>1, <1>2, Settled
<1>4. CASE TryValue
  <2>1. PICK works \in BOOLEAN :
          sweep' = [sweep EXCEPT !.value = @ + 1,
                                 !.good = IF works THEN @ \cup {sweep.value} ELSE @,
                                 !.w = AfterTry(@, sweep.value, works)]
    BY <1>4 DEF TryValue
  <2>2. CASE works
    <3> DEFINE longer == [sweep.w EXCEPT !.run = @ \cup {sweep.value}]
               more == sweep.good \cup {sweep.value}
    <3>1. /\ longer \in Windows /\ Best(longer, more, sweep.value + 1)
          /\ InProgress(longer, more, sweep.value + 1) /\ longer.run # {}
      BY <1>1, <1>2, Longer
    <3>2. sweep' = [sweep EXCEPT !.value = sweep.value + 1, !.good = more, !.w = longer]
      BY <2>1, <2>2 DEF AfterTry
    <3> HIDE DEF longer
    <3>3. /\ sweep'.pc = "try" /\ sweep'.value = sweep.value + 1 /\ sweep'.good = more
          /\ sweep'.w = longer
      BY <1>1, <1>2, <3>2
    <3>4. more \subseteq 0 .. ((sweep.value + 1) - 1) /\ more \in SUBSET Nat /\ sweep.value + 1 \in Nat
      BY <1>1
    <3>5. SweepType'
      BY <1>1, <1>2, <3>1, <3>2, <3>3, <3>4 DEF SweepType
    <3> QED BY <3>1, <3>3, <3>5 DEF SweepInv
  <2>3. CASE ~works
    <3> DEFINE w == Settle(sweep.w)
    <3>1. sweep' = [sweep EXCEPT !.value = sweep.value + 1, !.w = w]
      BY <1>1, <2>1, <2>3 DEF AfterTry
    <3>2. w \in Windows /\ w.run = {} /\ Best(w, sweep.good, sweep.value + 1)
          /\ (sweep.good # {} => w.gap > 0)
      BY <1>3
    <3> HIDE DEF w
    <3>3. /\ sweep'.pc = "try" /\ sweep'.value = sweep.value + 1 /\ sweep'.good = sweep.good
          /\ sweep'.w = w
      BY <1>1, <1>2, <3>1
    <3>4. sweep.good \subseteq 0 .. ((sweep.value + 1) - 1) /\ sweep.value + 1 \in Nat
          /\ (sweep.value + 1) - 1 \notin sweep.good
      BY <1>1
    <3>5. SweepType'
      BY <1>1, <1>2, <3>1, <3>2, <3>3, <3>4 DEF SweepType
    <3>6. InProgress(w, sweep.good, sweep.value + 1)
      BY <3>2, <3>4 DEF InProgress
    <3> QED BY <3>2, <3>3, <3>5, <3>6 DEF SweepInv
  <2> QED BY <2>2, <2>3
\* The end of a search with the run in progress.
<1>5. ASSUME sweep' = [sweep EXCEPT !.pc = "end", !.w = Settle(sweep.w)]
      PROVE  SweepInv'
  <2> DEFINE w == Settle(sweep.w)
  <2>1. sweep' = [sweep EXCEPT !.pc = "end", !.w = w]
    BY <1>5
  <2>2. w \in Windows /\ Best(w, sweep.good, sweep.value + 1) /\ (sweep.good # {} => w.gap > 0)
    BY <1>3
  <2> HIDE DEF w
  <2>3. /\ sweep'.pc = "end" /\ sweep'.value = sweep.value /\ sweep'.good = sweep.good
        /\ sweep'.w = w
    BY <1>1, <2>1
  <2>4. SweepType'
    BY <1>1, <2>1, <2>2, <2>3 DEF SweepType
  <2> QED BY <2>2, <2>3, <2>4 DEF SweepInv
<1>6. CASE NoAnswer
  <2>1. CASE sweep.kind = "auto"
    <3>1. sweep' = [sweep EXCEPT !.pc = "cut"]
      BY <1>6, <2>1 DEF NoAnswer
    <3>2. /\ sweep'.pc = "cut" /\ sweep'.value = sweep.value /\ sweep'.good = sweep.good
          /\ sweep'.w = sweep.w
      BY <1>1, <3>1
    <3>3. SweepType'
      BY <1>1, <3>1, <3>2 DEF SweepType
    <3> QED BY <1>2, <3>2, <3>3 DEF SweepInv
  <2>2. CASE sweep.kind # "auto"
    BY <1>5, <1>6, <2>2 DEF NoAnswer
  <2> QED BY <2>1, <2>2
<1>7. CASE AllTried
  BY <1>5, <1>7 DEF AllTried
<1> QED BY <1>4, <1>6, <1>7 DEF SweepNext

\* The runs of the property are those of IsRun.
LEMMA RunsAre ==
    ASSUME NEW n \in Nat, NEW good \in SUBSET Nat
    PROVE  \A run : run \in Runs(good, n) <=>
              \E lo \in Nat, hi \in Nat : run = lo .. hi /\ IsRun(lo, hi, good, n)
<1> TAKE run
<1>1. ASSUME run \in Runs(good, n)
      PROVE  \E lo \in Nat, hi \in Nat : run = lo .. hi /\ IsRun(lo, hi, good, n)
  <2>1. PICK lo \in good, hi \in good : run = lo .. hi
    BY <1>1 DEF Runs
  <2>2. /\ run \subseteq good /\ run # {} /\ Min(run) - 1 \notin good /\ Max(run) + 1 \notin good
        /\ Max(run) + 1 < n
    BY <1>1 DEF Runs
  <2>3. lo \in Nat /\ hi \in Nat /\ lo <= hi
    BY <2>1, <2>2
  <2>4. Min(run) = lo /\ Max(run) = hi
    BY <2>1, <2>3, IntervalIs
  <2>5. IsRun(lo, hi, good, n)
    BY <2>1, <2>2, <2>3, <2>4 DEF IsRun
  <2> QED BY <2>1, <2>3, <2>5
<1>2. ASSUME NEW lo \in Nat, NEW hi \in Nat, run = lo .. hi, IsRun(lo, hi, good, n)
      PROVE  run \in Runs(good, n)
  <2>1. lo <= hi /\ hi + 1 < n /\ lo - 1 \notin good /\ hi + 1 \notin good
    BY <1>2 DEF IsRun
  <2>2. run \in SUBSET good /\ lo \in good /\ hi \in good
    BY <1>2, <2>1 DEF IsRun
  <2>3. Min(run) = lo /\ Max(run) = hi /\ run # {}
    BY <1>2, <2>1, IntervalIs
  <2>4. run \in {a .. b : a \in good, b \in good}
    BY <1>2, <2>2
  <2> QED BY <2>1, <2>2, <2>3, <2>4 DEF Runs
<1> QED BY <1>1, <1>2

LEMMA BestIsWidest ==
    ASSUME NEW n \in Nat, NEW good \in SUBSET Nat, NEW w \in Windows, Best(w, good, n)
    PROVE  IsWidest(w, Runs(good, n))
<1> DEFINE runs == Runs(good, n)
<1>1. w.gap \in Nat /\ w.min \in Nat /\ w.max \in Nat
  BY DEF Windows
<1>2. CASE w.gap = 0
  <2>1. runs = {}
    <3> SUFFICES ASSUME NEW run \in runs PROVE FALSE
      OBVIOUS
    <3>1. PICK lo \in Nat, hi \in Nat : IsRun(lo, hi, good, n)
      BY RunsAre
    <3> QED BY <1>2, <3>1 DEF Best
  <2> QED BY <1>2, <2>1 DEF IsWidest
<1>3. CASE w.gap # 0
  <2> DEFINE mine == w.min .. w.max
             Wins(run) == \A other \in runs :
                             \/ Cardinality(run) > Cardinality(other)
                             \/ Cardinality(run) = Cardinality(other) /\ Min(run) <= Min(other)
  <2>1. IsRun(w.min, w.max, good, n) /\ w.gap = w.max - w.min + 1 /\ w.min <= w.max
    BY <1>1, <1>3 DEF Best, IsRun
  <2>2. mine \in runs
    BY <1>1, <2>1, RunsAre
  <2>3. Cardinality(mine) = w.gap /\ Min(mine) = w.min
    BY <1>1, <2>1, IntervalIs
  <2>4. ASSUME NEW other \in runs
        PROVE  \E lo \in Nat, hi \in Nat :
                 /\ other = lo .. hi /\ IsRun(lo, hi, good, n) /\ lo <= hi
                 /\ Cardinality(other) = hi - lo + 1 /\ Min(other) = lo
    <3>1. PICK lo \in Nat, hi \in Nat : other = lo .. hi /\ IsRun(lo, hi, good, n)
      BY RunsAre
    <3>2. lo <= hi
      BY <3>1 DEF IsRun
    <3> QED BY <3>1, <3>2, IntervalIs
  <2>5. ASSUME NEW other \in runs
        PROVE  \/ w.gap > Cardinality(other)
               \/ w.gap = Cardinality(other) /\ w.min <= Min(other)
    BY <2>4, <2>5 DEF Best
  <2>6. Wins(mine)
    BY <2>3, <2>5
  <2>7. ASSUME NEW run \in runs, Wins(run)
        PROVE  run = mine
    <3>1. PICK lo \in Nat, hi \in Nat :
                 /\ run = lo .. hi /\ lo <= hi
                 /\ Cardinality(run) = hi - lo + 1 /\ Min(run) = lo
      BY <2>4
    <3>2. \/ Cardinality(run) > w.gap
          \/ Cardinality(run) = w.gap /\ lo <= w.min
      BY <2>2, <2>3, <2>7, <3>1
    <3>3. \/ w.gap > Cardinality(run)
          \/ w.gap = Cardinality(run) /\ w.min <= lo
      BY <2>5, <3>1
    <3>4. lo = w.min /\ hi = w.max
      BY <1>1, <2>1, <3>1, <3>2, <3>3
    <3> QED BY <3>1, <3>4
  <2>8. Widest(runs) = mine
    <3> HIDE DEF mine, runs
    <3>1. Widest(runs) = CHOOSE run \in runs : Wins(run)
      BY DEF Widest
    <3> HIDE DEF Wins
    <3> QED BY <2>2, <2>6, <2>7, <3>1
  <2> QED BY <1>1, <1>3, <2>2, <2>3, <2>8 DEF IsWidest
<1> QED BY <1>2, <1>3

LEMMA WindowIsWidest == SweepInv => WidestWindow
<1> SUFFICES ASSUME SweepInv
             PROVE  WidestWindow
  OBVIOUS
<1>1. /\ sweep.value \in Nat /\ sweep.good \in SUBSET Nat /\ sweep.w \in Windows
      /\ sweep.w.gap \in Nat /\ sweep.w.min \in Nat /\ sweep.w.max \in Nat
  BY DEF SweepInv, SweepType, Windows
<1>2. ASSUME sweep.pc = "end"
      PROVE  /\ IsWidest(sweep.w, Runs(sweep.good, sweep.value + 1))
             /\ Found(sweep.w).ret = "OK" <=> sweep.good # {}
             /\ sweep.good # {} => Middle(sweep.w) \in sweep.good
  <2>1. /\ Best(sweep.w, sweep.good, sweep.value + 1)
        /\ sweep.good # {} => sweep.w.gap > 0
    BY <1>2 DEF SweepInv
  <2>2. sweep.w.gap > 0 => IsRun(sweep.w.min, sweep.w.max, sweep.good, sweep.value + 1)
    BY <2>1 DEF Best
  <2>3. ASSUME sweep.w.gap > 0
        PROVE  Middle(sweep.w) \in sweep.good
    <3>1. /\ sweep.w.min <= sweep.w.max
          /\ \A v \in sweep.w.min .. sweep.w.max : v \in sweep.good
      BY <2>2, <2>3 DEF IsRun
    <3>2. Middle(sweep.w) \in sweep.w.min .. sweep.w.max
      BY <1>1, <3>1 DEF Middle
    <3> QED BY <3>1, <3>2
  <2>4. Found(sweep.w).ret = "OK" <=> sweep.w.gap # 0
    BY DEF Found
  <2>5. IsWidest(sweep.w, Runs(sweep.good, sweep.value + 1))
    BY <1>1, <2>1, BestIsWidest
  <2> QED BY <1>1, <2>1, <2>3, <2>4, <2>5
<1>3. ASSUME sweep.pc = "cut"
      PROVE  IsWidest(sweep.w, Runs(sweep.good, sweep.value))
  BY <1>1, <1>3, BestIsWidest DEF SweepInv
<1> QED BY <1>2, <1>3 DEF WidestWindow

LEMMA SweepPartBegins == TaskInit => SweepPart
<1> SUFFICES ASSUME TaskInit
             PROVE  SweepPart
  OBVIOUS
<1>1. CASE part = "search for a delay"
  <2>1. SweepInit
    BY <1>1 DEF TaskInit
  <2> QED BY <1>1, <2>1, SweepBegins DEF SweepPart
<1>2. CASE part # "search for a delay"
  <2>1. OtherSweep
    BY <1>2 DEF TaskInit
  <2> QED BY <1>2, <2>1 DEF SweepPart, OtherSweep
<1> QED BY <1>1, <1>2

LEMMA SweepPartSteps == SweepPart /\ [TaskNext]_taskVars => SweepPart'
<1> SUFFICES ASSUME SweepPart, [TaskNext]_taskVars
             PROVE  SweepPart'
  OBVIOUS
<1>1. part' = part
  BY DEF TaskNext, taskVars
<1>2. CASE part = "search for a delay" /\ SweepNext
  BY <1>1, <1>2, SweepSteps DEF SweepPart
<1>3. CASE sweep' = sweep
  BY <1>1, <1>3 DEF SweepPart, SweepInv, SweepType
<1> QED BY <1>2, <1>3 DEF TaskNext, taskVars

\* The search over a delay: whatever values read back and wherever it is cut short, it ends
\* with the first of the widest runs and the register inside it, for every range of values.
THEOREM WindowsAreWidest == TaskSpec => []WidestWindow
<1>1. TaskInit => SweepPart
  BY SweepPartBegins
<1>2. SweepPart /\ [TaskNext]_taskVars => SweepPart'
  BY SweepPartSteps
<1>3. SweepPart => WidestWindow
  <2>1. CASE part = "search for a delay"
    BY <2>1, WindowIsWidest DEF SweepPart
  <2>2. CASE part # "search for a delay"
    BY <2>2 DEF SweepPart, WidestWindow
  <2> QED BY <2>1, <2>2
<1> QED BY <1>1, <1>2, <1>3, PTL DEF TaskSpec

----------------------------------------------------------------------------
(* The initialisation                                                      *)

LessThan == {p \in Nat \X Nat : p[1] < p[2]}

\* A set of numbers has a least one.
LEMMA Least ==
    ASSUME NEW T, T \subseteq Nat, T # {}
    PROVE  \E x \in T : \A y \in T : x <= y
<1>1. IsWellFoundedOn(LessThan, Nat)
  BY NatLessThanWellFounded DEF OpToRel, LessThan
<1>2. PICK x \in T : \A y \in T : ~ (<<y, x>> \in LessThan)
  BY <1>1, WFMin
<1>3. ASSUME NEW y \in T
      PROVE  x <= y
  <2>1. x \in Nat /\ y \in Nat /\ ~ (<<y, x>> \in LessThan)
    BY <1>2
  <2>2. <<y, x>>[1] = y /\ <<y, x>>[2] = x
    OBVIOUS
  <2>3. <<y, x>> \in LessThan <=> y < x
    BY <2>1, <2>2 DEF LessThan
  <2> QED
    BY <2>1, <2>3
<1> QED
  BY <1>3

\* The powers of 2 in use.
LEMMA Powers ==
    /\ 2^0 = 1 /\ 2^1 = 2 /\ 2^2 = 4 /\ 2^3 = 8 /\ 2^4 = 16 /\ 2^5 = 32 /\ 2^6 = 64
    /\ 2^7 = 128 /\ 2^8 = 256 /\ 2^9 = 512 /\ 2^10 = 1024 /\ 2^11 = 2048 /\ 2^12 = 4096
    /\ 2^13 = 8192 /\ 2^14 = 16384 /\ 2^15 = 32768 /\ 2^16 = 65536 /\ 2^17 = 131072
OBVIOUS

TwoTo(s) == 2^s

PowerSet == {1, 2, 4, 8, 16, 32, 64, 128, 256, 512, 1024, 2048, 4096, 8192, 16384, 32768, 65536}

LEMMA PowerIs ==
    \A s \in 0 .. 16 : /\ TwoTo(s) \in PowerSet /\ TwoTo(s + 1) = 2 * TwoTo(s)
                       /\ (s < 8 => TwoTo(s) <= TwoTo(8)) /\ (s = 16 => TwoTo(s) = 65536)
<1> SUFFICES ASSUME NEW s \in 0 .. 16
             PROVE  /\ TwoTo(s) \in PowerSet /\ TwoTo(s + 1) = 2 * TwoTo(s)
                    /\ (s < 8 => TwoTo(s) <= TwoTo(8)) /\ (s = 16 => TwoTo(s) = 65536)
  OBVIOUS
<1> USE DEF PowerSet, TwoTo
<1>0. CASE s = 0
  BY <1>0, Powers
<1>1. CASE s = 1
  BY <1>1, Powers
<1>2. CASE s = 2
  BY <1>2, Powers
<1>3. CASE s = 3
  BY <1>3, Powers
<1>4. CASE s = 4
  BY <1>4, Powers
<1>5. CASE s = 5
  BY <1>5, Powers
<1>6. CASE s = 6
  BY <1>6, Powers
<1>7. CASE s = 7
  BY <1>7, Powers
<1>8. CASE s = 8
  BY <1>8, Powers
<1>9. CASE s = 9
  BY <1>9, Powers
<1>10. CASE s = 10
  BY <1>10, Powers
<1>11. CASE s = 11
  BY <1>11, Powers
<1>12. CASE s = 12
  BY <1>12, Powers
<1>13. CASE s = 13
  BY <1>13, Powers
<1>14. CASE s = 14
  BY <1>14, Powers
<1>15. CASE s = 15
  BY <1>15, Powers
<1>16. CASE s = 16
  BY <1>16, Powers
<1>17. \/ s = 0 \/ s = 1 \/ s = 2 \/ s = 3 \/ s = 4 \/ s = 5 \/ s = 6 \/ s = 7 \/ s = 8
       \/ s = 9 \/ s = 10 \/ s = 11 \/ s = 12 \/ s = 13 \/ s = 14 \/ s = 15 \/ s = 16
  OBVIOUS
<1> QED BY <1>0, <1>1, <1>2, <1>3, <1>4, <1>5, <1>6, <1>7, <1>8, <1>9, <1>10, <1>11, <1>12,
           <1>13, <1>14, <1>15, <1>16, <1>17

\* cal_shift of a number of 16 bits, not 0, is its logarithm.
LEMMA ShiftIs ==
    ASSUME NEW n \in Nat, 1 <= n, n <= 65535
    PROVE  \E s \in 0 .. 15 : s = cal_shift(n) /\ TwoTo(s) <= n /\ n < TwoTo(s + 1)
<1> DEFINE Is(s) == TwoTo(s) <= n /\ n < TwoTo(s + 1)
<1>1. \E s \in 0 .. 16 : Is(s)
  <2>1. \/ (1 <= n /\ n < 2) \/ (2 <= n /\ n < 4) \/ (4 <= n /\ n < 8) \/ (8 <= n /\ n < 16)
        \/ (16 <= n /\ n < 32) \/ (32 <= n /\ n < 64) \/ (64 <= n /\ n < 128) \/ (128 <= n /\ n < 256)
        \/ (256 <= n /\ n < 512) \/ (512 <= n /\ n < 1024) \/ (1024 <= n /\ n < 2048) \/ (2048 <= n /\ n < 4096)
        \/ (4096 <= n /\ n < 8192) \/ (8192 <= n /\ n < 16384) \/ (16384 <= n /\ n < 32768) \/ (32768 <= n /\ n < 65536)
    OBVIOUS
  <2>2. \/ Is(0) \/ Is(1) \/ Is(2) \/ Is(3) \/ Is(4) \/ Is(5) \/ Is(6) \/ Is(7) \/ Is(8)
        \/ Is(9) \/ Is(10) \/ Is(11) \/ Is(12) \/ Is(13) \/ Is(14) \/ Is(15)
    BY <2>1, Powers DEF TwoTo
  <2> HIDE DEF Is
  <2> QED BY <2>2
<1>2. PICK s \in 0 .. 16 : s = cal_shift(n) /\ Is(s)
  <2>1. cal_shift(n) = CHOOSE s \in 0 .. 16 : Is(s)
    BY DEF cal_shift, TwoTo
  <2> HIDE DEF Is
  <2> QED BY <1>1, <2>1
<1>3. s # 16
  <2>1. TwoTo(s) <= n /\ (s = 16 => TwoTo(s) = 65536)
    BY <1>2, PowerIs
  <2> QED BY <2>1
<1>4. s \in 0 .. 15
  BY <1>3
<1> QED BY <1>2, <1>4

\* Rounded up, every number below n has an address.
LEMMA RoundedUpIs ==
    ASSUME NEW n \in Nat, 1 <= n, n <= 65535
    PROVE  TwoTo(RoundedUp(n)) >= n /\ TwoTo(EightAtLeast(RoundedUp(n))) >= n
<1>1. PICK s \in 0 .. 15 : s = cal_shift(n) /\ TwoTo(s) <= n /\ n < TwoTo(s + 1)
  BY ShiftIs
<1>0. s \in 0 .. 16
  OBVIOUS
<1>2. PICK p \in PowerSet : p = TwoTo(s) /\ p <= n /\ n < 2 * p
  BY <1>0, <1>1, PowerIs
<1>3. p \in Nat \ {0}
  BY DEF PowerSet
<1>4. n % p = 0 => n = p
  <2>1. n % p = n - p
    BY <1>2, <1>3
  <2> QED BY <1>3, <2>1
<1>5. PICK r \in 0 .. 16 : r = RoundedUp(n) /\ TwoTo(r) >= n
  <2>1. CASE n % p = 0
    <3>1. RoundedUp(n) = s
      BY <1>1, <1>2, <2>1 DEF RoundedUp, TwoTo
    <3>2. TwoTo(s) >= n
      BY <1>2, <1>3, <1>4, <2>1
    <3> QED BY <1>0, <3>1, <3>2
  <2>2. CASE n % p # 0
    <3>1. RoundedUp(n) = s + 1
      BY <1>1, <1>2, <2>2 DEF RoundedUp, TwoTo
    <3>2. TwoTo(s + 1) = 2 * p
      BY <1>0, <1>2, PowerIs
    <3>3. s + 1 \in 0 .. 16 /\ TwoTo(s + 1) >= n
      BY <1>2, <1>3, <3>2
    <3> QED BY <3>1, <3>3
  <2> QED BY <2>1, <2>2
<1>6. CASE r < 8
  <2>0. 8 \in 0 .. 16
    OBVIOUS
  <2>1. TwoTo(r) <= TwoTo(8) /\ TwoTo(r) \in Nat /\ TwoTo(8) \in Nat
    BY <1>6, <2>0, PowerIs DEF PowerSet
  <2>2. TwoTo(8) >= n
    BY <1>5, <2>1
  <2> QED BY <1>5, <1>6, <2>2 DEF EightAtLeast
<1>7. CASE ~(r < 8)
  BY <1>5, <1>7 DEF EightAtLeast
<1> QED BY <1>5, <1>6, <1>7

LEMMA ShiftType ==
    ASSUME NEW n \in Nat, 1 <= n, n <= 65535
    PROVE  TwoTo(EightAtLeast(RoundedUp(n))) \in Int
<1>1. PICK s \in 0 .. 15 : s = cal_shift(n)
  BY ShiftIs
<1>2. RoundedUp(n) = s \/ RoundedUp(n) = s + 1
  BY <1>1 DEF RoundedUp
<1>3. PICK r \in 0 .. 16 : r = EightAtLeast(RoundedUp(n))
  <2>1. s \in 0 .. 16 /\ s + 1 \in 0 .. 16 /\ 8 \in 0 .. 16
    OBVIOUS
  <2> QED BY <1>2, <2>1 DEF EightAtLeast
<1> QED BY <1>3, PowerIs DEF PowerSet

\* The fields of a configuration that the geometry is computed from.
LEMMA ConfigIs ==
    ASSUME NEW c \in Config
    PROVE  /\ c.banks \in Count /\ c.luns \in Count /\ c.planes \in Count
           /\ c.blocks \in Word /\ c.pages \in Word /\ c.type \in FlashType
           /\ c.species \in Species /\ c.raid \in SevenBits /\ c.raidTlc \in Byte
BY DEF Config

\* findFittedRaidPageNum finds a stripe if there is one.
LEMMA StripeIs ==
    ASSUME NEW c \in Config, NEW programs \in 1 .. 4, NEW pages \in Nat
    PROVE  LET n == findFittedRaidPageNum(c, programs, pages)
           IN  IF n = 255 THEN \A k \in 1 .. 96 : ~Stripe(c, k, programs, pages)
               ELSE Stripe(c, n, programs, pages)
<1>0. PICK w \in Nat \ {0} : w = Width(c)
  <2>1. c.banks \in Nat \ {0} /\ c.planes \in Nat \ {0}
    BY ConfigIs DEF Count
  <2>2. \A x, y \in Nat \ {0} : x * y \in Nat \ {0}
    OBVIOUS
  <2> QED BY <2>1, <2>2 DEF Width
<1> DEFINE Fits(n) == pages % (n * programs) = 0 /\ Width(c) * n >= 32
           Ends(n) == Fits(n) \/ Width(c) * n > 96
           First(n) == Ends(n) /\ \A k \in 1 .. (n - 1) : ~Ends(k)
           T == {n \in 1 .. 97 : Ends(n)}
<1>1. 97 \in T
  BY <1>0
<1>2. PICK x \in T : \A y \in T : x <= y
  <2>1. T \subseteq Nat
    OBVIOUS
  <2> HIDE DEF T
  <2> QED BY <1>1, <2>1, Least
<1>3. x \in 1 .. 97 /\ First(x)
  <2>1. \A k \in 1 .. (x - 1) : k \in 1 .. 97 /\ ~(x <= k)
    BY <1>2
  <2> HIDE DEF Ends
  <2> QED BY <1>2, <2>1
<1>4. PICK n \in 1 .. 97 : First(n) /\ n = CHOOSE m \in 1 .. 97 : First(m)
  <2> HIDE DEF First
  <2> QED BY <1>3
<1>5. findFittedRaidPageNum(c, programs, pages) = IF Width(c) * n > 96 THEN 255 ELSE n
  BY <1>4 DEF findFittedRaidPageNum
<1>6. CASE Width(c) * n > 96
  <2>1. findFittedRaidPageNum(c, programs, pages) = 255
    BY <1>5, <1>6
  <2>2. ASSUME NEW k \in 1 .. 96, Stripe(c, k, programs, pages)
        PROVE  FALSE
    <3>1. k * w \in 32 .. 96 /\ pages % (k * programs) = 0
      BY <1>0, <2>2 DEF Stripe
    <3>2. k * w = w * k
      OBVIOUS
    <3>3. Ends(k)
      BY <1>0, <3>1, <3>2
    <3>4. ~(k \in 1 .. (n - 1))
      <4> HIDE DEF Ends
      <4> QED BY <1>4, <3>3
    <3>5. n <= k
      BY <3>4
    <3>6. w * n <= w * k
      <4>1. \A d \in Nat : w * d >= 0 /\ w * (n + d) = w * n + w * d
        OBVIOUS
      <4>2. k - n \in Nat /\ n + (k - n) = k
        BY <3>5
      <4>3. w * (k - n) >= 0 /\ w * (n + (k - n)) = w * n + w * (k - n)
        BY <4>1, <4>2
      <4>4. w * n \in Int /\ w * k \in Int /\ w * (k - n) \in Int
        BY <4>2
      <4> QED BY <4>2, <4>3, <4>4
    <3> QED BY <1>0, <1>6, <3>1, <3>2, <3>6
  <2> QED BY <2>1, <2>2
<1>7. CASE ~(Width(c) * n > 96)
  <2>1. findFittedRaidPageNum(c, programs, pages) = n /\ n # 255
    BY <1>5, <1>7
  <2>2. Fits(n)
    BY <1>4, <1>7
  <2>3. Stripe(c, n, programs, pages)
    BY <1>0, <1>7, <2>2 DEF Stripe
  <2> QED BY <2>1, <2>3
<1> QED BY <1>6, <1>7

LEMMA WordIs == ASSUME NEW n, n \in Word PROVE n \in Nat /\ 1 <= n /\ n <= 65535
<1>1. MaxWord \in Int
  BY DEF MaxWord
<1>2. \A max \in Int : \A k \in 1..max : k \in Nat /\ 1 <= k /\ k <= max
  OBVIOUS
<1>3. n \in 1..MaxWord
  BY DEF Word
<1>4. n \in Nat /\ 1 <= n /\ n <= MaxWord
  BY <1>1, <1>2, <1>3
<1>5. MaxWord = 65535
  BY DEF MaxWord
<1> QED BY <1>4, <1>5

\* The geometry that is accepted is good, and a stripe is missed only when there is none.
LEMMA GeometryIs ==
    ASSUME NEW c \in Config, BlocksPerLun(c) # 0, SlcPageNum(c) # 0
    PROVE  /\ ParameterResult(c) = "ERR_OK" => GoodGeometry(c, NandPara(c))
           /\ ParameterResult(c) = "ERR_INVALID_RAID_PAGENUM" => NoStripe(c)
<1>1. /\ c.banks \in Count /\ c.luns \in Count /\ c.planes \in Count /\ c.blocks \in Word
      /\ c.pages \in Word /\ c.type \in FlashType /\ c.species \in Species
      /\ c.raid \in SevenBits /\ c.raidTlc \in Byte
  BY ConfigIs
<1>2. BlocksPerLun(c) \in Nat /\ 1 <= BlocksPerLun(c) /\ BlocksPerLun(c) <= 65535
  <2>1. c.blocks \in Nat /\ 1 <= c.blocks /\ c.blocks <= 65535 /\ c.luns \in Nat
    BY <1>1, WordIs DEF Count
  <2>2. PICK n \in Nat : n = c.blocks * c.luns
    BY <2>1
  <2>3. n % 65536 \in Nat /\ n % 65536 <= 65535
    OBVIOUS
  <2>4. BlocksPerLun(c) = IF Serial(c) THEN n % 65536 ELSE c.blocks
    BY <2>2 DEF BlocksPerLun
  <2> QED BY <2>1, <2>3, <2>4
<1>3. PageNum(c) \in Nat /\ PageNum(c) <= 65535
  <2>1. c.pages \in Nat /\ c.pages <= 65535
    BY <1>1, WordIs
  <2>2. c.pages \div 3 \in Nat /\ c.pages \div 3 <= 65535
    BY <2>1
  <2> QED BY <2>1, <2>2 DEF PageNum
<1>4. /\ SlcPageNum(c) \in Nat /\ 1 <= SlcPageNum(c) /\ SlcPageNum(c) <= 65535 /\ 1 <= PageNum(c)
  <2>0. PICK n \in Nat : n = PageNum(c) /\ n <= 65535
    BY <1>3
  <2>1. n \div 4 \in Nat /\ n \div 3 \in Nat /\ n \div 4 <= n /\ n \div 3 <= n
    BY <2>0
  <2>2. c.type \in {0, 1} \/ c.type = 4 \/ c.type \in {2, 3}
    BY <1>1 DEF FlashType
  <2>3. SlcPageNum(c) = n \/ SlcPageNum(c) = n \div 4 \/ SlcPageNum(c) = n \div 3
    <3>1. CASE c.type \in {0, 1}
      BY <2>0, <3>1 DEF SlcPageNum
    <3>2. CASE c.type = 4
      BY <2>0, <3>2 DEF SlcPageNum
    <3>3. CASE c.type \in {2, 3}
      BY <2>0, <3>3 DEF SlcPageNum
    <3> QED BY <2>2, <3>1, <3>2, <3>3
  <2> QED BY <2>0, <2>1, <2>3
<1> DEFINE p == NandPara(c)
<1>5. /\ p.ubBlockNumPerLunShift = BlockShift(c) /\ p.uwBlockNumPerLun = BlocksPerLun(c)
      /\ p.gubIsSerialMultiLUN = Serial(c)
      /\ p.uwPageNumPerBlock = PageNum(c) /\ p.ubPageNumPerBlockShift = PageShift(c)
      /\ p.uwSLCPageNumPerBlock = SlcPageNum(c) /\ p.ubSLCPageNumPerBlockShift = SlcPageShift(c)
      /\ p.gubRaidPagePerRaid = gubRaidPagePerRaid(c)
      /\ p.gubTLCRaidPagePerRaid = gubTLCRaidPagePerRaid(c)
  BY DEF NandPara
<1>6. ASSUME ~(Serial(c) /\ ~c.rounds)
      PROVE  TwoTo(BlockShift(c)) >= BlocksPerLun(c)
  <2>1. BlockShift(c) = RoundedUp(BlocksPerLun(c))
    BY <1>6 DEF BlockShift
  <2>2. PICK k \in Nat : k = BlocksPerLun(c) /\ 1 <= k /\ k <= 65535
    BY <1>2
  <2>3. TwoTo(RoundedUp(k)) >= k
    BY <2>2, RoundedUpIs
  <2> QED BY <2>1, <2>2, <2>3
<1>7. TwoTo(PageShift(c)) >= PageNum(c)
  BY <1>3, <1>4, RoundedUpIs DEF PageShift
<1>8. TwoTo(SlcPageShift(c)) >= SlcPageNum(c)
  <2>1. CASE c.oneShift
    <3>1. SlcPageNum(c) <= PageNum(c)
      <4>0. PICK n \in Nat : n = PageNum(c)
        BY <1>3
      <4>1. n \div 4 <= n /\ n \div 3 <= n /\ n <= n
        OBVIOUS
      <4>2. CASE c.type \in {0, 1}
        BY <4>0, <4>1, <4>2 DEF SlcPageNum
      <4>3. CASE c.type = 4
        BY <4>0, <4>1, <4>3 DEF SlcPageNum
      <4>4. CASE c.type \in {2, 3}
        BY <4>0, <4>1, <4>4 DEF SlcPageNum
      <4>5. c.type \in {0, 1} \/ c.type = 4 \/ c.type \in {2, 3}
        BY <1>1 DEF FlashType
      <4> QED BY <4>2, <4>3, <4>4, <4>5
    <3>2. TwoTo(SlcPageShift(c)) = TwoTo(PageShift(c))
      BY <2>1 DEF SlcPageShift
    <3>3. PICK k : k = TwoTo(PageShift(c))
      OBVIOUS
    <3>4. k \in Int
      <4>1. PICK n \in Nat : n = PageNum(c) /\ 1 <= n /\ n <= 65535
        BY <1>3, <1>4
      <4> QED BY <3>3, <4>1, ShiftType DEF PageShift
    <3> QED BY <1>3, <1>4, <1>7, <3>1, <3>2, <3>3, <3>4
  <2>2. CASE ~c.oneShift
    BY <1>4, <2>2, RoundedUpIs DEF SlcPageShift
  <2> QED BY <2>1, <2>2
<1>9. SlcGiven(c) \in 0 .. 127 /\ c.raidTlc \in 0 .. 255
  BY <1>1 DEF SlcGiven, SevenBits, Byte
<1>10. ASSUME Width(c) < 32, SlcGiven(c) = 0
       PROVE  IF gubRaidPagePerRaid(c) = 255 THEN \A n \in 1 .. 96 : ~Stripe(c, n, 1, SlcPageNum(c))
              ELSE Stripe(c, gubRaidPagePerRaid(c), 1, SlcPageNum(c))
  <2>1. gubRaidPagePerRaid(c) = findFittedRaidPageNum(c, 1, SlcPageNum(c))
    <3>1. ~(Width(c) >= 32)
      <4>1. Width(c) \in Nat
        BY <1>1 DEF Width, Count
      <4> QED BY <1>10, <4>1
    <3> QED BY <1>10, <3>1 DEF gubRaidPagePerRaid, Fitted
  <2>2. 1 \in 1 .. 4
    OBVIOUS
  <2> QED BY <1>4, <2>1, <2>2, StripeIs
<1>11. ASSUME Width(c) < 32, c.raidTlc = 0, c.species # "other"
       PROVE  IF gubTLCRaidPagePerRaid(c) = 255
              THEN \A n \in 1 .. 96 : ~Stripe(c, n, ProgramCount[c.species], PageNum(c))
              ELSE Stripe(c, gubTLCRaidPagePerRaid(c), ProgramCount[c.species], PageNum(c))
  <2>1. gubTLCRaidPagePerRaid(c) = findFittedRaidPageNum(c, ProgramCount[c.species], PageNum(c))
    <3>1. ~(Width(c) >= 32)
      <4>1. Width(c) \in Nat
        BY <1>1 DEF Width, Count
      <4> QED BY <1>11, <4>1
    <3> QED BY <1>11, <3>1 DEF gubTLCRaidPagePerRaid, Fitted, Uncategorized
  <2>2. ProgramCount[c.species] \in 1 .. 4
    BY <1>1, <1>11 DEF ProgramCount, Species
  <2> QED BY <1>3, <2>1, <2>2, StripeIs
<1>12. ASSUME ParameterResult(c) = "ERR_OK"
       PROVE  GoodGeometry(c, NandPara(c))
  <2>1. /\ gubRaidPagePerRaid(c) # 255 /\ ~Uncategorized(c)
        /\ ~(c.raidTlc = 0 /\ gubTLCRaidPagePerRaid(c) = 255)
    BY <1>12 DEF ParameterResult
  <2>2. Width(c) < 32 /\ SlcGiven(c) = 0 => Stripe(c, gubRaidPagePerRaid(c), 1, SlcPageNum(c))
    BY <1>10, <2>1
  <2>3. Width(c) < 32 /\ c.raidTlc = 0 =>
          Stripe(c, gubTLCRaidPagePerRaid(c), ProgramCount[c.species], PageNum(c))
    BY <1>11, <2>1 DEF Uncategorized
  <2> HIDE DEF p
  <2> QED BY <1>5, <1>6, <1>7, <1>8, <2>2, <2>3 DEF GoodGeometry, p, TwoTo
<1>13. ASSUME ParameterResult(c) = "ERR_INVALID_RAID_PAGENUM"
       PROVE  NoStripe(c)
  <2>0. Width(c) \in Nat
    BY <1>1 DEF Width, Count
  <2>1. CASE gubRaidPagePerRaid(c) = 255
    <3>1. SlcGiven(c) = 0 /\ Width(c) < 32
      BY <1>9, <2>0, <2>1 DEF gubRaidPagePerRaid, Fitted
    <3> QED BY <1>10, <2>1, <3>1 DEF NoStripe
  <2>2. CASE gubRaidPagePerRaid(c) # 255
    <3>1. ~Uncategorized(c) /\ c.raidTlc = 0 /\ gubTLCRaidPagePerRaid(c) = 255
      BY <1>13, <2>2 DEF ParameterResult
    <3>2. Width(c) < 32
      BY <2>0, <3>1 DEF gubTLCRaidPagePerRaid, Fitted
    <3> QED BY <1>11, <3>1, <3>2 DEF NoStripe, Uncategorized
  <2> QED BY <2>1, <2>2
<1> QED BY <1>12, <1>13

InitRecord ==
    [pc : {"parameters", "checks", "reset", "to12V", "ask", "compare", "vendor", "ok", "error", "assert"},
     cfg : Config, bank : Nat, bad : BOOLEAN,
     ret : {"ERR_OK", "ERR_INVALID_RAID_PAGENUM", "ERR_UNCATEGORIZED_FLASH_SPCIES",
            "ERR_CONFIG_MAPPING", "ERR_CONFIG_LDPC_CODERATE", "ERR_BLOCK_MAPPING",
            "ERR_RESET_FLASH", "ERR_READ_ID"},
     para : {<<>>} \cup {NandPara(c) : c \in Config},
     buf : {"zero", "signature", "other"}, due : SUBSET Nat, late : Nat,
     ready : SUBSET Nat, shown : SUBSET Nat]

Banks(i) == 0 .. (i.cfg.banks - 1)

\* Until a bank fails nothing is still to come, and every bank so far was reset and has
\* shown its signature.
SoFar(i) ==
    /\ i.pc \in {"checks", "reset", "to12V"} => i.due = {} /\ i.buf = "zero"
    /\ i.pc \in {"checks", "to12V"} => i.bank = 0 /\ ~i.bad
    /\ i.pc = "reset" /\ ~i.bad => 0 .. (i.bank - 1) \subseteq i.ready
    /\ i.pc \in {"to12V", "vendor"} \/ (i.pc \in {"ask", "compare"} /\ ~i.bad) =>
         Banks(i) \subseteq i.ready
    /\ i.pc \in {"ask", "compare"} /\ ~i.bad => i.due = {} /\ 0 .. (i.bank - 1) \subseteq i.shown
    /\ i.pc = "ask" /\ ~i.bad => i.buf = "zero"
    /\ i.pc = "compare" /\ ~i.bad /\ i.buf = "signature" => i.bank \in i.shown
    /\ i.pc = "vendor" => Banks(i) \subseteq i.shown
    /\ i.pc = "ok" => EveryBank(i)

InitOk(i) ==
    /\ i \in InitRecord
    /\ i.pc = "parameters" => i.cfg \in Configs /\ i.bank = 0 /\ ~i.bad /\ i.due = {} /\ i.buf = "zero"
    /\ i.pc # "error" => i.ret = "ERR_OK"
    /\ i.ret = "ERR_INVALID_RAID_PAGENUM" => NoStripe(i.cfg)
    /\ i.pc \notin {"parameters", "error", "assert"} => GoodGeometry(i.cfg, i.para)
    /\ i.bank \in Banks(i) /\ i.shown \subseteq i.cfg.flashes
    /\ SoFar(i)

InitPart == IF part = "initialisation" THEN InitOk(ini) ELSE ini.pc = "idle" /\ ini.ret = "ERR_OK"

\* How the end of a loop over the banks changes the record.
LEMMA BankDoneIs ==
    ASSUME ini \in InitRecord, NEW i \in InitRecord, i.cfg = ini.cfg, i.bank \in Banks(i), i.ret = "ERR_OK",
           NEW next \in {"to12V", "ask", "vendor"}, NEW err \in {"ERR_RESET_FLASH", "ERR_READ_ID"}
    PROVE  \A q : q = BankDone(i, next, err) =>
             /\ q \in InitRecord
             /\ q.cfg = i.cfg /\ q.bad = i.bad /\ q.para = i.para /\ q.buf = i.buf /\ q.due = i.due
             /\ q.late = i.late /\ q.ready = i.ready /\ q.shown = i.shown
             /\ q.bank \in Banks(q)
             /\ \/ q.bank = i.bank + 1 /\ q.pc = i.pc /\ q.ret = i.ret
                \/ i.bank = i.cfg.banks - 1 /\ i.bad /\ q.pc = "error" /\ q.ret = err
                \/ i.bank = i.cfg.banks - 1 /\ ~i.bad /\ q.bank = 0 /\ q.pc = next /\ q.ret = i.ret
<1> TAKE q
<1> HAVE q = BankDone(i, next, err)
<1>0. i.cfg.banks \in Nat \ {0} /\ i.bank \in Nat /\ i.bank < i.cfg.banks
  <2>1. i.cfg \in Config
    BY DEF InitRecord
  <2>2. i.cfg.banks \in Nat \ {0}
    BY <2>1, ConfigIs DEF Count
  <2> QED BY <2>2 DEF Banks
<1>1. CASE i.bank < LastOne
  <2>1. q = [i EXCEPT !.bank = i.bank + 1]
    BY <1>1 DEF BankDone
  <2>2. i.bank + 1 \in Nat /\ i.bank + 1 < i.cfg.banks
    BY <1>0, <1>1 DEF LastOne
  <2>3. q \in InitRecord /\ q.bank = i.bank + 1
    <3>1. PICK k \in Nat : k = i.bank + 1
      BY <2>2
    <3>2. q = [i EXCEPT !.bank = k]
      BY <2>1, <3>1
    <3> QED BY <3>1, <3>2 DEF InitRecord
  <2>4. /\ q.cfg = i.cfg /\ q.bad = i.bad /\ q.para = i.para /\ q.buf = i.buf /\ q.due = i.due
        /\ q.late = i.late /\ q.ready = i.ready /\ q.shown = i.shown /\ q.pc = i.pc /\ q.ret = i.ret
    BY <2>1 DEF InitRecord
  <2> QED BY <1>0, <2>2, <2>3, <2>4 DEF Banks
<1>2. CASE ~(i.bank < LastOne) /\ i.bad
  <2>1. q = [i EXCEPT !.pc = "error", !.ret = err]
    BY <1>2 DEF BankDone, EndInit
  <2>2. q \in InitRecord
    BY <2>1 DEF InitRecord
  <2>3. /\ q.cfg = i.cfg /\ q.bad = i.bad /\ q.para = i.para /\ q.buf = i.buf /\ q.due = i.due
        /\ q.late = i.late /\ q.ready = i.ready /\ q.shown = i.shown /\ q.bank = i.bank
        /\ q.pc = "error" /\ q.ret = err
    BY <2>1 DEF InitRecord
  <2>4. i.bank = i.cfg.banks - 1
    BY <1>0, <1>2 DEF LastOne
  <2> QED BY <1>2, <2>2, <2>3, <2>4 DEF Banks
<1>3. CASE ~(i.bank < LastOne) /\ ~i.bad
  <2>1. q = [i EXCEPT !.bank = 0, !.pc = next]
    BY <1>3 DEF BankDone
  <2>2. q \in InitRecord
    <3>1. [i EXCEPT !.bank = 0] \in InitRecord
      BY DEF InitRecord
    <3>2. \A r \in InitRecord : [r EXCEPT !.pc = next] \in InitRecord
      BY DEF InitRecord
    <3>3. q = [[i EXCEPT !.bank = 0] EXCEPT !.pc = next]
      BY <2>1
    <3> QED BY <3>1, <3>2, <3>3
  <2>3. /\ q.cfg = i.cfg /\ q.bad = i.bad /\ q.para = i.para /\ q.buf = i.buf /\ q.due = i.due
        /\ q.late = i.late /\ q.ready = i.ready /\ q.shown = i.shown /\ q.bank = 0
        /\ q.pc = next /\ q.ret = i.ret
    BY <2>1 DEF InitRecord
  <2>4. i.bank = i.cfg.banks - 1
    BY <1>0, <1>3 DEF LastOne
  <2> QED BY <1>0, <1>3, <2>2, <2>3, <2>4 DEF Banks
<1> QED BY <1>1, <1>2, <1>3

\* The configurations have blocks and pages, and not so many that a U16 of them is 0.
Sized == \A c \in Configs : BlocksPerLun(c) # 0 /\ SlcPageNum(c) # 0

\* Whether a stripe is good is not a matter of the capacity.
LEMMA CapacityIsNoMatter ==
    ASSUME NEW c \in Config, NEW d, d = [c EXCEPT !.capacity = MaxLBA(c)], NEW p, GoodGeometry(c, p)
    PROVE  d \in Config /\ d.banks = c.banks /\ d.flashes = c.flashes /\ GoodGeometry(d, p)
<1>1. MaxLBA(c) \in Nat
  <2>1. c.capacity \in Nat
    BY DEF Config
  <2>2. PICK n \in Nat : n = ClaimedGB(c)
    <3>1. c.capacity \div 2^21 \in Nat
      BY <2>1
    <3> QED BY <2>1, <3>1 DEF ClaimedGB
  <2>3. 97696368 + (n - 50) * 1953504 \in Nat
    OBVIOUS
  <2> QED BY <2>2, <2>3 DEF MaxLBA
<1>2. d \in Config
  BY <1>1 DEF Config
<1>3. /\ d.banks = c.banks /\ d.flashes = c.flashes /\ d.planes = c.planes /\ d.rounds = c.rounds
      /\ d.raid = c.raid /\ d.raidFlag = c.raidFlag /\ d.raidTlc = c.raidTlc /\ d.species = c.species
  BY DEF Config
<1>4. Width(d) = Width(c) /\ SlcGiven(d) = SlcGiven(c)
  BY <1>3 DEF Width, SlcGiven
<1>5. \A n, programs, pages : Stripe(d, n, programs, pages) <=> Stripe(c, n, programs, pages)
  BY <1>4 DEF Stripe
<1> QED BY <1>2, <1>3, <1>4, <1>5 DEF GoodGeometry

LEMMA InitBegins == InitInit => InitOk(ini)
<1> SUFFICES ASSUME InitInit PROVE InitOk(ini)
  OBVIOUS
<1>1. PICK c \in Configs :
        ini = [pc |-> "parameters", cfg |-> c, ret |-> "ERR_OK", bank |-> 0, bad |-> FALSE,
               para |-> <<>>, buf |-> "zero", due |-> {}, late |-> 0, ready |-> {}, shown |-> {}]
  BY DEF InitInit
<1>2. c \in Config
  BY InitAssumption
<1>3. ini \in InitRecord
  BY <1>1, <1>2 DEF InitRecord
<1>4. /\ ini.pc = "parameters" /\ ini.cfg = c /\ ini.ret = "ERR_OK" /\ ini.bank = 0 /\ ini.bad = FALSE
      /\ ini.buf = "zero" /\ ini.due = {} /\ ini.shown = {}
  BY <1>1
<1>5. 0 \in Banks(ini)
  <2>1. c.banks \in Nat \ {0}
    BY <1>2, ConfigIs DEF Count
  <2> QED BY <1>4, <2>1 DEF Banks
<1> QED BY <1>3, <1>4, <1>5 DEF InitOk, SoFar

LEMMA InitSteps == ASSUME Sized, InitOk(ini), InitNext PROVE InitOk(ini)'
<1>0. /\ ini \in InitRecord /\ ini.cfg \in Config /\ ini.bank \in Banks(ini)
      /\ ini.shown \subseteq ini.cfg.flashes
      /\ ini.pc # "error" => ini.ret = "ERR_OK"
      /\ ini.cfg.banks \in Nat \ {0}
  <2>1. ini \in InitRecord
    BY DEF InitOk
  <2>2. ini.cfg \in Config
    BY <2>1 DEF InitRecord
  <2>3. ini.cfg.banks \in Nat \ {0}
    BY <2>2, ConfigIs DEF Count
  <2> QED BY <2>1, <2>2, <2>3 DEF InitOk
<1>e. ASSUME NEW err \in {"ERR_CONFIG_MAPPING", "ERR_CONFIG_LDPC_CODERATE", "ERR_BLOCK_MAPPING",
                          "ERR_RESET_FLASH", "ERR_READ_ID", "ERR_UNCATEGORIZED_FLASH_SPCIES"},
             ini' = EndInit(ini, err)
      PROVE  InitOk(ini)'
  <2>1. ini' = [ini EXCEPT !.pc = "error", !.ret = err]
    BY <1>e DEF EndInit
  <2>2. ini' \in InitRecord
    BY <1>0, <2>1 DEF InitRecord
  <2>3. /\ ini'.pc = "error" /\ ini'.ret = err /\ ini'.cfg = ini.cfg /\ ini'.bank = ini.bank
        /\ ini'.shown = ini.shown
    BY <1>0, <2>1 DEF InitRecord
  <2> QED BY <1>0, <1>e, <2>2, <2>3 DEF InitOk, SoFar, Banks
<1>1. CASE llfmpInitParameter
  <2>1. /\ ini.pc = "parameters" /\ ini.cfg \in Configs /\ ini.bank = 0 /\ ~ini.bad /\ ini.due = {}
        /\ ini.buf = "zero" /\ ini.ret = "ERR_OK"
    BY <1>1 DEF llfmpInitParameter, InitOk
  <2>2. /\ ParameterResult(ini.cfg) = "ERR_OK" => GoodGeometry(ini.cfg, NandPara(ini.cfg))
        /\ ParameterResult(ini.cfg) = "ERR_INVALID_RAID_PAGENUM" => NoStripe(ini.cfg)
    BY <1>0, <2>1, GeometryIs DEF Sized
  <2>3. CASE ParameterResult(ini.cfg) = "assert"
    <3>1. ini' = [ini EXCEPT !.pc = "assert"]
      BY <1>1, <2>3 DEF llfmpInitParameter
    <3>2. ini' \in InitRecord
      BY <1>0, <3>1 DEF InitRecord
    <3>3. /\ ini'.pc = "assert" /\ ini'.ret = ini.ret /\ ini'.cfg = ini.cfg /\ ini'.bank = ini.bank
          /\ ini'.shown = ini.shown
      BY <1>0, <3>1 DEF InitRecord
    <3> QED BY <1>0, <2>1, <3>2, <3>3 DEF InitOk, SoFar, Banks
  <2>4. CASE ParameterResult(ini.cfg) = "ERR_INVALID_RAID_PAGENUM"
    <3>1. ini' = [ini EXCEPT !.pc = "error", !.ret = "ERR_INVALID_RAID_PAGENUM"]
      BY <1>1, <2>4 DEF llfmpInitParameter, EndInit
    <3>2. ini' \in InitRecord
      BY <1>0, <3>1 DEF InitRecord
    <3>3. /\ ini'.pc = "error" /\ ini'.cfg = ini.cfg /\ ini'.bank = ini.bank
          /\ ini'.shown = ini.shown
      BY <1>0, <3>1 DEF InitRecord
    <3>4. NoStripe(ini'.cfg)
      BY <2>2, <2>4, <3>3
    <3> QED BY <1>0, <3>2, <3>3, <3>4 DEF InitOk, SoFar, Banks
  <2>5. CASE ParameterResult(ini.cfg) = "ERR_UNCATEGORIZED_FLASH_SPCIES"
    <3>1. ini' = EndInit(ini, "ERR_UNCATEGORIZED_FLASH_SPCIES")
      BY <1>1, <2>5 DEF llfmpInitParameter
    <3> QED BY <1>e, <3>1
  <2>6. CASE ParameterResult(ini.cfg) = "ERR_OK"
    <3>1. ini' = [ini EXCEPT !.pc = "checks", !.para = NandPara(ini.cfg), !.cfg.capacity = MaxLBA(ini.cfg)]
      BY <1>1, <2>6 DEF llfmpInitParameter
    <3>2. PICK d : d = [ini.cfg EXCEPT !.capacity = MaxLBA(ini.cfg)]
      OBVIOUS
    <3>3. PICK p : p = NandPara(ini.cfg)
      OBVIOUS
    <3>4. /\ d \in Config /\ d.banks = ini.cfg.banks /\ d.flashes = ini.cfg.flashes
          /\ GoodGeometry(d, p)
      BY <1>0, <2>2, <2>6, <3>2, <3>3, CapacityIsNoMatter
    <3>5. p \in {<<>>} \cup {NandPara(c) : c \in Config}
      BY <1>0, <3>3
    <3>6. ini' = [ini EXCEPT !.pc = "checks", !.para = p, !.cfg = d]
      BY <1>0, <3>1, <3>2, <3>3 DEF InitRecord
    <3>7. ini' \in InitRecord
      <4>1. \A r \in InitRecord : [r EXCEPT !.para = p] \in InitRecord
        BY <3>5 DEF InitRecord
      <4>2. \A r \in InitRecord : [r EXCEPT !.cfg = d] \in InitRecord
        BY <3>4 DEF InitRecord
      <4>3. [ini EXCEPT !.pc = "checks"] \in InitRecord
        BY <1>0 DEF InitRecord
      <4>4. ini' = [[[ini EXCEPT !.pc = "checks"] EXCEPT !.para = p] EXCEPT !.cfg = d]
        BY <1>0, <3>6 DEF InitRecord
      <4> QED BY <4>1, <4>2, <4>3, <4>4
    <3>8. /\ ini'.pc = "checks" /\ ini'.ret = "ERR_OK" /\ ini'.cfg = d /\ ini'.para = p
          /\ ini'.bank = 0 /\ ini'.bad = ini.bad /\ ini'.due = {} /\ ini'.buf = "zero" /\ ini'.shown = ini.shown
      BY <1>0, <2>1, <3>6 DEF InitRecord
    <3> QED BY <1>0, <2>1, <3>4, <3>7, <3>8 DEF InitOk, SoFar, Banks
  <2> QED BY <2>3, <2>4, <2>5, <2>6 DEF ParameterResult
<1>g. ini.pc \notin {"parameters", "error", "assert"} =>
        GoodGeometry(ini.cfg, ini.para) /\ SoFar(ini) /\ ini.ret = "ERR_OK"
  BY DEF InitOk
<1>2. CASE llf_init
  <2>1. CheckResult(ini.cfg) = "ERR_OK" \/ CheckResult(ini.cfg) \in {"ERR_CONFIG_MAPPING", "ERR_CONFIG_LDPC_CODERATE", "ERR_BLOCK_MAPPING"}
    BY DEF CheckResult
  <2>2. CASE CheckResult(ini.cfg) = "ERR_OK"
    <3>1. ini.pc = "checks" /\ ini' = [ini EXCEPT !.pc = "reset"]
      BY <1>2, <2>2 DEF llf_init
    <3>2. ini' \in InitRecord
      BY <1>0, <3>1 DEF InitRecord
    <3>3. /\ ini'.pc = "reset" /\ ini'.ret = ini.ret /\ ini'.cfg = ini.cfg /\ ini'.bank = ini.bank
          /\ ini'.shown = ini.shown /\ ini'.para = ini.para /\ ini'.due = ini.due /\ ini'.buf = ini.buf
          /\ ini'.bad = ini.bad
      BY <1>0, <3>1 DEF InitRecord
    <3>4. ini.bank = 0 /\ ~ini.bad /\ ini.due = {} /\ ini.buf = "zero"
      BY <1>g, <3>1 DEF SoFar
    <3>5. 0 .. (ini'.bank - 1) \subseteq ini'.ready
      BY <3>3, <3>4
    <3> QED BY <1>0, <1>g, <3>1, <3>2, <3>3, <3>4, <3>5 DEF InitOk, SoFar, Banks
  <2>3. CASE CheckResult(ini.cfg) # "ERR_OK"
    <3>1. ini' = EndInit(ini, CheckResult(ini.cfg))
      BY <1>2, <2>3 DEF llf_init
    <3> QED BY <1>e, <2>1, <2>3, <3>1
  <2> QED BY <2>2, <2>3
<1>3. CASE FCReset
  <2>1. ini.pc = "reset" /\ AfterReset \in {"to12V", "ask"}
    BY <1>3 DEF FCReset, AfterReset
  <2>2. /\ ini.due = {} /\ ini.buf = "zero" /\ ini.ret = "ERR_OK" /\ GoodGeometry(ini.cfg, ini.para)
        /\ (~ini.bad => 0 .. (ini.bank - 1) \subseteq ini.ready)
    BY <1>g, <2>1 DEF SoFar
  <2>n. ini.bank \in Nat
    BY <1>0 DEF Banks
  <2>3. PICK i : /\ ini' = BankDone(i, AfterReset, "ERR_RESET_FLASH")
                 /\ i = [ini EXCEPT !.ready = @ \cup {ini.bank}] \/ i = [ini EXCEPT !.bad = TRUE]
    BY <1>3 DEF FCReset
  <2>4. /\ i \in InitRecord /\ i.cfg = ini.cfg /\ i.bank = ini.bank /\ i.ret = ini.ret /\ i.pc = ini.pc
        /\ i.para = ini.para /\ i.due = ini.due /\ i.buf = ini.buf /\ i.shown = ini.shown
        /\ (~i.bad => ~ini.bad /\ i.ready = ini.ready \cup {ini.bank})
    <3>1. CASE i = [ini EXCEPT !.bad = TRUE]
      BY <1>0, <3>1 DEF InitRecord
    <3>2. CASE i = [ini EXCEPT !.ready = @ \cup {ini.bank}]
      <4>1. PICK R \in SUBSET Nat : R = ini.ready \cup {ini.bank}
        BY <1>0, <2>n DEF InitRecord
      <4>2. i = [ini EXCEPT !.ready = R]
        BY <1>0, <3>2, <4>1 DEF InitRecord
      <4> QED BY <1>0, <4>1, <4>2 DEF InitRecord
    <3> QED BY <2>3, <3>1, <3>2
  <2>5. ~i.bad => 0 .. i.bank \subseteq i.ready
    <3>1. 0 .. ini.bank = 0 .. (ini.bank - 1) \cup {ini.bank}
      BY <2>n
    <3> QED BY <2>2, <2>4, <3>1
  <2>6. AfterReset \in {"to12V", "ask", "vendor"} /\ "ERR_RESET_FLASH" \in {"ERR_RESET_FLASH", "ERR_READ_ID"}
    BY <2>1
  <2>7. i.bank \in Banks(i) /\ i.ret = "ERR_OK"
    BY <1>0, <2>2, <2>4 DEF Banks
  <2>8. /\ ini' \in InitRecord
        /\ ini'.cfg = i.cfg /\ ini'.bad = i.bad /\ ini'.para = i.para /\ ini'.buf = i.buf /\ ini'.due = i.due
        /\ ini'.ready = i.ready /\ ini'.shown = i.shown /\ ini'.bank \in Banks(ini')
        /\ \/ ini'.bank = i.bank + 1 /\ ini'.pc = i.pc /\ ini'.ret = i.ret
           \/ i.bank = i.cfg.banks - 1 /\ i.bad /\ ini'.pc = "error" /\ ini'.ret = "ERR_RESET_FLASH"
           \/ i.bank = i.cfg.banks - 1 /\ ~i.bad /\ ini'.bank = 0 /\ ini'.pc = AfterReset /\ ini'.ret = i.ret
    BY <1>0, <2>3, <2>4, <2>6, <2>7, BankDoneIs
  <2>9. /\ ini'.shown \subseteq ini'.cfg.flashes /\ GoodGeometry(ini'.cfg, ini'.para)
        /\ ini'.due = {} /\ ini'.buf = "zero"
    BY <1>0, <2>2, <2>4, <2>8
  <2>10. CASE ini'.bank = i.bank + 1 /\ ini'.pc = i.pc /\ ini'.ret = i.ret
    <3>1. ini'.pc = "reset" /\ ini'.ret = "ERR_OK" /\ (~ini'.bad => 0 .. (ini'.bank - 1) \subseteq ini'.ready)
      BY <2>1, <2>n, <2>4, <2>5, <2>7, <2>8, <2>10
    <3> QED BY <2>8, <2>9, <3>1 DEF InitOk, SoFar, Banks
  <2>11. CASE ini'.pc = "error" /\ ini'.ret = "ERR_RESET_FLASH"
    BY <2>8, <2>9, <2>11 DEF InitOk, SoFar, Banks
  <2>12. CASE i.bank = i.cfg.banks - 1 /\ ~i.bad /\ ini'.bank = 0 /\ ini'.pc = AfterReset /\ ini'.ret = i.ret
    <3>1. Banks(ini') \subseteq ini'.ready /\ ~ini'.bad /\ ini'.ret = "ERR_OK" /\ ini'.pc \in {"to12V", "ask"}
      BY <2>1, <2>5, <2>7, <2>8, <2>12 DEF Banks
    <3>2. 0 .. (ini'.bank - 1) \subseteq ini'.shown
      BY <2>12
    <3> QED BY <2>8, <2>9, <2>12, <3>1, <3>2 DEF InitOk, SoFar, Banks
  <2> QED BY <2>8, <2>10, <2>11, <2>12
<1>4. CASE FCHynixTo12V
  <2>1. CASE ini' = [ini EXCEPT !.pc = "ask"]
    <3>1. ini.pc = "to12V"
      BY <1>4 DEF FCHynixTo12V
    <3>2. ini' \in InitRecord
      BY <1>0, <2>1 DEF InitRecord
    <3>3. /\ ini'.pc = "ask" /\ ini'.ret = ini.ret /\ ini'.cfg = ini.cfg /\ ini'.bank = ini.bank
          /\ ini'.shown = ini.shown /\ ini'.para = ini.para /\ ini'.due = ini.due /\ ini'.buf = ini.buf
          /\ ini'.bad = ini.bad /\ ini'.ready = ini.ready
      BY <1>0, <2>1 DEF InitRecord
    <3>4. ini.bank = 0 /\ ~ini.bad /\ ini.due = {} /\ ini.buf = "zero" /\ Banks(ini) \subseteq ini.ready
      BY <1>g, <3>1 DEF SoFar
    <3>5. 0 .. (ini'.bank - 1) \subseteq ini'.shown
      BY <3>3, <3>4
    <3> QED BY <1>0, <1>g, <3>1, <3>2, <3>3, <3>4, <3>5 DEF InitOk, SoFar, Banks
  <2>2. CASE ini' = EndInit(ini, "ERR_RESET_FLASH")
    BY <1>e, <2>2
  <2> QED BY <1>4, <2>1, <2>2 DEF FCHynixTo12V
<1>b. ini.buf \in {"zero", "signature", "other"} /\ \A b : Signature(b) \in {"signature", "other"}
  BY <1>0 DEF InitRecord, Signature
<1>5. CASE FCReadID
  <2>1. ini.pc = "ask" /\ ini.bank \in Nat
    BY <1>0, <1>5 DEF FCReadID, Banks
  <2>2. /\ ini.ret = "ERR_OK" /\ GoodGeometry(ini.cfg, ini.para)
        /\ (~ini.bad => /\ Banks(ini) \subseteq ini.ready /\ ini.due = {} /\ ini.buf = "zero"
                        /\ 0 .. (ini.bank - 1) \subseteq ini.shown)
    BY <1>g, <2>1 DEF SoFar
  <2>3. /\ ini' \in InitRecord /\ ini'.pc = "compare" /\ ini'.ret = ini.ret /\ ini'.cfg = ini.cfg
        /\ ini'.bank = ini.bank /\ ini'.para = ini.para /\ ini'.ready = ini.ready
        /\ ini.shown \subseteq ini'.shown /\ ini'.shown \subseteq ini.cfg.flashes
        /\ (~ini'.bad => /\ ~ini.bad /\ ini'.due = ini.due
                         /\ (ini'.buf = "signature" => ini.bank \in ini'.shown))
    <3>1. ASSUME NEW S \in SUBSET Nat, S = (IF ini.bank \in ini.cfg.flashes THEN ini.shown \cup {ini.bank} ELSE ini.shown),
                 ini' = [ini EXCEPT !.pc = "compare", !.buf = Signature(ini.bank), !.shown = S]
          PROVE  /\ ini' \in InitRecord /\ ini'.pc = "compare" /\ ini'.ret = ini.ret /\ ini'.cfg = ini.cfg
                 /\ ini'.bank = ini.bank /\ ini'.para = ini.para /\ ini'.ready = ini.ready
                 /\ ini.shown \subseteq ini'.shown /\ ini'.shown \subseteq ini.cfg.flashes
                 /\ (~ini'.bad => /\ ~ini.bad /\ ini'.due = ini.due
                                  /\ (ini'.buf = "signature" => ini.bank \in ini'.shown))
      <4>1. PICK s \in {"signature", "other"} : s = Signature(ini.bank)
        BY <1>b
      <4>2. ini' \in InitRecord
        BY <1>0, <3>1, <4>1 DEF InitRecord
      <4>3. /\ ini'.pc = "compare" /\ ini'.ret = ini.ret /\ ini'.cfg = ini.cfg /\ ini'.bank = ini.bank
            /\ ini'.para = ini.para /\ ini'.ready = ini.ready /\ ini'.bad = ini.bad /\ ini'.due = ini.due
            /\ ini'.shown = S /\ ini'.buf = s
        BY <1>0, <3>1, <4>1 DEF InitRecord
      <4>4. s = "signature" => ini.bank \in ini.cfg.flashes
        BY <4>1 DEF Signature
      <4> QED BY <1>0, <3>1, <4>2, <4>3, <4>4
    <3>2. ASSUME NEW buf \in {ini.buf, Signature(ini.bank)}, ini' = [ini EXCEPT !.pc = "compare", !.bad = TRUE, !.buf = buf]
          PROVE  /\ ini' \in InitRecord /\ ini'.pc = "compare" /\ ini'.ret = ini.ret /\ ini'.cfg = ini.cfg
                 /\ ini'.bank = ini.bank /\ ini'.para = ini.para /\ ini'.ready = ini.ready
                 /\ ini'.shown = ini.shown /\ ini'.bad = TRUE
      <4>1. buf \in {"zero", "signature", "other"}
        BY <1>b
      <4> QED BY <1>0, <3>2, <4>1 DEF InitRecord
    <3>3. ASSUME ini' = NotAnswered
          PROVE  /\ ini' \in InitRecord /\ ini'.pc = "compare" /\ ini'.ret = ini.ret /\ ini'.cfg = ini.cfg
                 /\ ini'.bank = ini.bank /\ ini'.para = ini.para /\ ini'.ready = ini.ready
                 /\ ini'.shown = ini.shown /\ ini'.bad = TRUE
      <4>1. PICK D \in SUBSET Nat : D = ini.due \cup {ini.bank}
        BY <1>0, <2>1 DEF InitRecord
      <4>2. PICK k \in Nat : k = ini.late + 1
        BY <1>0 DEF InitRecord
      <4>3. ini' = [ini EXCEPT !.pc = "compare", !.bad = TRUE, !.due = D, !.late = k]
        BY <1>0, <3>3, <4>1, <4>2 DEF NotAnswered, InitRecord
      <4> QED BY <1>0, <4>3 DEF InitRecord
    <3>4. CASE ini' = [ini EXCEPT !.pc = "compare", !.buf = Signature(ini.bank),
                          !.shown = IF ini.bank \in ini.cfg.flashes THEN @ \cup {ini.bank} ELSE @]
      <4>1. PICK S \in SUBSET Nat : S = IF ini.bank \in ini.cfg.flashes THEN ini.shown \cup {ini.bank} ELSE ini.shown
        BY <1>0, <2>1 DEF InitRecord
      <4>2. ini' = [ini EXCEPT !.pc = "compare", !.buf = Signature(ini.bank), !.shown = S]
        BY <1>0, <3>4, <4>1 DEF InitRecord
      <4> QED BY <3>1, <4>1, <4>2
    <3>5. CASE \E buf \in {ini.buf, Signature(ini.bank)} : ini' = [ini EXCEPT !.pc = "compare", !.bad = TRUE, !.buf = buf]
      BY <1>0, <3>2, <3>5
    <3>6. CASE ini' = NotAnswered
      BY <1>0, <3>3, <3>6
    <3> QED BY <1>5, <3>4, <3>5, <3>6 DEF FCReadID
  <2>4. ~ini'.bad => /\ Banks(ini') \subseteq ini'.ready /\ ini'.due = {}
                     /\ 0 .. (ini'.bank - 1) \subseteq ini'.shown
                     /\ (ini'.buf = "signature" => ini'.bank \in ini'.shown)
    BY <2>2, <2>3 DEF Banks
  <2>5. ini'.ret = "ERR_OK" /\ GoodGeometry(ini'.cfg, ini'.para) /\ ini'.bank \in Banks(ini')
        /\ ini'.shown \subseteq ini'.cfg.flashes
    BY <1>0, <2>2, <2>3 DEF Banks
  <2> QED BY <2>3, <2>4, <2>5 DEF InitOk, SoFar, Banks
<1>6. CASE Late
  <2>1. PICK b \in ini.due : ini.pc \in {"ask", "compare"} /\ ini' = [ini EXCEPT !.due = @ \ {b}, !.buf = Signature(b)]
    BY <1>6 DEF Late
  <2>2. ini.bad /\ GoodGeometry(ini.cfg, ini.para) /\ ini.ret = "ERR_OK"
    BY <1>g, <2>1 DEF SoFar
  <2>3. PICK s \in {"signature", "other"}, D \in SUBSET Nat : s = Signature(b) /\ D = ini.due \ {b}
    BY <1>0, <1>b DEF InitRecord
  <2>4. ini' = [ini EXCEPT !.due = D, !.buf = s]
    BY <1>0, <2>1, <2>3 DEF InitRecord
  <2>5. ini' \in InitRecord
    BY <1>0, <2>4 DEF InitRecord
  <2>6. /\ ini'.pc = ini.pc /\ ini'.ret = ini.ret /\ ini'.cfg = ini.cfg /\ ini'.bank = ini.bank
        /\ ini'.para = ini.para /\ ini'.shown = ini.shown /\ ini'.bad = ini.bad
    BY <1>0, <2>4 DEF InitRecord
  <2> QED BY <1>0, <2>1, <2>2, <2>5, <2>6 DEF InitOk, SoFar, Banks
<1>7. CASE CompareID
  <2>1. ini.pc = "compare" /\ ini.bank \in Nat
    BY <1>0, <1>7 DEF CompareID, Banks
  <2>2. /\ ini.ret = "ERR_OK" /\ GoodGeometry(ini.cfg, ini.para)
        /\ (~ini.bad => /\ Banks(ini) \subseteq ini.ready /\ ini.due = {}
                        /\ 0 .. (ini.bank - 1) \subseteq ini.shown
                        /\ (ini.buf = "signature" => ini.bank \in ini.shown))
    BY <1>g, <2>1 DEF SoFar
  <2>3. PICK bad \in BOOLEAN : (bad = TRUE) <=> (ini.bad = TRUE \/ ini.buf # "signature")
    OBVIOUS
  <2>4. PICK i : /\ i = [ini EXCEPT !.pc = "ask", !.buf = "zero", !.bad = bad]
                 /\ ini' = BankDone(i, "vendor", "ERR_READ_ID")
    <3>1. ini.bad \in BOOLEAN
      BY <1>0 DEF InitRecord
    <3>2. (ini.bad \/ ~(ini.buf = "signature")) = bad
      BY <2>3, <3>1
    <3>3. [ini EXCEPT !.pc = "ask", !.buf = "zero", !.bad = @ \/ ~(ini.buf = "signature")]
            = [ini EXCEPT !.pc = "ask", !.buf = "zero", !.bad = bad]
      BY <1>0, <3>2 DEF InitRecord
    <3> QED BY <1>7, <3>3 DEF CompareID
  <2>5. /\ i \in InitRecord /\ i.cfg = ini.cfg /\ i.bank = ini.bank /\ i.ret = ini.ret /\ i.pc = "ask"
        /\ i.para = ini.para /\ i.due = ini.due /\ i.buf = "zero" /\ i.shown = ini.shown
        /\ i.ready = ini.ready /\ i.bad = bad
    BY <1>0, <2>4 DEF InitRecord
  <2>6. ~i.bad => Banks(ini) \subseteq i.ready /\ i.due = {} /\ 0 .. i.bank \subseteq i.shown
    <3>1. 0 .. ini.bank = 0 .. (ini.bank - 1) \cup {ini.bank}
      BY <2>1
    <3>2. ~i.bad => ~ini.bad /\ ini.buf = "signature"
      BY <2>3, <2>5
    <3> QED BY <2>2, <2>5, <3>1, <3>2
  <2>7. i.bank \in Banks(i) /\ i.ret = "ERR_OK"
    BY <1>0, <2>2, <2>5 DEF Banks
  <2>8. /\ ini' \in InitRecord
        /\ ini'.cfg = i.cfg /\ ini'.bad = i.bad /\ ini'.para = i.para /\ ini'.buf = i.buf /\ ini'.due = i.due
        /\ ini'.ready = i.ready /\ ini'.shown = i.shown /\ ini'.bank \in Banks(ini')
        /\ \/ ini'.bank = i.bank + 1 /\ ini'.pc = i.pc /\ ini'.ret = i.ret
           \/ i.bank = i.cfg.banks - 1 /\ i.bad /\ ini'.pc = "error" /\ ini'.ret = "ERR_READ_ID"
           \/ i.bank = i.cfg.banks - 1 /\ ~i.bad /\ ini'.bank = 0 /\ ini'.pc = "vendor" /\ ini'.ret = i.ret
    <3>1. PICK next \in {"to12V", "ask", "vendor"}, err \in {"ERR_RESET_FLASH", "ERR_READ_ID"} :
             next = "vendor" /\ err = "ERR_READ_ID"
      OBVIOUS
    <3>2. ini' = BankDone(i, next, err)
      BY <2>4, <3>1
    <3>3. i \in InitRecord /\ i.cfg = ini.cfg
      BY <2>5
    <3>4. /\ ini' \in InitRecord
          /\ ini'.cfg = i.cfg /\ ini'.bad = i.bad /\ ini'.para = i.para /\ ini'.buf = i.buf /\ ini'.due = i.due
          /\ ini'.ready = i.ready /\ ini'.shown = i.shown /\ ini'.bank \in Banks(ini')
          /\ \/ ini'.bank = i.bank + 1 /\ ini'.pc = i.pc /\ ini'.ret = i.ret
             \/ i.bank = i.cfg.banks - 1 /\ i.bad /\ ini'.pc = "error" /\ ini'.ret = err
             \/ i.bank = i.cfg.banks - 1 /\ ~i.bad /\ ini'.bank = 0 /\ ini'.pc = next /\ ini'.ret = i.ret
      BY <1>0, <2>7, <3>2, <3>3, BankDoneIs
    <3> QED BY <3>1, <3>4
  <2>9. ini'.shown \subseteq ini'.cfg.flashes /\ GoodGeometry(ini'.cfg, ini'.para) /\ ini'.buf = "zero"
    BY <1>0, <2>2, <2>5, <2>8
  <2>10. CASE ini'.bank = i.bank + 1 /\ ini'.pc = i.pc /\ ini'.ret = i.ret
    <3>1. ini'.pc = "ask" /\ ini'.ret = "ERR_OK"
      BY <2>5, <2>7, <2>10
    <3>2. ~ini'.bad => Banks(ini') \subseteq ini'.ready /\ ini'.due = {} /\ 0 .. (ini'.bank - 1) \subseteq ini'.shown
      BY <2>1, <2>5, <2>6, <2>8, <2>10 DEF Banks
    <3> QED BY <2>8, <2>9, <3>1, <3>2 DEF InitOk, SoFar, Banks
  <2>11. CASE ini'.pc = "error" /\ ini'.ret = "ERR_READ_ID"
    BY <2>8, <2>9, <2>11 DEF InitOk, SoFar, Banks
  <2>12. CASE i.bank = i.cfg.banks - 1 /\ ~i.bad /\ ini'.bank = 0 /\ ini'.pc = "vendor" /\ ini'.ret = i.ret
    <3>1. ini'.ret = "ERR_OK" /\ Banks(ini') \subseteq ini'.ready /\ Banks(ini') \subseteq ini'.shown
      BY <2>5, <2>6, <2>7, <2>8, <2>12 DEF Banks
    <3> QED BY <2>8, <2>9, <2>12, <3>1 DEF InitOk, SoFar
  <2> QED BY <2>8, <2>10, <2>11, <2>12
<1>8. CASE ReadVendor
  <2>1. ini.pc = "vendor"
    BY <1>8 DEF ReadVendor
  <2>2. CASE ini' = EndInit([ini EXCEPT !.buf = Signature(0)], "ERR_OK")
    <3>1. /\ Banks(ini) \subseteq ini.ready /\ Banks(ini) \subseteq ini.shown /\ GoodGeometry(ini.cfg, ini.para)
          /\ ini.ret = "ERR_OK"
      BY <1>g, <2>1 DEF SoFar
    <3>2. 0 \in Banks(ini)
      BY <1>0 DEF Banks
    <3>3. Signature(0) = "signature"
      BY <1>0, <3>1, <3>2 DEF Signature
    <3>4. ini' = [ini EXCEPT !.buf = "signature", !.pc = "ok", !.ret = "ERR_OK"]
      BY <1>0, <2>2, <3>3 DEF EndInit, InitRecord
    <3>5. ini' \in InitRecord
      BY <1>0, <3>4 DEF InitRecord
    <3>6. /\ ini'.pc = "ok" /\ ini'.ret = "ERR_OK" /\ ini'.cfg = ini.cfg /\ ini'.bank = ini.bank
          /\ ini'.shown = ini.shown /\ ini'.para = ini.para /\ ini'.buf = "signature" /\ ini'.ready = ini.ready
      BY <1>0, <3>4 DEF InitRecord
    <3>7. EveryBank(ini')
      BY <3>1, <3>6 DEF EveryBank, Banks
    <3> QED BY <1>0, <3>1, <3>5, <3>6, <3>7 DEF InitOk, SoFar, Banks
  <2>3. CASE ini' = EndInit(ini, "ERR_READ_ID")
    BY <1>e, <2>3
  <2> QED BY <1>8, <2>2, <2>3 DEF ReadVendor
<1> QED BY <1>1, <1>2, <1>3, <1>4, <1>5, <1>6, <1>7, <1>8 DEF InitNext

LEMMA InitPartBegins == TaskInit => InitPart
<1> SUFFICES ASSUME TaskInit PROVE InitPart
  OBVIOUS
<1>1. CASE part = "initialisation"
  <2>1. InitInit
    BY <1>1 DEF TaskInit
  <2> QED BY <1>1, <2>1, InitBegins DEF InitPart
<1>2. CASE part # "initialisation"
  <2>1. OtherInit
    BY <1>2 DEF TaskInit
  <2> QED BY <1>2, <2>1 DEF InitPart, OtherInit
<1> QED BY <1>1, <1>2

LEMMA InitPartKept == ASSUME Sized, InitPart, [TaskNext]_taskVars PROVE InitPart'
<1>1. CASE part = "initialisation" /\ InitNext /\ UNCHANGED part
  <2>1. InitOk(ini)
    BY <1>1 DEF InitPart
  <2> QED BY <1>1, <2>1, InitSteps DEF InitPart
<1>2. CASE UNCHANGED <<part, ini>>
  BY <1>2 DEF InitPart
<1>3. (part = "initialisation" /\ InitNext /\ UNCHANGED part) \/ UNCHANGED <<part, ini>>
  BY DEF TaskNext, taskVars
<1> QED BY <1>1, <1>2, <1>3

\* BE_LLF_INIT succeeds only with every bank's own signature and a good geometry, and gives
\* up for want of a stripe only when there is none (InitVerdictTrue), for every set of
\* configurations in which no number of blocks or pages comes to 0.
THEOREM InitVerdicts == ASSUME Sized PROVE TaskSpec => []InitVerdictTrue
<1>1. TaskInit => InitPart
  BY InitPartBegins
<1>2. InitPart /\ [TaskNext]_taskVars => InitPart'
  BY InitPartKept
<1>3. InitPart => InitVerdictTrue
  BY DEF InitPart, InitOk, SoFar, InitVerdictTrue
<1> QED BY <1>1, <1>2, <1>3, PTL DEF TaskSpec

----------------------------------------------------------------------------
(* The calibration                                                         *)

\* Where nothing comes back no window is found, by a search of any length.
LEMMA NothingSettled == Settle(NoWindow) = NoWindow
<1>1. Cardinality({}) = 0
  BY FS_EmptySet
<1>2. NoWindow.run = {} /\ NoWindow.gap = 0
  BY DEF NoWindow
<1>3. Settle(NoWindow) = [NoWindow EXCEPT !.run = {}]
  BY <1>1, <1>2 DEF Settle
<1> QED BY <1>3 DEF NoWindow

LEMMA NothingSwept ==
    ASSUME NEW n \in Nat
    PROVE  Swept({}, n) = NoWindow
<1> DEFINE step(f) == [i \in 0 .. n |-> IF i = 0 THEN NoWindow
                                        ELSE AfterTry(f[i - 1], i - 1, (i - 1) \in {})]
           e == [i \in 0 .. n |-> NoWindow]
           w == CHOOSE f : f = step(f)
<1>1. AfterTry(NoWindow, 0, FALSE) = NoWindow
  BY NothingSettled DEF AfterTry
<1>2. \A u, v : AfterTry(u, v, v \in {}) = Settle(u)
  BY DEF AfterTry
<1>3. e = step(e)
  <2>1. \A i \in 0 .. n : i # 0 => e[i - 1] = NoWindow
    OBVIOUS
  <2> QED BY <2>1, <1>2, NothingSettled
<1>4. w = step(w)
  <2> HIDE DEF step, e
  <2> QED BY <1>3
<1>5. Swept({}, n) = w[n]
  BY DEF Swept
<1> DEFINE T == {i \in 0 .. n : w[i] # NoWindow}
<1>6. w[0] = NoWindow /\ \A i \in 1 .. n : w[i] = Settle(w[i - 1])
  <2>1. \A f : \A i \in 0 .. n : step(f)[i] = IF i = 0 THEN NoWindow ELSE Settle(f[i - 1])
    BY <1>2
  <2> HIDE DEF step, w
  <2> QED BY <2>1, <1>4
<1>t. T \subseteq Nat
  OBVIOUS
<1> HIDE DEF w
<1>7. ASSUME T # {}
      PROVE  FALSE
  <2>1. PICK x \in T : \A y \in T : x <= y
    BY <1>7, <1>t, Least, Zenon
  <2>2. x \in 1 .. n /\ x - 1 \in 0 .. n /\ w[x - 1] = NoWindow
    BY <1>6, <2>1
  <2> QED BY <2>1, <2>2, <1>6, NothingSettled
<1> QED BY <1>5, <1>7

LEMMA NoEye ==
    /\ \A cut \in Cuts(RxRange) : llffioBECalibrate({}, cut).ret = "ERR"
    /\ \A cut \in Cuts(RxRange) :
         llfCalibrateRxDqsDelayChain({}, cut).gap = 0
<1> SUFFICES ASSUME NEW cut \in Cuts(RxRange)
             PROVE  /\ llffioBECalibrate({}, cut).ret = "ERR"
                    /\ llfCalibrateRxDqsDelayChain({}, cut).gap = 0
  OBVIOUS
<1>1. RxRange \in Nat
  BY WindowAssumption
<1>2. cut = Whole \/ cut.at \in 0 .. (RxRange - 1)
  BY DEF Cuts
<1>3. \A n \in Nat : Settle(Swept({}, n)) = NoWindow /\ Swept({}, n) = NoWindow
  BY NothingSwept, NothingSettled
<1>4. Found(NoWindow).ret = "ERR" /\ Found(NoWindow).gap = 0
  BY DEF Found, NoWindow
<1>5. CutOff(NoWindow, "TIMEOUT").gap = 0
  BY DEF CutOff, NoWindow
<1>6. cut.at \in Nat \/ cut = Whole
  BY <1>1, <1>2
<1>7. llffioBECalibrate({}, cut).ret = "ERR"
  BY <1>1, <1>3, <1>4, <1>6 DEF llffioBECalibrate
<1>8. llfCalibrateRxDqsDelayChain({}, cut).gap = 0
  BY <1>1, <1>3, <1>4, <1>5, <1>6 DEF llfCalibrateRxDqsDelayChain
<1> QED BY <1>7, <1>8

\* What a search over the delay of reads says of the writes: where it finds a window they work.
LEMMA SeenFixed ==
    ASSUME NEW r \in RxFixed
    PROVE  r[1] \in BOOLEAN /\ (r[2] = "OK" => r[1])
<1>a. PICK t \in BOOLEAN :
         r \in {<<t, llffioBECalibrate(eye, cut).ret>> : eye \in Seen(t), cut \in Cuts(RxRange)}
  BY DEF RxFixed
<1>1. PICK eye \in Seen(t), cut \in Cuts(RxRange) : r = <<t, llffioBECalibrate(eye, cut).ret>>
  BY <1>a
<1>2. r[1] = t /\ r[2] = llffioBECalibrate(eye, cut).ret
  BY <1>1
<1>3. CASE ~t
  <2>1. eye = {}
    BY <1>3 DEF Seen
  <2>2. r[2] = "ERR"
    BY <1>2, <2>1, NoEye
  <2> QED BY <1>2, <1>3, <2>2
<1> QED BY <1>2, <1>3

LEMMA SeenAuto ==
    ASSUME NEW r \in RxAuto
    PROVE  /\ r[1] \in BOOLEAN
           /\ r[2].ret \in {"OK", "ERR", "TIMEOUT"}
           /\ r[2].gap # 0 => r[1]
<1> DEFINE H(t) == {llfCalibrateRxDqsDelayChain(eye, cut) : eye \in Seen(t), cut \in Cuts(RxRange)}
           G(t) == {<<t, [gap |-> v.gap, ret |-> v.ret]>> : v \in H(t)}
<1>a. RxAuto = UNION {G(t) : t \in BOOLEAN}
  BY DEF RxAuto
<1> HIDE DEF H
<1>b. PICK t \in BOOLEAN : r \in G(t)
  <2> HIDE DEF G
  <2> QED BY <1>a
<1>c. PICK v \in H(t) : r = <<t, [gap |-> v.gap, ret |-> v.ret]>>
  BY <1>b
<1>d. PICK eye \in Seen(t), cut \in Cuts(RxRange) : v = llfCalibrateRxDqsDelayChain(eye, cut)
  BY DEF H
<1>1. r = <<t, [gap |-> llfCalibrateRxDqsDelayChain(eye, cut).gap,
               ret |-> llfCalibrateRxDqsDelayChain(eye, cut).ret]>>
  BY <1>c, <1>d
<1> DEFINE w == llfCalibrateRxDqsDelayChain(eye, cut)
<1>2. \E g, lo, hi : \E res \in {"OK", "ERR", "TIMEOUT"} :
         w = [gap |-> g, min |-> lo, max |-> hi, ret |-> res]
  <2>1. \A s : Found(s) = [gap |-> s.gap, min |-> s.min, max |-> s.max,
                           ret |-> IF s.gap = 0 THEN "ERR" ELSE "OK"]
    BY DEF Found
  <2>2. \A s : CutOff(s, "TIMEOUT") = [gap |-> s.gap, min |-> s.min, max |-> s.max, ret |-> "TIMEOUT"]
    BY DEF CutOff
  <2>3. \E s : w = Found(s) \/ w = CutOff(s, "TIMEOUT")
    BY DEF llfCalibrateRxDqsDelayChain
  <2> QED BY <2>1, <2>2, <2>3
<1> HIDE DEF w
<1>3. r[1] = t /\ r[2] = [gap |-> w.gap, ret |-> w.ret]
  BY <1>1 DEF w
<1>4. r[2].gap = w.gap /\ r[2].ret \in {"OK", "ERR", "TIMEOUT"}
  BY <1>2, <1>3
<1>5. CASE ~t
  <2>1. eye = {}
    BY <1>5 DEF Seen
  <2>2. w.gap = 0
    BY <2>1, NoEye DEF w
  <2> QED BY <1>3, <1>4, <2>2
<1> QED BY <1>3, <1>4, <1>5

\* What a search for the delays of writes says of them is true or false.
LEMMA PlacedFixed ==
    ASSUME NEW o \in TxFixed
    PROVE  o.works \in BOOLEAN
<1>a. PICK eye \in TxEyes, cutDqs \in Cuts(DqsRange), cutDq \in Cuts(DqRange) :
         o \in llfCalibrateTxDelayChain(eye, cutDqs, cutDq)
  BY DEF TxFixed
<1>1. \A ret, e, d : \A x \in Placed(ret, e, d) : x.works \in BOOLEAN
  <2> SUFFICES ASSUME NEW ret, NEW e, NEW d, NEW x \in Placed(ret, e, d)
               PROVE  x.works \in BOOLEAN
    OBVIOUS
  <2>1. x = [ret |-> ret, works |-> d \in e]
    BY DEF Placed
  <2>2. CASE d \in e
    BY <2>1, <2>2
  <2>3. CASE d \notin e
    BY <2>1, <2>3
  <2> QED BY <2>2, <2>3
<1>2. \A ret, e, d : \A x \in PlacedDq(ret, e, d) : x.works \in BOOLEAN
  BY <1>1 DEF PlacedDq
<1>3. \A x \in Refused : x.works \in BOOLEAN
  <2> SUFFICES ASSUME NEW x \in Refused
               PROVE  x.works \in BOOLEAN
    OBVIOUS
  <2>1. x = [ret |-> "ERR", works |-> FALSE]
    BY DEF Refused
  <2>2. x.works = FALSE
    BY <2>1
  <2> QED BY <2>2, Zenon
<1>4. \/ \E ret, d : o \in Placed(ret, eye, d)
      \/ \E ret, d : o \in PlacedDq(ret, eye, d)
      \/ o \in Refused
  BY <1>a, Zenon DEF llfCalibrateTxDelayChain
<1> QED BY <1>1, <1>2, <1>3, <1>4, Zenon

LEMMA PlacedAuto ==
    ASSUME NEW r \in TxAuto
    PROVE  r[2].works \in BOOLEAN
<1> DEFINE G(d) == {<<d, o>> : o \in UNION {PlaceAuto(eye, d, cutDqs, cutDq) :
                       eye \in TxEyes, cutDqs \in Cuts(DqsRange), cutDq \in Cuts(DqRange)}}
<1>a. PICK d \in BOOLEAN, eye \in TxEyes, cutDqs \in Cuts(DqsRange), cutDq \in Cuts(DqRange) :
         \E o \in PlaceAuto(eye, d, cutDqs, cutDq) : r = <<d, o>>
  BY DEF TxAuto
<1>b. PICK o \in PlaceAuto(eye, d, cutDqs, cutDq) : r = <<d, o>>
  BY <1>a
<1>1. \A e, n : \A x \in Passes(e, n) : x.works \in BOOLEAN
  <2> SUFFICES ASSUME NEW e, NEW n, NEW x \in Passes(e, n)
               PROVE  x.works \in BOOLEAN
    OBVIOUS
  <2>1. x = [step |-> "pass", works |-> n \in e]
    BY DEF Passes
  <2>2. CASE n \in e
    BY <2>1, <2>2
  <2>3. CASE n \notin e
    BY <2>1, <2>3
  <2> QED BY <2>2, <2>3
<1>2. \A st : \A x \in Fails(st) : x.works \in BOOLEAN
  <2> SUFFICES ASSUME NEW st, NEW x \in Fails(st)
               PROVE  x.works \in BOOLEAN
    OBVIOUS
  <2>1. x = [step |-> st, works |-> FALSE]
    BY DEF Fails
  <2>2. x.works = FALSE
    BY <2>1
  <2> QED BY <2>2, Zenon
<1>3. \/ \E n : o \in Passes(eye, n)
      \/ o \in Fails("break") \/ o \in Fails("continue")
  BY <1>b, Zenon DEF PlaceAuto
<1>4. o.works \in BOOLEAN
  BY <1>1, <1>2, <1>3, Zenon
<1> QED BY <1>b, <1>4

CalPcs == {"init", "speed", "tx", "write", "rx", "record", "timing", "ok", "error", "assert"}
Flags == [CalBank -> BOOLEAN]

CalRecord ==
    [kind : {"fixed", "auto"}, via : {"CALIBRATE", "ALL"}, all : BOOLEAN, pipe : BOOLEAN,
     dqSet : BOOLEAN, intel : BOOLEAN, pc : CalPcs, bank : CalBank, msgs : BOOLEAN, tx : Flags,
     rx : Flags, KSpeedIndex : Nat, KBankIndex : CalBank, good : SUBSET (Nat \X CalBank),
     driving : Nat, passed : Nat, count : Nat, result : Flags, saved : Flags,
     ret : {"OK", "ERR", "TIMEOUT"}]

\* Of the banks that count, b is one: under BE_LLF_ALL only the last.
Counts(c, b) == c.via = "CALIBRATE" \/ b = LastBank

Works(c, b) == c.tx[b] /\ c.rx[b]

\* The speeds done are recorded.
Recorded(c) ==
    \A s \in 1 .. Speeds, b \in CalBank : s > c.KSpeedIndex /\ Counts(c, b) => <<s, b>> \in c.good

\* The banks before the one in work do.
SoGood(c) ==
    c.via = "CALIBRATE" /\ ~c.msgs =>
        c.bank = c.KBankIndex /\ \A b \in CalBank : b < c.bank => Works(c, b)

\* The fixed calibration: the speeds behind the one in work are recorded; of that in work the
\* banks before the one in work do, unless there is a message, and then it cannot end well
\* under BE_LLF_CALIBRATE.
FixedOk(c) ==
    /\ c.pc # "timing"
    /\ c.pc \notin {"tx", "rx", "error"} => c.KBankIndex = 0
    /\ c.pc = "write" => c.bank = 0
    /\ c.pc \in {"tx", "rx"} => c.KBankIndex <= c.bank
    /\ c.pc \in {"tx", "write", "rx", "record"} => c.KSpeedIndex > 0
    /\ c.pc = "rx" => SoGood(c)
    /\ c.pc = "record" => \A b \in CalBank : Counts(c, b) => Works(c, b)
    /\ c.pc = "ok" => c.KSpeedIndex = 0
    /\ Recorded(c)

\* The automatic one: a read comes back only where the writes work; the banks the trial in work
\* has passed do, and those of a driving that was saved.
AutoOk(c) ==
    /\ c.pc \notin {"speed", "record"}
    /\ c.pc \notin {"rx", "ok", "error", "assert"} => \A b \in CalBank : ~c.rx[b]
    /\ c.pc = "rx" =>
         /\ \A b \in CalBank : (c.rx[b] => c.tx[b]) /\ (b < c.bank => c.rx[b])
         /\ c.count <= c.bank
         /\ c.passed > 0 => \A b \in CalBank : c.tx[b]
         /\ c.passed > 1 => \A b \in CalBank : c.saved[b]
    /\ c.pc = "ok" => \A b \in CalBank : Works(c, b)

CalOk(c) ==
    /\ c \in CalRecord
    /\ IF c.kind = "fixed" THEN FixedOk(c) ELSE AutoOk(c)

LEMMA CalBanksAre == 0 \in CalBank /\ LastBank \in CalBank /\ LastBank \in Nat
                     /\ (\A b \in CalBank : b \in Nat /\ b <= LastBank)
                     /\ (\A b \in CalBank : b < LastBank => b + 1 \in CalBank)
                     /\ LastBank + 1 = CalBanks /\ None \in Flags /\ Junk = Flags
BY CalibrateAssumption DEF CalBank, LastBank, None, Flags, Junk

LEMMA CalBegins == CalInit => CalOk(cal)
<1> SUFFICES ASSUME CalInit PROVE CalOk(cal)
  OBVIOUS
<1> DEFINE start(kind, via, all, pipe, dqSet, intel) ==
          [kind |-> kind, via |-> via, all |-> all, pipe |-> pipe, dqSet |-> dqSet, intel |-> intel,
           pc |-> "init", bank |-> 0, msgs |-> FALSE, tx |-> None, rx |-> None,
           KSpeedIndex |-> Speeds, KBankIndex |-> 0, good |-> {},
           driving |-> 1, passed |-> 0, count |-> 0, result |-> None, saved |-> None,
           ret |-> "OK"]
<1>0. \E kind \in {"fixed", "auto"}, via \in {"CALIBRATE", "ALL"}, all, pipe, dqSet, intel \in BOOLEAN :
         /\ kind = "fixed" => ~all /\ ~pipe /\ ~dqSet
         /\ kind = "auto" => ~intel
         /\ cal = start(kind, via, all, pipe, dqSet, intel)
  BY DEF CalInit
<1>1. PICK kind \in {"fixed", "auto"}, via \in {"CALIBRATE", "ALL"}, all, pipe, dqSet, intel \in BOOLEAN :
         cal = start(kind, via, all, pipe, dqSet, intel)
  <2> HIDE DEF start
  <2> QED BY <1>0
<1>2. Speeds \in Nat /\ 0 \in CalBank /\ None \in Flags /\ "init" \in CalPcs
  BY CalibrateAssumption, CalBanksAre DEF CalPcs
<1>3. cal \in CalRecord
  BY <1>1, <1>2 DEF CalRecord
<1>4. cal.pc = "init" /\ cal.KBankIndex = 0 /\ cal.KSpeedIndex = Speeds /\ cal.rx = None
  BY <1>1
<1>5. FixedOk(cal)
  BY <1>2, <1>4 DEF FixedOk, Recorded
<1>6. AutoOk(cal)
  BY <1>4 DEF AutoOk, None
<1> QED BY <1>3, <1>5, <1>6 DEF CalOk

LEMMA ErrorOk == ASSUME NEW c \in CalRecord, c.kind = "fixed" => Recorded(c)
                 PROVE  CalOk(Error(c))
<1> DEFINE e == Error(c)
<1>1. e = [c EXCEPT !.pc = "error"]
  BY DEF Error
<1>2. e \in CalRecord
  BY <1>1 DEF CalRecord, CalPcs
<1>3. /\ e.pc = "error" /\ e.kind = c.kind /\ e.KSpeedIndex = c.KSpeedIndex /\ e.good = c.good
      /\ e.via = c.via
  BY <1>1 DEF CalRecord
<1> HIDE DEF e
<1>4. c.kind = "fixed" => FixedOk(e)
  BY <1>3 DEF FixedOk, Recorded, Counts
<1>5. AutoOk(e)
  BY <1>3 DEF AutoOk
<1> QED BY <1>2, <1>3, <1>4, <1>5 DEF CalOk, e

LEMMA FixedBankOk ==
    ASSUME NEW c \in CalRecord, NEW good \in BOOLEAN, c.kind = "fixed", c.pc \in {"tx", "rx"},
           c.KBankIndex <= c.bank, c.KSpeedIndex > 0, Recorded(c),
           c.pc = "rx" => SoGood(c) /\ (good => Works(c, c.bank))
    PROVE  CalOk(FixedBank(c, good))
<1> DEFINE n == FixedBank(c, good)
<1>0. /\ c.bank \in CalBank /\ c.KBankIndex \in CalBank /\ c.bank \in Nat /\ c.KBankIndex \in Nat
      /\ c.bank <= LastBank /\ c.KBankIndex <= LastBank /\ c.msgs \in BOOLEAN
  BY CalBanksAre DEF CalRecord
<1>1. CASE good /\ c.KBankIndex < LastBank
  <2> DEFINE k == c.KBankIndex + 1
             m == IF c.via = "ALL" THEN FALSE ELSE c.msgs
             d == [c EXCEPT !.KBankIndex = k]
  <2>1. k \in CalBank /\ k \in Nat /\ m \in BOOLEAN
    BY <1>0, <1>1, CalBanksAre
  <2>2. d \in CalRecord /\ d.KBankIndex = k /\ d.via = c.via /\ d.msgs = c.msgs
    <3> HIDE DEF k
    <3> QED BY <2>1 DEF CalRecord
  <2>3. n = [d EXCEPT !.bank = k, !.msgs = m]
    <3>1. n = Return(d)
      BY <1>1 DEF FixedBank
    <3> HIDE DEF d, k, n
    <3> QED BY <2>2, <3>1 DEF Return
  <2>4. /\ n \in CalRecord /\ n.kind = c.kind /\ n.via = c.via /\ n.pc = c.pc /\ n.bank = k
        /\ n.KBankIndex = k /\ n.msgs = m /\ n.tx = c.tx /\ n.rx = c.rx /\ n.good = c.good
        /\ n.KSpeedIndex = c.KSpeedIndex
    <3>1. d.kind = c.kind /\ d.pc = c.pc /\ d.tx = c.tx /\ d.rx = c.rx /\ d.good = c.good
          /\ d.KSpeedIndex = c.KSpeedIndex
      <4> HIDE DEF k
      <4> QED BY DEF CalRecord
    <3> HIDE DEF d, k, m, n
    <3> QED BY <2>1, <2>2, <2>3, <3>1 DEF CalRecord
  <2>5. Recorded(n)
    BY <2>4 DEF Recorded, Counts
  <2>6. n.pc = "rx" => SoGood(n)
    <3> SUFFICES ASSUME c.pc = "rx", c.via = "CALIBRATE", ~c.msgs
                 PROVE  \A b \in CalBank : b < k => Works(n, b)
      BY <2>4 DEF SoGood
    <3>1. c.bank = c.KBankIndex /\ \A b \in CalBank : b < c.bank => Works(c, b)
      BY DEF SoGood
    <3>2. Works(c, c.bank)
      BY <1>1
    <3>3. \A b \in CalBank : b < k => b < c.bank \/ b = c.bank
      BY <1>0, <3>1, CalBanksAre
    <3> QED BY <2>4, <3>1, <3>2, <3>3 DEF Works
  <2> HIDE DEF n, k, m, d
  <2>7. FixedOk(n)
    BY <2>1, <2>4, <2>5, <2>6 DEF FixedOk
  <2> QED BY <2>4, <2>7 DEF CalOk, n
<1>2. CASE ~good /\ c.bank < LastBank
  <2> DEFINE k == c.bank + 1
  <2>1. k \in CalBank /\ k \in Nat
    BY <1>0, <1>2, CalBanksAre
  <2>2. n = [c EXCEPT !.bank = k, !.msgs = TRUE]
    BY <1>2 DEF FixedBank
  <2> HIDE DEF k
  <2>3. /\ n \in CalRecord /\ n.kind = c.kind /\ n.via = c.via /\ n.pc = c.pc /\ n.bank = k
        /\ n.KBankIndex = c.KBankIndex /\ n.msgs /\ n.tx = c.tx /\ n.rx = c.rx /\ n.good = c.good
        /\ n.KSpeedIndex = c.KSpeedIndex
    <3> HIDE DEF n
    <3> QED BY <2>1, <2>2 DEF CalRecord
  <2> HIDE DEF n
  <2>4. Recorded(n) /\ SoGood(n)
    BY <2>3 DEF Recorded, Counts, SoGood
  <2>5. FixedOk(n)
    BY <1>0, <2>1, <2>3, <2>4 DEF FixedOk, k
  <2> QED BY <2>3, <2>5 DEF CalOk, n
<1>3. CASE ~(good /\ c.KBankIndex < LastBank) /\ ~(~good /\ c.bank < LastBank) /\ (~good \/ c.msgs)
  <2>1. n = Error(c)
    BY <1>3, Zenon DEF FixedBank
  <2> QED BY <2>1, ErrorOk
<1>4. CASE ~(good /\ c.KBankIndex < LastBank) /\ good /\ ~c.msgs
  <2> DEFINE q == AfterBanks[c.pc]
  <2>1. n = [c EXCEPT !.KBankIndex = 0, !.bank = 0, !.pc = q]
    BY <1>4 DEF FixedBank
  <2>2. (c.pc = "tx" => q = "write") /\ (c.pc = "rx" => q = "record")
    BY DEF AfterBanks
  <2>3. q \in {"write", "record"} /\ q \in CalPcs
    BY <2>2 DEF CalPcs
  <2> HIDE DEF q, n
  <2>4. /\ n \in CalRecord /\ n.kind = c.kind /\ n.via = c.via /\ n.pc = q /\ n.bank = 0
        /\ n.KBankIndex = 0 /\ n.tx = c.tx /\ n.rx = c.rx /\ n.good = c.good
        /\ n.KSpeedIndex = c.KSpeedIndex
    BY <2>1, <2>3, CalBanksAre DEF CalRecord
  <2>5. Recorded(n)
    BY <2>4 DEF Recorded, Counts
  <2>6. c.bank = LastBank
    BY <1>0, <1>4, CalBanksAre
  <2>7. ASSUME q = "record", NEW b \in CalBank, Counts(n, b)
        PROVE  Works(n, b)
    <3>1. c.pc = "rx" /\ Works(c, LastBank) /\ SoGood(c)
      BY <1>4, <2>2, <2>6, <2>7
    <3>2. CASE b = LastBank
      BY <2>4, <3>1, <3>2 DEF Works
    <3>3. CASE b # LastBank /\ c.via = "CALIBRATE"
      <4>1. b < c.bank
        BY <2>6, <3>3, CalBanksAre
      <4> QED BY <1>4, <2>4, <3>1, <3>3, <4>1 DEF Works, SoGood
    <3> QED BY <2>4, <2>7, <3>2, <3>3 DEF Counts
  <2>8. FixedOk(n)
    BY <2>3, <2>4, <2>5, <2>7 DEF FixedOk
  <2> QED BY <2>4, <2>8 DEF CalOk, n
<1> QED BY <1>1, <1>2, <1>3, <1>4

LEMMA FixedSteps ==
    ASSUME CalOk(cal), FixedNext
    PROVE  CalOk(cal')
<1>0. cal \in CalRecord /\ (cal.kind = "fixed" => FixedOk(cal)) /\ (cal.kind # "fixed" => AutoOk(cal))
  BY DEF CalOk
<1>e. CalOk(Error(cal))
  BY <1>0, ErrorOk DEF FixedOk
<1>t. /\ cal.bank \in CalBank /\ cal.KBankIndex \in CalBank /\ cal.tx \in Flags /\ cal.rx \in Flags
      /\ cal.KSpeedIndex \in Nat /\ cal.good \in SUBSET (Nat \X CalBank)
      /\ cal.msgs \in BOOLEAN /\ cal.kind \in {"fixed", "auto"}
  BY <1>0 DEF CalRecord
<1>1. ASSUME IntelFeature
      PROVE  CalOk(cal')
  <2>1. cal.pc = "init"
    BY <1>1 DEF IntelFeature
  <2>2. CASE cal' = Error(cal)
    BY <1>e, <2>2
  <2>3. CASE cal' = [cal EXCEPT !.msgs = TRUE] \/ cal' = [cal EXCEPT !.intel = FALSE]
    <3>1. /\ cal' \in CalRecord /\ cal'.kind = cal.kind /\ cal'.via = cal.via /\ cal'.pc = cal.pc
          /\ cal'.KBankIndex = cal.KBankIndex /\ cal'.rx = cal.rx /\ cal'.good = cal.good
          /\ cal'.KSpeedIndex = cal.KSpeedIndex
      BY ZenonT(40), <1>0, <2>3 DEF CalRecord
    <3>2. FixedOk(cal) => FixedOk(cal')
      BY <2>1, <3>1 DEF FixedOk, Recorded, Counts
    <3>3. AutoOk(cal) => AutoOk(cal')
      BY <2>1, <3>1 DEF AutoOk
    <3> QED BY <1>0, <3>1, <3>2, <3>3 DEF CalOk
  <2> QED BY <1>1, <2>2, <2>3 DEF IntelFeature
<1>2. ASSUME FixedStart
      PROVE  CalOk(cal')
  <2>1. CASE cal' = [cal EXCEPT !.pc = "speed"]
    <3>1. /\ cal' \in CalRecord /\ cal'.kind = cal.kind /\ cal'.via = cal.via /\ cal'.pc = "speed"
          /\ cal'.KBankIndex = cal.KBankIndex /\ cal'.good = cal.good
          /\ cal'.KSpeedIndex = cal.KSpeedIndex
      BY <1>0, <2>1 DEF CalRecord, CalPcs
    <3>2. cal.kind = "fixed" /\ cal.pc = "init"
      BY <1>2 DEF FixedStart
    <3> QED BY <1>0, <3>1, <3>2 DEF CalOk, FixedOk, Recorded, Counts
  <2> QED BY <1>2, <1>e, <2>1 DEF FixedStart
<1>f. cal.pc \in {"speed", "record"} => cal.kind = "fixed"
  BY <1>0 DEF AutoOk
<1>3. ASSUME FixedSpeed
      PROVE  CalOk(cal')
  <2>1. CASE cal' = [cal EXCEPT !.pc = "tx", !.bank = 0, !.tx = None, !.rx = None]
    <3>1. /\ cal' \in CalRecord /\ cal'.kind = cal.kind /\ cal'.via = cal.via /\ cal'.pc = "tx"
          /\ cal'.bank = 0 /\ cal'.KBankIndex = cal.KBankIndex /\ cal'.good = cal.good
          /\ cal'.KSpeedIndex = cal.KSpeedIndex
      BY <1>0, <2>1, CalBanksAre DEF CalRecord, CalPcs
    <3>2. cal.kind = "fixed" /\ cal.pc = "speed" /\ cal.KSpeedIndex > 0
      BY <1>3, <1>f DEF FixedSpeed
    <3>3. cal.KBankIndex = 0 /\ Recorded(cal)
      BY <1>0, <3>2 DEF FixedOk
    <3>4. Recorded(cal')
      BY <3>1, <3>3 DEF Recorded, Counts
    <3> QED BY <3>1, <3>2, <3>3, <3>4 DEF CalOk, FixedOk
  <2> QED BY <1>3, <1>e, <2>1 DEF FixedSpeed
<1>4. ASSUME FixedDone
      PROVE  CalOk(cal')
  <2>1. cal' = [cal EXCEPT !.pc = "ok"]
    BY <1>4 DEF FixedDone
  <2>2. /\ cal' \in CalRecord /\ cal'.kind = cal.kind /\ cal'.via = cal.via /\ cal'.pc = "ok"
        /\ cal'.KBankIndex = cal.KBankIndex /\ cal'.good = cal.good
        /\ cal'.KSpeedIndex = cal.KSpeedIndex
    BY <1>0, <2>1 DEF CalRecord, CalPcs
  <2>3. cal.kind = "fixed" /\ cal.pc = "speed" /\ cal.KSpeedIndex = 0
    BY <1>4, <1>f DEF FixedDone
  <2>4. cal.KBankIndex = 0 /\ Recorded(cal)
    BY <1>0, <2>3 DEF FixedOk
  <2>5. Recorded(cal')
    BY <2>2, <2>4 DEF Recorded, Counts
  <2> QED BY <2>2, <2>3, <2>4, <2>5 DEF CalOk, FixedOk
<1>5. ASSUME FixedTx
      PROVE  CalOk(cal')
  <2>1. PICK o \in TxFixed : cal' = FixedBank([cal EXCEPT !.tx[cal.bank] = o.works], o.ret = "OK")
    BY <1>5 DEF FixedTx
  <2> DEFINE t == [cal.tx EXCEPT ![cal.bank] = o.works]
             c == [cal EXCEPT !.tx[cal.bank] = o.works]
  <2>2. t \in Flags
    BY <1>t, PlacedFixed DEF Flags
  <2>3. c = [cal EXCEPT !.tx = t]
    BY <1>0 DEF CalRecord
  <2> HIDE DEF t, c
  <2>4. /\ c \in CalRecord /\ c.kind = cal.kind /\ c.via = cal.via /\ c.pc = cal.pc
        /\ c.bank = cal.bank /\ c.KBankIndex = cal.KBankIndex /\ c.good = cal.good
        /\ c.KSpeedIndex = cal.KSpeedIndex
    BY <1>0, <2>2, <2>3 DEF CalRecord
  <2>5. cal.kind = "fixed" /\ cal.pc = "tx"
    BY <1>5 DEF FixedTx
  <2>6. cal.KBankIndex <= cal.bank /\ cal.KSpeedIndex > 0 /\ Recorded(cal)
    BY <1>0, <2>5 DEF FixedOk
  <2>7. Recorded(c)
    BY <2>4, <2>6 DEF Recorded, Counts
  <2>8. cal' = FixedBank(c, o.ret = "OK") /\ (o.ret = "OK") \in BOOLEAN
    BY <2>1 DEF c
  <2>9. c.kind = "fixed" /\ c.pc = "tx" /\ c.KBankIndex <= c.bank /\ c.KSpeedIndex > 0
    BY <2>4, <2>5, <2>6
  <2> QED BY <2>4, <2>7, <2>8, <2>9, FixedBankOk
<1>6. ASSUME FixedWrite
      PROVE  CalOk(cal')
  <2>1. CASE cal' = [cal EXCEPT !.pc = "rx"]
    <3>1. /\ cal' \in CalRecord /\ cal'.kind = cal.kind /\ cal'.via = cal.via /\ cal'.pc = "rx"
          /\ cal'.bank = cal.bank /\ cal'.KBankIndex = cal.KBankIndex /\ cal'.good = cal.good
          /\ cal'.KSpeedIndex = cal.KSpeedIndex
      BY <1>0, <2>1 DEF CalRecord, CalPcs
    <3>2. cal.kind = "fixed" /\ cal.pc = "write"
      BY <1>6 DEF FixedWrite
    <3>3. cal.KBankIndex = 0 /\ cal.bank = 0 /\ cal.KSpeedIndex > 0 /\ Recorded(cal)
      BY <1>0, <3>2 DEF FixedOk
    <3>4. Recorded(cal')
      BY <3>1, <3>3 DEF Recorded, Counts
    <3>5. SoGood(cal')
      BY <3>1, <3>3, CalBanksAre DEF SoGood
    <3> QED BY <3>1, <3>2, <3>3, <3>4, <3>5 DEF CalOk, FixedOk
  <2> QED BY <1>6, <1>e, <2>1 DEF FixedWrite
<1>7. ASSUME FixedRx
      PROVE  CalOk(cal')
  <2>1. PICK r \in RxFixed :
           /\ r[1] = cal.tx[cal.bank]
           /\ cal' = FixedBank([cal EXCEPT !.rx[cal.bank] = r[2] = "OK"], r[2] = "OK")
    BY <1>7 DEF FixedRx
  <2> DEFINE g == (r[2] = "OK")
             t == [cal.rx EXCEPT ![cal.bank] = g]
             c == [cal EXCEPT !.rx[cal.bank] = g]
  <2>2. g \in BOOLEAN
    OBVIOUS
  <2>a. cal' = FixedBank(c, g)
    BY <2>1
  <2>b. g => cal.tx[cal.bank]
    BY <2>1, SeenFixed
  <2> HIDE DEF g
  <2>3. t \in Flags /\ t[cal.bank] = g /\ \A b \in CalBank : b # cal.bank => t[b] = cal.rx[b]
    BY <1>t, <2>2 DEF Flags
  <2>4. c = [cal EXCEPT !.rx = t]
    BY <1>0 DEF CalRecord
  <2> HIDE DEF t, c
  <2>5. /\ c \in CalRecord /\ c.kind = cal.kind /\ c.via = cal.via /\ c.pc = cal.pc
        /\ c.bank = cal.bank /\ c.KBankIndex = cal.KBankIndex /\ c.good = cal.good
        /\ c.KSpeedIndex = cal.KSpeedIndex /\ c.msgs = cal.msgs /\ c.tx = cal.tx /\ c.rx = t
    BY <1>0, <2>3, <2>4 DEF CalRecord
  <2>6. cal.kind = "fixed" /\ cal.pc = "rx"
    BY <1>7 DEF FixedRx
  <2>7. cal.KBankIndex <= cal.bank /\ cal.KSpeedIndex > 0 /\ Recorded(cal) /\ SoGood(cal)
    BY <1>0, <2>6 DEF FixedOk
  <2>8. Recorded(c)
    BY <2>5, <2>7 DEF Recorded, Counts
  <2>9. \A b \in CalBank : b < c.bank => b # cal.bank
    BY <1>t, <2>5, CalBanksAre
  <2>10. SoGood(c)
    BY <2>3, <2>5, <2>7, <2>9 DEF SoGood, Works
  <2>11. g => Works(c, c.bank)
    BY <2>b, <2>3, <2>5 DEF Works
  <2>12. c.kind = "fixed" /\ c.pc = "rx" /\ c.KBankIndex <= c.bank /\ c.KSpeedIndex > 0
    BY <2>5, <2>6, <2>7
  <2> QED BY <2>2, <2>a, <2>5, <2>8, <2>10, <2>11, <2>12, FixedBankOk
<1>8. ASSUME FixedRecord
      PROVE  CalOk(cal')
  <2> DEFINE k == cal.KSpeedIndex - 1
             h == cal.good \cup {<<cal.KSpeedIndex, b>> : b \in {c \in CalBank : cal.tx[c] /\ cal.rx[c]}}
             m == IF cal.via = "ALL" THEN FALSE ELSE cal.msgs
             d == [cal EXCEPT !.KSpeedIndex = k, !.pc = "speed", !.good = h]
  <2>1. cal' = Return(d)
    BY <1>8 DEF FixedRecord
  <2>2. cal.kind = "fixed" /\ cal.pc = "record"
    BY <1>8, <1>f DEF FixedRecord
  <2>3. /\ cal.KBankIndex = 0 /\ cal.KSpeedIndex > 0 /\ Recorded(cal)
        /\ \A b \in CalBank : Counts(cal, b) => Works(cal, b)
    BY <1>0, <2>2 DEF FixedOk
  <2>4. k \in Nat /\ h \in SUBSET (Nat \X CalBank) /\ m \in BOOLEAN
    <3>1. k \in Nat
      BY <1>t, <2>3
    <3>2. h \subseteq Nat \X CalBank
      BY <1>t
    <3>3. m \in BOOLEAN
      BY <1>t
    <3> HIDE DEF k, h, m
    <3> QED BY <3>1, <3>2, <3>3
  <2>5. \A b \in CalBank : Counts(cal, b) => <<cal.KSpeedIndex, b>> \in h
    BY <2>3 DEF Works
  <2>6. cal.good \subseteq h
    OBVIOUS
  <2>a. \A s \in Nat : s > k => s = cal.KSpeedIndex \/ s > cal.KSpeedIndex
    BY <1>t
  <2> HIDE DEF k, h
  <2>7. /\ d \in CalRecord /\ d.kind = cal.kind /\ d.via = cal.via /\ d.pc = "speed"
        /\ d.KBankIndex = cal.KBankIndex /\ d.msgs = cal.msgs /\ d.good = h /\ d.KSpeedIndex = k
    BY <1>0, <2>4 DEF CalRecord, CalPcs
  <2> HIDE DEF d, m
  <2>8. cal' = [d EXCEPT !.bank = d.KBankIndex, !.msgs = m]
    BY <2>1, <2>7 DEF Return, m
  <2>9. /\ cal' \in CalRecord /\ cal'.kind = "fixed" /\ cal'.via = cal.via /\ cal'.pc = "speed"
        /\ cal'.KBankIndex = 0 /\ cal'.good = h /\ cal'.KSpeedIndex = k
    BY <1>t, <2>2, <2>3, <2>4, <2>7, <2>8 DEF CalRecord
  <2>10. Recorded(cal')
    BY <2>3, <2>5, <2>6, <2>a, <2>9 DEF Recorded, Counts
  <2> QED BY <2>9, <2>10 DEF CalOk, FixedOk
<1> QED BY <1>1, <1>2, <1>3, <1>4, <1>5, <1>6, <1>7, <1>8, FixedNext DEF FixedNext

----------------------------------------------------------------------------
\* What a trial has shown when it ends: nothing unless it was through with all banks.
TrialOk(c) ==
    /\ c \in CalRecord /\ c.kind = "auto" /\ c.pc = "rx"
    /\ \A b \in CalBank : c.rx[b] => c.tx[b]
    /\ c.count >= CalBanks => \A b \in CalBank : c.rx[b]
    /\ c.ret = "OK" /\ (\A b \in CalBank : c.result[b]) => \A b \in CalBank : c.rx[b]
    /\ c.passed > 0 => \A b \in CalBank : c.tx[b]
    /\ c.passed > 1 => \A b \in CalBank : c.saved[b]

LEMMA TriedOk ==
    ASSUME NEW c \in CalRecord
    PROVE  /\ Tried(c) \in CalRecord /\ Tried(c).pc = c.pc /\ Tried(c).kind = c.kind
           /\ Tried(c).tx = c.tx /\ Tried(c).rx = c.rx /\ Tried(c).result = c.result
           /\ Tried(c).passed >= c.passed
           /\ Tried(c).via = c.via /\ Tried(c).driving = c.driving
<1> DEFINE t == Tried(c)
           f == IF c.pc = "tx" THEN c.tx ELSE c.rx
           v == IF c.passed = 1 THEN f ELSE c.saved
           e == IF c.passed = 1 THEN "OK" ELSE c.ret
<1>1. CASE c.count < CalBanks
  <2>1. t = c
    BY <1>1 DEF Tried
  <2> HIDE DEF t
  <2>2. c.passed \in Nat
    BY DEF CalRecord
  <2>3. /\ t \in CalRecord /\ t.pc = c.pc /\ t.kind = c.kind
        /\ t.tx = c.tx /\ t.rx = c.rx /\ t.result = c.result
        /\ t.passed >= c.passed
        /\ t.via = c.via /\ t.driving = c.driving
    BY <2>1, <2>2
  <2> QED BY <2>3 DEF t
<1>2. CASE ~(c.count < CalBanks)
  <2> DEFINE k == c.passed + 1
  <2>1. t = [c EXCEPT !.passed = k, !.saved = v, !.ret = e]
    BY <1>2 DEF Tried
  <2>2. v \in Flags /\ e \in {"OK", "ERR", "TIMEOUT"} /\ c.passed \in Nat /\ k \in Nat
    BY DEF CalRecord
  <2> HIDE DEF t, v, e
  <2>3. t \in CalRecord
    <3> HIDE DEF k
    <3> DEFINE d1 == [c EXCEPT !.passed = k]
               d2 == [d1 EXCEPT !.saved = v]
    <3>1. d1 \in CalRecord
      BY <2>2 DEF CalRecord
    <3> HIDE DEF d1
    <3>2. d2 \in CalRecord
      BY <2>2, <3>1 DEF CalRecord
    <3> HIDE DEF d2
    <3>3. [d2 EXCEPT !.ret = e] \in CalRecord
      BY <2>2, <3>2 DEF CalRecord
    <3>4. t = [d2 EXCEPT !.ret = e]
      BY <2>1 DEF d1, d2
    <3> QED BY <3>3, <3>4
  <2>4. t.passed = c.passed + 1
    BY <2>1 DEF CalRecord
  <2>5. /\ t.pc = c.pc /\ t.kind = c.kind
        /\ t.tx = c.tx /\ t.rx = c.rx /\ t.result = c.result
        /\ t.via = c.via /\ t.driving = c.driving
    BY <2>1 DEF CalRecord
  <2>6. t.passed >= c.passed
    BY <2>2, <2>4
  <2> QED BY <2>3, <2>5, <2>6 DEF t
<1> QED BY <1>1, <1>2

\* The trial that counts leaves a driving that is saved, or nothing.
LEMMA TriedTrial ==
    ASSUME NEW c, TrialOk(c)
    PROVE  TrialOk(Tried(c))
<1> DEFINE t == Tried(c)
<1>0. /\ c \in CalRecord /\ c.pc = "rx" /\ c.kind = "auto" /\ c.passed \in Nat /\ c.count \in Nat
      /\ t \in CalRecord /\ t.pc = c.pc /\ t.kind = c.kind
      /\ t.tx = c.tx /\ t.rx = c.rx /\ t.result = c.result
  BY TriedOk DEF TrialOk, CalRecord
<1>1. CASE c.count < CalBanks
  <2>1. t = c
    BY <1>1 DEF Tried
  <2> QED BY <2>1
<1>2. CASE ~(c.count < CalBanks)
  <2>1. \A b \in CalBank : c.rx[b] /\ c.tx[b]
    BY <1>0, <1>2, CalibrateAssumption DEF TrialOk
  <2>2. t = [c EXCEPT !.passed = c.passed + 1,
                      !.saved = IF c.passed = 1 THEN (IF c.pc = "tx" THEN c.tx ELSE c.rx) ELSE c.saved,
                      !.ret = IF c.passed = 1 THEN "OK" ELSE c.ret]
    BY <1>2 DEF Tried
  <2>3. t.saved = IF c.passed = 1 THEN c.rx ELSE c.saved
    BY <1>0, <2>2 DEF CalRecord
  <2>4. t.passed = c.passed + 1 /\ t.count = c.count
    BY <1>0, <2>2 DEF CalRecord
  <2> HIDE DEF t
  <2>5. t.passed > 1 => \A b \in CalBank : t.saved[b]
    <3>1. CASE c.passed = 1
      BY <2>1, <2>3, <3>1
    <3>2. CASE c.passed # 1
      BY <1>0, <2>3, <2>4, <3>2 DEF TrialOk
    <3> QED BY <3>1, <3>2
  <2>6. \A b \in CalBank : t.rx[b] /\ t.tx[b]
    BY <1>0, <2>1
  <2>7. TrialOk(t)
    BY <1>0, <2>5, <2>6 DEF TrialOk
  <2> QED BY <2>7 DEF t
<1> QED BY <1>1, <1>2

\* The trial of the next driving begins.
LEMMA TrialBegins ==
    ASSUME NEW c \in CalRecord, NEW k \in Nat
    PROVE  LET n == [Trial(c, k) EXCEPT !.tx = IF c.pc = "tx" THEN None ELSE @, !.rx = None]
           IN  /\ n \in CalRecord /\ n.pc = c.pc /\ n.kind = c.kind /\ n.rx = None /\ n.bank = 0
               /\ n.count = 0 /\ n.passed = c.passed /\ n.saved = c.saved /\ n.via = c.via
               /\ n.tx = IF c.pc = "tx" THEN None ELSE c.tx
<1> DEFINE d == Trial(c, k)
           x == IF c.pc = "tx" THEN None ELSE c.tx
           n == [d EXCEPT !.tx = IF c.pc = "tx" THEN None ELSE @, !.rx = None]
<1>1. d = [c EXCEPT !.driving = k, !.bank = 0, !.count = 0]
  BY DEF Trial
<1>2. /\ d \in CalRecord /\ d.pc = c.pc /\ d.kind = c.kind /\ d.bank = 0 /\ d.count = 0
      /\ d.passed = c.passed /\ d.saved = c.saved /\ d.via = c.via /\ d.tx = c.tx
  <2> HIDE DEF d
  <2> QED BY <1>1, CalBanksAre DEF CalRecord
<1>3. x \in Flags
  BY CalBanksAre DEF CalRecord
<1> HIDE DEF d, x
<1>4. n = [d EXCEPT !.tx = x, !.rx = None]
  BY <1>2 DEF x
<1> HIDE DEF n
<1>5. /\ n \in CalRecord /\ n.pc = c.pc /\ n.kind = c.kind /\ n.rx = None /\ n.bank = 0
      /\ n.count = 0 /\ n.passed = c.passed /\ n.saved = c.saved /\ n.via = c.via
      /\ n.tx = x
  BY <1>2, <1>3, <1>4, CalBanksAre DEF CalRecord
<1> QED BY <1>5 DEF n, d, x

LEMMA EndsOk ==
    ASSUME NEW c, TrialOk(c), ~Blamed(c)
    PROVE  CalOk(RxEnds(c))
<1> DEFINE x == IF c.passed >= 2 THEN c.saved ELSE c.rx
           q == IF c.ret = "OK" THEN "ok" ELSE IF c.via = "ALL" THEN "assert" ELSE "error"
           n == RxEnds(c)
<1>1. c \in CalRecord /\ c.passed \in Nat /\ c.kind = "auto"
  BY DEF TrialOk, CalRecord
<1>2. x \in Flags /\ q \in CalPcs
  BY <1>1 DEF CalRecord, CalPcs
<1>3. n = [c EXCEPT !.rx = x, !.pc = q]
  BY <1>1 DEF RxEnds
<1>4. ASSUME q = "ok"
      PROVE  \A b \in CalBank : c.tx[b] /\ x[b]
  <2>1. CASE c.passed >= 2
    BY <1>1, <2>1 DEF TrialOk
  <2>2. CASE ~(c.passed >= 2)
    <3>1. \A b \in CalBank : c.result[b]
      BY <1>1, <2>2 DEF Blamed
    <3>2. c.ret = "OK"
      BY <1>4
    <3> QED BY <2>2, <3>1, <3>2 DEF TrialOk
  <2> QED BY <2>1, <2>2
<1>5. q \in {"ok", "assert", "error"}
  OBVIOUS
<1> HIDE DEF x, q, n
<1>6. n \in CalRecord /\ n.kind = "auto" /\ n.pc = q /\ n.tx = c.tx /\ n.rx = x
  BY <1>1, <1>2, <1>3 DEF CalRecord
<1>7. AutoOk(n)
  BY <1>4, <1>5, <1>6 DEF AutoOk, Works
<1> QED BY <1>6, <1>7 DEF CalOk, n

\* After a trial of the reads.
LEMMA NextDrivingRx ==
    ASSUME NEW c, TrialOk(c)
    PROVE  CalOk(NextDriving(c))
<1> DEFINE t == Tried(c)
           k == t.driving + 1
           n == [Trial(t, k) EXCEPT !.tx = IF t.pc = "tx" THEN None ELSE @, !.rx = None]
<1>1. TrialOk(t)
  BY TriedTrial
<1>2. t \in CalRecord /\ t.pc = "rx" /\ t.kind = "auto" /\ t.driving \in Nat /\ k \in Nat
  BY <1>1 DEF TrialOk, CalRecord
<1> HIDE DEF t
<1>3. CASE NextDriving(c) = n
  <2>1. /\ n \in CalRecord /\ n.pc = "rx" /\ n.kind = "auto" /\ n.rx = None /\ n.bank = 0
        /\ n.count = 0 /\ n.passed = t.passed /\ n.saved = t.saved /\ n.tx = t.tx
    BY <1>2, TrialBegins
  <2> HIDE DEF n
  <2>2. \A b \in CalBank : ~None[b] /\ ~(b < 0)
    BY CalBanksAre DEF None
  <2>3. AutoOk(n)
    BY <1>1, <2>1, <2>2 DEF AutoOk, TrialOk
  <2> QED BY <1>3, <2>1, <2>3 DEF CalOk
<1>4. CASE NextDriving(c) = RxEnds(t) /\ ~Blamed(t)
  BY <1>1, <1>4, EndsOk
<1>5. CASE NextDriving(c) = RxEnds(t) /\ Blamed(t)
  <2>1. NextDriving(c) = Error(t)
    BY <1>5 DEF RxEnds
  <2> QED BY <1>2, <2>1, ErrorOk
<1>6. NextDriving(c) = n \/ NextDriving(c) = RxEnds(t)
  BY <1>2, Zenon DEF NextDriving, t
<1> QED BY <1>3, <1>4, <1>5, <1>6

\* After a trial of the writes.
LEMMA NextDrivingTx ==
    ASSUME NEW c \in CalRecord, c.kind = "auto", c.pc = "tx", \A b \in CalBank : ~c.rx[b]
    PROVE  CalOk(NextDriving(c))
<1> DEFINE t == Tried(c)
           k == t.driving + 1
           n == [Trial(t, k) EXCEPT !.tx = IF t.pc = "tx" THEN None ELSE @, !.rx = None]
<1>1. t \in CalRecord /\ t.pc = "tx" /\ t.kind = "auto" /\ t.rx = c.rx
  BY TriedOk
<1>2. t.driving \in Nat /\ k \in Nat
  BY <1>1 DEF CalRecord
<1> HIDE DEF t
<1>3. CASE NextDriving(c) = n
  <2>1. n \in CalRecord /\ n.pc = "tx" /\ n.kind = "auto" /\ n.rx = None
    BY <1>1, <1>2, TrialBegins
  <2> HIDE DEF n
  <2>2. AutoOk(n)
    BY <2>1 DEF AutoOk, None
  <2> QED BY <1>3, <2>1, <2>2 DEF CalOk
<1>4. CASE NextDriving(c) = TxEnds(t)
  <2> DEFINE x == IF t.passed >= 2 THEN t.saved ELSE t.tx
             m == [t EXCEPT !.pc = "write", !.tx = x]
  <2>1. CASE TxEnds(t) = Error(t)
    BY <1>1, <1>4, <2>1, ErrorOk
  <2>2. CASE TxEnds(t) = m
    <3>1. x \in Flags
      BY <1>1 DEF CalRecord
    <3> HIDE DEF x
    <3>2. m \in CalRecord /\ m.pc = "write" /\ m.kind = "auto" /\ m.rx = c.rx
      BY <1>1, <3>1 DEF CalRecord, CalPcs
    <3> HIDE DEF m
    <3>3. AutoOk(m)
      BY <3>2 DEF AutoOk
    <3> QED BY <1>4, <2>2, <3>2, <3>3 DEF CalOk
  <2>3. TxEnds(t) = Error(t) \/ TxEnds(t) = m
    BY <1>1 DEF TxEnds
  <2> QED BY <2>1, <2>2, <2>3
<1>6. NextDriving(c) = n \/ NextDriving(c) = TxEnds(t)
  BY <1>1, Zenon DEF NextDriving, t
<1> QED BY <1>3, <1>4, <1>6

\* A stage begins.
LEMMA StageBegins ==
    ASSUME NEW c \in CalRecord, NEW q \in CalPcs, NEW junk \in Flags
    PROVE  LET n == [Stage(c, q) EXCEPT !.result = junk]
               m == [Stage(c, q) EXCEPT !.tx = junk]
           IN  /\ n \in CalRecord /\ n.pc = q /\ n.kind = c.kind /\ n.rx = c.rx /\ n.bank = 0
               /\ n.count = 0 /\ n.passed = 0 /\ n.tx = c.tx
               /\ m \in CalRecord /\ m.pc = q /\ m.kind = c.kind /\ m.rx = c.rx
<1> DEFINE d == Trial(c, 1)
           e == Stage(c, q)
           n == [e EXCEPT !.result = junk]
           m == [e EXCEPT !.tx = junk]
<1>1. d = [c EXCEPT !.driving = 1, !.bank = 0, !.count = 0]
  BY DEF Trial
<1>2. e = [d EXCEPT !.pc = q, !.passed = 0, !.ret = "OK"]
  BY DEF Stage
<1> HIDE DEF d, e
<1>3. d \in CalRecord /\ d.kind = c.kind /\ d.rx = c.rx /\ d.tx = c.tx /\ d.bank = 0 /\ d.count = 0
  BY <1>1, CalBanksAre DEF CalRecord
<1>4. /\ e \in CalRecord /\ e.pc = q /\ e.kind = c.kind /\ e.rx = c.rx /\ e.bank = 0
      /\ e.count = 0 /\ e.passed = 0 /\ e.tx = c.tx
  BY <1>2, <1>3 DEF CalRecord
<1>5. /\ n \in CalRecord /\ n.pc = q /\ n.kind = c.kind /\ n.rx = c.rx /\ n.bank = 0
      /\ n.count = 0 /\ n.passed = 0 /\ n.tx = c.tx
  BY <1>4 DEF CalRecord
<1>6. m \in CalRecord /\ m.pc = q /\ m.kind = c.kind /\ m.rx = c.rx
  BY <1>4 DEF CalRecord
<1> HIDE DEF n, m
<1> QED BY <1>5, <1>6 DEF n, m, e

LEMMA AutoSteps ==
    ASSUME CalOk(cal), AutoNext
    PROVE  CalOk(cal')
<1>0. cal \in CalRecord /\ (cal.kind = "fixed" => FixedOk(cal)) /\ (cal.kind # "fixed" => AutoOk(cal))
  BY DEF CalOk
<1>e. CalOk(Error(cal))
  BY <1>0, ErrorOk DEF FixedOk
<1>t. /\ cal.bank \in CalBank /\ cal.tx \in Flags /\ cal.rx \in Flags /\ cal.result \in Flags
      /\ cal.kind \in {"fixed", "auto"} /\ cal.count \in Nat /\ cal.bank \in Nat
  BY <1>0, CalBanksAre DEF CalRecord
<1>p. {"tx", "write", "rx", "timing"} \subseteq CalPcs
  BY DEF CalPcs
<1>1. ASSUME AutoStart
      PROVE  CalOk(cal')
  <2>1. CASE cal' = [cal EXCEPT !.pc = "timing"]
    <3>1. cal' \in CalRecord /\ cal'.kind = cal.kind /\ cal'.pc = "timing" /\ cal'.rx = cal.rx
      BY <1>0, <2>1 DEF CalRecord, CalPcs
    <3>2. cal.kind = "auto" /\ cal.pc = "init"
      BY <1>1 DEF AutoStart
    <3> QED BY <1>0, <3>1, <3>2 DEF CalOk, AutoOk
  <2> QED BY <1>1, <1>e, <2>1 DEF AutoStart
<1>2. ASSUME AutoTiming
      PROVE  CalOk(cal')
  <2>0. cal.pc = "timing" /\ cal.kind = "auto" /\ \A b \in CalBank : ~cal.rx[b]
    <3>1. cal.pc = "timing"
      BY <1>2 DEF AutoTiming
    <3>2. cal.kind # "fixed"
      BY <1>0, <3>1 DEF FixedOk
    <3> QED BY <1>0, <1>t, <3>1, <3>2 DEF AutoOk
  <2>1. ASSUME NEW junk \in Junk, cal' = [Stage(cal, "tx") EXCEPT !.result = junk]
        PROVE  CalOk(cal')
    <3>0. junk \in Flags /\ "tx" \in CalPcs
      BY <1>p, CalBanksAre
    <3>1. cal' \in CalRecord /\ cal'.kind = cal.kind /\ cal'.pc = "tx" /\ cal'.rx = cal.rx
      BY ZenonT(40), <1>0, <3>0, <2>1, StageBegins
    <3> QED BY <2>0, <3>1 DEF CalOk, AutoOk
  <2>2. ASSUME NEW junk \in Junk, cal' = [Stage(cal, "write") EXCEPT !.tx = junk]
        PROVE  CalOk(cal')
    <3>0. junk \in Flags /\ "write" \in CalPcs
      BY <1>p, CalBanksAre
    <3>1. cal' \in CalRecord /\ cal'.kind = cal.kind /\ cal'.pc = "write" /\ cal'.rx = cal.rx
      BY <1>0, <3>0, <2>2, StageBegins
    <3> QED BY <2>0, <3>1 DEF CalOk, AutoOk
  <2> QED BY <1>2, <1>e, <2>1, <2>2 DEF AutoTiming
<1>3. ASSUME AutoTx
      PROVE  CalOk(cal')
  <2>0. cal.kind = "auto" /\ cal.pc = "tx" /\ \A b \in CalBank : ~cal.rx[b]
    BY <1>0, <1>3 DEF AutoTx, AutoOk
  <2>1. PICK r \in TxAuto :
          LET pass == r[2].step = "pass"
              c == [cal EXCEPT !.result[cal.bank] = pass, !.tx[cal.bank] = r[2].works,
                               !.count = IF pass THEN @ + 1 ELSE @]
          IN  cal' = IF r[2].step = "break" THEN NextDriving(c) ELSE NextBankOrDriving(c)
    BY <1>3 DEF AutoTx
  <2> DEFINE pass == r[2].step = "pass"
             t == [cal.tx EXCEPT ![cal.bank] = r[2].works]
             res == [cal.result EXCEPT ![cal.bank] = pass]
             cnt == IF pass THEN cal.count + 1 ELSE cal.count
             c == [cal EXCEPT !.result[cal.bank] = pass, !.tx[cal.bank] = r[2].works,
                              !.count = IF pass THEN @ + 1 ELSE @]
  <2>2. t \in Flags /\ res \in Flags /\ cnt \in Nat
    BY <1>t, PlacedAuto DEF Flags
  <2>3. c = [cal EXCEPT !.result = res, !.tx = t, !.count = cnt]
    <3> HIDE DEF pass
    <3> QED BY <1>0 DEF CalRecord
  <2>4. cal' = NextDriving(c) \/ cal' = NextBankOrDriving(c)
    <3> HIDE DEF c
    <3> QED BY <2>1 DEF c
  <2> HIDE DEF t, res, cnt, c, pass
  <2>5. c \in CalRecord /\ c.kind = "auto" /\ c.pc = "tx" /\ c.rx = cal.rx /\ c.bank = cal.bank
    BY <1>0, <2>0, <2>2, <2>3 DEF CalRecord
  <2>6. CalOk(NextDriving(c))
    BY <2>0, <2>5, NextDrivingTx
  <2>7. CASE cal' = [c EXCEPT !.bank = c.bank + 1] /\ c.bank < LastBank
    <3> DEFINE k == c.bank + 1
    <3>1. k \in CalBank
      BY <1>t, <2>5, <2>7, CalBanksAre
    <3>2. cal' = [c EXCEPT !.bank = k]
      BY <2>7
    <3> HIDE DEF k
    <3>3. cal' \in CalRecord /\ cal'.kind = "auto" /\ cal'.pc = "tx" /\ cal'.rx = cal.rx
      BY <2>5, <3>1, <3>2 DEF CalRecord
    <3> QED BY <2>0, <3>3 DEF CalOk, AutoOk
  <2> QED BY <2>4, <2>6, <2>7 DEF NextBankOrDriving
<1>4. ASSUME AutoWrite
      PROVE  CalOk(cal')
  <2>0. cal.kind = "auto" /\ cal.pc = "write" /\ \A b \in CalBank : ~cal.rx[b]
    BY <1>0, <1>4 DEF AutoWrite, AutoOk
  <2>1. ASSUME NEW junk \in Junk, cal' = [Stage(cal, "rx") EXCEPT !.result = junk]
        PROVE  CalOk(cal')
    <3>0. junk \in Flags /\ "rx" \in CalPcs
      BY <1>p, CalBanksAre
    <3>a. cal' \in CalRecord /\ cal'.kind = cal.kind /\ cal'.pc = "rx" /\ cal'.rx = cal.rx
      BY ZenonT(40), <1>0, <3>0, <2>1, StageBegins
    <3>b. cal'.bank = 0 /\ cal'.count = 0 /\ cal'.passed = 0
      BY ZenonT(40), <1>0, <3>0, <2>1, StageBegins
    <3>1. /\ cal' \in CalRecord /\ cal'.kind = cal.kind /\ cal'.pc = "rx" /\ cal'.rx = cal.rx
          /\ cal'.bank = 0 /\ cal'.count = 0 /\ cal'.passed = 0
      BY <3>a, <3>b
    <3>2. \A b \in CalBank : ~(b < 0)
      BY CalBanksAre
    <3> QED BY <2>0, <3>1, <3>2 DEF CalOk, AutoOk
  <2> QED BY <1>4, <1>e, <2>1 DEF AutoWrite
<1>5. ASSUME AutoRx
      PROVE  CalOk(cal')
  <2>0. /\ cal.kind = "auto" /\ cal.pc = "rx" /\ cal.count <= cal.bank
        /\ \A b \in CalBank : (cal.rx[b] => cal.tx[b]) /\ (b < cal.bank => cal.rx[b])
        /\ cal.passed > 0 => \A b \in CalBank : cal.tx[b]
        /\ cal.passed > 1 => \A b \in CalBank : cal.saved[b]
    BY <1>0, <1>5 DEF AutoRx, AutoOk
  <2> DEFINE pass(r) == r[2].gap >= RxGap
             c(r) == [cal EXCEPT !.result[cal.bank] = pass(r), !.rx[cal.bank] = TRUE, !.ret = r[2].ret,
                                 !.count = IF pass(r) THEN @ + 1 ELSE @]
             f(r) == [cal EXCEPT !.result[cal.bank] = FALSE, !.ret = r[2].ret]
  <2>1. PICK r \in RxAuto :
          /\ r[1] = cal.tx[cal.bank]
          /\ cal' = IF r[2].ret = "TIMEOUT" \/ r[2].gap = 0 THEN NextDriving(f(r))
                    ELSE NextBankOrDriving(c(r))
    BY <1>5 DEF AutoRx
  <2>s. r[2].ret \in {"OK", "ERR", "TIMEOUT"} /\ (r[2].gap # 0 => r[1])
    BY SeenAuto
  <2>2. CASE cal' = NextDriving(f(r))
    <3> DEFINE res == [cal.result EXCEPT ![cal.bank] = FALSE]
               d == f(r)
               x == r[2].ret
    <3>1. res \in Flags /\ ~res[cal.bank]
      BY <1>t DEF Flags
    <3>2. d = [cal EXCEPT !.result = res, !.ret = x]
      BY <1>0 DEF CalRecord
    <3>3. cal' = NextDriving(d)
      BY <2>2
    <3> HIDE DEF res, d, x, f, c, pass
    <3>4. x \in {"OK", "ERR", "TIMEOUT"}
      BY <2>s DEF x
    <3>5. /\ d \in CalRecord /\ d.kind = "auto" /\ d.pc = "rx" /\ d.rx = cal.rx /\ d.tx = cal.tx
          /\ d.result = res /\ d.count = cal.count /\ d.passed = cal.passed /\ d.saved = cal.saved
      BY <1>0, <2>0, <3>1, <3>2, <3>4 DEF CalRecord
    <3>6. ~(d.count >= CalBanks)
      BY <1>t, <2>0, <3>5, CalBanksAre, CalibrateAssumption
    <3>7. ~ \A b \in CalBank : d.result[b]
      BY <1>t, <3>1, <3>5
    <3>8. TrialOk(d)
      BY <2>0, <3>5, <3>6, <3>7 DEF TrialOk
    <3> QED BY <3>3, <3>8, NextDrivingRx
  <2>3. CASE cal' = NextBankOrDriving(c(r)) /\ r[2].gap # 0
    <3> DEFINE p == pass(r)
               res == [cal.result EXCEPT ![cal.bank] = p]
               y == [cal.rx EXCEPT ![cal.bank] = TRUE]
               cnt == IF p THEN cal.count + 1 ELSE cal.count
               d == c(r)
               x == r[2].ret
    <3>0. p \in BOOLEAN /\ cal.tx[cal.bank]
      BY <2>1, <2>3, <2>s
    <3> HIDE DEF pass
    <3>2. d = [cal EXCEPT !.result = res, !.rx = y, !.ret = x, !.count = cnt]
      BY <1>0 DEF CalRecord
    <3>3. cal' = NextBankOrDriving(d)
      BY <2>3
    <3> HIDE DEF d, x, f, c, p
    <3>1. /\ res \in Flags /\ y \in Flags /\ cnt \in Nat /\ cnt <= cal.bank + 1
          /\ y[cal.bank] /\ \A b \in CalBank : b # cal.bank => y[b] = cal.rx[b]
      BY <1>t, <2>0, <3>0 DEF Flags
    <3> HIDE DEF res, y, cnt
    <3>4. x \in {"OK", "ERR", "TIMEOUT"}
      BY <2>s DEF x
    <3>5. d \in CalRecord
      <4> DEFINE d1 == [cal EXCEPT !.result = res, !.rx = y]
                 d2 == [d1 EXCEPT !.ret = x, !.count = cnt]
      <4>1. d1 \in CalRecord
        BY <1>0, <3>1 DEF CalRecord
      <4>2. d = d2
        BY <3>2
      <4> HIDE DEF d1
      <4>3. d2 \in CalRecord
        BY <3>1, <3>4, <4>1 DEF CalRecord
      <4> QED BY <4>2, <4>3
    <3>6. /\ d.kind = "auto" /\ d.pc = "rx" /\ d.rx = y /\ d.tx = cal.tx /\ d.bank = cal.bank
          /\ d.count = cnt /\ d.passed = cal.passed /\ d.saved = cal.saved
      BY <1>0, <2>0, <3>2 DEF CalRecord
    <3>7. \A b \in CalBank : (y[b] => cal.tx[b]) /\ (b < cal.bank + 1 => y[b])
      <4> SUFFICES ASSUME NEW b \in CalBank
                   PROVE  (y[b] => cal.tx[b]) /\ (b < cal.bank + 1 => y[b])
        OBVIOUS
      <4>1. CASE b = cal.bank
        BY <3>0, <3>1, <4>1
      <4>2. CASE b # cal.bank
        <5>1. y[b] = cal.rx[b] /\ (b < cal.bank + 1 => b < cal.bank)
          BY <1>t, <3>1, <4>2, CalBanksAre
        <5> QED BY <2>0, <5>1
      <4> QED BY <4>1, <4>2
    <3>8. CASE cal' = [d EXCEPT !.bank = d.bank + 1] /\ d.bank < LastBank
      <4> DEFINE k == cal.bank + 1
      <4>1. k \in CalBank
        BY <1>t, <3>6, <3>8, CalBanksAre
      <4>2. cal' = [d EXCEPT !.bank = k]
        BY <3>6, <3>8
      <4>3. cnt <= k /\ \A b \in CalBank : (y[b] => cal.tx[b]) /\ (b < k => y[b])
        BY <3>1, <3>7
      <4> HIDE DEF k
      <4>4. /\ cal' \in CalRecord /\ cal'.kind = "auto" /\ cal'.pc = "rx" /\ cal'.rx = y
            /\ cal'.tx = cal.tx /\ cal'.bank = k /\ cal'.count = cnt /\ cal'.passed = cal.passed
            /\ cal'.saved = cal.saved
        BY <3>5, <3>6, <4>1, <4>2 DEF CalRecord
      <4> QED BY <2>0, <4>3, <4>4 DEF CalOk, AutoOk
    <3>9. CASE cal' = NextDriving(d) /\ ~(d.bank < LastBank)
      <4>1. cal.bank = LastBank
        BY <1>t, <3>6, <3>9, CalBanksAre
      <4>2. \A b \in CalBank : y[b] /\ cal.tx[b]
        <5>1. \A b \in CalBank : b < cal.bank + 1
          BY <1>t, <4>1, CalBanksAre
        <5> QED BY <3>7, <5>1
      <4>3. TrialOk(d)
        BY <2>0, <3>5, <3>6, <4>2 DEF TrialOk
      <4> QED BY <3>9, <4>3, NextDrivingRx
    <3> QED BY <3>3, <3>8, <3>9 DEF NextBankOrDriving
  <2> HIDE DEF c, f
  <2> QED BY <2>1, <2>2, <2>3
<1>6. ASSUME AutoRxWriteFails
      PROVE  CalOk(cal')
  <2>0. /\ cal.kind = "auto" /\ cal.pc = "rx" /\ cal.count <= cal.bank
        /\ \A b \in CalBank : cal.rx[b] => cal.tx[b]
        /\ cal.passed > 0 => \A b \in CalBank : cal.tx[b]
        /\ cal.passed > 1 => \A b \in CalBank : cal.saved[b]
    BY <1>0, <1>6 DEF AutoRxWriteFails, AutoOk
  <2> DEFINE d == [cal EXCEPT !.ret = "ERR"]
  <2>1. cal' = NextDriving(d)
    BY <1>6 DEF AutoRxWriteFails
  <2>2. /\ d \in CalRecord /\ d.kind = "auto" /\ d.pc = "rx" /\ d.rx = cal.rx /\ d.tx = cal.tx
        /\ d.ret = "ERR" /\ d.count = cal.count /\ d.passed = cal.passed /\ d.saved = cal.saved
    BY <1>0, <2>0 DEF CalRecord
  <2> HIDE DEF d
  <2>3. ~(d.count >= CalBanks)
    BY <1>t, <2>0, <2>2, CalBanksAre, CalibrateAssumption
  <2>4. TrialOk(d)
    BY <2>0, <2>2, <2>3 DEF TrialOk
  <2> QED BY <2>1, <2>4, NextDrivingRx
<1> QED BY <1>1, <1>2, <1>3, <1>4, <1>5, <1>6, AutoNext DEF AutoNext

CalPart == IF part = "calibration" THEN CalOk(cal) ELSE cal.pc = "idle"

LEMMA CalPartBegins == TaskInit => CalPart
<1> SUFFICES ASSUME TaskInit PROVE CalPart
  OBVIOUS
<1>1. CASE part = "calibration"
  <2>1. CalInit
    BY <1>1 DEF TaskInit
  <2> QED BY <1>1, <2>1, CalBegins DEF CalPart
<1>2. CASE part # "calibration"
  <2>1. OtherCalibration
    BY <1>2 DEF TaskInit
  <2> QED BY <1>2, <2>1 DEF CalPart, OtherCalibration
<1> QED BY <1>1, <1>2

LEMMA CalPartKept == ASSUME CalPart, [TaskNext]_taskVars PROVE CalPart'
<1>1. CASE part = "calibration" /\ CalNext /\ UNCHANGED part
  <2>1. CalOk(cal)
    BY <1>1 DEF CalPart
  <2>2. CalOk(cal')
    BY <1>1, <2>1, FixedSteps, AutoSteps DEF CalNext
  <2> QED BY <1>1, <2>2 DEF CalPart
<1>2. CASE UNCHANGED <<part, cal>>
  BY <1>2 DEF CalPart
<1>3. (part = "calibration" /\ CalNext /\ UNCHANGED part) \/ UNCHANGED <<part, cal>>
  BY DEF TaskNext, taskVars
<1> QED BY <1>1, <1>2, <1>3

\* A calibration ends well only with delays that work (CalibratedMeansWorks), for every number
\* of banks, speeds and drivings, whatever the eyes are and wherever a search is cut short.
THEOREM CalibrationWorks == TaskSpec => []CalibratedMeansWorks
<1>1. TaskInit => CalPart
  BY CalPartBegins
<1>2. CalPart /\ [TaskNext]_taskVars => CalPart'
  BY CalPartKept
<1>3. CalPart => CalibratedMeansWorks
  <2> SUFFICES ASSUME CalPart, cal.pc = "ok"
               PROVE  CalibratedMeansWorks
    BY DEF CalibratedMeansWorks
  <2>1. CalOk(cal) /\ cal.kind \in {"fixed", "auto"}
    BY DEF CalPart, CalOk, CalRecord
  <2>2. CASE cal.kind = "auto"
    <3>1. \A b \in CalBank : cal.tx[b] /\ cal.rx[b]
      BY <2>1, <2>2 DEF CalOk, AutoOk, Works
    <3> QED BY <2>2, <3>1 DEF CalibratedMeansWorks
  <2>3. CASE cal.kind = "fixed"
    <3>1. Recorded(cal) /\ cal.KSpeedIndex = 0
      BY <2>1, <2>3 DEF CalOk, FixedOk
    <3>2. \A s \in 1 .. Speeds : s > 0
      BY CalibrateAssumption
    <3> QED BY <2>3, <3>1, <3>2 DEF CalibratedMeansWorks, Recorded, Counts
  <2> QED BY <2>1, <2>2, <2>3
<1> QED BY <1>1, <1>2, <1>3, PTL DEF TaskSpec
=============================================================================
