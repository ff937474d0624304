------------------------- MODULE WritePrepareProofs -------------------------
(***************************************************************************)
(* Theorems about WritePrepare, for every geometry, set of bad blocks,     *)
(* threshold and list of capacities, and for chips of one LUN or several:  *)
(* a capacity that is accepted finds its groups, and the areas of a format *)
(* hold what they were laid out for.                                       *)
(*                                                                         *)
(* The build of replacements only takes groups out of use, or brings them  *)
(* back, that are broken and behind the areas of states and snapshots      *)
(* (BuildOk): that is enough of it here.                                   *)
(***************************************************************************)
EXTENDS WritePrepare, RemapBuildProofs

USE RemapAssumption, GeometryAssumption, TableAssumption

(* The build of replacements                                               *)

\* The groups in which a block failed or has a mark.
Broken == {Group(c[2]) : c \in failed \cup marked}

\* What may become an entry: a block of such a group, behind the first areas.
Part == {x \in Blk : Group(x) \in UserMp /\ Group(x) \in Broken}

Holder ==
    [mp : Nat, temp : [PlaneSet -> Part \cup {None}], tab : [PlaneSet -> Seq(Part)]]

BrokenBlk == {x \in Blk : Group(x) \in Broken}

BuildOk ==
    /\ failed \subseteq Bank \X Blk /\ marked \subseteq Bank \X Blk
    /\ dbt \in [Bank -> SUBSET Broken] /\ sysDbt \in [Bank -> SUBSET BrokenBlk]
    /\ remap \in [Bank -> Holder]
    /\ selected \in Seq(UserMp \cap Broken)
    /\ bank \in Bank /\ plane \in PlaneSet /\ place \in Nat
    /\ pc = "system" => place \in (SSEnd * Planes) .. (SysMax - 1)
    /\ pc \in {"find", "redefine"} => place \in UserMp
    /\ pc = "select" => place >= 1

\* What a step of the build leaves alone.
Spared ==
    /\ UNCHANGED flash
    /\ \A b \in Bank, m \in Nat : m \notin UserMp => (m \in dbt'[b] <=> m \in dbt[b])
    /\ \A b \in Bank, x \in Blk : Group(x) \notin UserMp => (x \in sysDbt'[b] <=> x \in sysDbt[b])

LEMMA SameSets ==
    ASSUME UNCHANGED flash
    PROVE  Broken' = Broken /\ Part' = Part /\ Holder' = Holder /\ BrokenBlk' = BrokenBlk
<1>1. Broken' = Broken
  BY DEF Broken, flash
<1> QED
  BY <1>1 DEF Part, Holder, BrokenBlk

LEMMA PartIs ==
    /\ Part \subseteq Blk /\ Part \subseteq Nat
    /\ \A x \in Part : Group(x) \in UserMp /\ Group(x) \in Broken /\ x # None
<1>1. \A x \in Blk : x \in Nat /\ x # None
  BY DEF Blk, None
<1> QED
  BY <1>1 DEF Part

\* A plane of a broken group.
LEMMA PartOf ==
    ASSUME NEW g \in UserMp \cap Broken, NEW p \in PlaneSet
    PROVE  g * Planes + p \in Part
<1>1. g \in Nat /\ g \in Mp
  BY UserGroups
<1>2. g * Planes + p \in Blk /\ Group(g * Planes + p) = g
  BY <1>1, PartsBlock, BlkIsGroups
<1> QED
  BY <1>2 DEF Part

LEMMA BrokenGroups ==
    ASSUME BuildOk
    PROVE  Broken \subseteq Mp
<1> SUFFICES ASSUME NEW c \in failed \cup marked
             PROVE  Group(c[2]) \in Mp
  BY DEF Broken
<1>1. c[2] \in Blk
  BY DEF BuildOk
<1> QED
  BY <1>1, BlkGroup

LEMMA HolderIs ==
    ASSUME NEW c \in Holder
    PROVE  /\ c \in Collector
           /\ \A p \in PlaneSet :
                /\ c.tab[p] \in Seq(Part) /\ Len(c.tab[p]) \in Nat
                /\ \A i \in 1 .. Len(c.tab[p]) : c.tab[p][i] \in Part
<1>1. Part \cup {None} \subseteq Nat /\ Part \subseteq Nat
  BY PartIs DEF None
<1>2. c.mp \in Nat /\ c.temp \in [PlaneSet -> Part \cup {None}] /\ c.tab \in [PlaneSet -> Seq(Part)]
  BY DEF Holder
<1>3. c.temp \in [PlaneSet -> Nat]
  BY <1>1, <1>2
<1>4. \A s \in Seq(Part) : s \in Seq(Nat)
  BY <1>1
<1>5. c.tab \in [PlaneSet -> Seq(Nat)]
  BY <1>2, <1>4
<1>6. c = [mp |-> c.mp, temp |-> c.temp, tab |-> c.tab]
  BY DEF Holder
<1>7. c \in Collector
  BY <1>2, <1>3, <1>5, <1>6 DEF Collector
<1>8. ASSUME NEW p \in PlaneSet
      PROVE  /\ c.tab[p] \in Seq(Part) /\ Len(c.tab[p]) \in Nat
             /\ \A i \in 1 .. Len(c.tab[p]) : c.tab[p][i] \in Part
  <2>1. c.tab[p] \in Seq(Part)
    BY <1>2
  <2> QED
    BY <2>1
<1> QED
  BY <1>7, <1>8

\* A plane, the number of entries, or all planes of a bank get another value.
LEMMA HolderWith ==
    ASSUME NEW c \in Holder
    PROVE  /\ \A n \in Nat : [c EXCEPT !.mp = n] \in Holder
           /\ \A p \in PlaneSet, s \in Seq(Part) : [c EXCEPT !.tab[p] = s] \in Holder
           /\ \A t \in [PlaneSet -> Seq(Part)] : [c EXCEPT !.tab = t] \in Holder
BY DEF Holder

LEMMA CreateOk ==
    ASSUME NEW c \in Holder
    PROVE  LlfCreatReMappingTable(c) \in Holder
<1> DEFINE t == [p \in PlaneSet |->
                   IF Len(c.tab[p]) < TableLen /\ c.temp[p] # None
                   THEN Append(c.tab[p], c.temp[p]) ELSE c.tab[p]]
           e == [p \in PlaneSet |-> None]
<1>1. c.mp \in Nat /\ c.temp \in [PlaneSet -> Part \cup {None}] /\ c.tab \in [PlaneSet -> Seq(Part)]
  BY DEF Holder
<1>2. ASSUME NEW p \in PlaneSet
      PROVE  t[p] \in Seq(Part)
  <2>1. c.tab[p] \in Seq(Part) /\ (c.temp[p] # None => c.temp[p] \in Part)
    BY <1>1
  <2> QED
    BY <2>1
<1>3. t \in [PlaneSet -> Seq(Part)] /\ e \in [PlaneSet -> Part \cup {None}]
  BY <1>2
<1>4. LlfCreatReMappingTable(c) = [mp |-> c.mp, temp |-> e, tab |-> t]
  BY DEF LlfCreatReMappingTable
<1> HIDE DEF t, e
<1> QED
  BY <1>1, <1>3, <1>4 DEF Holder

LEMMA CollectOk ==
    ASSUME NEW c \in Holder, NEW x \in Part
    PROVE  CollectBad(c, x) \in Holder
<1> DEFINE g == Group(x)
           f == IF c.mp # None THEN LlfCreatReMappingTable(c) ELSE c
           same == [p \in PlaneSet |-> CASE p = PlaneOf(x) -> None
                                         [] p > PlaneOf(x) -> g * Planes + p
                                         [] OTHER          -> c.temp[p]]
           new  == [p \in PlaneSet |-> IF p = PlaneOf(x) THEN None ELSE g * Planes + p]
<1>1. /\ x \in Nat /\ g \in UserMp \cap Broken /\ g \in Nat /\ PlaneOf(x) \in PlaneSet
  BY PartIs, BlockParts
<1>2. \A p \in PlaneSet : g * Planes + p \in Part
  BY <1>1, PartOf
<1>3. c.mp \in Nat /\ c.temp \in [PlaneSet -> Part \cup {None}] /\ c.tab \in [PlaneSet -> Seq(Part)]
  BY DEF Holder
<1>4. f \in Holder
  BY CreateOk
<1>5. f.tab \in [PlaneSet -> Seq(Part)]
  BY <1>4 DEF Holder
<1>6. same \in [PlaneSet -> Part \cup {None}]
  <2> SUFFICES ASSUME NEW p \in PlaneSet
               PROVE  same[p] \in Part \cup {None}
    OBVIOUS
  <2> HIDE DEF g, f, same, new
  <2>a. c.temp[p] \in Part \cup {None} /\ g * Planes + p \in Part
    BY <1>2, <1>3
  <2>b. p \in Nat /\ PlaneOf(x) \in Nat
    BY <1>1 DEF PlaneSet
  <2>1. p \in Nat /\ PlaneOf(x) \in Nat /\ c.temp[p] \in Part \cup {None} /\ g * Planes + p \in Part
    BY <2>a, <2>b
  <2> USE DEF g, same
  <2>2. CASE p = PlaneOf(x)
    BY <2>1, <2>2
  <2>3. CASE p > PlaneOf(x)
    <3>1. same[p] = g * Planes + p
      BY <2>1, <2>3
    <3> QED
      BY <3>1, <2>1
  <2>4. CASE p < PlaneOf(x)
    <3>1. same[p] = c.temp[p]
      BY <2>1, <2>4
    <3> QED
      BY <3>1, <2>1
  <2> QED
    BY <2>1, <2>2, <2>3, <2>4
<1>7. new \in [PlaneSet -> Part \cup {None}]
  BY <1>2
<1>8. CASE c.mp = g
  <2>1. CollectBad(c, x) = [mp |-> c.mp, temp |-> same, tab |-> c.tab]
    BY <1>8 DEF CollectBad, SameGroup
  <2> HIDE DEF same, new, f, g
  <2> QED
    BY <2>1, <1>3, <1>6 DEF Holder
<1>9. CASE c.mp # g
  <2>1. CollectBad(c, x) = [mp |-> g, temp |-> new, tab |-> f.tab]
    BY <1>9 DEF CollectBad, NewGroup
  <2> HIDE DEF same, new, f, g
  <2> QED
    BY <2>1, <1>1, <1>5, <1>7 DEF Holder
<1> QED
  BY <1>8, <1>9

\* A sort of parts.
LEMMA SortOk ==
    ASSUME NEW S \in SUBSET Part, NEW s \in SortedSeqs(S)
    PROVE  s \in Seq(Part)
<1>1. S \subseteq Blk
  BY PartIs
<1>2. s \in Seq(Blk) /\ \A i \in 1 .. Len(s) : s[i] \in S
  BY <1>1, SortedIsSeq
<1> QED
  BY <1>2

\* The entries of the tables, and those with partners.
LEMMA EntriesOk ==
    ASSUME BuildOk, NEW b \in Bank, NEW p \in PlaneSet
    PROVE  Entries(b, p) \subseteq Part /\ Paired(b, p) \subseteq Part
<1>1. remap[b] \in Holder
  BY DEF BuildOk
<1>2. \A i \in 1 .. Len(remap[b].tab[p]) : remap[b].tab[p][i] \in Part
  BY <1>1, HolderIs
<1>3. Entries(b, p) \subseteq Part
  BY <1>2 DEF Entries
<1>4. Paired(b, p) \subseteq Entries(b, p)
  BY DEF Paired
<1> QED
  BY <1>3, <1>4

LEMMA ShortIs ==
    ASSUME NEW c \in Holder
    PROVE  /\ Shortest(c) \in Nat
           /\ \A p \in PlaneSet : Shortest(c) <= Len(c.tab[p])
BY HolderIs, ShortestOk

LEMMA MaxBsOk ==
    ASSUME NEW r \in [Bank -> Holder]
    PROVE  LlfGetRealMaxBsNum(r) \in [Bank -> Holder]
<1>1. ASSUME NEW b \in Bank
      PROVE  [r[b] EXCEPT !.mp = Shortest(r[b])] \in Holder
  <2>1. r[b] \in Holder /\ Shortest(r[b]) \in Nat
    BY ShortIs
  <2> QED
    BY <2>1, HolderWith
<1> QED
  BY <1>1 DEF LlfGetRealMaxBsNum

LEMMA CutHolds ==
    ASSUME NEW r \in [Bank -> Holder]
    PROVE  Cut(r) \in [Bank -> Holder]
<1>1. ASSUME NEW b \in Bank
      PROVE  [r[b] EXCEPT !.mp = Shortest(r[b]),
                          !.tab = [p \in PlaneSet |-> SubSeq(r[b].tab[p], 1, Shortest(r[b]))]] \in Holder
  <2> DEFINE n == Shortest(r[b])
             t == [p \in PlaneSet |-> SubSeq(r[b].tab[p], 1, n)]
  <2>1. r[b] \in Holder /\ n \in Nat /\ \A p \in PlaneSet : n <= Len(r[b].tab[p])
    BY ShortIs
  <2> HIDE DEF n
  <2>2. ASSUME NEW p \in PlaneSet
        PROVE  t[p] \in Seq(Part)
    <3>1. r[b].tab[p] \in Seq(Part) /\ n <= Len(r[b].tab[p])
      BY <2>1, HolderIs
    <3> QED
      BY <3>1, <2>1
  <2>3. t \in [PlaneSet -> Seq(Part)]
    BY <2>2
  <2> HIDE DEF t
  <2>4. [r[b] EXCEPT !.mp = n] \in Holder
    BY <2>1, HolderWith
  <2>5. [[r[b] EXCEPT !.mp = n] EXCEPT !.tab = t] \in Holder
    BY <2>3, <2>4, HolderWith
  <2>6. [r[b] EXCEPT !.mp = n, !.tab = t] \in Holder
    BY <2>5
  <2> QED
    BY <2>6 DEF n, t
<1> QED
  BY <1>1 DEF Cut

LEMMA AreaSizes ==
    /\ SSEnd < MpNum /\ SSEnd \in UserMp /\ MpNum - 1 \in UserMp /\ MpNum - 1 \in Nat
    /\ \A m \in UserMp : m > SSEnd => m - 1 \in UserMp
<1>1. SSEnd * Planes < MpNum * Planes
  OBVIOUS
<1>2. CASE MpNum = SSEnd
  BY <1>1, <1>2
<1>3. CASE MpNum < SSEnd
  <2>1. MpNum * Planes + Planes <= SSEnd * Planes
    BY <1>3, Monotone
  <2>2. MpNum * Planes \in Nat /\ SSEnd * Planes \in Nat
    OBVIOUS
  <2> QED
    BY <1>1, <2>1, <2>2
<1>4. SSEnd < MpNum
  BY <1>2, <1>3
<1> QED
  BY <1>4 DEF UserMp

------------------------------------------------------------------------------
(* Its steps                                                               *)

LEMMA SparedAll ==
    ASSUME UNCHANGED <<flash, dbt, sysDbt>>
    PROVE  Spared
BY DEF Spared

LEMMA EraseKeeps ==
    ASSUME BuildOk, EraseResult
    PROVE  BuildOk' /\ Spared
<1>1. PICK T \in Found(Leftover(bank, plane)) : \E s \in SortedSeqs(T) :
         remap' = [remap EXCEPT ![bank].tab[plane] = s]
  BY DEF EraseResult
<1>2. PICK s \in SortedSeqs(T) : remap' = [remap EXCEPT ![bank].tab[plane] = s]
  BY <1>1
<1>3. /\ pc = "erase" /\ NextPlane("system", SSEnd * Planes)
      /\ UNCHANGED <<flash, dbt, sysDbt, selected>>
      /\ bank \in Bank /\ plane \in PlaneSet
  BY DEF EraseResult, BuildOk
<1>4. Leftover(bank, plane) \subseteq Part
  <2> SUFFICES ASSUME NEW x \in Leftover(bank, plane)
               PROVE  x \in Part
    OBVIOUS
  <2>1. PICK y \in Of(bank, failed) : y >= SysMax /\ x = Group(y) * Planes + plane
    BY DEF Leftover
  <2>2. <<bank, y>> \in failed /\ y \in Blk
    BY IsOf DEF BuildOk
  <2>3. y \in Nat /\ Group(y) \in Mp
    BY <2>2, BlkGroup
  <2>4. SSEnd * Planes \in Nat /\ y >= SSEnd * Planes
    BY <2>1, <2>3
  <2>5. Group(y) >= SSEnd
    BY <2>3, <2>4, AreaBounds
  <2>6. Group(y) \in UserMp
    BY <2>3, <2>5 DEF UserMp, Mp
  <2>7. <<bank, y>>[2] = y
    OBVIOUS
  <2>8. Group(y) \in Broken
    BY <2>2, <2>7 DEF Broken
  <2> QED
    BY <2>1, <2>6, <2>8, <1>3, PartOf
<1>5. s \in Seq(Part)
  <2>1. T \in SUBSET Part
    BY <1>4 DEF Found
  <2> QED
    BY <2>1, SortOk
<1>6. remap' \in [Bank -> Holder]
  <2>1. remap \in [Bank -> Holder] /\ remap[bank] \in Holder
    BY <1>3 DEF BuildOk
  <2>2. [remap[bank] EXCEPT !.tab[plane] = s] \in Holder
    BY <2>1, <1>3, <1>5, HolderWith
  <2>3. remap' = [remap EXCEPT ![bank] = [remap[bank] EXCEPT !.tab[plane] = s]]
    BY <1>2, <2>1, <1>3 DEF Holder
  <2> QED
    BY <2>1, <2>2, <2>3
<1>7. /\ bank' \in Bank /\ plane' \in PlaneSet /\ place' \in Nat
      /\ pc' = "erase" \/ (pc' = "system" /\ place' = SSEnd * Planes)
  <2>1. SSEnd * Planes \in Nat
    OBVIOUS
  <2> QED
    BY <2>1, <1>3, PlaneLoop
<1>8. SSEnd * Planes \in (SSEnd * Planes) .. (SysMax - 1)
  OBVIOUS
<1> QED
  BY <1>3, <1>6, <1>7, <1>8, SameSets, SparedAll DEF BuildOk, flash

LEMMA SystemKeeps ==
    ASSUME BuildOk, CollectSystem
    PROVE  BuildOk' /\ Spared
<1> DEFINE begun   == [remap[bank] EXCEPT !.mp = IF place = SSEnd * Planes THEN None ELSE @]
           defect  == llfIsSystemBlkDefect(sysDbt, bank, place)
           noted   == IF defect THEN CollectBad(begun, place) ELSE begun
           last    == place = SysMax - 1
           flushes == last /\ (defect \/ ~llfIsBlockBad(dbt, bank, place))
           d       == IF flushes THEN LlfCreatReMappingTable(noted) ELSE noted
           after   == [remap EXCEPT ![bank] = d]
<1>1. /\ pc = "system" /\ UNCHANGED <<flash, dbt, sysDbt, selected>>
      /\ \/ ~last /\ remap' = after /\ place' = place + 1 /\ UNCHANGED <<pc, bank, plane>>
         \/ /\ bank + 1 < BankNum /\ remap' = after
            /\ bank' = bank + 1 /\ place' = SSEnd * Planes /\ UNCHANGED <<pc, plane>>
         \/ remap' = LlfGetRealMaxBsNum(after) /\ Goto("update", 0)
  BY DEF CollectSystem
<1>2. /\ place \in (SSEnd * Planes) .. (SysMax - 1) /\ SSEnd * Planes \in Nat /\ place \in Nat
      /\ bank \in Bank /\ plane \in PlaneSet
      /\ remap \in [Bank -> Holder] /\ sysDbt \in [Bank -> SUBSET BrokenBlk]
  BY SMTT(30), <1>1 DEF BuildOk
<1>3. begun \in Holder
  <2>1. remap[bank] \in Holder
    BY <1>2
  <2>2. remap[bank].mp \in Nat /\ None \in Nat
    BY <2>1 DEF Holder, None
  <2> DEFINE n == IF place = SSEnd * Planes THEN None ELSE remap[bank].mp
  <2>3. n \in Nat /\ begun = [remap[bank] EXCEPT !.mp = n]
    BY <2>2
  <2> HIDE DEF n, begun
  <2> QED
    BY <2>1, <2>3, HolderWith
<1>4. noted \in Holder
  <2>1. CASE defect
    <3>1. place \in Blk /\ Group(place) \in Broken
      BY <2>1, <1>2 DEF llfIsSystemBlkDefect, BrokenBlk
    <3>2. Group(place) \in Mp /\ Group(place) >= SSEnd
      BY <3>1, <1>2, BlkGroup, AreaBounds
    <3>3. place \in Part
      BY <3>1, <3>2 DEF Part, UserMp, Mp
    <3> HIDE DEF begun
    <3> QED
      BY <2>1, <3>3, <1>3, CollectOk
  <2>2. CASE ~defect
    BY <2>2, <1>3
  <2> QED
    BY <2>1, <2>2
<1> HIDE DEF noted
<1>5. d \in Holder
  BY <1>4, CreateOk
<1> HIDE DEF d
<1>6. after \in [Bank -> Holder]
  BY <1>2, <1>5
<1> HIDE DEF after
<1>7. remap' \in [Bank -> Holder]
  BY <1>1, <1>6, MaxBsOk
<1>8. /\ bank' \in Bank /\ plane' \in PlaneSet /\ place' \in Nat
      /\ \/ pc' = "update"
         \/ pc' = "system" /\ place' \in (SSEnd * Planes) .. (SysMax - 1)
  <2>1. CASE ~last /\ place' = place + 1 /\ UNCHANGED <<pc, bank, plane>>
    BY <2>1, <1>1, <1>2
  <2>2. CASE bank + 1 < BankNum /\ bank' = bank + 1 /\ place' = SSEnd * Planes /\ UNCHANGED <<pc, plane>>
    BY <2>2, <1>1, <1>2 DEF Bank
  <2>3. CASE Goto("update", 0)
    BY <2>3 DEF Goto, Bank, PlaneSet
  <2> QED
    BY <2>1, <2>2, <2>3, <1>1
<1> QED
  BY <1>1, <1>7, <1>8, SameSets, SparedAll DEF BuildOk, flash

LEMMA DropKeeps ==
    ASSUME BuildOk, DropEntry
    PROVE  BuildOk' /\ Spared
<1> DEFINE t == remap[bank].tab[plane]
           s == [j \in 1 .. (Len(t) - 1) |-> IF j = place + 1 THEN t[Len(t)] ELSE t[j]]
<1>1. /\ pc = "update" /\ place < Len(t) /\ place' = place
      /\ remap' = [remap EXCEPT ![bank].tab[plane] = s]
      /\ UNCHANGED <<flash, selected, pc, bank, plane>>
      /\ sysDbt' = IF Entry < SysMax THEN llfMarkSystemBlkDefect(sysDbt, bank, Entry) ELSE sysDbt
      /\ dbt' = IF Entry < SysMax THEN dbt ELSE llfSetDBT(dbt, bank, Entry)
      /\ bank \in Bank /\ plane \in PlaneSet /\ place \in Nat
  BY DEF DropEntry, WithoutEntry, BuildOk
<1>2. /\ remap \in [Bank -> Holder] /\ remap[bank] \in Holder
      /\ dbt \in [Bank -> SUBSET Broken] /\ sysDbt \in [Bank -> SUBSET BrokenBlk]
  BY <1>1 DEF BuildOk
<1>3. t \in Seq(Part) /\ Len(t) \in Nat /\ \A i \in 1 .. Len(t) : t[i] \in Part
  BY <1>1, <1>2, HolderIs
<1>4. Entry \in Part
  <2>1. Entry = t[place + 1]
    BY DEF Entry
  <2> HIDE DEF t
  <2>2. place + 1 \in 1 .. Len(t)
    BY SMTT(30), <1>1, <1>3
  <2> QED
    BY <1>3, <2>1, <2>2
<1>5. /\ Entry \in Blk /\ Entry \in BrokenBlk
      /\ Group(Entry) \in UserMp /\ Group(Entry) \in Broken
  BY <1>4 DEF Part, BrokenBlk
<1> HIDE DEF t
<1>6. s \in Seq(Part)
  <2>1. Len(t) - 1 \in Nat
    BY <1>1, <1>3
  <2>2. \A j \in 1 .. (Len(t) - 1) : s[j] \in Part
    BY <1>3
  <2>3. s \in [1 .. (Len(t) - 1) -> Part]
    BY <2>2
  <2> QED
    BY <2>1, <2>3
<1> HIDE DEF s
<1>7. remap' \in [Bank -> Holder]
  <2>1. [remap[bank] EXCEPT !.tab[plane] = s] \in Holder
    BY <1>1, <1>2, <1>6, HolderWith
  <2>2. remap' = [remap EXCEPT ![bank] = [remap[bank] EXCEPT !.tab[plane] = s]]
    BY <1>1, <1>2 DEF Holder
  <2> QED
    BY <1>2, <2>1, <2>2
<1>8. dbt' \in [Bank -> SUBSET Broken] /\ sysDbt' \in [Bank -> SUBSET BrokenBlk]
  BY SMTT(30), <1>1, <1>2, <1>5 DEF llfSetDBT, llfMarkUserMPBlkDefect, llfMarkSystemBlkDefect
<1>9. Spared
  <2>1. \A b \in Bank : dbt'[b] = dbt[b] \/ dbt'[b] = dbt[b] \cup {Group(Entry)}
    BY <1>1, <1>2 DEF llfSetDBT, llfMarkUserMPBlkDefect
  <2>2. \A b \in Bank : sysDbt'[b] = sysDbt[b] \/ sysDbt'[b] = sysDbt[b] \cup {Entry}
    BY <1>1, <1>2 DEF llfMarkSystemBlkDefect
  <2>3. ASSUME NEW b \in Bank, NEW m \in Nat, m \notin UserMp
        PROVE  m \in dbt'[b] <=> m \in dbt[b]
    BY <1>5, <2>1, <2>3
  <2>4. ASSUME NEW b \in Bank, NEW x \in Blk, Group(x) \notin UserMp
        PROVE  x \in sysDbt'[b] <=> x \in sysDbt[b]
    BY <1>5, <2>2, <2>4
  <2> QED
    BY <1>1, <2>3, <2>4 DEF Spared
<1> QED
  BY <1>1, <1>7, <1>8, <1>9, SameSets DEF BuildOk, flash

LEMMA UpdateKeeps ==
    ASSUME BuildOk, KeepEntry \/ EndOfPlane
    PROVE  BuildOk' /\ Spared
<1>1. /\ pc = "update" /\ UNCHANGED <<flash, dbt, sysDbt, remap, selected>>
      /\ bank \in Bank /\ plane \in PlaneSet /\ place \in Nat
      /\ (place' = place + 1 /\ UNCHANGED <<pc, bank, plane>>) \/ NextPlane("sort", 0)
  BY DEF KeepEntry, EndOfPlane, BuildOk
<1>2. bank' \in Bank /\ plane' \in PlaneSet /\ place' \in Nat /\ pc' \in {"update", "sort"}
  BY <1>1, PlaneLoop
<1> QED
  BY <1>1, <1>2, SameSets, SparedAll DEF BuildOk, flash

LEMMA SortKeeps ==
    ASSUME BuildOk, SortPlane \/ SortAgain
    PROVE  BuildOk' /\ Spared
<1>1. PICK s \in SortedSeqs(Paired(bank, plane)) :
        LET sorted == [remap EXCEPT ![bank].tab[plane] = s]
        IN  remap' = sorted \/ remap' = Cut(sorted)
  BY DEF SortPlane, SortAgain
<1>2. /\ bank \in Bank /\ plane \in PlaneSet /\ place \in Nat
      /\ remap \in [Bank -> Holder] /\ remap[bank] \in Holder
      /\ UNCHANGED <<flash, dbt, sysDbt, selected>>
      /\ \/ pc = "sort" /\ NextPlane("find", MpNum - 1)
         \/ pc = "sortAgain" /\ NextPlane("redefine", SSEnd)
  BY DEF SortPlane, SortAgain, BuildOk
<1> DEFINE sorted == [remap EXCEPT ![bank].tab[plane] = s]
<1>3. s \in Seq(Part)
  BY <1>2, EntriesOk, SortOk
<1>4. sorted \in [Bank -> Holder]
  <2>1. [remap[bank] EXCEPT !.tab[plane] = s] \in Holder
    BY <1>2, <1>3, HolderWith
  <2>2. sorted = [remap EXCEPT ![bank] = [remap[bank] EXCEPT !.tab[plane] = s]]
    BY <1>2 DEF Holder
  <2> QED
    BY <1>2, <2>1, <2>2
<1>5. remap' \in [Bank -> Holder]
  <2> HIDE DEF sorted
  <2>1. remap' = sorted \/ remap' = Cut(sorted)
    BY <1>1 DEF sorted
  <2> QED
    BY <1>4, <2>1, CutHolds
<1>6. SSEnd \in UserMp /\ MpNum - 1 \in UserMp /\ MpNum - 1 \in Nat
  BY AreaSizes
<1>7. /\ bank' \in Bank /\ plane' \in PlaneSet /\ place' \in Nat
      /\ \/ pc' = pc
         \/ pc' \in {"find", "redefine"} /\ place' \in UserMp
  BY <1>2, <1>6, PlaneLoop
<1> QED
  BY <1>2, <1>5, <1>7, SameSets, SparedAll DEF BuildOk, flash

\* Groups that are given up are broken, and behind the first areas.
LEMMA InsertKeeps ==
    ASSUME BuildOk, NEW m \in UserMp \cap Broken, NEW banks \in SUBSET Bank,
           llfRemapFlagInsertBlock(banks, m)
    PROVE  /\ remap' \in [Bank -> Holder] /\ dbt' \in [Bank -> SUBSET Broken]
           /\ \A b \in Bank, n \in Nat : n \notin UserMp => (n \in dbt'[b] <=> n \in dbt[b])
<1>1. /\ remap \in [Bank -> Holder] /\ dbt \in [Bank -> SUBSET Broken]
      /\ dbt' = [b \in Bank |-> IF b \in banks THEN dbt[b] \cup {m} ELSE dbt[b]]
  BY DEF BuildOk, llfRemapFlagInsertBlock
<1> DEFINE t(b) == [p \in PlaneSet |-> Append(remap[b].tab[p], m * Planes + p)]
           r(b) == IF b \notin banks THEN remap[b] ELSE [remap[b] EXCEPT !.tab = t(b)]
<1>2. ASSUME NEW b \in Bank
      PROVE  r(b) \in Holder
  <2>1. remap[b] \in Holder
    BY <1>1
  <2>2. ASSUME NEW p \in PlaneSet
        PROVE  Append(remap[b].tab[p], m * Planes + p) \in Seq(Part)
    <3>1. m * Planes + p \in Part
      BY PartOf
    <3>2. remap[b].tab[p] \in Seq(Part)
      BY <2>1, HolderIs
    <3> QED
      BY <3>1, <3>2
  <2>3. t(b) \in [PlaneSet -> Seq(Part)]
    BY <2>2
  <2> HIDE DEF t
  <2>4. [remap[b] EXCEPT !.tab = t(b)] \in Holder
    BY <2>1, <2>3, HolderWith
  <2> QED
    BY <2>1, <2>4
<1>3. remap' = [b \in Bank |-> r(b)]
  BY DEF llfRemapFlagInsertBlock
<1> HIDE DEF r
<1>4. remap' \in [Bank -> Holder]
  BY <1>2, <1>3
<1>5. \A b \in Bank : dbt'[b] = dbt[b] \/ dbt'[b] = dbt[b] \cup {m}
  BY <1>1
<1>6. dbt' \in [Bank -> SUBSET Broken]
  <2>1. \A b \in Bank : dbt[b] \cup {m} \subseteq Broken /\ dbt[b] \subseteq Broken
    BY <1>1
  <2> QED
    BY <1>1, <2>1
<1>7. ASSUME NEW b \in Bank, NEW n \in Nat, n \notin UserMp
      PROVE  n \in dbt'[b] <=> n \in dbt[b]
  BY <1>5, <1>7
<1> QED
  BY <1>4, <1>6, <1>7

LEMMA BadBanksBroken ==
    ASSUME BuildOk, NEW m, BadBanks(m) # {}
    PROVE  m \in Broken
<1>1. PICK b \in Bank : m \in dbt[b]
  BY DEF BadBanks, llfIsMpBlockBad
<1> QED
  BY <1>1 DEF BuildOk

LEMMA NextBrokenOk ==
    ASSUME NEW m \in UserMp, place = m, pc = "find", bank \in Bank, plane \in PlaneSet, NextBroken
    PROVE  /\ bank' \in Bank /\ plane' \in PlaneSet /\ place' \in Nat
           /\ \/ pc' = "find" /\ place' \in UserMp
              \/ pc' = "select" /\ place' >= 1
<1>1. CASE place > SSEnd
  <2>1. place' = place - 1 /\ UNCHANGED <<pc, bank, plane>>
    BY <1>1 DEF NextBroken
  <2>2. m - 1 \in UserMp /\ m - 1 \in Nat
    BY <1>1, AreaSizes, UserGroups
  <2> QED
    BY <2>1, <2>2
<1>2. CASE ~(place > SSEnd)
  <2>1. pc' = "select" /\ bank' = 0 /\ plane' = 0 /\ place' = 1
    BY <1>2 DEF NextBroken, Goto
  <2> QED
    BY <2>1 DEF Bank, PlaneSet
<1> QED
  BY <1>1, <1>2

LEMMA FindKeeps ==
    ASSUME BuildOk, GiveUpBroken \/ NoteBroken
    PROVE  BuildOk' /\ Spared
<1>1. /\ pc = "find" /\ place \in UserMp /\ bank \in Bank /\ plane \in PlaneSet
      /\ NextBroken /\ UNCHANGED <<flash, sysDbt>>
      /\ selected \in Seq(UserMp \cap Broken) /\ remap \in [Bank -> Holder]
      /\ dbt \in [Bank -> SUBSET Broken]
  BY DEF GiveUpBroken, NoteBroken, BuildOk
<1>2. /\ bank' \in Bank /\ plane' \in PlaneSet /\ place' \in Nat
      /\ \/ pc' = "find" /\ place' \in UserMp
         \/ pc' = "select" /\ place' >= 1
  BY <1>1, NextBrokenOk
<1>3. CASE GiveUpBroken
  <2>1. PICK banks \in SUBSET Bank : llfRemapFlagInsertBlock(banks, place)
    BY <1>3 DEF GiveUpBroken
  <2>2. place \in UserMp \cap Broken
    BY <1>1, <1>3, BadBanksBroken DEF GiveUpBroken
  <2>3. UNCHANGED selected
    BY <1>3 DEF GiveUpBroken
  <2>4. /\ remap' \in [Bank -> Holder] /\ dbt' \in [Bank -> SUBSET Broken]
        /\ \A b \in Bank, n \in Nat : n \notin UserMp => (n \in dbt'[b] <=> n \in dbt[b])
    BY <2>1, <2>2, InsertKeeps
  <2>5. Spared
    BY <1>1, <2>4 DEF Spared
  <2> QED
    BY <1>1, <1>2, <2>3, <2>4, <2>5, SameSets DEF BuildOk, flash
<1>4. CASE NoteBroken
  <2>1. UNCHANGED <<dbt, remap>>
    BY <1>4 DEF NoteBroken
  <2>2. selected' \in Seq(UserMp \cap Broken)
    <3>1. CASE BadBanks(place) # {} /\ Len(selected) < SelectMax
      <4>1. place \in UserMp \cap Broken
        BY <1>1, <3>1, BadBanksBroken
      <4> QED
        BY <1>1, <1>4, <3>1, <4>1 DEF NoteBroken
    <3> QED
      BY <1>1, <1>4, <3>1 DEF NoteBroken
  <2> QED
    BY <1>1, <1>2, <2>1, <2>2, SameSets, SparedAll DEF BuildOk, flash
<1> QED
  BY <1>3, <1>4

LEMMA SelectKeeps ==
    ASSUME BuildOk, GiveUpSelected \/ EndSelect
    PROVE  BuildOk' /\ Spared
<1>1. /\ pc = "select" /\ place >= 1 /\ place \in Nat /\ bank \in Bank /\ plane \in PlaneSet
      /\ UNCHANGED <<flash, sysDbt, selected>>
      /\ selected \in Seq(UserMp \cap Broken) /\ remap \in [Bank -> Holder]
      /\ dbt \in [Bank -> SUBSET Broken]
  BY DEF GiveUpSelected, EndSelect, BuildOk
<1>2. CASE GiveUpSelected
  <2>1. /\ place <= Len(selected) /\ place' = place + 1 /\ UNCHANGED <<pc, bank, plane>>
        /\ \/ \E banks \in SUBSET Bank : llfRemapFlagInsertBlock(banks, selected[place])
           \/ UNCHANGED <<dbt, remap>>
    BY <1>2 DEF GiveUpSelected
  <2>2. selected[place] \in UserMp \cap Broken
    BY <1>1, <2>1
  <2>3. /\ remap' \in [Bank -> Holder] /\ dbt' \in [Bank -> SUBSET Broken]
        /\ \A b \in Bank, n \in Nat : n \notin UserMp => (n \in dbt'[b] <=> n \in dbt[b])
    <3>1. CASE \E banks \in SUBSET Bank : llfRemapFlagInsertBlock(banks, selected[place])
      BY <2>2, <3>1, InsertKeeps
    <3>2. CASE UNCHANGED <<dbt, remap>>
      BY <1>1, <3>2
    <3> QED
      BY <2>1, <3>1, <3>2
  <2>4. Spared
    BY <1>1, <2>3 DEF Spared
  <2>5. place' \in Nat /\ place' >= 1 /\ pc' = "select" /\ bank' \in Bank /\ plane' \in PlaneSet
    BY <1>1, <2>1
  <2> QED
    BY <1>1, <2>3, <2>4, <2>5, SameSets DEF BuildOk, flash
<1>3. CASE EndSelect
  <2>1. UNCHANGED dbt /\ remap' = LlfGetRealMaxBsNum(remap)
    BY <1>3 DEF EndSelect
  <2>2. remap' \in [Bank -> Holder]
    BY <1>1, <2>1, MaxBsOk
  <2>3. SSEnd \in UserMp /\ SSEnd \in Nat
    BY AreaSizes
  <2>4. /\ bank' \in Bank /\ plane' \in PlaneSet /\ place' \in Nat
        /\ pc' = "sortAgain" \/ (pc' = "redefine" /\ place' \in UserMp)
    BY <1>3, <2>3 DEF EndSelect, Goto, Bank, PlaneSet
  <2> QED
    BY <1>1, <2>1, <2>2, <2>4, SameSets, SparedAll DEF BuildOk, flash
<1> QED
  BY <1>2, <1>3

LEMMA InBlocksOf ==
    ASSUME NEW g \in Nat, NEW x \in BlocksOf(g)
    PROVE  x \in Nat /\ Group(x) = g
<1>1. PICK p \in PlaneSet : x = g * Planes + p
  BY DEF BlocksOf, PlaneSet
<1> QED
  BY <1>1, PartsBlock

LEMMA RedefineKeeps ==
    ASSUME BuildOk, ReplaceGroup \/ LeaveGroup
    PROVE  BuildOk' /\ Spared
<1>1. /\ pc = "redefine" /\ place \in UserMp /\ place \in Nat /\ bank \in Bank /\ plane \in PlaneSet
      /\ UNCHANGED <<flash, remap, selected>>
      /\ IF place + 1 < MpNum THEN place' = place + 1 /\ UNCHANGED <<pc, bank, plane>>
                              ELSE Goto("check", 0)
      /\ remap \in [Bank -> Holder]
      /\ dbt \in [Bank -> SUBSET Broken] /\ sysDbt \in [Bank -> SUBSET BrokenBlk]
  BY DEF ReplaceGroup, LeaveGroup, BuildOk
<1>2. /\ bank' \in Bank /\ plane' \in PlaneSet /\ place' \in Nat
      /\ \/ pc' = "redefine" /\ place' \in UserMp
         \/ pc' = "check"
  <2>1. CASE place + 1 < MpNum
    <3>1. place' = place + 1 /\ UNCHANGED <<pc, bank, plane>>
      BY <1>1, <2>1
    <3>2. place + 1 \in UserMp
      BY <1>1, <2>1 DEF UserMp
    <3> QED
      BY <1>1, <3>1, <3>2
  <2>2. CASE ~(place + 1 < MpNum)
    BY <1>1, <2>2 DEF Goto, Bank, PlaneSet
  <2> QED
    BY <2>1, <2>2
<1>3. /\ \A b \in Bank : dbt'[b] = dbt[b] \/ dbt'[b] = dbt[b] \ {place}
      /\ \A b \in Bank : sysDbt'[b] = sysDbt[b] \/ sysDbt'[b] = sysDbt[b] \ BlocksOf(place)
      /\ dbt' = [b \in Bank |-> dbt'[b]] /\ sysDbt' = [b \in Bank |-> sysDbt'[b]]
  <2>1. CASE ReplaceGroup
    <3> DEFINE gets == Taken(place)
    <3>1. /\ dbt' = [b \in Bank |-> IF b \in gets THEN dbt[b] \ {place} ELSE dbt[b]]
          /\ sysDbt' = [b \in Bank |-> IF b \in gets /\ place * Planes < SysMax
                                       THEN sysDbt[b] \ BlocksOf(place) ELSE sysDbt[b]]
      BY <2>1 DEF ReplaceGroup
    <3> HIDE DEF gets
    <3> QED
      BY <3>1
  <2>2. CASE LeaveGroup
    <3>1. dbt' = dbt /\ sysDbt' = sysDbt
      BY <2>2 DEF LeaveGroup
    <3> QED
      BY <1>1, <3>1
  <2> QED
    BY <2>1, <2>2
<1>4. dbt' \in [Bank -> SUBSET Broken] /\ sysDbt' \in [Bank -> SUBSET BrokenBlk]
  <2>1. \A b \in Bank : dbt'[b] \subseteq Broken /\ sysDbt'[b] \subseteq BrokenBlk
    BY <1>1, <1>3
  <2> QED
    BY <1>3, <2>1
<1>5. Spared
  <2>1. ASSUME NEW b \in Bank, NEW n \in Nat, n \notin UserMp
        PROVE  n \in dbt'[b] <=> n \in dbt[b]
    BY <1>1, <1>3, <2>1
  <2>2. ASSUME NEW b \in Bank, NEW x \in Blk, Group(x) \notin UserMp
        PROVE  x \in sysDbt'[b] <=> x \in sysDbt[b]
    <3>1. x \notin BlocksOf(place)
      BY <1>1, <2>2, InBlocksOf
    <3> QED
      BY <1>3, <3>1
  <2> QED
    BY <1>1, <2>1, <2>2 DEF Spared
<1> QED
  BY <1>1, <1>2, <1>4, <1>5, SameSets DEF BuildOk, flash

LEMMA CheckKeeps ==
    ASSUME BuildOk, CheckEntry \/ EndOfEntries \/ CheckLun
    PROVE  BuildOk' /\ Spared
<1>1. /\ UNCHANGED <<flash, dbt, sysDbt, remap, selected>>
      /\ bank \in Bank /\ plane \in PlaneSet /\ place \in Nat
  BY DEF CheckEntry, EndOfEntries, CheckLun, BuildOk
<1>2. /\ bank' \in Bank /\ plane' \in PlaneSet /\ place' \in Nat
      /\ pc' \in {"check", "checkLun", "done"}
  <2>1. CASE CheckEntry
    BY <1>1, <2>1 DEF CheckEntry, Refuse
  <2>2. CASE EndOfEntries
    BY <1>1, <2>2, PlaneLoop DEF EndOfEntries
  <2>3. CASE CheckLun
    BY <1>1, <2>3 DEF CheckLun, Refuse
  <2> QED
    BY <2>1, <2>2, <2>3
<1> QED
  BY <1>1, <1>2, SameSets, SparedAll DEF BuildOk, flash

LEMMA NextKeeps ==
    ASSUME BuildOk, Next
    PROVE  BuildOk' /\ Spared
BY EraseKeeps, SystemKeeps, DropKeeps, UpdateKeeps, SortKeeps, FindKeeps, SelectKeeps,
   RedefineKeeps, CheckKeeps DEF Next

\* The tables as the erase left them are those of the blocks that failed or have a mark.
LEMMA InitKeeps ==
    ASSUME Init
    PROVE  BuildOk
<1>1. PICK bad \in BadSets : marked \in SUBSET bad /\ failed = bad \ marked
  BY DEF Init
<1>2. bad \subseteq Bank \X Blk
  BY DEF AnyBlk
<1>3. failed \subseteq Bank \X Blk /\ marked \subseteq Bank \X Blk
  BY <1>1, <1>2
<1>4. ASSUME NEW b \in Bank, NEW x \in Bad(b)
      PROVE  x \in Blk /\ Group(x) \in Broken
  <2>1. <<b, x>> \in failed \cup marked
    BY <1>3, IsBad
  <2>2. <<b, x>>[2] = x
    OBVIOUS
  <2> QED
    BY <1>3, <2>1, <2>2 DEF Broken
<1>5. /\ dbt = [b \in Bank |-> {Group(x) : x \in Bad(b)}]
      /\ sysDbt = [b \in Bank |-> {x \in Bad(b) : x < SysMax}]
      /\ remap = [b \in Bank |-> LlfInitReMapTable]
      /\ selected = <<>> /\ pc = "erase" /\ bank = 0 /\ plane = 0 /\ place = 0
  BY DEF Init
<1>6. dbt \in [Bank -> SUBSET Broken] /\ sysDbt \in [Bank -> SUBSET BrokenBlk]
  BY <1>4, <1>5 DEF BrokenBlk
<1>7. LlfInitReMapTable \in Holder
  BY DEF LlfInitReMapTable, Holder, None
<1>8. selected \in Seq(UserMp \cap Broken)
  BY <1>5
<1> QED
  BY <1>3, <1>5, <1>6, <1>7, <1>8 DEF BuildOk, Bank, PlaneSet

------------------------------------------------------------------------------
(* The areas                                                               *)

TablesOk == dbt \in [Bank -> SUBSET Mp] /\ sysDbt \in [Bank -> SUBSET Blk]

LEMMA TablesOfBuild ==
    ASSUME BuildOk
    PROVE  TablesOk
<1>1. Broken \subseteq Mp
  BY BrokenGroups
<1>2. BrokenBlk \subseteq Blk
  BY DEF BrokenBlk
<1> QED
  BY <1>1, <1>2 DEF BuildOk, TablesOk

\* A set is as large as a range that is mapped into it one to one.
LEMMA RangeFits ==
    ASSUME NEW T, IsFiniteSet(T), NEW a \in Nat, NEW k \in Nat,
           NEW f \in [a .. (a + k - 1) -> T],
           \A i, j \in a .. (a + k - 1) : f[i] = f[j] => i = j
    PROVE  Cardinality(T) \in Nat /\ Cardinality(T) >= k
<1> DEFINE S == a .. (a + k - 1)
<1>1. f \in Injection(S, T)
  BY DEF Injection, IsInjective
<1>2. IsFiniteSet(S) /\ Cardinality(S) <= Cardinality(T)
  BY <1>1, FS_Injection
<1>3. Cardinality(S) = k
  <2>1. a \in Int /\ a + k - 1 \in Int
    OBVIOUS
  <2>2. Cardinality(S) = IF a > a + k - 1 THEN 0 ELSE (a + k - 1) - a + 1
    BY <2>1, FS_Interval
  <2> QED
    BY <2>2
<1>4. Cardinality(T) \in Nat
  BY FS_CardinalityType
<1> QED
  BY <1>2, <1>3, <1>4

\* The search for the end of an area ends: the first place where it is large enough.
LEMMA FirstEnd ==
    ASSUME NEW first \in Nat, NEW far \in Nat, NEW T \in SUBSET ((first + 1) .. far), T # {}
    PROVE  \E e \in T : e = first + 1 \/ e - 1 \notin T
<1>1. T \subseteq Nat
  OBVIOUS
<1>2. PICK e \in T : \A y \in T : e <= y
  BY <1>1, HasLowest
<1>3. e \in Nat /\ ~(e <= e - 1)
  BY <1>1, <1>2
<1> QED
  BY <1>2, <1>3

LEMMA Sizes ==
    /\ MpNum \in Nat /\ BankNum \in Nat \ {0} /\ Planes \in Nat \ {0}
    /\ DynBegin \in Nat /\ DynamicNum \in Nat \ {0} /\ SnapshotNum \in Nat \ {0}
    /\ Group(DynBegin) \in Nat /\ Group(DynBegin) < MpNum
    /\ DynBegin < MpNum * Planes
<1>1. DynBegin \in Nat /\ DynBegin < SysMax /\ SysMax <= MpNum * Planes
  BY PrepareAssumption
<1>2. DynBegin < MpNum * Planes /\ MpNum \in Nat /\ MpNum * Planes \in Nat
  BY <1>1
<1>3. Group(DynBegin) \in Nat /\ Group(DynBegin) < MpNum
  BY <1>1, <1>2, BlockParts, AreaBounds
<1> QED
  BY <1>1, <1>2, <1>3, PrepareAssumption

\* Behind the flash all groups are unmarked.
LEMMA BehindFlash ==
    ASSUME TablesOk, NEW m \in Nat, m >= MpNum
    PROVE  Usable(m) /\ (\A b \in Bank : ~llfIsMpBlockBad(dbt, b, m))
<1>1. \A b \in Bank : m \notin dbt[b]
  BY DEF TablesOk, Mp
<1>2. BadBanks(m) = {}
  BY <1>1 DEF BadBanks, llfIsMpBlockBad
<1>3. Cardinality(BadBanks(m)) = 0
  BY <1>2, FS_EmptySet
<1> QED
  BY <1>1, <1>3 DEF Usable, llfIsMpBlockBad

LEMMA BanksFinite == IsFiniteSet(Bank) /\ Cardinality(Bank) = BankNum /\ 0 \in Bank
<1>1. BankNum - 1 \in Int /\ 0 \in Int
  OBVIOUS
<1>2. IsFiniteSet(0 .. (BankNum - 1))
      /\ Cardinality(0 .. (BankNum - 1)) = IF 0 > BankNum - 1 THEN 0 ELSE (BankNum - 1) - 0 + 1
  BY <1>1, FS_Interval
<1> QED
  BY <1>2 DEF Bank

LEMMA StatesFit ==
    ASSUME TablesOk, NEW f \in Nat, f <= MpNum, NEW n \in Nat, n >= MpNum + DynamicNum
    PROVE  HoldsStates(f .. (n - 1))
<1> DEFINE S == f .. (n - 1)
           T == {x \in Bank \X UNION {BlocksOf(m) : m \in S} :
                   x[2] >= DynBegin /\ ~llfIsSystemBlkDefect(sysDbt, x[1], x[2])}
           r == MpNum .. (MpNum + DynamicNum - 1)
           g == [m \in r |-> <<0, m * Planes>>]
<1>1. IsFiniteSet(T)
  <2>1. IsFiniteSet(0 .. (n * Planes)) /\ IsFiniteSet(Bank)
    BY BanksFinite, FS_Interval, Sizes
  <2>2. IsFiniteSet(Bank \X (0 .. (n * Planes)))
    BY <2>1, FS_Product
  <2>3. ASSUME NEW m \in S, NEW y \in BlocksOf(m)
        PROVE  y \in 0 .. (n * Planes)
    <3>1. m \in Nat /\ m < n
      OBVIOUS
    <3>2. y \in Nat /\ Group(y) = m
      BY <3>1, InBlocksOf
    <3>3. y < n * Planes /\ n * Planes \in Nat
      BY <3>1, <3>2, AreaBounds
    <3> QED
      BY <3>2, <3>3
  <2>4. T \subseteq Bank \X (0 .. (n * Planes))
    BY <2>3
  <2> QED
    BY <2>2, <2>4, FS_Subset
<1>2. ASSUME NEW m \in r
      PROVE  <<0, m * Planes>> \in T
  <2>1. m \in Nat /\ m \in S /\ m >= MpNum /\ 0 \in PlaneSet
    BY Sizes DEF PlaneSet
  <2>2. m * Planes + 0 = m * Planes /\ m * Planes \in Nat /\ m * Planes \in BlocksOf(m)
    BY <2>1, Sizes DEF BlocksOf
  <2>3. Group(m * Planes) = m
    BY <2>1, <2>2, InBlocksOf
  <2>4. m * Planes \notin Blk
    <3>1. m \notin Mp
      BY <2>1, Sizes DEF Mp
    <3> QED
      BY <2>3, <3>1, BlkGroup
  <2>5. m * Planes >= MpNum * Planes
    BY <2>1, <2>2, <2>3, Sizes, AreaBounds
  <2>6. m * Planes >= DynBegin
    <3>1. MpNum * Planes \in Nat
      BY Sizes
    <3> QED
      BY <2>2, <2>5, <3>1, Sizes
  <2>7. ~llfIsSystemBlkDefect(sysDbt, 0, m * Planes)
    BY <2>4, BanksFinite DEF llfIsSystemBlkDefect, TablesOk
  <2> QED
    BY <2>1, <2>2, <2>6, <2>7, BanksFinite
<1>3. g \in [r -> T]
  BY <1>2
<1>4. ASSUME NEW i \in r, NEW j \in r, g[i] = g[j]
      PROVE  i = j
  <2>1. i * Planes = j * Planes /\ i \in Nat /\ j \in Nat
    BY <1>4, Sizes
  <2>2. 0 \in 0 .. (Planes - 1) /\ i * Planes + 0 = j * Planes + 0
    BY <2>1, Sizes
  <2> QED
    BY <2>1, <2>2, Unique
<1> HIDE DEF T, g
<1>5. Cardinality(T) >= DynamicNum
  <2>1. MpNum \in Nat /\ DynamicNum \in Nat
    BY Sizes
  <2>2. g \in [MpNum .. (MpNum + DynamicNum - 1) -> T]
    BY <1>3
  <2>3. \A i, j \in MpNum .. (MpNum + DynamicNum - 1) : g[i] = g[j] => i = j
    BY <1>4
  <2> QED
    BY ONLY <1>1, <2>1, <2>2, <2>3, RangeFits
<1> QED
  BY <1>5 DEF T, HoldsStates

LEMMA UsableFinite ==
    ASSUME NEW f \in Nat, NEW n \in Nat
    PROVE  /\ IsFiniteSet({m \in f .. (n - 1) : Usable(m)})
           /\ IsFiniteSet(Good(f .. (n - 1)))
<1>1. f \in Int /\ n - 1 \in Int
  OBVIOUS
<1>2. IsFiniteSet(f .. (n - 1)) /\ IsFiniteSet(Bank)
  BY <1>1, FS_Interval, BanksFinite
<1>3. IsFiniteSet(Bank \X (f .. (n - 1)))
  BY <1>2, FS_Product
<1>4. {m \in f .. (n - 1) : Usable(m)} \subseteq f .. (n - 1)
  OBVIOUS
<1>5. Good(f .. (n - 1)) \subseteq Bank \X (f .. (n - 1))
  BY DEF Good
<1> QED
  BY <1>2, <1>3, <1>4, <1>5, FS_Subset

\* Enough superblocks behind the flash are enough.
LEMMA SuperblocksFit ==
    ASSUME TablesOk, NEW k \in Nat, NEW a \in Nat, a >= MpNum,
           NEW f \in Nat, f <= a, NEW n \in Nat, n >= a + k
    PROVE  /\ Cardinality({m \in f .. (n - 1) : Usable(m)}) >= k
           /\ Cardinality(Good(f .. (n - 1))) >= k
<1> DEFINE S == f .. (n - 1)
           T == {m \in S : Usable(m)}
           r == a .. (a + k - 1)
           g == [m \in r |-> m]
           h == [m \in r |-> <<0, m>>]
<1>1. ASSUME NEW m \in r
      PROVE  /\ m \in T /\ <<0, m>> \in Good(S)
  <2>1. m \in Nat /\ m \in S /\ m >= MpNum
    BY Sizes
  <2>2. Usable(m) /\ ~llfIsMpBlockBad(dbt, 0, m) /\ 0 \in Bank
    BY <2>1, BehindFlash, BanksFinite
  <2> QED
    BY <2>1, <2>2 DEF Good
<1>2. g \in [r -> T] /\ h \in [r -> Good(S)]
  BY <1>1
<1>3. /\ \A i, j \in a .. (a + k - 1) : g[i] = g[j] => i = j
      /\ \A i, j \in a .. (a + k - 1) : h[i] = h[j] => i = j
  OBVIOUS
<1>4. IsFiniteSet(T) /\ IsFiniteSet(Good(S))
  BY UsableFinite
<1> HIDE DEF T, g, h, S
<1>5. Cardinality(T) >= k
  <2>1. g \in [a .. (a + k - 1) -> T]
    BY <1>2
  <2> QED
    BY SMTT(30), <1>3, <1>4, <2>1, RangeFits
<1>6. Cardinality(Good(S)) >= k
  <2>1. h \in [a .. (a + k - 1) -> Good(S)]
    BY <1>2
  <2> QED
    BY SMTT(30), <1>3, <1>4, <2>1, RangeFits
<1> QED
  BY <1>5, <1>6 DEF S, T

LEMMA CapIs ==
    ASSUME NEW cap \in Capacity
    PROVE  cap.host \in Nat /\ cap.bs \in Nat /\ cap.mp \in Nat /\ cap.op \in Nat /\ Far(cap) \in Nat
BY Sizes DEF Capacity, Far

\* The area of the states ends, behind the flash at the latest by as many groups as it needs.
LEMMA StatesEndOk ==
    ASSUME TablesOk, NEW cap \in Capacity
    PROVE  LET first == Group(DynBegin)
           IN  /\ StatesEnd(cap) \in (first + 1) .. (MpNum + DynamicNum)
               /\ HoldsStates(first .. (StatesEnd(cap) - 1))
<1> DEFINE first == Group(DynBegin)
           s     == StatesEnd(cap)
           last  == MpNum + DynamicNum
           T     == {e \in (first + 1) .. last : HoldsStates(first .. (e - 1))}
<1>1. /\ first \in Nat /\ last \in Nat /\ first < MpNum /\ first + 1 <= last
      /\ last <= Far(cap) /\ Far(cap) \in Nat /\ MpNum \in Nat
  BY Sizes, CapIs DEF Far
<1> HIDE DEF first, last
<1>2. HoldsStates(first .. (last - 1))
  BY <1>1, StatesFit DEF last
<1>3. T # {} /\ T \in SUBSET ((first + 1) .. last)
  <2>1. last \in (first + 1) .. last
    BY <1>1
  <2>2. last \in T
    BY <1>2, <2>1, Zenon
  <2> QED
    BY <2>2, Zenon
<1>4. PICK e \in T : e = first + 1 \/ e - 1 \notin T
  <2> HIDE DEF T
  <2> QED
    BY <1>1, <1>3, FirstEnd
<1>5. /\ e \in (first + 1) .. Far(cap)
      /\ HoldsStates(first .. (e - 1)) /\ (e = first + 1 \/ ~HoldsStates(first .. (e - 2)))
  <2>1. e \in (first + 1) .. last /\ e \in Nat /\ HoldsStates(first .. (e - 1))
    BY <1>1
  <2>2. CASE e # first + 1
    <3>1. e - 1 \in (first + 1) .. last /\ (e - 1) - 1 = e - 2
      BY <1>1, <2>1, <2>2
    <3> QED
      BY <1>1, <1>4, <2>1, <2>2, <3>1
  <2> QED
    BY <1>1, <2>1, <2>2
<1>6. /\ s \in (first + 1) .. Far(cap)
      /\ IsEnd(first, s, HoldsStates(first .. (s - 1)), HoldsStates(first .. (s - 2)))
  BY <1>5 DEF StatesEnd, IsEnd, first
<1> HIDE DEF s
<1>7. HoldsStates(first .. (s - 1)) /\ (s = first + 1 \/ ~HoldsStates(first .. (s - 2)))
  BY <1>6 DEF IsEnd
<1>8. s <= last
  <2> SUFFICES ASSUME s > last
               PROVE  FALSE
    BY <1>1, <1>6
  <2>1. s - 1 \in Nat /\ s - 1 >= last /\ (s - 1) - 1 = s - 2 /\ s # first + 1
    BY <1>1, <1>6
  <2>2. HoldsStates(first .. ((s - 1) - 1))
    BY <1>1, <2>1, StatesFit DEF last
  <2> QED
    BY <1>7, <2>1, <2>2
<1> QED
  BY <1>1, <1>6, <1>7, <1>8 DEF first, s, last

LEMMA SnapshotsFit ==
    ASSUME TablesOk, NEW f \in Nat, f <= MpNum + DynamicNum,
           NEW n \in Nat, n >= MpNum + DynamicNum + SnapshotNum
    PROVE  HoldsSnapshots(f .. (n - 1))
<1>1. /\ MpNum + DynamicNum \in Nat /\ MpNum + DynamicNum >= MpNum /\ SnapshotNum \in Nat
  BY Sizes
<1> DEFINE a == MpNum + DynamicNum
<1> HIDE DEF a
<1>2. /\ a \in Nat /\ a >= MpNum /\ f <= a /\ n >= a + SnapshotNum
  BY <1>1 DEF a
<1>3. Cardinality({m \in f .. (n - 1) : Usable(m)}) >= SnapshotNum
  BY <1>1, <1>2, SuperblocksFit
<1> QED
  BY <1>3 DEF HoldsSnapshots

LEMMA SnapshotsEndOk ==
    ASSUME TablesOk, NEW cap \in Capacity, NEW first \in Nat, first <= MpNum + DynamicNum
    PROVE  /\ SnapshotsEnd(cap, first) \in (first + 1) .. (MpNum + DynamicNum + SnapshotNum)
           /\ HoldsSnapshots(first .. (SnapshotsEnd(cap, first) - 1))
<1> DEFINE s     == SnapshotsEnd(cap, first)
           last  == MpNum + DynamicNum + SnapshotNum
           T     == {e \in (first + 1) .. last : HoldsSnapshots(first .. (e - 1))}
<1>1. /\ last \in Nat /\ first + 1 <= last /\ last <= Far(cap) /\ Far(cap) \in Nat /\ MpNum \in Nat
  BY Sizes, CapIs DEF Far
<1> HIDE DEF last
<1>2. HoldsSnapshots(first .. (last - 1))
  BY <1>1, SnapshotsFit DEF last
<1>3. T # {} /\ T \in SUBSET ((first + 1) .. last)
  <2>1. last \in (first + 1) .. last
    BY <1>1
  <2>2. last \in T
    BY <1>2, <2>1, Zenon
  <2> QED
    BY <2>2, Zenon
<1>4. PICK e \in T : e = first + 1 \/ e - 1 \notin T
  <2> HIDE DEF T
  <2> QED
    BY <1>1, <1>3, FirstEnd
<1>5. /\ e \in (first + 1) .. Far(cap)
      /\ HoldsSnapshots(first .. (e - 1)) /\ (e = first + 1 \/ ~HoldsSnapshots(first .. (e - 2)))
  <2>1. e \in (first + 1) .. last /\ e \in Nat /\ HoldsSnapshots(first .. (e - 1))
    BY <1>1
  <2>2. CASE e # first + 1
    <3>1. e - 1 \in (first + 1) .. last /\ (e - 1) - 1 = e - 2
      BY <1>1, <2>1, <2>2
    <3> QED
      BY <1>1, <1>4, <2>1, <2>2, <3>1
  <2> QED
    BY <1>1, <2>1, <2>2
<1>6. /\ s \in (first + 1) .. Far(cap)
      /\ IsEnd(first, s, HoldsSnapshots(first .. (s - 1)), HoldsSnapshots(first .. (s - 2)))
  BY <1>5 DEF SnapshotsEnd, IsEnd
<1> HIDE DEF s
<1>7. HoldsSnapshots(first .. (s - 1)) /\ (s = first + 1 \/ ~HoldsSnapshots(first .. (s - 2)))
  BY <1>6 DEF IsEnd
<1>8. s <= last
  <2> SUFFICES ASSUME s > last
               PROVE  FALSE
    BY <1>1, <1>6
  <2>1. s - 1 \in Nat /\ s - 1 >= last /\ (s - 1) - 1 = s - 2 /\ s # first + 1
    BY <1>1, <1>6
  <2>2. HoldsSnapshots(first .. ((s - 1) - 1))
    BY <1>1, <2>1, SnapshotsFit DEF last
  <2> QED
    BY <1>7, <2>1, <2>2
<1> QED
  BY <1>1, <1>6, <1>7, <1>8 DEF s, last

LEMMA MapEndOk ==
    ASSUME TablesOk, NEW cap \in Capacity, NEW first \in Nat,
           first <= MpNum + DynamicNum + SnapshotNum, first + 1 <= Far(cap)
    PROVE  /\ MapEnd(cap, first) \in (first + 1) .. Far(cap)
           /\ HoldsMap(cap, first .. (MapEnd(cap, first) - 1))
<1> DEFINE s     == MapEnd(cap, first)
           last  == Far(cap)
           T     == {e \in (first + 1) .. last : HoldsMap(cap, first .. (e - 1))}
<1>1. last \in Nat /\ first + 1 <= last
  BY CapIs
<1>2. HoldsMap(cap, first .. (last - 1))
  <2> DEFINE a == MpNum + DynamicNum + SnapshotNum
             k == cap.bs + cap.mp
  <2>1. /\ a \in Nat /\ a >= MpNum /\ first <= a /\ k \in Nat /\ last >= a + k
        /\ cap.bs \in Nat /\ cap.mp \in Nat
    BY Sizes, CapIs DEF Far
  <2> HIDE DEF a, k, last
  <2>2. /\ Cardinality({m \in first .. (last - 1) : Usable(m)}) >= k
        /\ Cardinality(Good(first .. (last - 1))) >= k
    BY <1>1, <2>1, SuperblocksFit
  <2>3. /\ Cardinality({m \in first .. (last - 1) : Usable(m)}) \in Nat
        /\ Cardinality(Good(first .. (last - 1))) \in Nat
    BY <1>1, UsableFinite, FS_CardinalityType
  <2>4. k >= cap.bs /\ k >= cap.mp /\ k \in Nat
    BY <2>1 DEF k
  <2> QED
    BY <2>1, <2>2, <2>3, <2>4 DEF HoldsMap
<1> HIDE DEF last
<1>3. T # {} /\ T \in SUBSET ((first + 1) .. last)
  <2>1. last \in (first + 1) .. last
    BY <1>1
  <2>2. last \in T
    BY <1>2, <2>1, Zenon
  <2> QED
    BY <2>2, Zenon
<1>4. PICK e \in T : e = first + 1 \/ e - 1 \notin T
  <2> HIDE DEF T
  <2> QED
    BY <1>1, <1>3, FirstEnd
<1>5. /\ e \in (first + 1) .. last
      /\ HoldsMap(cap, first .. (e - 1)) /\ (e = first + 1 \/ ~HoldsMap(cap, first .. (e - 2)))
  <2>1. e \in (first + 1) .. last /\ e \in Nat /\ HoldsMap(cap, first .. (e - 1))
    BY <1>1
  <2>2. CASE e # first + 1
    <3>1. e - 1 \in (first + 1) .. last /\ (e - 1) - 1 = e - 2
      BY <1>1, <2>1, <2>2
    <3> QED
      BY <1>1, <1>4, <2>1, <2>2, <3>1
  <2> QED
    BY <1>1, <2>1, <2>2
<1>6. /\ s \in (first + 1) .. last
      /\ IsEnd(first, s, HoldsMap(cap, first .. (s - 1)), HoldsMap(cap, first .. (s - 2)))
  BY <1>5 DEF MapEnd, IsEnd, last
<1> HIDE DEF s
<1>7. HoldsMap(cap, first .. (s - 1))
  BY <1>6 DEF IsEnd
<1> QED
  BY <1>6, <1>7 DEF s, last

Areas3 == [ssBegin : Nat, ssEnd : Nat, l2pEnd : Nat]

\* The areas that are laid out hold what they are for, by the tables of that moment.
LEMMA LaysOut ==
    ASSUME TablesOk, NEW cap \in Capacity, NEW a, a = CalculateSnapshotArea(cap)
    PROVE  /\ a \in Areas3 /\ Group(DynBegin) < a.ssBegin /\ a.ssBegin < a.ssEnd /\ a.ssEnd < a.l2pEnd
           /\ HoldsStates(Group(DynBegin) .. (a.ssBegin - 1))
           /\ HoldsSnapshots(a.ssBegin .. (a.ssEnd - 1))
           /\ HoldsMap(cap, a.ssEnd .. (a.l2pEnd - 1))
<1> DEFINE begin == StatesEnd(cap)
           end   == SnapshotsEnd(cap, begin)
           l2p   == MapEnd(cap, end)
<1>1. /\ begin \in (Group(DynBegin) + 1) .. (MpNum + DynamicNum)
      /\ HoldsStates(Group(DynBegin) .. (begin - 1))
  BY StatesEndOk
<1>2. a = [ssBegin |-> begin, ssEnd |-> end, l2pEnd |-> l2p]
  BY DEF CalculateSnapshotArea
<1> HIDE DEF begin
<1>3. begin \in Nat /\ begin <= MpNum + DynamicNum /\ Group(DynBegin) < begin
  BY <1>1, Sizes
<1>4. /\ end \in (begin + 1) .. (MpNum + DynamicNum + SnapshotNum)
      /\ HoldsSnapshots(begin .. (end - 1))
  BY <1>3, SnapshotsEndOk
<1> HIDE DEF end
<1>5. /\ end \in Nat /\ end <= MpNum + DynamicNum + SnapshotNum /\ begin < end
      /\ end + 1 <= Far(cap)
  <2>1. cap.bs \in Nat \ {0} /\ cap.mp \in Nat
    BY DEF Capacity
  <2> QED
    BY <1>3, <1>4, <2>1, Sizes DEF Far
<1>6. l2p \in (end + 1) .. Far(cap) /\ HoldsMap(cap, end .. (l2p - 1))
  BY <1>5, MapEndOk
<1> HIDE DEF l2p
<1>7. l2p \in Nat /\ end < l2p
  BY <1>5, <1>6, CapIs
<1> QED
  BY <1>1, <1>2, <1>3, <1>4, <1>5, <1>6, <1>7 DEF Areas3

------------------------------------------------------------------------------
(* The preparation                                                         *)

\* What the areas of a format hold (AreasSuffice, before the capacity is accepted too).
Laid ==
    LET map == areas.ssEnd .. (areas.l2pEnd - 1)
    IN  /\ areas.ssBegin <= areas.ssEnd
        /\ HoldsStates(Group(DynBegin) .. (areas.ssBegin - 1))
        /\ HoldsSnapshots(areas.ssBegin .. (areas.ssEnd - 1))
        /\ tried > 0 \/ Whole(map) => HoldsMap(Cap, map)

PrepInv ==
    /\ TablesOk /\ areas \in Areas3
    /\ wanted \in 1 .. Len(Capacities) /\ tried \in Nat
    /\ phase \in {"areas", "remap"} => tried = 0
    /\ phase = "remap" => mode = "FORMAT"
    /\ phase = "erase" => mode \in {"INHERIT", "DEFECT"}
    /\ mode = "FORMAT" => BuildOk
    /\ mode = "FORMAT" /\ phase # "areas" => Laid
    /\ phase = "accepted" /\ mode # "INHERIT" => llfCheckDefectThreshold(Cap) = "ERR_OK"

LEMMA CapOk ==
    ASSUME NEW i \in 1 .. Len(Capacities)
    PROVE  Capacities[i] \in Capacity
BY PrepareAssumption

LEMMA FirstCapacity == 1 \in 1 .. Len(Capacities) /\ Len(Capacities) \in Nat
BY PrepareAssumption

LEMMA SameTables ==
    ASSUME UNCHANGED <<dbt, sysDbt>>
    PROVE  /\ TablesOk' <=> TablesOk
           /\ \A S : HoldsStates(S)' <=> HoldsStates(S)
           /\ \A S : HoldsSnapshots(S)' <=> HoldsSnapshots(S)
           /\ \A cap, S : HoldsMap(cap, S)' <=> HoldsMap(cap, S)
<1>1. \A m : BadBanks(m)' = BadBanks(m)
  BY DEF BadBanks, llfIsMpBlockBad
<1>2. \A m : Usable(m)' <=> Usable(m)
  BY <1>1 DEF Usable
<1>3. \A S : Good(S)' = Good(S)
  BY <1>2 DEF Good, llfIsMpBlockBad
<1>4. \A S : {m \in S : Usable(m)'} = {m \in S : Usable(m)}
  BY <1>2
<1>5. \A S : HoldsSnapshots(S)' <=> HoldsSnapshots(S)
  BY <1>4 DEF HoldsSnapshots
<1>6. \A cap, S : HoldsMap(cap, S)' <=> HoldsMap(cap, S)
  BY <1>3, <1>4 DEF HoldsMap
<1>7. \A S : HoldsStates(S)' <=> HoldsStates(S)
  BY DEF HoldsStates, llfIsSystemBlkDefect
<1>8. TablesOk' <=> TablesOk
  BY DEF TablesOk
<1> QED
  BY <1>5, <1>6, <1>7, <1>8

LEMMA SameBuild ==
    ASSUME UNCHANGED vars
    PROVE  BuildOk' <=> BuildOk
<1>1. UNCHANGED <<flash, dbt, sysDbt, remap, selected, pc, bank, plane, place>>
  BY DEF vars
<1>2. UNCHANGED flash /\ UNCHANGED <<failed, marked>>
  BY <1>1 DEF flash
<1>3. Broken' = Broken /\ Part' = Part /\ Holder' = Holder /\ BrokenBlk' = BrokenBlk
  BY <1>2, SameSets
<1> QED
  BY <1>1, <1>2, <1>3 DEF BuildOk

LEMMA SameWhole ==
    ASSUME UNCHANGED flash, NEW S
    PROVE  Whole(S)' <=> Whole(S)
BY DEF Whole, Bad, Of, flash

\* The areas that were just laid out.
LEMMA LaidNow ==
    ASSUME TablesOk, NEW i \in 1 .. Len(Capacities),
           areas' = CalculateSnapshotArea(Capacities[i]), wanted' = i, UNCHANGED vars
    PROVE  areas' \in Areas3 /\ Laid'
<1>1. PICK a : a = CalculateSnapshotArea(Capacities[i])
  OBVIOUS
<1>2. /\ a \in Areas3 /\ Group(DynBegin) < a.ssBegin /\ a.ssBegin < a.ssEnd
      /\ HoldsStates(Group(DynBegin) .. (a.ssBegin - 1))
      /\ HoldsSnapshots(a.ssBegin .. (a.ssEnd - 1))
      /\ HoldsMap(Capacities[i], a.ssEnd .. (a.l2pEnd - 1))
  BY <1>1, CapOk, LaysOut
<1>3. UNCHANGED <<dbt, sysDbt>>
  BY DEF vars
<1>4. /\ HoldsStates(Group(DynBegin) .. (a.ssBegin - 1))'
      /\ HoldsSnapshots(a.ssBegin .. (a.ssEnd - 1))'
      /\ HoldsMap(Capacities[i], a.ssEnd .. (a.l2pEnd - 1))'
  BY <1>2, <1>3, SameTables
<1>5. areas' = a /\ Cap' = Capacities[i]
  BY <1>1 DEF Cap
<1>6. a.ssBegin <= a.ssEnd
  BY <1>2 DEF Areas3
<1> QED
  BY <1>2, <1>4, <1>5, <1>6 DEF Laid

\* The build of replacements leaves the areas of states and snapshots as they are ...
LEMMA FirstAreasSpared ==
    ASSUME TablesOk, TablesOk', Spared, NEW S \in SUBSET Nat, \A m \in S : m < SSEnd
    PROVE  (HoldsStates(S)' <=> HoldsStates(S)) /\ (HoldsSnapshots(S)' <=> HoldsSnapshots(S))
<1>1. ASSUME NEW m \in S
      PROVE  m \in Nat /\ m \in Mp /\ m \notin UserMp
  <2>1. m \in Nat /\ m < SSEnd /\ SSEnd \in Nat
    OBVIOUS
  <2> QED
    BY <2>1, AreaSizes, Sizes DEF Mp, UserMp
<1>2. \A m \in S : BadBanks(m)' = BadBanks(m)
  BY <1>1 DEF BadBanks, llfIsMpBlockBad, Spared
<1>3. {m \in S : Usable(m)'} = {m \in S : Usable(m)}
  BY <1>2 DEF Usable
<1>4. ASSUME NEW x \in Bank \X UNION {BlocksOf(m) : m \in S}
      PROVE  x[2] \in sysDbt'[x[1]] <=> x[2] \in sysDbt[x[1]]
  <2>1. PICK m \in S : x[2] \in BlocksOf(m)
    OBVIOUS
  <2>2. PICK p \in PlaneSet : x[2] = m * Planes + p
    BY <2>1 DEF BlocksOf, PlaneSet
  <2>3. x[2] \in Blk /\ Group(x[2]) = m
    BY <1>1, <2>2, BlkIsGroups, PartsBlock
  <2> QED
    BY <1>1, <2>3 DEF Spared
<1>5. {x \in Bank \X UNION {BlocksOf(m) : m \in S} :
          x[2] >= DynBegin /\ x[2] \notin sysDbt'[x[1]]}
      = {x \in Bank \X UNION {BlocksOf(m) : m \in S} :
          x[2] >= DynBegin /\ x[2] \notin sysDbt[x[1]]}
  BY <1>4
<1>6. HoldsStates(S)' <=> HoldsStates(S)
  BY <1>5 DEF HoldsStates, llfIsSystemBlkDefect
<1>7. HoldsSnapshots(S)' <=> HoldsSnapshots(S)
  BY <1>3 DEF HoldsSnapshots
<1> QED
  BY <1>6, <1>7

\* ... and that of the map if no block of it failed.
LEMMA WholeMapSpared ==
    ASSUME BuildOk, BuildOk', Broken' = Broken, NEW cap, NEW S \in SUBSET Nat, Whole(S)
    PROVE  HoldsMap(cap, S)' <=> HoldsMap(cap, S)
<1>1. ASSUME NEW m \in S
      PROVE  m \notin Broken
  <2> SUFFICES ASSUME m \in Broken
               PROVE  FALSE
    OBVIOUS
  <2>1. PICK c \in failed \cup marked : m = Group(c[2])
    BY DEF Broken
  <2>2. c \in Bank \X Blk
    BY <2>1 DEF BuildOk
  <2>3. c[1] \in Bank /\ c = <<c[1], c[2]>>
    BY <2>2
  <2>4. c[2] \in Bad(c[1])
    BY <2>1, <2>3, IsBad DEF BuildOk
  <2> QED
    BY <2>1, <2>3, <2>4 DEF Whole
<1>2. ASSUME NEW m \in S, NEW b \in Bank
      PROVE  m \notin dbt[b] /\ m \notin dbt'[b]
  BY <1>1, <1>2 DEF BuildOk
<1>3. \A m \in S : BadBanks(m)' = BadBanks(m)
  BY <1>2 DEF BadBanks, llfIsMpBlockBad
<1>4. \A m \in S : Usable(m)' <=> Usable(m)
  BY <1>3 DEF Usable
<1>5. {m \in S : Usable(m)'} = {m \in S : Usable(m)}
  BY <1>4
<1>6. \A x \in Bank \X S : x[2] \in S /\ x[1] \in Bank
  OBVIOUS
<1>7. Good(S)' = Good(S)
  BY <1>2, <1>4, <1>6 DEF Good, llfIsMpBlockBad
<1> QED
  BY <1>5, <1>7 DEF HoldsMap

LEMMA BuildKeepsLaid ==
    ASSUME PrepInv, BuildRemap
    PROVE  BuildOk' /\ Laid'
<1>1. /\ phase = "remap" /\ mode = "FORMAT" /\ tried = 0 /\ BuildOk /\ Laid /\ TablesOk
      /\ areas.ssEnd = SSEnd /\ Next /\ UNCHANGED <<areas, wanted, tried>> /\ areas \in Areas3
  BY DEF PrepInv, BuildRemap, ours
<1>2. BuildOk' /\ Spared
  BY <1>1, NextKeeps
<1>3. TablesOk' /\ UNCHANGED flash /\ Broken' = Broken
  <2>1. UNCHANGED flash
    BY <1>2 DEF Spared
  <2>2. BuildOk' => TablesOk'
    BY TablesOfBuild, PTL
  <2> QED
    BY <1>2, <2>1, <2>2, SameSets
<1> DEFINE A == Group(DynBegin) .. (areas.ssBegin - 1)
           B == areas.ssBegin .. (areas.ssEnd - 1)
           C == areas.ssEnd .. (areas.l2pEnd - 1)
<1>4. /\ areas.ssBegin \in Nat /\ areas.ssEnd \in Nat /\ areas.l2pEnd \in Nat
      /\ areas.ssBegin <= SSEnd /\ areas.ssEnd = SSEnd
  BY <1>1 DEF Areas3, Laid
<1>5. /\ A \in SUBSET Nat /\ B \in SUBSET Nat /\ C \in SUBSET Nat
      /\ \A m \in A : m < SSEnd
      /\ \A m \in B : m < SSEnd
  BY <1>4, Sizes
<1>6. PICK a, b, c : a = A /\ b = B /\ c = C
  OBVIOUS
<1>7. A' = a /\ B' = b /\ C' = c /\ Cap' = Cap /\ tried' = tried /\ areas' = areas
  BY <1>1, <1>6 DEF Cap
<1>8. HoldsStates(a) /\ HoldsSnapshots(b) /\ (Whole(c) => HoldsMap(Cap, c))
  BY <1>1, <1>6 DEF Laid
<1>9. HoldsStates(a)' /\ HoldsSnapshots(b)'
  BY <1>1, <1>2, <1>3, <1>5, <1>6, <1>8, FirstAreasSpared
<1>10. Whole(c)' => HoldsMap(Cap, c)'
  <2> SUFFICES ASSUME Whole(c)'
               PROVE  HoldsMap(Cap, c)'
    OBVIOUS
  <2>1. Whole(c)
    BY <1>3, SameWhole
  <2>2. PICK cap : cap = Cap
    OBVIOUS
  <2>3. HoldsMap(cap, c)'
    BY <1>1, <1>2, <1>3, <1>5, <1>6, <1>8, <2>1, <2>2, WholeMapSpared
  <2>4. Cap' = cap
    BY <1>7, <2>2
  <2> QED
    BY <2>3, <2>4
<1>11. areas.ssBegin' <= areas.ssEnd'
  BY <1>1 DEF Laid
<1>12. ~(tried' > 0)
  BY <1>1
<1> HIDE DEF A, B, C
<1>13. Laid' = (/\ areas.ssBegin' <= areas.ssEnd'
                /\ HoldsStates(A)' /\ HoldsSnapshots(B)'
                /\ (tried' > 0 \/ Whole(C)' => HoldsMap(Cap, C)'))
  BY DEF Laid, A, B, C
<1>14. /\ HoldsStates(A)' /\ HoldsSnapshots(B)'
       /\ (Whole(C)' => HoldsMap(Cap, C)')
  BY <1>7, <1>9, <1>10
<1> QED
  BY <1>2, <1>11, <1>12, <1>13, <1>14

LEMMA SameLaid ==
    ASSUME UNCHANGED <<vars, areas, wanted, tried>>
    PROVE  Laid' <=> Laid
<1>1. UNCHANGED <<dbt, sysDbt>> /\ UNCHANGED flash
  BY DEF vars
<1>2. PICK a, b, c, cap : /\ a = Group(DynBegin) .. (areas.ssBegin - 1)
                          /\ b = areas.ssBegin .. (areas.ssEnd - 1)
                          /\ c = areas.ssEnd .. (areas.l2pEnd - 1) /\ cap = Cap
  OBVIOUS
<1>3. /\ (HoldsStates(a)' <=> HoldsStates(a)) /\ (HoldsSnapshots(b)' <=> HoldsSnapshots(b))
      /\ (HoldsMap(cap, c)' <=> HoldsMap(cap, c)) /\ (Whole(c)' <=> Whole(c))
  BY <1>1, SameTables, SameWhole
<1>4. /\ a = (Group(DynBegin) .. (areas.ssBegin - 1))'
      /\ b = (areas.ssBegin .. (areas.ssEnd - 1))'
      /\ c = (areas.ssEnd .. (areas.l2pEnd - 1))' /\ cap = Cap'
  BY <1>2 DEF Cap
<1> QED
  BY <1>2, <1>3, <1>4 DEF Laid

LEMMA SameCheck ==
    ASSUME UNCHANGED <<vars, areas, wanted, mode>>
    PROVE  llfCheckDefectThreshold(Cap)' = llfCheckDefectThreshold(Cap)
<1>1. UNCHANGED <<dbt, sysDbt>>
  BY DEF vars
<1> QED
  BY <1>1 DEF llfCheckDefectThreshold, Cap, BankOverLimit, MapTooLong, Used, FreeEnough, BadBehind,
              Behind, Good, Usable, BadBanks, llfIsMpBlockBad

\* The parts of PrepInv that are about the tables, while these and the areas stay.
LEMMA PrepSame ==
    ASSUME PrepInv, UNCHANGED <<vars, mode, wanted, tried, areas>>
    PROVE  /\ TablesOk' /\ areas' \in Areas3
           /\ wanted' \in 1 .. Len(Capacities) /\ tried' \in Nat
           /\ mode = "FORMAT" => BuildOk'
           /\ Laid' <=> Laid
           /\ llfCheckDefectThreshold(Cap)' = llfCheckDefectThreshold(Cap)
<1>1. UNCHANGED <<dbt, sysDbt>>
  BY DEF vars
<1>2. TablesOk'
  BY <1>1, SameTables DEF PrepInv
<1>3. mode = "FORMAT" => BuildOk'
  BY SameBuild DEF PrepInv
<1>4. Laid' <=> Laid
  BY SameLaid
<1>5. llfCheckDefectThreshold(Cap)' = llfCheckDefectThreshold(Cap)
  BY SameCheck
<1> QED
  BY <1>2, <1>3, <1>4, <1>5 DEF PrepInv

LEMMA PrepStarts ==
    ASSUME PrepareInit
    PROVE  PrepInv
<1>1. /\ wanted = 1 /\ tried = 0 /\ phase = "areas"
      /\ areas = [ssBegin |-> 0, ssEnd |-> 0, l2pEnd |-> 0]
  BY DEF PrepareInit
<1>2. areas \in Areas3
  BY <1>1 DEF Areas3
<1>3. TablesOk /\ (mode = "FORMAT" => BuildOk)
  <2>1. CASE mode = "FORMAT" /\ Init
    BY <2>1, InitKeeps, TablesOfBuild
  <2>2. CASE ~(mode = "FORMAT" /\ Init)
    <3>1. PICK x \in Inherited :
             /\ mode = x.mode
             /\ dbt = [b \in Bank |-> {Group(c) : c \in Of(b, x.bad)}]
             /\ sysDbt = [b \in Bank |-> {c \in Of(b, x.bad) : c < SysMax}]
      BY <2>2 DEF PrepareInit
    <3>2. x.bad \subseteq Bank \X Blk /\ mode # "FORMAT"
      BY <3>1, PrepareAssumption
    <3>3. ASSUME NEW b \in Bank, NEW c \in Of(b, x.bad)
          PROVE  c \in Blk /\ Group(c) \in Mp
      <4>1. c \in Blk
        BY <3>2 DEF Of
      <4> QED
        BY <4>1, BlkGroup
    <3> QED
      BY <3>1, <3>2, <3>3 DEF TablesOk
  <2> QED
    BY <2>1, <2>2
<1> QED
  BY <1>1, <1>2, <1>3, FirstCapacity DEF PrepInv

LEMMA PrepSteps ==
    ASSUME PrepInv, [PrepareNext]_allVars
    PROVE  PrepInv'
<1>1. CASE LayOut
  <2>1. /\ phase = "areas" /\ areas' = CalculateSnapshotArea(Cap) /\ tried = 0
        /\ phase' = IF mode = "FORMAT" THEN "remap" ELSE "check"
        /\ UNCHANGED vars /\ UNCHANGED <<mode, wanted, tried>>
        /\ TablesOk /\ wanted \in 1 .. Len(Capacities)
    BY <1>1 DEF LayOut, PrepInv
  <2>2. areas' \in Areas3 /\ Laid'
    BY <2>1, LaidNow DEF Cap
  <2>3. UNCHANGED <<dbt, sysDbt>>
    BY <2>1 DEF vars
  <2>4. TablesOk' /\ (mode = "FORMAT" => BuildOk')
    BY <2>1, <2>3, SameTables, SameBuild DEF PrepInv
  <2> QED
    BY <2>1, <2>2, <2>4 DEF PrepInv
<1>2. CASE BuildRemap
  <2>1. BuildOk' /\ Laid'
    BY <1>2, BuildKeepsLaid
  <2>2. BuildOk' => TablesOk'
    BY TablesOfBuild, PTL
  <2>3. phase = "remap" /\ UNCHANGED <<mode, phase, wanted, tried, areas>>
    BY <1>2 DEF BuildRemap, ours
  <2> QED
    BY <2>1, <2>2, <2>3 DEF PrepInv
<1>3. CASE RemapBuilt
  <2>1. /\ phase = "remap" /\ phase' \in {"check", "refused"}
        /\ UNCHANGED <<vars, mode, wanted, tried, areas>>
    BY <1>3 DEF RemapBuilt
  <2> QED
    BY <2>1, PrepSame DEF PrepInv
<1>4. CASE Accept
  <2>1. /\ phase \in {"check", "recheck"} /\ llfCheckDefectThreshold(Cap) = "ERR_OK"
        /\ phase' = IF phase = "check" /\ mode \in {"INHERIT", "DEFECT"} THEN "erase" ELSE "accepted"
        /\ UNCHANGED <<vars, mode, wanted, tried, areas>>
    BY <1>4 DEF Accept, Checks
  <2> QED
    BY <2>1, PrepSame DEF PrepInv
<1>5. CASE TryNext
  <2>1. /\ phase \in {"check", "recheck"} /\ tried + 1 < Len(Capacities)
        /\ tried' = tried + 1 /\ wanted' = tried' + 1
        /\ areas' = CalculateSnapshotArea(Capacities[wanted'])
        /\ UNCHANGED vars /\ UNCHANGED <<mode, phase>> /\ tried \in Nat /\ TablesOk
    BY <1>5 DEF TryNext, Checks, Another, PrepInv
  <2>2. tried' \in Nat /\ wanted' \in 1 .. Len(Capacities)
    BY <2>1, FirstCapacity
  <2>3. areas' \in Areas3 /\ Laid'
    BY <2>1, <2>2, LaidNow
  <2>4. UNCHANGED <<dbt, sysDbt>>
    BY <2>1 DEF vars
  <2>5. TablesOk' /\ (mode = "FORMAT" => BuildOk')
    BY <2>1, <2>4, SameTables, SameBuild DEF PrepInv
  <2> QED
    BY <2>1, <2>2, <2>3, <2>5 DEF PrepInv
<1>6. CASE GiveUp
  <2>1. /\ phase \in {"check", "recheck"} /\ phase' = "refused"
        /\ UNCHANGED <<vars, mode, wanted, tried, areas>>
    BY <1>6 DEF GiveUp, Checks
  <2> QED
    BY <2>1, PrepSame DEF PrepInv
<1>7. CASE EraseFails
  <2>1. /\ phase = "erase" /\ mode # "FORMAT" /\ UNCHANGED <<mode, phase, wanted, tried, areas>>
    BY <1>7 DEF EraseFails, PrepInv
  <2>2. PICK b \in Bank, x \in Blk :
           /\ dbt' = llfSetDBT(dbt, b, x)
           /\ sysDbt' = IF x < SysMax THEN llfMarkSystemBlkDefect(sysDbt, b, x) ELSE sysDbt
    BY <1>7 DEF EraseFails
  <2>3. TablesOk'
    BY <2>2, BlkGroup DEF TablesOk, PrepInv, llfSetDBT, llfMarkUserMPBlkDefect,
                          llfMarkSystemBlkDefect
  <2> QED
    BY <2>1, <2>3 DEF PrepInv
<1>8. CASE EraseDone
  <2>1. /\ phase = "erase" /\ mode \in {"INHERIT", "DEFECT"}
        /\ phase' = IF mode = "DEFECT" THEN "recheck" ELSE "accepted"
        /\ tried' = 0 /\ UNCHANGED vars /\ UNCHANGED <<mode, wanted, areas>>
    BY <1>8 DEF EraseDone, AfterErase, PrepInv
  <2>2. UNCHANGED <<dbt, sysDbt>>
    BY <2>1 DEF vars
  <2>3. TablesOk'
    BY <2>2, SameTables DEF PrepInv
  <2> QED
    BY <2>1, <2>3 DEF PrepInv
<1>9. CASE UNCHANGED allVars
  <2>1. UNCHANGED <<vars, mode, wanted, tried, areas>> /\ UNCHANGED phase
    BY <1>9 DEF allVars, ours
  <2> QED
    BY <2>1, PrepSame DEF PrepInv
<1> QED
  BY <1>1, <1>2, <1>3, <1>4, <1>5, <1>6, <1>7, <1>8, <1>9 DEF PrepareNext

LEMMA PrepInvariant == PrepareSpec => []PrepInv
<1>1. PrepareInit => PrepInv
  BY PrepStarts
<1>2. PrepInv /\ [PrepareNext]_allVars => PrepInv'
  BY PrepSteps
<1> QED
  BY <1>1, <1>2, PTL DEF PrepareSpec

\* The areas of a format that is accepted hold what they were laid out for, whatever the
\* build of replacements has given up and brought back after they were laid out.
THEOREM AreasHold == PrepareSpec => []AreasSuffice
<1>1. PrepInv => AreasSuffice
  <2> SUFFICES ASSUME PrepInv, phase = "accepted", mode = "FORMAT"
               PROVE  Laid => AreasSuffice
    BY DEF PrepInv, AreasSuffice
  <2> QED
    BY DEF Laid, AreasSuffice
<1> QED
  BY <1>1, PrepInvariant, PTL

\* The groups behind the areas are good or counted as bad.
LEMMA BehindCounted ==
    ASSUME areas \in Areas3
    PROVE  /\ Cardinality(Good(Behind)) \in Nat /\ BadBehind \in Nat
           /\ areas.l2pEnd <= MpNum =>
                Cardinality(Good(Behind)) + BadBehind = BankNum * (MpNum - areas.l2pEnd)
<1> DEFINE e == areas.l2pEnd
           G == Good(Behind)
           P == Bank \X Behind
<1>1. e \in Nat /\ MpNum \in Nat /\ BankNum \in Nat
  BY Sizes DEF Areas3
<1>2. Behind = e .. (MpNum - 1)
  BY <1>1 DEF Behind, Mp
<1>3. IsFiniteSet(Behind) /\ (e <= MpNum => Cardinality(Behind) = MpNum - e)
  <2>1. e \in Int /\ MpNum - 1 \in Int
    BY <1>1
  <2>2. /\ IsFiniteSet(e .. (MpNum - 1))
        /\ Cardinality(e .. (MpNum - 1)) = IF e > MpNum - 1 THEN 0 ELSE (MpNum - 1) - e + 1
    BY <2>1, FS_Interval
  <2> QED
    BY <1>1, <1>2, <2>2
<1>4. IsFiniteSet(P) /\ Cardinality(P) = BankNum * Cardinality(Behind)
  BY <1>3, BanksFinite, FS_Product
<1>5. G \subseteq P
  BY DEF Good
<1> HIDE DEF G, P, e
<1>6. IsFiniteSet(G) /\ IsFiniteSet(P \ G) /\ Cardinality(P \ G) = Cardinality(P) - Cardinality(P \cap G)
  BY <1>4, <1>5, FS_Subset, FS_Difference
<1>7. P \cap G = G
  BY <1>5
<1>8. Cardinality(G) \in Nat /\ Cardinality(P \ G) \in Nat /\ Cardinality(P) \in Nat
  BY <1>4, <1>6, FS_CardinalityType
<1>9. BadBehind = Cardinality(P \ G)
  BY DEF BadBehind, P, G
<1>10. e <= MpNum => Cardinality(G) + BadBehind = BankNum * (MpNum - e)
  <2> SUFFICES ASSUME e <= MpNum
               PROVE  Cardinality(G) + BadBehind = BankNum * (MpNum - e)
    OBVIOUS
  <2>1. Cardinality(P) = BankNum * (MpNum - e)
    BY <1>3, <1>4
  <2>2. BadBehind = Cardinality(P) - Cardinality(G)
    BY <1>6, <1>7, <1>9
  <2>3. Cardinality(G) + BadBehind = Cardinality(P)
    BY <1>8, <2>2
  <2> QED
    BY <2>1, <2>3
<1> QED
  BY <1>8, <1>9, <1>10 DEF G, e

LEMMA MoreGroups ==
    ASSUME NEW b \in Nat \ {0}, NEW n \in Nat, NEW e \in Nat
    PROVE  /\ n * b \in Nat /\ e * b \in Nat
           /\ e > n => e * b > n * b
           /\ e <= n => b * (n - e) = n * b - e * b
<1>1. n * b \in Nat /\ e * b \in Nat
  OBVIOUS
<1>2. e > n => n * b + b <= e * b
  BY Monotone
<1>3. b * (n - e) = n * b - e * b
  BY SMT
<1> QED
  BY <1>1, <1>2, <1>3

\* A capacity that was accepted finds its groups: the good groups of superblocks in use
\* behind the areas are enough for the host and what it and garbage collection need free,
\* with the table as it is at the end.
THEOREM RoomIsThere == PrepareSpec => []RoomForHost
<1>1. PrepInv => RoomForHost
  <2> SUFFICES ASSUME PrepInv, phase = "accepted", mode # "INHERIT"
               PROVE  LET free == Cardinality(Good(Behind)) - Cap.host
                      IN  free >= (Cap.host * Cap.op) \div 1000 /\ free >= Reserve * BankNum
    BY DEF RoomForHost
  <2>1. llfCheckDefectThreshold(Cap) = "ERR_OK" /\ areas \in Areas3 /\ wanted \in 1 .. Len(Capacities)
    BY DEF PrepInv
  <2>2. ~(Total < Used(Cap)) /\ FreeEnough(Cap)
    BY <2>1 DEF llfCheckDefectThreshold
  <2>3. /\ Total - Used(Cap) >= (Cap.host * Cap.op) \div 1000
        /\ Total - Used(Cap) >= Reserve * BankNum
    BY <2>2 DEF FreeEnough
  <2>4. Cap.host \in Nat
    BY <2>1, CapOk, CapIs DEF Cap
  <2>5. areas.l2pEnd \in Nat /\ MpNum \in Nat /\ BankNum \in Nat \ {0}
    BY <2>1, Sizes DEF Areas3
  <2> DEFINE e == areas.l2pEnd * BankNum
             g == Cardinality(Good(Behind))
             h == Cap.host
  <2>6. /\ Total \in Nat /\ e \in Nat
        /\ areas.l2pEnd > MpNum => e > Total
        /\ areas.l2pEnd <= MpNum => BankNum * (MpNum - areas.l2pEnd) = Total - e
    BY <2>5, MoreGroups DEF Total
  <2>7. g \in Nat /\ BadBehind \in Nat
        /\ (areas.l2pEnd <= MpNum => g + BadBehind = BankNum * (MpNum - areas.l2pEnd))
    BY <2>1, BehindCounted
  <2>8. Used(Cap) = BadBehind + h + e
    BY DEF Used
  <2> HIDE DEF e, g, h
  <2>9. h \in Nat
    BY <2>4 DEF h
  <2>10. areas.l2pEnd <= MpNum
    BY <2>2, <2>5, <2>6, <2>7, <2>8, <2>9
  <2>11. Total - Used(Cap) = g - h
    BY <2>6, <2>7, <2>8, <2>9, <2>10
  <2> QED
    BY <2>3, <2>11 DEF g, h
<1> QED
  BY <1>1, PrepInvariant, PTL
=============================================================================
