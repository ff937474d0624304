-------------------------- MODULE RemapBuildProofs --------------------------
(***************************************************************************)
(* Theorems about RemapBuild for chips of one LUN, for every geometry, set *)
(* of bad blocks and threshold: the variables keep their types, no block   *)
(* is used twice, no bad block is used, replacements are whole, and the    *)
(* check of the firmware accepts the table.                                *)
(*                                                                         *)
(* The inductive invariant BuildInv says of every entry that its group is  *)
(* out of use or replaced itself (Listed), and phase by phase what the     *)
(* tables hold.                                                            *)
(***************************************************************************)
EXTENDS RemapBuild, FiniteSetTheorems, WellFoundedInduction, TLAPS

(* The lowest and the highest of a set of numbers                          *)

Before == {c \in Nat \X Nat : c[1] < c[2]}

LEMMA BeforeWellFounded == IsWellFoundedOn(Before, Nat)
BY NatLessThanWellFounded DEF OpToRel, Before

LEMMA HasLowest ==
    ASSUME NEW T, T \subseteq Nat, T # {}
    PROVE  \E x \in T : \A y \in T : x <= y
<1>1. PICK x \in T : \A y \in T : ~ (<<y, x>> \in Before)
  BY BeforeWellFounded, WFMin
<1>2. ASSUME NEW y \in T
      PROVE  x <= y
  <2>1. x \in Nat /\ y \in Nat /\ ~ (<<y, x>> \in Before)
    BY <1>1
  <2>2. <<y, x>>[1] = y /\ <<y, x>>[2] = x
    OBVIOUS
  <2>3. <<y, x>> \in Before <=> y < x
    BY <2>1, <2>2 DEF Before
  <2> QED
    BY <2>1, <2>3
<1> QED
  BY <1>2

LEMMA HasHighest ==
    ASSUME NEW n \in Nat, NEW T \in SUBSET (0 .. n), T # {}
    PROVE  \E x \in T : \A y \in T : y <= x
<1> DEFINE R == {n - y : y \in T}
<1>1. R \subseteq Nat
  OBVIOUS
<1>2. R # {}
  <2>1. PICK t \in T : TRUE
    OBVIOUS
  <2>2. n - t \in R
    BY <2>1
  <2> QED
    BY <2>2
<1>3. PICK r \in R : \A s \in R : r <= s
  <2> HIDE DEF R
  <2> QED
    BY <1>1, <1>2, HasLowest
<1>4. PICK x \in T : r = n - x
  OBVIOUS
<1>5. ASSUME NEW y \in T
      PROVE  y <= x
  <2>1. n - y \in R
    OBVIOUS
  <2>2. n - x <= n - y
    BY <2>1, <1>3, <1>4
  <2>3. n \in Nat /\ x \in Nat /\ y \in Nat
    OBVIOUS
  <2> HIDE DEF R
  <2> QED
    BY <2>2, <2>3
<1> QED
  BY <1>5
------------------------------------------------------------------------------
(* The invariant                                                           *)

USE RemapAssumption, GeometryAssumption, TableAssumption

\* The group is out of use in the bank, or has a replacement there.
Listed(b, g) == g \in dbt[b] \/ b \in bitmap[g]

\* An entry of plane p of a bank.
EntryOk(b, p, x) ==
    /\ x \in Blk /\ PlaneOf(x) = p
    /\ Group(x) \in UserMp /\ Listed(b, Group(x))
    /\ <<b, x>> \notin failed

\* The table of a bank.
TabOk(b, c) ==
    /\ c \in Collector
    /\ \A p \in PlaneSet :
         /\ Len(c.tab[p]) <= TableLen
         /\ Distinct(c.tab[p])
         /\ \A i \in 1 .. Len(c.tab[p]) : EntryOk(b, p, c.tab[p][i])

TablesInv == \A b \in Bank : TabOk(b, remap[b])

\* Blocks that failed or have a mark are in no use.
BadInv ==
    \A b \in Bank : \A x \in Bad(b) : x \in Blk /\ (Group(x) \in UserMp => Listed(b, Group(x)))

\* No block of the system area has been collected.
Empty(c) ==
    \A p \in PlaneSet :
        /\ c.temp[p] = None
        /\ \A i \in 1 .. Len(c.tab[p]) : c.tab[p][i] >= SysMax

\* LlfGetGoodSystemBlock has gone through the blocks of bank b before a block.
Collecting(b, c, at) ==
    \/ /\ c.mp = None /\ Empty(c)
       /\ \A y \in sysDbt[b] : y >= SSEnd * Planes => y >= at
    \/ /\ c.mp \in UserMp /\ c.mp \in dbt[b] /\ c.mp * Planes < at
       /\ \A y \in sysDbt[b] : y < at => Group(y) <= c.mp
       /\ \A p \in PlaneSet :
            /\ \/ c.temp[p] = None
               \/ /\ c.temp[p] = c.mp * Planes + p
                  /\ c.temp[p] < at => c.temp[p] \notin sysDbt[b]
            /\ \A i \in 1 .. Len(c.tab[p]) : c.tab[p][i] < SysMax => Group(c.tab[p][i]) < c.mp

Begun ==
    [remap[bank] EXCEPT !.mp = IF place = SSEnd * Planes THEN None ELSE @]

SystemInv ==
    /\ pc = "erase" => \A b \in Bank : Empty(remap[b])
    /\ pc = "system" =>
         /\ place \in (SSEnd * Planes) .. (SysMax - 1) /\ plane = 0
         /\ \A b \in Bank : b > bank => Empty(remap[b])
         /\ Collecting(bank, Begun, place)
    /\ pc \in {"erase", "system"} =>
         /\ \A b \in Bank : sysDbt[b] = {x \in Bad(b) : x < SysMax}
         /\ \A b \in Bank : dbt[b] = {Group(x) : x \in Bad(b)}

Early == {"erase", "system", "update", "sort", "find", "select"}

\* The entry does not have the mark of the vendor.
NoMark(b, p, i) == <<b, remap[b].tab[p][i]>> \notin marked

\* LlfUpdateRemapBlock has gone through a plane.
Looked(b, p) ==
    \/ pc \notin {"erase", "system", "update"}
    \/ pc = "update" /\ (b < bank \/ (b = bank /\ p < plane))

MarkInv ==
    /\ pc \in {"update", "check"} => place <= Len(remap[bank].tab[plane])
    /\ pc = "update" => \A i \in 1 .. place : NoMark(bank, plane, i)
    /\ \A b \in Bank, p \in PlaneSet : Looked(b, p) =>
         \A i \in 1 .. Len(remap[b].tab[p]) : NoMark(b, p, i)

\* The planes of a bank are cut to one length, which becomes the number of its entries.
LenInv ==
    /\ pc \notin {"erase", "system", "update", "sort"} =>
         \A b \in Bank, p \in PlaneSet : Len(remap[b].tab[p]) = Len(remap[b].tab[0])
    /\ pc \notin Early => \A b \in Bank : remap[b].mp = Len(remap[b].tab[0])

\* No entry of a bank replaces two groups; groups the loop has not come to have none.
IndexInv ==
    /\ pc \in Early => \A m \in Mp : bitmap[m] = {}
    /\ pc = "redefine" => \A m \in Mp : m >= place => bitmap[m] = {}
    /\ \A m \in Mp : \A b \in bitmap[m] :
         /\ index[m] \in Slot /\ index[m] < remap[b].mp /\ b \in used[index[m]]
         /\ \A n \in Mp : n # m /\ b \in bitmap[n] => index[n] # index[m]

FlowInv ==
    /\ ret = "ERR_OK" /\ pc # "sortAgain"
    /\ pc \in {"find", "redefine"} => place \in UserMp
    /\ pc = "select" => place >= 1

BuildInv == TypeOK /\ TablesInv /\ BadInv /\ SystemInv /\ MarkInv /\ LenInv /\ IndexInv /\ FlowInv

------------------------------------------------------------------------------
(* Arithmetic                                                              *)

LEMMA DivMod ==
    ASSUME NEW a \in Nat, NEW s \in Nat \ {0}
    PROVE  /\ a \div s \in Nat /\ a % s \in 0 .. (s - 1)
           /\ a = (a \div s) * s + (a % s)
BY SMT

LEMMA Unique ==
    ASSUME NEW s \in Nat \ {0},
           NEW a \in Nat, NEW b \in 0 .. (s - 1), NEW c \in Nat, NEW d \in 0 .. (s - 1),
           a * s + b = c * s + d
    PROVE  a = c /\ b = d
BY SMT

LEMMA Monotone ==
    ASSUME NEW a \in Nat, NEW c \in Nat, NEW s \in Nat \ {0}, a < c
    PROVE  a * s + s <= c * s
BY SMT

\* A block is a group and a plane.
LEMMA BlockParts ==
    ASSUME NEW x \in Nat
    PROVE  /\ Group(x) \in Nat /\ PlaneOf(x) \in PlaneSet
           /\ x = Group(x) * Planes + PlaneOf(x)
BY DivMod DEF Group, PlaneOf, PlaneSet

LEMMA PartsBlock ==
    ASSUME NEW g \in Nat, NEW p \in PlaneSet
    PROVE  /\ g * Planes + p \in Nat
           /\ Group(g * Planes + p) = g /\ PlaneOf(g * Planes + p) = p
<1> DEFINE x == g * Planes + p
<1>1. x \in Nat /\ p \in 0 .. (Planes - 1)
  BY DEF PlaneSet
<1> HIDE DEF x
<1>2. Group(x) \in Nat /\ PlaneOf(x) \in PlaneSet /\ x = Group(x) * Planes + PlaneOf(x)
  BY <1>1, BlockParts
<1>3. Group(x) = g /\ PlaneOf(x) = p
  <2>1. Group(x) * Planes + PlaneOf(x) = g * Planes + p
    BY <1>2 DEF x
  <2> QED
    BY <1>1, <1>2, <2>1, Unique DEF PlaneSet
<1> QED
  BY <1>1, <1>3 DEF x

\* Blocks of groups that come later come later.
LEMMA GroupOrder ==
    ASSUME NEW x \in Nat, NEW y \in Nat, Group(x) < Group(y)
    PROVE  x < y
<1>1. Group(x) * Planes + Planes <= Group(y) * Planes
  BY Monotone, BlockParts
<1> QED
  BY <1>1, BlockParts DEF PlaneSet

\* A group is within the bounds of areas that are whole groups.
LEMMA AreaBounds ==
    ASSUME NEW x \in Nat, NEW n \in Nat
    PROVE  /\ x < n * Planes <=> Group(x) < n
           /\ x >= n * Planes <=> Group(x) >= n
<1>1. Group(x) \in Nat /\ PlaneOf(x) \in PlaneSet /\ x = Group(x) * Planes + PlaneOf(x)
  BY BlockParts
<1>2. Group(x) < n => Group(x) * Planes + Planes <= n * Planes
  BY <1>1, Monotone
<1>3. n < Group(x) => n * Planes + Planes <= Group(x) * Planes
  BY <1>1, Monotone
<1>4. n = Group(x) => n * Planes = Group(x) * Planes
  OBVIOUS
<1>5. n * Planes \in Nat /\ Group(x) * Planes \in Nat
  BY <1>1
<1> QED
  BY <1>1, <1>2, <1>3, <1>4, <1>5 DEF PlaneSet

\* The blocks of a bank are whole groups, and so are those of the system area.
LEMMA BlkIsGroups ==
    ASSUME NEW g \in Nat, NEW p \in PlaneSet
    PROVE  g * Planes + p \in Blk <=> g \in Mp
<1>1. g * Planes + p \in Nat /\ Group(g * Planes + p) = g
  BY PartsBlock
<1>2. g * Planes + p < MpNum * Planes <=> g < MpNum
  BY <1>1, AreaBounds
<1> QED
  BY <1>1, <1>2 DEF Blk, Mp

LEMMA BlkGroup ==
    ASSUME NEW x \in Blk
    PROVE  x \in Nat /\ Group(x) \in Mp /\ PlaneOf(x) \in PlaneSet
<1>1. x \in Nat
  BY DEF Blk
<1>2. x = Group(x) * Planes + PlaneOf(x) /\ Group(x) \in Nat /\ PlaneOf(x) \in PlaneSet
  BY <1>1, BlockParts
<1> QED
  BY <1>1, <1>2, BlkIsGroups

LEMMA SystemArea ==
    /\ SysMax \div Planes \in Nat
    /\ SysMax = (SysMax \div Planes) * Planes
<1>1. SysMax = (SysMax \div Planes) * Planes + (SysMax % Planes) /\ SysMax \div Planes \in Nat
  BY DivMod
<1> QED
  BY <1>1

------------------------------------------------------------------------------
(* Collectors                                                              *)

LEMMA BlkFinite == IsFiniteSet(Blk)
BY FS_Interval DEF Blk

\* A sort of a set of blocks.
LEMMA SortedIsSeq ==
    ASSUME NEW S \in SUBSET Blk, NEW s \in SortedSeqs(S)
    PROVE  /\ Cardinality(S) \in Nat /\ s \in Seq(Blk) /\ Len(s) = Cardinality(S)
           /\ Distinct(s) /\ \A i \in 1 .. Len(s) : s[i] \in S
<1>1. IsFiniteSet(S) /\ Cardinality(S) \in Nat
  BY BlkFinite, FS_Subset, FS_CardinalityType
<1>2. s \in [1 .. Cardinality(S) -> S] /\ Increasing(s)
  BY DEF SortedSeqs
<1>3. s \in Seq(S) /\ Len(s) = Cardinality(S)
  BY <1>1, <1>2
<1>4. \A i \in 1 .. Len(s) : s[i] \in S
  BY <1>2, <1>3
<1>5. Distinct(s)
  <2>1. \A i \in 1 .. Len(s) : s[i] \in Nat
    BY <1>4, BlkGroup
  <2>2. \A i, j \in 1 .. Len(s) : i < j => s[i] < s[j]
    BY <1>2 DEF Increasing
  <2>3. \A i, j \in 1 .. Len(s) : i # j => i < j \/ j < i
    OBVIOUS
  <2> QED
    BY <2>1, <2>2, <2>3 DEF Distinct
<1>6. s \in Seq(Blk)
  BY <1>3
<1> QED
  BY <1>1, <1>3, <1>4, <1>5, <1>6

\* What an entry is stays true as groups go out of use or are replaced.
LEMMA TabLater ==
    ASSUME UNCHANGED failed, NEW b \in Bank, TabOk(b, remap'[b]),
           \A g \in UserMp : Listed(b, g) => Listed(b, g)'
    PROVE  TabOk(b, remap[b])'
BY DEF TabOk, EntryOk

\* A plane gets another part of the table.
WithPlane(c, p, s) == [c EXCEPT !.tab[p] = s]

LEMMA PlaneReplaced ==
    ASSUME NEW b \in Bank, NEW c, TabOk(b, c), NEW p \in PlaneSet,
           NEW s \in Seq(Blk), Len(s) <= TableLen, Distinct(s),
           \A i \in 1 .. Len(s) : EntryOk(b, p, s[i])
    PROVE  /\ TabOk(b, WithPlane(c, p, s))
           /\ WithPlane(c, p, s).mp = c.mp
           /\ WithPlane(c, p, s).temp = c.temp
           /\ \A q \in PlaneSet : WithPlane(c, p, s).tab[q] = IF q = p THEN s ELSE c.tab[q]
<1> DEFINE d == WithPlane(c, p, s)
<1>1. c \in Collector
  BY DEF TabOk
<1>2. s \in Seq(Nat)
  BY DEF Blk
<1>3. /\ d \in Collector /\ d.mp = c.mp /\ d.temp = c.temp
      /\ \A q \in PlaneSet : d.tab[q] = IF q = p THEN s ELSE c.tab[q]
  BY <1>1, <1>2 DEF Collector, WithPlane
<1> HIDE DEF d
<1>4. TabOk(b, d)
  BY <1>3 DEF TabOk
<1> QED
  BY <1>3, <1>4 DEF d

\* The collected group goes into the table: the table is in order if the blocks are new.
LEMMA Flushed ==
    ASSUME NEW b \in Bank, NEW c, TabOk(b, c),
           \A p \in PlaneSet : c.temp[p] # None =>
              /\ EntryOk(b, p, c.temp[p])
              /\ \A i \in 1 .. Len(c.tab[p]) : c.tab[p][i] # c.temp[p]
    PROVE  LET d == LlfCreatReMappingTable(c)
           IN  /\ TabOk(b, d) /\ d.mp = c.mp
               /\ \A p \in PlaneSet :
                    /\ d.temp[p] = None
                    /\ \A i \in 1 .. Len(d.tab[p]) :
                         \/ \E j \in 1 .. Len(c.tab[p]) : d.tab[p][i] = c.tab[p][j]
                         \/ c.temp[p] # None /\ d.tab[p][i] = c.temp[p]
<1> DEFINE d == LlfCreatReMappingTable(c)
<1>1. c \in Collector
  BY DEF TabOk
<1>2. /\ d.mp = c.mp /\ d.temp = [p \in PlaneSet |-> None]
      /\ DOMAIN d = {"mp", "temp", "tab"}
      /\ d.tab = [p \in PlaneSet |->
                    IF Len(c.tab[p]) < TableLen /\ c.temp[p] # None
                    THEN Append(c.tab[p], c.temp[p]) ELSE c.tab[p]]
  BY DEF LlfCreatReMappingTable
<1>3. ASSUME NEW p \in PlaneSet
      PROVE  /\ d.tab[p] \in Seq(Nat) /\ Len(d.tab[p]) <= TableLen /\ Distinct(d.tab[p])
             /\ \A i \in 1 .. Len(d.tab[p]) :
                  /\ EntryOk(b, p, d.tab[p][i])
                  /\ \/ \E j \in 1 .. Len(c.tab[p]) : d.tab[p][i] = c.tab[p][j]
                     \/ c.temp[p] # None /\ d.tab[p][i] = c.temp[p]
  <2>1. /\ c.tab[p] \in Seq(Nat) /\ c.temp[p] \in Nat
        /\ Len(c.tab[p]) <= TableLen /\ Distinct(c.tab[p])
        /\ \A i \in 1 .. Len(c.tab[p]) : EntryOk(b, p, c.tab[p][i])
    BY <1>1 DEF TabOk, Collector
  <2>2. CASE ~(Len(c.tab[p]) < TableLen /\ c.temp[p] # None)
    <3>1. d.tab[p] = c.tab[p]
      BY <2>2, <1>2
    <3> QED
      BY <3>1, <2>1
  <2>3. CASE Len(c.tab[p]) < TableLen /\ c.temp[p] # None
    <3> DEFINE t == c.tab[p]
               x == c.temp[p]
    <3>1. d.tab[p] = Append(t, x)
      BY <2>3, <1>2
    <3>2. EntryOk(b, p, x) /\ \A i \in 1 .. Len(t) : t[i] # x
      BY <2>3
    <3>3. t \in Seq(Nat) /\ x \in Nat /\ Len(t) \in Nat /\ Len(t) < TableLen /\ Distinct(t)
      BY <2>1, <2>3
    <3>4. \A i \in 1 .. Len(t) : EntryOk(b, p, t[i])
      BY <2>1
    <3> HIDE DEF t, x
    <3>5. /\ Append(t, x) \in Seq(Nat) /\ Len(Append(t, x)) = Len(t) + 1
          /\ Append(t, x)[Len(t) + 1] = x
          /\ \A i \in 1 .. Len(t) : Append(t, x)[i] = t[i]
      BY <3>3
    <3>6. Distinct(Append(t, x))
      BY <3>2, <3>3, <3>5 DEF Distinct
    <3>7. \A i \in 1 .. Len(Append(t, x)) :
            /\ EntryOk(b, p, Append(t, x)[i])
            /\ (\E j \in 1 .. Len(t) : Append(t, x)[i] = t[j]) \/ Append(t, x)[i] = x
      BY <3>2, <3>3, <3>4, <3>5
    <3>8. Len(Append(t, x)) <= TableLen
      BY <3>3, <3>5
    <3> QED
      BY <3>1, <3>5, <3>6, <3>7, <3>8, <2>3 DEF t, x
  <2> QED
    BY <2>2, <2>3
<1>4. d \in Collector
  <2>1. d.tab \in [PlaneSet -> Seq(Nat)]
    BY <1>2, <1>3
  <2>2. d.mp \in Nat /\ d.temp \in [PlaneSet -> Nat]
    BY <1>1, <1>2 DEF Collector, None
  <2> QED
    BY <2>1, <2>2 DEF Collector, LlfCreatReMappingTable
<1>5. TabOk(b, d)
  <2> HIDE DEF d
  <2> QED
    BY <1>3, <1>4 DEF TabOk
<1>6. \A p \in PlaneSet : d.temp[p] = None
  BY <1>2
<1> QED
  BY <1>2, <1>3, <1>5, <1>6

\* A block that failed is bad.
LEMMA NotBadNotFailed ==
    ASSUME NEW b \in Bank, NEW x, x \notin Bad(b)
    PROVE  <<b, x>> \notin failed /\ <<b, x>> \notin marked
<1>1. \A S : <<b, x>> \in S => x \in Of(b, S)
  <2> SUFFICES ASSUME NEW S, <<b, x>> \in S
               PROVE  x \in Of(b, S)
    OBVIOUS
  <2>1. <<b, x>> \in {c \in S : c[1] = b} /\ <<b, x>>[2] = x
    OBVIOUS
  <2> QED
    BY <2>1 DEF Of
<1>2. <<b, x>> \in failed \/ <<b, x>> \in marked => x \in Bad(b)
  BY <1>1 DEF Bad
<1> QED
  BY <1>2

\* The blocks of the collected group that LlfGetGoodSystemBlock has passed may go in.
LEMMA PassedMayGoIn ==
    ASSUME NEW b \in Bank, NEW c, NEW at \in Nat, at <= SysMax, TabOk(b, c),
           sysDbt[b] = {x \in Bad(b) : x < SysMax}, Collecting(b, c, at),
           NEW p \in PlaneSet, c.temp[p] # None, c.temp[p] < at
    PROVE  /\ EntryOk(b, p, c.temp[p])
           /\ \A i \in 1 .. Len(c.tab[p]) : c.tab[p][i] # c.temp[p]
<1>1. /\ c.mp \in UserMp /\ c.mp \in dbt[b]
      /\ c.temp[p] = c.mp * Planes + p /\ c.temp[p] \notin sysDbt[b]
      /\ \A i \in 1 .. Len(c.tab[p]) : c.tab[p][i] < SysMax => Group(c.tab[p][i]) < c.mp
  BY DEF Collecting, Empty
<1>2. c.mp \in Nat /\ c.mp \in Mp
  BY <1>1 DEF UserMp, Mp
<1>3. /\ c.temp[p] \in Blk /\ c.temp[p] \in Nat
      /\ Group(c.temp[p]) = c.mp /\ PlaneOf(c.temp[p]) = p
  <2>1. /\ c.mp * Planes + p \in Nat
        /\ Group(c.mp * Planes + p) = c.mp /\ PlaneOf(c.mp * Planes + p) = p
    BY <1>2, PartsBlock
  <2>2. c.mp * Planes + p \in Blk
    BY <1>2, BlkIsGroups
  <2> QED
    BY <1>1, <2>1, <2>2
<1>4. <<b, c.temp[p]>> \notin failed
  <2>1. c.temp[p] \notin Bad(b)
    BY <1>1, <1>3
  <2> QED
    BY <2>1, NotBadNotFailed
<1>5. EntryOk(b, p, c.temp[p])
  BY <1>1, <1>3, <1>4 DEF EntryOk, Listed
<1>6. ASSUME NEW i \in 1 .. Len(c.tab[p])
      PROVE  c.tab[p][i] # c.temp[p]
  <2>1. c.tab[p][i] \in Nat
    BY BlkGroup DEF TabOk, EntryOk
  <2>2. CASE c.tab[p][i] < SysMax
    BY <2>2, <1>1, <1>2, <1>3
  <2>3. CASE ~(c.tab[p][i] < SysMax)
    BY <2>1, <2>3, <1>3
  <2> QED
    BY <2>2, <2>3
<1> QED
  BY <1>5, <1>6

\* The last block of the area: what has been collected goes in.
LEMMA LastGoesIn ==
    ASSUME NEW b \in Bank, NEW c, TabOk(b, c),
           sysDbt[b] = {x \in Bad(b) : x < SysMax}, Collecting(b, c, SysMax)
    PROVE  TabOk(b, LlfCreatReMappingTable(c))
<1>1. ASSUME NEW p \in PlaneSet, c.temp[p] # None
      PROVE  c.temp[p] < SysMax
  <2>1. /\ c.mp \in UserMp /\ c.mp * Planes < SysMax
        /\ c.temp[p] = c.mp * Planes + p
    BY <1>1 DEF Collecting, Empty
  <2>2. c.mp \in Nat
    BY <2>1 DEF UserMp
  <2>3. c.mp < SysMax \div Planes
    <3>1. 0 \in PlaneSet
      BY DEF PlaneSet
    <3>2. c.mp * Planes + 0 \in Nat /\ Group(c.mp * Planes + 0) = c.mp
      BY <2>2, <3>1, PartsBlock
    <3>3. c.mp * Planes + 0 < SysMax
      BY <2>1, <2>2
    <3> QED
      BY <3>2, <3>3, AreaBounds, SystemArea
  <2>4. Group(c.temp[p]) = c.mp /\ c.temp[p] \in Nat
    BY <2>1, <2>2, PartsBlock
  <2> QED
    BY <2>3, <2>4, AreaBounds, SystemArea
<1>2. \A p \in PlaneSet : c.temp[p] # None =>
        /\ EntryOk(b, p, c.temp[p])
        /\ \A i \in 1 .. Len(c.tab[p]) : c.tab[p][i] # c.temp[p]
  BY <1>1, PassedMayGoIn
<1> QED
  BY <1>2, Flushed

\* A block that is good.
LEMMA CollectsGood ==
    ASSUME NEW b \in Bank, NEW c, NEW x \in Nat, x \notin sysDbt[b],
           sysDbt[b] \subseteq Nat, TabOk(b, c), Collecting(b, c, x)
    PROVE  Collecting(b, c, x + 1)
<1> DEFINE NothingYet == \A y \in sysDbt[b] : y >= SSEnd * Planes => y >= x
<1>1. CASE c.mp = None /\ Empty(c) /\ NothingYet
  <2>1. \A y \in sysDbt[b] : y >= SSEnd * Planes => y >= x + 1
    BY <1>1
  <2> QED
    BY <1>1, <2>1 DEF Collecting
<1>2. CASE ~(c.mp = None /\ Empty(c) /\ NothingYet)
  <2>1. /\ c.mp \in UserMp /\ c.mp \in dbt[b] /\ c.mp * Planes < x
        /\ \A y \in sysDbt[b] : y < x => Group(y) <= c.mp
        /\ \A p \in PlaneSet :
             /\ \/ c.temp[p] = None
                \/ /\ c.temp[p] = c.mp * Planes + p
                   /\ c.temp[p] < x => c.temp[p] \notin sysDbt[b]
             /\ \A i \in 1 .. Len(c.tab[p]) : c.tab[p][i] < SysMax => Group(c.tab[p][i]) < c.mp
    BY <1>2 DEF Collecting
  <2>2. c.mp * Planes < x + 1
    BY <2>1 DEF UserMp
  <2>3. \A y \in sysDbt[b] : y < x + 1 => y < x
    OBVIOUS
  <2>4. \A p \in PlaneSet : c.temp[p] \in Nat
    BY DEF TabOk, Collector
  <2>5. \A p \in PlaneSet : c.temp[p] < x + 1 /\ ~(c.temp[p] < x) => c.temp[p] = x
    BY <2>4
  <2> QED
    BY <2>1, <2>2, <2>3, <2>5 DEF Collecting
<1> QED
  BY <1>1, <1>2

LEMMA UserGroups ==
    ASSUME NEW g \in UserMp
    PROVE  g \in Nat /\ g \in Mp /\ g # None
<1>1. g \in Nat /\ g \in Mp /\ g < MpNum
  BY DEF UserMp, Mp
<1>2. MpNum * 1 <= MpNum * Planes
  BY SMT
<1> QED
  BY <1>1, <1>2

\* What LlfGetGoodSystemBlock knows about the blocks when it comes to a bad one.
LEMMA CollectsSame ==
    ASSUME NEW b \in Bank, NEW c, NEW x \in sysDbt[b], sysDbt[b] \subseteq Nat,
           Group(x) \in UserMp, TabOk(b, c), Collecting(b, c, x), c.mp = Group(x)
    PROVE  TabOk(b, SameGroup(c, x)) /\ Collecting(b, SameGroup(c, x), x + 1)
<1> DEFINE d == SameGroup(c, x)
<1>1. /\ c.mp \in UserMp /\ c.mp \in dbt[b] /\ c.mp \in Nat
      /\ \A y \in sysDbt[b] : y < x => Group(y) <= c.mp
      /\ \A p \in PlaneSet :
           /\ \/ c.temp[p] = None
              \/ /\ c.temp[p] = c.mp * Planes + p
                 /\ c.temp[p] < x => c.temp[p] \notin sysDbt[b]
           /\ \A i \in 1 .. Len(c.tab[p]) : c.tab[p][i] < SysMax => Group(c.tab[p][i]) < c.mp
  BY UserGroups DEF Collecting
<1>2. x \in Nat /\ x = c.mp * Planes + PlaneOf(x) /\ PlaneOf(x) \in PlaneSet
  BY BlockParts
<1>3. /\ d.mp = c.mp /\ d.tab = c.tab /\ DOMAIN d = {"mp", "temp", "tab"}
      /\ d.temp = [p \in PlaneSet |->
                     CASE p = PlaneOf(x) -> None
                       [] p > PlaneOf(x) -> c.mp * Planes + p
                       [] OTHER          -> c.temp[p]]
  BY DEF SameGroup
<1>4. ASSUME NEW p \in PlaneSet
      PROVE  /\ d.temp[p] \in Nat
             /\ \/ d.temp[p] = None
                \/ /\ d.temp[p] = c.mp * Planes + p
                   /\ d.temp[p] < x + 1 => d.temp[p] \notin sysDbt[b]
  <2>1. p \in Nat /\ PlaneOf(x) \in Nat /\ c.mp * Planes \in Nat
    BY SMTT(30), <1>1, <1>2 DEF PlaneSet
  <2>2. CASE p = PlaneOf(x)
    <3>1. d.temp[p] = None
      BY <2>1, <2>2, <1>3
    <3> QED
      BY <3>1 DEF None
  <2>3. CASE p > PlaneOf(x)
    <3>1. d.temp[p] = c.mp * Planes + p
      BY <2>1, <2>3, <1>3
    <3>2. ~(c.mp * Planes + p < x + 1)
      BY <2>1, <2>3, <1>2
    <3> QED
      BY <3>1, <3>2, <2>1
  <2>4. CASE p < PlaneOf(x)
    <3>1. d.temp[p] = c.temp[p]
      BY <2>1, <2>4, <1>3
    <3>2. c.mp * Planes + p < x
      BY <2>1, <2>4, <1>2
    <3> QED
      BY SMTT(30), <3>1, <3>2, <1>1, <2>1 DEF None
  <2> QED
    BY <2>1, <2>2, <2>3, <2>4
<1>5. TabOk(b, d)
  <2>1. d \in Collector
    BY <1>3, <1>4 DEF TabOk, Collector, SameGroup
  <2> HIDE DEF d
  <2> QED
    BY <2>1, <1>3 DEF TabOk
<1>6. Collecting(b, d, x + 1)
  <2>1. d.mp * Planes < x + 1
    <3>1. c.mp * Planes \in Nat /\ PlaneOf(x) \in Nat
      BY <1>1, <1>2 DEF PlaneSet
    <3>2. c.mp * Planes < x + 1
      BY <3>1, <1>2
    <3> QED
      BY <3>2, <1>3
  <2>2. \A y \in sysDbt[b] : y < x + 1 => Group(y) <= d.mp
    <3>1. \A y \in sysDbt[b] : y < x + 1 => y < x \/ y = x
      BY <1>2
    <3> QED
      BY <3>1, <1>1, <1>3
  <2> HIDE DEF d
  <2> QED
    BY <2>1, <2>2, <1>1, <1>3, <1>4 DEF Collecting
<1> QED
  BY <1>5, <1>6

LEMMA CollectsNew ==
    ASSUME NEW b \in Bank, NEW c, NEW x \in sysDbt[b], x < SysMax,
           sysDbt[b] \subseteq Nat,
           sysDbt[b] = {y \in Bad(b) : y < SysMax}, Group(x) \in dbt[b],
           Group(x) \in UserMp, TabOk(b, c), Collecting(b, c, x), c.mp # Group(x)
    PROVE  TabOk(b, NewGroup(c, x)) /\ Collecting(b, NewGroup(c, x), x + 1)
<1> DEFINE d == NewGroup(c, x)
           f == IF c.mp # None THEN LlfCreatReMappingTable(c) ELSE c
           g == Group(x)
<1>1. /\ x \in Nat /\ g \in Nat /\ PlaneOf(x) \in PlaneSet
      /\ x = g * Planes + PlaneOf(x) /\ g * Planes \in Nat
  BY BlockParts
<1>2. /\ TabOk(b, f)
      /\ \A p \in PlaneSet : \A i \in 1 .. Len(f.tab[p]) :
            f.tab[p][i] < SysMax => Group(f.tab[p][i]) < g
      /\ \A y \in sysDbt[b] : y < x => Group(y) < g
  <2>1. CASE c.mp = None
    <3>1. Empty(c) /\ \A y \in sysDbt[b] : y >= SSEnd * Planes => y >= x
      BY <2>1, UserGroups DEF Collecting
    <3>2. f = c
      BY <2>1
    <3>3. \A p \in PlaneSet : \A i \in 1 .. Len(c.tab[p]) : c.tab[p][i] \in Nat
      BY BlkGroup DEF TabOk, EntryOk
    <3>4. \A p \in PlaneSet : \A i \in 1 .. Len(c.tab[p]) : ~(c.tab[p][i] < SysMax)
      BY <3>1, <3>3 DEF Empty
    <3>5. \A y \in sysDbt[b] : y < x => Group(y) < g
      <4> SUFFICES ASSUME NEW y \in sysDbt[b], y < x
                   PROVE  Group(y) < g
        OBVIOUS
      <4>1. y \in Nat /\ Group(y) \in Nat /\ SSEnd * Planes \in Nat
        BY BlockParts
      <4>2. ~(y >= SSEnd * Planes)
        BY <3>1, <4>1, <1>1
      <4>3. Group(y) < SSEnd
        BY <4>1, <4>2, AreaBounds
      <4> QED
        BY <4>1, <4>3 DEF UserMp
    <3> QED
      BY <3>2, <3>4, <3>5
  <2>2. CASE c.mp # None
    <3>1. /\ c.mp \in UserMp /\ c.mp \in Nat /\ c.mp * Planes < x
          /\ \A y \in sysDbt[b] : y < x => Group(y) <= c.mp
          /\ \A p \in PlaneSet :
               /\ c.temp[p] = None \/ c.temp[p] = c.mp * Planes + p
               /\ \A i \in 1 .. Len(c.tab[p]) : c.tab[p][i] < SysMax => Group(c.tab[p][i]) < c.mp
      BY <2>2, UserGroups DEF Collecting
    <3>2. c.mp < g
      <4>1. CASE g < c.mp
        <5>1. g * Planes + Planes <= c.mp * Planes
          BY <4>1, <3>1, <1>1, Monotone
        <5>2. c.mp * Planes \in Nat
          BY <3>1
        <5>3. PlaneOf(x) < Planes /\ PlaneOf(x) \in Nat
          BY <1>1 DEF PlaneSet
        <5> HIDE DEF g
        <5> QED
          BY <5>1, <5>2, <5>3, <3>1, <1>1
      <4> QED
        BY <4>1, <3>1, <1>1
    <3>3. ASSUME NEW p \in PlaneSet, c.temp[p] # None
          PROVE  Group(c.temp[p]) = c.mp /\ c.temp[p] < x
      <4>1. c.temp[p] = c.mp * Planes + p
        BY <3>1, <3>3
      <4>2. c.temp[p] \in Nat /\ Group(c.temp[p]) = c.mp
        BY ZenonT(40), <4>1, <3>1, PartsBlock
      <4> QED
        BY <4>2, <3>2, <1>1, GroupOrder
    <3>4. ASSUME NEW p \in PlaneSet, c.temp[p] # None
          PROVE  /\ EntryOk(b, p, c.temp[p])
                 /\ \A i \in 1 .. Len(c.tab[p]) : c.tab[p][i] # c.temp[p]
      <4>1. c.temp[p] < x /\ x \in Nat /\ x <= SysMax
        BY <3>3, <3>4, <1>1
      <4> QED
        BY <4>1, <3>4, PassedMayGoIn
    <3> DEFINE h == LlfCreatReMappingTable(c)
    <3>5. /\ TabOk(b, h)
          /\ \A p \in PlaneSet : \A i \in 1 .. Len(h.tab[p]) :
               \/ \E j \in 1 .. Len(c.tab[p]) : h.tab[p][i] = c.tab[p][j]
               \/ c.temp[p] # None /\ h.tab[p][i] = c.temp[p]
      BY <3>4, Flushed
    <3>6. f = h
      BY <2>2
    <3> HIDE DEF h, f
    <3>7. \A p \in PlaneSet : \A i \in 1 .. Len(h.tab[p]) :
            h.tab[p][i] < SysMax => Group(h.tab[p][i]) <= c.mp
      <4> SUFFICES ASSUME NEW p \in PlaneSet, NEW i \in 1 .. Len(h.tab[p]), h.tab[p][i] < SysMax
                   PROVE  Group(h.tab[p][i]) <= c.mp
        OBVIOUS
      <4>1. CASE \E j \in 1 .. Len(c.tab[p]) : h.tab[p][i] = c.tab[p][j]
        <5>1. PICK j \in 1 .. Len(c.tab[p]) : h.tab[p][i] = c.tab[p][j]
          BY <4>1
        <5>2. Group(c.tab[p][j]) < c.mp /\ Group(c.tab[p][j]) \in Nat
          BY <5>1, <3>1, BlkGroup, BlockParts DEF TabOk, EntryOk
        <5> QED
          BY <5>1, <5>2, <3>1
      <4>2. CASE c.temp[p] # None /\ h.tab[p][i] = c.temp[p]
        BY <4>2, <3>3, <3>1
      <4> QED
        BY <4>1, <4>2, <3>5
    <3>8. \A p \in PlaneSet : \A i \in 1 .. Len(h.tab[p]) : Group(h.tab[p][i]) \in Nat
      BY <3>5, BlkGroup, BlockParts DEF TabOk, EntryOk
    <3>9. \A p \in PlaneSet : \A i \in 1 .. Len(h.tab[p]) :
            h.tab[p][i] < SysMax => Group(h.tab[p][i]) < g
      BY SMTT(30), <3>2, <3>7, <3>8, <3>1, <1>1
    <3>10. \A y \in sysDbt[b] : Group(y) \in Nat
      BY BlockParts
    <3>11. \A y \in sysDbt[b] : y < x => Group(y) < g
      BY <3>1, <3>2, <3>10, <1>1
    <3> QED
      BY <3>5, <3>6, <3>9, <3>11
  <2> QED
    BY <2>1, <2>2
<1>3. /\ d.mp = g /\ d.tab = f.tab /\ DOMAIN d = {"mp", "temp", "tab"}
      /\ d.temp = [p \in PlaneSet |-> IF p = PlaneOf(x) THEN None ELSE g * Planes + p]
  BY DEF NewGroup
<1> HIDE DEF f
<1>4. ASSUME NEW p \in PlaneSet
      PROVE  /\ d.temp[p] \in Nat
             /\ \/ d.temp[p] = None
                \/ /\ d.temp[p] = g * Planes + p
                   /\ d.temp[p] < x + 1 => d.temp[p] \notin sysDbt[b]
  <2>1. CASE p = PlaneOf(x)
    <3>1. d.temp[p] = None
      BY <2>1, <1>3
    <3> QED
      BY <3>1 DEF None
  <2>2. CASE p # PlaneOf(x)
    <3>1. d.temp[p] = g * Planes + p
      BY <2>2, <1>3
    <3>2. /\ g * Planes + p \in Nat
          /\ Group(g * Planes + p) = g /\ PlaneOf(g * Planes + p) = p
      BY <1>1, PartsBlock
    <3>3. g * Planes + p # x
      BY <3>2, <2>2
    <3>4. g * Planes + p < x + 1 => g * Planes + p < x
      BY <3>2, <3>3, <1>1
    <3>5. g * Planes + p < x => g * Planes + p \notin sysDbt[b]
      BY <1>2, <3>2, <1>1
    <3> QED
      BY <3>1, <3>2, <3>4, <3>5
  <2> QED
    BY <2>1, <2>2
<1>5. TabOk(b, d)
  <2>1. d.tab \in [PlaneSet -> Seq(Nat)]
    BY <1>2, <1>3 DEF TabOk, Collector
  <2>2. d.temp \in [PlaneSet -> Nat]
    BY <1>3, <1>4
  <2>3. d \in Collector
    BY <1>1, <1>3, <2>1, <2>2 DEF Collector, NewGroup
  <2> HIDE DEF d
  <2> QED
    BY <2>3, <1>2, <1>3 DEF TabOk
<1>6. Collecting(b, d, x + 1)
  <2>1. d.mp * Planes < x + 1
    <3>1. PlaneOf(x) \in Nat
      BY <1>1 DEF PlaneSet
    <3>2. g * Planes < x + 1
      BY <3>1, <1>1
    <3> QED
      BY <3>2, <1>3
  <2>2. \A y \in sysDbt[b] : y < x + 1 => Group(y) <= g
    <3>1. \A y \in sysDbt[b] : y < x + 1 => y < x \/ y = x
      BY <1>1
    <3>2. \A y \in sysDbt[b] : Group(y) \in Nat
      BY BlockParts
    <3> QED
      BY <3>1, <3>2, <1>1, <1>2
  <2>3. \A p \in PlaneSet : \A i \in 1 .. Len(d.tab[p]) :
            d.tab[p][i] < SysMax => Group(d.tab[p][i]) < d.mp
    BY <1>2, <1>3
  <2>4. d.mp \in UserMp /\ d.mp \in dbt[b]
    BY <1>3
  <2>5. \A p \in PlaneSet :
           \/ d.temp[p] = None
           \/ /\ d.temp[p] = d.mp * Planes + p
              /\ d.temp[p] < x + 1 => d.temp[p] \notin sysDbt[b]
    BY <1>3, <1>4
  <2>6. \A y \in sysDbt[b] : y < x + 1 => Group(y) <= d.mp
    BY <2>2, <1>3
  <2> HIDE DEF d, g
  <2> QED
    BY <2>1, <2>3, <2>4, <2>5, <2>6 DEF Collecting
<1> QED
  BY <1>5, <1>6

------------------------------------------------------------------------------
(* What every step uses                                                    *)

LEMMA InOf ==
    ASSUME NEW S, NEW b \in Bank, NEW x
    PROVE  <<b, x>> \in S => x \in Of(b, S)
<1> SUFFICES ASSUME <<b, x>> \in S
             PROVE  x \in Of(b, S)
  OBVIOUS
<1>1. <<b, x>> \in {c \in S : c[1] = b} /\ <<b, x>>[2] = x
  OBVIOUS
<1> QED
  BY <1>1 DEF Of

LEMMA IsOf ==
    ASSUME NEW S \in SUBSET (Bank \X Blk), NEW b \in Bank, NEW x \in Of(b, S)
    PROVE  <<b, x>> \in S /\ x \in Blk
<1>1. PICK c \in S : c[1] = b /\ c[2] = x
  BY DEF Of
<1>2. c = <<b, x>>
  BY <1>1
<1> QED
  BY <1>1, <1>2

LEMMA IsBad ==
    ASSUME NEW b \in Bank, NEW x, failed \subseteq Bank \X Blk, marked \subseteq Bank \X Blk
    PROVE  /\ x \in Bad(b) <=> <<b, x>> \in failed \/ <<b, x>> \in marked
           /\ x \in Of(b, failed) => x \in Bad(b)
BY InOf, IsOf DEF Bad

\* Groups that stay out of use or replaced.
LEMMA BadLater ==
    ASSUME BadInv, UNCHANGED flash,
           \A b \in Bank, g \in UserMp : Listed(b, g) => Listed(b, g)'
    PROVE  BadInv'
BY DEF BadInv, Bad, Of, flash

LEMMA ListedSame ==
    ASSUME UNCHANGED <<dbt, bitmap>>
    PROVE  \A b \in Bank, g \in UserMp : Listed(b, g) => Listed(b, g)'
BY DEF Listed

LEMMA EarlyIndex ==
    ASSUME TypeOK, IndexInv, pc \in Early, UNCHANGED bitmap
    PROVE  IndexInv'
BY DEF IndexInv, Early

LEMMA PlaneLoop ==
    ASSUME bank \in Bank, plane \in PlaneSet, NEW label, NEW at \in Nat, NextPlane(label, at)
    PROVE  /\ bank' \in Bank /\ plane' \in PlaneSet /\ place' \in Nat
           /\ \/ /\ pc' = pc /\ place' = 0
                 /\ \/ bank' = bank /\ plane' = plane + 1
                    \/ bank' = bank + 1 /\ plane' = 0 /\ plane = Planes - 1
              \/ /\ pc' = label /\ place' = at /\ bank' = 0 /\ plane' = 0
                 /\ bank = BankNum - 1 /\ plane = Planes - 1
BY DEF NextPlane, Goto, Bank, PlaneSet

\* The tables have their types when they are in order.
LEMMA TableTypes ==
    ASSUME TablesInv', remap' = [b \in Bank |-> remap'[b]]
    PROVE  /\ remap' \in [Bank -> Collector]
           /\ \A b \in Bank, p \in PlaneSet :
                /\ Len(remap'[b].tab[p]) <= TableLen
                /\ \A i \in 1 .. Len(remap'[b].tab[p]) : remap'[b].tab[p][i] \in Blk
BY DEF TablesInv, TabOk, EntryOk

------------------------------------------------------------------------------
(* The steps                                                               *)

LEMMA LeftoverOk ==
    ASSUME TypeOK, BadInv, NEW b \in Bank, NEW p \in PlaneSet, NEW x \in Leftover(b, p)
    PROVE  EntryOk(b, p, x) /\ x >= SysMax
<1>1. PICK y \in Of(b, failed) : /\ y >= SysMax /\ x = Group(y) * Planes + p
                                 /\ x \notin Of(b, failed)
  BY DEF Leftover
<1> DEFINE g == Group(y)
<1>2. y \in Bad(b) /\ failed \subseteq Bank \X Blk
  BY IsBad DEF TypeOK
<1>3. y \in Blk /\ g \in UserMp /\ Listed(b, g)
  <2>1. y \in Blk /\ y \in Nat /\ g \in Mp
    BY <1>2, BlkGroup DEF BadInv
  <2>2. y >= SSEnd * Planes
    BY <1>1, <2>1
  <2>3. g >= SSEnd
    BY <2>1, <2>2, AreaBounds
  <2> QED
    BY <1>2, <2>1, <2>3 DEF BadInv, UserMp, Mp
<1>4. y \in Nat /\ g \in Nat /\ g \in Mp
  BY <1>3, BlkGroup, UserGroups
<1>5. x \in Nat /\ x \in Blk /\ Group(x) = g /\ PlaneOf(x) = p
  BY <1>1, <1>4, PartsBlock, BlkIsGroups
<1>6. <<b, x>> \notin failed
  BY <1>1, InOf
<1>7. x >= SysMax
  <2> DEFINE n == SysMax \div Planes
  <2>1. n \in Nat /\ SysMax = n * Planes
    BY SystemArea
  <2> HIDE DEF n
  <2>2. y >= n * Planes <=> Group(y) >= n
    BY <2>1, <1>4, AreaBounds
  <2>3. x >= n * Planes <=> Group(x) >= n
    BY <2>1, <1>5, AreaBounds
  <2> QED
    BY <1>1, <1>5, <2>1, <2>2, <2>3
<1> QED
  BY <1>3, <1>5, <1>6, <1>7 DEF EntryOk

LEMMA EraseStep ==
    ASSUME BuildInv, EraseResult
    PROVE  BuildInv'
<1>1. PICK T \in Found(Leftover(bank, plane)) : \E s \in SortedSeqs(T) :
         remap' = [remap EXCEPT ![bank].tab[plane] = s]
  BY DEF EraseResult
<1>2. PICK s \in SortedSeqs(T) : remap' = [remap EXCEPT ![bank].tab[plane] = s]
  BY <1>1
<1>3. /\ pc = "erase" /\ bank \in Bank /\ plane \in PlaneSet
      /\ remap \in [Bank -> Collector]
      /\ UNCHANGED <<flash, dbt, sysDbt, selected, result, uwcount, ret, unread>>
  BY DEF BuildInv, TypeOK, EraseResult
<1>4. T \subseteq Leftover(bank, plane) /\ Cardinality(T) <= TableLen
  BY DEF Found
<1>5. \A x \in T : EntryOk(bank, plane, x) /\ x >= SysMax
  BY <1>3, <1>4, LeftoverOk DEF BuildInv
<1>6. T \in SUBSET Blk
  BY <1>5 DEF EntryOk
<1>7. /\ s \in Seq(Blk) /\ Len(s) <= TableLen /\ Distinct(s)
      /\ \A i \in 1 .. Len(s) : EntryOk(bank, plane, s[i]) /\ s[i] >= SysMax
  BY <1>2, <1>4, <1>5, <1>6, SortedIsSeq
<1> DEFINE d == WithPlane(remap[bank], plane, s)
<1>8. \A b \in Bank : remap'[b] = IF b = bank THEN d ELSE remap[b]
  BY <1>2, <1>3 DEF WithPlane
<1>9. TabOk(bank, remap[bank])
  BY <1>3 DEF BuildInv, TablesInv
<1>10. /\ TabOk(bank, d)
       /\ d.mp = remap[bank].mp /\ d.temp = remap[bank].temp
       /\ \A q \in PlaneSet : d.tab[q] = IF q = plane THEN s ELSE remap[bank].tab[q]
  BY <1>3, <1>7, <1>9, PlaneReplaced
<1>11. Empty(d)
  BY SMTT(30), <1>3, <1>7, <1>10 DEF BuildInv, SystemInv, Empty
<1> HIDE DEF d
<1>12. TablesInv'
  <2> SUFFICES ASSUME NEW b \in Bank
               PROVE  TabOk(b, remap[b])'
    BY DEF TablesInv
  <2>1. TabOk(b, remap'[b])
    BY <1>8, <1>10 DEF BuildInv, TablesInv
  <2>2. UNCHANGED failed /\ \A g \in UserMp : Listed(b, g) => Listed(b, g)'
    BY <1>3, ListedSame DEF flash, result
  <2> QED
    BY <2>1, <2>2, TabLater
<1>13. \A b \in Bank : Empty(remap'[b])
  BY <1>3, <1>8, <1>11 DEF BuildInv, SystemInv
<1>14. BadInv'
  BY <1>3, ListedSame, BadLater DEF BuildInv, flash, result
<1>15. NextPlane("system", SSEnd * Planes) /\ SSEnd * Planes \in Nat
  BY DEF EraseResult
<1>16. /\ bank' \in Bank /\ plane' \in PlaneSet /\ place' \in Nat
       /\ \/ pc' = "erase"
          \/ pc' = "system" /\ place' = SSEnd * Planes /\ bank' = 0 /\ plane' = 0
  BY <1>3, <1>15, PlaneLoop
<1>17. TypeOK'
  <2>1. remap' = [b \in Bank |-> remap'[b]]
    BY <1>2, <1>3
  <2>2. /\ remap' \in [Bank -> Collector]
        /\ \A b \in Bank, p \in PlaneSet :
             /\ Len(remap'[b].tab[p]) <= TableLen
             /\ \A i \in 1 .. Len(remap'[b].tab[p]) : remap'[b].tab[p][i] \in Blk
    BY <2>1, <1>12, TableTypes
  <2>3. pc' \in Phases
    BY <1>16 DEF Phases
  <2> QED
    BY <1>3, <1>16, <2>2, <2>3 DEF BuildInv, TypeOK, flash, result
<1>18. SystemInv'
  <2>1. \A b \in Bank : sysDbt'[b] = {x \in Bad(b)' : x < SysMax}
    BY <1>3 DEF BuildInv, SystemInv, Bad, Of, flash
  <2>2. \A b \in Bank : dbt'[b] = {Group(x) : x \in Bad(b)'}
    BY <1>3 DEF BuildInv, SystemInv, Bad, Of, flash
  <2>3. CASE pc' = "erase"
    BY <2>1, <2>2, <2>3, <1>13 DEF SystemInv, Empty
  <2>4. CASE pc' = "system" /\ place' = SSEnd * Planes /\ bank' = 0 /\ plane' = 0
    <3>1. place' \in (SSEnd * Planes) .. (SysMax - 1)
      BY <2>4
    <3>2. Begun' = [remap'[bank'] EXCEPT !.mp = None]
      BY <2>4 DEF Begun
    <3>3. remap'[bank'] \in Collector
      BY <1>16, <1>17 DEF TypeOK
    <3>4. Begun'.mp = None /\ Begun'.temp = remap'[bank'].temp /\ Begun'.tab = remap'[bank'].tab
      BY <3>2, <3>3 DEF Collector
    <3>5. Empty(Begun')
      BY <3>4, <1>13, <1>16 DEF Empty
    <3>6. \A y \in sysDbt'[bank'] : y >= SSEnd * Planes => y >= place'
      BY <2>4, <1>16
    <3>7. Collecting(bank, Begun, place)'
      BY <3>4, <3>5, <3>6 DEF Collecting, Empty
    <3> QED
      BY <2>1, <2>2, <2>4, <3>1, <3>7, <1>13 DEF SystemInv, Empty
  <2> QED
    BY <2>3, <2>4, <1>16
<1>19. MarkInv' /\ LenInv' /\ IndexInv' /\ FlowInv'
  <2>1. IndexInv'
    BY <1>3, EarlyIndex DEF BuildInv, Early, result
  <2> QED
    BY <2>1, <1>3, <1>16 DEF BuildInv, MarkInv, LenInv, FlowInv, Looked, Early
<1> QED
  BY <1>12, <1>14, <1>17, <1>18, <1>19 DEF BuildInv

\* The length of the shortest plane is the length of one.
LEMMA ShortestOk ==
    ASSUME NEW c \in Collector
    PROVE  /\ Shortest(c) \in Nat
           /\ \E p \in PlaneSet : Shortest(c) = Len(c.tab[p])
           /\ \A p \in PlaneSet : Shortest(c) <= Len(c.tab[p])
<1> DEFINE L == {Len(c.tab[p]) : p \in PlaneSet}
<1>1. \A p \in PlaneSet : c.tab[p] \in Seq(Nat)
  BY DEF Collector
<1>2. \A p \in PlaneSet : Len(c.tab[p]) \in Nat
  BY <1>1
<1>3. L \subseteq Nat
  BY <1>2
<1>4. L # {}
  <2>1. 0 \in PlaneSet
    BY DEF PlaneSet
  <2> QED
    BY ZenonT(40), <2>1
<1>5. PICK n \in L : \A y \in L : n <= y
  <2> HIDE DEF L
  <2> QED
    BY <1>3, <1>4, HasLowest
<1>6. n \in L /\ \A p \in PlaneSet : n <= Len(c.tab[p])
  BY <1>5
<1>7. Shortest(c) \in L /\ \A p \in PlaneSet : Shortest(c) <= Len(c.tab[p])
  BY <1>6 DEF Shortest
<1> QED
  BY <1>3, <1>7

LEMMA MpReplaced ==
    ASSUME NEW b \in Bank, NEW c, TabOk(b, c), NEW n \in Nat
    PROVE  /\ TabOk(b, [c EXCEPT !.mp = n])
           /\ [c EXCEPT !.mp = n].mp = n
           /\ [c EXCEPT !.mp = n].temp = c.temp /\ [c EXCEPT !.mp = n].tab = c.tab
<1> DEFINE d == [c EXCEPT !.mp = n]
<1>1. /\ d \in Collector /\ d.mp = n
      /\ d.temp = c.temp /\ d.tab = c.tab
  BY DEF TabOk, Collector
<1> HIDE DEF d
<1>2. TabOk(b, d)
  BY <1>1 DEF TabOk
<1> QED
  BY <1>1, <1>2 DEF d

LEMMA CollectingStarts ==
    ASSUME BadInv, NEW b \in Bank, NEW c, TabOk(b, c), Empty(c),
           sysDbt[b] = {x \in Bad(b) : x < SysMax}
    PROVE  Collecting(b, [c EXCEPT !.mp = None], SSEnd * Planes)
<1> DEFINE d == [c EXCEPT !.mp = None]
<1>1. d.mp = None /\ d.temp = c.temp /\ d.tab = c.tab
  BY MpReplaced DEF None
<1> HIDE DEF d
<1>3. Empty(d)
  BY <1>1 DEF Empty
<1> QED
  BY <1>1, <1>3 DEF Collecting, d

\* LlfGetGoodSystemBlock, up to the change of bank.
LEMMA SystemBlock ==
    ASSUME BuildInv, pc = "system"
    PROVE  LET defect  == llfIsSystemBlkDefect(sysDbt, bank, place)
               noted   == IF defect THEN CollectBad(Begun, place) ELSE Begun
           IN  /\ TabOk(bank, noted) /\ Collecting(bank, noted, place + 1)
               /\ place + 1 = SysMax => TabOk(bank, LlfCreatReMappingTable(noted))
<1> DEFINE defect == llfIsSystemBlkDefect(sysDbt, bank, place)
           noted  == IF defect THEN CollectBad(Begun, place) ELSE Begun
<1>1. /\ bank \in Bank /\ place \in (SSEnd * Planes) .. (SysMax - 1)
      /\ SSEnd * Planes \in Nat
      /\ Collecting(bank, Begun, place)
      /\ sysDbt[bank] = {x \in Bad(bank) : x < SysMax}
      /\ dbt[bank] = {Group(x) : x \in Bad(bank)}
      /\ TabOk(bank, remap[bank])
  BY DEF BuildInv, TypeOK, SystemInv, TablesInv
<1>2. place \in Nat /\ place < SysMax /\ sysDbt[bank] \subseteq Nat
  BY <1>1, BlkGroup DEF BuildInv, BadInv
<1>3. TabOk(bank, Begun)
  <2>1. remap[bank].mp \in Nat
    BY <1>1 DEF TabOk, Collector
  <2> DEFINE n == IF place = SSEnd * Planes THEN None ELSE remap[bank].mp
  <2>2. n \in Nat /\ Begun = [remap[bank] EXCEPT !.mp = n]
    BY <2>1 DEF Begun, None
  <2> HIDE DEF n
  <2> QED
    BY <2>2, <1>1, MpReplaced
<1>4. TabOk(bank, noted) /\ Collecting(bank, noted, place + 1)
  <2>1. CASE place \in sysDbt[bank]
    <3>1. noted = CollectBad(Begun, place)
      BY <2>1 DEF llfIsSystemBlkDefect
    <3>2. Group(place) \in UserMp /\ Group(place) \in dbt[bank]
      <4>1. place \in Bad(bank) /\ place \in Blk
        BY <2>1, <1>1 DEF BuildInv, BadInv
      <4>2. Group(place) \in Mp /\ Group(place) >= SSEnd
        BY <4>1, <1>1, <1>2, BlkGroup, AreaBounds
      <4> QED
        BY <4>1, <4>2, <1>1 DEF UserMp, Mp
    <3>3. CASE Begun.mp = Group(place)
      BY <3>1, <3>2, <3>3, <2>1, <1>1, <1>2, <1>3, CollectsSame DEF CollectBad
    <3>4. CASE Begun.mp # Group(place)
      BY <3>1, <3>2, <3>4, <2>1, <1>1, <1>2, <1>3, CollectsNew DEF CollectBad
    <3> QED
      BY <3>3, <3>4
  <2>2. CASE place \notin sysDbt[bank]
    <3>1. noted = Begun
      BY <2>2 DEF llfIsSystemBlkDefect
    <3> QED
      BY <3>1, <2>2, <1>1, <1>2, <1>3, CollectsGood
  <2> QED
    BY <2>1, <2>2
<1> HIDE DEF noted
<1>5. place + 1 = SysMax => TabOk(bank, LlfCreatReMappingTable(noted))
  BY <1>1, <1>4, LastGoesIn
<1> QED
  BY <1>4, <1>5 DEF noted

LEMMA SystemStep ==
    ASSUME BuildInv, CollectSystem
    PROVE  BuildInv'
<1> DEFINE defect  == llfIsSystemBlkDefect(sysDbt, bank, place)
           noted   == IF defect THEN CollectBad(Begun, place) ELSE Begun
           last    == place = SysMax - 1
           flushes == last /\ (defect \/ ~llfIsBlockBad(dbt, bank, place))
           d       == IF flushes THEN LlfCreatReMappingTable(noted) ELSE noted
           after   == [remap EXCEPT ![bank] = d]
<1>1. /\ pc = "system"
      /\ UNCHANGED <<flash, dbt, sysDbt, selected, result, uwcount, ret, unread>>
      /\ \/ /\ ~last /\ remap' = after
            /\ place' = place + 1 /\ UNCHANGED <<pc, bank, plane>>
         \/ /\ last /\ bank + 1 < BankNum /\ remap' = after
            /\ bank' = bank + 1 /\ place' = SSEnd * Planes /\ UNCHANGED <<pc, plane>>
         \/ /\ last /\ remap' = LlfGetRealMaxBsNum(after) /\ Goto("update", 0)
  BY DEF CollectSystem, Begun
<1>2. /\ TabOk(bank, noted) /\ Collecting(bank, noted, place + 1)
      /\ place + 1 = SysMax => TabOk(bank, LlfCreatReMappingTable(noted))
  BY <1>1, SystemBlock
<1>3. /\ bank \in Bank /\ plane = 0 /\ place \in Nat /\ SSEnd * Planes \in Nat
      /\ place \in (SSEnd * Planes) .. (SysMax - 1)
      /\ \A b \in Bank : b > bank => Empty(remap[b])
      /\ \A b \in Bank : sysDbt[b] = {x \in Bad(b) : x < SysMax}
      /\ \A b \in Bank : dbt[b] = {Group(x) : x \in Bad(b)}
      /\ \A b \in Bank : TabOk(b, remap[b])
      /\ remap \in [Bank -> Collector]
  BY <1>1 DEF BuildInv, TypeOK, SystemInv, TablesInv
<1> HIDE DEF noted
<1>4. TabOk(bank, d) /\ (~last => d = noted)
  BY <1>2, <1>3
<1>5. \A b \in Bank : after[b] = IF b = bank THEN d ELSE remap[b]
  BY <1>3
<1> HIDE DEF d
<1>6. \A b \in Bank : TabOk(b, after[b]) /\ after[b] \in Collector
  BY <1>3, <1>4, <1>5 DEF TabOk
<1>7. UNCHANGED failed /\ \A b \in Bank, g \in UserMp : Listed(b, g) => Listed(b, g)'
  BY <1>1, ListedSame DEF flash, result
<1>8. BadInv'
  BY <1>1, <1>7, BadLater DEF BuildInv
<1>9. IndexInv'
  BY <1>1, EarlyIndex DEF BuildInv, Early, result
<1>10. \A b \in Bank : /\ sysDbt'[b] = {x \in Bad(b)' : x < SysMax}
                       /\ dbt'[b] = {Group(x) : x \in Bad(b)'}
  BY <1>1, <1>3 DEF Bad, Of, flash
<1>11. CASE remap' = after /\ pc' = "system" /\ plane' = 0
  <2>1. TablesInv'
    BY <1>11, <1>6, <1>7, TabLater DEF TablesInv
  <2>2. remap' = [b \in Bank |-> remap'[b]]
    BY <1>11, <1>3
  <2>3. bank' \in Bank /\ place' \in (SSEnd * Planes) .. (SysMax - 1)
    <3>1. \/ ~last /\ place' = place + 1 /\ bank' = bank
          \/ last /\ bank + 1 < BankNum /\ bank' = bank + 1 /\ place' = SSEnd * Planes
      BY <1>11, <1>1 DEF Goto
    <3>2. bank' \in Bank
      BY <3>1, <1>3 DEF Bank
    <3>3. SSEnd * Planes \in (SSEnd * Planes) .. (SysMax - 1)
      BY <1>3
    <3>4. ~last => place + 1 \in (SSEnd * Planes) .. (SysMax - 1)
      BY <1>3
    <3> QED
      BY <3>1, <3>2, <3>3, <3>4
  <2>4. TypeOK'
    <3>1. /\ remap' \in [Bank -> Collector]
          /\ \A b \in Bank, p \in PlaneSet :
               /\ Len(remap'[b].tab[p]) <= TableLen
               /\ \A i \in 1 .. Len(remap'[b].tab[p]) : remap'[b].tab[p][i] \in Blk
      BY <2>1, <2>2, TableTypes
    <3>2. pc' \in Phases /\ plane' \in PlaneSet /\ place' \in Nat
      BY <1>11, <1>3, <2>3 DEF Phases, PlaneSet
    <3> QED
      BY <1>1, <2>3, <3>1, <3>2 DEF BuildInv, TypeOK, flash, result
  <2>5. Collecting(bank, Begun, place)'
    <3>1. CASE ~last /\ bank' = bank /\ place' = place + 1
      <4>1. Begun' = [remap'[bank] EXCEPT !.mp = remap'[bank].mp]
        BY <3>1, <1>3 DEF Begun
      <4>2. remap'[bank] = noted /\ noted \in Collector
        BY <1>11, <1>3, <1>4, <1>5, <1>6, <3>1
      <4>3. Begun' = noted
        BY <4>1, <4>2 DEF Collector
      <4> QED
        BY <3>1, <4>3, <1>1, <1>2 DEF Collecting, Empty
    <3>2. CASE last /\ bank' = bank + 1 /\ place' = SSEnd * Planes
      <4>1. bank + 1 \in Bank /\ bank + 1 > bank /\ bank + 1 # bank
        BY <3>2, <2>3, <1>3 DEF Bank
      <4>2. remap'[bank + 1] = remap[bank + 1] /\ Empty(remap[bank + 1])
        BY <1>11, <1>3, <1>5, <4>1
      <4>3. Begun' = [remap[bank + 1] EXCEPT !.mp = None]
        BY <3>2, <4>2 DEF Begun
      <4>4. Collecting(bank + 1, [remap[bank + 1] EXCEPT !.mp = None], SSEnd * Planes)
        BY <4>1, <4>2, <1>3, CollectingStarts DEF BuildInv
      <4> QED
        BY <3>2, <4>3, <4>4, <1>1 DEF Collecting, Empty
    <3> QED
      BY <3>1, <3>2, <1>1, <1>11 DEF Goto
  <2>6. SystemInv'
    <3>1. \A b \in Bank : b > bank' => Empty(remap'[b])
      <4>1. bank' >= bank
        BY <1>1, <1>3, <1>11 DEF Bank, Goto
      <4> QED
        BY <4>1, <1>3, <1>5, <1>11, <2>3 DEF Bank
    <3> QED
      BY <1>10, <1>11, <2>3, <2>5, <3>1 DEF SystemInv, Empty
  <2> QED
    BY <1>1, <1>8, <1>9, <1>11, <2>1, <2>4, <2>6
       DEF BuildInv, MarkInv, LenInv, FlowInv, Looked, Early
<1>12. CASE remap' = LlfGetRealMaxBsNum(after) /\ Goto("update", 0)
  <2>1. \A b \in Bank : remap'[b] = [after[b] EXCEPT !.mp = Shortest(after[b])]
    BY <1>12 DEF LlfGetRealMaxBsNum
  <2>2. \A b \in Bank : TabOk(b, remap'[b])
    <3> SUFFICES ASSUME NEW b \in Bank
                 PROVE  TabOk(b, remap'[b])
      OBVIOUS
    <3> DEFINE n == Shortest(after[b])
    <3>1. n \in Nat /\ remap'[b] = [after[b] EXCEPT !.mp = n]
      BY <2>1, <1>6, ShortestOk
    <3> HIDE DEF n, after
    <3> QED
      BY <3>1, <1>6, MpReplaced
  <2>3. TablesInv'
    BY <2>2, <1>7, TabLater DEF TablesInv
  <2>4. remap' = [b \in Bank |-> remap'[b]]
    BY <1>12 DEF LlfGetRealMaxBsNum
  <2>5. /\ remap' \in [Bank -> Collector]
        /\ \A b \in Bank, p \in PlaneSet :
             /\ Len(remap'[b].tab[p]) <= TableLen
             /\ \A i \in 1 .. Len(remap'[b].tab[p]) : remap'[b].tab[p][i] \in Blk
    BY <2>3, <2>4, TableTypes
  <2>6. /\ pc' = "update" /\ bank' = 0 /\ plane' = 0 /\ place' = 0
        /\ bank' \in Bank /\ plane' \in PlaneSet
    BY <1>12 DEF Goto, Bank, PlaneSet
  <2>7. TypeOK'
    <3>1. pc' \in Phases /\ place' \in Nat
      BY <2>6 DEF Phases
    <3> QED
      BY <1>1, <2>5, <2>6, <3>1 DEF BuildInv, TypeOK, flash, result
  <2>8. MarkInv'
    <3>1. Len(remap'[bank'].tab[plane']) \in Nat
      BY <2>5, <2>6 DEF Collector
    <3>2. \A b \in Bank, p \in PlaneSet : ~Looked(b, p)'
      BY <2>6 DEF Looked, Bank, PlaneSet
    <3> QED
      BY <2>6, <3>1, <3>2 DEF MarkInv
  <2> QED
    BY <1>1, <1>8, <1>9, <2>3, <2>6, <2>7, <2>8
       DEF BuildInv, SystemInv, LenInv, FlowInv, Early
<1> QED
  BY <1>1, <1>3, <1>11, <1>12

LEMMA TablesKept ==
    ASSUME TablesInv, UNCHANGED <<failed, remap>>,
           \A b \in Bank, g \in UserMp : Listed(b, g) => Listed(b, g)'
    PROVE  TablesInv'
<1> SUFFICES ASSUME NEW b \in Bank
             PROVE  TabOk(b, remap[b])'
  BY DEF TablesInv
<1>1. TabOk(b, remap'[b])
  BY DEF TablesInv
<1> QED
  BY <1>1, TabLater

\* The facts about the entries of a plane.
LEMMA PlaneFacts ==
    ASSUME TypeOK, TablesInv, NEW b \in Bank, NEW p \in PlaneSet
    PROVE  /\ remap[b].tab[p] \in Seq(Blk) /\ remap[b].tab[p] \in Seq(Nat)
           /\ Len(remap[b].tab[p]) \in Nat /\ Len(remap[b].tab[p]) <= TableLen
           /\ Distinct(remap[b].tab[p])
           /\ \A i \in 1 .. Len(remap[b].tab[p]) : EntryOk(b, p, remap[b].tab[p][i])
<1>1. /\ TabOk(b, remap[b]) /\ remap[b].tab[p] \in Seq(Nat)
  BY DEF TypeOK, TablesInv, Collector
<1>2. \A i \in 1 .. Len(remap[b].tab[p]) : EntryOk(b, p, remap[b].tab[p][i])
  BY <1>1 DEF TabOk
<1>3. \A i \in 1 .. Len(remap[b].tab[p]) : remap[b].tab[p][i] \in Blk
  BY <1>2 DEF EntryOk
<1>4. remap[b].tab[p] \in Seq(Blk)
  <2> DEFINE t == remap[b].tab[p]
  <2>1. t \in Seq(Nat) /\ \A i \in 1 .. Len(t) : t[i] \in Blk
    BY <1>1, <1>3
  <2> HIDE DEF t
  <2>2. t \in [1 .. Len(t) -> Blk] /\ Len(t) \in Nat
    BY <2>1
  <2>3. t \in Seq(Blk)
    BY <2>2
  <2> QED
    BY <2>3 DEF t
<1> QED
  BY <1>1, <1>2, <1>4 DEF TabOk

LEMMA KeepStep ==
    ASSUME BuildInv, KeepEntry
    PROVE  BuildInv'
<1>1. /\ pc = "update" /\ place < Len(remap[bank].tab[plane])
      /\ <<bank, Entry>> \notin marked /\ place' = place + 1
      /\ UNCHANGED <<flash, dbt, sysDbt, remap, selected, result, pc, bank, plane, uwcount, ret,
                     unread>>
      /\ place \in Nat /\ bank \in Bank /\ plane \in PlaneSet
  BY DEF KeepEntry, BuildInv, TypeOK
<1>2. \A b \in Bank, g \in UserMp : Listed(b, g) => Listed(b, g)'
  BY <1>1, ListedSame DEF result
<1>3. TablesInv' /\ BadInv'
  BY <1>1, <1>2, TablesKept, BadLater DEF BuildInv, flash
<1>4. IndexInv'
  BY <1>1, EarlyIndex DEF BuildInv, Early, result
<1>5. TypeOK'
  BY <1>1 DEF BuildInv, TypeOK, flash, result
<1>6. MarkInv'
  <2>1. Len(remap[bank].tab[plane]) \in Nat
    BY <1>1, PlaneFacts DEF BuildInv
  <2>2. NoMark(bank, plane, place + 1)
    BY <1>1 DEF NoMark, Entry
  <2>3. \A i \in 1 .. (place + 1) : NoMark(bank, plane, i)
    BY <2>2, <1>1 DEF BuildInv, MarkInv
  <2> QED
    BY <2>1, <2>3, <1>1 DEF BuildInv, MarkInv, Looked, NoMark, flash
<1> QED
  BY <1>1, <1>3, <1>4, <1>5, <1>6
     DEF BuildInv, SystemInv, LenInv, FlowInv, Early

LEMMA DropStep ==
    ASSUME BuildInv, DropEntry
    PROVE  BuildInv'
<1> DEFINE t == remap[bank].tab[plane]
           s == [j \in 1 .. (Len(t) - 1) |-> IF j = place + 1 THEN t[Len(t)] ELSE t[j]]
<1>1. /\ pc = "update" /\ place < Len(t) /\ place' = place
      /\ remap' = [remap EXCEPT ![bank].tab[plane] = s]
      /\ UNCHANGED <<flash, selected, result, pc, bank, plane, uwcount, ret>>
      /\ sysDbt' = IF Entry < SysMax THEN llfMarkSystemBlkDefect(sysDbt, bank, Entry) ELSE sysDbt
      /\ dbt' = IF Entry < SysMax THEN dbt ELSE llfSetDBT(dbt, bank, Entry)
  BY DEF DropEntry, WithoutEntry
<1>2. /\ unread' \in 0 .. MaxUnread
      /\ pc = "update" /\ pc' = "update" /\ UNCHANGED <<bank, plane, place, failed, marked>>
  <2>1. unread' \in 0 .. MaxUnread
    BY DEF DropEntry, BuildInv, TypeOK
  <2> HIDE DEF s, t
  <2> QED
    BY <2>1, <1>1 DEF flash
<1>3. /\ place \in Nat /\ bank \in Bank /\ plane \in PlaneSet /\ remap \in [Bank -> Collector]
      /\ dbt \in [Bank -> SUBSET Mp] /\ sysDbt \in [Bank -> SUBSET Blk]
  BY DEF BuildInv, TypeOK
<1>4. /\ t \in Seq(Blk) /\ Len(t) \in Nat /\ Len(t) <= TableLen /\ Distinct(t)
      /\ \A i \in 1 .. Len(t) : EntryOk(bank, plane, t[i])
  BY <1>3, PlaneFacts DEF BuildInv
<1>5. Entry \in Blk /\ Group(Entry) \in Mp /\ Entry = t[place + 1]
  <2>1. Entry = t[place + 1]
    BY DEF Entry
  <2>2. place + 1 \in 1 .. Len(t)
    <3>1. place < Len(t) /\ place \in Nat /\ Len(t) \in Nat
      BY <1>1, <1>3, <1>4
    <3> HIDE DEF t
    <3> QED
      BY <3>1
  <2>3. Entry \in Blk
    BY <2>1, <2>2, <1>4 DEF EntryOk
  <2> QED
    BY <2>1, <2>3, BlkGroup
<1>6. /\ dbt' \in [Bank -> SUBSET Mp] /\ sysDbt' \in [Bank -> SUBSET Blk]
      /\ \A b \in Bank : dbt[b] \subseteq dbt'[b]
  <2> DEFINE e == Entry
  <2>1. e \in Blk /\ Group(e) \in Mp
    BY <1>5
  <2>2. \/ dbt' = dbt
        \/ dbt' = [dbt EXCEPT ![bank] = @ \cup {Group(e)}]
    BY <1>1 DEF llfSetDBT, llfMarkUserMPBlkDefect
  <2>3. \/ sysDbt' = sysDbt
        \/ sysDbt' = [sysDbt EXCEPT ![bank] = @ \cup {e}]
    BY <1>1 DEF llfMarkSystemBlkDefect
  <2> HIDE DEF e
  <2> QED
    BY <2>1, <2>2, <2>3, <1>3
<1>7. \A b \in Bank, g \in UserMp : Listed(b, g) => Listed(b, g)'
  BY <1>1, <1>6 DEF Listed, result
<1> HIDE DEF t
<1>8. /\ s \in Seq(Blk) /\ Len(s) = Len(t) - 1
      /\ \A j \in 1 .. Len(s) : s[j] = IF j = place + 1 THEN t[Len(t)] ELSE t[j]
  <2>1. Len(t) - 1 \in Nat
    BY <1>1, <1>3, <1>4
  <2>2. \A j \in 1 .. Len(t) : t[j] \in Blk
    BY <1>4
  <2>3. s \in [1 .. (Len(t) - 1) -> Blk]
    BY <2>1, <2>2
  <2> QED
    BY <2>1, <2>3
<1> HIDE DEF s
<1> DEFINE k(i) == IF i = place + 1 THEN Len(t) ELSE i
<1>81. /\ Len(s) \in Nat /\ Len(t) = Len(s) + 1 /\ place <= Len(s)
       /\ \A i \in 1 .. Len(s) : k(i) \in 1 .. Len(t) /\ s[i] = t[k(i)]
       /\ \A i, j \in 1 .. Len(s) : i # j => k(i) # k(j)
  <2>1. place < Len(t) /\ place \in Nat /\ Len(t) \in Nat
    BY <1>1, <1>3, <1>4
  <2>2. Len(s) \in Nat /\ Len(t) = Len(s) + 1 /\ place <= Len(s)
    BY <2>1, <1>8
  <2>3. \A i \in 1 .. Len(s) : k(i) \in 1 .. Len(t) /\ s[i] = t[k(i)]
    BY <2>1, <2>2, <1>8
  <2> QED
    BY <2>1, <2>2, <2>3
<1> HIDE DEF k
<1>9. Distinct(s)
  BY <1>4, <1>81 DEF Distinct
<1>10. Len(s) <= TableLen /\ \A i \in 1 .. Len(s) : EntryOk(bank, plane, s[i])
  BY <1>4, <1>81
<1>11. /\ TabOk(bank, WithPlane(remap[bank], plane, s))
       /\ \A q \in PlaneSet : WithPlane(remap[bank], plane, s).tab[q] =
                                 IF q = plane THEN s ELSE remap[bank].tab[q]
  BY <1>3, <1>8, <1>9, <1>10, PlaneReplaced DEF BuildInv, TablesInv
<1>12. \A b \in Bank : remap'[b] = IF b = bank THEN WithPlane(remap[bank], plane, s) ELSE remap[b]
  BY <1>1, <1>3 DEF WithPlane
<1>13. \A b \in Bank : TabOk(b, remap'[b])
  BY <1>11, <1>12 DEF BuildInv, TablesInv
<1>14. TablesInv'
  BY <1>1, <1>7, <1>13, TabLater DEF TablesInv, flash
<1>15. BadInv'
  BY <1>1, <1>7, BadLater DEF BuildInv
<1>16. IndexInv'
  BY <1>1, EarlyIndex DEF BuildInv, Early, result
<1>17. TypeOK'
  <2>1. remap' = [b \in Bank |-> remap'[b]]
    BY <1>1, <1>3
  <2>2. /\ remap' \in [Bank -> Collector]
        /\ \A b \in Bank, p \in PlaneSet :
             /\ Len(remap'[b].tab[p]) <= TableLen
             /\ \A i \in 1 .. Len(remap'[b].tab[p]) : remap'[b].tab[p][i] \in Blk
    BY <2>1, <1>14, TableTypes
  <2> QED
    BY SMTT(30), <2>2, <1>1, <1>2, <1>6 DEF BuildInv, TypeOK, flash, result
<1>18. MarkInv'
  <2>1. remap'[bank].tab[plane] = s /\ place <= Len(s)
    BY <1>3, <1>81, <1>11, <1>12
  <2>2. \A i \in 1 .. place : i \in 1 .. Len(s) /\ i \in 1 .. Len(t) /\ s[i] = t[i]
    BY <1>3, <1>81 DEF k
  <2>3. \A i \in 1 .. place : NoMark(bank, plane, i)'
    BY <2>1, <2>2, <1>1, <1>2 DEF BuildInv, MarkInv, NoMark, t
  <2>4. ASSUME NEW b \in Bank, NEW p \in PlaneSet, Looked(b, p)'
        PROVE  /\ Looked(b, p) /\ remap'[b].tab[p] = remap[b].tab[p]
    <3>1. Looked(b, p) /\ (b # bank \/ p # plane)
      BY <2>4, <1>2, <1>3 DEF Looked, Bank, PlaneSet
    <3> QED
      BY <3>1, <1>11, <1>12
  <2>5. \A b \in Bank, p \in PlaneSet : Looked(b, p)' =>
           \A i \in 1 .. Len(remap'[b].tab[p]) : NoMark(b, p, i)'
    BY <2>4, <1>2 DEF BuildInv, MarkInv, NoMark
  <2> QED
    BY <2>1, <2>3, <2>5, <1>1, <1>2 DEF MarkInv
<1> QED
  BY <1>1, <1>14, <1>15, <1>16, <1>17, <1>18
     DEF BuildInv, SystemInv, LenInv, FlowInv, Early

LEMMA EndOfPlaneStep ==
    ASSUME BuildInv, EndOfPlane
    PROVE  BuildInv'
<1>1. /\ pc = "update" /\ place = Len(remap[bank].tab[plane]) /\ NextPlane("sort", 0)
      /\ UNCHANGED <<flash, dbt, sysDbt, remap, selected, result, uwcount, ret, unread>>
      /\ bank \in Bank /\ plane \in PlaneSet
  BY DEF EndOfPlane, BuildInv, TypeOK
<1>2. \A b \in Bank, g \in UserMp : Listed(b, g) => Listed(b, g)'
  BY <1>1, ListedSame DEF result
<1>3. TablesInv' /\ BadInv'
  BY <1>1, <1>2, TablesKept, BadLater DEF BuildInv, flash
<1>4. IndexInv'
  BY <1>1, EarlyIndex DEF BuildInv, Early, result
<1>5. /\ bank' \in Bank /\ plane' \in PlaneSet /\ place' \in Nat
      /\ \/ /\ pc' = "update" /\ place' = 0
            /\ \/ bank' = bank /\ plane' = plane + 1
               \/ bank' = bank + 1 /\ plane' = 0 /\ plane = Planes - 1
         \/ pc' = "sort" /\ bank = BankNum - 1 /\ plane = Planes - 1
  BY <1>1, PlaneLoop
<1>6. TypeOK'
  <2>1. pc' \in Phases
    BY <1>5 DEF Phases
  <2> QED
    BY <2>1, <1>1, <1>5 DEF BuildInv, TypeOK, flash, result
<1>7. MarkInv'
  <2>1. ASSUME NEW b \in Bank, NEW p \in PlaneSet, Looked(b, p)'
        PROVE  Looked(b, p) \/ (b = bank /\ p = plane)
    BY <2>1, <1>1, <1>5 DEF Looked, Bank, PlaneSet
  <2>2. \A i \in 1 .. Len(remap[bank].tab[plane]) : NoMark(bank, plane, i)
    BY <1>1 DEF BuildInv, MarkInv
  <2>3. \A b \in Bank, p \in PlaneSet : Looked(b, p)' =>
           \A i \in 1 .. Len(remap[b].tab[p]) : NoMark(b, p, i)
    BY <2>1, <2>2 DEF BuildInv, MarkInv
  <2>4. \A b \in Bank, p \in PlaneSet : Looked(b, p)' =>
           \A i \in 1 .. Len(remap'[b].tab[p]) : NoMark(b, p, i)'
    BY <2>3, <1>1 DEF NoMark, flash
  <2>5. pc' = "update" => place' = 0 /\ Len(remap'[bank'].tab[plane']) \in Nat
    BY <1>1, <1>5, PlaneFacts DEF BuildInv
  <2> QED
    BY <2>4, <2>5, <1>5 DEF MarkInv
<1> QED
  BY <1>1, <1>3, <1>4, <1>5, <1>6, <1>7
     DEF BuildInv, SystemInv, LenInv, FlowInv, Early

LEMMA FewEntries ==
    ASSUME NEW t \in Seq(Blk), NEW S, S = {t[i] : i \in 1 .. Len(t)}
    PROVE  Cardinality(S) <= Len(t)
<1>1. Len(t) \in Nat
  OBVIOUS
<1>2. t \in [1 .. Len(t) -> S]
  <2>1. t \in [1 .. Len(t) -> Blk]
    OBVIOUS
  <2> QED
    BY <2>1
<1>3. \A x \in S : \E i \in 1 .. Len(t) : t[i] = x
  OBVIOUS
<1>4. ExistsSurjection(1 .. Len(t), S)
  BY <1>2, <1>3 DEF ExistsSurjection, Surjection
<1> QED
  BY <1>1, <1>4, FS_SurjCardinalityBound

\* All planes cut to one length.
CutBank(c) == [c EXCEPT !.mp = Shortest(c),
                        !.tab = [p \in PlaneSet |-> SubSeq(c.tab[p], 1, Shortest(c))]]

LEMMA CutOk ==
    ASSUME NEW b \in Bank, NEW c, TabOk(b, c)
    PROVE  /\ TabOk(b, CutBank(c))
           /\ \A p \in PlaneSet :
                /\ Len(CutBank(c).tab[p]) = Shortest(c)
                /\ Shortest(c) \in Nat /\ Shortest(c) <= Len(c.tab[p])
                /\ \A i \in 1 .. Shortest(c) : CutBank(c).tab[p][i] = c.tab[p][i]
<1> DEFINE n == Shortest(c)
           d == CutBank(c)
<1>1. c \in Collector /\ n \in Nat /\ \A p \in PlaneSet : n <= Len(c.tab[p])
  BY ShortestOk DEF TabOk
<1>2. ASSUME NEW p \in PlaneSet
      PROVE  /\ SubSeq(c.tab[p], 1, n) \in Seq(Nat) /\ Len(SubSeq(c.tab[p], 1, n)) = n
             /\ \A i \in 1 .. n : SubSeq(c.tab[p], 1, n)[i] = c.tab[p][i]
             /\ Len(c.tab[p]) \in Nat
  <2> DEFINE t == c.tab[p]
  <2>1. t \in Seq(Nat) /\ n <= Len(t) /\ n \in Nat
    BY <1>1 DEF Collector
  <2> HIDE DEF t, n
  <2>2. /\ SubSeq(t, 1, n) \in Seq(Nat) /\ Len(SubSeq(t, 1, n)) = n
        /\ \A i \in 1 .. n : SubSeq(t, 1, n)[i] = t[i]
        /\ Len(t) \in Nat
    BY <2>1
  <2> QED
    BY <2>2 DEF t
<1> HIDE DEF n
<1>3. /\ d \in Collector
      /\ \A p \in PlaneSet : d.tab[p] = SubSeq(c.tab[p], 1, n)
  <2>1. d = [c EXCEPT !.mp = n, !.tab = [p \in PlaneSet |-> SubSeq(c.tab[p], 1, n)]]
    BY DEF CutBank, n
  <2>2. [p \in PlaneSet |-> SubSeq(c.tab[p], 1, n)] \in [PlaneSet -> Seq(Nat)]
    BY <1>2
  <2> QED
    BY ZenonT(40), <1>1, <2>1, <2>2 DEF Collector
<1> HIDE DEF d
<1>4. \A p \in PlaneSet : /\ Len(d.tab[p]) = n /\ n <= Len(c.tab[p]) /\ Len(c.tab[p]) \in Nat
                          /\ \A i \in 1 .. n : d.tab[p][i] = c.tab[p][i]
  BY <1>1, <1>2, <1>3
<1>5. TabOk(b, d)
  <2> SUFFICES ASSUME NEW p \in PlaneSet
               PROVE  /\ Len(d.tab[p]) <= TableLen /\ Distinct(d.tab[p])
                      /\ \A i \in 1 .. Len(d.tab[p]) : EntryOk(b, p, d.tab[p][i])
    BY <1>3 DEF TabOk
  <2>1. /\ Len(c.tab[p]) <= TableLen /\ Distinct(c.tab[p])
        /\ \A i \in 1 .. Len(c.tab[p]) : EntryOk(b, p, c.tab[p][i])
    BY DEF TabOk
  <2>2. \A i \in 1 .. n : i \in 1 .. Len(c.tab[p])
    BY <1>1, <1>4
  <2> QED
    BY <1>1, <1>4, <2>1, <2>2 DEF Distinct
<1> QED
  BY <1>1, <1>4, <1>5 DEF d, n

LEMMA Areas == SSEnd < MpNum /\ MpNum - 1 \in UserMp /\ SSEnd \in UserMp
<1>1. CASE MpNum <= SSEnd
  <2>1. MpNum * Planes <= SSEnd * Planes
    <3>1. MpNum = SSEnd \/ MpNum < SSEnd
      BY <1>1
    <3>2. MpNum < SSEnd => MpNum * Planes + Planes <= SSEnd * Planes
      BY Monotone
    <3>3. MpNum * Planes \in Nat /\ SSEnd * Planes \in Nat
      OBVIOUS
    <3> QED
      BY <3>1, <3>2, <3>3
  <2>2. MpNum * Planes \in Nat /\ SSEnd * Planes \in Nat
    OBVIOUS
  <2> QED
    BY <2>1, <2>2
<1> QED
  BY <1>1 DEF UserMp

LEMMA SortStep ==
    ASSUME BuildInv, ~Serial, SortPlane
    PROVE  BuildInv'
<1> DEFINE t == remap[bank].tab[plane]
           E == Entries(bank, plane)
<1>1. /\ pc = "sort" /\ bank \in Bank /\ plane \in PlaneSet
      /\ remap \in [Bank -> Collector]
      /\ NextPlane("find", MpNum - 1) /\ MpNum - 1 \in Nat
      /\ UNCHANGED <<flash, dbt, sysDbt, selected, result, uwcount, ret, unread>>
  <2>1. MpNum - 1 \in Nat
    BY Areas
  <2> QED
    BY <2>1 DEF SortPlane, BuildInv, TypeOK
<1>2. PICK s \in SortedSeqs(E) :
        LET sorted == [remap EXCEPT ![bank].tab[plane] = s]
        IN  remap' = IF LastPlane THEN Cut(sorted) ELSE sorted
  BY DEF SortPlane, Paired
<1> DEFINE sorted == [remap EXCEPT ![bank].tab[plane] = s]
<1>3. remap' = IF LastPlane THEN Cut(sorted) ELSE sorted
  BY <1>2
<1>4. /\ t \in Seq(Blk) /\ Len(t) \in Nat /\ Len(t) <= TableLen
      /\ \A i \in 1 .. Len(t) : EntryOk(bank, plane, t[i])
  BY <1>1, PlaneFacts DEF BuildInv
<1>5. E = {t[i] : i \in 1 .. Len(t)}
  BY DEF Entries
<1>6. \A i \in 1 .. Len(t) : <<bank, t[i]>> \notin marked
  BY <1>1 DEF BuildInv, MarkInv, Looked, NoMark
<1> HIDE DEF t, E
<1>7. E \in SUBSET Blk /\ Cardinality(E) <= Len(t)
      /\ \A x \in E : EntryOk(bank, plane, x) /\ <<bank, x>> \notin marked
  BY <1>4, <1>5, <1>6, FewEntries DEF EntryOk
<1>8. /\ s \in Seq(Blk) /\ Len(s) <= TableLen /\ Distinct(s)
      /\ \A i \in 1 .. Len(s) : EntryOk(bank, plane, s[i]) /\ <<bank, s[i]>> \notin marked
  <2>1. Cardinality(E) \in Nat /\ s \in Seq(Blk) /\ Len(s) = Cardinality(E)
        /\ Distinct(s) /\ \A i \in 1 .. Len(s) : s[i] \in E
    BY <1>7, SortedIsSeq
  <2> QED
    BY <2>1, <1>4, <1>7
<1>9. \A b \in Bank : sorted[b] = IF b = bank THEN WithPlane(remap[bank], plane, s) ELSE remap[b]
  BY <1>1 DEF WithPlane
<1>10. /\ TabOk(bank, WithPlane(remap[bank], plane, s))
       /\ \A q \in PlaneSet : WithPlane(remap[bank], plane, s).tab[q] =
                                 IF q = plane THEN s ELSE remap[bank].tab[q]
  <2>1. TabOk(bank, remap[bank]) /\ \A i \in 1 .. Len(s) : EntryOk(bank, plane, s[i])
    BY <1>1, <1>8 DEF BuildInv, TablesInv
  <2> HIDE DEF sorted
  <2> QED
    BY <1>1, <1>8, <2>1, PlaneReplaced
<1> HIDE DEF sorted
<1>11. \A b \in Bank : TabOk(b, sorted[b])
  BY <1>9, <1>10 DEF BuildInv, TablesInv
<1>12. \A b \in Bank, p \in PlaneSet :
         \A i \in 1 .. Len(sorted[b].tab[p]) : <<b, sorted[b].tab[p][i]>> \notin marked
  <2>1. \A b \in Bank, p \in PlaneSet :
          \A i \in 1 .. Len(remap[b].tab[p]) : <<b, remap[b].tab[p][i]>> \notin marked
    BY <1>1 DEF BuildInv, MarkInv, Looked, NoMark
  <2> QED
    BY <2>1, <1>8, <1>9, <1>10
<1>13. LastPlane => \A b \in Bank : remap'[b] = CutBank(sorted[b])
  BY <1>3 DEF Cut, CutBank
<1>14. ASSUME NEW b \in Bank
       PROVE  /\ TabOk(b, remap'[b])
              /\ \A p \in PlaneSet :
                   \A i \in 1 .. Len(remap'[b].tab[p]) : <<b, remap'[b].tab[p][i]>> \notin marked
  <2>1. CASE LastPlane
    <3> DEFINE n == Shortest(sorted[b])
    <3>1. /\ TabOk(b, CutBank(sorted[b])) /\ n \in Nat
          /\ \A p \in PlaneSet :
               /\ Len(CutBank(sorted[b]).tab[p]) = n /\ n <= Len(sorted[b].tab[p])
               /\ \A i \in 1 .. n : CutBank(sorted[b]).tab[p][i] = sorted[b].tab[p][i]
      <4>1. 0 \in PlaneSet
        BY DEF PlaneSet
      <4> QED
        BY <4>1, <1>11, CutOk
    <3>2. \A p \in PlaneSet : Len(sorted[b].tab[p]) \in Nat
      BY <1>11 DEF TabOk, Collector
    <3>3. \A p \in PlaneSet : \A i \in 1 .. n : i \in 1 .. Len(sorted[b].tab[p])
      BY <3>1, <3>2
    <3> HIDE DEF n
    <3> QED
      BY SMTT(30), <2>1, <3>1, <3>3, <1>12, <1>13
  <2>2. CASE ~LastPlane
    BY <2>2, <1>3, <1>11, <1>12
  <2> QED
    BY <2>1, <2>2
<1>15. \A b \in Bank, g \in UserMp : Listed(b, g) => Listed(b, g)'
  BY <1>1, ListedSame DEF result
<1>16. TablesInv' /\ BadInv'
  <2>1. UNCHANGED failed
    BY <1>1 DEF flash
  <2>2. TablesInv'
    BY <2>1, <1>14, <1>15, TabLater DEF TablesInv
  <2> QED
    BY <2>2, <1>1, <1>15, BadLater DEF BuildInv
<1>17. IndexInv'
  BY <1>1, EarlyIndex DEF BuildInv, Early, result
<1>18. /\ bank' \in Bank /\ plane' \in PlaneSet /\ place' \in Nat
       /\ \/ pc' = "sort"
          \/ pc' = "find" /\ place' = MpNum - 1 /\ LastPlane
  BY <1>1, PlaneLoop DEF LastPlane
<1>19. TypeOK'
  <2>1. remap' = [b \in Bank |-> remap'[b]]
    <3>1. sorted = [b \in Bank |-> sorted[b]]
      BY <1>1 DEF sorted
    <3> QED
      BY <3>1, <1>3 DEF Cut
  <2>2. /\ remap' \in [Bank -> Collector]
        /\ \A b \in Bank, p \in PlaneSet :
             /\ Len(remap'[b].tab[p]) <= TableLen
             /\ \A i \in 1 .. Len(remap'[b].tab[p]) : remap'[b].tab[p][i] \in Blk
    BY <2>1, <1>16, TableTypes
  <2>3. pc' \in Phases
    BY <1>18 DEF Phases
  <2> QED
    BY <2>2, <2>3, <1>1, <1>18 DEF BuildInv, TypeOK, flash, result
<1>20. MarkInv'
  BY <1>1, <1>14, <1>18 DEF MarkInv, NoMark, flash
<1>21. LenInv'
  <2>1. LastPlane => \A b \in Bank, p \in PlaneSet :
           Len(remap'[b].tab[p]) = Len(remap'[b].tab[0])
    <3>1. 0 \in PlaneSet
      BY DEF PlaneSet
    <3> QED
      BY <3>1, <1>11, <1>13, CutOk
  <2> QED
    BY <2>1, <1>18 DEF LenInv, Early
<1>22. FlowInv' /\ SystemInv'
  BY <1>1, <1>18, Areas DEF BuildInv, FlowInv, SystemInv
<1> QED
  BY <1>16, <1>17, <1>19, <1>20, <1>21, <1>22 DEF BuildInv

\* Appending a new element.
LEMMA Appended ==
    ASSUME NEW t \in Seq(Nat), Distinct(t), NEW x \in Nat, \A i \in 1 .. Len(t) : t[i] # x
    PROVE  /\ Append(t, x) \in Seq(Nat) /\ Len(t) \in Nat /\ Len(Append(t, x)) = Len(t) + 1
           /\ Distinct(Append(t, x))
           /\ \A i \in 1 .. Len(Append(t, x)) :
                 \/ i \in 1 .. Len(t) /\ Append(t, x)[i] = t[i]
                 \/ Append(t, x)[i] = x
<1>1. /\ Append(t, x) \in Seq(Nat) /\ Len(Append(t, x)) = Len(t) + 1 /\ Len(t) \in Nat
      /\ Append(t, x)[Len(t) + 1] = x
      /\ \A i \in 1 .. Len(t) : Append(t, x)[i] = t[i]
  OBVIOUS
<1>2. Distinct(Append(t, x))
  BY <1>1 DEF Distinct
<1> QED
  BY <1>1, <1>2

\* A group that is given up was in use: its blocks are good, and new in the table.
LEMMA GivesGood ==
    ASSUME BuildInv, pc \in {"find", "select"}, NEW m \in UserMp, NEW b \in Bank, m \notin dbt[b],
           NEW p \in PlaneSet
    PROVE  LET x == m * Planes + p
           IN  /\ x \in Blk /\ PlaneOf(x) = p /\ Group(x) = m
               /\ <<b, x>> \notin failed /\ <<b, x>> \notin marked
               /\ \A i \in 1 .. Len(remap[b].tab[p]) : remap[b].tab[p][i] # x
<1> DEFINE x == m * Planes + p
<1>1. m \in Nat /\ m \in Mp
  BY UserGroups
<1>2. x \in Blk /\ PlaneOf(x) = p /\ Group(x) = m
  BY <1>1, PartsBlock, BlkIsGroups
<1> HIDE DEF x
<1>3. ~Listed(b, m)
  BY <1>1 DEF BuildInv, IndexInv, Early, Listed
<1>4. x \notin Bad(b)
  BY <1>2, <1>3 DEF BuildInv, BadInv
<1>5. <<b, x>> \notin failed /\ <<b, x>> \notin marked
  BY <1>4, NotBadNotFailed
<1>6. \A i \in 1 .. Len(remap[b].tab[p]) : remap[b].tab[p][i] # x
  <2> SUFFICES ASSUME NEW i \in 1 .. Len(remap[b].tab[p]), remap[b].tab[p][i] = x
               PROVE  FALSE
    OBVIOUS
  <2>1. EntryOk(b, p, x)
    BY PlaneFacts DEF BuildInv
  <2> QED
    BY <2>1, <1>2, <1>3 DEF EntryOk
<1> QED
  BY <1>2, <1>5, <1>6 DEF x

LEMMA InsertOk ==
    ASSUME BuildInv, pc \in {"find", "select"}, NEW m \in UserMp, NEW banks \in SUBSET Bank,
           \A b \in banks : m \notin dbt[b] /\ HasRoom(b),
           llfRemapFlagInsertBlock(banks, m), UNCHANGED <<flash, result>>
    PROVE  /\ TablesInv' /\ BadInv' /\ remap' = [b \in Bank |-> remap'[b]]
           /\ dbt' \in [Bank -> SUBSET Mp]
           /\ \A b \in Bank, p \in PlaneSet :
                /\ Len(remap'[b].tab[p]) = Len(remap'[b].tab[0])
                /\ \A i \in 1 .. Len(remap'[b].tab[p]) : <<b, remap'[b].tab[p][i]>> \notin marked
<1>1. /\ remap' = [b \in Bank |->
                     IF b \notin banks THEN remap[b]
                     ELSE [remap[b] EXCEPT !.tab = [p \in PlaneSet |->
                                                      Append(@[p], m * Planes + p)]]]
      /\ dbt' = [b \in Bank |-> IF b \in banks THEN dbt[b] \cup {m} ELSE dbt[b]]
      /\ dbt \in [Bank -> SUBSET Mp] /\ m \in Mp
      /\ remap \in [Bank -> Collector]
      /\ UNCHANGED <<failed, marked, bitmap>>
  BY UserGroups DEF llfRemapFlagInsertBlock, BuildInv, TypeOK, flash, result
<1>2. dbt' \in [Bank -> SUBSET Mp] /\ \A b \in Bank : dbt[b] \subseteq dbt'[b]
  BY <1>1
<1>3. \A b \in banks : m \in dbt'[b]
  BY <1>1
<1>4. \A b \in Bank, g \in UserMp : Listed(b, g) => Listed(b, g)'
  BY <1>1, <1>2 DEF Listed
<1>5. BadInv'
  BY <1>4, BadLater DEF BuildInv
<1>6. \A b \in Bank, p \in PlaneSet :
        /\ Len(remap[b].tab[p]) = Len(remap[b].tab[0])
        /\ \A i \in 1 .. Len(remap[b].tab[p]) : <<b, remap[b].tab[p][i]>> \notin marked
  BY DEF BuildInv, LenInv, MarkInv, Looked, NoMark
<1>7. ASSUME NEW b \in Bank
      PROVE  /\ TabOk(b, remap[b])'
             /\ \A p \in PlaneSet :
                  /\ Len(remap'[b].tab[p]) = Len(remap'[b].tab[0])
                  /\ \A i \in 1 .. Len(remap'[b].tab[p]) : <<b, remap'[b].tab[p][i]>> \notin marked
  <2>1. CASE b \notin banks
    <3>1. remap'[b] = remap[b] /\ TabOk(b, remap[b])
      BY <2>1, <1>1 DEF BuildInv, TablesInv
    <3>2. TabOk(b, remap[b])'
      BY <3>1, <1>1, <1>4, TabLater
    <3> QED
      BY <3>1, <3>2, <1>6
  <2>2. CASE b \in banks
    <3> DEFINE r == remap[b]
               d == [r EXCEPT !.tab = [p \in PlaneSet |-> Append(@[p], m * Planes + p)]]
    <3>1. remap'[b] = d
      BY <2>2, <1>1
    <3>2. r \in Collector
      BY <1>1
    <3>3. 0 \in PlaneSet
      BY DEF PlaneSet
    <3>4. ASSUME NEW p \in PlaneSet
          PROVE  LET t == r.tab[p]
                     x == m * Planes + p
                 IN  /\ t \in Seq(Nat) /\ Distinct(t) /\ x \in Nat
                     /\ \A i \in 1 .. Len(t) : t[i] # x /\ EntryOk(b, p, t[i])
                     /\ x \in Blk /\ PlaneOf(x) = p /\ Group(x) = m
                     /\ <<b, x>> \notin failed /\ <<b, x>> \notin marked
                     /\ Len(t) = Len(r.tab[0]) /\ Len(t) < TableLen
                     /\ \A i \in 1 .. Len(t) : <<b, t[i]>> \notin marked
      <4>1. m \notin dbt[b] /\ Len(r.tab[0]) < TableLen
        BY <2>2 DEF HasRoom
      <4>2. m * Planes + p \in Nat
        BY PartsBlock, UserGroups
      <4> QED
        <5> DEFINE x == m * Planes + p
                   t == r.tab[p]
        <5>1. /\ x \in Blk /\ PlaneOf(x) = p /\ Group(x) = m
              /\ <<b, x>> \notin failed /\ <<b, x>> \notin marked
              /\ \A i \in 1 .. Len(t) : t[i] # x
          BY <4>1, GivesGood
        <5>2. /\ t \in Seq(Nat) /\ Distinct(t)
              /\ \A i \in 1 .. Len(t) : EntryOk(b, p, t[i])
          BY PlaneFacts DEF BuildInv
        <5>3. /\ Len(t) = Len(r.tab[0])
              /\ \A i \in 1 .. Len(t) : <<b, t[i]>> \notin marked
          BY <1>6
        <5> HIDE DEF x, t, r
        <5> QED
          BY <4>1, <4>2, <5>1, <5>2, <5>3 DEF x, t
    <3> HIDE DEF r
    <3>5. ASSUME NEW p \in PlaneSet
          PROVE  LET t == r.tab[p]
                     x == m * Planes + p
                 IN  /\ Append(t, x) \in Seq(Nat) /\ Len(Append(t, x)) = Len(t) + 1
                     /\ Len(t) \in Nat /\ Len(Append(t, x)) <= TableLen
                     /\ Distinct(Append(t, x))
                     /\ \A i \in 1 .. Len(Append(t, x)) :
                          /\ <<b, Append(t, x)[i]>> \notin marked
                          /\ \A y : y = Append(t, x)[i] => EntryOk(b, p, y)'
      <4> DEFINE t == r.tab[p]
                 x == m * Planes + p
      <4>1. /\ t \in Seq(Nat) /\ Distinct(t) /\ x \in Nat
            /\ \A i \in 1 .. Len(t) : t[i] # x
            /\ \A i \in 1 .. Len(t) : EntryOk(b, p, t[i]) /\ <<b, t[i]>> \notin marked
            /\ x \in Blk /\ PlaneOf(x) = p /\ Group(x) = m
            /\ <<b, x>> \notin failed /\ <<b, x>> \notin marked
            /\ Len(t) < TableLen
        BY <3>4
      <4> HIDE DEF t, x
      <4>2. /\ Append(t, x) \in Seq(Nat) /\ Len(t) \in Nat /\ Len(Append(t, x)) = Len(t) + 1
            /\ Distinct(Append(t, x))
            /\ \A i \in 1 .. Len(Append(t, x)) :
                  \/ i \in 1 .. Len(t) /\ Append(t, x)[i] = t[i]
                  \/ Append(t, x)[i] = x
        BY <4>1, Appended
      <4>3. Len(Append(t, x)) <= TableLen
        BY <4>1, <4>2
      <4>4. \A y : EntryOk(b, p, y) => EntryOk(b, p, y)'
        BY <1>1, <1>4 DEF EntryOk
      <4>5. \A y : y = x => EntryOk(b, p, y)'
        BY <4>1, <2>2, <1>1, <1>3 DEF EntryOk, Listed
      <4>6. \A i \in 1 .. Len(Append(t, x)) :
              /\ <<b, Append(t, x)[i]>> \notin marked
              /\ \A y : y = Append(t, x)[i] => EntryOk(b, p, y)'
        BY <4>1, <4>2, <4>4, <4>5
      <4> QED
        BY <4>2, <4>3, <4>6 DEF t, x
    <3>6. d.tab = [p \in PlaneSet |-> Append(r.tab[p], m * Planes + p)] /\ d \in Collector
      <4>1. [p \in PlaneSet |-> Append(r.tab[p], m * Planes + p)] \in [PlaneSet -> Seq(Nat)]
        BY <3>5
      <4> QED
        BY <4>1, <3>2 DEF Collector
    <3> HIDE DEF d
    <3>7. \A p \in PlaneSet : d.tab[p] = Append(r.tab[p], m * Planes + p)
      BY <3>6
    <3>8. TabOk(b, remap[b])'
      <4>1. \A p \in PlaneSet :
              /\ Len(d.tab[p]) <= TableLen /\ Distinct(d.tab[p])
              /\ \A i \in 1 .. Len(d.tab[p]) : \A y : y = d.tab[p][i] => EntryOk(b, p, y)'
        BY ZenonT(40), <3>5, <3>7
      <4>2. \A p \in PlaneSet : \A i \in 1 .. Len(remap'[b].tab[p]) :
              EntryOk(b, p, remap[b].tab[p][i])'
        BY <4>1, <3>1 DEF EntryOk, Listed
      <4> QED
        BY <4>1, <4>2, <3>1, <3>6 DEF TabOk
    <3>9. \A p \in PlaneSet :
            /\ Len(remap'[b].tab[p]) = Len(remap'[b].tab[0])
            /\ \A i \in 1 .. Len(remap'[b].tab[p]) : <<b, remap'[b].tab[p][i]>> \notin marked
      BY ZenonT(40), <3>1, <3>3, <3>4, <3>5, <3>7
    <3> QED
      BY <3>8, <3>9
  <2> QED
    BY <2>1, <2>2
<1>8. TablesInv'
  BY <1>7 DEF TablesInv
<1>9. remap' = [b \in Bank |-> remap'[b]]
  BY <1>1
<1> QED
  BY <1>2, <1>5, <1>7, <1>8, <1>9

\* A step of llfRemapFindBrokenBS that gives up a group, or none.
LEMMA FindStep ==
    ASSUME BuildInv, pc \in {"find", "select"}, pc' \in {"find", "select"},
           TablesInv', BadInv', remap' = [b \in Bank |-> remap'[b]],
           dbt' \in [Bank -> SUBSET Mp],
           \A b \in Bank, p \in PlaneSet :
                /\ Len(remap'[b].tab[p]) = Len(remap'[b].tab[0])
                /\ \A i \in 1 .. Len(remap'[b].tab[p]) : <<b, remap'[b].tab[p][i]>> \notin marked,
           selected' \in Seq(UserMp), bank' \in Bank, plane' \in PlaneSet, place' \in Nat,
           pc' = "find" => place' \in UserMp, pc' = "select" => place' >= 1,
           UNCHANGED <<flash, sysDbt, result, uwcount, ret, unread>>
    PROVE  BuildInv'
<1>1. TypeOK'
  <2>1. /\ remap' \in [Bank -> Collector]
        /\ \A b \in Bank, p \in PlaneSet :
             /\ Len(remap'[b].tab[p]) <= TableLen
             /\ \A i \in 1 .. Len(remap'[b].tab[p]) : remap'[b].tab[p][i] \in Blk
    BY TableTypes
  <2>2. pc' \in Phases
    BY DEF Phases
  <2> QED
    BY <2>1, <2>2 DEF BuildInv, TypeOK, flash, result
<1>2. IndexInv'
  BY EarlyIndex DEF BuildInv, Early, result
<1>3. MarkInv'
  BY DEF MarkInv, NoMark, flash
<1>4. LenInv' /\ FlowInv' /\ SystemInv'
  BY DEF BuildInv, LenInv, FlowInv, SystemInv, Early
<1> QED
  BY <1>1, <1>2, <1>3, <1>4 DEF BuildInv

\* Nothing changes in the tables.
LEMMA TablesAsTheyAre ==
    ASSUME BuildInv, pc \in {"find", "select"}, UNCHANGED <<flash, dbt, remap, result>>
    PROVE  /\ TablesInv' /\ BadInv' /\ remap' = [b \in Bank |-> remap'[b]]
           /\ dbt' \in [Bank -> SUBSET Mp]
           /\ \A b \in Bank, p \in PlaneSet :
                /\ Len(remap'[b].tab[p]) = Len(remap'[b].tab[0])
                /\ \A i \in 1 .. Len(remap'[b].tab[p]) : <<b, remap'[b].tab[p][i]>> \notin marked
<1>1. \A b \in Bank, g \in UserMp : Listed(b, g) => Listed(b, g)'
  BY ListedSame DEF result
<1>2. TablesInv' /\ BadInv'
  BY <1>1, TablesKept, BadLater DEF BuildInv, flash
<1>3. remap' = [b \in Bank |-> remap'[b]] /\ dbt' \in [Bank -> SUBSET Mp]
  BY DEF BuildInv, TypeOK
<1>4. \A b \in Bank, p \in PlaneSet :
        /\ Len(remap[b].tab[p]) = Len(remap[b].tab[0])
        /\ \A i \in 1 .. Len(remap[b].tab[p]) : <<b, remap[b].tab[p][i]>> \notin marked
  BY DEF BuildInv, LenInv, MarkInv, Looked, NoMark
<1> QED
  BY <1>2, <1>3, <1>4

\* The superblock before this one, or the list of those that were noted.
LEMMA Downward ==
    ASSUME BuildInv, pc = "find", NextBroken
    PROVE  /\ pc' \in {"find", "select"} /\ bank' \in Bank /\ plane' \in PlaneSet /\ place' \in Nat
           /\ pc' = "find" => place' \in UserMp
           /\ pc' = "select" => place' >= 1
<1>1. place \in UserMp /\ bank \in Bank /\ plane \in PlaneSet
  BY DEF BuildInv, TypeOK, FlowInv
<1>2. CASE place > SSEnd
  BY <1>1, <1>2 DEF NextBroken, UserMp
<1>3. CASE ~(place > SSEnd)
  BY <1>3 DEF NextBroken, Goto, Bank, PlaneSet
<1> QED
  BY <1>2, <1>3

LEMMA GiveUpBrokenStep ==
    ASSUME BuildInv, GiveUpBroken
    PROVE  BuildInv'
<1> DEFINE banks == {b \in Bank \ BadBanks(place) : HasRoom(b)}
<1>1. /\ pc = "find" /\ llfRemapFlagInsertBlock(banks, place) /\ NextBroken
      /\ UNCHANGED <<flash, sysDbt, selected, result, uwcount, ret, unread>>
  BY DEF GiveUpBroken
<1>2. place \in UserMp /\ banks \in SUBSET Bank
  BY <1>1 DEF BuildInv, FlowInv
<1>3. \A b \in banks : place \notin dbt[b] /\ HasRoom(b)
  BY DEF BadBanks, llfIsMpBlockBad
<1> HIDE DEF banks
<1>4. /\ TablesInv' /\ BadInv' /\ remap' = [b \in Bank |-> remap'[b]]
      /\ dbt' \in [Bank -> SUBSET Mp]
      /\ \A b \in Bank, p \in PlaneSet :
           /\ Len(remap'[b].tab[p]) = Len(remap'[b].tab[0])
           /\ \A i \in 1 .. Len(remap'[b].tab[p]) : <<b, remap'[b].tab[p][i]>> \notin marked
  <2>1. UNCHANGED <<flash, result>>
    BY <1>1
  <2> QED
    BY <2>1, <1>1, <1>2, <1>3, InsertOk
<1>5. selected' \in Seq(UserMp)
  BY <1>1 DEF BuildInv, TypeOK
<1> QED
  BY <1>1, <1>4, <1>5, Downward, FindStep

LEMMA NoteBrokenStep ==
    ASSUME BuildInv, NoteBroken
    PROVE  BuildInv'
<1>1. /\ pc = "find" /\ NextBroken
      /\ selected' = selected \/ selected' = Append(selected, place)
      /\ UNCHANGED <<flash, dbt, sysDbt, remap, result, uwcount, ret, unread>>
  BY DEF NoteBroken
<1>2. selected' \in Seq(UserMp)
  <2>1. selected \in Seq(UserMp) /\ place \in UserMp
    BY <1>1 DEF BuildInv, TypeOK, FlowInv
  <2>2. Append(selected, place) \in Seq(UserMp)
    BY <2>1
  <2> QED
    BY <2>1, <2>2, <1>1
<1>3. UNCHANGED <<flash, dbt, remap, result>>
  BY <1>1
<1> QED
  BY <1>1, <1>2, <1>3, Downward, TablesAsTheyAre, FindStep

LEMMA GiveUpSelectedStep ==
    ASSUME BuildInv, GiveUpSelected
    PROVE  BuildInv'
<1> DEFINE m == selected[place]
           good == Bank \ BadBanks(m)
<1>1. /\ pc = "select" /\ place <= Len(selected) /\ place' = place + 1
      /\ \/ (\A b \in good : HasRoom(b)) /\ llfRemapFlagInsertBlock(good, m)
         \/ UNCHANGED <<dbt, remap>>
      /\ UNCHANGED <<flash, sysDbt, selected, result, pc, bank, plane, uwcount, ret, unread>>
  BY DEF GiveUpSelected
<1>2. m \in UserMp /\ good \in SUBSET Bank
  <2>1. place \in Nat /\ place >= 1 /\ selected \in Seq(UserMp)
    BY <1>1 DEF BuildInv, TypeOK, FlowInv
  <2>2. place \in 1 .. Len(selected)
    BY <2>1, <1>1
  <2> QED
    BY <2>1, <2>2
<1>3. \A b \in good : m \notin dbt[b]
  BY DEF BadBanks, llfIsMpBlockBad
<1> HIDE DEF good, m
<1>4. /\ TablesInv' /\ BadInv' /\ remap' = [b \in Bank |-> remap'[b]]
      /\ dbt' \in [Bank -> SUBSET Mp]
      /\ \A b \in Bank, p \in PlaneSet :
           /\ Len(remap'[b].tab[p]) = Len(remap'[b].tab[0])
           /\ \A i \in 1 .. Len(remap'[b].tab[p]) : <<b, remap'[b].tab[p][i]>> \notin marked
  <2>1. UNCHANGED <<flash, result>>
    BY <1>1
  <2>2. CASE (\A b \in good : HasRoom(b)) /\ llfRemapFlagInsertBlock(good, m)
    BY <2>1, <2>2, <1>1, <1>2, <1>3, InsertOk
  <2>3. CASE UNCHANGED <<dbt, remap>>
    BY <2>1, <2>3, <1>1, TablesAsTheyAre
  <2> QED
    BY <2>2, <2>3, <1>1
<1>5. /\ selected' \in Seq(UserMp) /\ bank' \in Bank /\ plane' \in PlaneSet
      /\ place' \in Nat /\ place' >= 1 /\ pc' = "select"
  <2>1. /\ selected \in Seq(UserMp) /\ bank \in Bank /\ plane \in PlaneSet
        /\ place \in Nat /\ place >= 1
    BY <1>1 DEF BuildInv, TypeOK, FlowInv
  <2>2. /\ place' = place + 1
        /\ UNCHANGED <<selected, pc, bank, plane>>
    BY <1>1
  <2> QED
    BY <2>1, <2>2, <1>1
<1> QED
  BY <1>1, <1>4, <1>5, FindStep

LEMMA EndSelectStep ==
    ASSUME BuildInv, ~Serial, EndSelect
    PROVE  BuildInv'
<1>1. /\ pc = "select" /\ remap' = LlfGetRealMaxBsNum(remap) /\ Goto("redefine", SSEnd)
      /\ UNCHANGED <<flash, dbt, sysDbt, selected, result, uwcount, ret, unread>>
  BY DEF EndSelect
<1>2. \A b \in Bank : remap'[b] = [remap[b] EXCEPT !.mp = Shortest(remap[b])]
  BY <1>1 DEF LlfGetRealMaxBsNum
<1>3. \A b \in Bank, p \in PlaneSet :
        /\ Len(remap[b].tab[p]) = Len(remap[b].tab[0])
        /\ \A i \in 1 .. Len(remap[b].tab[p]) : <<b, remap[b].tab[p][i]>> \notin marked
  BY <1>1 DEF BuildInv, LenInv, MarkInv, Looked, NoMark
<1>4. ASSUME NEW b \in Bank
      PROVE  /\ TabOk(b, remap'[b])
             /\ remap'[b].mp = Len(remap[b].tab[0]) /\ remap'[b].tab = remap[b].tab
  <2> DEFINE n == Shortest(remap[b])
  <2>1. TabOk(b, remap[b]) /\ remap[b] \in Collector
    BY DEF BuildInv, TablesInv, TypeOK
  <2>2. n \in Nat /\ n = Len(remap[b].tab[0]) /\ remap'[b] = [remap[b] EXCEPT !.mp = n]
    BY <2>1, <1>2, <1>3, ShortestOk
  <2> HIDE DEF n
  <2> QED
    BY SMTT(30), <2>1, <2>2, MpReplaced
<1>5. \A b \in Bank, g \in UserMp : Listed(b, g) => Listed(b, g)'
  BY <1>1, ListedSame DEF result
<1>6. TablesInv' /\ BadInv'
  <2>1. UNCHANGED failed
    BY <1>1 DEF flash
  <2>2. TablesInv'
    BY <2>1, <1>4, <1>5, TabLater DEF TablesInv
  <2> QED
    BY <2>2, <1>1, <1>5, BadLater DEF BuildInv
<1>7. TypeOK'
  <2>1. remap' = [b \in Bank |-> remap'[b]]
    BY <1>1 DEF LlfGetRealMaxBsNum
  <2>2. /\ remap' \in [Bank -> Collector]
        /\ \A b \in Bank, p \in PlaneSet :
             /\ Len(remap'[b].tab[p]) <= TableLen
             /\ \A i \in 1 .. Len(remap'[b].tab[p]) : remap'[b].tab[p][i] \in Blk
    BY <2>1, <1>6, TableTypes
  <2>3. pc' \in Phases /\ bank' \in Bank /\ plane' \in PlaneSet /\ place' \in Nat
    BY <1>1 DEF Phases, Goto, Bank, PlaneSet
  <2> QED
    BY <2>2, <2>3, <1>1 DEF BuildInv, TypeOK, flash, result
<1>8. pc' = "redefine" /\ place' = SSEnd
  BY <1>1 DEF Goto
<1>9. IndexInv'
  BY <1>1, EarlyIndex DEF BuildInv, Early, result
<1>10. MarkInv'
  BY <1>1, <1>3, <1>4, <1>8 DEF MarkInv, NoMark, flash
<1>11. LenInv'
  BY <1>3, <1>4 DEF LenInv
<1>12. FlowInv' /\ SystemInv'
  BY <1>1, <1>8, Areas DEF BuildInv, FlowInv, SystemInv
<1> QED
  BY <1>6, <1>7, <1>9, <1>10, <1>11, <1>12 DEF BuildInv

\* From "redefine" on the tables stay as they are.
LEMMA FixedTables ==
    ASSUME BuildInv, pc \notin Early, UNCHANGED <<flash, remap>>,
           \A b \in Bank, g \in UserMp : Listed(b, g) => Listed(b, g)',
           pc' \notin Early, pc' = "check" => place' = 0 \/ place' <= Len(remap[bank'].tab[plane']),
           bank' \in Bank, plane' \in PlaneSet
    PROVE  TablesInv' /\ BadInv' /\ MarkInv' /\ LenInv' /\ SystemInv'
<1>1. TablesInv' /\ BadInv'
  BY TablesKept, BadLater DEF BuildInv, flash
<1>2. MarkInv'
  <2>1. Len(remap[bank'].tab[plane']) \in Nat
    BY PlaneFacts DEF BuildInv
  <2>2. \A b \in Bank, p \in PlaneSet : \A i \in 1 .. Len(remap[b].tab[p]) : NoMark(b, p, i)
    BY DEF BuildInv, MarkInv, Looked, Early
  <2>3. pc' # "update" /\ (pc' = "check" => place' <= Len(remap[bank'].tab[plane']))
    BY <2>1 DEF Early
  <2> QED
    BY <2>2, <2>3 DEF MarkInv, NoMark, flash
<1>3. LenInv' /\ SystemInv'
  BY DEF BuildInv, LenInv, SystemInv, Early
<1> QED
  BY <1>1, <1>2, <1>3

\* A free entry of a bank.
LEMMA FreeSlotOk ==
    ASSUME BuildInv, pc = "redefine", NEW b \in Bank
    PROVE  /\ FreeSlot(b) \in 0 .. TableLen
           /\ remap[b].mp \in 0 .. TableLen
<1>1. cur[b] \in 0 .. TableLen
  BY DEF BuildInv, TypeOK
<1>2. remap[b].mp \in 0 .. TableLen
  <2>1. 0 \in PlaneSet
    BY DEF PlaneSet
  <2>2. remap[b].mp = Len(remap[b].tab[0])
    BY DEF BuildInv, LenInv, Early
  <2> QED
    BY <2>1, <2>2, PlaneFacts DEF BuildInv
<1>3. CASE cur[b] < remap[b].mp
  <2> DEFINE T == {i \in cur[b] .. remap[b].mp : i = remap[b].mp \/ b \notin used[i]}
  <2>1. T \subseteq Nat /\ remap[b].mp \in T
    BY <1>1, <1>2, <1>3
  <2>2. PICK x \in T : \A y \in T : x <= y
    <3> HIDE DEF T
    <3> QED
      BY <2>1, HasLowest
  <2>3. \A j \in cur[b] .. (x - 1) : b \in used[j]
    BY <2>2, <1>1, <1>2
  <2>4. FreeSlot(b) \in cur[b] .. remap[b].mp
    BY <2>2, <2>3, <1>1, <1>2, <1>3 DEF FreeSlot
  <2> QED
    BY <2>4, <1>1, <1>2
<1>4. CASE ~(cur[b] < remap[b].mp)
  BY <1>1, <1>2, <1>4 DEF FreeSlot
<1> QED
  BY <1>2, <1>3, <1>4

LEMMA CommonSlotOk ==
    ASSUME BuildInv, pc = "redefine", NEW m, Replaceable(m) # {}
    PROVE  CommonSlot(m) \in Slot
<1> DEFINE T == {FreeSlot(b) : b \in Replaceable(m)}
<1>1. \A b \in Replaceable(m) : b \in Bank /\ FreeSlot(b) < remap[b].mp
  BY DEF Replaceable, BadBanks
<1>2. T \subseteq 0 .. TableLen
  BY <1>1, FreeSlotOk
<1>3. T # {} /\ TableLen \in Nat
  OBVIOUS
<1>4. PICK x \in T : \A y \in T : y <= x
  <2> HIDE DEF T
  <2>1. T \in SUBSET (0 .. TableLen)
    BY <1>2
  <2>2. \E x \in T : \A y \in T : y <= x
    BY <1>3, <2>1, HasHighest
  <2> QED
    BY <2>2
<1>5. CommonSlot(m) \in T
  BY <1>4 DEF CommonSlot
<1>6. PICK b \in Replaceable(m) : CommonSlot(m) = FreeSlot(b)
  BY <1>5
<1>7. b \in Bank /\ FreeSlot(b) < remap[b].mp
  BY <1>1
<1>8. FreeSlot(b) \in 0 .. TableLen /\ remap[b].mp \in 0 .. TableLen
  BY <1>7, FreeSlotOk
<1> QED
  BY <1>6, <1>7, <1>8 DEF Slot

LEMMA NextGroup ==
    ASSUME BuildInv, pc = "redefine",
           IF place + 1 < MpNum THEN place' = place + 1 /\ UNCHANGED <<pc, bank, plane>>
                                ELSE Goto("check", 0)
    PROVE  /\ place \in UserMp /\ place \in Mp /\ place \in Nat
           /\ bank' \in Bank /\ plane' \in PlaneSet /\ place' \in Nat
           /\ pc' \in Phases /\ pc' \notin Early
           /\ \/ pc' = "redefine" /\ place' = place + 1 /\ place' \in UserMp
              \/ pc' = "check" /\ place' = 0
<1>1. place \in UserMp /\ place \in Mp /\ place \in Nat /\ bank \in Bank /\ plane \in PlaneSet
  BY UserGroups DEF BuildInv, FlowInv, TypeOK
<1>2. CASE place + 1 < MpNum
  <2>1. pc' = "redefine" /\ place' = place + 1 /\ bank' = bank /\ plane' = plane
    BY <1>2
  <2>2. place + 1 \in UserMp
    BY <1>1, <1>2 DEF UserMp
  <2> QED
    BY <1>1, <2>1, <2>2 DEF Phases, Early, UserMp
<1>3. CASE ~(place + 1 < MpNum)
  <2>1. pc' = "check" /\ place' = 0 /\ bank' = 0 /\ plane' = 0
    BY <1>3 DEF Goto
  <2>2. 0 \in Bank /\ 0 \in PlaneSet
    BY DEF Bank, PlaneSet
  <2> QED
    BY <1>1, <2>1, <2>2 DEF Phases, Early
<1> QED
  BY <1>2, <1>3

LEMMA ReplaceStep ==
    ASSUME BuildInv, ReplaceGroup
    PROVE  BuildInv'
<1> DEFINE m == place
           i == CommonSlot(m)
           gets == Taken(m)
<1>1. /\ pc = "redefine" /\ Replaceable(m) # {}
      /\ index' = [index EXCEPT ![m] = i]
      /\ bitmap' = [bitmap EXCEPT ![m] = @ \cup gets]
      /\ used' = [used EXCEPT ![i] = @ \cup gets]
      /\ UNCHANGED <<flash, remap, selected, uwcount, ret, unread>>
  BY DEF ReplaceGroup, IndexAfter
<1>2. cur' = [b \in Bank |->
                CASE b \notin BadBanks(m)        -> cur[b]
                  [] b \in gets /\ i = FreeSlot(b)
                     /\ Cardinality(Replaceable(m)) > 1 -> i + 1
                  [] OTHER                            -> FreeSlot(b)]
  BY DEF ReplaceGroup
<1>3. /\ dbt' = [b \in Bank |-> IF b \in gets THEN dbt[b] \ {m} ELSE dbt[b]]
      /\ sysDbt' = [b \in Bank |-> IF b \in gets /\ m * Planes < SysMax
                                   THEN sysDbt[b] \ BlocksOf(m) ELSE sysDbt[b]]
  BY DEF ReplaceGroup
<1>4. IF m + 1 < MpNum THEN place' = m + 1 /\ UNCHANGED <<pc, bank, plane>>
                       ELSE Goto("check", 0)
  BY DEF ReplaceGroup
<1>5. /\ m \in UserMp /\ m \in Mp /\ m \in Nat
      /\ bank' \in Bank /\ plane' \in PlaneSet /\ place' \in Nat
      /\ pc' \in Phases /\ pc' \notin Early
      /\ \/ pc' = "redefine" /\ place' = m + 1 /\ place' \in UserMp
         \/ pc' = "check" /\ place' = 0
  BY <1>1, <1>4, NextGroup
<1>6. i \in Slot
  BY <1>1, CommonSlotOk
<1>7. gets \subseteq Bank /\ \A b \in gets : i < remap[b].mp /\ b \notin used[i]
  BY DEF Taken, BadBanks
<1>8. /\ index \in [Mp -> Slot \cup {NoIndex}] /\ bitmap \in [Mp -> SUBSET Bank]
      /\ used \in [Slot -> SUBSET Bank] /\ cur \in [Bank -> 0 .. TableLen]
      /\ dbt \in [Bank -> SUBSET Mp] /\ sysDbt \in [Bank -> SUBSET Blk]
  BY DEF BuildInv, TypeOK
<1>9. bitmap[m] = {} /\ \A n \in Mp : n >= m => bitmap[n] = {}
  BY <1>1, <1>5 DEF BuildInv, IndexInv, UserMp
<1> HIDE DEF m, i, gets
<1>10. cur' \in [Bank -> 0 .. TableLen]
  <2>1. ASSUME NEW b \in Bank
        PROVE  cur'[b] \in 0 .. TableLen
    <3>1. FreeSlot(b) \in 0 .. TableLen /\ remap[b].mp \in 0 .. TableLen /\ cur[b] \in 0 .. TableLen
      BY <1>1, <1>8, FreeSlotOk
    <3>2. b \in gets => i + 1 \in 0 .. TableLen
      BY <3>1, <1>6, <1>7 DEF Slot
    <3>3. \/ cur'[b] = cur[b]
          \/ b \in gets /\ cur'[b] = i + 1
          \/ cur'[b] = FreeSlot(b)
      BY <1>2
    <3> QED
      BY <3>1, <3>2, <3>3
  <2> QED
    BY <2>1, <1>2
<1>11. /\ dbt' \in [Bank -> SUBSET Mp] /\ sysDbt' \in [Bank -> SUBSET Blk]
  BY <1>3, <1>8
<1>12. /\ index' \in [Mp -> Slot \cup {NoIndex}] /\ bitmap' \in [Mp -> SUBSET Bank]
       /\ used' \in [Slot -> SUBSET Bank]
  BY <1>1, <1>5, <1>6, <1>7, <1>8
<1>13. TypeOK'
  BY <1>1, <1>5, <1>10, <1>11, <1>12 DEF BuildInv, TypeOK, flash
<1>14. \A b \in Bank, g \in UserMp : Listed(b, g) => Listed(b, g)'
  <2> SUFFICES ASSUME NEW b \in Bank, NEW g \in UserMp, Listed(b, g)
               PROVE  g \in dbt'[b] \/ b \in bitmap'[g]
    BY DEF Listed
  <2>1. g \in Mp
    BY UserGroups
  <2>2. CASE b \in gets /\ g = m
    BY <2>1, <2>2, <1>1, <1>8
  <2>3. CASE ~(b \in gets /\ g = m)
    <3>1. g \in dbt[b] => g \in dbt'[b]
      BY <2>3, <1>3
    <3>2. b \in bitmap[g] => b \in bitmap'[g]
      BY <2>1, <1>1, <1>8
    <3> QED
      BY <3>1, <3>2 DEF Listed
  <2> QED
    BY <2>2, <2>3
<1>15. TablesInv' /\ BadInv' /\ MarkInv' /\ LenInv' /\ SystemInv'
  <2>1. pc \notin Early /\ UNCHANGED <<flash, remap>>
    BY <1>1 DEF Early
  <2>2. pc' = "check" => place' = 0
    BY <1>5
  <2> QED
    BY <2>1, <2>2, <1>5, <1>14, FixedTables
<1>16. IndexInv'
  <2>1. \A n \in Mp : /\ index'[n] = IF n = m THEN i ELSE index[n]
                      /\ bitmap'[n] = IF n = m THEN gets ELSE bitmap[n]
    BY <1>1, <1>8, <1>9
  <2>2. \A n \in Mp : n # m => \A b \in bitmap[n] :
          /\ index[n] \in Slot /\ index[n] < remap[b].mp /\ b \in used[index[n]]
          /\ \A o \in Mp : o # n /\ b \in bitmap[o] => index[o] # index[n]
    BY DEF BuildInv, IndexInv
  <2>3. \A j \in Slot : used[j] \subseteq used'[j]
    BY <1>1, <1>8
  <2>4. gets \subseteq used'[i]
    BY <1>1, <1>6, <1>8
  <2>5. \A n \in Mp : n # m => \A b \in bitmap[n] : b \in gets => index[n] # i
    BY <2>2, <1>7
  <2>6. ASSUME NEW n \in Mp, NEW b \in bitmap'[n]
        PROVE  /\ index'[n] \in Slot /\ index'[n] < remap'[b].mp /\ b \in used'[index'[n]]
               /\ \A o \in Mp : o # n /\ b \in bitmap'[o] => index'[o] # index'[n]
    <3>1. remap' = remap
      BY <1>1
    <3>2. CASE n = m
      BY <3>1, <3>2, <2>1, <2>4, <2>5, <1>6, <1>7
    <3>3. CASE n # m
      BY <3>1, <3>3, <2>1, <2>2, <2>3, <2>5
    <3> QED
      BY <3>2, <3>3
  <2>7. pc' = "redefine" => \A n \in Mp : n >= place' => bitmap'[n] = {}
    <3>1. ASSUME NEW n \in Mp, n >= m + 1
          PROVE  bitmap'[n] = {}
      <4>1. n \in Nat /\ n >= m /\ n # m
        BY <3>1, <1>5 DEF Mp
      <4> QED
        BY <4>1, <2>1, <1>9
    <3> QED
      BY <3>1, <1>5
  <2> QED
    BY <2>6, <2>7, <1>5 DEF IndexInv
<1>17. FlowInv'
  BY <1>1, <1>5 DEF BuildInv, FlowInv, Early
<1> QED
  BY <1>13, <1>15, <1>16, <1>17 DEF BuildInv

LEMMA LeaveStep ==
    ASSUME BuildInv, LeaveGroup
    PROVE  BuildInv'
<1>1. /\ pc = "redefine"
      /\ cur' = [b \in Bank |-> IF b \in BadBanks(place) THEN FreeSlot(b) ELSE cur[b]]
      /\ IF place + 1 < MpNum THEN place' = place + 1 /\ UNCHANGED <<pc, bank, plane>>
                              ELSE Goto("check", 0)
      /\ UNCHANGED <<flash, dbt, sysDbt, remap, selected, index, bitmap, used, uwcount, ret, unread>>
  BY DEF LeaveGroup
<1>2. /\ place \in UserMp /\ place \in Nat
      /\ bank' \in Bank /\ plane' \in PlaneSet /\ place' \in Nat
      /\ pc' \in Phases /\ pc' \notin Early
      /\ \/ pc' = "redefine" /\ place' = place + 1 /\ place' \in UserMp
         \/ pc' = "check" /\ place' = 0
  BY <1>1, NextGroup
<1>3. cur' \in [Bank -> 0 .. TableLen]
  BY <1>1, FreeSlotOk DEF BuildInv, TypeOK
<1>4. TypeOK'
  BY <1>1, <1>2, <1>3 DEF BuildInv, TypeOK, flash
<1>5. TablesInv' /\ BadInv' /\ MarkInv' /\ LenInv' /\ SystemInv'
  <2>1. pc \notin Early /\ UNCHANGED <<flash, remap>>
    BY <1>1 DEF Early
  <2>2. pc' = "check" => place' = 0
    BY <1>2
  <2>3. \A b \in Bank, g \in UserMp : Listed(b, g) => Listed(b, g)'
    BY <1>1, ListedSame
  <2> QED
    BY <2>1, <2>2, <2>3, <1>2, FixedTables
<1>6. IndexInv'
  <2>1. pc' = "redefine" => \A n \in Mp : n >= place' => n >= place
    BY <1>2 DEF Mp
  <2> QED
    BY <2>1, <1>1, <1>2 DEF BuildInv, IndexInv
<1>7. FlowInv'
  BY <1>1, <1>2 DEF BuildInv, FlowInv, Early
<1> QED
  BY <1>4, <1>5, <1>6, <1>7 DEF BuildInv

\* A step of the check that does not refuse the table.
LEMMA CheckStep ==
    ASSUME BuildInv, pc \in {"check", "checkLun"}, pc' \in {"check", "checkLun", "done"},
           UNCHANGED <<flash, dbt, sysDbt, remap, selected, result, ret, unread>>,
           bank' \in Bank, plane' \in PlaneSet, place' \in Nat, uwcount' \in Nat,
           pc' = "check" => place' = 0 \/ place' <= Len(remap[bank'].tab[plane'])
    PROVE  BuildInv'
<1>1. TypeOK'
  BY DEF BuildInv, TypeOK, flash, result, Phases
<1>2. TablesInv' /\ BadInv' /\ MarkInv' /\ LenInv' /\ SystemInv'
  <2>1. \A b \in Bank, g \in UserMp : Listed(b, g) => Listed(b, g)'
    BY ListedSame DEF result
  <2>2. pc \notin Early /\ pc' \notin Early /\ UNCHANGED <<flash, remap>>
    BY DEF Early
  <2> QED
    BY <2>1, <2>2, FixedTables
<1>3. IndexInv' /\ FlowInv'
  BY DEF BuildInv, IndexInv, FlowInv, result, Early
<1> QED
  BY <1>1, <1>2, <1>3 DEF BuildInv

\* The check finds nothing wrong with an entry.
LEMMA EntryPasses ==
    ASSUME BuildInv, pc = "check", place < Len(remap[bank].tab[plane])
    PROVE  ~WrongPlane /\ ~Duplicate /\ NotInUse /\ CountAfter \in Nat
<1> DEFINE t == remap[bank].tab[plane]
<1>1. bank \in Bank /\ plane \in PlaneSet /\ place \in Nat /\ uwcount \in Nat
  BY DEF BuildInv, TypeOK
<1>2. /\ Len(t) \in Nat /\ Distinct(t)
      /\ \A i \in 1 .. Len(t) : EntryOk(bank, plane, t[i])
  BY <1>1, PlaneFacts DEF BuildInv
<1>3. place < Len(t) /\ Entry = t[place + 1]
  BY DEF Entry
<1>4. Duplicate <=> \E j \in 1 .. Len(t) : j > place + 1 /\ t[j] = Entry
  BY DEF Duplicate
<1> HIDE DEF t
<1>5. place + 1 \in 1 .. Len(t)
  BY <1>1, <1>2, <1>3
<1>6. /\ Entry \in Blk /\ PlaneOf(Entry) = plane
      /\ Group(Entry) \in UserMp /\ Listed(bank, Group(Entry))
  BY <1>2, <1>3, <1>5 DEF EntryOk
<1>7. ~Duplicate
  BY <1>1, <1>2, <1>3, <1>4, <1>5 DEF Distinct
<1>8. NotInUse
  <2> DEFINE g == Group(Entry)
  <2>1. g \in Mp
    BY <1>6, UserGroups
  <2>2. CASE g \in dbt[bank]
    BY <2>2 DEF NotInUse, llfIsMpBlockBad
  <2>3. CASE bank \in bitmap[g]
    <3>1. index[g] \in Slot
      BY <2>1, <2>3 DEF BuildInv, IndexInv
    <3>2. bitmap[g] # {} /\ index[g] # NoIndex
      BY <2>3, <3>1 DEF Slot, NoIndex
    <3> QED
      BY <3>2 DEF NotInUse
  <2> QED
    BY <2>2, <2>3, <1>6 DEF Listed
<1>9. CountAfter \in Nat
  <2>1. IsFiniteSet(Bank)
    BY FS_Interval DEF Bank
  <2>2. \A m : BadBanks(m) \subseteq Bank
    BY DEF BadBanks
  <2>3. \A m : Cardinality(BadBanks(m)) \in Nat
    BY <2>1, <2>2, FS_Subset, FS_CardinalityType
  <2> QED
    BY <2>3, <1>1 DEF CountAfter
<1> QED
  BY <1>6, <1>7, <1>8, <1>9 DEF WrongPlane

LEMMA CheckEntryStep ==
    ASSUME BuildInv, CheckEntry
    PROVE  BuildInv'
<1>1. /\ pc = "check" /\ place < Len(remap[bank].tab[plane])
      /\ UNCHANGED <<flash, dbt, sysDbt, remap, selected, result, unread>>
      /\ bank \in Bank /\ plane \in PlaneSet /\ place \in Nat /\ uwcount \in Nat
  BY DEF CheckEntry, BuildInv, TypeOK
<1>2. ~WrongPlane /\ ~Duplicate /\ NotInUse /\ CountAfter \in Nat
  BY <1>1, EntryPasses
<1>3. place' = place + 1 /\ UNCHANGED <<pc, bank, plane, ret>> /\ uwcount' \in Nat
  BY <1>1, <1>2 DEF CheckEntry
<1>4. place + 1 <= Len(remap[bank].tab[plane])
  BY <1>1, PlaneFacts DEF BuildInv
<1> QED
  BY <1>1, <1>3, <1>4, CheckStep

LEMMA EndOfEntriesStep ==
    ASSUME BuildInv, EndOfEntries
    PROVE  BuildInv'
<1>1. /\ pc = "check" /\ NextPlane("checkLun", 0)
      /\ UNCHANGED <<flash, dbt, sysDbt, remap, selected, result, uwcount, ret, unread>>
      /\ bank \in Bank /\ plane \in PlaneSet /\ uwcount \in Nat
  BY DEF EndOfEntries, BuildInv, TypeOK
<1>2. /\ bank' \in Bank /\ plane' \in PlaneSet /\ place' \in Nat /\ place' = 0
      /\ pc' \in {"check", "checkLun"}
  BY <1>1, PlaneLoop
<1> QED
  BY <1>1, <1>2, CheckStep

\* On a chip of one LUN every block is in it.
LEMMA OneLun ==
    ASSUME ~Serial, NEW x \in Blk
    PROVE  x \div RealBlockNum = 0
<1>1. x \in Nat /\ x < RealBlockNum /\ RealBlockNum \in Nat \ {0}
  BY DEF Blk
<1>2. x = 0 * RealBlockNum + x /\ x \in 0 .. (RealBlockNum - 1)
  BY <1>1
<1>3. /\ x \div RealBlockNum \in Nat /\ x % RealBlockNum \in 0 .. (RealBlockNum - 1)
      /\ x = (x \div RealBlockNum) * RealBlockNum + (x % RealBlockNum)
  BY <1>1, DivMod
<1> QED
  BY <1>1, <1>2, <1>3, Unique

LEMMA CheckLunStep ==
    ASSUME BuildInv, ~Serial, CheckLun
    PROVE  BuildInv'
<1>1. /\ pc = "checkLun"
      /\ UNCHANGED <<flash, dbt, sysDbt, remap, selected, result, uwcount, unread>>
      /\ bank \in Bank /\ plane \in PlaneSet /\ place \in Nat /\ uwcount \in Nat
  BY DEF CheckLun, BuildInv, TypeOK
<1>2. ASSUME NEW b \in Bank, NEW i \in 1 .. Shortest(remap[b])
      PROVE  SameLun(b, i)
  <2>1. ASSUME NEW p \in PlaneSet
        PROVE  remap[b].tab[p][i] \in Blk
    <3>1. remap[b] \in Collector /\ Len(remap[b].tab[p]) \in Nat
      BY PlaneFacts DEF BuildInv, TypeOK
    <3>2. Shortest(remap[b]) \in Nat /\ Shortest(remap[b]) <= Len(remap[b].tab[p])
      BY <3>1, ShortestOk
    <3>3. i \in 1 .. Len(remap[b].tab[p])
      BY <3>1, <3>2
    <3>4. EntryOk(b, p, remap[b].tab[p][i])
      BY <3>3, PlaneFacts DEF BuildInv
    <3> QED
      BY <3>4 DEF EntryOk
  <2> QED
    BY <2>1, OneLun DEF SameLun
<1>3. pc' = "done" /\ UNCHANGED <<bank, plane, place, ret>>
  BY <1>2 DEF CheckLun
<1> QED
  BY <1>1, <1>3, CheckStep

------------------------------------------------------------------------------
(* The theorems                                                            *)

LEMMA BuildInit ==
    ASSUME Init
    PROVE  BuildInv
<1>1. PICK bad \in BadSets :
        /\ marked \in {S \in SUBSET bad : Cardinality(S) <= MaxMark}
        /\ failed = bad \ marked
  BY DEF Init
<1>2. bad \subseteq Bank \X Blk
  BY DEF AnyBlk
<1>3. failed \subseteq Bank \X Blk /\ marked \subseteq Bank \X Blk
  BY <1>1, <1>2
<1>4. ASSUME NEW b \in Bank, NEW x \in Bad(b)
      PROVE  x \in Blk /\ Group(x) \in Mp
  <2>1. PICK c \in failed \cup marked : c[1] = b /\ c[2] = x
    BY DEF Bad, Of
  <2>2. x \in Blk
    BY <2>1, <1>3
  <2> QED
    BY <2>2, BlkGroup
<1>5. /\ dbt = [b \in Bank |-> {Group(x) : x \in Bad(b)}]
      /\ sysDbt = [b \in Bank |-> {x \in Bad(b) : x < SysMax}]
      /\ remap = [b \in Bank |-> LlfInitReMapTable]
      /\ selected = <<>>
      /\ index = [m \in Mp |-> NoIndex] /\ bitmap = [m \in Mp |-> {}]
      /\ used = [i \in Slot |-> {}] /\ cur = [b \in Bank |-> 0]
      /\ pc = "erase" /\ bank = 0 /\ plane = 0 /\ place = 0
      /\ uwcount = 0 /\ ret = "ERR_OK" /\ unread = 0
  BY DEF Init
<1>6. dbt \in [Bank -> SUBSET Mp] /\ sysDbt \in [Bank -> SUBSET Blk]
  BY <1>4, <1>5
<1>7. ASSUME NEW b \in Bank
      PROVE  /\ remap[b] \in Collector /\ Empty(remap[b])
             /\ \A p \in PlaneSet : remap[b].tab[p] = <<>>
  <2>1. LlfInitReMapTable \in Collector
    BY DEF LlfInitReMapTable, Collector, None
  <2> QED
    BY <2>1, <1>5 DEF LlfInitReMapTable, Empty
<1>8. TablesInv
  <2>1. ASSUME NEW b \in Bank
        PROVE  TabOk(b, remap[b])
    <3>1. ASSUME NEW p \in PlaneSet
          PROVE  Len(remap[b].tab[p]) = 0
      BY <1>7
    <3>2. TableLen >= 0 /\ 1 .. 0 = {}
      OBVIOUS
    <3> QED
      BY <3>1, <3>2, <1>7 DEF TabOk, Distinct
  <2> QED
    BY <2>1 DEF TablesInv
<1>9. TypeOK
  <2>1. remap \in [Bank -> Collector]
    BY <1>5, <1>7
  <2>2. /\ bank \in Bank /\ plane \in PlaneSet /\ place \in Nat /\ pc \in Phases
        /\ uwcount \in Nat /\ unread \in 0 .. MaxUnread
    BY <1>5 DEF Bank, PlaneSet, Phases
  <2>3. failed \subseteq Bank \X Blk /\ marked \subseteq Bank \X Blk
    BY <1>3
  <2>4. /\ selected \in Seq(UserMp)
        /\ index \in [Mp -> Slot \cup {NoIndex}] /\ bitmap \in [Mp -> SUBSET Bank]
        /\ used \in [Slot -> SUBSET Bank] /\ cur \in [Bank -> 0 .. TableLen]
    <3>1. <<>> \in Seq(UserMp) /\ 0 \in 0 .. TableLen
      OBVIOUS
    <3>2. selected \in Seq(UserMp)
      BY <3>1, <1>5
    <3> QED
      BY <3>1, <3>2, <1>5
  <2>5. \A b \in Bank, p \in PlaneSet :
          /\ Len(remap[b].tab[p]) <= TableLen
          /\ \A i \in 1 .. Len(remap[b].tab[p]) : remap[b].tab[p][i] \in Blk
    <3>1. \A b \in Bank, p \in PlaneSet : Len(remap[b].tab[p]) = 0
      BY <1>7
    <3>2. 0 <= TableLen /\ 1 .. 0 = {}
      OBVIOUS
    <3> QED
      BY <3>1, <3>2
  <2> QED
    BY <2>1, <2>2, <2>3, <2>4, <2>5, <1>5, <1>6 DEF TypeOK
<1>10. BadInv
  BY <1>4, <1>5 DEF BadInv, Listed
<1>11. SystemInv
  BY <1>5, <1>7 DEF SystemInv
<1>12. MarkInv /\ LenInv /\ FlowInv
  BY <1>5 DEF MarkInv, Looked, LenInv, FlowInv, Early
<1>13. IndexInv
  BY <1>5 DEF IndexInv, Early
<1> QED
  BY <1>8, <1>9, <1>10, <1>11, <1>12, <1>13 DEF BuildInv

LEMMA BuildNext ==
    ASSUME BuildInv, ~Serial, [Next]_vars
    PROVE  BuildInv'
<1>1. CASE UNCHANGED vars
  <2>1. UNCHANGED <<failed, marked, dbt, sysDbt, remap, selected, index, bitmap, used, cur,
                    pc, bank, plane, place, uwcount, ret, unread>>
    BY <1>1 DEF vars, flash, result
  <2>2. UNCHANGED flash /\ \A b \in Bank, g \in UserMp : Listed(b, g) => Listed(b, g)'
    BY <2>1, ListedSame DEF flash
  <2>3. TablesInv' /\ BadInv'
    BY <2>1, <2>2, TablesKept, BadLater DEF BuildInv
  <2>4. TypeOK'
    BY <2>1 DEF BuildInv, TypeOK
  <2>5. SystemInv'
    <3>1. \A b \in Bank : Bad(b)' = Bad(b)
      BY <2>1 DEF Bad
    <3>2. Begun' = Begun
      BY <2>1 DEF Begun
    <3>3. Collecting(bank, Begun, place) => Collecting(bank, Begun, place)'
      <4>1. \A c : Collecting(bank, c, place) => Collecting(bank, c, place)'
        BY <2>1 DEF Collecting, Empty
      <4> QED
        BY <4>1, <2>1, <3>2 DEF Collecting, Empty
    <3> QED
      BY <2>1, <3>1, <3>3 DEF BuildInv, SystemInv, Empty
  <2>6. MarkInv' /\ LenInv' /\ IndexInv' /\ FlowInv'
    BY <2>1 DEF BuildInv, MarkInv, Looked, NoMark, LenInv, IndexInv, FlowInv
  <2> QED
    BY <2>3, <2>4, <2>5, <2>6 DEF BuildInv
<1>2. CASE SortAgain
  BY <1>2 DEF SortAgain, BuildInv, FlowInv
<1> QED
  BY <1>1, <1>2, EraseStep, SystemStep, KeepStep, DropStep, EndOfPlaneStep, SortStep,
     GiveUpBrokenStep, NoteBrokenStep, GiveUpSelectedStep, EndSelectStep, ReplaceStep, LeaveStep,
     CheckEntryStep, EndOfEntriesStep, CheckLunStep DEF Next

\* On chips of one LUN the invariant holds in every state of the pipeline.
THEOREM BuildInvariant == ~Serial /\ Spec => []BuildInv
<1> SUFFICES ASSUME ~Serial
             PROVE  Spec => []BuildInv
  OBVIOUS
<1>1. Init => BuildInv
  BY BuildInit
<1>2. BuildInv /\ [Next]_vars => BuildInv'
  BY BuildNext
<1> QED
  BY <1>1, <1>2, PTL DEF Spec

\* Every variable keeps its type, and no plane of the table grows past its configuration.
THEOREM TypeCorrect == ~Serial /\ Spec => []TypeOK
<1>1. BuildInv => TypeOK
  BY DEF BuildInv
<1> QED
  BY <1>1, BuildInvariant, PTL

\* The check of the firmware never refuses what a format has built, although the count it
\* compares with half the banks is never reset: every entry is out of use for another reason.
THEOREM CheckAccepts == ~Serial /\ Spec => []TableAccepted
<1>1. BuildInv => TableAccepted
  BY DEF BuildInv, FlowInv, TableAccepted
<1> QED
  BY <1>1, BuildInvariant, PTL

\* Where a plane of a group in use is: in a block of the plane that did not fail and has no
\* mark, its own or one of a group that is out of use or replaced itself.
Placed(b, m, p, x) ==
    /\ m \in Mp /\ x \in Blk /\ PlaneOf(x) = p
    /\ <<b, x>> \notin failed /\ <<b, x>> \notin marked
    /\ b \in bitmap[m] => /\ index[m] + 1 \in 1 .. Len(remap[b].tab[p])
                          /\ x = remap[b].tab[p][index[m] + 1]
                          /\ Listed(b, Group(x))
    /\ b \notin bitmap[m] => Group(x) = m

LEMMA Replacement ==
    ASSUME BuildInv, Built, NEW b \in Bank, NEW p \in PlaneSet, NEW m \in InUse(b)
    PROVE  Placed(b, m, p, Location(b, m, p))
<1>1. m \in UserMp /\ m \notin dbt[b] /\ m \in Nat /\ m \in Mp
  BY UserGroups DEF InUse
<1>2. CASE b \in bitmap[m]
  <2> DEFINE t == remap[b].tab[p]
             i == index[m] + 1
  <2>1. index[m] \in Slot /\ index[m] < remap[b].mp
    BY <1>1, <1>2 DEF BuildInv, IndexInv
  <2>2. remap[b].mp = Len(t)
    BY DEF BuildInv, LenInv, Built, Early
  <2>3. Len(t) \in Nat /\ \A j \in 1 .. Len(t) : EntryOk(b, p, t[j])
    BY PlaneFacts DEF BuildInv
  <2>4. Location(b, m, p) = t[i]
    BY <1>2 DEF Location
  <2>5. \A j \in 1 .. Len(t) : <<b, t[j]>> \notin marked
    BY DEF BuildInv, MarkInv, Looked, NoMark, Built
  <2> HIDE DEF t
  <2>6. i \in 1 .. Len(t)
    BY <2>1, <2>2, <2>3 DEF Slot
  <2>7. EntryOk(b, p, t[i]) /\ <<b, t[i]>> \notin marked
    BY <2>3, <2>5, <2>6
  <2> HIDE DEF i
  <2> QED
    BY <1>1, <1>2, <2>4, <2>6, <2>7 DEF EntryOk, Placed, t, i
<1>3. CASE b \notin bitmap[m]
  <2> DEFINE x == m * Planes + p
  <2>1. Location(b, m, p) = x
    BY <1>3 DEF Location
  <2>2. x \in Blk /\ PlaneOf(x) = p /\ Group(x) = m
    BY <1>1, PartsBlock, BlkIsGroups
  <2> HIDE DEF x
  <2>3. x \notin Bad(b)
    BY <1>1, <1>3, <2>2 DEF BuildInv, BadInv, Listed
  <2>4. <<b, x>> \notin failed /\ <<b, x>> \notin marked
    BY <2>3, NotBadNotFailed
  <2> QED
    BY <1>1, <1>3, <2>1, <2>2, <2>4 DEF Placed
<1> QED
  BY <1>2, <1>3

\* No block is the place of two groups in use, although broken superblocks give blocks to the
\* table and get some from it.
THEOREM BlocksUsedOnce == ~Serial /\ Spec => []NoBlockTwice
<1>1. BuildInv => NoBlockTwice
  <2> SUFFICES ASSUME BuildInv
               PROVE  NoBlockTwice
    OBVIOUS
  <2>1. \A b \in Bank, p \in PlaneSet : Distinct(remap[b].tab[p])
    BY PlaneFacts DEF BuildInv
  <2>2. ASSUME Built, NEW b \in Bank, NEW p \in PlaneSet,
               NEW m \in InUse(b), NEW n \in InUse(b), m # n,
               Location(b, m, p) = Location(b, n, p)
        PROVE  FALSE
    <3> DEFINE x == Location(b, m, p)
               y == Location(b, n, p)
               t == remap[b].tab[p]
    <3>5. Placed(b, m, p, x) /\ Placed(b, n, p, y)
      BY <2>2, Replacement
    <3>7. x = y /\ Distinct(t)
      BY <2>1, <2>2
    <3> HIDE DEF x, y
    <3>1. CASE b \in bitmap[m] /\ b \in bitmap[n]
      <4>1. index[m] # index[n] /\ index[m] \in Slot /\ index[n] \in Slot
        BY <3>1, <3>5, <2>2 DEF Placed, BuildInv, IndexInv
      <4>2. index[m] + 1 # index[n] + 1
        BY <4>1 DEF Slot
      <4> QED
        BY <3>1, <4>2, <3>5, <3>7 DEF Placed, Distinct
    <3>2. CASE b \in bitmap[m] /\ b \notin bitmap[n]
      <4>1. Listed(b, n)
        BY <3>2, <3>5, <3>7 DEF Placed
      <4> QED
        BY <4>1, <3>2, <2>2 DEF Listed, InUse
    <3>3. CASE b \notin bitmap[m] /\ b \in bitmap[n]
      <4>1. Listed(b, m)
        BY <3>3, <3>5, <3>7 DEF Placed
      <4> QED
        BY <4>1, <3>3, <2>2 DEF Listed, InUse
    <3>4. CASE b \notin bitmap[m] /\ b \notin bitmap[n]
      BY <3>4, <3>5, <3>7, <2>2 DEF Placed
    <3> QED
      BY <3>1, <3>2, <3>3, <3>4
  <2> QED
    BY <2>1, <2>2 DEF NoBlockTwice
<1> QED
  BY <1>1, BuildInvariant, PTL

\* No group in use is at a block that failed or has a mark of the vendor.
THEOREM BadBlocksStayOut == ~Serial /\ Spec => []OnlyGoodBlocks
<1>1. BuildInv => OnlyGoodBlocks
  <2> SUFFICES ASSUME BuildInv, Built, NEW b \in Bank, NEW p \in PlaneSet, NEW m \in InUse(b)
               PROVE  Location(b, m, p) \notin Bad(b)
    BY DEF OnlyGoodBlocks
  <2>1. failed \subseteq Bank \X Blk /\ marked \subseteq Bank \X Blk
    BY DEF BuildInv, TypeOK
  <2> QED
    <3>1. Placed(b, m, p, Location(b, m, p))
      BY Replacement
    <3> QED
      BY <2>1, <3>1, IsBad DEF Placed
<1> QED
  BY <1>1, BuildInvariant, PTL

\* A replacement is made of one block of each plane, all in the LUN.
THEOREM ReplacementsAreWhole == ~Serial /\ Spec => []GroupsAreWhole
<1> SUFFICES ASSUME ~Serial
             PROVE  Spec => []GroupsAreWhole
  OBVIOUS
<1>1. BuildInv => GroupsAreWhole
  <2> SUFFICES ASSUME BuildInv, Built,
                      NEW b \in Bank, NEW p \in PlaneSet, NEW m \in InUse(b)
               PROVE  /\ PlaneOf(Location(b, m, p)) = p
                      /\ Location(b, m, p) \div RealBlockNum
                            = Location(b, m, 0) \div RealBlockNum
    BY DEF GroupsAreWhole
  <2>1. 0 \in PlaneSet
    BY DEF PlaneSet
  <2>2. /\ Location(b, m, p) \in Blk /\ PlaneOf(Location(b, m, p)) = p
        /\ Location(b, m, 0) \in Blk
    <3>1. Placed(b, m, p, Location(b, m, p)) /\ Placed(b, m, 0, Location(b, m, 0))
      BY <2>1, Replacement
    <3> QED
      BY <3>1 DEF Placed
  <2> QED
    BY <2>2, OneLun
<1>2. Spec => []BuildInv
  BY BuildInvariant
<1> QED
  BY <1>1, <1>2, PTL
=============================================================================
