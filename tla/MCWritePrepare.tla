--------------------------- MODULE MCWritePrepare ---------------------------
(* Flashes with up to three bad blocks for WritePrepare.                   *)
EXTENDS WritePrepare

User == Bank \X ((SSEnd * Planes) .. (MpNum * Planes - 1))

OneMore(sets, from) == sets \cup {S \cup {c} : S \in sets, c \in from}

\* The areas move where blocks before them are bad.
UpToTwo == OneMore(OneMore({{}}, Bank \X Blk), Bank \X Blk)

UpToThree == UpToTwo \cup OneMore(OneMore(OneMore({{}}, User), User), User)

InheritedTables == [bad : UpToTwo, mode : {"INHERIT", "DEFECT", "TEST"}]

TwoCapacities ==
    <<[host |-> 6, bs |-> 1, mp |-> 3, op |-> 200], [host |-> 4, bs |-> 1, mp |-> 2, op |-> 250]>>
=============================================================================
