----------------------------- MODULE MCInherit -----------------------------
(* Small flashes for Inherit: tested, or formatted and used.               *)
EXTENDS Inherit

GrownGroups == <<[bank |-> 0, group |-> 2], [bank |-> 1, group |-> 3], [bank |-> 0, group |-> 4],
                 [bank |-> 1, group |-> 2], [bank |-> 1, group |-> 4]>>

At(start) == [bank |-> 0, start |-> start]

\* The result of a bank, as tested here.
Result(b, bad) ==
    [ run |-> 1, bank |-> b, total |-> BankNum, static |-> TRUE, fits |-> TRUE, ok |-> TRUE,
      bad |-> bad, window |-> At(0), real |-> MpNum ]

\* A block of the test itself is bad in bank 1, or one of the copies.
Tested == [b \in Bank |-> Result(b, IF b = 0 THEN {2} ELSE {1, 6, 8})]
CopyBad == [b \in Bank |-> [Tested[b] EXCEPT !.bad = IF b = 0 THEN @ ELSE {0, 6, 8}]]
InWindow1 == [b \in Bank |-> [Tested[b] EXCEPT !.window = At(1)]]

\* Of another place, of another run, of another geometry; a bank that failed.
Swapped == [b \in Bank |-> [CopyBad[b] EXCEPT !.bank = BankNum - 1 - b]]
TwoRuns == [b \in Bank |-> [CopyBad[b] EXCEPT !.run = b + 1, !.bad = @ \cup {7, 9}]]
Regrouped == [b \in Bank |-> [Tested[b] EXCEPT !.fits = FALSE, !.bad = {6 + b, 8}]]
NoTable == [b \in Bank |-> [Tested[b] EXCEPT !.fits = FALSE, !.static = FALSE]]
FewerBanks == [b \in Bank |-> [Tested[b] EXCEPT !.total = 1]]
OneFailed == [b \in Bank |-> [Tested[b] EXCEPT !.ok = b = 0]]

HomeOf(start, real, sys, first, old) ==
    [ window |-> At(start), bad |-> {[bank |-> 1, group |-> 0]}, sys |-> sys, real |-> real,
      first |-> first, old |-> old ]

NoHome == HomeOf(0, MpNum, {}, 0, FALSE)

TestedFlashes ==
    {[tested |-> t, home |-> NoHome, formatted |-> FALSE, told |-> TRUE, rests |-> TRUE, mode |-> m] :
       t \in {Tested, Swapped, TwoRuns, Regrouped, NoTable, FewerBanks, OneFailed},
       m \in {"INHERIT", "DEFECT"}}

\* The loader knows the window, but for one flash of two whose copies moved.
Used(t, h, knows, rests) ==
    [tested |-> t, home |-> h, formatted |-> TRUE, told |-> knows, rests |-> rests,
     mode |-> "INHERIT"]

Moved == HomeOf(1, 4, {<<0, 0>>, <<1, 0>>}, 0, FALSE)

UsedFlashes ==
    {Used(CopyBad, NoHome, TRUE, TRUE), Used(Tested, HomeOf(0, 3, {<<0, 4>>}, 1, TRUE), TRUE, FALSE),
     Used(InWindow1, Moved, TRUE, FALSE), Used(InWindow1, Moved, FALSE, FALSE)}

AllFlashes == TestedFlashes \cup UsedFlashes
=============================================================================
