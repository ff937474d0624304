-------------------------- MODULE MCSystemBlocks --------------------------
(* Small flashes for SystemBlocks: what was erased or is to be updated.    *)
EXTENDS SystemBlocks

Fresh(failed, marked) ==
    [kind |-> "format", start |-> 0, bankStart |-> 0, map |-> {}, failed |-> failed,
     marked |-> marked]

Kept(kind, start, bankStart, map, failed) ==
    [kind |-> kind, start |-> start, bankStart |-> bankStart, map |-> map,
     failed |-> failed, marked |-> {}]

FullMap(bankStart) == {<<bankStart + p[1], p[2]>> : p \in Place}

\* Of a format: nothing failed; one block; a bank of the first window; the same, of
\* a failure and a mark; a whole bank.
FormatJobs ==
    {Fresh({}, {}), Fresh({<<0, 1>>}, {}), Fresh({<<1, 0>>, <<1, 1>>}, {}),
     Fresh({<<1, 0>>}, {<<1, 1>>}), Fresh({0} \X (0 .. (SblkBlks + ExtBlks - 1)), {})}

\* Of an inherited flash, with the copies in the first window or moved.
KeptJobs ==
    {Kept("inherit", 0, 0, FullMap(0), {}), Kept("inherit", SblkBlks, 0, FullMap(0), {}),
     Kept("force", 0, 0, FullMap(0), {<<0, 0>>}),
     Kept("force", SblkBlks, 0, FullMap(0) \ {<<0, 1>>}, {<<1, 1>>})}

\* An update of all copies, of those that are known, of some that are only in part.
UpdateJobs ==
    {Kept("update", 0, 0, FullMap(0), {}), Kept("update", SblkBlks, 0, {}, {}),
     Kept("update", 0, BankNum - SysBanks, FullMap(BankNum - SysBanks), {}),
     Kept("update", 0, 0, FullMap(0) \ {<<0, 1>>}, {}),
     Kept("update", 0, 0, FullMap(0), {<<0, 0>>, <<1, 1>>})}

AllJobs == FormatJobs \cup KeptJobs \cup UpdateJobs
=============================================================================
