----------------------------- MODULE CacheTest -----------------------------
(***************************************************************************)
(* The test of the flash interface after a format, repeated_WriteReadCache *)
(* and WriteReadFlashCache_for_repeate: pairs of a write to the cache of   *)
(* a bank and a read back from it are queued to the banks in turn, until   *)
(* the buffer for the reads is full or the next bank has no room, and then *)
(* their completions are counted.                                          *)
(*                                                                         *)
(* A write has two completions, one of the transfer of its data and one of *)
(* the program; they, and those of different banks, come in any order, and *)
(* also between the looks at the queue and at each bank that end a round.  *)
(***************************************************************************)
EXTENDS Integers, Sequences, FiniteSets, SequencesExt

CONSTANTS
    CacheBanks,  \* UnbalancedGetBankNum(): banks that take turns
    Buffers,     \* reads the buffer has room for
    Room,        \* pairs of commands a bank can queue
    Cycles,      \* cycle * gubRealLunNum * retry: rounds of the test
    MaxFlaws     \* bound: completions with an error, and reads that bring other data

ASSUME CacheAssumption ==
    /\ CacheBanks \in Nat \ {0} /\ Buffers \in Nat \ {0} /\ Room \in Nat \ {0}
    /\ Cycles \in Nat \ {0} /\ MaxFlaws \in Nat

VARIABLE
    ct  \* the test: pc, the counters of the function, the controller, what the reads brought

Pairs == 1 .. Buffers
Kinds == {"transfer", "write", "read"}
CacheBank == 0 .. (CacheBanks - 1)

\* What a read buffer holds: "pattern", what was written; it may be left from the round
\* before, and so may the queue.
Round(bank, cycle, buf, flaws, queue) ==
    [pc |-> "issue", bank |-> bank, cycle |-> cycle, read_no |-> 0, count |-> 0, ret |-> "OK",
     place |-> <<>>, owed |-> {}, queue |-> queue, cmp_tag |-> [b \in CacheBank |-> 0], look |-> 0,
     buf |-> buf, fresh |-> {}, failed |-> {}, flaws |-> flaws, errs |-> {}, timeout |-> FALSE]

\* With 0xFFFF retries configured there is no test, and that is a success.
CacheInit ==
    \/ ct = Round(0, 1, [i \in Pairs |-> "other"], 0, <<>>)
    \/ ct = [Round(0, 1, [i \in Pairs |-> "other"], 0, <<>>) EXCEPT !.pc = "ok", !.cycle = 0]

----------------------------------------------------------------------------
\* The controller.  A bank serves its commands one after the other; the completion of a
\* transfer may come early or late.
OfBank(b) == {i \in 1 .. Len(ct.place) : ct.place[i] = b}
Before(o) ==
    {i \in OfBank(ct.place[o[1]]) : i < o[1]} \X {"write", "read"}
    \cup (IF o[2] = "read" THEN {<<o[1], "write">>} ELSE {})

Ready(o) == o[2] = "transfer" \/ ct.owed \cap Before(o) = {}

\* A command leaves the queue of its bank when all its completions are sent.
Unfinished(b) ==
    Cardinality({i \in OfBank(b) : \E k \in Kinds : <<i, k>> \in ct.owed})

Send(o, err, data) ==
    ct' = [ct EXCEPT !.owed = @ \ {o},
             !.queue = Append(@, <<o[1], o[2], err>>),
             !.flaws = IF err \/ data = "other" THEN @ + 1 ELSE @,
             !.failed = IF err THEN @ \cup {o} ELSE @,
             !.buf = IF o[2] = "read" THEN [@ EXCEPT ![o[1]] = data] ELSE @,
             !.fresh = IF o[2] = "read" THEN @ \cup {o[1]} ELSE @]

Complete ==
    /\ ct.pc \in {"issue", "drain", "rooms"}
    /\ \E o \in ct.owed :
          /\ Ready(o)
          /\ \/ Send(o, FALSE, "pattern")
             \/ /\ ct.flaws < MaxFlaws
                /\ \/ o[2] # "transfer" /\ Send(o, TRUE, "pattern")
                   \/ o[2] = "read" /\ Send(o, FALSE, "other")

----------------------------------------------------------------------------
HasRoom(b) == Unfinished(b) < Room

NextBank == (ct.bank + 1) % CacheBanks

\* A write and a read, to the bank whose turn it is.  cmp_tag counts the writes in its low
\* half and the reads in its high half.
Issue ==
    /\ ct.pc = "issue" /\ ct.read_no < Buffers /\ HasRoom(ct.bank)
    /\ LET i == ct.read_no + 1 IN
       ct' = [ct EXCEPT !.place = Append(@, ct.bank), !.read_no = i, !.bank = NextBank,
                !.owed = @ \cup ({i} \X Kinds),
                !.cmp_tag[ct.bank] = (@ + 17) % 256]

\* The completions to wait for, without those of transfers.
Expected == 2 * ct.read_no

\* The buffer is full, or the bank whose turn it is has no room.  (Without a command at all
\* there is nothing to wait for, and that is an error.)
IssueEnds ==
    /\ ct.pc = "issue" /\ (ct.read_no = Buffers \/ ~HasRoom(ct.bank))
    /\ ct' = [ct EXCEPT !.count = Expected, !.pc = IF ct.read_no = 0 THEN "error" ELSE "drain"]

\* Mutant: the result of the last completion is kept, instead of an error.
Counted_LastRet(c) ==
    [ct EXCEPT !.queue = Tail(@), !.count = @ - 1,
       !.ret = IF c[3] THEN "ERR" ELSE "OK",
       !.errs = IF c[3] THEN @ \cup {ct.place[c[1]]} ELSE @,
       !.cmp_tag[ct.place[c[1]]] =
            IF c[3] THEN @ ELSE (@ - (IF c[2] = "read" THEN 16 ELSE 1)) % 256]

\* A completion with an error is counted, but not taken off cmp_tag.
Counted(c) ==
    [ct EXCEPT !.queue = Tail(@), !.count = @ - 1,
       !.ret = IF c[3] THEN "ERR" ELSE @,
       !.errs = IF c[3] THEN @ \cup {ct.place[c[1]]} ELSE @,
       !.cmp_tag[ct.place[c[1]]] =
            IF c[3] THEN @ ELSE (@ - (IF c[2] = "read" THEN 16 ELSE 1)) % 256]

\* At the last one the queue has to be empty.
AtLast(s) ==
    IF s.queue # <<>> THEN [s EXCEPT !.pc = "error", !.ret = "ERR"] ELSE [s EXCEPT !.pc = "rooms"]

Take ==
    /\ ct.pc = "drain" /\ ct.queue # <<>>
    /\ LET c == Head(ct.queue) IN
       ct' = IF c[2] = "transfer" THEN [ct EXCEPT !.queue = Tail(@)]
             ELSE IF ct.count = 1 THEN AtLast(Counted(c)) ELSE Counted(c)

\* Then every bank has to be without a command.  They are looked at one after the other, and
\* the controller goes on meanwhile.
LookAtRoom ==
    /\ ct.pc = "rooms"
    /\ LET stuck == Unfinished(ct.look) # 0
           ret == IF stuck THEN "ERR" ELSE ct.ret IN
       ct' = [ct EXCEPT !.ret = ret, !.errs = IF stuck THEN @ \cup {ct.look} ELSE @, !.look = @ + 1,
                !.pc = IF ct.look < CacheBanks - 1 THEN "rooms"
                       ELSE IF ret = "OK" THEN "compare" ELSE "error"]

\* The queue stays empty for 10 ms: the banks whose cmp_tag is not 0 are named.
TimeoutNames == {b \in CacheBank : ct.cmp_tag[b] # 0}

Timeout ==
    /\ ct.pc = "drain" /\ ct.queue = <<>>
    /\ ct' = [ct EXCEPT !.pc = "error", !.ret = "ERR", !.timeout = TRUE, !.errs = @ \cup TimeoutNames]

\* All the buffers that were read are compared, then the next round begins, with the bank
\* whose turn it is.
Compare ==
    /\ ct.pc = "compare"
    /\ ct' = IF \E i \in 1 .. ct.read_no : ct.buf[i] # "pattern"
             THEN [ct EXCEPT !.pc = "error", !.ret = "ERR"]
             ELSE [ct EXCEPT !.pc = IF ct.cycle < Cycles THEN "next" ELSE "ok"]

NextRound ==
    /\ ct.pc = "next"
    /\ ct' = Round(ct.bank, ct.cycle + 1, ct.buf, ct.flaws, ct.queue)

CacheNext == Complete \/ Issue \/ IssueEnds \/ Take \/ LookAtRoom \/ Timeout \/ Compare \/ NextRound

----------------------------------------------------------------------------
\* The verdict of the test is true.  A round succeeds only when every write and every read
\* of it was answered without an error, brought the data that was written (not left from
\* the round before), and left no completion of a write or a read that the next round would
\* count for its own.  (The completion of a transfer may be left: it comes after the look at
\* the queue and before the look at its bank.  A round does not count it.)  When the test
\* times out, it names every bank whose answers are missing or had an error.
CacheVerdictTrue ==
    /\ ct.pc \in {"next", "ok"} /\ ct.cycle > 0 =>
          /\ ct.owed = {} /\ \A k \in 1 .. Len(ct.queue) : ct.queue[k][2] = "transfer"
          /\ ct.failed = {} /\ ct.fresh = 1 .. ct.read_no
          /\ \A i \in ct.fresh : ct.buf[i] = "pattern"
    /\ ct.timeout => \A o \in ct.owed \cup ct.failed :
                        o[2] = "transfer" \/ ct.place[o[1]] \in ct.errs

\* The test has ended.
CacheEnded == ct.pc \in {"ok", "error"}
=============================================================================
