---------------------------- MODULE DelayWindow ----------------------------
(***************************************************************************)
(* The searches for the delays of the flash interface (nand_test.c,        *)
(* llf_lib.c).  A search sets a delay register to one value after the      *)
(* other, writes a pattern to the cache of a bank and reads it back, and   *)
(* looks for the widest run of values for which the pattern comes back.    *)
(*                                                                         *)
(* What the signals allow is an "eye".  A write is good when the delay of  *)
(* DQS less that of DQ lies in the eye; so the search over DQS sees the    *)
(* part of the eye from 0 upwards, that over DQ the part from 0 downwards. *)
(* A read is good when its delay lies in the eye of the read.  A write or  *)
(* a read may stay unanswered, and then the search is cut short.           *)
(***************************************************************************)
EXTENDS Integers, FiniteSets, FiniteSetsExt

CONSTANTS
    DqsRange, DqRange, RxRange,  \* the values a search tries: 40, 128 and 64
    Field,     \* the values of the 7 bits of a delay, 128
    TxGap,     \* AUTO_CALIBRATE_TX_GAP
    TxEyes,    \* the eyes of writes
    RxEyes     \* the eyes of reads

ASSUME WindowAssumption ==
    /\ DqsRange \in Nat \ {0} /\ DqRange \in Nat \ {0} /\ RxRange \in Nat \ {0}
    /\ Field \in Nat /\ Field >= DqsRange /\ TxGap \in Nat
    /\ TxEyes \subseteq SUBSET ((1 - DqRange) .. (DqsRange - 1))
    /\ RxEyes \subseteq SUBSET (0 .. (RxRange - 1))

VARIABLE
    sweep  \* a search in progress: the next value, those that were good, and the window

\* How a search ends: after all its values, or cut short after the first "at" of them, and
\* then with the result "ret": a write that is not answered gives TIMEOUT, a read that is
\* not answered gives the result of the write before it.
Whole == [at |-> -1, ret |-> "none"]
Cuts(range) == {Whole} \cup [at : 0 .. (range - 1), ret : {"TIMEOUT", "OK", "ERR"}]

----------------------------------------------------------------------------
\* The widest run so far, [min, max] of width gap, and the run in progress.
NoWindow == [gap |-> 0, min |-> 0, max |-> 0, run |-> {}]

\* Mutant: the last of the widest runs is taken.
Settle_Last(w) ==
    IF w.run # {} /\ Cardinality(w.run) >= w.gap
    THEN [gap |-> Cardinality(w.run), min |-> Min(w.run), max |-> Max(w.run), run |-> {}]
    ELSE [w EXCEPT !.run = {}]

\* A run that has ended is the new window if it is wider.
Settle(w) ==
    IF Cardinality(w.run) > w.gap
    THEN [gap |-> Cardinality(w.run), min |-> Min(w.run), max |-> Max(w.run), run |-> {}]
    ELSE [w EXCEPT !.run = {}]

\* One value more: the pattern comes back or it does not.
AfterTry(w, value, works) == IF works THEN [w EXCEPT !.run = @ \cup {value}] ELSE Settle(w)

\* The values below n have been tried; those in "good" read back.
Swept(good, n) ==
    LET w[i \in 0 .. n] == IF i = 0 THEN NoWindow ELSE AfterTry(w[i - 1], i - 1, (i - 1) \in good)
    IN  w[n]

Found(w) == [gap |-> w.gap, min |-> w.min, max |-> w.max, ret |-> IF w.gap = 0 THEN "ERR" ELSE "OK"]

\* The register is left in the middle of the window.
Middle(w) == (w.min + w.max) \div 2

\* A search that is cut short returns at once: the run in progress is lost.
CutOff(w, ret) == [gap |-> w.gap, min |-> w.min, max |-> w.max, ret |-> ret]

llfCalibrateTxDqsDelayChain(eye, cut) ==
    LET good == eye \cap (0 .. (DqsRange - 1)) IN
    IF cut = Whole THEN Found(Settle(Swept(good, DqsRange)))
    ELSE CutOff(Swept(good, cut.at), cut.ret)

llfCalibrateTxDqDelayChain(eye, cut) ==
    LET good == {v \in 0 .. (DqRange - 1) : -v \in eye} IN
    IF cut = Whole THEN Found(Settle(Swept(good, DqRange)))
    ELSE CutOff(Swept(good, cut.at), cut.ret)

\* The search over the delay of reads, in the automatic calibration.
llfCalibrateRxDqsDelayChain(eye, cut) ==
    IF cut = Whole THEN Found(Settle(Swept(eye, RxRange)))
    ELSE CutOff(Swept(eye, cut.at), "TIMEOUT")

\* The same in the calibration with fixed driving: a read that is not answered ends the
\* loop, and what was found until then decides.
llffioBECalibrate(eye, cut) ==
    Found(Settle(Swept(eye, IF cut = Whole THEN RxRange ELSE cut.at)))

----------------------------------------------------------------------------
\* Where the delays of a bank are put after both searches: the difference of the delays of
\* DQS and DQ, and whether it lies in the eye.
Half(d) == d \div 2

Placed(ret, eye, d) == {[ret |-> ret, works |-> d \in eye]}
Refused == {[ret |-> "ERR", works |-> FALSE]}

\* The delays of DQ are four bytes; a difference below 0 spills from one into the other.
PlacedDq(ret, eye, d) ==
    IF d >= 0 THEN Placed(ret, eye, -Half(d)) ELSE {[ret |-> ret, works |-> w] : w \in BOOLEAN}

\* Fixed driving.  With a window of DQS that does not begin at 0 the half of its width is
\* taken, without its begin; the same for DQ.
llfCalibrateTxDelayChain(eye, cutDqs, cutDq) ==
    LET dqs == llfCalibrateTxDqsDelayChain(eye, cutDqs)
        dq  == llfCalibrateTxDqDelayChain(eye, cutDq)
        more == dqs.gap - dq.gap
    IN  IF dqs.min = 0 /\ dq.min = 0 /\ dqs.gap + dq.gap >= TxGap
        THEN IF more >= 0 THEN Placed(dq.ret, eye, Half(more)) ELSE PlacedDq(dq.ret, eye, -more)
        ELSE IF dqs.min > 0 /\ dq.min = 0 /\ dqs.gap >= TxGap
        THEN Placed(dq.ret, eye, Half(more) % Field)
        ELSE IF dqs.min = 0 /\ dq.min > 0 /\ dq.gap >= TxGap
        THEN PlacedDq(dq.ret, eye, -more)
        ELSE Refused

\* Automatic calibration: a bank passes, or ends the trial of the driving for all banks, or
\* for itself only.  With a window of DQ that does not begin at 0 the register of DQS is
\* set to the middle of it.  dqSet is ubTxDQSet.
Passes(eye, d) == {[step |-> "pass", works |-> d \in eye]}
Fails(step) == {[step |-> step, works |-> FALSE]}

PlaceAuto(eye, dqSet, cutDqs, cutDq) ==
    LET dqs == llfCalibrateTxDqsDelayChain(eye, cutDqs)
        dq  == llfCalibrateTxDqDelayChain(eye, cutDq)
        more == dqs.gap - dq.gap
        near == IF dq.gap >= (TxGap * 4) \div 5 THEN Fails("continue") ELSE Fails("break")
    IN  IF dqs.ret = "TIMEOUT" \/ dqs.gap = 0 \/ (dqs.min # 0 /\ dq.min # 0)
        THEN Fails("break")
        ELSE IF dqs.min = 0 /\ dq.min = 0
        THEN IF dqs.gap + dq.gap < TxGap THEN Fails("break")
             ELSE IF more >= 0 THEN Passes(eye, Half(more))
             ELSE Passes(eye, IF dqSet THEN -Half(-more) ELSE 0)
        ELSE IF dq.min = 0
        THEN IF dqs.gap >= TxGap THEN Passes(eye, (Half(more) + dqs.min) % Field) ELSE near
        ELSE IF dq.gap >= TxGap THEN Passes(eye, (Half(-more) + dq.min) % Field) ELSE near

----------------------------------------------------------------------------
(* A search over the delay of reads, value by value: the "auto" one is     *)
(* given up at a read that is not answered, the "fixed" one goes on with   *)
(* the window so far.                                                      *)

SweepInit ==
    \E kind \in {"auto", "fixed"} :
        sweep = [pc |-> "try", kind |-> kind, value |-> 0, good |-> {}, w |-> NoWindow]

TryValue ==
    /\ sweep.pc = "try" /\ sweep.value < RxRange
    /\ \E works \in BOOLEAN :
          sweep' = [sweep EXCEPT !.value = @ + 1,
                                 !.good = IF works THEN @ \cup {sweep.value} ELSE @,
                                 !.w = AfterTry(@, sweep.value, works)]

NoAnswer ==
    /\ sweep.pc = "try" /\ sweep.value < RxRange
    /\ sweep' = IF sweep.kind = "auto" THEN [sweep EXCEPT !.pc = "cut"]
                ELSE [sweep EXCEPT !.pc = "end", !.w = Settle(@)]

AllTried ==
    /\ sweep.pc = "try" /\ sweep.value = RxRange
    /\ sweep' = [sweep EXCEPT !.pc = "end", !.w = Settle(@)]

SweepNext == TryValue \/ NoAnswer \/ AllTried
SweepEnded == sweep.pc \in {"end", "cut"}

----------------------------------------------------------------------------
\* The runs in a set of values that have ended before value n.
Runs(good, n) ==
    {lo .. hi : lo \in good, hi \in good} \cap
    {run \in SUBSET good : run # {} /\ Min(run) - 1 \notin good /\ Max(run) + 1 \notin good
                           /\ Max(run) + 1 < n}

Widest(runs) ==
    CHOOSE run \in runs : \A other \in runs :
        \/ Cardinality(run) > Cardinality(other)
        \/ Cardinality(run) = Cardinality(other) /\ Min(run) <= Min(other)

IsWidest(w, runs) ==
    IF runs = {} THEN w.gap = 0
    ELSE w.gap > 0 /\ w.min .. w.max = Widest(runs) /\ w.gap = Cardinality(Widest(runs))

\* Whatever values read back, a search finds the first of the widest runs, and leaves the
\* register inside it.  One that is given up has found the first of those that had ended;
\* one that goes on with what it has also takes the run in progress.
WidestWindow ==
    /\ sweep.pc = "end" =>
        /\ IsWidest(sweep.w, Runs(sweep.good, sweep.value + 1))
        /\ Found(sweep.w).ret = "OK" <=> sweep.good # {}
        /\ sweep.good # {} => Middle(sweep.w) \in sweep.good
    /\ sweep.pc = "cut" => IsWidest(sweep.w, Runs(sweep.good, sweep.value))
=============================================================================
