----------------------------- MODULE Calibrate -----------------------------
(***************************************************************************)
(* The calibration of the flash interface: llfAPBECalibrate with the       *)
(* driving of the configuration ("fixed"), and llfAPBECalibrateTxAuto and  *)
(* llfAPBECalibrateRxAuto, which try the drivings as well ("auto"); as the *)
(* command BE_LLF_CALIBRATE, or as the first step of BE_LLF_ALL.           *)
(*                                                                         *)
(* The fixed calibration returns to the scheduler after every bank and     *)
(* finds its place in the three counters of gubLLFSubStep.  BE_LLF_ALL     *)
(* forgets the messages of the calls before (llfAll); BE_LLF_CALIBRATE     *)
(* does not.                                                               *)
(***************************************************************************)
EXTENDS DelayWindow

CONSTANTS
    CalBanks,   \* banks
    Speeds,     \* SpeedCnt: 2, the speed of work and that of 10 MHz
    TxDrivings, \* drivings tried for writes
    RxDrivings, \* drivings tried for reads
    RxGap       \* AUTO_CALIBRATE_RX_GAP

ASSUME CalibrateAssumption ==
    /\ CalBanks \in Nat \ {0} /\ Speeds \in Nat \ {0} /\ RxGap \in Nat
    /\ TxDrivings \in Nat \ {0} /\ RxDrivings \in Nat \ {0}

VARIABLE
    cal  \* the calibration: its place, the messages, and what is good

CalBank == 0 .. (CalBanks - 1)
LastBank == CalBanks - 1
None == [b \in CalBank |-> FALSE]

\* "all" is ubCalibrateAll: try every driving.  "pipe" is ubPipelineK.  tx and rx: the
\* delays now in the registers work.  "result" is calibrateResult, an array of the stack.
CalInit ==
    \E kind \in {"fixed", "auto"}, via \in {"CALIBRATE", "ALL"}, all, pipe, dqSet, intel \in BOOLEAN :
        /\ kind = "fixed" => ~all /\ ~pipe /\ ~dqSet
        /\ kind = "auto" => ~intel
        /\ cal = [kind |-> kind, via |-> via, all |-> all, pipe |-> pipe, dqSet |-> dqSet, intel |-> intel,
                  pc |-> "init", bank |-> 0, msgs |-> FALSE, tx |-> None, rx |-> None,
                  KSpeedIndex |-> Speeds, KBankIndex |-> 0, good |-> {},
                  driving |-> 1, passed |-> 0, count |-> 0, result |-> None, saved |-> None,
                  ret |-> "OK"]

\* An error ends the command.
Error(c) == [c EXCEPT !.pc = "error"]

\* A call ends: the next one begins with the bank of KBankIndex.
Return(c) == [c EXCEPT !.bank = c.KBankIndex, !.msgs = IF c.via = "ALL" THEN FALSE ELSE @]

----------------------------------------------------------------------------
(* The fixed driving.                                                      *)

\* The settings of a feature of some Intel flashes, before the rest.  When one is not
\* answered or refused, or does not read back, there is a message; the first of these
\* leaves res_state as it is, and BE_LLF_CALIBRATE is called again with the message still
\* there.
IntelFeature ==
    /\ cal.pc = "init" /\ cal.intel
    /\ \/ cal' = Error(cal)
       \/ cal.via = "CALIBRATE" /\ cal' = [cal EXCEPT !.msgs = TRUE]
       \/ ~cal.msgs /\ cal' = [cal EXCEPT !.intel = FALSE]

\* The banks are written and read at 10 MHz, with three reference voltages or one.
FixedStart ==
    /\ cal.pc = "init" /\ cal.kind = "fixed" /\ ~cal.intel
    /\ \/ cal' = [cal EXCEPT !.pc = "speed"]
       \/ cal' = Error(cal)

\* The interface is changed to the next speed: every delay has to be looked for.
FixedSpeed ==
    /\ cal.pc = "speed" /\ cal.KSpeedIndex > 0
    /\ \/ cal' = [cal EXCEPT !.pc = "tx", !.bank = 0, !.tx = None, !.rx = None]
       \/ cal' = Error(cal)

FixedDone ==
    /\ cal.pc = "speed" /\ cal.KSpeedIndex = 0
    /\ cal' = [cal EXCEPT !.pc = "ok"]

\* The loops over the banks, for writes ("tx") and for reads ("rx"), in one call.  On a
\* failure there is a message and the loop goes on with the next bank.  On a success, of
\* whatever bank, the counter moves on by one and the call ends, with the last one the
\* loop.
AfterBanks == [tx |-> "write", rx |-> "record"]

\* Mutant: BE_LLF_CALIBRATE too forgets the messages of the calls before.
FixedBank_Forgets(c, good) ==
    IF good /\ c.KBankIndex < LastBank
    THEN [c EXCEPT !.KBankIndex = @ + 1, !.bank = c.KBankIndex + 1, !.msgs = FALSE]
    ELSE IF ~good /\ c.bank < LastBank THEN [c EXCEPT !.bank = @ + 1, !.msgs = TRUE]
    ELSE IF ~good \/ c.msgs THEN Error(c)
    ELSE [c EXCEPT !.KBankIndex = 0, !.bank = 0, !.pc = AfterBanks[@]]

FixedBank(c, good) ==
    IF good /\ c.KBankIndex < LastBank
    THEN Return([c EXCEPT !.KBankIndex = @ + 1])
    ELSE IF ~good /\ c.bank < LastBank THEN [c EXCEPT !.bank = @ + 1, !.msgs = TRUE]
    ELSE IF ~good \/ c.msgs THEN Error(c)
    ELSE [c EXCEPT !.KBankIndex = 0, !.bank = 0, !.pc = AfterBanks[@]]

\* What the searches for a bank can come to.
TxFixed ==
    UNION {llfCalibrateTxDelayChain(eye, cutDqs, cutDq) :
              eye \in TxEyes, cutDqs \in Cuts(DqsRange), cutDq \in Cuts(DqRange)}

\* Where the delays for writes are wrong, no read brings the pattern back.
Seen(txWorks) == IF txWorks THEN RxEyes ELSE {{}}

RxFixed ==
    UNION {{<<txWorks, llffioBECalibrate(eye, cut).ret>> : eye \in Seen(txWorks), cut \in Cuts(RxRange)} :
              txWorks \in BOOLEAN}

FixedTx ==
    /\ cal.pc = "tx" /\ cal.kind = "fixed"
    /\ \E o \in TxFixed :
          cal' = FixedBank([cal EXCEPT !.tx[cal.bank] = o.works], o.ret = "OK")

\* llfWriteCache for all the banks, in the call in which the last bank was found.
FixedWrite ==
    /\ cal.pc = "write" /\ cal.kind = "fixed"
    /\ \/ cal' = [cal EXCEPT !.pc = "rx"]
       \/ cal' = Error(cal)

FixedRx ==
    /\ cal.pc = "rx" /\ cal.kind = "fixed"
    /\ \E r \in RxFixed :
          /\ r[1] = cal.tx[cal.bank]
          /\ cal' = FixedBank([cal EXCEPT !.rx[cal.bank] = r[2] = "OK"], r[2] = "OK")

\* llfSettingPerCh records the delays of the speed, and the next speed follows in the next
\* call.
FixedRecord ==
    /\ cal.pc = "record"
    /\ cal' = Return([cal EXCEPT !.KSpeedIndex = @ - 1, !.pc = "speed",
                        !.good = @ \cup {<<cal.KSpeedIndex, b>> : b \in {c \in CalBank : cal.tx[c] /\ cal.rx[c]}}])

FixedNext == IntelFeature \/ FixedStart \/ FixedSpeed \/ FixedDone \/ FixedTx \/ FixedWrite
             \/ FixedRx \/ FixedRecord

----------------------------------------------------------------------------
(* The automatic calibration.                                              *)

\* Trying a driving begins with bank 0; the delays found with another one say nothing.
Trial(c, driving) == [c EXCEPT !.driving = driving, !.bank = 0, !.count = 0]

Stage(c, pc) ==
    [Trial(c, 1) EXCEPT !.pc = pc, !.passed = 0, !.ret = "OK"]

\* calibrateResult is not initialised.
Junk == [CalBank -> BOOLEAN]

\* llfWriteReadCache10MTest: the banks are tested at 10 MHz.
AutoStart ==
    /\ cal.pc = "init" /\ cal.kind = "auto"
    /\ \/ cal' = [cal EXCEPT !.pc = "timing"]
       \/ cal' = Error(cal)

\* The change of the timing, and of the driving that the flashes begin with.  An error of
\* the second has no message: BE_LLF_CALIBRATE looks at the messages only, and goes on with
\* the reads.
AutoTiming ==
    /\ cal.pc = "timing"
    /\ \/ \E junk \in Junk : cal' = [Stage(cal, "tx") EXCEPT !.result = junk]
       \/ cal' = Error(cal)
       \/ /\ cal.via = "CALIBRATE"
          /\ \E junk \in Junk : cal' = [Stage(cal, "write") EXCEPT !.tx = junk]

\* Mutant: only the first bank is looked at.
Blamed_First(c) == c.passed < 2 /\ ~c.result[0]

\* The banks that are blamed when fewer than two drivings passed: by the result of the
\* last one.
Blamed(c) == c.passed < 2 /\ \E b \in CalBank : ~c.result[b]

\* The drivings have been tried: the second that passed is set again, if there is one.
\* For reads the command ends with the result of the last call.  "works" are the delays
\* in the registers for the driving that is set.
TxEnds(c) ==
    IF Blamed(c) THEN Error(c)
    ELSE [c EXCEPT !.pc = "write", !.tx = IF c.passed >= 2 THEN c.saved ELSE @]

RxEnds(c) ==
    IF Blamed(c) THEN Error(c)
    ELSE [c EXCEPT !.rx = IF c.passed >= 2 THEN c.saved ELSE @,
                   !.pc = IF c.ret = "OK" THEN "ok" ELSE IF c.via = "ALL" THEN "assert" ELSE "error"]

\* The trial of a driving ends.  The second one in which all banks passed is saved, and is
\* the last that is tried unless all are asked for.
Tried(c) ==
    IF c.count < CalBanks THEN c
    ELSE [c EXCEPT !.passed = @ + 1,
                   !.saved = IF c.passed = 1 THEN (IF c.pc = "tx" THEN c.tx ELSE c.rx) ELSE @,
                   !.ret = IF c.passed = 1 THEN "OK" ELSE @]

Drivings(c) == IF c.pc = "tx" THEN TxDrivings ELSE RxDrivings

NextDriving(c) ==
    LET t == Tried(c) IN
    IF t.driving < Drivings(t) /\ (t.all \/ t.passed < 2)
    THEN [Trial(t, t.driving + 1) EXCEPT !.tx = IF t.pc = "tx" THEN None ELSE @, !.rx = None]
    ELSE IF t.pc = "tx" THEN TxEnds(t) ELSE RxEnds(t)

NextBankOrDriving(c) == IF c.bank < LastBank THEN [c EXCEPT !.bank = @ + 1] ELSE NextDriving(c)

TxAuto ==
    UNION {{<<dqSet, o>> : o \in PlaceAuto(eye, dqSet, cutDqs, cutDq)} :
              dqSet \in BOOLEAN, eye \in TxEyes, cutDqs \in Cuts(DqsRange), cutDq \in Cuts(DqRange)}

AutoTx ==
    /\ cal.pc = "tx" /\ cal.kind = "auto"
    /\ \E r \in TxAuto :
          LET pass == r[2].step = "pass"
              c == [cal EXCEPT !.result[cal.bank] = pass, !.tx[cal.bank] = r[2].works,
                               !.count = IF pass THEN @ + 1 ELSE @]
          IN  /\ r[1] = cal.dqSet
              /\ cal' = IF r[2].step = "break" THEN NextDriving(c) ELSE NextBankOrDriving(c)

\* The pattern is written to all the banks, with the delays found.
AutoWrite ==
    /\ cal.pc = "write" /\ cal.kind = "auto"
    /\ \/ \E junk \in Junk : cal' = [Stage(cal, "rx") EXCEPT !.result = junk]
       \/ cal' = Error(cal)

RxAuto ==
    UNION {{<<txWorks, [gap |-> w.gap, ret |-> w.ret]>> :
               w \in {llfCalibrateRxDqsDelayChain(eye, cut) : eye \in Seen(txWorks), cut \in Cuts(RxRange)}} :
              txWorks \in BOOLEAN}

AutoRx ==
    /\ cal.pc = "rx" /\ cal.kind = "auto"
    /\ \E r \in RxAuto :
          LET w == r[2]
              pass == w.gap >= RxGap
              c == [cal EXCEPT !.result[cal.bank] = pass, !.rx[cal.bank] = TRUE, !.ret = w.ret,
                               !.count = IF pass THEN @ + 1 ELSE @]
          IN  /\ r[1] = cal.tx[cal.bank]
              /\ cal' = IF w.ret = "TIMEOUT" \/ w.gap = 0
                        THEN NextDriving([cal EXCEPT !.result[cal.bank] = FALSE, !.ret = w.ret])
                        ELSE NextBankOrDriving(c)

\* With pipeline mode the bank is written again for every driving; when that fails the
\* result of the bank is that of the driving before.
AutoRxWriteFails ==
    /\ cal.pc = "rx" /\ cal.kind = "auto" /\ cal.pipe
    /\ cal' = NextDriving([cal EXCEPT !.ret = "ERR"])

AutoNext == AutoStart \/ AutoTiming \/ AutoTx \/ AutoWrite \/ AutoRx \/ AutoRxWriteFails

CalNext == FixedNext \/ AutoNext

----------------------------------------------------------------------------
\* A calibration ends well only when the delays that are left work for the writes and the
\* reads of every bank, at every speed: a window placed outside the eye, a failure that was
\* passed over and the results of another driving are all noticed.  The fixed one in
\* BE_LLF_ALL shows it for the last bank only, as the failure of another is forgotten when a
\* later bank succeeds.
CalibratedMeansWorks ==
    cal.pc = "ok" =>
        IF cal.kind = "auto" THEN \A b \in CalBank : cal.tx[b] /\ cal.rx[b]
        ELSE \A s \in 1 .. Speeds, b \in CalBank :
                 cal.via = "CALIBRATE" \/ b = LastBank => <<s, b>> \in cal.good

\* The calibration has ended.  It does not when a feature of an Intel flash cannot be set
\* in BE_LLF_CALIBRATE; and the assertion at the end of BE_LLF_ALL fails only when all
\* drivings are asked for (then the result of the last of them decides, although another
\* was chosen) or with pipeline mode.
CalEnded ==
    \/ cal.pc \in {"ok", "error"}
    \/ cal.pc = "assert" /\ (cal.all \/ cal.pipe)
    \/ cal.pc = "init" /\ cal.intel /\ cal.msgs
=============================================================================
