----------------------------- MODULE Initialise -----------------------------
(***************************************************************************)
(* BE_LLF_INIT: llf_init takes the geometry of the flash from the          *)
(* configuration of the host (llfmpInitParameter), checks it, and then     *)
(* resets every bank and reads its signature (llfinitConfigBE).            *)
(*                                                                         *)
(* A bank may not answer, or too late: what it sends then still gets into  *)
(* the one buffer that the signatures of all banks are read into.          *)
(***************************************************************************)
EXTENDS Integers, FiniteSets

CONSTANTS
    Configs,     \* the configurations the host loads
    SectorsOfK,  \* 32: sectors a page must have
    MaxLate      \* bound: commands of a bank that are not answered in time

\* A number that is not 0, and one of 16 bits that is not.
Count == Nat \ {0}
MaxWord == 65535
Word == 1 .. MaxWord

FlashType == 0 .. 4
Species == {"SLC", "MLC", "TLC", "QLC", "other"}
PadTags == [{"ocd", "dqs", "dq", "dqs en", "dq en"} -> {-1} \cup Nat]
Byte == 0 .. 255
SevenBits == 0 .. 127

\* A configuration.  "rounds": the vendors whose number of blocks is rounded up with several
\* LUNs; "oneShift": the flashes whose SLC pages have the addresses of the others.  "raid",
\* "raidFlag": CONFIG_PAGE_NUM_PER_RAID without and with its highest bit.  "mapped": the
\* mapping of the banks names none twice and is that of the loader.  "rdt": FW_RDT_TAG.
\* "to12V": a flash that has to be set to 1.2 V.  "flashes" has the banks with a flash of
\* the right kind.
Config ==
    [banks : Count, luns : Count, blocks : Word, pages : Word, type : FlashType, species : Species,
     planes : Count, sectors : Count, lbn : Count, fullPage : Nat, parity : Nat, capacity : Nat,
     heat : Nat, errBits : Nat, pads : PadTags, raid : SevenBits, raidFlag : BOOLEAN, raidTlc : Byte,
     remap : BOOLEAN, remapLen : Nat, mapped : BOOLEAN, rdt : BOOLEAN, to12V : BOOLEAN,
     rounds : BOOLEAN, oneShift : BOOLEAN, flashes : SUBSET Nat]

ASSUME InitAssumption ==
    Configs \subseteq Config /\ SectorsOfK \in Nat /\ MaxLate \in Nat

VARIABLE
    ini  \* where llf_init is, and what it has computed and seen

----------------------------------------------------------------------------
(* llfmpInitParameter                                                      *)

\* cal_shift is the logarithm, rounded down; most of its uses round it up.
cal_shift(n) == CHOOSE s \in 0 .. 16 : 2^s <= n /\ n < 2^(s + 1)
RoundedUp(n) == cal_shift(n) + (IF n % 2^cal_shift(n) = 0 THEN 0 ELSE 1)

\* Several LUNs of a chip are one after the other (gubIsSerialMultiLUN): they become one
\* with more blocks.  The number is a U16.
Serial(c) == c.luns > 1
BlocksPerLun(c) == IF Serial(c) THEN (c.blocks * c.luns) % 65536 ELSE c.blocks

BlockShift(c) ==
    IF Serial(c) /\ ~c.rounds THEN cal_shift(BlocksPerLun(c)) ELSE RoundedUp(BlocksPerLun(c))

\* Pages of a block, and those it has in SLC mode; an address has 8 bits for them at least.
PageNum(c) == IF c.type = 1 THEN c.pages \div 3 ELSE c.pages

SlcPageNum(c) ==
    CASE c.type \in {0, 1} -> PageNum(c)
      [] c.type = 4        -> PageNum(c) \div 4
      [] OTHER             -> PageNum(c) \div 3

EightAtLeast(shift) == IF shift < 8 THEN 8 ELSE shift

PageShift(c) == EightAtLeast(RoundedUp(PageNum(c)))
SlcPageShift(c) == IF c.oneShift THEN PageShift(c) ELSE EightAtLeast(RoundedUp(SlcPageNum(c)))

\* Logical pages of a multi-plane page, and multi-plane blocks.
LbnNum(c) == (c.sectors \div 2^cal_shift(c.lbn)) * c.planes
GroupNum(c) == BlocksPerLun(c) \div c.planes

\* The capacity claimed, in GB, and its number of sectors, which replaces the capacity in
\* the configuration: another command finds it there, and takes it for sectors.
ClaimedGB(c) == IF c.capacity <= 2048 THEN c.capacity ELSE c.capacity \div 2^21
MaxLBA(c) == 97696368 + (ClaimedGB(c) - 50) * 1953504

\* Settings out of range, or without the tag that says that they are set (-1), have
\* defaults.
PadDefault == [ocd |-> 3, dqs |-> 4, dq |-> 4]

Settings(c) ==
    [ gubCacheErrbitLimit |-> IF c.errBits = 0 THEN 1 ELSE c.errBits,
      guwTemperatureLimit |-> IF c.heat \in 70 .. 110 THEN c.heat ELSE 110,
      pads |-> [p \in DOMAIN c.pads |->
                  IF c.pads[p] # -1 THEN c.pads[p] % (IF p \in DOMAIN PadDefault THEN 16 ELSE 256)
                  ELSE IF p \in DOMAIN PadDefault THEN PadDefault[p] ELSE 0] ]

----------------------------------------------------------------------------
(* The pages of a superblock that share a parity                           *)

Width(c) == c.banks * c.planes

\* Mutant: stripes that are too narrow are taken.
findFittedRaidPageNum_Narrow(c, programs, pages) ==
    LET Fits(n) == pages % (n * programs) = 0
        n == CHOOSE n \in 1 .. 97 : /\ Fits(n) \/ Width(c) * n > 96
                                    /\ \A k \in 1 .. (n - 1) : ~(Fits(k) \/ Width(c) * k > 96)
    IN  IF Width(c) * n > 96 THEN 255 ELSE n

\* The least number with which stripes of 32 planes or more fill the block; 255 when it is
\* wider than 96 planes.
findFittedRaidPageNum(c, programs, pages) ==
    LET Fits(n) == pages % (n * programs) = 0 /\ Width(c) * n >= 32
        n == CHOOSE n \in 1 .. 97 : /\ Fits(n) \/ Width(c) * n > 96
                                    /\ \A k \in 1 .. (n - 1) : ~(Fits(k) \/ Width(c) * k > 96)
    IN  IF Width(c) * n > 96 THEN 255 ELSE n

\* What the configuration says, unless it is 0 or asks for a stripe of 8 planes or fewer.
SlcGiven(c) == IF c.raidFlag /\ c.raid * Width(c) <= 8 THEN 0 ELSE c.raid

Fitted(c, given, programs, pages) ==
    IF given # 0 THEN given
    ELSE IF Width(c) >= 32 THEN 1
    ELSE findFittedRaidPageNum(c, programs, pages)

gubRaidPagePerRaid(c) == Fitted(c, SlcGiven(c), 1, SlcPageNum(c))

ProgramCount == [SLC |-> 1, MLC |-> 2, TLC |-> 3, QLC |-> 4]

\* The kind of flash is looked at only when the number has to be found.
Uncategorized(c) == c.species = "other" /\ c.raidTlc = 0 /\ Width(c) < 32

gubTLCRaidPagePerRaid(c) ==
    Fitted(c, c.raidTlc, IF Uncategorized(c) THEN 1 ELSE ProgramCount[c.species], PageNum(c))

NandPara(c) ==
    [ ubBankNumShift |-> RoundedUp(c.banks), ubPlaneNumPerLunShift |-> RoundedUp(c.planes),
      uwBlockNumPerLun |-> BlocksPerLun(c), ubBlockNumPerLunShift |-> BlockShift(c),
      gubRowAddrLunShift |-> RoundedUp(c.blocks), gubIsSerialMultiLUN |-> Serial(c),
      uwPageNumPerBlock |-> PageNum(c), ubPageNumPerBlockShift |-> PageShift(c),
      uwSLCPageNumPerBlock |-> SlcPageNum(c), ubSLCPageNumPerBlockShift |-> SlcPageShift(c),
      uwLbnNumPerMpPage |-> LbnNum(c), uwMpBlockNumPerLun |-> GroupNum(c),
      guwHostClaimCapacity |-> ClaimedGB(c), settings |-> Settings(c),
      gubRaidPagePerRaid |-> gubRaidPagePerRaid(c),
      gubTLCRaidPagePerRaid |-> gubTLCRaidPagePerRaid(c) ]

ParameterResult(c) ==
    IF c.fullPage < c.sectors * 512 THEN "assert"
    ELSE IF gubRaidPagePerRaid(c) = 255 THEN "ERR_INVALID_RAID_PAGENUM"
    ELSE IF Uncategorized(c) THEN "ERR_UNCATEGORIZED_FLASH_SPCIES"
    ELSE IF c.raidTlc = 0 /\ gubTLCRaidPagePerRaid(c) = 255 THEN "ERR_INVALID_RAID_PAGENUM"
    ELSE "ERR_OK"

----------------------------------------------------------------------------
(* llf_init                                                                *)

\* "bad" is flag_bad # 0, which counts the banks that test_idx does not; buf is what the
\* buffer of the signatures holds, "due" are the banks whose signature is still to come.  The
\* rest is what was found out: the banks that were reset, and those that showed their
\* signature when asked.
InitInit ==
    \E c \in Configs :
        ini = [pc |-> "parameters", cfg |-> c, ret |-> "ERR_OK", bank |-> 0, bad |-> FALSE,
               para |-> <<>>, buf |-> "zero", due |-> {}, late |-> 0, ready |-> {}, shown |-> {}]

EndInit(i, ret) == [i EXCEPT !.pc = IF ret = "ERR_OK" THEN "ok" ELSE "error", !.ret = ret]

llfmpInitParameter ==
    /\ ini.pc = "parameters"
    /\ LET ret == ParameterResult(ini.cfg) IN
       ini' = IF ret = "assert" THEN [ini EXCEPT !.pc = "assert"]
              ELSE IF ret # "ERR_OK" THEN EndInit(ini, ret)
              ELSE [ini EXCEPT !.pc = "checks", !.para = NandPara(ini.cfg), !.cfg.capacity = MaxLBA(ini.cfg)]

\* 2 K of data with header and parity, eight times.
TooLong(c) == c.fullPage < (10 + 2048 + c.parity) * 8

\* llfBlkRemapInit, except in the firmware of the reliability test.
RemapTooLong(c) == ~c.rdt /\ c.remap /\ c.remapLen > 256

CheckResult(c) ==
    IF ~c.mapped THEN "ERR_CONFIG_MAPPING"
    ELSE IF c.sectors # SectorsOfK \/ TooLong(c) THEN "ERR_CONFIG_LDPC_CODERATE"
    ELSE IF RemapTooLong(c) THEN "ERR_BLOCK_MAPPING"
    ELSE "ERR_OK"

llf_init ==
    /\ ini.pc = "checks"
    /\ LET ret == CheckResult(ini.cfg) IN
       ini' = IF ret # "ERR_OK" THEN EndInit(ini, ret) ELSE [ini EXCEPT !.pc = "reset"]

----------------------------------------------------------------------------
(* llfinitConfigBE                                                         *)

LastOne == ini.cfg.banks - 1

\* A loop over the banks ends, or goes on with the next one.
BankDone(i, next, err) ==
    IF i.bank < LastOne THEN [i EXCEPT !.bank = @ + 1]
    ELSE IF i.bad THEN EndInit(i, err)
    ELSE [i EXCEPT !.bank = 0, !.pc = next]

AfterReset == IF ini.cfg.to12V THEN "to12V" ELSE "ask"

\* The reset of a bank, and its state after it.
FCReset ==
    /\ ini.pc = "reset"
    /\ \/ ini' = BankDone([ini EXCEPT !.ready = @ \cup {ini.bank}], AfterReset, "ERR_RESET_FLASH")
       \/ ini' = BankDone([ini EXCEPT !.bad = TRUE], AfterReset, "ERR_RESET_FLASH")

FCHynixTo12V ==
    /\ ini.pc = "to12V"
    /\ \/ ini' = [ini EXCEPT !.pc = "ask"]
       \/ ini' = EndInit(ini, "ERR_RESET_FLASH")

\* What a bank shows.
Signature(b) == IF b \in ini.cfg.flashes THEN "signature" ELSE "other"

\* Mutant: a signature that is not answered in time is only compared.
NotAnswered_Compared == [ini EXCEPT !.pc = "compare", !.due = @ \cup {ini.bank}, !.late = @ + 1]

NotAnswered ==
    [ini EXCEPT !.pc = "compare", !.bad = TRUE, !.due = @ \cup {ini.bank}, !.late = @ + 1]

\* The signature is read: it comes, or an error, with the buffer as it may be, or nothing.
FCReadID ==
    /\ ini.pc = "ask"
    /\ \/ ini' = [ini EXCEPT !.pc = "compare", !.buf = Signature(ini.bank),
                             !.shown = IF ini.bank \in ini.cfg.flashes THEN @ \cup {ini.bank} ELSE @]
       \/ \E buf \in {ini.buf, Signature(ini.bank)} :
             ini' = [ini EXCEPT !.pc = "compare", !.bad = TRUE, !.buf = buf]
       \/ ini.late < MaxLate /\ ini' = NotAnswered

Late ==
    /\ ini.pc \in {"ask", "compare"}
    /\ \E b \in ini.due : ini' = [ini EXCEPT !.due = @ \ {b}, !.buf = Signature(b)]

\* The buffer is compared with the signature of the vendor, and set to 0 for the next bank.
CompareID ==
    /\ ini.pc = "compare"
    /\ LET right == ini.buf = "signature"
           i == [ini EXCEPT !.pc = "ask", !.buf = "zero", !.bad = @ \/ ~right]
       IN  ini' = BankDone(i, "vendor", "ERR_READ_ID")

\* The whole signature of bank 0 goes into the system blocks; the number of LUNs in it, and
\* the vendor, give the cycles of an address.
ReadVendor ==
    /\ ini.pc = "vendor"
    /\ \/ ini' = EndInit([ini EXCEPT !.buf = Signature(0)], "ERR_OK")
       \/ ini' = EndInit(ini, "ERR_READ_ID")

InitNext ==
    \/ llfmpInitParameter \/ llf_init
    \/ FCReset \/ FCHynixTo12V \/ FCReadID \/ Late \/ CompareID \/ ReadVendor

----------------------------------------------------------------------------
\* Stripes of n pages of a superblock, programmed so many at a time, fill a block, with no
\* fewer than 32 planes and no more than 96.
Stripe(c, n, programs, pages) == n * Width(c) \in 32 .. 96 /\ pages % (n * programs) = 0

\* Every bank was reset and showed its own signature.
EveryBank(i) ==
    0 .. (i.cfg.banks - 1) \subseteq i.ready \cap i.shown /\ i.buf = "signature"

\* Every block and page has an address, except the blocks of several LUNs of some vendors;
\* a stripe that was not given fills a block.
GoodGeometry(c, p) ==
    /\ \/ 2^p.ubBlockNumPerLunShift >= p.uwBlockNumPerLun
       \/ p.gubIsSerialMultiLUN /\ ~c.rounds
    /\ 2^p.ubPageNumPerBlockShift >= p.uwPageNumPerBlock
    /\ 2^p.ubSLCPageNumPerBlockShift >= p.uwSLCPageNumPerBlock
    /\ Width(c) < 32 =>
          /\ SlcGiven(c) = 0 => Stripe(c, p.gubRaidPagePerRaid, 1, p.uwSLCPageNumPerBlock)
          /\ c.raidTlc = 0 =>
                Stripe(c, p.gubTLCRaidPagePerRaid, ProgramCount[c.species], p.uwPageNumPerBlock)

NoStripe(c) ==
    \/ \A n \in 1 .. 96 : ~Stripe(c, n, 1, SlcPageNum(c))
    \/ \A n \in 1 .. 96 : ~Stripe(c, n, ProgramCount[c.species], PageNum(c))

\* BE_LLF_INIT succeeds only when every bank was reset and showed its own signature, in
\* time, whatever came late into the buffer of them all; with a geometry in which every
\* number of blocks and pages has an address, except the blocks of several LUNs of
\* some vendors; and with stripes that fill a block, where it chose them itself.  It gives
\* up for want of a stripe only when there is none.
InitVerdictTrue ==
    /\ ini.pc = "ok" => EveryBank(ini) /\ GoodGeometry(ini.cfg, ini.para)
    /\ ini.ret = "ERR_INVALID_RAID_PAGENUM" => NoStripe(ini.cfg)

\* The initialisation has ended.  It does not when a page is smaller than its sectors: the
\* assertion on that comes before the check that has an error for it.
InitEnded ==
    \/ ini.pc \in {"ok", "error"}
    \/ ini.pc = "assert" /\ ini.cfg.fullPage < ini.cfg.sectors * 512
=============================================================================
