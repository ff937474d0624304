# Verification of the LLF firmware

`src/llf` is the low-level format firmware (LLF) of an SSD controller.  It is loaded into
the controller once, before the drive's own firmware: it finds the defective blocks of the
NAND flash, erases the flash, chooses the *system blocks*, and writes configuration,
firmware and defect tables into them.  A host drives it with commands in a shared buffer
and reads the answer from a response buffer and a message queue.

These modules model the configuration the object files of the repository were compiled in
(RL6643_VA, BL_ROM, with AUTO_K_ENABLE, BLK_REMAP_PRO, NEW_BLK_REMAP, ERASEALL_TWICE,
EXTEND_STATIC_DBT, SBLK_EXPAND, RDT_REMAP, KEEP_RDT_RESULT and so on; without MULTI_LUN,
MST_MERGE, NAND_TEST_EN): code that this configuration leaves out is not modelled.

## The system

### Components, their state and operations

| Component | State | Operations | Where |
|---|---|---|---|
| Command flow | `res_state`, `res_err_code`, `ulWorkFunc`, `gubLLFALLStep`, `ubKStep`, `ubLlfStep`, `ubWriteConfigStep`, `gfDBTInitDone`, `gubNeedRebuildRemap` | `BE_llf_handle_UTask`, `llfmpInit`, `llfAll` and the steps it calls | llf.c 11328-12308, 14576-16827 |
| Erase engine | `uwBlock[]`, `uwEraseLastBlock`, `gufLastEraseFlag`, `gubEraseCmpNum[]`, `gubEraseNum`, `gubErasetimeout`; the controller's completion queue | `llfAPEraseAll`, `llfBECheckStatus`, the three loops that alternate them | llf.c 6375-6648, 11563-11592, 15949-16048; llf_lib.c 3424-3639 |
| Defect tables | DBT (a bit per group of planes), system DBT (a bit per block of the first 128), list of failures in the system window | `llfSetDBT`, `llfIsBlockBad`, `llfMark/UnMarkSystemBlkDefect`, ... | llf_lib_com.c 111-307, 980-1039 |
| Remap collector | `guwMpDefectBlock`, `guwRemapTempBlock`, `guwRemapFlag`, the remap table | `LlfInitReMapTable`, `llfBECheckStatus`, `LlfCreatReMappingTable` | llf_lib.c 3560-3608; llf.c 18725-18804 |
| Remap pipeline | the remap table, its bitmap and index tables | `LlfGetGoodSystemBlock`, `LlfUpdateRemapBlock`, `llfSortingRemapBSForMultiLUN`, `llfRemap*`, `LlfOutPutRemapTable`, `LlfCheckRemappingTable`, `LlfInheritRemappingTable` | llf.c 10652-11057, 18806-19534 |
| System blocks | `pSBlkNo[][]`, `gubSblkStart`, `gubSblkBankStart`, `gulSblkCHCEMap`, `gulFailedImageBitMap`; the blocks themselves | `llfGetSBlk`, `llfWriteSBlk`, `llfWriteCodeBlock`, `llfWriteSysGroup`, `llfCheckSblock`, `llfEraseSblk` | llf.c 3040-3208, 7322-8497, 9353-9804, 17576-17700 |
| Readers of an earlier system | block information, static and dynamic system blocks | `llfLoadBlockInfo`, `llfReadBlockInfo`, `llfSearchDynamicSBlock`, ... | llf.c 13332-14574 |
| Result of the reliability test (RDT) | per bank results, RDT defect table | `llfInheritRDTInfoFromSBLK`, `llfGetRDTBankResult`, `llfParseRDTResult`, `llfLoadRDTResult` | llf.c 12310-13330 |
| Thresholds | counts of defects per bank, group, die | `llfCheckCapacityOP`, `llfCheckDefectThreshold(Again)` | llf.c 9847-9932, 10106-10484 |
| Vendor marks | | `llfScanFactoryDefectBlocks`, `llfChkDefectBlk` | llf.c 6689-6925 |
| Cache test | test patterns | `repeated_WriteReadCache` | llf.c 16869-17256 |
| Calibration | delay windows per bank, slice counters | `llfAPBECalibrate`, `llffioBECalibrate`, nand_test.c | llf.c 5452-6137; llf_lib.c 385-1412; nand_test.c |
| Initialisation | geometry (`NandPara`), the buffer of the signatures, registers | `llf_init`, `llfmpInitParameter`, `llfinitConfigBE`, `llfInitConfig`, `ParseParaPage*` | llf.c 61-2611, 15154-15610; para_table.c |

### How they interact

There is one processor and one task.  The host writes a command and sets `res_state` to
START; the scheduler calls `BE_llf_handle_UTask` until `res_state` is IDLE.  Each call does
one slice of the work and returns; where the next call goes on is kept in `res_state`,
`ulWorkFunc` and four step variables, which only `BE_LLF_INIT` resets.  The answer is the
error code in the response buffer and a message (`llfEndResponce`).

    host -- INIT, ALL --> BE_llf_handle_UTask --> llfmpInit
                                              \-> llfAll
      llfAll:  llfCheckFlashSignature, llfAPBECalibrate (in slices)
               |-- inheriting modes: llfInherit -> LlfCheckRemappingTable
               |        no table: format, or refuse          |
               |-- format: llfEraseThenCheck (erase loop) -> llfAPBuildDBT (vendor marks)
               \-- both: llfAPExecuteLLF -> llfWriteConfig (prepare; erase; write)
                                         -> cache test -> capacity check
      erase loop: llfAPEraseAll issues an erase per bank   <-> controller
                  llfBECheckStatus polls completions -> DBT, system DBT, remap collector

Beside the task runs only the flash controller, which executes erases and queues their
completions; it is polled, there are no interrupts in these paths.

### What is hard

* Erases of all banks are outstanding together, complete in any order, late or never; a
  completion is a tag with the block number modulo 4096.
* A wait gives up after 10 s, and the completion may still come.
* The erase pauses and is resumed by way of state variables set in three functions.
* A failed erase is done again (ERASEALL_TWICE), by an inner poll of the same queue.
* A command is a state machine over several step variables, errors travel in a local
  `ret`, in `res_err_code` and in step variables, and are turned into ERR_OK in places.
* Commands can be sent in any order, and a command that failed leaves its state behind.
* Each copy of the system blocks may fail at any page, and the ones written before it hold
  maps of the copies.
* The drive was cut off at any moment of its use, and its state has to be found by a
  bisection over pages that may not be readable; old results of the reliability test, and
  states of a former life, lie about.
* Buffers and completion words keep what they held when a read is not answered.
* The calibration takes up its loops again by three counters, after any error, and its
  results are left by several trials in arrays and registers.
* The signatures of all banks are read into one buffer, which a late answer writes too.

`PROJECT.json` lists the hazards, each at its line with the properties that catch it.

### What makes it correct

* Erase engine: counters equal the erases outstanding; a completion is decoded to the
  block that was erased; failures are recorded, all of them and only they; the result of
  the reliability test is never erased; no erase is lost when it reports done; it ends.
* Command flow: ERR_OK means that the whole job was done on this flash by this command; a
  failed command leaves no bootable image that was not tested; one answer per command;
  modes that must inherit never format; every command that follows its INIT ends.
* Defect and remap tables: the remap table holds exactly the good blocks of the broken
  groups, in order, and no block twice; what the format builds of it uses no block for two
  superblocks and no bad block, and passes the firmware's own check.
* System blocks: an image is accepted only if enough copies are complete; the map of
  copies that is saved names the complete ones and no other; the first pages agree with
  each other and on the copies that failed; the defect table keeps data off the copies.
* Preparation: a capacity that is accepted fits what is left of the flash in the end.
* Inheritance: the newest whole state is taken, with exactly its defects; an old result of
  the test is never taken for the state of a drive in use; each bank gets its own result.
* Vendor marks: every marked block gets into the tables, and no other.
* Start of a test, test of the interface, calibration: what is reported as good is good,
  whatever failed on the way, and each of them ends.
* Initialisation: it succeeds only with the signature of every bank and a geometry in order.

## The modules

| Module | Models | Kind |
|---|---|---|
| `DefectTable` | DBT and system DBT as a set of groups and a set of blocks per bank, with the functions that mark and look up | operators |
| `RemapTable` | the remap collector of one bank: the broken group in work, the good blocks left of it per plane, the table | operators |
| `EraseAll` | `llfAPEraseAll`, `llfBECheckStatus`, the loops of `llfEraseThenCheck` ("format"), `llfWriteConfig` ("config"), BE_LLF_ERASENAND ("nand") | state machine |
| `LlfFlow` | the task, `llfmpInit`, `llfAll` and all its steps | state machine |
| `SystemBlocks` | `llfGetSBlk`, `llfWriteSBlk`, `llfWriteCodeBlock`, `llfCheckSblock`, their fail handlers, and the end of an update | state machine |
| `RemapBuild` | the pipeline of llf.c:11447-11496: from the collected blocks to the checked table of replacements | state machine |
| `WritePrepare` | the areas, capacities and thresholds around it (llf.c:11423-11606); extends `RemapBuild` | state machine |
| `LlfCommand` | what BE_LLF_ALL promises, whatever steps it takes | abstract specification |
| `SystemReads` | what the readers of an earlier system share; `LlfInheritRemappingTable` | actions |
| `BlockInfo` | `llfLoadBlockInfo`: copy, dynamic system blocks, snapshot | actions |
| `RdtResult` | `llfLoadRDTResult`: the results of the reliability test | actions |
| `Inherit` | `llfInherit` over the three, and the life of the flash before | state machine |
| `DefectScan` | `llfAPBuildDBT`: search for a table, scan of the vendor's marks | actions |
| `SystemErase` | `llfTodoRDT`, `llfAPEraseAllSblk`: the start of a reliability test | actions |
| `CacheTest` | `repeated_WriteReadCache`: the test of the interface | actions |
| `DelayWindow` | the searches for delay windows, as results and value by value, and where the delays are put | operators, actions |
| `Calibrate` | `llfAPBECalibrate`, `llfAPBECalibrateTxAuto`, `llfAPBECalibrateRxAuto` | actions |
| `Initialise` | BE_LLF_INIT: `llfmpInitParameter`, `llf_init`, `llfinitConfigBE` | operators, actions |
| `TaskCommand` | the last six as parts of a command of the task | state machine |
| `MC...` | job sets, configurations and flashes for TLC | model checking |
| `EraseAllProofs`, `EraseAllTables`, `LlfFlowProofs`, `SystemBlocksProofs`, `RemapBuildProofs`, `WritePrepareProofs`, `InheritProofs`, `TaskProofs` | theorems | proofs |

`EraseAll` extends `RemapTable`, which extends `DefectTable`.  `LlfFlow` instantiates
`LlfCommand` with a refinement mapping.  `LlfFlow` does not contain `EraseAll`: it sees of
the erase loop what `llfAll` sees of it, a slice after which it pauses, is done, or has
timed out, which are the values of `pc` that end a run of `EraseAll`.  In the same way
`SystemBlocks` is inside the steps `WritePrepare`, `WriteErase`, `WriteBlocks` and the update
of `LlfFlow`: its `job` is what the steps before have left, its `ret` their result.
`RemapBuild` extends `RemapTable` too; it begins with what `EraseAll` ends with (the property
`RemapTableExact`) and is the part of the step `WritePrepare` of `LlfFlow` whose failure is
ERR_BLOCK_MAPPING; the module `WritePrepare` is the rest of that step.  `Inherit` is the step
`Inherit` of `LlfFlow`: it extends `BlockInfo` and `RdtResult`, which extend `SystemReads`;
its flash is one that `SystemBlocks` has written and a drive has used.  `TaskCommand` puts
together the steps that `LlfFlow` has as one choice each (`BuildDBT` and `ScanFirst`,
`RdtErase`, `CacheTest`, the calibration, and the BE_LLF_INIT before them): they never run at the same time, and what they
share are the defect tables, so its parts are alternatives of one state machine.

### EraseAll and the code

The processor runs one task, so an action may be as large as the code between two looks at
the completion queue.  `pc` says where the processor is: "call" at the call of
`llfAPEraseAll`, "issue" in its loop over the banks, "issued" after an erase was issued,
"check" and "again" in `llfBECheckStatus` (the inner poll of a second try is "again"),
"loop" back in the caller, "paused" at the scheduler.

| Action | Code |
|---|---|
| `StartErase`, `RefuseErase`, `NextPass`, `FinishErase` | entry and end of `llfAPEraseAll`, by `res_state` |
| `IssueErase`, `SkipDefect`, `BankAtEnd`, `AfterIssue` | the turn of one bank: an erase is issued; the block is defective; the bank is at its end; the rest of the turn after an issue |
| `PollCompletion`, `EraseAgain`, `EraseAgainAssert`, `PollAgain` | a completion: recorded; failed and issued again; the assertion before that; the answer of the second try |
| `CheckTimeout`, `CheckDone` | `llfBECheckStatus` returns |
| `LoopAgain`, `Pause`, `Resume` | the caller's loop and the scheduler |

`hw` is the controller: the erases it has and has not completed.  That it completes one is
seen only when it is polled, so the completion, and its success, is a choice of the polling
step.  A completion that is never polled is one that never comes.

Abstractions: the DBT is a set of groups per bank (a bit per group in the code); a block is
its number; `gulEraseFailSysblk` is the set of its bits, a shift being modulo the word
(`FailBit`, `WordBits`); the address of a block in the flash and in the bank map is left out; a wait of
10 s is a choice, bounded by `MaxLate` outstanding erases at the time.  The pause of the
format after more than 1000 ticks can fall on the pass that ends it, in which case
`res_state` BUILD_DBT is overwritten by ERASE_CT and the loop is entered once more; this
extra entry, in which all banks are at their end, is left out.

### LlfFlow and the code

One action is one call of the task, or, where a call does several things to the flash that
can fail one after the other, a part of one: `pc` is "task" when the task is not running.
The split is safe because the host acts only when `res_state` is IDLE and `pc` is "task",
and nothing else runs.

Four history variables hold what this command did to the flash: `erased`, `table` (where
the defect table in memory comes from), `firmware` (the system blocks; "stuck" are those of
which llfEraseSblk, which stops at the first failure, left some), `tested`.  What an
operation of the flash does is a choice: each that can fail, may.

| Action | Code |
|---|---|
| `SendInit`, `SendAll` | the host |
| `llfmpInit` | BE_LLF_INIT |
| `WrongFlash` ... `CalibrateEnd` | step CALIBRATE of `llfAll` |
| `UpdateRead` ... `UpdateAnswer` | mode ONLY_UPDATE_FW, all of which is in the last slice of the calibration |
| `RdtClear`, `RdtErase` | `llfTodoRDT` |
| `Inherit`, `FallBack` | step LOAD_RDT_START |
| `FormatInit`, `EraseSlice`, `BuildDBT`, `FormatAssert` | steps FORMAT_INIT, FORMAT_START (`llfEraseThenCheck`) |
| `ScanFirst`, `ScanAgain`, `ScanThenErase` | FORMAT_START in mode FORMAT_ERASE_NONDEFECT (`llfCheckThenErase`) |
| `NothingToWrite` | `llfAPExecuteLLF` behind `if(ulWorkFunc == WRITE_CONFIG_FUNC)` (llf.c:12082-12307): nothing |
| `WritePrepare`, `WriteErase`, `WriteBlocks` | `llfWriteConfig` by `ubWriteConfigStep` |
| `CacheTest`, `EarlyReturn`, `EndExecute` | the rest of `llfAPExecuteLLF` |

A configuration (`Config`) is what INIT loads: the mode, whether the image is that of the
reliability test, whether it asks for a scan only, whether tables that are found may turn
out unreadable later (`late`), and whether the other operations may fail (`faults`; a
configuration without faults makes the liveness properties say something of the normal
case).  SCAN_DBT_CTR, the scan-only tag, turns an ERR_READ_DBT into ERR_OK as in the code.
The cache test passes without being run when the configuration holds 0xFFFF for it; which
of the two it is, is not told apart.  The conditions of the early returns (llf.c:12149-12190)
are about counts that the model does not have; that they are taken is a choice.
`ubKStep` "OVER" is `ubKSpeedIndex` 0: an ALL that comes back to the calibration then leaves
its loop at once, and ends it with the `res_err_code` it finds (5739-5741, 5975-5980).  The
calibration is the fixed one, `llfAPBECalibrate`; the automatic one (nand_test.c:4153-4190)
ends in the same steps but does not look at ONLY_UPDATE_FW, and that mode with automatic
calibration is not modelled.

Seen: `Stranded`.  An ALL that follows no INIT may find `ubWriteConfigStep` used up and
`ulWorkFunc` no longer WRITE_CONFIG_FUNC.  `llfAPExecuteLLF` then neither does anything nor
answers, `res_state` stays as it is, and the scheduler calls the task for ever.
`CommandEnds` names this case, and shows that there is no other but the assertions.

### SystemBlocks and the code

`job` is what the steps before have left: the kind of command, the window and the map of
copies that the flash had, the blocks that could not be erased, the marks of the vendor.
`flash` is what the system blocks hold, of a first page only the map and the bitmap of
copies in it; the rest of the pages is complete or not ("full", "part").  A place of the
window is a bank and a block from its start; `gulSblkCHCEMap` names a bank of the flash
and a block from the start of the window, as in the code.

| Action | Code |
|---|---|
| `ChooseWindow` | one window of `llfGetSBlk`: every block is written, read back and erased; the window is taken, or the next one is tried, or `llfGetSBlkFailHandle` |
| `EraseWindow` | the erase of an inherited flash, as far as the system blocks go (`EraseAll` has the rest) |
| `SetConfig` | `llfSetSBlockConfig`: blocks whose erase failed leave the map, and the first page is made |
| `SkipHead`, `WriteHead`, `HeadFails`, `HeadsDone`, `WriteAgain` | `llfWriteSBlk`, a copy at a time, and `llfWriteSBlkFailHandle` |
| `SetSblkToDBT`, `SkipCode`, `WriteCode`, `CodeFails`, `CodesDone` | `llfWriteSysGroup`: `llfSetSblkToDBT`, `llfWriteCodeBlock`, `llfWriteCodeBlockFailHandle` |
| `CheckSblock` | `llfCheckSblock` |
| `ReadConfig`, `ReadTable`, `EraseCopies` | the update: `llfReadConfigFromSblk`, `llfReadDbtFromSblk`, `llfReadRemapFromSblk`, `llfEraseSblk` |

Any write, read or erase may fail, `MaxFail` times; a block that was programmed without an
erase fails for free.  After a failure of a first page the block is erased or cannot be.
`is_good_bank`, which `llfCheckSblock` reads before it assigns it, is a choice.  The word of
the bitmaps has `WordBits` bits and a shift is taken modulo it, as the processor does.
SBLK_BANK_CNT_MIN_END, SBLK_BLK_CNT_MIN_END and EXTEND_SYS_BLK are not in the repository:
they are constants.

Abstractions: one test of a window is one step (nothing else runs, and the result is a set
of blocks); the pages of a copy after the first are written in one step; the search for a
table goes through the first bank only, because a bank without a readable copy ends it.

### RemapBuild and the code

A superblock is the group of the same number in all banks.  Where some of its banks are
bad, groups made of good blocks of other broken groups take their places: entry i of a bank
is the group of the i-th entries of its planes, and a superblock has one index for all the
banks in which it is replaced.  `pc` is the function in work, `bank`, `plane` and `place`
its loops; nothing else runs, so that the phases come in the order of the code.

| Action | Code |
|---|---|
| `EraseResult` | what the erase has collected |
| `CollectSystem` | `LlfGetGoodSystemBlock`, a block |
| `KeepEntry`, `DropEntry`, `EndOfPlane` | `LlfUpdateRemapBlock`: an entry whose vendor mark is good, is bad or cannot be read |
| `SortPlane`, `SortAgain` | `llfSortingRemapBSForMultiLUN`, a plane |
| `GiveUpBroken`, `NoteBroken`, `GiveUpSelected`, `EndSelect` | `llfRemapFindBrokenBS`: good groups of broken superblocks become entries |
| `ReplaceGroup`, `LeaveGroup` | `llfRemaptableReDefine`, a superblock |
| `CheckEntry`, `EndOfEntries`, `CheckLun` | `LlfCheckRemappingTable` |

Abstractions: a plane is a sequence, so that the zeros behind its end are not entries; a
sort is the sorted sequence; of the entries of a LUN that outnumber those in another plane
the last are dropped, as the moves in the code come to.  BAD_BS_TH is not in the repository and a
constant.  A table of 255 entries or more is assumed away: `llfRemaptableReDefine` halts on
it by intent (llf.c:10898), and with 256 `llfRemapFindBrokenBS` never gets there, because its U8 `count`
does not reach 256 (llf.c:10713), while `LlfInitReMapTable` accepts it.  The two ways
`LlfUpdateRemapBlock` can return early are dead: the functions it calls return 0 or 1.

### WritePrepare and the code

`areas` are the borders that `CalculateSnapshotArea` finds, in groups; `phase` says where
`llfWriteConfig` is.  `LayOut` is the call of `CalculateSnapshotArea`, `BuildRemap` a step of
`RemapBuild`, `Accept`, `TryNext` and `GiveUp` are `llfCheckDefectThreshold` and the loop of
`llfCheckDefectThresholdAgain` over the smaller capacities, `EraseFails` and `EraseDone` are
the erase that follows an inheritance, of which only the new defects matter here.

Abstractions: capacities are in groups, so the arithmetic that converts sectors, and the
share for RAID, are constants of a capacity; counts that are only printed are left out.

Seen: the areas are laid out over the table as it was before replacements are built
(llf.c:11423), and only a smaller capacity lays them out again (11524).  The build gives
superblocks up and brings others back, all of them behind the snapshots, so the areas of
states and snapshots always hold; but a superblock of the map (L2P) that was counted as
used may be given up and find no entry to replace it, and then the area of the map is too
small and nothing notices.  `AreasSuffice` says exactly that much: states and snapshots always,
the map if none of its blocks is broken or it was laid out again.  In the modes that inherit, the erase
may find more defects than the accepted capacity leaves room for; only LLF_DEFECT_BAD_BLOCK
checks again, and in its first try with the areas of the old table.  The properties are stated
for the modes in which the code takes care.

### Inherit and the code

A flash is a set of pages.  Each page is named by its kind, place and number; what it holds
follows from the name and from what the flash was formatted with (`home`, `tested`).  First
the life of the flash (`WriteCopy`, `BeginState`, `WriteState`, cut short by `PowerLoss`,
then `Decay`), then the readers.

| Action | Code |
|---|---|
| `llfInherit`, `AfterResult`, `ResultInherited`, `WithoutResult` | `llfInherit` |
| `ResultRead`, `ResultLost`, `ResultNotFound` | a page of `llfGetRDTBankResult` |
| `TakeTag`, `CheckTags`, `AfterBank`, `BankNotTaken` | the two passes of `llfLoadRDTResult` |
| `ParseTables`, `StaticRead`, `StaticLost`, `NoStatic` | `llfParseRDTResult`, with the table of replacements rebuilt |
| `FindCopy`, `NoCopy`, `FindAny`, `NothingFound`, `GivenUp` | `llfLoadBlockInfo` looks for a copy |
| `ScanReads`, `ScanSkips`, `ScanEnds`, `BisectDown`, `BisectUp`, `ReadLast` | `llfSearchDynamicSBlock` |
| `ReadBody`, `NoBody` | `llfReadDBTFromStaticSblock` |
| `ReadSnapPage`, `SnapPageLost` | `llfReadBlockInfo`, `llfParseBlockInfoToDBT` |
| `RemapRead`, `RemapMissed`, `RemapNotFound` | `LlfInheritRemappingTable` |

A read may fail, need a retry with other voltages, or stay unanswered; then the header, the
completion word and the buffer are those of the read before.

Seen, and not contradicted by anything the repository says of the program: (1) the test
that keeps results behind the copies from being taken (llf.c:13286) looks at a maximum of
the first pass, so reads that are not answered let an old result be inherited.  (2) With
such reads a bank may take over the result of another.  (3) The window is overwritten from
the buffer before the results are accepted (13244).  (4) A time-out inside the bisection
takes an older state and says nothing.  (5) A copy with a good head and a bad body fails
the command although another copy is complete.  (6) A copy found outside the loader's
window is taken for a dynamic block.  (7) A full buffer is parsed beyond the groups there
are (13962).  (8) A static table that cannot be read is replaced by the page of the result
(12623-12643).  The properties say exactly where they need `lost = 0`.

### DefectScan, SystemErase and the code

| Action | Code |
|---|---|
| `Begin`, `Choose`, `Again` | a call of `llfAPBuildDBT`: what it clears, whether it searches and whether it scans; BE_LLF_ODBT calls it again |
| `SearchNext`, `SearchFound`, `SearchFails` | the loop over the banks with `llfSearchDBT` |
| `ScanAnswered`, `ScanLost`, `SkipBlock`, `ScanAsserts` | a block of `llfScanFactoryDefectBlocks`; with a read that is not answered; passed over; the assertion in `llfChkDefectBlkForSandisk` |
| `WipeBegin` | `llfTodoRDT` empties the tables |
| `WipeBlk`, `WipeAgain` | an erase of `llfAPEraseAllSblk`, and its second try |

Not modelled: the table of system blocks has SYSTEM_BLOCK_MAX_NUM entries
(llf_public.h:276-282), and both the marks (llf.c:10533-10598) and the look at it
(11296-11307) go on behind it when the window does.  `MarkBlk` marks there what lies in the
table (`SysMax`), and `EraseMarksExact` speaks of that part; what a mark behind it hits is
left out.  The table of groups has them all.

Seen: any two pages of block 0 that can be read are taken for a table, since the result of
the comparison with DBT_BLK_ID is not used; a search that finds none with gubSblkBankStart = 0
does not end (llf.c:7041, a U8); BE_LLF_ODBT never becomes IDLE and scans again on top of
its tables; the table of system blocks is not cleared before a scan.

### CacheTest and the code

`Issue` queues a write and a read to a bank, `IssueEnds` stops when the buffer or the queue
of the bank is full, `Take` counts one completion and, at the last one that counts, looks
whether the queue of completions is empty (`AtLast`, llf.c:17177), `LookAtRoom` looks at the
queue of one bank (17184-17194), `Timeout` gives up, `Compare` looks at
the data, `NextRound` is the loop of `repeated_WriteReadCache`.  `Complete` is the
controller: a bank serves its commands in order, banks do not wait for each other, and the
completion of a transfer may come early or late, also between these looks.  A completion with an error is counted
and leaves its bit in `cmp_tag`, so a time-out that follows also names its bank.

Seen: the completion of a transfer that is posted after the look at the queue stays in it
when the round succeeds.  The next round passes it over; after the last one the next
command finds it.  `CacheVerdictTrue` therefore says that no completion of a write or a
read is left, and no command.  `cmp_tag` counts in 8 bits, 1 for each missing write and 16 for each missing read; a bank
of which 16 writes and 15 reads are missing shows 0 and is not named after a time-out.  The depth of the queue (FC_CMDQ_SIZE, in words, 63 for a pair) is
not in the repository; the theorem is for less than 16 pairs.

### DelayWindow, Calibrate and the code

A search writes a pattern to the cache of a bank and reads it back for each value of a
delay.  What the signals of a bank allow is an arbitrary set of values, an "eye", and each
search may be cut short by a time-out at any value; the search itself, and the formulas by which
the delays are put between the two windows, are as in the code.  `Calibrate` holds, per bank,
whether the delays in the registers work, and every counter the slices go by.

| Action | Code |
|---|---|
| `TryValue`, `NoAnswer`, `AllTried` | a value of `llfCalibrateRxDqsDelayChain`, a read that is not answered, the end of its loop; every set of values that work arises |
| `IntelFeature`, `FixedStart`, `FixedSpeed`, `FixedDone` | `llfAPBECalibrate`: its begin, a speed, its end |
| `FixedTx`, `FixedWrite`, `FixedRx`, `FixedRecord` | a bank of its loops, the pattern written again, `llfSettingPerCh` |
| `AutoStart`, `AutoTiming` | `llfWriteReadCache10MTest`; timing and driving of `llfAPBECalibrateTxAuto` |
| `AutoTx`, `AutoWrite`, `AutoRx`, `AutoRxWriteFails` | a bank of the trial of a driving |

Seen: (1) under BE_LLF_ALL the fixed calibration can end well with a bank that failed, as
its message is forgotten when a later bank succeeds (llf.c:5899, 16343);
`CalibratedMeansWorks` promises the last bank only there.  (2) BE_LLF_CALIBRATE never becomes
IDLE when a feature of an Intel flash cannot be set.  (3) With all drivings asked for, the
result of the last one decides, and nand_test.c:4163 asserts after another was chosen.  (4) An
error of SetWarmUpOdtDrvDiff leaves no message, and BE_LLF_CALIBRATE goes on.  (5) With
pipeline mode `calibrateResult` may be that of the driving before.  (6) Where the eye is in two
pieces the automatic search of the writes can accept a value between them (nand_test.c:3609);
the search of the reads then finds no window, so such a calibration still fails.  `CalEnded` and
`ScanEnded` name what the liveness property leaves out.

### Initialise and the code

`ini` is a record: where `llf_init` is, the configuration, the parameters computed from it
(`NandPara`), the buffer `buf` that all signatures are read into, and what really happened
(`ready`, `shown`), which the property compares the verdict with.

| Action | Code |
|---|---|
| `llfmpInitParameter` | the function, in one step: geometry, defaults, capacity, stripes of RAID |
| `llf_init` | the checks of the mapping, the page size and the remap table |
| `FCReset`, `FCHynixTo12V` | the reset of a bank, the change to 1.2 V |
| `FCReadID`, `Late`, `CompareID` | the signature of a bank: answered, with an error, or not in time; an answer that comes while another bank is asked; the comparison |
| `ReadVendor` | the signature of bank 0 for the system blocks |

`cal_shift` is not in the repository; its uses say that it is the logarithm, rounded down.

Seen: (1) the assertion llf.c:1749 comes before the check at 15309 of a page that is smaller
than its sectors, which therefore never has its error.  (2) The claimed capacity in the
configuration is overwritten with its number of sectors (1777), so a second INIT that does
not load the configuration again computes another capacity (447 GB of 480).  (3) The number
of blocks of several LUNs is a product in 16 bits, and a number of blocks or pages may come
to 0, on which `cal_shift`, called with it, says nothing here: the theorem assumes `Sized`.

## Runs

| Run | Shows | Bounds |
|---|---|---|
| `erase_all` | every kind of erase, those that end at a time-out and those that go on after it: exact counters, decoding, defect tables right, erased set exact, time-outs blame the right banks, second tries are alone while nothing was waited for in vain | 2 banks, 8 blocks, tags modulo 3, 2 failures, 2 late erases |
| `erase_ends` | every erase ends, and the remap table is exact then | 2 banks, 3 planes, 9 blocks, table of 2, 2 failures, 1 late erase |
| `erase_assert` | *violation*: the assertion llf_lib.c:3509 can fail | 2 banks |
| `prepare` | the pipeline of the remap table: no block twice, no bad block, whole replacements, the check accepts; the capacity that is accepted fits, and the areas hold what they are for | 3 banks, 2 planes, groups in 2 LUNs, 2 bad blocks anywhere or 3 behind the first areas, of which 1 marked, 1 unreadable mark, 2 entries a plane; 2 capacities; inherited tables with 2 bad blocks and 1 more found by the erase |
| `inherit` | the newest state, its exact defects, a clean power loss never costs the drive, no old result, own results, the rebuilt table | 2 banks, 5 groups of 2 planes, 2 pairs of dynamic blocks with 4 pages, 5 states, 2 spoiled pages or lost reads, 18 flashes |
| `flow_command` | ALL after INIT, sound configurations: refinement of `LlfCommand` | 4 commands |
| `flow_anyorder` | INIT and ALL in any order, all configurations: answers, assertions, ERR_OK means done, failures leave no untested image, no format where inheriting is a must, and every command ends but an ALL without INIT that is `Stranded` or stops at an assertion | 3 commands |
| `flow_scan`, `flow_fallback` | *violations*, see findings | 2 commands |
| `sysblk_all` | formats, inherited flashes, updates: the saved map is exact, enough copies, first pages agree, copies protected, nothing written over what could not be erased, an update leaves a copy in each bank | 3 banks, 2 of them with copies, 2 copies a bank, 2 windows, 2 failures |
| `sysblk_window` | *violation*, see findings | formats, the same |
| `task_commands` | the scan finds exactly the marked blocks; the start of a test marks exactly what failed; the test of the interface and the searches for windows tell the truth; a calibration that ends well works; an initialisation that succeeds saw every bank; everything ends | 2 banks, 6 blocks, 2 marked blocks, 1 lost read, 2 calls, 5 commands; 2 failed and 1 silent erase; 2 banks, 3 pairs, 2 rounds, 1 flaw; 3 banks, 2 speeds, 3 drivings, windows of 4 to 5 values; 27 configurations, 3 banks, 1 late answer |

Why the bounds are enough.  *Banks*: two are needed for completions out of order and for
one bank to reach the end before the other; nothing in the code relates three banks but
the count `uwEraseLastBlock`, and the theorems cover every number.  *Blocks*: 8 blocks with
a window of one, a result area of one, a system area of 4 and groups of 2 leave two user
groups, so that the group in the middle and the last one differ.  *Tags*: modulo 3 makes
the range change twice, at blocks that are not group boundaries.  *Failures*: two reach
two planes of a group or two groups; with three planes a group keeps a good block then.  *Commands*: four are INIT, ALL, INIT, ALL,
so that everything one command can leave behind is met by the next; in any order three,
INIT, ALL, ALL and ALL, ALL, ALL among them, so that an ALL resumes what another left.
*System blocks*: 3 banks, of which 2 hold copies, let the window move along the blocks and
then along the banks; two copies a bank let a bank lose one or both; two failures are one
that moves the window or spoils a first page and one during the second try.

*Remap table*: two bad blocks move the areas or are one before and one in them; three break one group whole, in part, or with a good plane left in
each of two groups; three banks are the fewest with a superblock that has two broken banks
(BAD_BS_TH) and one that gives its group up; two entries a plane let a bank be full, and
entries be taken at indices that differ by bank.  Two capacities let the first be refused.  A package of several LUNs is checked, with
the border of the LUNs after group 2: with one LUN the first sort is the cut to the shortest
plane, and the second changes nothing.  The 64 superblocks that are noted are not reached.

*Inherit*: five states in pairs of blocks with four pages fill the first pair and begin the
second, so that a bisection has all its branches and the newest state may be the first of a
block; a snapshot of five groups with two entries a page and a buffer of two pages has a
full buffer, a rest, and, with four groups, none.  Two faults spoil both copies of one state,
or one page and the answer to another read.

*Task*: six blocks are two groups of the system area and one of the user's; two marks are
two blocks of a group, two groups or two banks; the U8 of the search has four values.  Three
pairs over two banks with room for one let a bank be full while the other is not.  A window
of 5 values over an eye of up to 9 differences shows every case of the placement: eyes that
begin at 0, before it and behind it, in one piece or in two of which one is wide enough to pass.  Three banks are the fewest
for a failure that is followed by a success that is not the last, and for a late answer that
comes while the next bank is asked and another bank follows.

Deadlock is not checked because the models do stop: an erase when it has ended, the flow
when the bounded host has no command left or an assertion has halted the processor.

Fairness.  `EraseAll!FairSpec`: the task goes on (`WF_vars(Next)`: the scheduler calls it
until it is idle and none of its loops blocks), and, for the loops that never give up, an
erase that is polled for again and again is answered in the end (`SF`).  For "format" this
is not assumed: it ends by its time-out.  `TaskCommand!TaskSpec`: `WF_taskVars(TaskNext)`,
again the scheduler; that a wait ends is not fairness but its time-out.  `LlfFlow!FairSpec`: `WF_vars(UTask)`, the
scheduler calls the task while `res_state` is not IDLE.  Slices that only go on (of the
calibration, of the erase) are stutters there: that they are finite in number is a counter
in the code, or `EraseEnds`.  `CommandEnds` is checked in every order of commands: a command
that follows its INIT always ends.

Properties of `LlfFlow` that speak of one command are conditioned on `Fresh`: INIT was the
command right before.  `flow_anyorder` sends commands in any order and shows that what is
unconditional holds (the DBT assertion of llf.c:16546); an ALL without INIT does resume
where the last one stopped, see the hazards, and may find nothing to do there for ever
(`Stranded`).

## Findings

1. **Assertion in the second try** (`erase_assert`, llf_lib.c:3509).  A check that gave up
   after 10 s lets the next bank's erase be issued; if the late one then fails, the
   assertion that the erase is alone fails.
2. **FORMAT_ERASE_NONDEFECT scans for ever** (`flow_scan`, llf.c:15929).  The loop waits for
   IDLE, which a successful scan does not set under BE_LLF_ALL.
3. **INHERIT_OR_FORMAT goes on with a torn table** (`flow_fallback`, llf.c:16513, 14474).
4. **Failures of the erase applied to another window** (`sysblk_window`, llf_lib.c:2475).
   The bits say which places of the window failed to be erased; a format erases with the
   window at the start, `llfGetSBlk` then moves it because of those very blocks, and
   `llfSetSBlockFWConfig` gives up the good blocks at the same places of the new window.  A
   bank of which all were bad loses all again: ERR_BAD_SBLOCK.

Seen while modelling and not made a run: the test of `llfWriteCodeBlock` for a bank without a
copy (llf.c:8477) cannot hold in a window that has moved, so an update there may answer
ERR_OK with no complete copy left; `UpdateLeavesCopies` is stated for a window at the start.
ONLY_UPDATE_FW rewrites the system blocks when no copy of the configuration can be read: the
ERR_READ_SBLK of `llfReadConfigFromSblk` skips the tables and the erase (llf.c:6004-6019) and
is then taken for one of `llfWriteSBlk` (6032), whose fail handler erases and rewrites.
An ALL without INIT may never be answered (`Stranded`, llf.c:12082).
More of that kind is under `Inherit`, `DefectScan`, `CacheTest` and `Calibrate` above.

The properties of the passing runs leave out exactly these: `KnownDefect` and `Sound` name
mode FORMAT_ERASE_NONDEFECT and configurations `late` in the two other modes.

## Proofs

All are checked by TLAPS, for every value of the constants under the module's assumptions
(`EraseAssumption`: at most 16 banks as the tag has room for, whole groups, block numbers
of 16 bits, the areas in order; `FlowAssumption`: types only; `SystemBlocksAssumption`: the blocks the window may move
to are whole windows, and the window a flash has lies in its banks, as `llfGetSBlk` chose it;
`RemapAssumption`: whole groups, the areas in order, block numbers of 16 bits, at most 254
entries, on which `llfRemaptableReDefine` insists; bad blocks are blocks of the flash;
`PrepareAssumption`: the areas begin in the system area, there is a capacity, and the
modes are those of the code; `ReadsAssumption`: the areas of the window lie in the system area;
`BlockInfoAssumption`: the write count of the former life is above those of the states, and
two groups that break one after the other differ, since the flag of a program failure stands
for all new banks of its group, llf_lib_com.c:963-977; `InheritAssumption`: one test has one
window for all its banks, a format has groups in use, the drive uses no block it knows to be bad,
the block of the former life is left because it could not be erased and is known to be bad, and
the window of the test lies below the dynamic blocks; those of `TaskCommand`'s parts: types,
and ranges that are not empty).  Three results have a hypothesis of their own, `EndsWithLun`,
`Stays` and `Host`, which are explained with them.

*EraseAllProofs.*  `CoreInvariant` is the inductive invariant of types, shape of the
outstanding erases and exact counters: `gufLastEraseFlag` is the cardinality of `hw`, and
`gubEraseCmpNum[b]` that of the part of bank b.  It needs that no erase is issued twice
while outstanding, which holds because a bank's outstanding erases are all before its next
block.  `TypeCorrect`, `CountersExact`, `TimeoutBlame` and `DoneAnswered` follow.
`LockStepInvariant` is the second one: banks are at the same block, or at the one before if
their turn in this pass is to come, and unless a wait was in vain, the erases outstanding
are those of this pass.  `DecodeCorrect` follows from it, because then all tags are of
the range in `gubEraseNum`; so does `AssertInTime`.

*EraseAllTables.*  The tables the erase leaves, on top of these.  In lock step a completion is
taken for its own erase, so what the tables say of a block is about one erase.
`IssuedInvariant` orders the erases of a bank before the block it has come to, none in what
the job keeps; `CoveredInvariant` says that a block behind it was erased or may be spared, and
counts the banks that are through.  `EraseSet` is their meeting at the end.  `MarksInvariant`
follows a failure into the tables it belongs to, through the second try, and a mark back to the
failure it stands for; from it follow `MarkedFailed` and `FailuresKnown`.  `KeepsSystemMark`
says which blocks of the system area keep their mark: a block of the window loses the
one it had when it is erased.
`CollectorInvariant` is about the remap collector.  A bank has one erase outstanding
in a pass, so its completions come in the order of its blocks, and the collector sees the planes
of a group one after the other.  `Closed` and `Open` therefore say what the collector holds as a
function of the set of failed blocks alone: the good planes of every earlier group that broke are
in the table, plane by plane, and those of the group in work are still in the temporary
entry.  From it follows `RemapExact`, under the hypothesis `EndsWithLun`: no job that collects
ends behind the LUN.  It leaves out one case, BE_LLF_ERASENAND with ERASE_ALL after a search
that has found a system's table and its `gubBlkRemapProFlag` (llf.c:7066), where the last group
stays in the temporary entry; all jobs of the runs satisfy it.

*LlfFlowProofs.*  `FlowInvariant` says for each step of the command what it has done: which
table there is, what is erased and written, and which value of the step variables goes
with it.  It is needed because each property alone is not inductive: that ERR_OK is
reported only when done depends on all steps before.  From it follow `TypeCorrect`,
`OkIsFormatted`, `FailedLeavesNoImage`, `Answers`, `NoAssertFails`, `NeverFormats`.

The second part is the refinement, `FlowKeepsPromise`: `Host /\ Spec => KeepsPromise`, where `Host` says that
INIT precedes every ALL and configurations are sound.  Every action is mapped to an action
of `LlfCommand` or to a stutter, with `FlowInvariant` for the guards.

*SystemBlocksProofs.*  `CopiesInvariant` is the inductive invariant `CopiesInv`: the types
and, phase by phase, which places of the window are still chosen (`WindowInv`, `BranchInv`),
which of them the map has (`MapInv`), what their blocks hold and which are marked
(`ProtectedInv`, `ExactInv`, `CleanInv`) and how many of a bank have failed (`CountInv`).
In the loops over the copies it speaks of the places before `cur` and of those from `cur`
on, by their index: that the map is exact at the end says nothing of a loop half done.
`TypeCorrect`, `CopiesAreProtected`, `SavedMapIsExact` and `FirstPagesAreClean` follow.
`EnoughCopiesLeft` adds what `llfCheckSblock` counted; places and blocks are as many, by a
bijection.  `UpdatesLeaveCopies` adds that the banks before the one in work have kept a
copy, for which the count `bads` must be exact.  `FirstPagesAgree` adds what the pages
written so far say: after a first page has failed they need not agree until the second
round is over, so the invariant names for each place whether the page that is now in
memory tells the truth of it.  Nothing bounds the banks by the bits of a word: two places
may share a bit of the bitmaps, and the theorems hold all the same.

*RemapBuildProofs.*  For chips of one LUN (`~Serial`), whatever the bad blocks and thresholds.
`BuildInvariant` is the inductive invariant `BuildInv`.  Its heart is `Listed`: the group of
every entry, and of every bad block, is out of use in the bank or replaced itself.  A block
that is in the table therefore is no longer the place of its own group, which is why a
superblock may give its good banks up and be replaced later (`BlocksUsedOnce`), and why
the check finds a reason to accept each entry other than the count that is not reset
(`CheckAccepts`).  `Listed` alone does not survive `LlfGetGoodSystemBlock`, which keeps a
group half collected: `Collecting` says that the blocks it holds are of a group no entry
has, and that those it has passed are good.  `MarkInv` follows the loop that drops
entries as it goes through them: the ones before `place` have no mark.  `IndexInv` says that
no entry of a bank replaces two groups, by `used`, and `LenInv` that planes are cut to one
length before entries are numbered.  `TypeCorrect`, `BadBlocksStayOut` and
`ReplacementsAreWhole` follow too.  With several LUNs the pairing of the planes is an argument
about how many entries of each LUN there are; that stays with TLC, whose run has two LUNs.

*WritePrepareProofs.*  For chips of several LUNs too.  Of the build of replacements it needs
only `BuildOk`: what goes into the table of replacements and is given up or brought back by it
are groups with a bad block, behind the snapshots; each action of `RemapBuild` keeps that and
leaves the tables before as they are (`Spared`).  That the three searches of `CalculateSnapshotArea`
find an end (`LaysOut`) is an argument of size: the groups behind the flash are unmarked, so an
area ends there at the latest, and the ends are the first that are large enough.  `PrepInv`
says, phase by phase, what the areas hold and which check has been passed.  `AreasHold` and
`RoomIsThere` follow; the latter adds that the groups behind the areas are as many as the good
and the bad ones counted, by the cardinality of a product.

*InheritProofs.*  What the readers of an earlier system find, for any number of banks, states,
pages and faults.
`FlashInv` says which pages there can be: the states below the one written last are whole.
`SnapInv` says that the table holds, of the groups of the snapshot read so far, exactly what
the state that was taken says of them, and of the others nothing; `SnapshotExact` is its end.
`NewestInv` follows the search: the first page that was found is not older than that of the newest
state's pair of blocks, and in the bisection `page_down` is a page that reads and `page_up` one that does not.  It does
not need the pages of a block to be a prefix: what is taken is the newest of those that can
be read because the first page of a later pair is above all of an earlier one.  `Clean` excludes
reads without an answer and dynamic pages that were spoiled by more than the cut of the power;
`NewestTaken` follows.
`ResultInv` is about the two passes of `llfLoadRDTResult`.  When every read is answered,
what a bank's search finds is a function of the flash, so the second pass finds what the
first has found; and the results of a flash that was formatted since lie behind the copies,
where llf.c:13286 refuses them.  `ResultsOwn` follows.
`CleanInv` says that after a loss of power alone each step of the reader succeeds: the scan
skips the block of the former life, the first copy ends the search, and the pages of the
newest whole state all read.  `CleanInherited` has the hypothesis `Stays`: of a drive that was
formatted, and whose loader knows the copies, the mode is one that inherits, and if blocks of
the test are left, its window is the window of the copies.  All flashes of the run satisfy it.
Without it the theorem is not to be had: in the mode that searches defects the table of
replacements is looked for behind the copies, and a result left in another window sends
the reader there.

*TaskProofs.*  One invariant for each part of `TaskCommand`; in the others a part stutters.
`TablesAreExact` (`ScanInv`): the marked groups are those of the defective blocks passed so
far, so that a call that starts again, or a read that was not answered and is taken for what
the buffer still holds, changes nothing of it.  `MarksExact` (`WipeInv`): the marks are those of
the blocks erased so far that failed, in both tables as far as they reach.  `VerdictsAreTrue` (`CacheInv`): what is
queued, served and counted of each bank adds up, pair by pair, and a word of completion that
shows 0 belongs to a bank that is through; the count of what is missing is the number of
writes and reads still waiting, so at 0 only transfers are, and a bank that has been looked
at gets no command any more.  `WindowsAreWidest` (`SweepInv`): the window held is
the first of the widest runs that have ended before the value in work, and the run in work is
followed from its begin.  `InitVerdicts` (`InitOk`): as long as no bank
was bad nothing is still on its way and the buffer holds the signature only if the bank in work
has shown it, so a late answer can help no bank of an initialisation that succeeds.
`CalibrationWorks` (`CalOk`): with the recorded speeds every bank before the one in work works,
or there is a message; in the automatic calibration a read comes back only where the writes
work, so a window of the reads stands for both, and a driving that was kept had one in every
bank.  That a search finds no window where nothing can come back (`NothingSwept`) is an
induction over the values of the delay, by way of the least value that contradicts it.

Type correctness is proved (`TypeCorrect` in four of the modules) rather than run: the
invariants `TypeOK` are parts of the inductive ones.  `DoneMeansAnswered` too is proved only.

Model-checked only: liveness (`EraseEnds`, `CommandEnds`, `TaskEnds`), which needs fairness,
out of the prover's reach; `RebuildExact`, whose definition folds over the sorted sequence of
the marked blocks, so that a proof would be an induction over data; and the properties of
`RemapBuild` on chips of several LUNs.

## Plan

What could follow, in this order.

1. Proofs: the remap table for several LUNs, by counting the entries of each LUN.
2. A loss of power between two writes of `SystemBlocks`, with `Inherit` as the reader of exactly
   the flash it leaves.
3. The maps of dies to banks in llf_lib.c (4268-4593) against a reference definition.

## Not modelled

See `components` in `PROJECT.json`.  Left out for good: what a signal does (it is an arbitrary
eye), the reference voltages and ODT registers of the calibrations, register programming,
parameter pages, printing (data without control the properties could tell apart), the NAND
test command (compiled out), pseudo-SLC and retry sequences (their effect is that a page reads or does not).
