------------------------------ MODULE LlfFlow ------------------------------
(***************************************************************************)
(* The command BE_LLF_ALL: BE_llf_handle_UTask, llfAll and the steps it    *)
(* goes through (llf.c).  One call of the task does one step and returns;  *)
(* where the next call goes on is kept in res_state, ulWorkFunc and four   *)
(* step variables, and the task is scheduled again until res_state is      *)
(* IDLE.  llfmpInit (BE_LLF_INIT) is what sets the step variables.         *)
(*                                                                         *)
(* What a step does with the flash is kept in four history variables;      *)
(* whether it succeeds is up to the flash.  The erase loops are EraseAll,  *)
(* of which this module sees a pause, the end or the timeout.              *)
(***************************************************************************)
EXTENDS Naturals

CONSTANTS
    Configs,     \* the images and configurations the host loads before INIT
    AlwaysInit,  \* the host sends INIT before every ALL
    MaxCommands  \* bound: commands the host sends

Modes == {"INHERIT_OR_FORMAT", "FORCE_INHERIT", "FORCE_FORMAT",
          "FORMAT_ERASE_NONDEFECT", "DEFECT_BAD_BLOCK", "ONLY_UPDATE_FW"}

Config == [ mode     : Modes,     \* CONFIG_LLF_MODE
            rdtTag   : BOOLEAN,   \* the image is that of the reliability test
            normalEn : BOOLEAN,   \* ubRDTLLFNormalEn
            scanOnly : BOOLEAN,   \* SCAN_DBT_CTR holds FACTORY_DEFECT_TAG
            late     : BOOLEAN,   \* tables are found, but not all of them can be read
            faults   : BOOLEAN ]  \* other operations of the flash may fail

ASSUME FlowAssumption ==
    /\ Configs \subseteq Config
    /\ AlwaysInit \in BOOLEAN
    /\ MaxCommands \in Nat

VARIABLES
    cfg,              \* the configuration INIT read
    subcmd,           \* subcmd of the command buffer
    commands,         \* commands sent
    inited,           \* INIT was: "never", "done", "used" by this ALL, by an earlier: "stale"
    resState, resErr, \* res_state, res_err_code of the response buffer
    answers,          \* messages MSG_BE_RESP posted for this command
    ulWorkFunc,
    gubLLFALLStep,
    ubKStep,          \* with "OVER" for a ubKSpeedIndex of 0: no speed is left
    ubLlfStep, ubWriteConfigStep,
    gfDBTInitDone, gubNeedRebuildRemap,
    pc,               \* "task", or where in a longer call the processor is
    ret,              \* the value that call works with
    erased, table, firmware, tested,  \* history, see LlfCommand
    odd               \* history: the scans of this command are odd in number

control == <<gubLLFALLStep, ubKStep, ubLlfStep, ubWriteConfigStep, gfDBTInitDone,
             gubNeedRebuildRemap>>
flash   == <<erased, table, firmware, tested, odd>>
host    == <<cfg, subcmd, commands, inited>>
answer  == <<resState, resErr, answers, ulWorkFunc>>
vars    == <<host, answer, control, pc, ret, flash>>

ALLSteps == {"CALIBRATE", "LOAD_RDT_START", "INHERIT_DONE", "FORMAT_INIT", "FORMAT_START"}

\* gubLLFMode: llfAll sets it anew in every call when the image is that of the test.
gubLLFMode == IF cfg.rdtTag THEN "FORCE_FORMAT" ELSE cfg.mode

Inheriting == gubLLFMode \in {"INHERIT_OR_FORMAT", "FORCE_INHERIT", "DEFECT_BAD_BLOCK"}

\* Mutant: a refused inheritance is only looked at in mode FORCE_INHERIT.
MustInherit_OneMode == gubLLFMode = "FORCE_INHERIT"

MustInherit == gubLLFMode \in {"FORCE_INHERIT", "DEFECT_BAD_BLOCK"}

\* llfTodoRDT: the image of the test, which formats nothing.
RdtOnly == cfg.rdtTag /\ ~cfg.normalEn

------------------------------------------------------------------------------
(* Answers                                                                 *)

\* Mutant: the message is posted again by the one that called.
llfEndResponce_Twice(err) ==
    /\ resState' = "IDLE" /\ resErr' = err /\ ulWorkFunc' = "NONE"
    /\ answers' = answers + 2

\* Mutant: the response says idle, but no message is posted.
llfEndResponce_Silent(err) ==
    /\ resState' = "IDLE" /\ resErr' = err /\ ulWorkFunc' = "NONE"
    /\ UNCHANGED answers

llfEndResponce(err) ==
    /\ resState' = "IDLE" /\ resErr' = err /\ ulWorkFunc' = "NONE"
    /\ answers' = answers + 1

------------------------------------------------------------------------------
(* The host: it sends a command when the one before is idle                *)

SendInit ==
    /\ resState = "IDLE" /\ pc = "task" /\ commands < MaxCommands
    /\ cfg' \in Configs
    /\ subcmd' = "INIT" /\ commands' = commands + 1 /\ inited' = "never"
    /\ resState' = "START" /\ answers' = 0
    /\ UNCHANGED <<resErr, ulWorkFunc, control, pc, ret, flash>>

SendAll ==
    /\ resState = "IDLE" /\ pc = "task" /\ commands < MaxCommands
    /\ AlwaysInit => inited = "done"
    /\ subcmd' = "ALL" /\ commands' = commands + 1
    /\ inited' = IF inited = "done" THEN "used" ELSE IF inited = "used" THEN "stale" ELSE inited
    /\ resState' = "START" /\ answers' = 0
    /\ erased' = "none" /\ table' = "stale" /\ tested' = FALSE /\ odd' = FALSE
    /\ firmware' = IF firmware = "new" THEN "old" ELSE firmware
    /\ UNCHANGED <<cfg, resErr, ulWorkFunc, control, pc, ret>>

\* llf_init may fail after llfmpInitParameter has set the step variables (Initialise), before
\* or after llfInitParameters.
llfmpInit(ok) ==
    /\ resState # "IDLE" /\ subcmd = "INIT" /\ pc = "task"
    /\ gubLLFALLStep' = "CALIBRATE" /\ ubKStep' = "INIT" /\ ubLlfStep' = "INHERIT"
    /\ ubWriteConfigStep' = "INIT" /\ gfDBTInitDone' = "NONE"
    /\ gubNeedRebuildRemap' \in IF ok THEN {FALSE} ELSE {FALSE, gubNeedRebuildRemap}
    /\ inited' = IF ok THEN "done" ELSE "never"
    /\ resState' = "IDLE" /\ resErr' = (IF ok THEN "ERR_OK" ELSE "ERR_UNKNOWN")
    /\ answers' = answers + 1
    /\ UNCHANGED <<cfg, subcmd, commands, ulWorkFunc, pc, ret, flash>>

------------------------------------------------------------------------------
(* llfAll, step CALIBRATE                                                  *)

CalibrateGuard ==
    /\ resState # "IDLE" /\ subcmd = "ALL" /\ pc = "task"
    /\ gubLLFALLStep = "CALIBRATE"

\* llfCheckFlashSignature
WrongFlash ==
    /\ CalibrateGuard /\ ~cfg.rdtTag /\ cfg.faults
    /\ llfEndResponce("ERR_FLASH_VENDOR")
    /\ UNCHANGED <<host, control, pc, ret, flash>>

\* A slice of the calibration.  The first one sets up ubKSpeedIndex, which the others
\* count down, one speed after a number of slices; nothing else that is seen here changes.
CalibrateSlice ==
    /\ CalibrateGuard
    /\ \/ ubKStep = "INIT" /\ ubKStep' = "START"
          /\ resState' = "EXECUTE" /\ resErr' = "ERR_OK"
          /\ ulWorkFunc' = "CALIBRATE" /\ UNCHANGED answers
       \/ ubKStep = "START" /\ ubKStep' \in {"START", "OVER"}
          /\ resErr = "ERR_OK" /\ UNCHANGED answer
    /\ UNCHANGED <<host, gubLLFALLStep, ubLlfStep, ubWriteConfigStep, gfDBTInitDone,
                   gubNeedRebuildRemap, pc, ret, flash>>

\* The slice fails, or it does its work and then llfAll finds the error of an earlier
\* command, which only the first slice clears.
CalibrateFail ==
    /\ CalibrateGuard /\ ubKStep # "OVER"
    /\ \/ cfg.faults /\ llfEndResponce("ERR_FLASH_CALIBRATE") /\ UNCHANGED ubKStep
       \/ ubKStep = "START" /\ ubKStep' \in {"START", "OVER"}
          /\ resErr # "ERR_OK" /\ llfEndResponce(resErr)
    /\ UNCHANGED <<host, gubLLFALLStep, ubLlfStep, ubWriteConfigStep, gfDBTInitDone,
                   gubNeedRebuildRemap, pc, ret, flash>>

\* Mutant: only a format begins with an erase.
StateAfterCalibrate_Format ==
    IF gubLLFMode = "FORCE_FORMAT" THEN "ERASE" ELSE "BUILD_DBT"

StateAfterCalibrate ==
    IF Inheriting \/ gubLLFMode = "FORCE_FORMAT" THEN "ERASE" ELSE "BUILD_DBT"

\* The call that finds no speed left, whatever was answered before.  Where the command
\* goes on depends on the mode.
CalibrateEnd ==
    /\ CalibrateGuard /\ ubKStep = "OVER" /\ gubLLFMode # "ONLY_UPDATE_FW"
    /\ resErr' = "ERR_OK"
    /\ gubLLFALLStep' = IF Inheriting THEN "LOAD_RDT_START" ELSE "FORMAT_INIT"
    /\ resState' = StateAfterCalibrate
    /\ UNCHANGED <<host, answers, ulWorkFunc, ubKStep, ubLlfStep, ubWriteConfigStep,
                   gfDBTInitDone, gubNeedRebuildRemap, pc, ret, flash>>

------------------------------------------------------------------------------
(* ONLY_UPDATE_FW: the end of the calibration does the whole job           *)

WriteErrors == {"ERR_READ_SBLK", "ERR_BAD_SBLOCK", "ERR_UNKNOWN"}

\* Config, defect table and remap table are read; if no copy of the config can
\* be, ERR_READ_SBLK, of another table, ERR_READ_DBT.
UpdateRead ==
    /\ CalibrateGuard /\ ubKStep = "OVER" /\ gubLLFMode = "ONLY_UPDATE_FW"
    /\ \/ ret' = "ERR_OK" /\ table' = "inherited"
       \/ cfg.faults /\ ret' = "ERR_READ_DBT" /\ UNCHANGED table
       \/ cfg.late /\ ret' = "ERR_READ_SBLK" /\ UNCHANGED table
    /\ pc' = "updateErase"
    /\ UNCHANGED <<host, answer, control, erased, firmware, tested, odd>>

UpdateReady == ret = "ERR_OK"

\* llfEraseSblk, if all went well; llfWriteSBlkFailHandle erases too.
UpdateErase ==
    /\ pc = "updateErase"
    /\ IF UpdateReady
       THEN /\ erased' = "window" /\ pc' = "updateWrite"
            /\ \/ ret' = "ERR_OK" /\ firmware' = "erased"
               \/ cfg.faults /\ ret' = "ERR_ERASE_BLK0" /\ firmware' = "torn"
       ELSE IF ret = "ERR_READ_SBLK"
            THEN /\ erased' = "window" /\ firmware' \in {"erased", "torn"}
                 /\ ret' = "ERR_OK" /\ pc' = "updateWrite"
            ELSE /\ pc' = "updateAnswer" /\ UNCHANGED <<ret, erased, firmware>>
    /\ UNCHANGED <<host, answer, control, table, tested, odd>>

\* llfWriteSBlk (once more after ERR_READ_SBLK), llfSetSblkToDBT, llfWriteSysGroup
UpdateWrite ==
    /\ pc = "updateWrite"
    /\ \/ ret = "ERR_OK" /\ firmware' = "new" /\ UNCHANGED ret
       \/ cfg.faults /\ ret = "ERR_OK" /\ firmware' = "torn" /\ ret' \in WriteErrors
       \/ ret # "ERR_OK" /\ UNCHANGED <<ret, firmware>>
    /\ pc' = "updateAnswer"
    /\ UNCHANGED <<host, answer, control, erased, table, tested, odd>>

\* The answer; when it is an error llfAll answers once more.
UpdateAnswer ==
    /\ pc = "updateAnswer"
    /\ resState' = "IDLE" /\ resErr' = ret /\ ulWorkFunc' = "NONE"
    /\ answers' = IF ret = "ERR_OK" THEN answers + 1 ELSE answers + 2
    /\ gfDBTInitDone' = "NONE" /\ gubLLFALLStep' = "CALIBRATE"
    /\ pc' = "task"
    /\ UNCHANGED <<host, ubKStep, ubLlfStep, ubWriteConfigStep, gubNeedRebuildRemap, ret,
                   flash>>

------------------------------------------------------------------------------
(* llfAll after the calibration: the image of the reliability test         *)

Busy ==
    /\ resState # "IDLE" /\ subcmd = "ALL" /\ pc = "task"
    /\ gubLLFALLStep # "CALIBRATE"

RdtClear ==
    /\ Busy /\ RdtOnly /\ ubLlfStep \in {"INHERIT", "ERASE"}
    /\ ubLlfStep' = "ERASE"
    /\ table' = "cleared" /\ pc' = "rdtErase"
    /\ UNCHANGED <<host, answer, gubLLFALLStep, ubKStep, ubWriteConfigStep, gfDBTInitDone,
                   gubNeedRebuildRemap, ret, erased, firmware, tested, odd>>

\* llfAPEraseAllSblk
RdtErase ==
    /\ pc = "rdtErase"
    /\ erased' = "window" /\ pc' = "task"
    /\ \/ /\ resState' = "EXECUTE" /\ resErr' = "ERR_OK" /\ ulWorkFunc' = "WRITE_CONFIG"
          /\ ubLlfStep' = "EXECUTE" /\ firmware' = "erased" /\ UNCHANGED answers
       \/ cfg.faults /\ llfEndResponce("ERR_ERASE_BLK0") /\ firmware' = "torn" /\ UNCHANGED ubLlfStep
    /\ UNCHANGED <<host, gubLLFALLStep, ubKStep, ubWriteConfigStep, gfDBTInitDone,
                   gubNeedRebuildRemap, ret, table, tested, odd>>

------------------------------------------------------------------------------
(* llfAll: inheriting                                                      *)

InheritGuard ==
    /\ Busy /\ ~RdtOnly /\ Inheriting
    /\ gubLLFALLStep = "LOAD_RDT_START" /\ ubLlfStep = "INHERIT"

\* llfInherit: the defect table of the reliability test, or of the system that was
\* on the flash; or neither.  gfDBTInitDone says that one was found, which is set
\* before the last of its parts is read.
llfInherit ==
    \/ /\ ret' = "ERR_OK" /\ table' = "inherited"
       /\ \/ gfDBTInitDone' = "RDT" /\ gubNeedRebuildRemap' \in BOOLEAN
          \/ gfDBTInitDone' = "SYSTEM" /\ gubNeedRebuildRemap' = FALSE
    \/ /\ ret' = "ERR_READ_RDT" /\ gubNeedRebuildRemap' = FALSE
       /\ \/ table' = "cleared" /\ UNCHANGED gfDBTInitDone
          \/ cfg.late /\ table' = "torn" /\ gfDBTInitDone' \in {"RDT", "SYSTEM"}

\* Which modes go on without a table is decided here; so is, unless the remap table
\* is to be rebuilt, whether LlfCheckRemappingTable finds it sound.
Inherit ==
    /\ InheritGuard /\ llfInherit
    /\ \/ /\ ret' # "ERR_OK" /\ MustInherit
          /\ llfEndResponce("ERR_READ_RDT")
          /\ UNCHANGED <<gubLLFALLStep, ubLlfStep>>
       \/ /\ ~(ret' # "ERR_OK" /\ MustInherit)
          /\ gubLLFALLStep' = "INHERIT_DONE" /\ ubLlfStep' = "ERASE"
          /\ \/ UNCHANGED answer
             \/ cfg.faults /\ ~gubNeedRebuildRemap' /\ llfEndResponce("ERR_BLOCK_MAPPING")
    /\ UNCHANGED <<host, ubKStep, ubWriteConfigStep, pc, erased, firmware, tested, odd>>

\* No table was found: format.
FallBack ==
    /\ Busy /\ ~RdtOnly /\ Inheriting
    /\ gubLLFALLStep \in {"LOAD_RDT_START", "INHERIT_DONE"} /\ ubLlfStep # "INHERIT"
    /\ gfDBTInitDone = "NONE"
    /\ gubLLFALLStep' = "FORMAT_INIT"
    /\ pc' = IF resState = "ERASE" THEN "task" ELSE "assert"
    /\ UNCHANGED <<host, answer, ubKStep, ubLlfStep, ubWriteConfigStep, gfDBTInitDone,
                   gubNeedRebuildRemap, ret, flash>>

------------------------------------------------------------------------------
(* llfAll: formatting                                                      *)

FormatInit ==
    /\ Busy /\ ~RdtOnly /\ gubLLFALLStep = "FORMAT_INIT"
    /\ table' = "cleared"
    /\ gfDBTInitDone' = "INIT" /\ gubLLFALLStep' = "FORMAT_START"
    /\ UNCHANGED <<host, answer, ubKStep, ubLlfStep, ubWriteConfigStep, gubNeedRebuildRemap,
                   pc, ret, erased, firmware, tested, odd>>

FormatGuard ==
    /\ Busy /\ ~RdtOnly /\ gubLLFALLStep = "FORMAT_START"
    /\ gubLLFMode # "FORMAT_ERASE_NONDEFECT"

\* What is erased after a slice of the erase loop.
Erasing(done) ==
    /\ erased' = IF done THEN "all" ELSE "part"
    /\ firmware' = IF done THEN "erased" ELSE "torn"

\* llfEraseThenCheck, the erase loop: it ends, it pauses, or a completion is missing.
EraseSlice ==
    /\ FormatGuard /\ resState \in {"ERASE", "ERASE_CT"}
    /\ \/ Erasing(TRUE) /\ resState' = "BUILD_DBT" /\ resErr' = "ERR_OK"
          /\ UNCHANGED <<answers, ulWorkFunc>>
       \/ Erasing(FALSE) /\ resState' = "ERASE_CT" /\ resErr' = "ERR_OK"
          /\ UNCHANGED <<answers, ulWorkFunc>>
       \/ cfg.faults /\ Erasing(FALSE) /\ llfEndResponce("ERR_FIO_TIMEOUT")
    /\ UNCHANGED <<host, control, pc, ret, table, tested, odd>>

\* llfAPBuildDBT in BE_LLF_ALL: the marks of the vendor are read of every block.
BuildDBT ==
    /\ FormatGuard /\ resState \in {"BUILD_DBT", "EXECUTE"}
    /\ \/ /\ gfDBTInitDone' = "FACTORY" /\ table' = "scanned"
          /\ resState' = "WRITE_FW" /\ resErr' = "ERR_OK" /\ ulWorkFunc' = "NONE"
          /\ UNCHANGED answers
       \/ cfg.faults /\ llfEndResponce("ERR_ALLOCATE_DBT") /\ UNCHANGED <<gfDBTInitDone, table>>
    /\ UNCHANGED <<host, gubLLFALLStep, ubKStep, ubLlfStep, ubWriteConfigStep,
                   gubNeedRebuildRemap, pc, ret, erased, firmware, tested, odd>>

\* ASSERT(LLF_MSG, 0): no step goes with res_state.
FormatAssert ==
    /\ FormatGuard /\ resState = "START"
    /\ pc' = "assert"
    /\ UNCHANGED <<host, answer, control, ret, flash>>

\* llfCheckThenErase, the loop around llfAPBuildDBT: a scan that succeeds leaves
\* res_state at ERASE.
ScanFirst ==
    /\ Busy /\ ~RdtOnly /\ gubLLFALLStep = "FORMAT_START"
    /\ gubLLFMode = "FORMAT_ERASE_NONDEFECT" /\ ubLlfStep = "INHERIT"
    /\ pc' = "scan"
    /\ UNCHANGED <<host, answer, control, ret, flash>>

ScanAgain ==
    /\ pc = "scan" /\ resState # "IDLE"
    /\ \/ /\ gfDBTInitDone' = "FACTORY" /\ table' = "scanned" /\ odd' = ~odd
          /\ resState' = "ERASE" /\ resErr' = "ERR_OK" /\ ulWorkFunc' = "NONE"
          /\ UNCHANGED answers
       \/ cfg.faults /\ llfEndResponce("ERR_ALLOCATE_DBT") /\ UNCHANGED <<gfDBTInitDone, table, odd>>
    /\ UNCHANGED <<host, gubLLFALLStep, ubKStep, ubLlfStep, ubWriteConfigStep,
                   gubNeedRebuildRemap, pc, ret, erased, firmware, tested>>

\* After the loop one pass of llfAPEraseAll, in state IDLE, and on to the write.
ScanThenErase ==
    /\ pc = "scan" /\ resState = "IDLE"
    /\ Erasing(FALSE)
    /\ resState' = "EXECUTE" /\ ulWorkFunc' = "WRITE_CONFIG" /\ ubLlfStep' = "EXECUTE"
    /\ pc' = "task"
    /\ UNCHANGED <<host, resErr, answers, gubLLFALLStep, ubKStep, ubWriteConfigStep,
                   gfDBTInitDone, gubNeedRebuildRemap, ret, table, tested, odd>>

------------------------------------------------------------------------------
(* llfAPExecuteLLF and llfWriteConfig                                      *)

\* A table was inherited: the defects are not looked for again.
HasTable == gfDBTInitDone # "NONE"

FindsTable ==
    /\ Busy /\ ~RdtOnly /\ Inheriting /\ ubLlfStep # "INHERIT" /\ HasTable
    /\ gubLLFALLStep \in {"LOAD_RDT_START", "INHERIT_DONE"}

ExecuteGuard ==
    /\ Busy
    /\ \/ RdtOnly /\ ubLlfStep = "EXECUTE"
       \/ FindsTable
       \/ FormatGuard /\ resState = "WRITE_FW"
       \/ /\ ~RdtOnly /\ gubLLFALLStep = "FORMAT_START"
          /\ gubLLFMode = "FORMAT_ERASE_NONDEFECT" /\ ubLlfStep # "INHERIT"

WriteFunc == ubWriteConfigStep = "INIT" \/ ulWorkFunc = "WRITE_CONFIG"

\* The steps of an earlier command are still there, its ulWorkFunc is not.
Stranded == ExecuteGuard /\ ~WriteFunc

\* llfAPExecuteLLF then does nothing: no answer, and no step is reset.  With a table
\* llfAll has set res_state before.
NothingToWrite ==
    /\ Stranded
    /\ resState' = IF FindsTable THEN "WRITE_FW" ELSE resState
    /\ UNCHANGED <<host, resErr, answers, ulWorkFunc, control, pc, ret, flash>>

PrepareErrors == {"ERR_READ_SBLK", "ERR_BLOCK_MAPPING", "ERR_UNENOUGH_USER_NOSLC"}

\* Mutant: the step is not advanced.
StepAfterPrepare_Same == "INIT"

StepAfterPrepare == "ERASE"

\* llfWriteConfig, step INIT: system blocks are chosen, the remap table is made, the
\* good blocks are counted against the capacity (ERR_READ_DBT: after counting).
WritePrepare ==
    /\ ExecuteGuard /\ ubWriteConfigStep = "INIT"
    /\ ulWorkFunc' = "WRITE_CONFIG" /\ resErr' = "ERR_OK"
    /\ \/ /\ ~cfg.scanOnly
          /\ ubWriteConfigStep' = StepAfterPrepare /\ resState' = "WRITE_FW"
          /\ UNCHANGED <<pc, ret>>
       \/ /\ \/ cfg.scanOnly /\ ret' = "ERR_READ_DBT"
             \/ cfg.faults /\ ret' \in PrepareErrors
          /\ resState' = "EXECUTE" /\ pc' = "finish"
          /\ UNCHANGED ubWriteConfigStep
    /\ UNCHANGED <<host, answers, gubLLFALLStep, ubKStep, ubLlfStep, gfDBTInitDone,
                   gubNeedRebuildRemap, flash>>

Inherited == gfDBTInitDone \in {"RDT", "SYSTEM"}

WriteGuard == ExecuteGuard /\ WriteFunc /\ ubWriteConfigStep = "ERASE"

\* Mutant: the erase is not done before the step goes on.
ErasePauses_Not == TRUE

ErasePauses == FALSE

\* llfWriteConfig, step ERASE, with an inherited table: the erase loop pauses, or it
\* ends and the call goes on to write.
WriteErase ==
    /\ WriteGuard /\ Inherited
    /\ ubLlfStep' = "EXECUTE" /\ resErr' = "ERR_OK"
    /\ IF ubLlfStep = "ERASE" \/ erased = "part"
       THEN \E done \in BOOLEAN :
                /\ Erasing(done)
                /\ pc' = IF done \/ ErasePauses THEN "write" ELSE "task"
                /\ resState' = IF done THEN "BUILD_DBT" ELSE "WRITE_FW"
       ELSE pc' = "write" /\ resState' = "BUILD_DBT" /\ UNCHANGED <<erased, firmware>>
    /\ UNCHANGED <<host, answers, ulWorkFunc, gubLLFALLStep, ubKStep, ubWriteConfigStep,
                   gfDBTInitDone, gubNeedRebuildRemap, ret, table, tested, odd>>

\* llfWriteConfig, the rest of step ERASE: llfCheckDefectThresholdAgain, llfGetSBlk
\* (in the modes that must inherit), SandiskResetFlash, llfReadOffsetSetting; then
\* llfWriteSBlk, llfSetSblkToDBT, llfWriteSysGroup and llfCheckSblock.
WriteBlocks ==
    /\ pc = "write" \/ (WriteGuard /\ ~Inherited)
    /\ \/ /\ firmware' = "new" /\ ubWriteConfigStep' = "OVER"
          /\ pc' = "task" /\ UNCHANGED ret
       \/ /\ cfg.faults
          /\ firmware' \in {firmware, "torn"} /\ firmware' # "new"
          /\ ret' \in WriteErrors
          /\ pc' = "finish" /\ UNCHANGED ubWriteConfigStep
    /\ UNCHANGED <<host, answer, gubLLFALLStep, ubKStep, ubLlfStep, gfDBTInitDone,
                   gubNeedRebuildRemap, erased, table, tested, odd>>

\* Mutant: system blocks that fail the test are left as they are.
Withdrawn_Kept == {firmware}

\* llfEraseSblk, whose result is ignored: it stops at the first block it cannot erase,
\* and the copies after it are left ("stuck").
Withdrawn == {"erased", "stuck"}

\* repeated_WriteReadCache (passed without a test when the configuration says 0xFFFF).
CacheTest ==
    /\ ExecuteGuard /\ WriteFunc /\ ubWriteConfigStep = "OVER"
    /\ \/ tested' = TRUE /\ ret' = "ERR_OK" /\ UNCHANGED firmware
       \/ cfg.faults /\ firmware' \in Withdrawn /\ ret' = "ERR_MULTI_WR_CACHE_TEST" /\ UNCHANGED tested
    /\ pc' = "finish"
    /\ UNCHANGED <<host, answer, control, erased, table, odd>>

EarlyErrors == {"ERR_SBLK_BAD_DETECT", "ERR_CONTROLLER_OVER_TEMPERATURE"}

\* The system window was shifted, or the controller is hot: llfAPExecuteLLF sets the
\* response and returns; no message is posted and no step is reset.
EarlyReturn ==
    /\ pc = "finish" /\ pc' = "task"
    /\ resState' = "IDLE" /\ resErr' \in EarlyErrors
    /\ UNCHANGED <<host, answers, ulWorkFunc, control, ret, flash>>

\* Mutant: every error is turned to ERR_OK.
TurnedOver_All(err) == "ERR_OK"

TurnedOver(err) == IF err = "ERR_READ_DBT" THEN "ERR_OK" ELSE err

EndExecute ==
    /\ pc = "finish" /\ pc' = "task"
    /\ llfEndResponce(TurnedOver(ret))
    /\ gfDBTInitDone' = "NONE" /\ gubLLFALLStep' = "CALIBRATE"
    /\ UNCHANGED <<host, ubKStep, ubLlfStep, ubWriteConfigStep, gubNeedRebuildRemap, ret,
                   flash>>

------------------------------------------------------------------------------
Init ==
    /\ cfg \in Configs /\ subcmd = "INIT" /\ commands = 0 /\ inited = "never"
    /\ resState = "IDLE" /\ resErr = "ERR_OK" /\ answers = 1 /\ ulWorkFunc = "NONE"
    /\ gubLLFALLStep = "CALIBRATE" /\ ubKStep = "INIT" /\ ubLlfStep = "INHERIT"
    /\ ubWriteConfigStep = "INIT" /\ gfDBTInitDone = "NONE" /\ gubNeedRebuildRemap = FALSE
    /\ pc = "task" /\ ret = "ERR_OK"
    /\ erased = "none" /\ table = "stale" /\ firmware = "old" /\ tested = FALSE /\ odd = FALSE

\* BE_llf_handle_UTask
UTask ==
    \/ \E ok \in BOOLEAN : llfmpInit(ok)
    \/ WrongFlash \/ CalibrateSlice \/ CalibrateFail \/ CalibrateEnd
    \/ UpdateRead \/ UpdateErase \/ UpdateWrite \/ UpdateAnswer
    \/ RdtClear \/ RdtErase \/ Inherit \/ FallBack
    \/ FormatInit \/ EraseSlice \/ BuildDBT \/ FormatAssert
    \/ ScanFirst \/ ScanAgain \/ ScanThenErase
    \/ NothingToWrite \/ WritePrepare \/ WriteErase \/ WriteBlocks
    \/ CacheTest \/ EarlyReturn \/ EndExecute

Next == SendInit \/ SendAll \/ UTask

Spec == Init /\ [][Next]_vars

\* The scheduler calls the task until it is idle.  Slices that only go on are steps
\* that change nothing: that they end is counted in the code (calibration), or shown
\* of EraseAll (EraseEnds).  So is a call of llfAPExecuteLLF that does nothing, which does
\* not end.
FairSpec == Spec /\ WF_vars(UTask)

------------------------------------------------------------------------------
Errors == {"ERR_OK", "ERR_UNKNOWN", "ERR_FLASH_VENDOR", "ERR_FLASH_CALIBRATE", "ERR_READ_RDT",
           "ERR_READ_DBT", "ERR_ERASE_BLK0", "ERR_FIO_TIMEOUT", "ERR_ALLOCATE_DBT",
           "ERR_MULTI_WR_CACHE_TEST"} \cup WriteErrors \cup PrepareErrors \cup EarlyErrors

TypeOK ==
    /\ cfg \in Configs
    /\ subcmd \in {"INIT", "ALL"} /\ commands \in 0 .. MaxCommands
    /\ inited \in {"never", "done", "used", "stale"}
    /\ resState \in {"IDLE", "START", "EXECUTE", "ERASE", "ERASE_CT", "BUILD_DBT", "WRITE_FW"}
    /\ resErr \in Errors /\ ret \in Errors /\ answers \in 0 .. 2
    /\ ulWorkFunc \in {"NONE", "CALIBRATE", "WRITE_CONFIG"}
    /\ gubLLFALLStep \in ALLSteps /\ ubKStep \in {"INIT", "START", "OVER"}
    /\ ubLlfStep \in {"INHERIT", "ERASE", "EXECUTE"}
    /\ ubWriteConfigStep \in {"INIT", "ERASE", "OVER"}
    /\ gfDBTInitDone \in {"NONE", "INIT", "RDT", "SYSTEM", "FACTORY"}
    /\ gubNeedRebuildRemap \in BOOLEAN
    /\ pc \in {"task", "updateErase", "updateWrite", "updateAnswer", "rdtErase", "scan",
               "write", "finish", "assert"}
    /\ erased \in {"none", "part", "window", "all"}
    /\ table \in {"stale", "cleared", "inherited", "torn", "scanned"}
    /\ firmware \in {"old", "torn", "erased", "stuck", "new"}
    /\ tested \in BOOLEAN /\ odd \in BOOLEAN

\* The command that was sent last is ALL, and INIT was sent right before it.
Fresh == subcmd = "ALL" /\ inited = "used"

Idle == resState = "IDLE" /\ pc = "task"

\* What the configuration asks of the command.
JobOf(c) ==
    IF c.mode = "ONLY_UPDATE_FW" /\ ~c.rdtTag THEN "update"
    ELSE IF c.scanOnly THEN "scan"
    ELSE IF c.rdtTag /\ ~c.normalEn THEN "rdt"
    ELSE "format"

\* Where every failure is followed to its end, and the image of the test is not asked to
\* scan.  What the runs with a violation show is outside.
Sound(c) ==
    /\ ~c.rdtTag => /\ c.mode # "FORMAT_ERASE_NONDEFECT"
                    /\ c.late => c.mode \notin {"INHERIT_OR_FORMAT", "ONLY_UPDATE_FW"}
    /\ c.rdtTag /\ ~c.normalEn => ~c.scanOnly

\* What the runs with a violation show: in these modes a step goes on although the
\* one before failed.
KnownDefect ==
    \/ gubLLFMode = "FORMAT_ERASE_NONDEFECT"
    \/ cfg.late /\ gubLLFMode \in {"INHERIT_OR_FORMAT", "ONLY_UPDATE_FW"}

\* All of the job: a table of the defects, the erase, the system blocks, the test.
Done ==
    CASE JobOf(cfg) = "format" -> /\ table \in {"inherited", "scanned"} /\ erased = "all"
                                  /\ firmware = "new" /\ tested
      [] JobOf(cfg) = "rdt"    -> erased = "window" /\ firmware = "new" /\ tested
      [] JobOf(cfg) = "update" -> table = "inherited" /\ erased = "window" /\ firmware = "new"
      [] OTHER                 -> TRUE

\* A command that reports success has done all of its job (the ERR_OK of
\* llfAPExecuteLLF).  None of the ways a step is left and taken up again skips a part.
OkMeansFormatted == Fresh /\ Idle /\ resErr = "ERR_OK" /\ ~KnownDefect => Done

\* A command that reports an error leaves no system blocks to start from that were not
\* tested: a failure after llfWriteSBlk has completed them takes them away again
\* (llfAPExecuteLLF, llfEraseSblk), or as many of them as llfEraseSblk reaches before
\* a block it cannot erase.
NoUntestedImage ==
    Fresh /\ Idle /\ resErr # "ERR_OK" /\ firmware = "new" => tested

\* The host gets one message for a command, whatever way it ends; none after the early
\* returns of llfAPExecuteLLF (llf.c:12163, 12187), two when an update fails after the
\* calibration (llf.c:6050, 16480).
AnswerOnce ==
    Idle /\ Fresh /\ gubLLFMode # "FORMAT_ERASE_NONDEFECT" =>
        answers = CASE resErr \in EarlyErrors -> 0
                    [] gubLLFMode = "ONLY_UPDATE_FW" /\
                       resErr \in WriteErrors \cup {"ERR_READ_DBT", "ERR_ERASE_BLK0"} -> 2
                    [] OTHER -> 1

\* The assertions on what a step finds hold: on res_state (llf.c:16552, 16044) when INIT
\* was sent, and that a table found by the inheriting modes was inherited (llf.c:16546)
\* in every order of the commands.
AssertsHold ==
    /\ Fresh => pc # "assert"
    /\ FindsTable => Inherited

\* A command that must inherit never formats instead, whatever is missing on the flash:
\* if the whole flash is to be erased, it is by an inherited table.
ForceInheritNeverFormats ==
    Fresh /\ cfg.mode \in {"FORCE_INHERIT", "DEFECT_BAD_BLOCK"} /\ ~cfg.rdtTag =>
        /\ gubLLFALLStep \notin {"FORMAT_INIT", "FORMAT_START"}
        /\ erased # "none" => table = "inherited"

\* llf.c:16543: "we already have DBT, so we do NOT need to check defect again".
WeAlreadyHaveDBT ==
    Fresh /\ Inheriting /\ gubLLFALLStep = "INHERIT_DONE" /\ HasTable => table = "inherited"

\* llf_public_com.h:38, LLF_FORMAT_ERASE_NONDEFECT: "read defect mark then do erase".
ReadDefectMarkThenErase == pc = "scan" /\ table = "scanned" ~> erased # "none"

\* A command that follows its INIT ends, and so does any other, but for two ways it may
\* be caught in the steps that were left: at an assertion, or in an llfAPExecuteLLF that
\* does nothing and is called again for ever (llf.c:12082).  (How the scan of mode 3 does
\* not end is what the run of ReadDefectMarkThenErase shows.)
CommandEnds ==
    subcmd = "ALL" /\ ~Idle ~>
        Idle \/ pc = "scan" \/ (inited # "used" /\ (pc = "assert" \/ Stranded))

Command == INSTANCE LlfCommand WITH
    Jobs  <- {"format", "update", "scan", "rdt"},
    job   <- JobOf(cfg),
    phase <- IF subcmd = "ALL" /\ ~Idle THEN "working" ELSE "idle",
    reply <- IF subcmd = "ALL" /\ Idle THEN (IF resErr = "ERR_OK" THEN "ok" ELSE "error")
                                       ELSE "none"

\* The steps of llfAll do what is promised of the command.
KeepsPromise == Command!Spec
=============================================================================
