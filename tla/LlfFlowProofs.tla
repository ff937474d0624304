--------------------------- MODULE LlfFlowProofs ---------------------------
(***************************************************************************)
(* Theorems about LlfFlow, for every set of configurations and any number  *)
(* of commands.  FlowInv is the inductive invariant; most of it says, step *)
(* by step, what a command that follows its INIT has done so far.          *)
(***************************************************************************)
EXTENDS LlfFlow, TLAPS

\* While a command works nothing was posted; only the scan of mode 3 posts and goes on.
AnswerInv ==
    /\ pc \in {"updateErase", "updateWrite", "updateAnswer", "rdtErase", "write", "finish"}
         => resState # "IDLE"
    /\ pc \in {"updateErase", "updateWrite", "updateAnswer"}
         => gubLLFMode = "ONLY_UPDATE_FW"
    /\ pc = "scan" => gubLLFALLStep = "FORMAT_START" /\ gubLLFMode = "FORMAT_ERASE_NONDEFECT"
    /\ pc = "scan" /\ resState = "IDLE" => answers = 1
    /\ resState # "IDLE" =>
         \/ answers = 0
         \/ /\ answers = 1 /\ gubLLFMode = "FORMAT_ERASE_NONDEFECT"
            /\ gubLLFALLStep = "FORMAT_START" /\ ubLlfStep # "INHERIT"
            /\ pc \in {"task", "write", "finish"}
    /\ gfDBTInitDone \in {"INIT", "FACTORY"} => gubLLFALLStep = "FORMAT_START"

\* INIT has set every step to its first.
InitedInv ==
    inited = "done" =>
        /\ resState = "IDLE" /\ resErr = "ERR_OK" /\ pc = "task"
        /\ gubLLFALLStep = "CALIBRATE" /\ ubKStep = "INIT" /\ ubLlfStep = "INHERIT"
        /\ ubWriteConfigStep = "INIT" /\ gfDBTInitDone = "NONE"

NotWritten == firmware # "new" /\ tested = FALSE

Untouched == erased = "none" /\ NotWritten

AtTask == Fresh /\ pc = "task" /\ resState # "IDLE"

CalibrateInv ==
    AtTask /\ gubLLFALLStep = "CALIBRATE" =>
        /\ Untouched /\ resErr = "ERR_OK"
        /\ ubLlfStep = "INHERIT" /\ ubWriteConfigStep = "INIT" /\ gfDBTInitDone = "NONE"

UpdateInv ==
    /\ Fresh /\ pc = "updateErase" =>
         /\ Untouched /\ ret \in {"ERR_OK", "ERR_READ_DBT", "ERR_READ_SBLK"}
         /\ ret = "ERR_OK" => table = "inherited"
         /\ ret = "ERR_READ_SBLK" => cfg.late
    /\ Fresh /\ pc = "updateWrite" =>
         /\ NotWritten /\ erased = "window" /\ ret \in {"ERR_OK", "ERR_ERASE_BLK0"}
         /\ table = "inherited" \/ cfg.late
    /\ Fresh /\ pc = "updateAnswer" =>
         /\ ret \in {"ERR_OK", "ERR_READ_DBT", "ERR_ERASE_BLK0"} \cup WriteErrors
         /\ IF ret = "ERR_OK"
            THEN firmware = "new" /\ erased = "window" /\ (table = "inherited" \/ cfg.late)
            ELSE firmware # "new"

RdtInv ==
    /\ Fresh /\ pc = "rdtErase" =>
         /\ RdtOnly /\ Untouched
         /\ gubLLFALLStep = "FORMAT_INIT" /\ ubWriteConfigStep = "INIT"
         /\ gfDBTInitDone = "NONE"
    /\ AtTask /\ RdtOnly /\ gubLLFALLStep # "CALIBRATE" =>
         /\ gubLLFALLStep = "FORMAT_INIT" /\ gfDBTInitDone = "NONE"
         /\ ubLlfStep = "INHERIT" => Untouched /\ ubWriteConfigStep = "INIT"
         /\ ubLlfStep # "INHERIT" => ubLlfStep = "EXECUTE" /\ erased = "window"

\* Writing, the erase aside: the steps of llfWriteConfig.
WriteInv ==
    AtTask =>
        /\ ubWriteConfigStep # "INIT" => ulWorkFunc = "WRITE_CONFIG" /\ ~cfg.scanOnly
        /\ IF ubWriteConfigStep = "OVER" THEN firmware = "new" /\ tested = FALSE ELSE NotWritten

LoadInv ==
    AtTask /\ gubLLFALLStep = "LOAD_RDT_START" =>
        /\ Inheriting /\ Untouched /\ resState = "ERASE"
        /\ ubLlfStep = "INHERIT" /\ ubWriteConfigStep = "INIT" /\ gfDBTInitDone = "NONE"

\* The table is whole, but for a fault in mode 0.
SoundTable == MustInherit \/ ~cfg.late => table = "inherited"

InheritInv ==
    AtTask /\ gubLLFALLStep = "INHERIT_DONE" =>
        /\ Inheriting
        /\ gfDBTInitDone = "NONE" =>
             /\ ~MustInherit /\ Untouched /\ resState = "ERASE"
             /\ ubLlfStep = "ERASE" /\ ubWriteConfigStep = "INIT"
        /\ gfDBTInitDone # "NONE" =>
             /\ SoundTable
             /\ ubWriteConfigStep = "INIT" => ubLlfStep = "ERASE" /\ erased = "none"
             /\ ubWriteConfigStep = "ERASE" =>
                  \/ ubLlfStep = "ERASE" /\ erased = "none"
                  \/ ubLlfStep = "EXECUTE" /\ erased = "part"
             /\ ubWriteConfigStep = "OVER" => erased = "all"

EraseDoneInv ==
    Fresh /\ pc = "write" =>
        /\ gubLLFALLStep = "INHERIT_DONE" /\ Inheriting /\ Inherited /\ ubWriteConfigStep = "ERASE"
        /\ ulWorkFunc = "WRITE_CONFIG" /\ ~cfg.scanOnly
        /\ SoundTable /\ NotWritten /\ erased = "all"

Formats == {"INHERIT_OR_FORMAT", "FORCE_FORMAT", "FORMAT_ERASE_NONDEFECT"}

FormatInv ==
    /\ AtTask /\ ~RdtOnly /\ gubLLFALLStep = "FORMAT_INIT" =>
         /\ gubLLFMode \in Formats /\ Untouched /\ ubWriteConfigStep = "INIT"
         /\ IF gubLLFMode = "FORMAT_ERASE_NONDEFECT"
            THEN ubLlfStep = "INHERIT" ELSE resState = "ERASE"
    /\ AtTask /\ gubLLFALLStep = "FORMAT_START" =>
         /\ ~RdtOnly /\ gubLLFMode \in Formats /\ gfDBTInitDone \in {"INIT", "FACTORY"}
         /\ IF gubLLFMode = "FORMAT_ERASE_NONDEFECT"
            THEN ubLlfStep = "INHERIT" => ubWriteConfigStep = "INIT"
            ELSE /\ resState \in {"ERASE", "ERASE_CT", "BUILD_DBT", "WRITE_FW"}
                 /\ resState # "WRITE_FW" => ubWriteConfigStep = "INIT"
                 /\ resState = "BUILD_DBT" => erased = "all"
                 /\ resState = "WRITE_FW" => erased = "all" /\ table = "scanned"
    /\ Fresh /\ pc = "scan" => ~RdtOnly /\ NotWritten /\ ubWriteConfigStep = "INIT"
                               /\ gfDBTInitDone \in {"INIT", "FACTORY"}

FinishInv ==
    Fresh /\ pc = "finish" =>
        /\ gubLLFMode # "ONLY_UPDATE_FW"
        /\ ret \in {"ERR_OK", "ERR_READ_DBT", "ERR_MULTI_WR_CACHE_TEST"} \cup PrepareErrors \cup WriteErrors
        /\ firmware = "new" => tested
        /\ ret = "ERR_READ_DBT" => cfg.scanOnly
        /\ ret = "ERR_OK" /\ ~KnownDefect => Done

FreshInv ==
    /\ CalibrateInv /\ UpdateInv /\ RdtInv /\ WriteInv /\ LoadInv /\ InheritInv
    /\ EraseDoneInv /\ FormatInv /\ FinishInv

Results ==
    /\ OkMeansFormatted /\ NoUntestedImage /\ AnswerOnce /\ AssertsHold
    /\ ForceInheritNeverFormats

FlowInv == TypeOK /\ AnswerInv /\ InitedInv /\ FreshInv /\ Results

\* What the end of llfAPExecuteLLF knows of an error that it turns to ERR_OK.
LEMMA Finishing ==
    FlowInv /\ Fresh /\ pc = "finish" =>
        /\ gubLLFMode # "ONLY_UPDATE_FW"
        /\ ret = "ERR_READ_DBT" => cfg.scanOnly
  BY DEF FlowInv, FreshInv, FinishInv

\* The job of a configuration that only scans.
LEMMA ScanJob ==
  ASSUME cfg.scanOnly, gubLLFMode # "ONLY_UPDATE_FW"
  PROVE  JobOf(cfg) = "scan"
<1>1. ~(cfg.mode = "ONLY_UPDATE_FW" /\ ~cfg.rdtTag)
  <2>1. CASE cfg.rdtTag BY <2>1
  <2>2. CASE ~cfg.rdtTag BY <2>2 DEF gubLLFMode
  <2>3. QED BY <2>1, <2>2
<1>2. QED BY <1>1 DEF JobOf

\* Every variable keeps its type.
LEMMA StepType == FlowInv /\ [Next]_vars => TypeOK'
<1> SUFFICES ASSUME FlowInv, [Next]_vars PROVE TypeOK'
  OBVIOUS
<1> USE DEF FlowInv, FreshInv, TypeOK, AnswerInv, InitedInv, ALLSteps, Errors, WriteErrors,
          PrepareErrors, EarlyErrors, CalibrateGuard, Busy, ExecuteGuard, FindsTable,
          FormatGuard, HasTable, WriteGuard, WriteFunc, llfEndResponce, RdtOnly, Inheriting,
          host, answer, control, flash, gubLLFMode
<1>1. CASE SendInit
  BY <1>1, FlowAssumption DEF SendInit
<1>2. CASE SendAll
  <2>1. commands' \in 0 .. MaxCommands BY <1>2, FlowAssumption DEF SendAll
  <2>2. inited' \in {"never", "done", "used", "stale"} BY <1>2 DEF SendAll
  <2>3. firmware' \in {"old", "torn", "erased", "stuck", "new"}
    <3>1. CASE firmware = "new" BY <1>2, <3>1 DEF SendAll
    <3>2. CASE firmware # "new" BY <1>2, <3>2 DEF SendAll
    <3>3. QED BY <3>1, <3>2
  <2>4. tested' \in BOOLEAN /\ odd' \in BOOLEAN BY <1>2, Zenon DEF SendAll
  <2>5. QED BY <1>2, <2>1, <2>2, <2>3, <2>4 DEF SendAll
<1>3. CASE \E ok \in BOOLEAN : llfmpInit(ok)
  <2> PICK ok \in BOOLEAN : llfmpInit(ok) BY <1>3
  <2>1. CASE ok = TRUE
    <3>1. gubNeedRebuildRemap' \in BOOLEAN BY <2>1 DEF llfmpInit
    <3>2. QED BY <2>1, <3>1 DEF llfmpInit
  <2>2. CASE ok = FALSE
    <3>1. gubNeedRebuildRemap' \in BOOLEAN BY <2>2 DEF llfmpInit
    <3>2. QED BY <2>2, <3>1 DEF llfmpInit
  <2>3. QED BY <2>1, <2>2
<1>4. CASE WrongFlash BY <1>4 DEF WrongFlash
<1>5. CASE CalibrateSlice BY <1>5 DEF CalibrateSlice
<1>6. CASE CalibrateFail BY <1>6 DEF CalibrateFail
<1>7. CASE CalibrateEnd BY <1>7 DEF CalibrateEnd, StateAfterCalibrate
<1>8. CASE UpdateRead BY <1>8 DEF UpdateRead
<1>9. CASE UpdateErase BY <1>9 DEF UpdateErase, UpdateReady
<1>10. CASE UpdateWrite BY <1>10 DEF UpdateWrite
<1>11. CASE UpdateAnswer BY <1>11 DEF UpdateAnswer
<1>12. CASE RdtClear BY <1>12 DEF RdtClear
<1>13. CASE RdtErase BY <1>13 DEF RdtErase
<1>14. CASE Inherit
  <2>1. gubNeedRebuildRemap' \in BOOLEAN BY <1>14 DEF Inherit, llfInherit
  <2>2. ret' \in Errors /\ table' \in {"stale", "cleared", "inherited", "torn", "scanned"}
    BY <1>14 DEF Inherit, llfInherit
  <2>3. gfDBTInitDone' \in {"NONE", "INIT", "RDT", "SYSTEM", "FACTORY"}
    BY <1>14 DEF Inherit, llfInherit
  <2>4. resState' \in {"IDLE", "ERASE", "START", "EXECUTE", "ERASE_CT", "BUILD_DBT", "WRITE_FW"}
        /\ resErr' \in Errors /\ answers' \in 0 .. 2
        /\ ulWorkFunc' \in {"NONE", "CALIBRATE", "WRITE_CONFIG"}
    BY <1>14 DEF Inherit, InheritGuard
  <2>5. gubLLFALLStep' \in ALLSteps /\ ubLlfStep' \in {"INHERIT", "ERASE", "EXECUTE"}
    BY <1>14 DEF Inherit
  <2>6. QED BY <1>14, <2>1, <2>2, <2>3, <2>4, <2>5 DEF Inherit
<1>15. CASE FallBack BY <1>15 DEF FallBack
<1>16. CASE FormatInit BY <1>16 DEF FormatInit
<1>17. CASE EraseSlice BY <1>17 DEF EraseSlice, Erasing
<1>18. CASE BuildDBT BY <1>18 DEF BuildDBT
<1>19. CASE FormatAssert BY <1>19 DEF FormatAssert
<1>20. CASE ScanFirst BY <1>20 DEF ScanFirst
<1>21. CASE ScanAgain
  <2>1. odd' \in BOOLEAN BY <1>21 DEF ScanAgain
  <2>2. QED BY <1>21, <2>1 DEF ScanAgain
<1>22. CASE ScanThenErase BY <1>22 DEF ScanThenErase, Erasing
<1>23. CASE NothingToWrite BY <1>23 DEF NothingToWrite
<1>24. CASE WritePrepare BY <1>24 DEF WritePrepare, StepAfterPrepare
<1>25. CASE WriteErase BY <1>25 DEF WriteErase, Inherited, Erasing, ErasePauses
<1>26. CASE WriteBlocks BY <1>26 DEF WriteBlocks, Inherited
<1>27. CASE CacheTest
  <2>1. tested' \in BOOLEAN BY <1>27 DEF CacheTest
  <2>2. QED BY <1>27, <2>1 DEF CacheTest, Withdrawn
<1>28. CASE EarlyReturn BY <1>28 DEF EarlyReturn
<1>29. CASE EndExecute BY <1>29 DEF EndExecute, TurnedOver
<1>30. CASE UNCHANGED vars BY <1>30 DEF vars
<1> QED
  BY <1>1, <1>2, <1>3, <1>4, <1>5, <1>6, <1>7, <1>8, <1>9, <1>10, <1>11, <1>12, <1>13, <1>14,
     <1>15, <1>16, <1>17, <1>18, <1>19, <1>20, <1>21, <1>22, <1>23, <1>24, <1>25, <1>26,
     <1>27, <1>28, <1>29, <1>30
     DEF Next, UTask

\* No message is posted while a command works.
LEMMA StepAnswer == FlowInv /\ [Next]_vars => AnswerInv'
<1> SUFFICES ASSUME FlowInv, [Next]_vars PROVE AnswerInv'
  OBVIOUS
<1> USE DEF FlowInv, FreshInv, TypeOK, AnswerInv, InitedInv, CalibrateGuard, Busy,
          ExecuteGuard, FindsTable, FormatGuard, HasTable, WriteGuard, WriteFunc,
          llfEndResponce, RdtOnly, Inheriting, host, answer, control, flash, gubLLFMode
<1>1. CASE SendInit BY <1>1 DEF SendInit
<1>2. CASE SendAll BY <1>2 DEF SendAll
<1>3. CASE \E ok \in BOOLEAN : llfmpInit(ok) BY <1>3 DEF llfmpInit
<1>4. CASE WrongFlash BY <1>4 DEF WrongFlash
<1>5. CASE CalibrateSlice BY <1>5 DEF CalibrateSlice
<1>6. CASE CalibrateFail BY <1>6 DEF CalibrateFail
<1>7. CASE CalibrateEnd BY <1>7 DEF CalibrateEnd, StateAfterCalibrate
<1>8. CASE UpdateRead BY <1>8 DEF UpdateRead
<1>9. CASE UpdateErase BY <1>9 DEF UpdateErase, UpdateReady
<1>10. CASE UpdateWrite BY <1>10 DEF UpdateWrite, WriteErrors
<1>11. CASE UpdateAnswer BY <1>11 DEF UpdateAnswer
<1>12. CASE RdtClear BY <1>12 DEF RdtClear
<1>13. CASE RdtErase BY <1>13 DEF RdtErase
<1>14. CASE Inherit BY <1>14 DEF Inherit, InheritGuard, MustInherit, llfInherit
<1>15. CASE FallBack BY <1>15 DEF FallBack
<1>16. CASE FormatInit BY <1>16 DEF FormatInit
<1>17. CASE EraseSlice BY <1>17 DEF EraseSlice, Erasing
<1>18. CASE BuildDBT BY <1>18 DEF BuildDBT
<1>19. CASE FormatAssert BY <1>19 DEF FormatAssert
<1>20. CASE ScanFirst BY <1>20 DEF ScanFirst
<1>21. CASE ScanAgain BY <1>21 DEF ScanAgain
<1>22. CASE ScanThenErase BY <1>22 DEF ScanThenErase, Erasing
<1>23. CASE NothingToWrite BY <1>23 DEF NothingToWrite
<1>24. CASE WritePrepare BY <1>24 DEF WritePrepare, StepAfterPrepare, PrepareErrors
<1>25. CASE WriteErase BY <1>25 DEF WriteErase, Inherited, Erasing, ErasePauses
<1>26. CASE WriteBlocks BY <1>26 DEF WriteBlocks, Inherited, WriteErrors
<1>27. CASE CacheTest BY <1>27 DEF CacheTest, Withdrawn
<1>28. CASE EarlyReturn BY <1>28 DEF EarlyReturn, EarlyErrors
<1>29. CASE EndExecute BY <1>29 DEF EndExecute, TurnedOver
<1>30. CASE UNCHANGED vars BY <1>30 DEF vars
<1> QED
  BY <1>1, <1>2, <1>3, <1>4, <1>5, <1>6, <1>7, <1>8, <1>9, <1>10, <1>11, <1>12, <1>13, <1>14,
     <1>15, <1>16, <1>17, <1>18, <1>19, <1>20, <1>21, <1>22, <1>23, <1>24, <1>25, <1>26,
     <1>27, <1>28, <1>29, <1>30
     DEF Next, UTask

\* Nothing but INIT itself comes between INIT and the next command.
LEMMA StepInited == FlowInv /\ [Next]_vars => InitedInv'
<1> SUFFICES ASSUME FlowInv, [Next]_vars PROVE InitedInv'
  OBVIOUS
<1> USE DEF FlowInv, FreshInv, TypeOK, AnswerInv, InitedInv, CalibrateGuard, Busy,
          ExecuteGuard, FindsTable, FormatGuard, HasTable, WriteGuard, WriteFunc,
          llfEndResponce, RdtOnly, Inheriting, host, answer, control, flash, gubLLFMode
<1>1. CASE SendInit BY <1>1 DEF SendInit
<1>2. CASE SendAll BY <1>2 DEF SendAll
<1>3. CASE \E ok \in BOOLEAN : llfmpInit(ok) BY <1>3 DEF llfmpInit
<1>4. CASE WrongFlash BY <1>4 DEF WrongFlash
<1>5. CASE CalibrateSlice BY <1>5 DEF CalibrateSlice
<1>6. CASE CalibrateFail BY <1>6 DEF CalibrateFail
<1>7. CASE CalibrateEnd BY <1>7 DEF CalibrateEnd, StateAfterCalibrate
<1>8. CASE UpdateRead BY <1>8 DEF UpdateRead
<1>9. CASE UpdateErase BY <1>9 DEF UpdateErase, UpdateReady
<1>10. CASE UpdateWrite BY <1>10 DEF UpdateWrite, WriteErrors
<1>11. CASE UpdateAnswer BY <1>11 DEF UpdateAnswer
<1>12. CASE RdtClear BY <1>12 DEF RdtClear
<1>13. CASE RdtErase BY <1>13 DEF RdtErase
<1>14. CASE Inherit BY <1>14 DEF Inherit, InheritGuard, MustInherit, llfInherit
<1>15. CASE FallBack BY <1>15 DEF FallBack
<1>16. CASE FormatInit BY <1>16 DEF FormatInit
<1>17. CASE EraseSlice BY <1>17 DEF EraseSlice, Erasing
<1>18. CASE BuildDBT BY <1>18 DEF BuildDBT
<1>19. CASE FormatAssert BY <1>19 DEF FormatAssert
<1>20. CASE ScanFirst BY <1>20 DEF ScanFirst
<1>21. CASE ScanAgain BY <1>21 DEF ScanAgain
<1>22. CASE ScanThenErase BY <1>22 DEF ScanThenErase, Erasing
<1>23. CASE NothingToWrite BY <1>23 DEF NothingToWrite
<1>24. CASE WritePrepare BY <1>24 DEF WritePrepare, StepAfterPrepare, PrepareErrors
<1>25. CASE WriteErase BY <1>25 DEF WriteErase, Inherited, Erasing, ErasePauses
<1>26. CASE WriteBlocks BY <1>26 DEF WriteBlocks, Inherited, WriteErrors
<1>27. CASE CacheTest BY <1>27 DEF CacheTest, Withdrawn
<1>28. CASE EarlyReturn BY <1>28 DEF EarlyReturn, EarlyErrors
<1>29. CASE EndExecute BY <1>29 DEF EndExecute, TurnedOver
<1>30. CASE UNCHANGED vars BY <1>30 DEF vars
<1> QED
  BY <1>1, <1>2, <1>3, <1>4, <1>5, <1>6, <1>7, <1>8, <1>9, <1>10, <1>11, <1>12, <1>13, <1>14,
     <1>15, <1>16, <1>17, <1>18, <1>19, <1>20, <1>21, <1>22, <1>23, <1>24, <1>25, <1>26,
     <1>27, <1>28, <1>29, <1>30
     DEF Next, UTask

\* The calibration changes no step but its own.
LEMMA StepCalibrate == FlowInv /\ [Next]_vars => CalibrateInv'
<1> SUFFICES ASSUME FlowInv, [Next]_vars PROVE CalibrateInv'
  OBVIOUS
<1> USE DEF FlowInv, FreshInv, TypeOK, AnswerInv, InitedInv, Fresh, AtTask, NotWritten,
          Untouched, CalibrateInv, RdtInv, EraseDoneInv, WriteInv, CalibrateGuard, Busy,
          ExecuteGuard, FindsTable, FormatGuard, HasTable, WriteGuard, WriteFunc,
          llfEndResponce, RdtOnly, Inheriting, host, answer, control, flash, gubLLFMode
<1>1. CASE SendInit BY <1>1 DEF SendInit
<1>2. CASE SendAll BY <1>2 DEF SendAll
<1>3. CASE \E ok \in BOOLEAN : llfmpInit(ok) BY <1>3 DEF llfmpInit
<1>4. CASE WrongFlash BY <1>4 DEF WrongFlash
<1>5. CASE CalibrateSlice BY <1>5 DEF CalibrateSlice
<1>6. CASE CalibrateFail BY <1>6 DEF CalibrateFail
<1>7. CASE CalibrateEnd BY <1>7 DEF CalibrateEnd, StateAfterCalibrate
<1>8. CASE UpdateRead BY <1>8 DEF UpdateRead
<1>9. CASE UpdateErase BY <1>9 DEF UpdateErase, UpdateReady
<1>10. CASE UpdateWrite BY <1>10 DEF UpdateWrite, WriteErrors
<1>11. CASE UpdateAnswer BY <1>11 DEF UpdateAnswer
<1>12. CASE RdtClear BY <1>12 DEF RdtClear
<1>13. CASE RdtErase BY <1>13 DEF RdtErase
<1>14. CASE Inherit BY <1>14 DEF Inherit, InheritGuard, MustInherit, llfInherit
<1>15. CASE FallBack BY <1>15 DEF FallBack
<1>16. CASE FormatInit BY <1>16 DEF FormatInit
<1>17. CASE EraseSlice BY <1>17 DEF EraseSlice, Erasing
<1>18. CASE BuildDBT BY <1>18 DEF BuildDBT
<1>19. CASE FormatAssert BY <1>19 DEF FormatAssert
<1>20. CASE ScanFirst BY <1>20 DEF ScanFirst
<1>21. CASE ScanAgain BY <1>21 DEF ScanAgain
<1>22. CASE ScanThenErase BY <1>22 DEF ScanThenErase, Erasing
<1>23. CASE NothingToWrite BY <1>23 DEF NothingToWrite
<1>24. CASE WritePrepare BY <1>24 DEF WritePrepare, StepAfterPrepare, PrepareErrors
<1>25. CASE WriteErase BY <1>25 DEF WriteErase, Inherited, Erasing, ErasePauses
<1>26. CASE WriteBlocks BY <1>26 DEF WriteBlocks, Inherited, WriteErrors
<1>27. CASE CacheTest BY <1>27 DEF CacheTest, Withdrawn
<1>28. CASE EarlyReturn BY <1>28 DEF EarlyReturn, EarlyErrors
<1>29. CASE EndExecute BY <1>29 DEF EndExecute, TurnedOver
<1>30. CASE UNCHANGED vars BY <1>30 DEF vars
<1> QED
  BY <1>1, <1>2, <1>3, <1>4, <1>5, <1>6, <1>7, <1>8, <1>9, <1>10, <1>11, <1>12, <1>13, <1>14,
     <1>15, <1>16, <1>17, <1>18, <1>19, <1>20, <1>21, <1>22, <1>23, <1>24, <1>25, <1>26,
     <1>27, <1>28, <1>29, <1>30
     DEF Next, UTask

\* The update of the firmware.
LEMMA StepUpdate == FlowInv /\ [Next]_vars => UpdateInv'
<1> SUFFICES ASSUME FlowInv, [Next]_vars PROVE UpdateInv'
  OBVIOUS
<1> USE DEF FlowInv, FreshInv, TypeOK, AnswerInv, InitedInv, Fresh, AtTask, NotWritten,
          Untouched, CalibrateInv, UpdateInv, UpdateReady, WriteErrors, CalibrateGuard, Busy,
          ExecuteGuard, FindsTable, FormatGuard, HasTable, WriteGuard, WriteFunc,
          llfEndResponce, RdtOnly, Inheriting, host, answer, control, flash, gubLLFMode
<1>1. CASE SendInit BY <1>1 DEF SendInit
<1>2. CASE SendAll BY <1>2 DEF SendAll
<1>3. CASE \E ok \in BOOLEAN : llfmpInit(ok) BY <1>3 DEF llfmpInit
<1>4. CASE WrongFlash BY <1>4 DEF WrongFlash
<1>5. CASE CalibrateSlice BY <1>5 DEF CalibrateSlice
<1>6. CASE CalibrateFail BY <1>6 DEF CalibrateFail
<1>7. CASE CalibrateEnd BY <1>7 DEF CalibrateEnd, StateAfterCalibrate
<1>8. CASE UpdateRead BY <1>8 DEF UpdateRead
<1>9. CASE UpdateErase BY <1>9 DEF UpdateErase
<1>10. CASE UpdateWrite BY <1>10 DEF UpdateWrite
<1>11. CASE UpdateAnswer BY <1>11 DEF UpdateAnswer
<1>12. CASE RdtClear BY <1>12 DEF RdtClear
<1>13. CASE RdtErase BY <1>13 DEF RdtErase
<1>14. CASE Inherit BY <1>14 DEF Inherit, InheritGuard, MustInherit, llfInherit
<1>15. CASE FallBack BY <1>15 DEF FallBack
<1>16. CASE FormatInit BY <1>16 DEF FormatInit
<1>17. CASE EraseSlice BY <1>17 DEF EraseSlice, Erasing
<1>18. CASE BuildDBT BY <1>18 DEF BuildDBT
<1>19. CASE FormatAssert BY <1>19 DEF FormatAssert
<1>20. CASE ScanFirst BY <1>20 DEF ScanFirst
<1>21. CASE ScanAgain BY <1>21 DEF ScanAgain
<1>22. CASE ScanThenErase BY <1>22 DEF ScanThenErase, Erasing
<1>23. CASE NothingToWrite BY <1>23 DEF NothingToWrite
<1>24. CASE WritePrepare BY <1>24 DEF WritePrepare, StepAfterPrepare, PrepareErrors
<1>25. CASE WriteErase BY <1>25 DEF WriteErase, Inherited, Erasing, ErasePauses
<1>26. CASE WriteBlocks BY <1>26 DEF WriteBlocks, Inherited
<1>27. CASE CacheTest BY <1>27 DEF CacheTest, Withdrawn
<1>28. CASE EarlyReturn BY <1>28 DEF EarlyReturn, EarlyErrors
<1>29. CASE EndExecute BY <1>29 DEF EndExecute, TurnedOver
<1>30. CASE UNCHANGED vars BY <1>30 DEF vars
<1> QED
  BY <1>1, <1>2, <1>3, <1>4, <1>5, <1>6, <1>7, <1>8, <1>9, <1>10, <1>11, <1>12, <1>13, <1>14,
     <1>15, <1>16, <1>17, <1>18, <1>19, <1>20, <1>21, <1>22, <1>23, <1>24, <1>25, <1>26,
     <1>27, <1>28, <1>29, <1>30
     DEF Next, UTask

\* The image of the reliability test.
LEMMA StepRdt == FlowInv /\ [Next]_vars => RdtInv'
<1> SUFFICES ASSUME FlowInv, [Next]_vars PROVE RdtInv'
  OBVIOUS
<1> USE DEF FlowInv, FreshInv, TypeOK, AnswerInv, InitedInv, Fresh, AtTask, NotWritten,
          Untouched, CalibrateInv, RdtInv, LoadInv, InheritInv, FormatInv, EraseDoneInv,
          CalibrateGuard, Busy, ExecuteGuard, FindsTable, FormatGuard, HasTable, WriteGuard,
          WriteFunc, llfEndResponce, RdtOnly, Inheriting, host, answer, control, flash,
          gubLLFMode
<1>1. CASE SendInit BY <1>1 DEF SendInit
<1>2. CASE SendAll BY <1>2 DEF SendAll
<1>3. CASE \E ok \in BOOLEAN : llfmpInit(ok) BY <1>3 DEF llfmpInit
<1>4. CASE WrongFlash BY <1>4 DEF WrongFlash
<1>5. CASE CalibrateSlice BY <1>5 DEF CalibrateSlice
<1>6. CASE CalibrateFail BY <1>6 DEF CalibrateFail
<1>7. CASE CalibrateEnd BY <1>7 DEF CalibrateEnd, StateAfterCalibrate
<1>8. CASE UpdateRead BY <1>8 DEF UpdateRead
<1>9. CASE UpdateErase BY <1>9 DEF UpdateErase, UpdateReady
<1>10. CASE UpdateWrite BY <1>10 DEF UpdateWrite, WriteErrors
<1>11. CASE UpdateAnswer BY <1>11 DEF UpdateAnswer
<1>12. CASE RdtClear BY <1>12 DEF RdtClear
<1>13. CASE RdtErase BY <1>13 DEF RdtErase
<1>14. CASE Inherit BY <1>14 DEF Inherit, InheritGuard, MustInherit, llfInherit
<1>15. CASE FallBack BY <1>15 DEF FallBack
<1>16. CASE FormatInit BY <1>16 DEF FormatInit
<1>17. CASE EraseSlice BY <1>17 DEF EraseSlice, Erasing
<1>18. CASE BuildDBT BY <1>18 DEF BuildDBT
<1>19. CASE FormatAssert BY <1>19 DEF FormatAssert
<1>20. CASE ScanFirst BY <1>20 DEF ScanFirst
<1>21. CASE ScanAgain BY <1>21 DEF ScanAgain
<1>22. CASE ScanThenErase BY <1>22 DEF ScanThenErase, Erasing
<1>23. CASE NothingToWrite BY <1>23 DEF NothingToWrite
<1>24. CASE WritePrepare BY <1>24 DEF WritePrepare, StepAfterPrepare, PrepareErrors
<1>25. CASE WriteErase BY <1>25 DEF WriteErase, Inherited, Erasing, ErasePauses
<1>26. CASE WriteBlocks BY <1>26 DEF WriteBlocks, Inherited, WriteErrors
<1>27. CASE CacheTest BY <1>27 DEF CacheTest, Withdrawn
<1>28. CASE EarlyReturn BY <1>28 DEF EarlyReturn, EarlyErrors
<1>29. CASE EndExecute BY <1>29 DEF EndExecute, TurnedOver
<1>30. CASE UNCHANGED vars BY <1>30 DEF vars
<1> QED
  BY <1>1, <1>2, <1>3, <1>4, <1>5, <1>6, <1>7, <1>8, <1>9, <1>10, <1>11, <1>12, <1>13, <1>14,
     <1>15, <1>16, <1>17, <1>18, <1>19, <1>20, <1>21, <1>22, <1>23, <1>24, <1>25, <1>26,
     <1>27, <1>28, <1>29, <1>30
     DEF Next, UTask

\* System blocks are complete, and untested, exactly at step OVER.
LEMMA StepWrite == FlowInv /\ [Next]_vars => WriteInv'
<1> SUFFICES ASSUME FlowInv, [Next]_vars PROVE WriteInv'
  OBVIOUS
<1> USE DEF FlowInv, FreshInv, TypeOK, AnswerInv, InitedInv, Fresh, AtTask, NotWritten,
          Untouched, CalibrateInv, WriteInv, RdtInv, InheritInv, EraseDoneInv, FormatInv,
          LoadInv, FinishInv, CalibrateGuard, Busy, ExecuteGuard, FindsTable, FormatGuard,
          HasTable, WriteGuard, WriteFunc, llfEndResponce, RdtOnly, Inheriting, host, answer,
          control, flash, gubLLFMode
<1>1. CASE SendInit BY <1>1 DEF SendInit
<1>2. CASE SendAll BY <1>2 DEF SendAll
<1>3. CASE \E ok \in BOOLEAN : llfmpInit(ok) BY <1>3 DEF llfmpInit
<1>4. CASE WrongFlash BY <1>4 DEF WrongFlash
<1>5. CASE CalibrateSlice BY <1>5 DEF CalibrateSlice
<1>6. CASE CalibrateFail BY <1>6 DEF CalibrateFail
<1>7. CASE CalibrateEnd BY <1>7 DEF CalibrateEnd, StateAfterCalibrate
<1>8. CASE UpdateRead BY <1>8 DEF UpdateRead
<1>9. CASE UpdateErase BY <1>9 DEF UpdateErase, UpdateReady
<1>10. CASE UpdateWrite BY <1>10 DEF UpdateWrite, WriteErrors
<1>11. CASE UpdateAnswer BY <1>11 DEF UpdateAnswer
<1>12. CASE RdtClear BY <1>12 DEF RdtClear
<1>13. CASE RdtErase BY <1>13 DEF RdtErase
<1>14. CASE Inherit BY <1>14 DEF Inherit, InheritGuard, MustInherit, llfInherit
<1>15. CASE FallBack BY <1>15 DEF FallBack
<1>16. CASE FormatInit BY <1>16 DEF FormatInit
<1>17. CASE EraseSlice BY <1>17 DEF EraseSlice, Erasing
<1>18. CASE BuildDBT BY <1>18 DEF BuildDBT
<1>19. CASE FormatAssert BY <1>19 DEF FormatAssert
<1>20. CASE ScanFirst BY <1>20 DEF ScanFirst
<1>21. CASE ScanAgain BY <1>21 DEF ScanAgain
<1>22. CASE ScanThenErase BY <1>22 DEF ScanThenErase, Erasing
<1>23. CASE NothingToWrite BY <1>23 DEF NothingToWrite
<1>24. CASE WritePrepare BY <1>24 DEF WritePrepare, StepAfterPrepare, PrepareErrors
<1>25. CASE WriteErase BY <1>25 DEF WriteErase, Inherited, Erasing, ErasePauses
<1>26. CASE WriteBlocks BY <1>26 DEF WriteBlocks, Inherited, WriteErrors
<1>27. CASE CacheTest BY <1>27 DEF CacheTest, Withdrawn
<1>28. CASE EarlyReturn BY <1>28 DEF EarlyReturn, EarlyErrors
<1>29. CASE EndExecute BY <1>29 DEF EndExecute, TurnedOver
<1>30. CASE UNCHANGED vars BY <1>30 DEF vars
<1> QED
  BY <1>1, <1>2, <1>3, <1>4, <1>5, <1>6, <1>7, <1>8, <1>9, <1>10, <1>11, <1>12, <1>13, <1>14,
     <1>15, <1>16, <1>17, <1>18, <1>19, <1>20, <1>21, <1>22, <1>23, <1>24, <1>25, <1>26,
     <1>27, <1>28, <1>29, <1>30
     DEF Next, UTask

\* Nothing was done when the tables are to be loaded.
LEMMA StepLoad == FlowInv /\ [Next]_vars => LoadInv'
<1> SUFFICES ASSUME FlowInv, [Next]_vars PROVE LoadInv'
  OBVIOUS
<1> USE DEF FlowInv, FreshInv, TypeOK, AnswerInv, InitedInv, Fresh, AtTask, NotWritten,
          Untouched, CalibrateInv, LoadInv, RdtInv, EraseDoneInv, CalibrateGuard, Busy,
          ExecuteGuard, FindsTable, FormatGuard, HasTable, WriteGuard, WriteFunc,
          llfEndResponce, RdtOnly, Inheriting, host, answer, control, flash, gubLLFMode
<1>1. CASE SendInit BY <1>1 DEF SendInit
<1>2. CASE SendAll BY <1>2 DEF SendAll
<1>3. CASE \E ok \in BOOLEAN : llfmpInit(ok) BY <1>3 DEF llfmpInit
<1>4. CASE WrongFlash BY <1>4 DEF WrongFlash
<1>5. CASE CalibrateSlice BY <1>5 DEF CalibrateSlice
<1>6. CASE CalibrateFail BY <1>6 DEF CalibrateFail
<1>7. CASE CalibrateEnd BY <1>7 DEF CalibrateEnd, StateAfterCalibrate
<1>8. CASE UpdateRead BY <1>8 DEF UpdateRead
<1>9. CASE UpdateErase BY <1>9 DEF UpdateErase, UpdateReady
<1>10. CASE UpdateWrite BY <1>10 DEF UpdateWrite, WriteErrors
<1>11. CASE UpdateAnswer BY <1>11 DEF UpdateAnswer
<1>12. CASE RdtClear BY <1>12 DEF RdtClear
<1>13. CASE RdtErase BY <1>13 DEF RdtErase
<1>14. CASE Inherit BY <1>14 DEF Inherit, InheritGuard, MustInherit, llfInherit
<1>15. CASE FallBack BY <1>15 DEF FallBack
<1>16. CASE FormatInit BY <1>16 DEF FormatInit
<1>17. CASE EraseSlice BY <1>17 DEF EraseSlice, Erasing
<1>18. CASE BuildDBT BY <1>18 DEF BuildDBT
<1>19. CASE FormatAssert BY <1>19 DEF FormatAssert
<1>20. CASE ScanFirst BY <1>20 DEF ScanFirst
<1>21. CASE ScanAgain BY <1>21 DEF ScanAgain
<1>22. CASE ScanThenErase BY <1>22 DEF ScanThenErase, Erasing
<1>23. CASE NothingToWrite BY <1>23 DEF NothingToWrite
<1>24. CASE WritePrepare BY <1>24 DEF WritePrepare, StepAfterPrepare, PrepareErrors
<1>25. CASE WriteErase BY <1>25 DEF WriteErase, Inherited, Erasing, ErasePauses
<1>26. CASE WriteBlocks BY <1>26 DEF WriteBlocks, Inherited, WriteErrors
<1>27. CASE CacheTest BY <1>27 DEF CacheTest, Withdrawn
<1>28. CASE EarlyReturn BY <1>28 DEF EarlyReturn, EarlyErrors
<1>29. CASE EndExecute BY <1>29 DEF EndExecute, TurnedOver
<1>30. CASE UNCHANGED vars BY <1>30 DEF vars
<1> QED
  BY <1>1, <1>2, <1>3, <1>4, <1>5, <1>6, <1>7, <1>8, <1>9, <1>10, <1>11, <1>12, <1>13, <1>14,
     <1>15, <1>16, <1>17, <1>18, <1>19, <1>20, <1>21, <1>22, <1>23, <1>24, <1>25, <1>26,
     <1>27, <1>28, <1>29, <1>30
     DEF Next, UTask

\* The erase of an inheriting command follows its table, and ends before the write.
LEMMA StepInherit == FlowInv /\ [Next]_vars => InheritInv'
<1> SUFFICES ASSUME FlowInv, [Next]_vars PROVE InheritInv'
  OBVIOUS
<1> USE DEF FlowInv, FreshInv, TypeOK, AnswerInv, InitedInv, Fresh, AtTask, NotWritten,
          Untouched, CalibrateInv, LoadInv, InheritInv, SoundTable, MustInherit, EraseDoneInv,
          WriteInv, RdtInv, CalibrateGuard, Busy, ExecuteGuard, FindsTable, FormatGuard,
          HasTable, WriteGuard, WriteFunc, llfEndResponce, RdtOnly, Inheriting, host, answer,
          control, flash, gubLLFMode
<1>1. CASE SendInit BY <1>1 DEF SendInit
<1>2. CASE SendAll BY <1>2 DEF SendAll
<1>3. CASE \E ok \in BOOLEAN : llfmpInit(ok) BY <1>3 DEF llfmpInit
<1>4. CASE WrongFlash BY <1>4 DEF WrongFlash
<1>5. CASE CalibrateSlice BY <1>5 DEF CalibrateSlice
<1>6. CASE CalibrateFail BY <1>6 DEF CalibrateFail
<1>7. CASE CalibrateEnd BY <1>7 DEF CalibrateEnd, StateAfterCalibrate
<1>8. CASE UpdateRead BY <1>8 DEF UpdateRead
<1>9. CASE UpdateErase BY <1>9 DEF UpdateErase, UpdateReady
<1>10. CASE UpdateWrite BY <1>10 DEF UpdateWrite, WriteErrors
<1>11. CASE UpdateAnswer BY <1>11 DEF UpdateAnswer
<1>12. CASE RdtClear BY <1>12 DEF RdtClear
<1>13. CASE RdtErase BY <1>13 DEF RdtErase
<1>14. CASE Inherit BY <1>14 DEF Inherit, InheritGuard, llfInherit
<1>15. CASE FallBack BY <1>15 DEF FallBack
<1>16. CASE FormatInit BY <1>16 DEF FormatInit
<1>17. CASE EraseSlice BY <1>17 DEF EraseSlice, Erasing
<1>18. CASE BuildDBT BY <1>18 DEF BuildDBT
<1>19. CASE FormatAssert BY <1>19 DEF FormatAssert
<1>20. CASE ScanFirst BY <1>20 DEF ScanFirst
<1>21. CASE ScanAgain BY <1>21 DEF ScanAgain
<1>22. CASE ScanThenErase BY <1>22 DEF ScanThenErase, Erasing
<1>23. CASE NothingToWrite BY <1>23 DEF NothingToWrite
<1>24. CASE WritePrepare BY <1>24 DEF WritePrepare, StepAfterPrepare, PrepareErrors
<1>25. CASE WriteErase BY <1>25 DEF WriteErase, Inherited, Erasing, ErasePauses
<1>26. CASE WriteBlocks BY <1>26 DEF WriteBlocks, Inherited, WriteErrors
<1>27. CASE CacheTest BY <1>27 DEF CacheTest, Withdrawn
<1>28. CASE EarlyReturn BY <1>28 DEF EarlyReturn, EarlyErrors
<1>29. CASE EndExecute BY <1>29 DEF EndExecute, TurnedOver
<1>30. CASE UNCHANGED vars BY <1>30 DEF vars
<1> QED
  BY <1>1, <1>2, <1>3, <1>4, <1>5, <1>6, <1>7, <1>8, <1>9, <1>10, <1>11, <1>12, <1>13, <1>14,
     <1>15, <1>16, <1>17, <1>18, <1>19, <1>20, <1>21, <1>22, <1>23, <1>24, <1>25, <1>26,
     <1>27, <1>28, <1>29, <1>30
     DEF Next, UTask

\* What an inheriting command finds when its erase has ended.
LEMMA StepEraseDone == FlowInv /\ [Next]_vars => EraseDoneInv'
<1> SUFFICES ASSUME FlowInv, [Next]_vars PROVE EraseDoneInv'
  OBVIOUS
<1> USE DEF FlowInv, FreshInv, TypeOK, AnswerInv, InitedInv, Fresh, AtTask, NotWritten,
          Untouched, EraseDoneInv, LoadInv, InheritInv, SoundTable, MustInherit, Inherited,
          WriteInv, FormatInv, RdtInv, CalibrateGuard, Busy, ExecuteGuard, FindsTable,
          FormatGuard, HasTable, WriteGuard, WriteFunc, llfEndResponce, RdtOnly, Inheriting,
          host, answer, control, flash, gubLLFMode
<1>1. CASE SendInit BY <1>1 DEF SendInit
<1>2. CASE SendAll BY <1>2 DEF SendAll
<1>3. CASE \E ok \in BOOLEAN : llfmpInit(ok) BY <1>3 DEF llfmpInit
<1>4. CASE WrongFlash BY <1>4 DEF WrongFlash
<1>5. CASE CalibrateSlice BY <1>5 DEF CalibrateSlice
<1>6. CASE CalibrateFail BY <1>6 DEF CalibrateFail
<1>7. CASE CalibrateEnd BY <1>7 DEF CalibrateEnd, StateAfterCalibrate
<1>8. CASE UpdateRead BY <1>8 DEF UpdateRead
<1>9. CASE UpdateErase BY <1>9 DEF UpdateErase, UpdateReady
<1>10. CASE UpdateWrite BY <1>10 DEF UpdateWrite, WriteErrors
<1>11. CASE UpdateAnswer BY <1>11 DEF UpdateAnswer
<1>12. CASE RdtClear BY <1>12 DEF RdtClear
<1>13. CASE RdtErase BY <1>13 DEF RdtErase
<1>14. CASE Inherit BY <1>14 DEF Inherit, InheritGuard, llfInherit
<1>15. CASE FallBack BY <1>15 DEF FallBack
<1>16. CASE FormatInit BY <1>16 DEF FormatInit
<1>17. CASE EraseSlice BY <1>17 DEF EraseSlice, Erasing
<1>18. CASE BuildDBT BY <1>18 DEF BuildDBT
<1>19. CASE FormatAssert BY <1>19 DEF FormatAssert
<1>20. CASE ScanFirst BY <1>20 DEF ScanFirst
<1>21. CASE ScanAgain BY <1>21 DEF ScanAgain
<1>22. CASE ScanThenErase BY <1>22 DEF ScanThenErase, Erasing
<1>23. CASE NothingToWrite BY <1>23 DEF NothingToWrite
<1>24. CASE WritePrepare BY <1>24 DEF WritePrepare, StepAfterPrepare, PrepareErrors
<1>25. CASE WriteErase
  <2> SUFFICES ASSUME Fresh', pc' = "write"
               PROVE  EraseDoneInv'
    OBVIOUS
  <2>1. AtTask /\ Inherited /\ ubWriteConfigStep = "ERASE" BY <1>25 DEF WriteErase
  <2>2. FindsTable
    <3>1. WriteGuard BY <1>25, <2>1 DEF WriteErase
    <3>2. ~RdtOnly BY <2>1, <3>1
    <3>3. gubLLFALLStep # "FORMAT_START" BY <2>1
    <3> HIDE DEF FlowInv, FindsTable, RdtOnly
    <3>4. QED BY <3>1, <3>2, <3>3
  <2>3. gubLLFALLStep = "INHERIT_DONE" BY <2>1, <2>2
  <2>4. erased' = "all" /\ NotWritten' BY <1>25, <2>1, <2>2, <2>3 DEF WriteErase, Erasing, ErasePauses
  <2>5. ulWorkFunc = "WRITE_CONFIG" /\ ~cfg.scanOnly BY <2>1
  <2>6. SoundTable BY <2>1, <2>2, <2>3
  <2>7. QED BY <1>25, <2>1, <2>2, <2>3, <2>4, <2>5, <2>6 DEF WriteErase
<1>26. CASE WriteBlocks BY <1>26 DEF WriteBlocks, WriteErrors
<1>27. CASE CacheTest BY <1>27 DEF CacheTest, Withdrawn
<1>28. CASE EarlyReturn BY <1>28 DEF EarlyReturn, EarlyErrors
<1>29. CASE EndExecute BY <1>29 DEF EndExecute, TurnedOver
<1>30. CASE UNCHANGED vars BY <1>30 DEF vars
<1> QED
  BY <1>1, <1>2, <1>3, <1>4, <1>5, <1>6, <1>7, <1>8, <1>9, <1>10, <1>11, <1>12, <1>13, <1>14,
     <1>15, <1>16, <1>17, <1>18, <1>19, <1>20, <1>21, <1>22, <1>23, <1>24, <1>25, <1>26,
     <1>27, <1>28, <1>29, <1>30
     DEF Next, UTask

\* A format scans after its erase, and writes after its scan.
LEMMA StepFormat == FlowInv /\ [Next]_vars => FormatInv'
<1> SUFFICES ASSUME FlowInv, [Next]_vars PROVE FormatInv'
  OBVIOUS
<1> USE DEF FlowInv, FreshInv, TypeOK, AnswerInv, InitedInv, Fresh, AtTask, NotWritten,
          Untouched, FormatInv, Formats, CalibrateInv, InheritInv, LoadInv, MustInherit,
          RdtInv, WriteInv, EraseDoneInv, CalibrateGuard, Busy, ExecuteGuard, FindsTable,
          FormatGuard, HasTable, WriteGuard, WriteFunc, llfEndResponce, RdtOnly, Inheriting,
          host, answer, control, flash, gubLLFMode
<1>1. CASE SendInit BY <1>1 DEF SendInit
<1>2. CASE SendAll BY <1>2 DEF SendAll
<1>3. CASE \E ok \in BOOLEAN : llfmpInit(ok) BY <1>3 DEF llfmpInit
<1>4. CASE WrongFlash BY <1>4 DEF WrongFlash
<1>5. CASE CalibrateSlice BY <1>5 DEF CalibrateSlice
<1>6. CASE CalibrateFail BY <1>6 DEF CalibrateFail
<1>7. CASE CalibrateEnd
  <2>1. gubLLFMode \in Modes BY FlowAssumption DEF Config, Modes
  <2>2. QED BY <1>7, <2>1 DEF CalibrateEnd, StateAfterCalibrate, Modes
<1>8. CASE UpdateRead BY <1>8 DEF UpdateRead
<1>9. CASE UpdateErase BY <1>9 DEF UpdateErase, UpdateReady
<1>10. CASE UpdateWrite BY <1>10 DEF UpdateWrite, WriteErrors
<1>11. CASE UpdateAnswer BY <1>11 DEF UpdateAnswer
<1>12. CASE RdtClear BY <1>12 DEF RdtClear
<1>13. CASE RdtErase BY <1>13 DEF RdtErase
<1>14. CASE Inherit BY <1>14 DEF Inherit, InheritGuard, llfInherit
<1>15. CASE FallBack BY <1>15 DEF FallBack
<1>16. CASE FormatInit BY <1>16 DEF FormatInit
<1>17. CASE EraseSlice BY <1>17 DEF EraseSlice, Erasing
<1>18. CASE BuildDBT BY <1>18 DEF BuildDBT
<1>19. CASE FormatAssert BY <1>19 DEF FormatAssert
<1>20. CASE ScanFirst BY <1>20 DEF ScanFirst
<1>21. CASE ScanAgain BY <1>21 DEF ScanAgain
<1>22. CASE ScanThenErase BY <1>22 DEF ScanThenErase, Erasing
<1>23. CASE NothingToWrite BY <1>23 DEF NothingToWrite
<1>24. CASE WritePrepare BY <1>24 DEF WritePrepare, StepAfterPrepare, PrepareErrors
<1>25. CASE WriteErase BY <1>25 DEF WriteErase, Inherited, Erasing, ErasePauses
<1>26. CASE WriteBlocks BY <1>26 DEF WriteBlocks, Inherited, WriteErrors
<1>27. CASE CacheTest BY <1>27 DEF CacheTest, Withdrawn
<1>28. CASE EarlyReturn BY <1>28 DEF EarlyReturn, EarlyErrors
<1>29. CASE EndExecute BY <1>29 DEF EndExecute, TurnedOver
<1>30. CASE UNCHANGED vars BY <1>30 DEF vars
<1> QED
  BY <1>1, <1>2, <1>3, <1>4, <1>5, <1>6, <1>7, <1>8, <1>9, <1>10, <1>11, <1>12, <1>13, <1>14,
     <1>15, <1>16, <1>17, <1>18, <1>19, <1>20, <1>21, <1>22, <1>23, <1>24, <1>25, <1>26,
     <1>27, <1>28, <1>29, <1>30
     DEF Next, UTask

\* llfAPExecuteLLF ends with ERR_OK when the job is done, and with an untested image never.
LEMMA StepFinish == FlowInv /\ [Next]_vars => FinishInv'
<1> SUFFICES ASSUME FlowInv, [Next]_vars PROVE FinishInv'
  OBVIOUS
<1> USE DEF FlowInv, FreshInv, TypeOK, AnswerInv, InitedInv, Fresh, AtTask, NotWritten,
          Untouched, FinishInv, Done, KnownDefect, JobOf, RdtInv, WriteInv, InheritInv,
          EraseDoneInv, FormatInv, SoundTable, MustInherit, Formats, PrepareErrors,
          WriteErrors, LoadInv, CalibrateInv, CalibrateGuard, Busy, ExecuteGuard, FindsTable,
          FormatGuard, HasTable, WriteGuard, WriteFunc, llfEndResponce, RdtOnly, Inheriting,
          host, answer, control, flash, gubLLFMode
<1>1. CASE SendInit BY <1>1 DEF SendInit
<1>2. CASE SendAll BY <1>2 DEF SendAll
<1>3. CASE \E ok \in BOOLEAN : llfmpInit(ok) BY <1>3 DEF llfmpInit
<1>4. CASE WrongFlash BY <1>4 DEF WrongFlash
<1>5. CASE CalibrateSlice BY <1>5 DEF CalibrateSlice
<1>6. CASE CalibrateFail BY <1>6 DEF CalibrateFail
<1>7. CASE CalibrateEnd BY <1>7 DEF CalibrateEnd, StateAfterCalibrate
<1>8. CASE UpdateRead BY <1>8 DEF UpdateRead
<1>9. CASE UpdateErase BY <1>9 DEF UpdateErase, UpdateReady
<1>10. CASE UpdateWrite BY <1>10 DEF UpdateWrite
<1>11. CASE UpdateAnswer BY <1>11 DEF UpdateAnswer
<1>12. CASE RdtClear BY <1>12 DEF RdtClear
<1>13. CASE RdtErase BY <1>13 DEF RdtErase
<1>14. CASE Inherit BY <1>14 DEF Inherit, InheritGuard, llfInherit
<1>15. CASE FallBack BY <1>15 DEF FallBack
<1>16. CASE FormatInit BY <1>16 DEF FormatInit
<1>17. CASE EraseSlice BY <1>17 DEF EraseSlice, Erasing
<1>18. CASE BuildDBT BY <1>18 DEF BuildDBT
<1>19. CASE FormatAssert BY <1>19 DEF FormatAssert
<1>20. CASE ScanFirst BY <1>20 DEF ScanFirst
<1>21. CASE ScanAgain BY <1>21 DEF ScanAgain
<1>22. CASE ScanThenErase BY <1>22 DEF ScanThenErase, Erasing
<1>23. CASE NothingToWrite BY <1>23 DEF NothingToWrite
<1>24. CASE WritePrepare BY <1>24 DEF WritePrepare, StepAfterPrepare
<1>25. CASE WriteErase BY <1>25 DEF WriteErase, Inherited, Erasing, ErasePauses
<1>26. CASE WriteBlocks BY <1>26 DEF WriteBlocks, Inherited
<1>27. CASE CacheTest BY <1>27 DEF CacheTest, Withdrawn
<1>28. CASE EarlyReturn BY <1>28 DEF EarlyReturn, EarlyErrors
<1>29. CASE EndExecute BY <1>29 DEF EndExecute, TurnedOver
<1>30. CASE UNCHANGED vars BY <1>30 DEF vars
<1> QED
  BY <1>1, <1>2, <1>3, <1>4, <1>5, <1>6, <1>7, <1>8, <1>9, <1>10, <1>11, <1>12, <1>13, <1>14,
     <1>15, <1>16, <1>17, <1>18, <1>19, <1>20, <1>21, <1>22, <1>23, <1>24, <1>25, <1>26,
     <1>27, <1>28, <1>29, <1>30
     DEF Next, UTask

\* A command that says ERR_OK has done its job.
LEMMA StepOk == FlowInv /\ [Next]_vars => OkMeansFormatted'
<1> SUFFICES ASSUME FlowInv, [Next]_vars PROVE OkMeansFormatted'
  OBVIOUS
<1> USE DEF FlowInv, FreshInv, TypeOK, AnswerInv, InitedInv, Fresh, AtTask, NotWritten,
          Untouched, Results, Idle, OkMeansFormatted, KnownDefect, EarlyErrors, PrepareErrors,
          WriteErrors, UpdateInv, FinishInv, RdtInv, JobOf, Done, CalibrateGuard, Busy,
          ExecuteGuard, FindsTable, FormatGuard, HasTable, WriteGuard, WriteFunc,
          llfEndResponce, RdtOnly, Inheriting, host, answer, control, flash, gubLLFMode
<1>1. CASE SendInit BY <1>1 DEF SendInit
<1>2. CASE SendAll BY <1>2 DEF SendAll
<1>3. CASE \E ok \in BOOLEAN : llfmpInit(ok) BY <1>3 DEF llfmpInit
<1>4. CASE WrongFlash BY <1>4 DEF WrongFlash
<1>5. CASE CalibrateSlice BY <1>5 DEF CalibrateSlice
<1>6. CASE CalibrateFail BY <1>6 DEF CalibrateFail
<1>7. CASE CalibrateEnd BY <1>7 DEF CalibrateEnd, StateAfterCalibrate
<1>8. CASE UpdateRead BY <1>8 DEF UpdateRead
<1>9. CASE UpdateErase BY <1>9 DEF UpdateErase, UpdateReady
<1>10. CASE UpdateWrite BY <1>10 DEF UpdateWrite
<1>11. CASE UpdateAnswer BY <1>11 DEF UpdateAnswer
<1>12. CASE RdtClear BY <1>12 DEF RdtClear
<1>13. CASE RdtErase BY <1>13 DEF RdtErase
<1>14. CASE Inherit BY <1>14 DEF Inherit, InheritGuard, MustInherit, llfInherit
<1>15. CASE FallBack BY <1>15 DEF FallBack
<1>16. CASE FormatInit BY <1>16 DEF FormatInit
<1>17. CASE EraseSlice BY <1>17 DEF EraseSlice, Erasing
<1>18. CASE BuildDBT BY <1>18 DEF BuildDBT
<1>19. CASE FormatAssert BY <1>19 DEF FormatAssert
<1>20. CASE ScanFirst BY <1>20 DEF ScanFirst
<1>21. CASE ScanAgain BY <1>21 DEF ScanAgain
<1>22. CASE ScanThenErase BY <1>22 DEF ScanThenErase, Erasing
<1>23. CASE NothingToWrite BY <1>23 DEF NothingToWrite
<1>24. CASE WritePrepare BY <1>24 DEF WritePrepare, StepAfterPrepare
<1>25. CASE WriteErase BY <1>25 DEF WriteErase, Inherited, Erasing, ErasePauses
<1>26. CASE WriteBlocks BY <1>26 DEF WriteBlocks, Inherited
<1>27. CASE CacheTest BY <1>27 DEF CacheTest, Withdrawn
<1>28. CASE EarlyReturn BY <1>28 DEF EarlyReturn
<1>29. CASE EndExecute
  <2> SUFFICES ASSUME Fresh, ~KnownDefect, TurnedOver(ret) = "ERR_OK" PROVE OkMeansFormatted'
    BY <1>29 DEF EndExecute
  <2>1. CASE ret = "ERR_OK"
    BY <1>29, <2>1 DEF EndExecute
  <2>2. CASE ret = "ERR_READ_DBT"
    <3>1. pc = "finish" BY <1>29 DEF EndExecute
    <3>4. cfg.scanOnly /\ gubLLFMode # "ONLY_UPDATE_FW" BY Finishing, <2>2, <3>1
    <3>2. JobOf(cfg) = "scan" BY ScanJob, <3>4
    <3>3. QED BY <1>29, <3>2 DEF EndExecute
  <2>3. QED BY <2>1, <2>2 DEF TurnedOver
<1>30. CASE UNCHANGED vars BY <1>30 DEF vars
<1> QED
  BY <1>1, <1>2, <1>3, <1>4, <1>5, <1>6, <1>7, <1>8, <1>9, <1>10, <1>11, <1>12, <1>13, <1>14,
     <1>15, <1>16, <1>17, <1>18, <1>19, <1>20, <1>21, <1>22, <1>23, <1>24, <1>25, <1>26,
     <1>27, <1>28, <1>29, <1>30
     DEF Next, UTask

\* A command that fails leaves no untested image.
LEMMA StepNoUntested == FlowInv /\ [Next]_vars => NoUntestedImage'
<1> SUFFICES ASSUME FlowInv, [Next]_vars PROVE NoUntestedImage'
  OBVIOUS
<1> USE DEF FlowInv, FreshInv, TypeOK, AnswerInv, InitedInv, Fresh, AtTask, NotWritten,
          Untouched, Results, Idle, NoUntestedImage, CalibrateInv, UpdateInv, RdtInv,
          WriteInv, LoadInv, InheritInv, EraseDoneInv, FormatInv, FinishInv, CalibrateGuard,
          Busy, ExecuteGuard, FindsTable, FormatGuard, HasTable, WriteGuard, WriteFunc,
          llfEndResponce, RdtOnly, Inheriting, host, answer, control, flash, gubLLFMode
<1>1. CASE SendInit BY <1>1 DEF SendInit
<1>2. CASE SendAll BY <1>2 DEF SendAll
<1>3. CASE \E ok \in BOOLEAN : llfmpInit(ok) BY <1>3 DEF llfmpInit
<1>4. CASE WrongFlash BY <1>4 DEF WrongFlash
<1>5. CASE CalibrateSlice BY <1>5 DEF CalibrateSlice
<1>6. CASE CalibrateFail BY <1>6 DEF CalibrateFail
<1>7. CASE CalibrateEnd BY <1>7 DEF CalibrateEnd, StateAfterCalibrate
<1>8. CASE UpdateRead BY <1>8 DEF UpdateRead
<1>9. CASE UpdateErase BY <1>9 DEF UpdateErase, UpdateReady
<1>10. CASE UpdateWrite BY <1>10 DEF UpdateWrite, WriteErrors
<1>11. CASE UpdateAnswer BY <1>11 DEF UpdateAnswer
<1>12. CASE RdtClear BY <1>12 DEF RdtClear
<1>13. CASE RdtErase BY <1>13 DEF RdtErase
<1>14. CASE Inherit BY <1>14 DEF Inherit, InheritGuard, MustInherit, llfInherit
<1>15. CASE FallBack BY <1>15 DEF FallBack
<1>16. CASE FormatInit BY <1>16 DEF FormatInit
<1>17. CASE EraseSlice BY <1>17 DEF EraseSlice, Erasing
<1>18. CASE BuildDBT BY <1>18 DEF BuildDBT
<1>19. CASE FormatAssert BY <1>19 DEF FormatAssert
<1>20. CASE ScanFirst BY <1>20 DEF ScanFirst
<1>21. CASE ScanAgain BY <1>21 DEF ScanAgain
<1>22. CASE ScanThenErase BY <1>22 DEF ScanThenErase, Erasing
<1>23. CASE NothingToWrite BY <1>23 DEF NothingToWrite
<1>24. CASE WritePrepare BY <1>24 DEF WritePrepare, StepAfterPrepare, PrepareErrors
<1>25. CASE WriteErase BY <1>25 DEF WriteErase, Inherited, Erasing, ErasePauses
<1>26. CASE WriteBlocks BY <1>26 DEF WriteBlocks, Inherited, WriteErrors
<1>27. CASE CacheTest BY <1>27 DEF CacheTest, Withdrawn
<1>28. CASE EarlyReturn BY <1>28 DEF EarlyReturn, EarlyErrors
<1>29. CASE EndExecute BY <1>29 DEF EndExecute, TurnedOver
<1>30. CASE UNCHANGED vars BY <1>30 DEF vars
<1> QED
  BY <1>1, <1>2, <1>3, <1>4, <1>5, <1>6, <1>7, <1>8, <1>9, <1>10, <1>11, <1>12, <1>13, <1>14,
     <1>15, <1>16, <1>17, <1>18, <1>19, <1>20, <1>21, <1>22, <1>23, <1>24, <1>25, <1>26,
     <1>27, <1>28, <1>29, <1>30
     DEF Next, UTask

\* How many messages a command posts.
LEMMA StepAnswerOnce == FlowInv /\ [Next]_vars => AnswerOnce'
<1> SUFFICES ASSUME FlowInv, [Next]_vars PROVE AnswerOnce'
  OBVIOUS
<1> USE DEF FlowInv, FreshInv, TypeOK, AnswerInv, InitedInv, Fresh, AtTask, NotWritten,
          Untouched, Results, Idle, AnswerOnce, EarlyErrors, WriteErrors, PrepareErrors,
          UpdateInv, FinishInv, CalibrateInv, LoadInv, InheritInv, FormatInv, RdtInv,
          CalibrateGuard, Busy, ExecuteGuard, FindsTable, FormatGuard, HasTable, WriteGuard,
          WriteFunc, llfEndResponce, RdtOnly, Inheriting, host, answer, control, flash,
          gubLLFMode
<1>1. CASE SendInit BY <1>1 DEF SendInit
<1>2. CASE SendAll BY <1>2 DEF SendAll
<1>3. CASE \E ok \in BOOLEAN : llfmpInit(ok) BY <1>3 DEF llfmpInit
<1>4. CASE WrongFlash BY <1>4 DEF WrongFlash
<1>5. CASE CalibrateSlice BY <1>5 DEF CalibrateSlice
<1>6. CASE CalibrateFail BY <1>6 DEF CalibrateFail
<1>7. CASE CalibrateEnd BY <1>7 DEF CalibrateEnd, StateAfterCalibrate
<1>8. CASE UpdateRead BY <1>8 DEF UpdateRead
<1>9. CASE UpdateErase BY <1>9 DEF UpdateErase, UpdateReady
<1>10. CASE UpdateWrite BY <1>10 DEF UpdateWrite
<1>11. CASE UpdateAnswer BY <1>11 DEF UpdateAnswer
<1>12. CASE RdtClear BY <1>12 DEF RdtClear
<1>13. CASE RdtErase BY <1>13 DEF RdtErase
<1>14. CASE Inherit BY <1>14 DEF Inherit, InheritGuard, MustInherit, llfInherit
<1>15. CASE FallBack BY <1>15 DEF FallBack
<1>16. CASE FormatInit BY <1>16 DEF FormatInit
<1>17. CASE EraseSlice BY <1>17 DEF EraseSlice, Erasing
<1>18. CASE BuildDBT BY <1>18 DEF BuildDBT
<1>19. CASE FormatAssert BY <1>19 DEF FormatAssert
<1>20. CASE ScanFirst BY <1>20 DEF ScanFirst
<1>21. CASE ScanAgain BY <1>21 DEF ScanAgain
<1>22. CASE ScanThenErase BY <1>22 DEF ScanThenErase, Erasing
<1>23. CASE NothingToWrite BY <1>23 DEF NothingToWrite
<1>24. CASE WritePrepare BY <1>24 DEF WritePrepare, StepAfterPrepare
<1>25. CASE WriteErase BY <1>25 DEF WriteErase, Inherited, Erasing, ErasePauses
<1>26. CASE WriteBlocks BY <1>26 DEF WriteBlocks, Inherited
<1>27. CASE CacheTest BY <1>27 DEF CacheTest, Withdrawn
<1>28. CASE EarlyReturn BY <1>28 DEF EarlyReturn
<1>29. CASE EndExecute BY <1>29 DEF EndExecute, TurnedOver
<1>30. CASE UNCHANGED vars BY <1>30 DEF vars
<1> QED
  BY <1>1, <1>2, <1>3, <1>4, <1>5, <1>6, <1>7, <1>8, <1>9, <1>10, <1>11, <1>12, <1>13, <1>14,
     <1>15, <1>16, <1>17, <1>18, <1>19, <1>20, <1>21, <1>22, <1>23, <1>24, <1>25, <1>26,
     <1>27, <1>28, <1>29, <1>30
     DEF Next, UTask

\* The assertions of llfAll.
LEMMA StepAsserts == FlowInv /\ [Next]_vars => AssertsHold'
<1> SUFFICES ASSUME FlowInv, [Next]_vars PROVE AssertsHold'
  OBVIOUS
<1> USE DEF FlowInv, FreshInv, TypeOK, AnswerInv, InitedInv, Fresh, AtTask, NotWritten,
          Untouched, Results, AssertsHold, Inherited, InheritInv, LoadInv, FormatInv,
          CalibrateGuard, Busy, ExecuteGuard, FindsTable, FormatGuard, HasTable, WriteGuard,
          WriteFunc, llfEndResponce, RdtOnly, Inheriting, host, answer, control, flash,
          gubLLFMode
<1>1. CASE SendInit BY <1>1 DEF SendInit
<1>2. CASE SendAll BY <1>2 DEF SendAll
<1>3. CASE \E ok \in BOOLEAN : llfmpInit(ok) BY <1>3 DEF llfmpInit
<1>4. CASE WrongFlash BY <1>4 DEF WrongFlash
<1>5. CASE CalibrateSlice BY <1>5 DEF CalibrateSlice
<1>6. CASE CalibrateFail BY <1>6 DEF CalibrateFail
<1>7. CASE CalibrateEnd BY <1>7 DEF CalibrateEnd, StateAfterCalibrate
<1>8. CASE UpdateRead BY <1>8 DEF UpdateRead
<1>9. CASE UpdateErase BY <1>9 DEF UpdateErase, UpdateReady
<1>10. CASE UpdateWrite BY <1>10 DEF UpdateWrite, WriteErrors
<1>11. CASE UpdateAnswer BY <1>11 DEF UpdateAnswer
<1>12. CASE RdtClear BY <1>12 DEF RdtClear
<1>13. CASE RdtErase BY <1>13 DEF RdtErase
<1>14. CASE Inherit BY <1>14 DEF Inherit, InheritGuard, MustInherit, llfInherit
<1>15. CASE FallBack BY <1>15 DEF FallBack
<1>16. CASE FormatInit BY <1>16 DEF FormatInit
<1>17. CASE EraseSlice BY <1>17 DEF EraseSlice, Erasing
<1>18. CASE BuildDBT BY <1>18 DEF BuildDBT
<1>19. CASE FormatAssert BY <1>19 DEF FormatAssert
<1>20. CASE ScanFirst BY <1>20 DEF ScanFirst
<1>21. CASE ScanAgain BY <1>21 DEF ScanAgain
<1>22. CASE ScanThenErase BY <1>22 DEF ScanThenErase, Erasing
<1>23. CASE NothingToWrite BY <1>23 DEF NothingToWrite
<1>24. CASE WritePrepare BY <1>24 DEF WritePrepare, StepAfterPrepare, PrepareErrors
<1>25. CASE WriteErase BY <1>25 DEF WriteErase, Erasing, ErasePauses
<1>26. CASE WriteBlocks BY <1>26 DEF WriteBlocks, WriteErrors
<1>27. CASE CacheTest BY <1>27 DEF CacheTest, Withdrawn
<1>28. CASE EarlyReturn BY <1>28 DEF EarlyReturn, EarlyErrors
<1>29. CASE EndExecute BY <1>29 DEF EndExecute, TurnedOver
<1>30. CASE UNCHANGED vars BY <1>30 DEF vars
<1> QED
  BY <1>1, <1>2, <1>3, <1>4, <1>5, <1>6, <1>7, <1>8, <1>9, <1>10, <1>11, <1>12, <1>13, <1>14,
     <1>15, <1>16, <1>17, <1>18, <1>19, <1>20, <1>21, <1>22, <1>23, <1>24, <1>25, <1>26,
     <1>27, <1>28, <1>29, <1>30
     DEF Next, UTask

\* A command that must inherit does not format.
LEMMA StepForce == FlowInv /\ [Next]_vars => ForceInheritNeverFormats'
<1> SUFFICES ASSUME FlowInv, [Next]_vars PROVE ForceInheritNeverFormats'
  OBVIOUS
<1> USE DEF FlowInv, FreshInv, TypeOK, AnswerInv, InitedInv, Fresh, AtTask, NotWritten,
          Untouched, Results, ForceInheritNeverFormats, MustInherit, SoundTable, CalibrateInv,
          UpdateInv, RdtInv, WriteInv, LoadInv, InheritInv, EraseDoneInv, FormatInv,
          FinishInv, CalibrateGuard, Busy, ExecuteGuard, FindsTable, FormatGuard, HasTable,
          WriteGuard, WriteFunc, llfEndResponce, RdtOnly, Inheriting, host, answer, control,
          flash, gubLLFMode
<1>1. CASE SendInit BY <1>1 DEF SendInit
<1>2. CASE SendAll BY <1>2 DEF SendAll
<1>3. CASE \E ok \in BOOLEAN : llfmpInit(ok) BY <1>3 DEF llfmpInit
<1>4. CASE WrongFlash BY <1>4 DEF WrongFlash
<1>5. CASE CalibrateSlice BY <1>5 DEF CalibrateSlice
<1>6. CASE CalibrateFail BY <1>6 DEF CalibrateFail
<1>7. CASE CalibrateEnd BY <1>7 DEF CalibrateEnd, StateAfterCalibrate
<1>8. CASE UpdateRead BY <1>8 DEF UpdateRead
<1>9. CASE UpdateErase BY <1>9 DEF UpdateErase, UpdateReady
<1>10. CASE UpdateWrite BY <1>10 DEF UpdateWrite, WriteErrors
<1>11. CASE UpdateAnswer BY <1>11 DEF UpdateAnswer
<1>12. CASE RdtClear BY <1>12 DEF RdtClear
<1>13. CASE RdtErase BY <1>13 DEF RdtErase
<1>14. CASE Inherit BY <1>14 DEF Inherit, InheritGuard, llfInherit
<1>15. CASE FallBack BY <1>15 DEF FallBack
<1>16. CASE FormatInit BY <1>16 DEF FormatInit
<1>17. CASE EraseSlice BY <1>17 DEF EraseSlice, Erasing
<1>18. CASE BuildDBT BY <1>18 DEF BuildDBT
<1>19. CASE FormatAssert BY <1>19 DEF FormatAssert
<1>20. CASE ScanFirst BY <1>20 DEF ScanFirst
<1>21. CASE ScanAgain BY <1>21 DEF ScanAgain
<1>22. CASE ScanThenErase BY <1>22 DEF ScanThenErase, Erasing
<1>23. CASE NothingToWrite BY <1>23 DEF NothingToWrite
<1>24. CASE WritePrepare BY <1>24 DEF WritePrepare, StepAfterPrepare, PrepareErrors
<1>25. CASE WriteErase BY <1>25 DEF WriteErase, Inherited, Erasing, ErasePauses
<1>26. CASE WriteBlocks BY <1>26 DEF WriteBlocks, Inherited, WriteErrors
<1>27. CASE CacheTest BY <1>27 DEF CacheTest, Withdrawn
<1>28. CASE EarlyReturn BY <1>28 DEF EarlyReturn, EarlyErrors
<1>29. CASE EndExecute BY <1>29 DEF EndExecute, TurnedOver
<1>30. CASE UNCHANGED vars BY <1>30 DEF vars
<1> QED
  BY <1>1, <1>2, <1>3, <1>4, <1>5, <1>6, <1>7, <1>8, <1>9, <1>10, <1>11, <1>12, <1>13, <1>14,
     <1>15, <1>16, <1>17, <1>18, <1>19, <1>20, <1>21, <1>22, <1>23, <1>24, <1>25, <1>26,
     <1>27, <1>28, <1>29, <1>30
     DEF Next, UTask

LEMMA InitFlow == Init => FlowInv
<1> SUFFICES ASSUME Init PROVE FlowInv
  OBVIOUS
<1>1. TypeOK
  <2> 0 \in 0 .. MaxCommands BY FlowAssumption
  <2>1. commands = 0 BY DEF Init
  <2>2. gubNeedRebuildRemap \in BOOLEAN /\ tested \in BOOLEAN /\ odd \in BOOLEAN
    BY Zenon DEF Init
  <2>3. QED BY <2>1, <2>2 DEF Init, TypeOK, ALLSteps, Errors
<1>2. AnswerInv /\ InitedInv BY DEF Init, AnswerInv, InitedInv
<1>3. ~Fresh BY DEF Init, Fresh
<1>4. FreshInv
  BY <1>3 DEF FreshInv, CalibrateInv, UpdateInv, RdtInv, WriteInv, LoadInv, InheritInv,
     EraseDoneInv, FormatInv, FinishInv, AtTask
<1>5. ~Busy BY DEF Init, Busy
<1>6. Results
  BY <1>3, <1>5 DEF Results, OkMeansFormatted, NoUntestedImage, AnswerOnce, AssertsHold,
     ForceInheritNeverFormats, FindsTable
<1> QED BY <1>1, <1>2, <1>4, <1>6 DEF FlowInv

\* FlowInv is an invariant.
THEOREM FlowInvariant == Spec => []FlowInv
<1>1. FlowInv /\ [Next]_vars => FreshInv'
  BY StepCalibrate, StepUpdate, StepRdt, StepWrite, StepLoad, StepInherit, StepEraseDone,
     StepFormat, StepFinish DEF FreshInv
<1>2. FlowInv /\ [Next]_vars => Results'
  BY StepOk, StepNoUntested, StepAnswerOnce, StepAsserts, StepForce DEF Results
<1>3. FlowInv /\ [Next]_vars => FlowInv'
  BY StepType, StepAnswer, StepInited, <1>1, <1>2 DEF FlowInv
<1> QED BY InitFlow, <1>3, PTL DEF Spec

\* Every variable of the command flow keeps its type; a command posts two messages at
\* most.
THEOREM TypeCorrect == Spec => []TypeOK
<1>1. FlowInv => TypeOK BY DEF FlowInv
<1> QED BY FlowInvariant, <1>1, PTL

\* In every configuration but those of the three findings, and whatever fails, ERR_OK
\* means that the job was done (llfAll, llfAPExecuteLLF).
THEOREM OkIsFormatted == Spec => []OkMeansFormatted
<1>1. FlowInv => OkMeansFormatted BY DEF FlowInv, Results
<1> QED BY FlowInvariant, <1>1, PTL

\* In every configuration a command that fails leaves no untested system blocks.
THEOREM FailedLeavesNoImage == Spec => []NoUntestedImage
<1>1. FlowInv => NoUntestedImage BY DEF FlowInv, Results
<1> QED BY FlowInvariant, <1>1, PTL

\* How many messages MSG_BE_RESP a command posts, by the way it ends.
THEOREM Answers == Spec => []AnswerOnce
<1>1. FlowInv => AnswerOnce BY DEF FlowInv, Results
<1> QED BY FlowInvariant, <1>1, PTL

\* No assertion of llfAll fails in a command that follows its INIT.
THEOREM NoAssertFails == Spec => []AssertsHold
<1>1. FlowInv => AssertsHold BY DEF FlowInv, Results
<1> QED BY FlowInvariant, <1>1, PTL

\* Modes FORCE_INHERIT and DEFECT_BAD_BLOCK erase with an inherited table or not at all.
THEOREM NeverFormats == Spec => []ForceInheritNeverFormats
<1>1. FlowInv => ForceInheritNeverFormats BY DEF FlowInv, Results
<1> QED BY FlowInvariant, <1>1, PTL

------------------------------------------------------------------------------
(* LlfFlow does what LlfCommand promises, for every set of configurations  *)
(* in which failures are followed to their end (Sound), when the host      *)
(* sends INIT before every ALL.                                            *)

Host == AlwaysInit = TRUE /\ \A c \in Configs : Sound(c)

\* What FlowInv leaves open of the table while a command works.
TableInv ==
    /\ subcmd = "ALL" => inited = "used"
    /\ pc \in {"updateErase", "updateWrite", "updateAnswer", "rdtErase", "scan", "write",
               "finish", "assert"} => subcmd = "ALL"
    /\ AtTask /\ gubLLFALLStep = "FORMAT_START" =>
         /\ resState \in {"ERASE", "ERASE_CT"} => table = "cleared" /\ erased \in {"none", "part"}
         /\ resState = "BUILD_DBT" => table = "cleared"
    /\ AtTask /\ RdtOnly /\ ubLlfStep = "EXECUTE" => table = "cleared"
    /\ Fresh /\ pc = "rdtErase" => table = "cleared"
    /\ Fresh /\ pc = "finish" /\ ret = "ERR_READ_DBT" => table \in {"inherited", "scanned"}
    /\ Fresh /\ pc = "finish" /\ ret = "ERR_OK" => ~cfg.scanOnly

RefineInv == FlowInv /\ TableInv

\* The table while a command works.
LEMMA StepTable == RefineInv /\ Host /\ [Next]_vars => TableInv'
<1> SUFFICES ASSUME RefineInv, Host, [Next]_vars PROVE TableInv'
  OBVIOUS
<1>0. Sound(cfg) BY DEF RefineInv, FlowInv, TypeOK, Host
<1> USE DEF RefineInv, FlowInv, FreshInv, TypeOK, AnswerInv, InitedInv, TableInv, Fresh,
          AtTask, NotWritten, Untouched, Sound, CalibrateInv, UpdateInv, RdtInv, WriteInv,
          LoadInv, InheritInv, EraseDoneInv, FormatInv, FinishInv, SoundTable, MustInherit,
          Formats, Host, CalibrateGuard, Busy, ExecuteGuard, FindsTable, FormatGuard,
          HasTable, WriteGuard, WriteFunc, llfEndResponce, RdtOnly, Inheriting, host, answer,
          control, flash, gubLLFMode
<1>1. CASE SendInit BY <1>0, <1>1 DEF SendInit
<1>2. CASE SendAll BY <1>0, <1>2 DEF SendAll
<1>3. CASE \E ok \in BOOLEAN : llfmpInit(ok) BY <1>0, <1>3 DEF llfmpInit
<1>4. CASE WrongFlash BY <1>0, <1>4 DEF WrongFlash
<1>5. CASE CalibrateSlice BY <1>0, <1>5 DEF CalibrateSlice
<1>6. CASE CalibrateFail BY <1>0, <1>6 DEF CalibrateFail
<1>7. CASE CalibrateEnd BY <1>0, <1>7 DEF CalibrateEnd, StateAfterCalibrate
<1>8. CASE UpdateRead BY <1>0, <1>8 DEF UpdateRead
<1>9. CASE UpdateErase BY <1>0, <1>9 DEF UpdateErase, UpdateReady
<1>10. CASE UpdateWrite BY <1>0, <1>10 DEF UpdateWrite, WriteErrors
<1>11. CASE UpdateAnswer BY <1>0, <1>11 DEF UpdateAnswer
<1>12. CASE RdtClear BY <1>0, <1>12 DEF RdtClear
<1>13. CASE RdtErase BY <1>0, <1>13 DEF RdtErase
<1>14. CASE Inherit BY <1>0, <1>14 DEF Inherit, InheritGuard, llfInherit
<1>15. CASE FallBack BY <1>0, <1>15 DEF FallBack
<1>16. CASE FormatInit BY <1>0, <1>16 DEF FormatInit
<1>17. CASE EraseSlice BY <1>0, <1>17 DEF EraseSlice, Erasing
<1>18. CASE BuildDBT BY <1>0, <1>18 DEF BuildDBT
<1>19. CASE FormatAssert BY <1>0, <1>19 DEF FormatAssert
<1>20. CASE ScanFirst BY <1>0, <1>20 DEF ScanFirst
<1>21. CASE ScanAgain BY <1>0, <1>21 DEF ScanAgain
<1>22. CASE ScanThenErase BY <1>0, <1>22 DEF ScanThenErase, Erasing
<1>23. CASE NothingToWrite BY <1>0, <1>23 DEF NothingToWrite
<1>24. CASE WritePrepare BY <1>0, <1>24 DEF WritePrepare, StepAfterPrepare, PrepareErrors
<1>25. CASE WriteErase BY <1>0, <1>25 DEF WriteErase, Inherited, Erasing, ErasePauses
<1>26. CASE WriteBlocks BY <1>0, <1>26 DEF WriteBlocks, Inherited, WriteErrors
<1>27. CASE CacheTest BY <1>0, <1>27 DEF CacheTest, Withdrawn
<1>28. CASE EarlyReturn BY <1>0, <1>28 DEF EarlyReturn, EarlyErrors
<1>29. CASE EndExecute BY <1>0, <1>29 DEF EndExecute, TurnedOver
<1>30. CASE UNCHANGED vars BY <1>30 DEF vars
<1> QED
  BY <1>1, <1>2, <1>3, <1>4, <1>5, <1>6, <1>7, <1>8, <1>9, <1>10, <1>11, <1>12, <1>13, <1>14,
     <1>15, <1>16, <1>17, <1>18, <1>19, <1>20, <1>21, <1>22, <1>23, <1>24, <1>25, <1>26,
     <1>27, <1>28, <1>29, <1>30
     DEF Next, UTask

\* Every step is one of the abstract command, or none.
LEMMA StepCommand == RefineInv /\ Host /\ [Next]_vars => [Command!Next]_Command!vars
<1> SUFFICES ASSUME RefineInv, Host, [Next]_vars PROVE [Command!Next]_Command!vars
  OBVIOUS
<1>0. Sound(cfg) BY DEF RefineInv, FlowInv, TypeOK, Host
<1> USE DEF RefineInv, FlowInv, FreshInv, TypeOK, AnswerInv, InitedInv, TableInv, Fresh,
          AtTask, NotWritten, Untouched, Sound, CalibrateInv, UpdateInv, RdtInv, WriteInv,
          LoadInv, InheritInv, EraseDoneInv, FormatInv, FinishInv, SoundTable, MustInherit,
          Formats, Idle, JobOf, Command!Next, Command!vars, CalibrateGuard, Busy,
          ExecuteGuard, FindsTable, FormatGuard, HasTable, WriteGuard, WriteFunc,
          llfEndResponce, RdtOnly, Inheriting, host, answer, control, flash, gubLLFMode
<1>1. CASE SendInit BY <1>0, <1>1 DEF SendInit, Command!Configure
<1>2. CASE SendAll BY <1>0, <1>2 DEF SendAll, Command!Begin
<1>3. CASE \E ok \in BOOLEAN : llfmpInit(ok) BY <1>0, <1>3 DEF llfmpInit
<1>4. CASE WrongFlash BY <1>0, <1>4 DEF WrongFlash, Command!Fail
<1>5. CASE CalibrateSlice BY <1>0, <1>5 DEF CalibrateSlice
<1>6. CASE CalibrateFail BY <1>0, <1>6 DEF CalibrateFail, Command!Fail
<1>7. CASE CalibrateEnd BY <1>0, <1>7 DEF CalibrateEnd, StateAfterCalibrate
<1>8. CASE UpdateRead BY <1>0, <1>8 DEF UpdateRead, Command!LoadTable
<1>9. CASE UpdateErase BY <1>0, <1>9 DEF UpdateErase, UpdateReady, Command!Erase
<1>10. CASE UpdateWrite BY <1>0, <1>10 DEF UpdateWrite, WriteErrors, Command!Write,
          Command!Ready
<1>11. CASE UpdateAnswer BY <1>0, <1>11 DEF UpdateAnswer, Command!Succeed, Command!Fail
<1>12. CASE RdtClear BY <1>0, <1>12 DEF RdtClear, Command!LoadTable
<1>13. CASE RdtErase BY <1>0, <1>13 DEF RdtErase, Command!Erase, Command!Fail
<1>14. CASE Inherit BY <1>0, <1>14 DEF Inherit, InheritGuard, llfInherit, Command!LoadTable,
          Command!Fail
<1>15. CASE FallBack BY <1>0, <1>15 DEF FallBack
<1>16. CASE FormatInit BY <1>0, <1>16 DEF FormatInit, Command!LoadTable
<1>17. CASE EraseSlice BY <1>0, <1>17 DEF EraseSlice, Erasing, Command!Erase, Command!Fail
<1>18. CASE BuildDBT BY <1>0, <1>18 DEF BuildDBT, Command!Scan, Command!Fail
<1>19. CASE FormatAssert BY <1>0, <1>19 DEF FormatAssert
<1>20. CASE ScanFirst BY <1>0, <1>20 DEF ScanFirst
<1>21. CASE ScanAgain BY <1>0, <1>21 DEF ScanAgain
<1>22. CASE ScanThenErase BY <1>0, <1>22 DEF ScanThenErase, Erasing
<1>23. CASE NothingToWrite BY <1>0, <1>23 DEF NothingToWrite
<1>24. CASE WritePrepare BY <1>0, <1>24 DEF WritePrepare, StepAfterPrepare, PrepareErrors
<1>25. CASE WriteErase BY <1>0, <1>25 DEF WriteErase, Inherited, Erasing, ErasePauses,
          Command!Erase
<1>26. CASE WriteBlocks BY <1>0, <1>26 DEF WriteBlocks, Inherited, WriteErrors, Command!Write,
          Command!Ready
<1>27. CASE CacheTest BY <1>0, <1>27 DEF CacheTest, Withdrawn, Command!Test
<1>28. CASE EarlyReturn BY <1>0, <1>28 DEF EarlyReturn, EarlyErrors, Command!Fail
<1>29. CASE EndExecute
  <2>1. Fresh /\ pc = "finish" /\ JobOf(cfg) # "update"
    <3>1. Fresh /\ pc = "finish" BY <1>29 DEF EndExecute
    <3>2. gubLLFMode # "ONLY_UPDATE_FW" BY <3>1, Finishing
    <3>3. QED BY <3>1, <3>2
  <2>2. CASE ret = "ERR_OK"
    <3>1. Done BY <1>0, <2>1, <2>2 DEF KnownDefect
    <3>4. JobOf(cfg) \in {"format", "rdt"} BY <2>1, <2>2
    <3> HIDE DEF JobOf, gubLLFMode
    <3>2. Command!Succeed BY <1>29, <2>1, <2>2, <3>1, <3>4 DEF EndExecute, TurnedOver, Done, Command!Succeed
    <3>3. QED BY <3>2
  <2>3. CASE ret = "ERR_READ_DBT"
    <3>1. cfg.scanOnly /\ table \in {"inherited", "scanned"} BY <2>1, <2>3
    <3>2. JobOf(cfg) = "scan" BY <2>1, <3>1
    <3> HIDE DEF JobOf, gubLLFMode
    <3>3. Command!Succeed BY <1>29, <2>1, <2>3, <3>1, <3>2 DEF EndExecute, TurnedOver, Command!Succeed
    <3>4. QED BY <3>3
  <2>4. CASE ret \notin {"ERR_OK", "ERR_READ_DBT"}
    <3>1. Command!Fail BY <1>29, <2>1, <2>4 DEF EndExecute, TurnedOver, Command!Fail
    <3>2. QED BY <3>1
  <2>5. QED BY <2>2, <2>3, <2>4
<1>30. CASE UNCHANGED vars BY <1>30 DEF vars
<1> QED
  BY <1>1, <1>2, <1>3, <1>4, <1>5, <1>6, <1>7, <1>8, <1>9, <1>10, <1>11, <1>12, <1>13, <1>14,
     <1>15, <1>16, <1>17, <1>18, <1>19, <1>20, <1>21, <1>22, <1>23, <1>24, <1>25, <1>26,
     <1>27, <1>28, <1>29, <1>30
     DEF Next, UTask

LEMMA InitCommand == Init => TableInv /\ Command!Init
<1> SUFFICES ASSUME Init PROVE TableInv /\ Command!Init
  OBVIOUS
<1>1. ~Fresh BY DEF Init, Fresh
<1>2. TableInv BY <1>1 DEF Init, TableInv, AtTask
<1>3. Command!Init BY DEF Init, Command!Init, JobOf
<1> QED BY <1>2, <1>3

\* The steps of llfAll implement the abstract command: a table before the system blocks,
\* an erase before the write, and ERR_OK only for a job that is done.
THEOREM FlowKeepsPromise == Host /\ Spec => KeepsPromise
<1>2. RefineInv /\ Host /\ [Next]_vars => TableInv' BY StepTable
<1>3. SUFFICES ASSUME Host PROVE Spec => KeepsPromise
  OBVIOUS
<1>4. TableInv /\ FlowInv /\ [Next]_vars => TableInv' BY <1>2, <1>3 DEF RefineInv
<1>5. TableInv /\ FlowInv /\ [Next]_vars => [Command!Next]_Command!vars
  BY StepCommand, <1>3 DEF RefineInv
<1>6. Init => TableInv /\ Command!Init BY InitCommand
<1> QED BY FlowInvariant, <1>4, <1>5, <1>6, PTL DEF Spec, KeepsPromise, Command!Spec
=============================================================================
