---------------------------- MODULE TaskCommand ----------------------------
(***************************************************************************)
(* What the task does besides the format itself, each as one part of a     *)
(* command (BE_llf_handle_UTask): the defect tables of a new flash, the    *)
(* erase that starts a reliability test, the test of the flash interface   *)
(* after a format, the calibration before it, and the initialisation that  *)
(* comes before all of them.                                               *)
(*                                                                         *)
(* The task runs one command at a time and the scheduler calls it again    *)
(* and again: a step of the part it is in is always taken some time.       *)
(***************************************************************************)
EXTENDS SystemErase, CacheTest, Calibrate, Initialise

VARIABLE part  \* what the command has the task do

taskVars == <<part, vendor, cmd, dbt, sysDbt, scan, wipe, ct, sweep, cal, ini>>

\* The state of a part that is not run: it does not change.
OtherScan ==
    /\ vendor = [bad |-> {}, how |-> <<"first", "data">>]
    /\ scan = [pc |-> "idle"]

OtherWipe == wipe = [pc |-> "idle"]
OtherTest == ct = [pc |-> "idle", cycle |-> 0, timeout |-> FALSE]
OtherSweep == sweep = [pc |-> "idle"]
OtherCalibration == cal = [pc |-> "idle"]
OtherInit == ini = [pc |-> "idle", cfg |-> <<>>, para |-> <<>>, ret |-> "ERR_OK"]

NoTables == cmd = (CHOOSE c \in Commands : TRUE) /\ dbt = Empty /\ sysDbt = Empty

\* Of the commands, those that start a reliability test.
RdtCommands == {c \in Commands : c.all /\ c.rdtImg}

TaskInit ==
    \/ /\ part = "defect tables"
       /\ ScanInit /\ OtherWipe /\ OtherTest /\ OtherSweep /\ OtherCalibration /\ OtherInit
    \/ /\ part = "start of RDT" /\ cmd \in RdtCommands
       /\ dbt \in OldTables /\ sysDbt = Empty
       /\ WipeInit /\ OtherScan /\ OtherTest /\ OtherSweep /\ OtherCalibration /\ OtherInit
    \/ /\ part = "interface test" /\ NoTables
       /\ CacheInit /\ OtherScan /\ OtherWipe /\ OtherSweep /\ OtherCalibration /\ OtherInit
    \/ /\ part = "calibration" /\ NoTables
       /\ CalInit /\ OtherScan /\ OtherWipe /\ OtherTest /\ OtherSweep /\ OtherInit
    \/ /\ part = "search for a delay" /\ NoTables
       /\ SweepInit /\ OtherScan /\ OtherWipe /\ OtherTest /\ OtherCalibration /\ OtherInit
    \/ /\ part = "initialisation" /\ NoTables
       /\ InitInit /\ OtherScan /\ OtherWipe /\ OtherTest /\ OtherSweep /\ OtherCalibration

TaskNext ==
    \/ part = "defect tables" /\ ScanNext /\ UNCHANGED <<part, wipe, ct, sweep, cal, ini>>
    \/ part = "start of RDT" /\ WipeNext /\ UNCHANGED <<part, vendor, scan, ct, sweep, cal, ini>>
    \/ part = "interface test" /\ CacheNext
          /\ UNCHANGED <<part, vendor, cmd, dbt, sysDbt, scan, wipe, sweep, cal, ini>>
    \/ part = "calibration" /\ CalNext
          /\ UNCHANGED <<part, vendor, cmd, dbt, sysDbt, scan, wipe, ct, sweep, ini>>
    \/ part = "search for a delay" /\ SweepNext
          /\ UNCHANGED <<part, vendor, cmd, dbt, sysDbt, scan, wipe, ct, cal, ini>>
    \/ part = "initialisation" /\ InitNext
          /\ UNCHANGED <<part, vendor, cmd, dbt, sysDbt, scan, wipe, ct, sweep, cal>>

TaskSpec == TaskInit /\ [][TaskNext]_taskVars /\ WF_taskVars(TaskNext)

----------------------------------------------------------------------------
\* Whatever the flash answers, or does not, the task comes to the end of what it does:
\* every wait is bounded and every loop ends.  Three exceptions are in the code and named in
\* ScanEnded, CalEnded and InitEnded: the search with the copies in bank 0, the feature of
\* an Intel flash that cannot be set, and a page smaller than its sectors.
TaskEnds ==
    []<> CASE part = "defect tables" -> ScanEnded
           [] part = "start of RDT" -> WipeEnded
           [] part = "interface test" -> CacheEnded
           [] part = "calibration" -> CalEnded
           [] part = "search for a delay" -> SweepEnded
           [] part = "initialisation" -> InitEnded
=============================================================================
