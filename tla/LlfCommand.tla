----------------------------- MODULE LlfCommand -----------------------------
(***************************************************************************)
(* What the command BE_LLF_ALL promises of the flash it works on, whatever *)
(* steps, retries and answers the firmware takes to do it:                 *)
(*                                                                         *)
(*   - a table of the defective blocks is there before system blocks are   *)
(*     written: loaded before the erase, or scanned after it;              *)
(*   - nothing is written to blocks that were not erased by the command;   *)
(*   - the answer is "ok" only if the system blocks are complete, and, of  *)
(*     a format, if the test that follows them has passed.                 *)
(*                                                                         *)
(* The jobs: "format" of the whole flash; "rdt", the system blocks of the  *)
(* reliability test, which starts with an empty table; "update", of the    *)
(* firmware only; "scan", which stops when the table is there.             *)
(***************************************************************************)
CONSTANT Jobs

VARIABLES
    job,       \* what the command is to do
    phase,     \* "idle" or "working"
    reply,     \* of the last command: "none", "ok" or "error"
    erased,    \* what the command erased: "none", "part", "window" or "all"
    table,     \* the defect table: "stale", "cleared", "inherited", "scanned"
    firmware,  \* the system blocks: "old", "torn", "erased", "new", or
               \* "stuck": they failed the test and could not all be erased
    tested     \* the test passed

vars == <<job, phase, reply, erased, table, firmware, tested>>

Init ==
    /\ job \in Jobs
    /\ phase = "idle" /\ reply = "none"
    /\ erased = "none" /\ table = "stale" /\ firmware = "old" /\ tested = FALSE

\* Another configuration is loaded.
Configure ==
    /\ phase = "idle"
    /\ job' \in Jobs /\ reply' = "none"
    /\ UNCHANGED <<phase, erased, table, firmware, tested>>

\* What a command finds on the flash is old.
Begin ==
    /\ phase = "idle"
    /\ phase' = "working" /\ reply' = "none"
    /\ erased' = "none" /\ table' = "stale" /\ tested' = FALSE
    /\ firmware' = IF firmware = "new" THEN "old" ELSE firmware
    /\ UNCHANGED job

LoadTable ==
    /\ phase = "working" /\ erased = "none"
    /\ table' \in {"cleared", "inherited"}
    /\ UNCHANGED <<job, phase, reply, erased, firmware, tested>>

\* Erasing takes several steps; it is done when nothing is left to erase.
Erase ==
    /\ phase = "working" /\ table \in {"cleared", "inherited"} /\ firmware # "new"
    /\ \/ erased \in {"none", "part"} /\ job \in {"format", "scan"} /\ erased' \in {"part", "all"}
       \/ erased = "none" /\ job \in {"update", "rdt"} /\ erased' = "window"
    /\ firmware' \in {"torn", "erased"}
    /\ UNCHANGED <<job, phase, reply, table, tested>>

Scan ==
    /\ phase = "working" /\ erased = "all" /\ table = "cleared"
    /\ table' = "scanned"
    /\ UNCHANGED <<job, phase, reply, erased, firmware, tested>>

Ready ==
    CASE job = "format" -> erased = "all" /\ table \in {"inherited", "scanned"}
      [] job = "update" -> erased = "window" /\ table = "inherited"
      [] job = "rdt"    -> erased = "window" /\ table = "cleared"
      [] OTHER          -> FALSE

\* Writing the system blocks fails, or completes them.
Write ==
    /\ phase = "working" /\ Ready
    /\ firmware' \in {"torn", "new"}
    /\ UNCHANGED <<job, phase, reply, erased, table, tested>>

\* The test of what was written: it passes, or the system blocks are taken away as
\* far as they can be erased.
Test ==
    /\ phase = "working" /\ firmware = "new" /\ ~tested
    /\ \/ tested' = TRUE /\ UNCHANGED firmware
       \/ firmware' \in {"stuck", "erased"} /\ UNCHANGED tested
    /\ UNCHANGED <<job, phase, reply, erased, table>>

Succeed ==
    /\ phase = "working"
    /\ CASE job = "scan"   -> table \in {"inherited", "scanned"}
         [] job = "update" -> firmware = "new"
         [] OTHER          -> firmware = "new" /\ tested
    /\ phase' = "idle" /\ reply' = "ok"
    /\ UNCHANGED <<job, erased, table, firmware, tested>>

\* A command that fails may have begun to erase or to write, but leaves no system
\* blocks that were not tested.
Fail ==
    /\ phase = "working"
    /\ phase' = "idle" /\ reply' = "error"
    /\ erased' \in {erased, "part", "window"}
    /\ table' \in {table, "cleared", "inherited", "torn"}
    /\ firmware' \in {firmware, "torn"} /\ (firmware' = "new" => tested)
    /\ UNCHANGED <<job, tested>>

Next == Configure \/ Begin \/ LoadTable \/ Erase \/ Scan \/ Write \/ Test \/ Succeed \/ Fail

Spec == Init /\ [][Next]_vars
=============================================================================
