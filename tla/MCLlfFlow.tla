----------------------------- MODULE MCLlfFlow -----------------------------
(***************************************************************************)
(* Configurations for model checking LlfFlow.                              *)
(***************************************************************************)
EXTENDS LlfFlow

Of(mode, late, faults) ==
    [mode |-> mode, rdtTag |-> FALSE, normalEn |-> FALSE, scanOnly |-> FALSE,
     late |-> late, faults |-> faults]

\* normalEn is read of the image of the test only.
Distinct == {c \in Config : c.normalEn => c.rdtTag}

\* With and without faults, for the sake of liveness.
SoundConfigs == {c \in Distinct : Sound(c) /\ (c.late => c.faults) /\ (c.rdtTag => ~c.late)}

\* A fault only adds steps: for safety they may always be there.  But it may be the only
\* way out, so that for liveness there has to be a command without.
AllConfigs == {c \in Distinct : c.late => c.faults}

ScanThenEraseConfigs == {Of("FORMAT_ERASE_NONDEFECT", FALSE, FALSE)}

FallBackConfigs == {Of("INHERIT_OR_FORMAT", TRUE, FALSE)}

=============================================================================
