----------------------------- MODULE MCEraseAll -----------------------------
(* Small flashes and erase jobs for EraseAll.                              *)
EXTENDS EraseAll

Empty == [b \in Bank |-> {}]

\* Bank 0 comes with a defective group and a defective system block.
SomeDbt == [b \in Bank |-> IF b = 0 THEN {1} ELSE {}]
SomeSys == [b \in Bank |-> IF b = 0 THEN {0} ELSE {1}]

Format(mode, pro, rdtImg, twice) ==
    [ caller |-> "format", mode |-> mode, dbtDone |-> "INIT", rebuild |-> FALSE,
      ersMode |-> IF pro THEN "ERASE_ALL" ELSE "ERASE_ALL_WITH_DBT",
      pro |-> pro, rdtImg |-> rdtImg, twice |-> twice, dbt |-> Empty, sysDbt |-> Empty ]

Config(mode, dbtDone, rebuild, twice) ==
    [ caller |-> "config", mode |-> mode, dbtDone |-> dbtDone, rebuild |-> rebuild,
      ersMode |-> "ERASE_ALL_WITH_DBT", pro |-> TRUE, rdtImg |-> FALSE,
      twice |-> twice, dbt |-> SomeDbt, sysDbt |-> SomeSys ]

Nand(ersMode, mode, dbtDone) ==
    [ caller |-> "nand", mode |-> mode, dbtDone |-> dbtDone, rebuild |-> FALSE,
      ersMode |-> ersMode, pro |-> TRUE, rdtImg |-> FALSE, twice |-> FALSE,
      dbt |-> IF dbtDone = "NONE" THEN Empty ELSE SomeDbt,
      sysDbt |-> IF dbtDone = "NONE" THEN Empty ELSE SomeSys ]

FormatJobs ==
    {Format(mode, pro, rdtImg, twice) :
        mode \in {"INHERIT_OR_FORMAT", "FORCE_FORMAT"}, pro \in BOOLEAN,
        rdtImg \in {FALSE}, twice \in BOOLEAN}
    \cup {Format("FORCE_FORMAT", TRUE, TRUE, FALSE)}

ConfigJobs ==
    {Config(mode, "RDT", rebuild, FALSE) :
        mode \in {"INHERIT_OR_FORMAT", "DEFECT_BAD_BLOCK"}, rebuild \in BOOLEAN}
    \cup {Config("FORCE_INHERIT", "SYSTEM", FALSE, twice) : twice \in BOOLEAN}

NandJobs ==
    {Nand("ERASE_ALL", "FORCE_FORMAT", "NONE"),
     Nand("ERASE_ALL_WITH_DBT", "FORCE_FORMAT", "NONE"),
     Nand("ERASE_ALL_WITH_DBT", "FORMAT_ERASE_NONDEFECT", "FACTORY")}

InheritJobs == ConfigJobs \cup NandJobs

EveryJob == FormatJobs \cup InheritJobs

TwiceJobs == {j \in FormatJobs : j.twice}
=============================================================================
