SPECIFICATION FairCycleSpec
CONSTANTS
    linux = linux
    tool = tool
    Intervals <- OffShortLong
    Floor = 2
    MinLife = 3
    MaxSaves = 2
    FaultSets = {{}, {"unrecorded"}, {"short lives"}}
    Pkgs <- TwoPackages
    Kernel = linux
    MaxVersion = 2
    CheckTime = 2
    Settings <- AllSettings
INVARIANTS NeverOverdue  DoneIsApplied RebootedForKernel
PROPERTIES  NoRebootMidTransaction
