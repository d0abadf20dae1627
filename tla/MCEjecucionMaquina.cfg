\* Every short program, alone until it creates a thread or a process.
SPECIFICATION FairSpec
CONSTANTS
    Casos <- EnsayosCortos
    Memory_Size = 6
    Tamanos = {0, 2, 3}
    MaxPid = 1
    MaxTid = 1
    MaxPC = 2
INVARIANTS
    TypeOK
    SegmentoPropio
PROPERTIES
    CumpleSinFaltas
    ProgramaTermina
CHECK_DEADLOCK FALSE
