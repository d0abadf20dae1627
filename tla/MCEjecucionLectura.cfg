\* A program that reads back the word that it wrote.
SPECIFICATION FairSpec
CONSTANTS
    Casos <- EnsayoDeLectura
    Memory_Size = 6
    Tamanos = {2}
    MaxPid = 1
    MaxTid = 1
    MaxPC = 2
PROPERTY CumpleMaquina
CHECK_DEADLOCK FALSE
