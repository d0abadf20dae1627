\* A process that creates another one.
SPECIFICATION Spec
CONSTANTS
    Casos <- EnsayoDeDos
    Memory_Size = 6
    Tamanos = {2}
    MaxPid = 1
    MaxTid = 2
    MaxPC = 2
INVARIANT EnOrden
CHECK_DEADLOCK FALSE
