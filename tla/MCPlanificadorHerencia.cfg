SPECIFICATION Spec
CONSTANTS
    Perfiles <- Herencia
    MaxHilos = 4
    MaxProcesos = 1
    MaxJoins = 0
CHECK_DEADLOCK FALSE
INVARIANTS
    ExclusionMutua
