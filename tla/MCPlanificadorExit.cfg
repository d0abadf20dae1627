SPECIFICATION Spec
CONSTANTS
    Perfiles <- Carrera
    MaxHilos = 4
    MaxProcesos = 1
    MaxJoins = 0
CHECK_DEADLOCK FALSE
INVARIANTS
    ExitDefinitivo
