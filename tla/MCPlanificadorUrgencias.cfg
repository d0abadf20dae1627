SPECIFICATION Spec
CONSTANTS
    Perfiles <- Urgencias
    MaxHilos = 4
    MaxProcesos = 2
    MaxJoins = 1
CHECK_DEADLOCK FALSE
INVARIANTS
    TypeOK
    EjecutaElMasUrgente
    UnSoloEnExec
    ColasCoherentes
