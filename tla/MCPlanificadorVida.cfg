SPECIFICATION FairSpec
CONSTANTS
    Perfiles <- SinDesalojos
    MaxHilos = 4
    MaxProcesos = 2
    MaxJoins = 0
CHECK_DEADLOCK FALSE
INVARIANTS
    CadaUnoEnSuCola
    SinTrabas
PROPERTIES
    CumpleCicloDeVida
    PedidoRespondido
