SPECIFICATION Spec
CONSTANTS
    Manejadores = {h1, h2, h3}
    Nadie = Nadie
    Pids = {1, 2, 3}
    Tamano <- SuPid
    Esquema = "DINAMICAS"
    Algoritmo = "FIRST"
    Memory_Size = 5
    Partitions <- DosFijas
    Operaciones = {"crear", "finalizar", "compactar"}
    LoggerNil = FALSE
SYMMETRY SimetriaManejadores
CHECK_DEADLOCK FALSE
INVARIANTS
    TypeOK
    IInv
    Mosaico
    Aislamiento
    ConfirmadoTieneContexto
    SinFugas
    SinHuecosAdyacentes
PROPERTIES
    CompactarHaceLugar
    CumplePromesa
