SPECIFICATION FairSpec
CONSTANTS
    Manejadores = {h1, h2}
    Nadie = Nadie
    Pids = {1, 2}
    Tamano <- SuPid
    Esquema = "DINAMICAS"
    Algoritmo = "FIRST"
    Memory_Size = 4
    Partitions <- DosFijas
    Operaciones = {"crear", "finalizar", "compactar"}
    LoggerNil = FALSE
CHECK_DEADLOCK FALSE
PROPERTIES
    TodaPeticionTermina
