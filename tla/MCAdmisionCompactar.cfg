SPECIFICATION Spec
CONSTANTS
    Tamanos = {1, 2, 3}
    Iniciales = {1}
    Esquema = "DINAMICAS"
    Algoritmo = "FIRST"
    Memory_Size = 5
    Partitions <- DosFijas
    MaxPid = 4
    MaxPerdidas = 0
CHECK_DEADLOCK FALSE
INVARIANTS
    EsperaSoloSinEspacio
