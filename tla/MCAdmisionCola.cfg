SPECIFICATION FairSpec
CONSTANTS
    Tamanos = {1, 3}
    Iniciales = {2, 6}
    Esquema = "DINAMICAS"
    Algoritmo = "FIRST"
    Memory_Size = 5
    Partitions <- DosFijas
    MaxPid = 4
    MaxPerdidas = 1
CHECK_DEADLOCK FALSE
INVARIANTS
    TypeOK
    ColasEmparejadas
    PCBSAlDia
    NadieEsperaConHueco
    CadaUnoLoSuyo
PROPERTIES
    CumpleFila
    TodosEntran
