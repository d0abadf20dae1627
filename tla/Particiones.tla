---------------------------- MODULE Particiones ----------------------------
(***************************************************************************)
(* The partition table of the memory server (src/memoria/memoria.go) and   *)
(* the map of process contexts that follows it.  Every HTTP request is     *)
(* served by a goroutine of its own, here a manejador; a step is what a    *)
(* goroutine does between two acquisitions of muContextoProcesos or of     *)
(* muParciones, and in the two loops that walk the table, one iteration.   *)
(***************************************************************************)
EXTENDS Integers, SequencesExt

CONSTANTS
    Manejadores,   \* the goroutines that may be serving a request at once
    Nadie,         \* the owner of a free mutex
    Pids,          \* the PIDs the kernel hands out
    Tamano,        \* Tamano[p] is the size the kernel asks for process p
    Esquema,       \* config.Scheme
    Algoritmo,     \* config.Search_algorithm
    Memory_Size,   \* config.Memory_Size
    Partitions,    \* config.Partitions, read only under FIJAS
    Operaciones,   \* the endpoints that clients use
    LoggerNil      \* TRUE in the committed build: Logger is never assigned

ASSUME AjustesValidos ==
    /\ Nadie \notin Manejadores
    /\ Pids \subseteq Nat
    /\ Tamano \in [Pids -> Nat]
    /\ Esquema \in {"FIJAS", "DINAMICAS"}
    /\ Algoritmo \in {"FIRST", "BEST", "WORST"}
    /\ Memory_Size \in Nat
    /\ Partitions \in Seq(Nat) /\ Partitions # <<>>
    /\ Operaciones \subseteq {"crear", "finalizar", "compactar"}
    /\ LoggerNil \in BOOLEAN

-----------------------------------------------------------------------------
(***************************************************************************)
(* InicializarMemoria.                                                     *)
(***************************************************************************)

Particionado == IF Esquema = "FIJAS" THEN Partitions ELSE <<Memory_Size>>

\* The successive values of the local variable inicio of InicializarMemoria.
Bordes == [1 .. Len(Particionado) + 1 -> 0 .. Memory_Size]

EsInicio(f) ==
    /\ f[1] = 0
    /\ \A i \in 1 .. Len(Particionado) : f[i + 1] = f[i] + Particionado[i]

\* The configured partitions fit in the memory.
ASSUME ParticionesEntran == \E f \in Bordes : EsInicio(f)

Inicio == CHOOSE f \in Bordes : EsInicio(f)

Total == Inicio[Len(Particionado) + 1]

\* utils.EspacioMemoria
Particion == [Base : Nat, Size : Nat, IsFree : BOOLEAN, Limit : Int, PID : Int]

ParticionLibre(base, size) ==
    [Base |-> base, Size |-> size, IsFree |-> TRUE,
     Limit |-> base + size - 1, PID |-> -1]

-----------------------------------------------------------------------------

VARIABLES
    particiones,             \* the table, in address order
    mapaContextosProcesos,   \* PID -> [Base, Limit]
    muContextoProcesos,      \* owner of the mutex
    muParciones,             \* owner of the mutex
    pc, pid,                 \* where each goroutine is, and the PID it serves
    hueco,                   \* what AsignarHueco returned to it
    respuesta,               \* the reply it will send
    confirmados,             \* the PIDs whose creation a client saw succeed
    indice,                  \* the local i of ConsolidarMemoria
    k, inicio, pedazoLibre, particionesOcupadas   \* locals of compactarMemoria

locales == <<indice, k, inicio, pedazoLibre, particionesOcupadas>>
vars == <<particiones, mapaContextosProcesos, muContextoProcesos, muParciones,
          pc, pid, hueco, respuesta, confirmados, locales>>

NingunPid == -1

\* h serves no process: it is idle, or it runs compactarMemoria.
SinPid(h) == pc[h] \in {"libre", "compactar", "compactando"}

Contexto == [Base : Int, Limit : Int]

SinHueco == [Base |-> -1, Limit |-> -1]

Pcs == {"libre", "crear", "asignar", "registrar", "finalizar", "liberar",
        "destruido", "consolidar", "consolidando", "compactar", "compactando",
        "salir"}

Respuestas == {"", "creado", "compactar", "error", "destruido",
               "noEncontrado", "perdida"}

TypeOK ==
    /\ particiones \in Seq(Particion)
    /\ DOMAIN mapaContextosProcesos \subseteq Pids
    /\ mapaContextosProcesos \in [DOMAIN mapaContextosProcesos -> Contexto]
    /\ muContextoProcesos \in Manejadores \cup {Nadie}
    /\ muParciones \in Manejadores \cup {Nadie}
    /\ pc \in [Manejadores -> Pcs]
    /\ pid \in [Manejadores -> Pids \cup {NingunPid}]
    /\ \A h \in Manejadores : SinPid(h) \/ pid[h] \in Pids
    /\ hueco \in [Manejadores -> Contexto]
    /\ respuesta \in [Manejadores -> Respuestas]
    /\ confirmados \subseteq Pids
    /\ indice \in Nat
    /\ k \in Nat
    /\ inicio \in Nat
    /\ pedazoLibre \in Nat
    /\ particionesOcupadas \in Seq(Particion)

Init ==
    /\ particiones = [i \in 1 .. Len(Particionado) |->
                         ParticionLibre(Inicio[i], Particionado[i])]
    /\ mapaContextosProcesos = <<>>
    /\ muContextoProcesos = Nadie
    /\ muParciones = Nadie
    /\ pc = [h \in Manejadores |-> "libre"]
    /\ pid = [h \in Manejadores |-> NingunPid]
    /\ hueco = [h \in Manejadores |-> SinHueco]
    /\ respuesta = [h \in Manejadores |-> ""]
    /\ confirmados = {}
    /\ indice = 1
    /\ k = 1
    /\ inicio = 0
    /\ pedazoLibre = 0
    /\ particionesOcupadas = <<>>

Va(h, de, a) == pc[h] = de /\ pc' = [pc EXCEPT ![h] = a]

-----------------------------------------------------------------------------
(***************************************************************************)
(* Arrival of a request.  The kernel has one request about a PID in flight *)
(* at a time and asks again for a process only while it has no "Proceso    *)
(* creado OK" for it (inicializarProceso of kernel.go keeps it in          *)
(* cola_new).                                                              *)
(***************************************************************************)

EnVuelo(p) == \E h \in Manejadores : pid[h] = p

\* Mutant of Llega: the handler keeps the PID of an earlier request.
LlegaConPidViejo(h, p, op) ==
    /\ op \in Operaciones
    /\ Va(h, "libre", op)
    /\ UNCHANGED <<particiones, mapaContextosProcesos, muContextoProcesos,
                   muParciones, pid, hueco, respuesta, locales>>

Llega(h, p, op) ==
    /\ op \in Operaciones
    /\ Va(h, "libre", op)
    /\ pid' = [pid EXCEPT ![h] = p]
    /\ UNCHANGED <<particiones, mapaContextosProcesos, muContextoProcesos,
                   muParciones, hueco, respuesta, locales>>

PedirCrear(h, p) ==
    /\ ~EnVuelo(p) /\ p \notin confirmados
    /\ Llega(h, p, "crear")
    /\ UNCHANGED confirmados

PedirFinalizar(h, p) ==
    /\ ~EnVuelo(p)
    /\ Llega(h, p, "finalizar")
    /\ confirmados' = confirmados \ {p}

PedirCompactar(h) ==
    /\ Llega(h, NingunPid, "compactar")
    /\ UNCHANGED confirmados

\* createProceso and finalizarProceso start by locking muContextoProcesos.
TomarContextos(h) ==
    /\ muContextoProcesos = Nadie
    /\ muContextoProcesos' = h
    /\ Va(h, "crear", "asignar") \/ Va(h, "finalizar", "liberar")
    /\ UNCHANGED <<particiones, mapaContextosProcesos, muParciones, pid, hueco,
                   respuesta, confirmados, locales>>

\* Mutant of Salir: any answer but an error counts as a created process, as
\* CreateProcesoHiloInicial of kernel.go has it.
SalirConfiando(h) ==
    /\ Va(h, "salir", "libre")
    /\ muContextoProcesos' = Nadie
    /\ confirmados' = IF respuesta[h] \in {"creado", "compactar"}
                      THEN confirmados \cup {pid[h]} ELSE confirmados
    /\ respuesta' = [respuesta EXCEPT ![h] = ""]
    /\ hueco' = [hueco EXCEPT ![h] = SinHueco]
    /\ pid' = [pid EXCEPT ![h] = NingunPid]
    /\ UNCHANGED <<particiones, mapaContextosProcesos, muParciones, locales>>

\* The deferred Unlock, when the handler returns or panics.
Salir(h) ==
    /\ Va(h, "salir", "libre")
    /\ muContextoProcesos' = Nadie
    /\ confirmados' = IF respuesta[h] = "creado"
                      THEN confirmados \cup {pid[h]} ELSE confirmados
    /\ respuesta' = [respuesta EXCEPT ![h] = ""]
    /\ hueco' = [hueco EXCEPT ![h] = SinHueco]
    /\ pid' = [pid EXCEPT ![h] = NingunPid]
    /\ UNCHANGED <<particiones, mapaContextosProcesos, muParciones, locales>>

-----------------------------------------------------------------------------
(***************************************************************************)
(* createProceso and AsignarHueco.                                         *)
(***************************************************************************)

Huecos(size) ==
    {i \in DOMAIN particiones : particiones[i].IsFree /\ particiones[i].Size >= size}

\* The loop keeps a candidate until a later hole is strictly better.
Prefiere(i, j) ==
    LET si == particiones[i].Size
        sj == particiones[j].Size
    IN  \/ Algoritmo = "FIRST" /\ i <= j
        \/ Algoritmo = "BEST"  /\ (si < sj \/ (si = sj /\ i <= j))
        \/ Algoritmo = "WORST" /\ (si > sj \/ (si = sj /\ i <= j))

Elige(i, size) == i \in Huecos(size) /\ \A j \in Huecos(size) : Prefiere(i, j)

Libre(i) == IF particiones[i].IsFree THEN particiones[i].Size ELSE 0

totalHuecosLibres == MapThenSumSet(Libre, DOMAIN particiones)

Parte(i, size) == Esquema = "DINAMICAS" /\ particiones[i].Size > size

\* Mutant of nuevaParticion: the rest of the hole starts one byte late.
nuevaParticionCorrida(i, size) ==
    LET p == particiones[i]
    IN  [Base |-> p.Base + size + 1, Size |-> p.Size - size, IsFree |-> TRUE,
         Limit |-> p.Base + p.Size - size - 1, PID |-> 0]

\* Its Limit is the one the code computes, and its PID is Go's zero value.
nuevaParticion(i, size) ==
    LET p == particiones[i]
    IN  [Base |-> p.Base + size, Size |-> p.Size - size, IsFree |-> TRUE,
         Limit |-> p.Base + p.Size - size - 1, PID |-> 0]

Ocupada(x, p, size) == [x EXCEPT !.IsFree = FALSE, !.PID = p, !.Size = size]

Asignada(i, p, size) ==
    LET x == particiones[i] IN
    IF Parte(i, size)
    THEN InsertAt([particiones EXCEPT ![i] = Ocupada(x, p, size)], i + 1,
                  nuevaParticion(i, size))
    ELSE [particiones EXCEPT ![i] = Ocupada(x, p, x.Size)]

\* Mutant of AsignarHueco: the limit is one past the last byte asked for.
AsignarHuecoDeMas(h) ==
    LET size == Tamano[pid[h]] IN
    /\ Va(h, "asignar", "registrar")
    /\ muParciones = Nadie
    /\ \E i \in DOMAIN particiones :
        /\ Elige(i, size)
        /\ particiones' = Asignada(i, pid[h], size)
        /\ hueco' = [hueco EXCEPT ![h] =
               [Base |-> particiones[i].Base, Limit |-> particiones[i].Base + size]]
    /\ UNCHANGED <<mapaContextosProcesos, muContextoProcesos, muParciones, pid,
                   respuesta, confirmados, locales>>

AsignarHueco(h) ==
    LET size == Tamano[pid[h]] IN
    /\ Va(h, "asignar", "registrar")
    /\ muParciones = Nadie
    /\ \E i \in DOMAIN particiones :
        /\ Elige(i, size)
        /\ particiones' = Asignada(i, pid[h], size)
        /\ hueco' = [hueco EXCEPT ![h] =
               [Base |-> particiones[i].Base, Limit |-> particiones[i].Base + size - 1]]
    /\ UNCHANGED <<mapaContextosProcesos, muContextoProcesos, muParciones, pid,
                   respuesta, confirmados, locales>>

NoHayHueco(h) ==
    LET size == Tamano[pid[h]] IN
    /\ Va(h, "asignar", "salir")
    /\ muParciones = Nadie
    /\ Huecos(size) = {}
    /\ respuesta' = [respuesta EXCEPT ![h] =
           IF Esquema = "DINAMICAS" /\ totalHuecosLibres >= size
           THEN "compactar" ELSE "error"]
    /\ UNCHANGED <<particiones, mapaContextosProcesos, muContextoProcesos,
                   muParciones, pid, hueco, confirmados, locales>>

\* Logger.Info panics on a nil Logger after the reply was written to the
\* buffer: the connection is dropped and the client never sees the reply.
RegistrarContexto(h) ==
    /\ Va(h, "registrar", "salir")
    /\ mapaContextosProcesos' =
           [p \in DOMAIN mapaContextosProcesos \cup {pid[h]} |->
               IF p = pid[h] THEN hueco[h] ELSE mapaContextosProcesos[p]]
    /\ respuesta' = [respuesta EXCEPT ![h] = IF LoggerNil THEN "perdida" ELSE "creado"]
    /\ UNCHANGED <<particiones, muContextoProcesos, muParciones, pid, hueco,
                   confirmados, locales>>

-----------------------------------------------------------------------------
(***************************************************************************)
(* finalizarProceso, liberarParticionPorPID and ConsolidarMemoria.         *)
(***************************************************************************)

DePid(p) == {i \in DOMAIN particiones : particiones[i].PID = p}

EsPrimera(i, p) == i \in DePid(p) /\ \A j \in DePid(p) : i <= j

\* Mutant of Liberada: the partition loses its owner but stays occupied.
LiberadaOcupada(x) == [x EXCEPT !.PID = -1]

Liberada(x) == [x EXCEPT !.IsFree = TRUE, !.PID = -1]

\* Mutant of liberarParticionPorPID: the context outlives the partition.
liberarSinContexto(h) ==
    /\ Va(h, "liberar", "destruido")
    /\ muParciones = Nadie
    /\ \E i \in DOMAIN particiones :
        /\ EsPrimera(i, pid[h])
        /\ particiones' = [particiones EXCEPT ![i] = Liberada(@)]
    /\ UNCHANGED <<mapaContextosProcesos, muContextoProcesos, muParciones, pid,
                   hueco, respuesta, confirmados, locales>>

liberarParticionPorPID(h) ==
    /\ Va(h, "liberar", "destruido")
    /\ muParciones = Nadie
    /\ \E i \in DOMAIN particiones :
        /\ EsPrimera(i, pid[h])
        /\ particiones' = [particiones EXCEPT ![i] = Liberada(@)]
    /\ mapaContextosProcesos' =
           [p \in DOMAIN mapaContextosProcesos \ {pid[h]} |-> mapaContextosProcesos[p]]
    /\ UNCHANGED <<muContextoProcesos, muParciones, pid, hueco, respuesta,
                   confirmados, locales>>

ProcesoNoEncontrado(h) ==
    /\ Va(h, "liberar", "salir")
    /\ muParciones = Nadie
    /\ DePid(pid[h]) = {}
    /\ respuesta' = [respuesta EXCEPT ![h] = "noEncontrado"]
    /\ UNCHANGED <<particiones, mapaContextosProcesos, muContextoProcesos,
                   muParciones, pid, hueco, confirmados, locales>>

\* The Logger.Info between the reply and ConsolidarMemoria.
ProcesoDestruido(h) ==
    /\ Va(h, "destruido",
          IF ~LoggerNil /\ Esquema = "DINAMICAS" THEN "consolidar" ELSE "salir")
    /\ respuesta' = [respuesta EXCEPT ![h] = IF LoggerNil THEN "perdida" ELSE "destruido"]
    /\ UNCHANGED <<particiones, mapaContextosProcesos, muContextoProcesos,
                   muParciones, pid, hueco, confirmados, locales>>

ConsolidarMemoria(h) ==
    /\ Va(h, "consolidar", "consolidando")
    /\ muParciones = Nadie
    /\ muParciones' = h
    /\ UNCHANGED <<particiones, mapaContextosProcesos, muContextoProcesos, pid,
                   hueco, respuesta, confirmados, locales>>

Fusionables(i) == particiones[i].IsFree /\ particiones[i + 1].IsFree

Unida(x, y) == [x EXCEPT !.Size = @ + y.Size, !.Limit = y.Limit]

Fusionada(i) ==
    RemoveAt([particiones EXCEPT ![i] = Unida(@, particiones[i + 1])], i + 1)

\* Mutant of ConsolidarPaso: the index advances after a merge too.
ConsolidarPasoLargo(h) ==
    /\ pc[h] = "consolidando"
    /\ indice < Len(particiones)
    /\ particiones' = IF Fusionables(indice) THEN Fusionada(indice) ELSE particiones
    /\ indice' = indice + 1
    /\ UNCHANGED <<mapaContextosProcesos, muContextoProcesos, muParciones, pc,
                   pid, hueco, respuesta, confirmados, k, inicio,
                   pedazoLibre, particionesOcupadas>>

ConsolidarPaso(h) ==
    /\ pc[h] = "consolidando"
    /\ indice < Len(particiones)
    /\ \/ Fusionables(indice) /\ particiones' = Fusionada(indice) /\ indice' = indice
       \/ ~Fusionables(indice) /\ particiones' = particiones /\ indice' = indice + 1
    /\ UNCHANGED <<mapaContextosProcesos, muContextoProcesos, muParciones, pc,
                   pid, hueco, respuesta, confirmados, k, inicio,
                   pedazoLibre, particionesOcupadas>>

ConsolidarFin(h) ==
    /\ Va(h, "consolidando", "salir")
    /\ indice >= Len(particiones)
    /\ muParciones' = Nadie
    /\ indice' = 1
    /\ UNCHANGED <<particiones, mapaContextosProcesos, muContextoProcesos, pid,
                   hueco, respuesta, confirmados, k, inicio,
                   pedazoLibre, particionesOcupadas>>

-----------------------------------------------------------------------------
(***************************************************************************)
(* compactarMemoria: muParciones is held from the first step to the last   *)
(* and every occupied partition takes muContextoProcesos as well, in       *)
(* cambiarContextoProceso.                                                 *)
(***************************************************************************)

CompactarInicio(h) ==
    /\ Va(h, "compactar", "compactando")
    /\ muParciones = Nadie
    /\ muParciones' = h
    /\ UNCHANGED <<particiones, mapaContextosProcesos, muContextoProcesos, pid,
                   hueco, respuesta, confirmados, locales>>

\* Mutant of CompactarLibre: the last hole replaces the sum of the holes.
CompactarLibreUltima(h) ==
    /\ pc[h] = "compactando"
    /\ k <= Len(particiones) /\ particiones[k].IsFree
    /\ pedazoLibre' = particiones[k].Size
    /\ k' = k + 1
    /\ UNCHANGED <<particiones, mapaContextosProcesos, muContextoProcesos,
                   muParciones, pc, pid, hueco, respuesta, confirmados, indice,
                   inicio, particionesOcupadas>>

CompactarLibre(h) ==
    /\ pc[h] = "compactando"
    /\ k <= Len(particiones) /\ particiones[k].IsFree
    /\ pedazoLibre' = pedazoLibre + particiones[k].Size
    /\ k' = k + 1
    /\ UNCHANGED <<particiones, mapaContextosProcesos, muContextoProcesos,
                   muParciones, pc, pid, hueco, respuesta, confirmados, indice,
                   inicio, particionesOcupadas>>

Movida(p) == [p EXCEPT !.Base = inicio, !.Limit = inicio + p.Size - 1]

\* Mutant of cambiarContextoProceso: the change stays in the local copy.
cambiarCopia(base, limit, p) == mapaContextosProcesos

cambiarContextoProceso(base, limit, p) ==
    [q \in DOMAIN mapaContextosProcesos |->
        IF q = p THEN [Base |-> base, Limit |-> limit] ELSE mapaContextosProcesos[q]]

CompactarOcupada(h) ==
    /\ pc[h] = "compactando"
    /\ k <= Len(particiones) /\ ~particiones[k].IsFree
    /\ muContextoProcesos = Nadie
    /\ LET m == Movida(particiones[k]) IN
        /\ mapaContextosProcesos' = cambiarContextoProceso(m.Base, m.Limit, m.PID)
        /\ particionesOcupadas' = Append(particionesOcupadas, m)
        /\ inicio' = inicio + m.Size
    /\ k' = k + 1
    /\ UNCHANGED <<particiones, muContextoProcesos, muParciones, pc, pid, hueco,
                   respuesta, confirmados, indice, pedazoLibre>>

CompactarFin(h) ==
    /\ Va(h, "compactando", "libre")
    /\ k > Len(particiones)
    /\ particiones' = IF pedazoLibre = 0 THEN particiones
                      ELSE Append(particionesOcupadas, ParticionLibre(inicio, pedazoLibre))
    /\ muParciones' = Nadie
    /\ k' = 1 /\ inicio' = 0 /\ pedazoLibre' = 0 /\ particionesOcupadas' = <<>>
    /\ UNCHANGED <<mapaContextosProcesos, muContextoProcesos, pid, hueco,
                   respuesta, confirmados, indice>>

-----------------------------------------------------------------------------

Avanza(h) ==
    \/ TomarContextos(h) \/ Salir(h)
    \/ AsignarHueco(h) \/ NoHayHueco(h) \/ RegistrarContexto(h)
    \/ liberarParticionPorPID(h) \/ ProcesoNoEncontrado(h) \/ ProcesoDestruido(h)
    \/ ConsolidarMemoria(h) \/ ConsolidarPaso(h) \/ ConsolidarFin(h)
    \/ CompactarInicio(h) \/ CompactarLibre(h) \/ CompactarOcupada(h) \/ CompactarFin(h)

Next == \E h \in Manejadores :
    \/ \E p \in Pids : PedirCrear(h, p) \/ PedirFinalizar(h, p)
    \/ PedirCompactar(h)
    \/ Avanza(h)

Spec == Init /\ [][Next]_vars

\* A goroutine that can run does, and sync.Mutex starves nobody.
FairSpec == Spec /\ \A h \in Manejadores : SF_vars(Avanza(h))

-----------------------------------------------------------------------------
(***************************************************************************)
(* Properties.                                                             *)
(***************************************************************************)

Fin(x) == x.Base + x.Size

Encadenadas(s) == \A i \in 1 .. Len(s) - 1 : s[i + 1].Base = Fin(s[i])

\* The table covers the memory with no gap and no overlap, whatever sequence
\* of splits, frees, merges and compactions of concurrent requests made it.
Mosaico ==
    /\ particiones # <<>>
    /\ particiones[1].Base = 0
    /\ Encadenadas(particiones)
    /\ Fin(particiones[Len(particiones)]) = Total

Ajenos(c, d) == c.Limit < d.Base \/ d.Limit < c.Base

\* Two processes never own the same byte, and every process owns at least the
\* bytes it asked for, all of them inside the memory: createProceso,
\* finalizarProceso and every single step of compactarMemoria keep it so.
Aislamiento ==
    \A p \in DOMAIN mapaContextosProcesos :
        LET c == mapaContextosProcesos[p] IN
        /\ 0 <= c.Base /\ c.Limit < Total
        /\ Tamano[p] <= c.Limit - c.Base + 1
        /\ \A q \in DOMAIN mapaContextosProcesos \ {p} :
               \/ c.Limit < c.Base
               \/ mapaContextosProcesos[q].Limit < mapaContextosProcesos[q].Base
               \/ Ajenos(c, mapaContextosProcesos[q])

\* A process whose creation a client was told of keeps its context until a
\* client asks to end it.
ConfirmadoTieneContexto == confirmados \subseteq DOMAIN mapaContextosProcesos

PorRegistrar(p) == \E h \in Manejadores : pc[h] = "registrar" /\ pid[h] = p

\* No partition stays occupied on behalf of nobody: its PID has a context (or
\* createProceso is about to write it) and no second partition.  PID 0 is left
\* out: nuevaParticion leaves it in the rest of a split too, and when that rest
\* comes first liberarParticionPorPID frees it in place of process 0's partition.
SinFugas ==
    \A i \in DOMAIN particiones :
        ~particiones[i].IsFree /\ particiones[i].PID # 0 =>
            LET p == particiones[i].PID IN
            /\ p \in DOMAIN mapaContextosProcesos \/ PorRegistrar(p)
            /\ \A j \in DOMAIN particiones \ {i} :
                   ~particiones[j].IsFree => particiones[j].PID # p

Consolidando == \E h \in Manejadores :
    pc[h] \in {"destruido", "consolidar", "consolidando"}

\* Under DINAMICAS two neighbouring holes exist only while a finalizarProceso
\* is on its way to merge them (ConsolidarMemoria, "consolidar las adyacentes
\* que esten libres").
SinHuecosAdyacentes ==
    Esquema = "DINAMICAS" /\ ~Consolidando =>
        \A i \in 1 .. Len(particiones) - 1 : ~Fusionables(i)

\* When compactarMemoria ends, no free byte was lost or invented, and every
\* size the kernel was told to compact for ("compactar": the holes add up to
\* it) fits in one hole.  With no free byte at all it makes no room: a process
\* of size 0 is told to compact then too, and memoria leaves no hole for it.
CompactarHaceLugar ==
    [][\A h \in Manejadores : CompactarFin(h) =>
          /\ totalHuecosLibres' = totalHuecosLibres
          /\ totalHuecosLibres > 0 =>
                \A p \in Pids :
                    totalHuecosLibres >= Tamano[p] => Huecos(Tamano[p])' # {}]_vars

\* Fixed partitions keep their place and size while processes come and go.
FijasIntactas ==
    [][Esquema = "FIJAS" =>
          /\ Len(particiones') = Len(particiones)
          /\ \A i \in DOMAIN particiones :
                 /\ particiones'[i].Base = particiones[i].Base
                 /\ particiones'[i].Size = particiones[i].Size]_particiones

\* Every request is answered and gives its mutexes back ("Se libera el lock sin
\* importar si hay exito o error", createProceso).
TodaPeticionTermina == \A h \in Manejadores : pc[h] # "libre" ~> pc[h] = "libre"

\* What the kernel and the CPU may rely on (module Segmentos).
Promesa == INSTANCE Segmentos WITH
    Bytes <- Total, Exacto <- Esquema = "DINAMICAS", segmentos <- mapaContextosProcesos

CumplePromesa == Promesa!Spec
=============================================================================
