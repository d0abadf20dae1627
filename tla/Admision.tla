------------------------------ MODULE Admision ------------------------------
(***************************************************************************)
(* The admission of processes: inicializarProceso, createProceso,          *)
(* CreateProcesoHiloInicial and finalizarProceso of src/kernel/kernel.go,  *)
(* composed with the partition table of src/memoria/memoria.go (module     *)
(* Particiones, whose operators do what memoria does to the table).        *)
(*                                                                         *)
(* The CPU waits for the reply of each system call, so one handler runs at *)
(* a time; a step ends where the kernel has the reply of memoria.  That    *)
(* the planner receives what crearHilo and finalizarProceso send to it is  *)
(* the subject of Planificador and is taken for granted here.              *)
(***************************************************************************)
EXTENDS Integers, SequencesExt

CONSTANTS
    Tamanos,       \* the sizes that programs ask for
    Iniciales,     \* the sizes the first process may have, an argument of the kernel
    Esquema, Algoritmo, Memory_Size, Partitions,   \* config of memoria
    MaxPid,        \* bound on PCB_ID
    MaxPerdidas    \* bound on the replies of memoria that are lost

ASSUME AjustesDeAdmision ==
    /\ Tamanos \subseteq Nat /\ Iniciales \subseteq Nat
    /\ MaxPid \in Nat /\ MaxPerdidas \in Nat

VARIABLES
    particiones,           \* the table of memoria
    PCB_ID,                \* the last PID that was given
    PCBS,                  \* [ID, TIDS]
    cola_new, cola_newAux, \* the PIDs of the PCBs they hold
    cola_procesosToCreate, \* what was asked for, [RutaArchivo, SizeProceso]
    paso,                  \* where the handler is
    nuevoPCB,              \* the PID that inicializarProceso works on
    porRegistrar,          \* the PID that createProceso will append to PCBS
    cargados,              \* PID -> the Proceso its first thread was created from
    pedido,                \* history: PID -> the Proceso its creator asked for
    perdidas               \* replies lost so far

colas == <<cola_new, cola_newAux, cola_procesosToCreate>>
vars  == <<particiones, PCB_ID, PCBS, colas, paso, nuevoPCB, porRegistrar,
           cargados, pedido, perdidas>>

\* memoria, for what it does to its table; the rest of it is not used.
M == INSTANCE Particiones WITH
    Manejadores <- {}, Nadie <- "", Pids <- {}, Tamano <- <<>>, Operaciones <- {},
    LoggerNil <- FALSE, mapaContextosProcesos <- <<>>, muContextoProcesos <- "",
    muParciones <- "", pc <- <<>>, pid <- <<>>, hueco <- <<>>, respuesta <- <<>>,
    confirmados <- {}, indice <- 1, k <- 1, inicio <- 0, pedazoLibre <- 0,
    particionesOcupadas <- <<>>

ASSUME AjustesDeMemoria ==
    /\ Esquema \in {"FIJAS", "DINAMICAS"}
    /\ Algoritmo \in {"FIRST", "BEST", "WORST"}
    /\ Memory_Size \in Nat
    /\ Partitions \in Seq(Nat) /\ Partitions # <<>>
    /\ \E f \in M!Bordes : M!EsInicio(f)

Ninguno == -1
Pids    == 0 .. MaxPid

\* The program is named after the request: no two requests are confused.
Proceso == [RutaArchivo : Pids, SizeProceso : Tamanos \cup Iniciales]

Rango(s) == {s[i] : i \in DOMAIN s}

TypeOK ==
    /\ particiones \in Seq(M!Particion)
    /\ PCB_ID \in -1 .. MaxPid
    /\ PCBS \in Seq([ID : Pids, TIDS : {<<>>, <<0>>}])
    /\ cola_new \in Seq(Pids) /\ cola_newAux \in Seq(Pids)
    /\ cola_procesosToCreate \in Seq(Proceso)
    /\ paso \in {"inicio", "libre", "memoria", "listo"}
    /\ nuevoPCB \in Pids \cup {Ninguno} /\ porRegistrar \in Pids \cup {Ninguno}
    /\ DOMAIN cargados \subseteq Pids /\ Rango(cargados) \subseteq Proceso
    /\ pedido \in [0 .. PCB_ID -> Proceso]
    /\ perdidas \in 0 .. MaxPerdidas

Init ==
    /\ particiones = [i \in 1 .. Len(M!Particionado) |->
                         M!ParticionLibre(M!Inicio[i], M!Particionado[i])]
    /\ PCB_ID = -1 /\ PCBS = <<>>
    /\ cola_new = <<>> /\ cola_newAux = <<>> /\ cola_procesosToCreate = <<>>
    /\ paso = "inicio" /\ nuevoPCB = Ninguno /\ porRegistrar = Ninguno
    /\ cargados = <<>> /\ pedido = <<>> /\ perdidas = 0

Con(f, p, x) == [q \in DOMAIN f \cup {p} |-> IF q = p THEN x ELSE f[q]]
Sin(f, p)    == [q \in DOMAIN f \ {p} |-> f[q]]

-----------------------------------------------------------------------------
(***************************************************************************)
(* What memoria does.                                                      *)
(***************************************************************************)

\* createProceso of memoria: the table when it answers "Proceso creado OK".
Aloja(p, size) == \E i \in DOMAIN particiones :
    M!Elige(i, size) /\ particiones' = M!Asignada(i, p, size)

\* Both refusals, "compactar" and "No se pudo inicializar el proceso".
Rechaza(size) == M!Huecos(size) = {} /\ UNCHANGED particiones

Une(t, x) ==
    IF t # <<>> /\ Last(t).IsFree /\ x.IsFree
    THEN Append(Front(t), M!Unida(Last(t), x)) ELSE Append(t, x)

\* Mutant of ConsolidarMemoria: neighbouring holes are not merged.
ConsolidarNada(t) == t

ConsolidarMemoria(t) == IF Esquema = "DINAMICAS" THEN FoldLeft(Une, <<>>, t) ELSE t

\* finalizarProceso of memoria; a PID without a partition is answered 404.
Libera(p) ==
    \/ /\ M!DePid(p) = {}
       /\ UNCHANGED particiones
    \/ \E i \in DOMAIN particiones :
          /\ M!EsPrimera(i, p)
          /\ particiones' =
                 ConsolidarMemoria([particiones EXCEPT ![i] = M!Liberada(@)])

-----------------------------------------------------------------------------
(***************************************************************************)
(* What the kernel does.                                                   *)
(***************************************************************************)

\* The kernel starts: any reply but "Compactar", which memoria never sends,
\* is taken for a success.  PCBS is appended to in the same step, although
\* crearHilo waits for the planner before that (192); the error of a memoria
\* that does not answer (186), which leaves no process, is left out.
CreateProcesoHiloInicial(size) ==
    LET p == PCB_ID + 1
        x == [RutaArchivo |-> p, SizeProceso |-> size]
    IN  /\ paso = "inicio"
        /\ Aloja(p, size) \/ Rechaza(size)
        /\ PCB_ID' = p
        /\ PCBS' = Append(PCBS, [ID |-> p, TIDS |-> <<0>>])
        /\ cargados' = Con(cargados, p, x)
        /\ pedido' = Con(pedido, p, x)
        /\ paso' = "libre"
        /\ UNCHANGED <<colas, nuevoPCB, porRegistrar, perdidas>>

Inicializa(p) == paso' = "memoria" /\ nuevoPCB' = p

Encola(p) ==
    /\ cola_newAux' = Append(cola_newAux, p)
    /\ PCBS' = Append(PCBS, [ID |-> p, TIDS |-> <<>>])
    /\ UNCHANGED <<cola_new, paso, nuevoPCB, porRegistrar>>

\* Mutant of createProceso: the PID counter does not advance.
createProcesoMismoPID(size) ==
    LET p == PCB_ID + 1
        x == [RutaArchivo |-> p, SizeProceso |-> size]
    IN  /\ paso = "libre" /\ cargados # <<>> /\ p \in Pids
        /\ pedido' = Con(pedido, p, x)
        /\ cola_procesosToCreate' = Append(cola_procesosToCreate, x)
        /\ \/ /\ cola_new = <<>>
              /\ Inicializa(p) /\ porRegistrar' = p
              /\ UNCHANGED <<cola_new, cola_newAux, PCBS>>
           \/ cola_new # <<>> /\ Encola(p)
        /\ UNCHANGED <<PCB_ID, particiones, cargados, perdidas>>

\* A program that runs asks for a process (PROCESS_CREATE).
createProceso(size) ==
    LET p == PCB_ID + 1
        x == [RutaArchivo |-> p, SizeProceso |-> size]
    IN  /\ paso = "libre" /\ cargados # <<>> /\ p \in Pids
        /\ PCB_ID' = p
        /\ pedido' = Con(pedido, p, x)
        /\ cola_procesosToCreate' = Append(cola_procesosToCreate, x)
        /\ \/ /\ cola_new = <<>>
              /\ Inicializa(p) /\ porRegistrar' = p
              /\ UNCHANGED <<cola_new, cola_newAux, PCBS>>
           \/ cola_new # <<>> /\ Encola(p)
        /\ UNCHANGED <<particiones, cargados, perdidas>>

\* Mutant of procesToCreate: the newest request, not the oldest.
procesToCreateNuevo == Last(cola_procesosToCreate)

\* inicializarProceso asks for the size at the head of cola_procesosToCreate,
\* whatever PCB it was given.
procesToCreate == Head(cola_procesosToCreate)

\* Mutant of SigueOTermina: who came first among those that wait goes last.
SigueAlReves ==
    \/ /\ cola_newAux # <<>>
       /\ Inicializa(Last(cola_newAux)) /\ cola_newAux' = Front(cola_newAux)
    \/ /\ cola_newAux = <<>>
       /\ paso' = "listo" /\ nuevoPCB' = Ninguno /\ UNCHANGED cola_newAux

\* The recursive call of inicializarProceso, for the next one that waits.
SigueOTermina ==
    \/ /\ cola_newAux # <<>>
       /\ Inicializa(Head(cola_newAux)) /\ cola_newAux' = Tail(cola_newAux)
    \/ /\ cola_newAux = <<>>
       /\ paso' = "listo" /\ nuevoPCB' = Ninguno /\ UNCHANGED cola_newAux

ConHilo(t) == IF t.ID = nuevoPCB THEN [t EXCEPT !.TIDS = <<0>>] ELSE t

\* Mutant of Creado: the request that was served stays at the head.
CreadoSinSacar ==
    /\ paso = "memoria"
    /\ Aloja(nuevoPCB, procesToCreate.SizeProceso)
    /\ cargados' = Con(cargados, nuevoPCB, procesToCreate)
    /\ PCBS' = [i \in DOMAIN PCBS |-> ConHilo(PCBS[i])]
    /\ cola_new' = <<>>
    /\ SigueOTermina
    /\ UNCHANGED <<cola_procesosToCreate, PCB_ID, porRegistrar, pedido, perdidas>>

\* Mutant of Creado: the PCB that waited is not replaced in PCBS.
CreadoSinPCB ==
    /\ paso = "memoria"
    /\ Aloja(nuevoPCB, procesToCreate.SizeProceso)
    /\ cargados' = Con(cargados, nuevoPCB, procesToCreate)
    /\ cola_new' = <<>>
    /\ cola_procesosToCreate' = Tail(cola_procesosToCreate)
    /\ SigueOTermina
    /\ UNCHANGED <<PCBS, PCB_ID, porRegistrar, pedido, perdidas>>

\* inicializarProceso reads "Proceso creado OK".
Creado ==
    /\ paso = "memoria"
    /\ Aloja(nuevoPCB, procesToCreate.SizeProceso)
    /\ cargados' = Con(cargados, nuevoPCB, procesToCreate)
    /\ PCBS' = [i \in DOMAIN PCBS |-> ConHilo(PCBS[i])]
    /\ cola_new' = <<>>
    /\ cola_procesosToCreate' = Tail(cola_procesosToCreate)
    /\ SigueOTermina
    /\ UNCHANGED <<PCB_ID, porRegistrar, pedido, perdidas>>

EsElPrimero(p) == cola_new # <<>> /\ Head(cola_new) = p

\* inicializarProceso reads anything else.
SigueEnNew ==
    /\ cola_new' = IF EsElPrimero(nuevoPCB) THEN cola_new ELSE Append(cola_new, nuevoPCB)
    /\ paso' = "listo" /\ nuevoPCB' = Ninguno
    /\ UNCHANGED <<PCBS, cola_newAux, cola_procesosToCreate, PCB_ID, porRegistrar,
                   cargados, pedido>>

\* memoria refuses; a request that never reaches it (395) is left out.
NoCreado ==
    /\ paso = "memoria"
    /\ Rechaza(procesToCreate.SizeProceso)
    /\ SigueEnNew
    /\ UNCHANGED perdidas

\* memoria did the work and the kernel did not get the reply.
RespuestaPerdida ==
    /\ paso = "memoria" /\ perdidas < MaxPerdidas
    /\ Aloja(nuevoPCB, procesToCreate.SizeProceso)
    /\ SigueEnNew
    /\ perdidas' = perdidas + 1

\* createProceso appends the PCB to PCBS, admitted or not, and answers.
Responde ==
    /\ paso = "listo"
    /\ paso' = "libre"
    /\ PCBS' = IF porRegistrar = Ninguno THEN PCBS
               ELSE Append(PCBS, [ID   |-> porRegistrar,
                                  TIDS |-> IF porRegistrar \in DOMAIN cargados
                                           THEN <<0>> ELSE <<>>])
    /\ porRegistrar' = Ninguno
    /\ UNCHANGED <<particiones, PCB_ID, colas, nuevoPCB, cargados, pedido, perdidas>>

\* The first PCB with that PID.
buscarPCB(p) == CHOOSE i \in DOMAIN PCBS :
    PCBS[i].ID = p /\ \A j \in 1 .. i - 1 : PCBS[j].ID # p

\* Mutant of finalizarProceso: who waits is not asked for again.
finalizarSinSeguir(p) ==
    /\ paso = "libre" /\ p \in DOMAIN cargados
    /\ Libera(p)
    /\ PCBS' = RemoveAt(PCBS, buscarPCB(p))
    /\ cargados' = Sin(cargados, p)
    /\ UNCHANGED <<paso, nuevoPCB, PCB_ID, colas, porRegistrar, pedido, perdidas>>

\* A process ends: PROCESS_EXIT, a segmentation fault or a refused dump.
finalizarProceso(p) ==
    /\ paso = "libre" /\ p \in DOMAIN cargados
    /\ Libera(p)
    /\ PCBS' = RemoveAt(PCBS, buscarPCB(p))
    /\ cargados' = Sin(cargados, p)
    /\ \/ cola_new # <<>> /\ Inicializa(Head(cola_new))
       \/ cola_new = <<>> /\ UNCHANGED <<paso, nuevoPCB>>
    /\ UNCHANGED <<PCB_ID, colas, porRegistrar, pedido, perdidas>>

\* It returns early, with the memory already freed, and the program goes on.
FinPerdido(p) ==
    /\ paso = "libre" /\ p \in DOMAIN cargados /\ perdidas < MaxPerdidas
    /\ Libera(p)
    /\ perdidas' = perdidas + 1
    /\ UNCHANGED <<PCB_ID, PCBS, colas, paso, nuevoPCB, porRegistrar, cargados, pedido>>

-----------------------------------------------------------------------------

Handler ==
    \/ \E size \in Iniciales : CreateProcesoHiloInicial(size)
    \/ Creado \/ NoCreado \/ Responde
AlgunoTermina == \E p \in Pids : finalizarProceso(p)

Next ==
    \/ Handler
    \/ RespuestaPerdida
    \/ \E size \in Tamanos : createProceso(size)
    \/ \E p \in Pids : finalizarProceso(p) \/ FinPerdido(p)

Spec == Init /\ [][Next]_vars

\* The handler that runs goes on, and programs end.
FairSpec == Spec /\ WF_vars(Handler) /\ WF_vars(AlgunoTermina)

-----------------------------------------------------------------------------
(***************************************************************************)
(* Properties.                                                             *)
(***************************************************************************)

\* The line of those that wait, with the one inicializarProceso works on.
EnEspera ==
    (IF nuevoPCB = Ninguno \/ EsElPrimero(nuevoPCB) THEN <<>> ELSE <<nuevoPCB>>)
        \o cola_new \o cola_newAux

\* cola_procesosToCreate keeps what each of those that wait asked for, at its
\* place in the line: inicializarProceso, which takes the size and the program
\* from the head whatever PCB it is given, always takes those of that PCB,
\* although three queues, two handlers and a recursive call move them apart.
ColasEmparejadas ==
    /\ Len(cola_procesosToCreate) = Len(EnEspera)
    /\ \A i \in DOMAIN EnEspera : cola_procesosToCreate[i] = pedido[EnEspera[i]]

EnReposo == paso = "libre"

\* Between two calls PCBS holds each process that waits or runs once, and those
\* that run have the thread they were created with: the next TID of a process
\* is computed from there.
PCBSAlDia ==
    EnReposo =>
        /\ {t.ID : t \in Rango(PCBS)} = Rango(EnEspera) \cup DOMAIN cargados
        /\ Len(PCBS) = Cardinality(Rango(EnEspera) \cup DOMAIN cargados)
        /\ \A t \in Rango(PCBS) : t.TIDS = <<0>> <=> t.ID \in DOMAIN cargados

\* Nobody waits while a hole fits who is first in the line, whatever ended,
\* merged or was refused before, as long as no reply was lost.
NadieEsperaConHueco ==
    EnReposo /\ perdidas = 0 /\ EnEspera # <<>> =>
        M!Huecos(pedido[Head(EnEspera)].SizeProceso) = {}

\* A process runs the program its creator named: inicializarProceso takes it
\* from the head of cola_procesosToCreate, not from the PCB.
SuPrograma == \A p \in DOMAIN cargados : cargados[p] = pedido[p]

Cabe(size) == \E i \in DOMAIN M!Particionado : size <= M!Particionado[i]

\* And it runs in a partition of its own of the size it asked for (the first
\* process, in none if the memory it found had no partition for it).
CadaUnoLoSuyo ==
    /\ SuPrograma
    /\ \A p \in DOMAIN cargados :
           perdidas = 0 /\ (p # 0 \/ Cabe(pedido[0].SizeProceso)) =>
               \E i \in M!DePid(p) :
                   /\ ~particiones[i].IsFree
                   /\ particiones[i].Size >= pedido[p].SizeProceso

\* Processes are admitted in the order they were asked for (module Fila).
Linea == INSTANCE Fila WITH espera <- EnEspera, dentro <- DOMAIN cargados

CumpleFila == Linea!Spec

\* Everyone who waits is admitted, if programs end, no reply is lost and what
\* they ask for fits in the memory: no refusal leaves the line stopped.
TodosEntran ==
    \A p \in Pids :
        p \in Rango(EnEspera) ~> (p \in DOMAIN cargados \/ perdidas > 0)

\* A process waits in NEW only while the free bytes do not add up to what it
\* asks for; otherwise the memory is compacted ("Se necesita compactar la
\* memoria para asignar el proceso.", memoria.go:223).
EsperaSoloSinEspacio ==
    EnReposo /\ Esquema = "DINAMICAS" /\ perdidas = 0 /\ EnEspera # <<>> =>
        M!totalHuecosLibres < pedido[Head(EnEspera)].SizeProceso
=============================================================================
