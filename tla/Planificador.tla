---------------------------- MODULE Planificador ----------------------------
(***************************************************************************)
(* The short-term scheduler: the planner goroutine, the system calls and   *)
(* the VerificarTCBEnCanal goroutine of src/kernel/kernel.go, with the     *)
(* execution cycle of src/cpu/cpu.go that issues the calls and polls the   *)
(* interrupt flag.  The CPU waits for the reply of each call, so at most   *)
(* one handler is in progress; it runs concurrently with the planner.      *)
(*                                                                         *)
(* A step ends where the code takes a mutex, sends on a channel or waits   *)
(* for another server.  A program is any sequence of instructions.         *)
(*                                                                         *)
(* Assumed: the Logger of each server is assigned, memoria admits every    *)
(* process, and a process creates at most one mutex.                       *)
(***************************************************************************)
EXTENDS Colas

CONSTANTS
    Perfiles,     \* the kernels and programs to consider
    MaxProcesos,  \* bound on the processes created
    MaxHilos,     \* bound on the threads created, over all profiles
    MaxJoins      \* bound on the THREAD_JOINs

SysCalls == {"THREAD_CREATE", "THREAD_EXIT", "THREAD_CANCEL", "THREAD_JOIN",
             "MUTEX_CREATE", "MUTEX_LOCK", "DUMP_MEMORY", "PROCESS_CREATE",
             "PROCESS_EXIT", "SEGFAULT"}

\* A profile: the algorithm that kernel_config names, the priorities (the first
\* thread has 0) and the calls that programs use, how many threads there may be,
\* and whether a program may go on after its EXIT instruction.
ASSUME AjustesDelPlan ==
    /\ MaxProcesos \in Nat /\ MaxHilos \in Nat /\ MaxJoins \in Nat
    /\ \A p \in Perfiles :
          /\ p.Algoritmo \in {"FIFO", "PRIORIDADES", "CMN"}
          /\ p.Prioridades \subseteq Nat /\ 0 \in p.Prioridades
          /\ p.Operaciones \subseteq SysCalls
          /\ p.Hilos \in 0 .. MaxHilos
          /\ p.TrasExit \in BOOLEAN

VARIABLES
    perfil,              \* the profile of this behaviour
    cola_ready, cola_exec, cola_blocked, cola_exit,
    colasMultinivel,     \* priority -> queue; an absent key is an empty queue
    PCBS, PCB_ID,
    hilosJoined,
    contextos,           \* the threads whose context memoria keeps
    tomados,             \* the mutexes locked between steps
    vivo,                \* the kernel process has not crashed
    plan,                \* where the planner goroutine is
    nuevo,               \* its tcbToExec
    porVerificar,        \* the TID VerificarTCBEnCanal is working on, if any
    paso,                \* where the handler is
    pedido,              \* its system call
    yo,                  \* its TCBExecuting, or tcbToEnd
    otro,                \* the TCB it creates or unblocks
    canal,               \* the channel it sends on
    ciclo,               \* where CicloDeEjecucion is
    Clave,               \* the thread the CPU runs
    interruptionExits,
    Procesos,            \* the threads whose context the CPU has loaded
    terminados           \* the threads whose program is at its end

colas    == <<cola_ready, cola_exec, cola_blocked, cola_exit, colasMultinivel>>
tablas   == <<PCBS, PCB_ID, hilosJoined>>
delPlan  == <<plan, nuevo>>
datos    == <<yo, otro, canal>>
handler  == <<paso, pedido, datos>>
cargado  == <<Clave, Procesos, terminados>>
cpu      == <<ciclo, interruptionExits, cargado>>
vars     == <<perfil, colas, tablas, contextos, tomados, vivo, delPlan, porVerificar,
              handler, cpu>>

Algoritmo   == perfil.Algoritmo
Prioridades == perfil.Prioridades

Argumentos(op) ==
    CASE op \in {"THREAD_CREATE", "PROCESS_CREATE"} -> Prioridades
      [] op \in {"THREAD_CANCEL", "THREAD_JOIN"}    -> 0 .. perfil.Hilos
      [] OTHER                                      -> {0}

Instrucciones == UNION {[op : {o}, arg : Argumentos(o)] : o \in perfil.Operaciones}

Cerrojos == {"ready", "exec", "blocked", "exit", "pcbs", "int", "clave"}

Pids  == 0 .. MaxProcesos
Tids  == 0 .. MaxHilos
Claves == Pids \X Tids
Ninguna == <<-1, -1>>

TCBs == [PID : Pids, TID : Tids, Prioridad : Prioridades, Mutex : BOOLEAN, Ruta : BOOLEAN]

PasosDelPlan ==
    {"espera", "fin", "finElige", "atascado", "envia", "elige", "compara", "devuelve",
     "avisa", "toma", "interrumpe", "intDevuelve", "intElige", "intAvisa", "intToma",
     "intEspera", "intEnvia"}

PasosDelHandler ==
    {"libre", "entra", "listo", "memoria", "envia", "registrar", "elegir", "avisar",
     "filtrar", "filtrarMulti", "aExit", "soltar", "desbloquear", "encolar",
     "enviaReady", "quitarCola", "verificar", "bloquear", "vaciar", "anotarTID",
     "volcar", "matarPCB", "matarReady", "matarMulti", "liberarInt"}

Canales == {"processEnded", "nuevoElementoReadyDesalojo", "processInterrupted"}

TypeOK ==
    /\ perfil \in Perfiles
    /\ \A q \in {cola_ready, cola_exec, cola_blocked, cola_exit} : q \in Seq(TCBs)
    /\ colasMultinivel \in [Prioridades -> Seq(TCBs)]
    /\ \A k \in DOMAIN PCBS :
          /\ PCBS[k].ID \in Pids /\ PCBS[k].TIDS \in Seq(Tids)
          /\ PCBS[k].creado \in BOOLEAN /\ PCBS[k].Status \in {"Libre", "Bloqueado"}
          /\ PCBS[k].TIDCola \in Seq(Tids)
    /\ PCB_ID \in Pids
    /\ hilosJoined \in Seq([HiloBloqueado : Tids, HiloDebeFinalizar : Tids])
    /\ contextos \subseteq Claves /\ Procesos \subseteq Claves
    /\ terminados \subseteq Claves /\ Clave \in Claves \cup {Ninguna}
    /\ tomados \subseteq Cerrojos /\ vivo \in BOOLEAN /\ interruptionExits \in BOOLEAN
    /\ plan \in PasosDelPlan /\ nuevo \in TCBs
    /\ porVerificar \in {<<>>} \cup {<<tid>> : tid \in Tids}
    /\ paso \in PasosDelHandler /\ pedido \in Instrucciones \cup {[op |-> "", arg |-> 0]}
    /\ yo \in TCBs /\ otro \in TCBs /\ canal \in Canales
    /\ ciclo \in {"apagado", "fetch", "syscall", "chequeo", "avisa", "fin"}

crearPCB(id, tids) ==
    [ID |-> id, TIDS |-> tids, creado |-> FALSE, Status |-> "Libre", TIDCola |-> <<>>]

\* Mutant of agregarTCB: the thread is left out of its queue.
agregarTCBPerdido(t) == colasMultinivel

\* The planner only reads colasMultinivel under CMN, so only CMN keeps it.
agregarTCB(t) ==
    IF Algoritmo = "CMN"
    THEN [colasMultinivel EXCEPT ![t.Prioridad] = Append(@, t)]
    ELSE colasMultinivel

\* The first process, with its only thread in READY, and the planner about to
\* act on the processEnded that its creation sent.
Init ==
    LET h == TCB(0, 0, 0) IN
    /\ perfil \in Perfiles
    /\ cola_ready = <<h>>
    /\ cola_exec = <<>> /\ cola_blocked = <<>> /\ cola_exit = <<>>
    /\ colasMultinivel = [p \in Prioridades |->
                             IF p = 0 /\ Algoritmo = "CMN" THEN <<h>> ELSE <<>>]
    /\ PCBS = <<crearPCB(0, <<0>>)>> /\ PCB_ID = 0
    /\ hilosJoined = <<>>
    /\ contextos = {Hilo(h)}
    /\ tomados = {} /\ vivo = TRUE
    /\ plan = "fin" /\ nuevo = TCBVacio
    /\ porVerificar = <<>>
    /\ paso = "libre" /\ pedido = [op |-> "", arg |-> 0]
    /\ yo = TCBVacio /\ otro = TCBVacio /\ canal = "processEnded"
    /\ ciclo = "apagado" /\ Clave = Ninguna /\ interruptionExits = FALSE
    /\ Procesos = {} /\ terminados = {}

Libre(m) == m \notin tomados

-----------------------------------------------------------------------------
(***************************************************************************)
(* The CPU (src/cpu/cpu.go).                                               *)
(***************************************************************************)

HilosCreados == MapThenSumSet(LAMBDA k : Len(PCBS[k].TIDS), DOMAIN PCBS)

\* The bounds of the model: what programs do not do any more.
Cabe(i) ==
    CASE i.op = "THREAD_CREATE"  -> HilosCreados < perfil.Hilos
      [] i.op = "PROCESS_CREATE" -> HilosCreados < perfil.Hilos /\ PCB_ID + 1 < MaxProcesos
      [] i.op = "THREAD_JOIN"    -> Len(hilosJoined) < MaxJoins
      [] OTHER                   -> TRUE

\* The test of the loop finds no interrupt and Fetch gets an instruction of
\* the thread of Clave.
EnFetch == ciclo = "fetch" /\ ~interruptionExits /\ Libre("clave")
HayInstruccion == EnFetch /\ (Clave \in terminados => perfil.TrasExit)

\* The instruction is a system call, or an access that TraducirDireccion
\* refuses (SEGFAULT), and its request reaches the kernel.
Syscall ==
    /\ vivo /\ HayInstruccion /\ paso = "libre"
    /\ \E i \in Instrucciones :
          /\ Cabe(i)
          /\ pedido' = i
          /\ terminados' = IF i.op \in {"THREAD_EXIT", "PROCESS_EXIT"}
                           THEN terminados \cup {Clave} ELSE terminados
    /\ paso' = "entra" /\ ciclo' = "syscall"
    /\ UNCHANGED <<perfil, colas, tablas, contextos, tomados, vivo, delPlan, porVerificar,
                   datos, interruptionExits, Clave, Procesos>>

\* Any other instruction, IO included: the kernel does nothing for it.
OtraInstruccion ==
    /\ HayInstruccion
    /\ ciclo' = "chequeo"
    /\ UNCHANGED <<perfil, colas, tablas, contextos, tomados, vivo, delPlan, porVerificar,
                   handler, interruptionExits, cargado>>

\* There is no next instruction: the cycle ends with claveMutex locked.
FetchFalla ==
    /\ EnFetch
    /\ ciclo' = "fin" /\ tomados' = tomados \cup {"clave"}
    /\ UNCHANGED <<perfil, colas, tablas, contextos, vivo, delPlan, porVerificar, handler,
                   interruptionExits, cargado>>

\* An interrupt between CheckInterrupt and the test of the loop ends the cycle.
FinDeCiclo ==
    /\ ciclo = "fetch" /\ interruptionExits
    /\ ciclo' = "fin"
    /\ UNCHANGED <<perfil, colas, tablas, contextos, tomados, vivo, delPlan, porVerificar,
                   handler, interruptionExits, cargado>>

\* ActualizarContextoEnMemoria names no thread in its request, so memoria
\* looks for thread 0 of process 0.
ContextoActualizado == Clave \in Procesos /\ <<0, 0>> \in contextos

\* CheckInterrupt returns early, the flag still up, when memoria refuses.
CheckInterrupt ==
    /\ ciclo = "chequeo"
    /\ IF interruptionExits /\ ContextoActualizado
       THEN ciclo' = "avisa" /\ interruptionExits' = FALSE
       ELSE ciclo' = "fetch" /\ UNCHANGED interruptionExits
    /\ UNCHANGED <<perfil, colas, tablas, contextos, tomados, vivo, delPlan, porVerificar,
                   handler, cargado>>

\* executionProces of the kernel: unlocking a mutex that is not locked is
\* fatal to the whole process.
executionProces ==
    /\ vivo /\ ciclo = "avisa"
    /\ vivo' = ~Libre("int")
    /\ tomados' = tomados \ {"int"}
    /\ ciclo' = "fetch"
    /\ UNCHANGED <<perfil, colas, tablas, contextos, delPlan, porVerificar, handler,
                   interruptionExits, cargado>>

\* executeTCB: the CPU takes t as the thread to run and loads its context from
\* memoria; the first call starts the cycle.  A loaded program starts over,
\* because what memoria holds of it was never updated.
RecibirProceso(t) ==
    /\ Libre("clave")
    /\ Clave' = Hilo(t)
    /\ Procesos' = Procesos \cup ({Hilo(t)} \cap contextos)
    /\ terminados' = terminados \ {Hilo(t)}
    /\ ciclo' = IF Clave = Ninguna /\ Hilo(t) \in contextos THEN "fetch" ELSE ciclo
    /\ UNCHANGED interruptionExits

\* interrupccion: CheckInterrupt holds interrupcionMutex while it notifies.
interrupccion ==
    /\ ciclo # "avisa"
    /\ interruptionExits' = TRUE
    /\ UNCHANGED <<ciclo, cargado>>

CPU ==
    \/ Syscall \/ OtraInstruccion \/ FetchFalla \/ FinDeCiclo
    \/ CheckInterrupt \/ executionProces

-----------------------------------------------------------------------------
(***************************************************************************)
(* The planner goroutine, planificacionCombinada.                          *)
(***************************************************************************)

\* What a choice returns, what it leaves in the queues, and whether it leaves
\* cola_ready_mutex locked.
Eleccion(t, ready, multinivel, traba) ==
    [tcb |-> t, ready |-> ready, multinivel |-> multinivel, traba |-> traba]

Nada(t) == Eleccion(t, cola_ready, colasMultinivel, FALSE)

planificarFifo ==
    IF cola_ready = <<>>
    THEN [Nada(TCBVacio) EXCEPT !.traba = TRUE]
    ELSE Eleccion(cola_ready[1], Tail(cola_ready), colasMultinivel, FALSE)

\* Mutant of Sigue: the priorities are not compared.
SigueSiempre(t) == cola_exec # <<>>

\* The thread in EXEC stays unless a more urgent one is waiting.
Sigue(t) == cola_exec # <<>> /\ t.Prioridad >= cola_exec[1].Prioridad

planificarPrioridades ==
    IF cola_ready = <<>> THEN Nada(TCBVacio)
    ELSE LET m == IndiceMenor(cola_ready) IN
         IF Sigue(cola_ready[m]) THEN Nada(cola_exec[1])
         ELSE Eleccion(cola_ready[m], RemoveAt(cola_ready, m), colasMultinivel, FALSE)

Claves_multinivel == {p \in Prioridades : colasMultinivel[p] # <<>>}

\* obtenerPrimerElementoConClaveMenor
menorClave == CHOOSE p \in Claves_multinivel : \A q \in Claves_multinivel : p <= q

\* One step, although colasMultinivelMutex is given back between the choice and
\* the removal (1388, 1405).
planificarColas ==
    IF cola_ready = <<>> \/ Claves_multinivel = {} THEN Nada(TCBVacio)
    ELSE LET t == colasMultinivel[menorClave][1] IN
         IF Sigue(t) THEN Nada(cola_exec[1])
         ELSE Eleccion(t, SinHilo(cola_ready, Hilo(t)),
                       [colasMultinivel EXCEPT ![menorClave] = Tail(@)], FALSE)

planificar ==
    CASE Algoritmo = "FIFO"        -> planificarFifo
      [] Algoritmo = "PRIORIDADES" -> planificarPrioridades
      [] Algoritmo = "CMN"         -> planificarColas

\* The choice takes cola_ready_mutex.
Elige(e) ==
    /\ Libre("ready")
    /\ nuevo' = e.tcb
    /\ cola_ready' = e.ready /\ colasMultinivel' = e.multinivel
    /\ tomados' = IF e.traba THEN tomados \cup {"ready"} ELSE tomados
    /\ UNCHANGED <<cola_blocked, cola_exit>>

ajenoAlPlan == <<perfil, tablas, contextos, vivo, porVerificar, handler>>

EnPlan(a) == vivo /\ plan = a
De(a, b) == EnPlan(a) /\ plan' = b

\* Mutant of VaciarExec: the thread that ended stays in cola_exec.
VaciarExecNunca ==
    /\ De("fin", "finElige")
    /\ Libre("exec") /\ tomados' = tomados \cup {"exec"}
    /\ UNCHANGED <<colas, nuevo, cpu, ajenoAlPlan>>

\* case <-processEnded
VaciarExec ==
    /\ De("fin", "finElige")
    /\ Libre("exec") /\ tomados' = tomados \cup {"exec"}
    /\ cola_exec' = <<>>
    /\ UNCHANGED <<cola_ready, cola_blocked, cola_exit, colasMultinivel, nuevo, cpu,
                   ajenoAlPlan>>

\* Nobody receives from execEmpty while the planner is active: the goroutine
\* stays there, with cola_exec_mutex locked.
ElegirSiguiente ==
    /\ EnPlan("finElige")
    /\ Elige(planificar)
    /\ IF nuevo'.Ruta
       THEN plan' = "envia" /\ cola_exec' = Append(cola_exec, nuevo')
       ELSE plan' = "atascado" /\ UNCHANGED cola_exec
    /\ UNCHANGED <<cpu, ajenoAlPlan>>

\* Mutant of Ejecutar: cola_exec_mutex is not unlocked.
EjecutarSinSoltar ==
    /\ De("envia", "espera")
    /\ RecibirProceso(nuevo)
    /\ UNCHANGED <<colas, tomados, nuevo, ajenoAlPlan>>

Ejecutar ==
    /\ De("envia", "espera")
    /\ RecibirProceso(nuevo)
    /\ tomados' = tomados \ {"exec"}
    /\ UNCHANGED <<colas, nuevo, ajenoAlPlan>>

\* case <-nuevoElementoReadyDesalojo: FIFO has no case of its own here.
ElegirDesalojo ==
    /\ De("elige", "compara")
    /\ IF Algoritmo = "FIFO"
       THEN nuevo' = TCBVacio /\ UNCHANGED <<colas, tomados>>
       ELSE Elige(planificar) /\ UNCHANGED cola_exec
    /\ UNCHANGED <<cpu, ajenoAlPlan>>

SinDesalojo == cola_exec = <<>> \/ Hilo(cola_exec[1]) = Hilo(nuevo)

Comparar ==
    /\ EnPlan("compara") /\ Libre("exec")
    /\ IF SinDesalojo
       THEN plan' = "espera" /\ UNCHANGED tomados
       ELSE plan' = "devuelve" /\ tomados' = tomados \cup {"exec"}
    /\ UNCHANGED <<colas, nuevo, cpu, ajenoAlPlan>>

\* The thread in EXEC goes back to READY, and is still in EXEC.
Devolver ==
    /\ De("devuelve", "avisa") /\ Libre("ready")
    /\ cola_ready' = Append(cola_ready, cola_exec[1])
    /\ colasMultinivel' = agregarTCB(cola_exec[1])
    /\ UNCHANGED <<cola_exec, cola_blocked, cola_exit, tomados, nuevo, cpu, ajenoAlPlan>>

notifCPUInterruption ==
    /\ \/ De("avisa", "toma") \/ De("intAvisa", "intToma")
    /\ interrupccion
    /\ UNCHANGED <<colas, tomados, nuevo, ajenoAlPlan>>

Desalojar ==
    /\ De("toma", "envia")
    /\ Libre("int") /\ tomados' = tomados \cup {"int"}
    /\ cola_exec' = <<nuevo>>
    /\ UNCHANGED <<cola_ready, cola_blocked, cola_exit, colasMultinivel, nuevo, cpu,
                   ajenoAlPlan>>

\* case <-processInterrupted
Interrumpir ==
    /\ EnPlan("interrumpe")
    /\ Libre("exec") /\ tomados' = tomados \cup {"exec"}
    /\ IF cola_exec = <<>>
       THEN plan' = "intElige" /\ UNCHANGED nuevo
       ELSE plan' = "intDevuelve" /\ nuevo' = cola_exec[1]
    /\ cola_exec' = <<>>
    /\ UNCHANGED <<cola_ready, cola_blocked, cola_exit, colasMultinivel, cpu,
                   ajenoAlPlan>>

DevolverInterrumpido ==
    /\ De("intDevuelve", "intElige") /\ Libre("ready")
    /\ cola_ready' = Append(cola_ready, nuevo)
    /\ colasMultinivel' = agregarTCB(nuevo)
    /\ UNCHANGED <<cola_exec, cola_blocked, cola_exit, tomados, nuevo, cpu, ajenoAlPlan>>

ElegirInterrumpido ==
    /\ De("intElige", "intAvisa")
    /\ Elige(planificar)
    /\ UNCHANGED <<cola_exec, cpu, ajenoAlPlan>>

TomarIntProcesada ==
    /\ De("intToma", "intEspera")
    /\ Libre("int") /\ tomados' = tomados \cup {"int"}
    /\ UNCHANGED <<colas, nuevo, cpu, ajenoAlPlan>>

\* The second Lock waits for the Unlock of executionProces.  What was chosen
\* goes to EXEC even if it is TCB{}.
EsperarCPU ==
    /\ De("intEspera", "intEnvia")
    /\ Libre("int") /\ tomados' = tomados \cup {"int"}
    /\ cola_exec' = Append(cola_exec, nuevo)
    /\ UNCHANGED <<cola_ready, cola_blocked, cola_exit, colasMultinivel, nuevo, cpu,
                   ajenoAlPlan>>

EjecutarInterrumpido ==
    /\ De("intEnvia", "espera")
    /\ RecibirProceso(nuevo)
    /\ tomados' = tomados \ {"exec", "int"}
    /\ UNCHANGED <<colas, nuevo, ajenoAlPlan>>

Planner ==
    \/ VaciarExec \/ ElegirSiguiente \/ Ejecutar
    \/ ElegirDesalojo \/ Comparar \/ Devolver \/ notifCPUInterruption \/ Desalojar
    \/ Interrumpir \/ DevolverInterrumpido \/ ElegirInterrumpido
    \/ TomarIntProcesada \/ EsperarCPU \/ EjecutarInterrumpido

-----------------------------------------------------------------------------
(***************************************************************************)
(* The handlers of the system calls.                                       *)
(***************************************************************************)

ajenoAlHandler == <<perfil, vivo, delPlan, interruptionExits, cargado>>

\* The reply: also what a panic in a handler amounts to, since net/http
\* recovers it and the CPU ignores the error.  After a segmentation fault the
\* cycle ends.
Responde ==
    /\ paso' = "libre"
    /\ ciclo' = IF pedido.op = "SEGFAULT" THEN "fin" ELSE "chequeo"

\* A panic with these mutexes locked by hand leaves them locked.
Panico(ms) == Responde /\ tomados' = tomados \cup ms

En(a) == vivo /\ paso = a

Va(a) == paso' = a /\ UNCHANGED ciclo

Es(ops) == pedido.op \in ops

ElPCB == yo.PID + 1   \* PCBS[PID], with the PID taken as an index
HayPCB == ElPCB \in DOMAIN PCBS
HayMutex == HayPCB /\ PCBS[ElPCB].creado

\* The TID after the last of the process.
TIDSiguiente(p) == IF p.TIDS = <<>> THEN 0 ELSE Last(p.TIDS) + 1

\* thread_create, up to the append to TIDS.
EntraThreadCreate ==
    /\ En("entra") /\ Es({"THREAD_CREATE"})
    /\ LET k == cola_exec[1].PID + 1 IN
       IF cola_exec = <<>> \/ k \notin DOMAIN PCBS
       THEN Responde /\ UNCHANGED <<PCBS, otro>>
       ELSE /\ PCBS' = [PCBS EXCEPT ![k].TIDS = Append(@, TIDSiguiente(PCBS[k]))]
            /\ otro' = TCB(PCBS[k].ID, TIDSiguiente(PCBS[k]), pedido.arg)
            /\ Va("listo")
    /\ UNCHANGED <<colas, PCB_ID, hilosJoined, contextos, tomados, porVerificar,
                   pedido, yo, canal, ajenoAlHandler>>

\* createProceso with nothing in NEW and room in memoria.
EntraProcessCreate ==
    /\ En("entra") /\ Es({"PROCESS_CREATE"})
    /\ PCB_ID' = PCB_ID + 1
    /\ otro' = TCB(PCB_ID + 1, 0, pedido.arg)
    /\ Va("listo")
    /\ UNCHANGED <<colas, PCBS, hilosJoined, contextos, tomados, porVerificar,
                   pedido, yo, canal, ajenoAlHandler>>

\* crearHilo.
PasarAReady ==
    /\ En("listo") /\ Va("memoria")
    /\ Libre("ready")
    /\ cola_ready' = Append(cola_ready, otro)
    /\ UNCHANGED <<cola_exec, cola_blocked, cola_exit, colasMultinivel, tablas,
                   contextos, tomados, porVerificar, pedido, datos, ajenoAlHandler>>

\* Mutant of SoloElPrimero: any thread that is alone in READY counts.
SoloUno == Len(cola_ready) = 1

SoloElPrimero ==
    Len(cola_ready) = 1 /\ cola_ready[1].TID = 0 /\ cola_ready[1].PID = 0

\* The answer of memoria and agregarTCB, which follows it (304), are one step.
SolicitarEspacioHilos ==
    /\ En("memoria") /\ Va("envia")
    /\ contextos' = contextos \cup {Hilo(otro)}
    /\ colasMultinivel' = agregarTCB(otro)
    /\ canal' = IF SoloElPrimero \/ cola_exec = <<>>
                THEN "processEnded" ELSE "nuevoElementoReadyDesalojo"
    /\ UNCHANGED <<cola_ready, cola_exec, cola_blocked, cola_exit, tablas, tomados,
                   porVerificar, pedido, yo, otro, ajenoAlHandler>>

AlRecibir ==
    [processEnded |-> "fin", nuevoElementoReadyDesalojo |-> "elige",
     processInterrupted |-> "interrumpe"]

\* What each handler still has to do once the planner has its message.
TrasEnviar ==
    [PROCESS_CREATE |-> "registrar", THREAD_EXIT |-> "soltar",
     DUMP_MEMORY |-> "volcar", SEGFAULT |-> "liberarInt"]

\* The channels are not buffered: the planner must be waiting.
Enviar ==
    /\ En("envia") /\ plan = "espera"
    /\ plan' = AlRecibir[canal]
    /\ IF pedido.op \in DOMAIN TrasEnviar THEN Va(TrasEnviar[pedido.op]) ELSE Responde
    /\ UNCHANGED <<perfil, colas, tablas, contextos, tomados, vivo, nuevo, porVerificar,
                   pedido, datos, interruptionExits, cargado>>

RegistrarPCB ==
    /\ En("registrar") /\ Responde
    /\ Libre("pcbs")
    /\ PCBS' = Append(PCBS, crearPCB(otro.PID, <<0>>))
    /\ UNCHANGED <<colas, PCB_ID, hilosJoined, contextos, tomados, porVerificar, pedido,
                   datos, ajenoAlHandler>>

-----------------------------------------------------------------------------
\* finalizarHilo.  THREAD_EXIT looks at cola_exec before it starts.
EntraFinalizar ==
    /\ En("entra") /\ Es({"THREAD_EXIT", "THREAD_CANCEL"})
    /\ IF Es({"THREAD_EXIT"}) /\ cola_exec = <<>> THEN Responde ELSE Va("elegir")
    /\ UNCHANGED <<colas, tablas, contextos, tomados, porVerificar, pedido, datos,
                   ajenoAlHandler>>

\* A TID that is not in READY leaves tcbToEnd as TCB{}.
ElegirAlQueTermina ==
    /\ En("elegir") /\ Libre("ready")
    /\ LET candidatos == ConTID(cola_ready, pedido.arg)
           propios == ConPID(candidatos, cola_exec[1].PID) IN
       IF cola_exec = <<>> /\ (Es({"THREAD_EXIT"}) \/ candidatos # <<>>)
       THEN Panico({"ready"}) /\ UNCHANGED yo
       ELSE /\ yo' = CASE Es({"THREAD_EXIT"}) -> cola_exec[1]
                       [] candidatos = <<>>   -> TCBVacio
                       [] OTHER -> IF propios = <<>> THEN TCBVacio ELSE propios[1]
            /\ Va("avisar") /\ UNCHANGED tomados
    /\ UNCHANGED <<colas, tablas, contextos, porVerificar, pedido, otro, canal,
                   ajenoAlHandler>>

AvisarMemoria ==
    /\ En("avisar")
    /\ contextos' = contextos \ {Hilo(yo)}
    /\ Va(IF Es({"THREAD_EXIT"}) THEN "aExit" ELSE "filtrar")
    /\ UNCHANGED <<colas, tablas, tomados, porVerificar, pedido, datos, ajenoAlHandler>>

\* Mutant of FiltrarReady: the thread is left out of cola_exit.
FiltrarReadyPerdiendo ==
    /\ En("filtrar") /\ Va("filtrarMulti")
    /\ Libre("ready") /\ Libre("exit")
    /\ cola_ready' = SinTID(cola_ready, pedido.arg)
    /\ UNCHANGED <<cola_exec, cola_blocked, cola_exit, colasMultinivel, tablas, contextos,
                   tomados, porVerificar, pedido, datos, ajenoAlHandler>>

\* THREAD_CANCEL: every thread in READY with that TID, of whatever process.
FiltrarReady ==
    /\ En("filtrar") /\ Va("filtrarMulti")
    /\ Libre("ready") /\ Libre("exit")
    /\ cola_ready' = SinTID(cola_ready, pedido.arg)
    /\ cola_exit' = cola_exit \o ConTID(cola_ready, pedido.arg)
    /\ UNCHANGED <<cola_exec, cola_blocked, colasMultinivel, tablas, contextos, tomados,
                   porVerificar, pedido, datos, ajenoAlHandler>>

FiltrarMultinivel ==
    /\ En("filtrarMulti") /\ Va("soltar")
    /\ colasMultinivel' = [p \in Prioridades |-> SinTID(colasMultinivel[p], yo.TID)]
    /\ UNCHANGED <<cola_ready, cola_exec, cola_blocked, cola_exit, tablas, contextos,
                   tomados, porVerificar, pedido, datos, ajenoAlHandler>>

\* Mutant of PasarAExit: the thread is left out of cola_exit.
PasarANada ==
    /\ En("aExit") /\ Libre("exit")
    /\ Va("envia") /\ canal' = "processEnded"
    /\ UNCHANGED <<colas, tablas, contextos, tomados, porVerificar, pedido, yo, otro,
                   ajenoAlHandler>>

\* THREAD_EXIT: the thread that is in EXEC by now.
PasarAExit ==
    /\ En("aExit") /\ Libre("exit")
    /\ IF cola_exec = <<>>
       THEN Panico({"exit"}) /\ UNCHANGED <<cola_exit, canal>>
       ELSE /\ cola_exit' = Append(cola_exit, cola_exec[1])
            /\ canal' = "processEnded"
            /\ Va("envia") /\ UNCHANGED tomados
    /\ UNCHANGED <<cola_ready, cola_exec, cola_blocked, colasMultinivel, tablas,
                   contextos, porVerificar, pedido, yo, otro, ajenoAlHandler>>

Status(k, s) == [PCBS EXCEPT ![k].Status = s]

\* The search for the first waiter compares cola_blocked[j] with the queue of
\* mutex j, and there is only a mutex 0.
EsElHeredero(k) ==
    /\ cola_blocked # <<>>
    /\ cola_blocked[1].TID = PCBS[k].TIDCola[1] /\ cola_blocked[1].PID = PCBS[k].ID
BuscaDeMas(k) == Len(cola_blocked) > 1 /\ ~EsElHeredero(k)

NadaQueSoltar ==
    /\ En("soltar") /\ ~yo.Mutex /\ Va("verificar")
    /\ UNCHANGED <<colas, tablas, contextos, tomados, porVerificar, pedido, datos,
                   ajenoAlHandler>>

SoltarSinPCB ==
    /\ En("soltar") /\ yo.Mutex /\ ~HayMutex /\ Responde
    /\ UNCHANGED <<colas, tablas, contextos, tomados, porVerificar, pedido, datos,
                   ajenoAlHandler>>

\* liberarHiloMutex, and asignarHiloMutex to the thread that waits, or to
\* TCB{} when it is not found.
SoltarMutex ==
    /\ En("soltar") /\ yo.Mutex /\ HayMutex
    /\ yo' = [yo EXCEPT !.Mutex = FALSE]
    /\ CASE PCBS[ElPCB].TIDCola = <<>> ->
              PCBS' = Status(ElPCB, "Libre") /\ Va("verificar") /\ UNCHANGED otro
         [] PCBS[ElPCB].TIDCola # <<>> /\ BuscaDeMas(ElPCB) ->
              PCBS' = Status(ElPCB, "Libre") /\ Responde /\ UNCHANGED otro
         [] OTHER ->
              /\ PCBS' = Status(ElPCB, "Bloqueado")
              /\ otro' = [(IF EsElHeredero(ElPCB) THEN cola_blocked[1] ELSE TCBVacio)
                             EXCEPT !.Mutex = TRUE]
              /\ Va("desbloquear")
    /\ UNCHANGED <<colas, PCB_ID, hilosJoined, contextos, tomados, porVerificar, pedido,
                   canal, ajenoAlHandler>>

\* desbloquearHilo
Desbloquear ==
    /\ En("desbloquear") /\ Va("encolar")
    /\ Libre("blocked")
    /\ cola_blocked' = SinHiloSalteando(cola_blocked, Hilo(otro))
    /\ UNCHANGED <<cola_ready, cola_exec, cola_exit, colasMultinivel, tablas, contextos,
                   tomados, porVerificar, pedido, datos, ajenoAlHandler>>

Encolar ==
    /\ En("encolar") /\ Va("enviaReady")
    /\ Libre("ready") /\ tomados' = tomados \cup {"ready"}
    /\ cola_ready' = Append(cola_ready, otro)
    /\ colasMultinivel' = agregarTCB(otro)
    /\ UNCHANGED <<cola_exec, cola_blocked, cola_exit, tablas, contextos, porVerificar,
                   pedido, datos, ajenoAlHandler>>

\* cola_ready_mutex is released once the planner has the message.
EnviarConReady ==
    /\ En("enviaReady") /\ plan = "espera"
    /\ plan' = "elige"
    /\ tomados' = tomados \ {"ready"}
    /\ IF Es({"DUMP_MEMORY"}) THEN Responde ELSE Va("quitarCola")
    /\ UNCHANGED <<perfil, colas, tablas, contextos, vivo, nuevo, porVerificar, pedido,
                   datos, interruptionExits, cargado>>

\* The loop that takes the heir out of TIDCola uses its counter as the index
\* of the mutex too: a second round is out of range.
QuitarDeTIDCola ==
    /\ En("quitarCola")
    /\ LET cola == PCBS[ElPCB].TIDCola
           resto == IF cola # <<>> /\ cola[1] = otro.TID THEN Tail(cola) ELSE cola IN
       /\ PCBS' = [PCBS EXCEPT ![ElPCB].TIDCola = resto]
       /\ IF Len(resto) > 1 THEN Responde ELSE Va("verificar")
    /\ UNCHANGED <<colas, PCB_ID, hilosJoined, contextos, tomados, porVerificar, pedido,
                   datos, ajenoAlHandler>>

PedirVerificacion ==
    /\ En("verificar") /\ Responde
    /\ porVerificar = <<>> /\ porVerificar' = <<yo.TID>>
    /\ UNCHANGED <<colas, tablas, contextos, tomados, pedido, datos, ajenoAlHandler>>

-----------------------------------------------------------------------------
\* Mutant of EntraThreadJoin: the TID it waits for is off by one.
EntraThreadJoinDesfasado ==
    /\ En("entra") /\ Es({"THREAD_JOIN"}) /\ cola_exec # <<>>
    /\ yo' = cola_exec[1]
    /\ hilosJoined' = Append(hilosJoined, [HiloBloqueado |-> yo'.TID,
                                           HiloDebeFinalizar |-> pedido.arg - 1])
    /\ Va("bloquear")
    /\ UNCHANGED <<colas, PCBS, PCB_ID, contextos, tomados, porVerificar, pedido, otro,
                   canal, ajenoAlHandler>>

\* thread_join, up to the append to hilosJoined.
EntraThreadJoin ==
    /\ En("entra") /\ Es({"THREAD_JOIN"})
    /\ IF cola_exec = <<>>
       THEN Responde /\ UNCHANGED <<yo, hilosJoined>>
       ELSE /\ yo' = cola_exec[1]
            /\ hilosJoined' = Append(hilosJoined, [HiloBloqueado |-> yo'.TID,
                                                   HiloDebeFinalizar |-> pedido.arg])
            /\ Va("bloquear")
    /\ UNCHANGED <<colas, PCBS, PCB_ID, contextos, tomados, porVerificar, pedido, otro,
                   canal, ajenoAlHandler>>

TrasBloquear ==
    [THREAD_JOIN |-> "vaciar", MUTEX_LOCK |-> "anotarTID", DUMP_MEMORY |-> "envia"]

\* The append to cola_blocked of thread_join, mutex_lock and dumpMemory.
PasarABlocked ==
    /\ En("bloquear") /\ Va(TrasBloquear[pedido.op])
    /\ Libre("blocked")
    /\ cola_blocked' = Append(cola_blocked, yo)
    /\ canal' = "processEnded"
    /\ UNCHANGED <<cola_ready, cola_exec, cola_exit, colasMultinivel, tablas, contextos,
                   tomados, porVerificar, pedido, yo, otro, ajenoAlHandler>>

VaciarExecPorJoin ==
    /\ En("vaciar") /\ Va("envia")
    /\ Libre("exec")
    /\ cola_exec' = <<>>
    /\ canal' = "processInterrupted"
    /\ UNCHANGED <<cola_ready, cola_blocked, cola_exit, colasMultinivel, tablas,
                   contextos, tomados, porVerificar, pedido, yo, otro, ajenoAlHandler>>

\* mutex_create
MutexCreate ==
    /\ En("entra") /\ Es({"MUTEX_CREATE"})
    /\ LET k == cola_exec[1].PID + 1 IN
       IF cola_exec = <<>> \/ k \notin DOMAIN PCBS
       THEN UNCHANGED PCBS
       ELSE /\ PCBS[k].creado \/ Libre("pcbs")
            /\ PCBS' = [PCBS EXCEPT ![k].creado = TRUE]
    /\ Responde
    /\ UNCHANGED <<colas, PCB_ID, hilosJoined, contextos, tomados, porVerificar, pedido,
                   datos, ajenoAlHandler>>

\* mutex_lock: the mutex goes to the thread in EXEC, or the thread waits.
MutexLock ==
    /\ En("entra") /\ Es({"MUTEX_LOCK"})
    /\ LET k == cola_exec[1].PID + 1 IN
       CASE cola_exec = <<>> \/ k \notin DOMAIN PCBS ->
              Responde /\ UNCHANGED <<PCBS, cola_exec, yo>>
         [] cola_exec # <<>> /\ k \in DOMAIN PCBS /\ ~PCBS[k].creado ->
              Responde /\ UNCHANGED <<PCBS, cola_exec, yo>>
         [] OTHER ->
              IF PCBS[k].Status = "Libre"
              THEN /\ PCBS' = Status(k, "Bloqueado")
                   /\ cola_exec' = [cola_exec EXCEPT ![1].Mutex = TRUE]
                   /\ Responde /\ UNCHANGED yo
              ELSE /\ yo' = cola_exec[1]
                   /\ Va("bloquear") /\ UNCHANGED <<PCBS, cola_exec>>
    /\ UNCHANGED <<cola_ready, cola_blocked, cola_exit, colasMultinivel, PCB_ID,
                   hilosJoined, contextos, tomados, porVerificar, pedido, otro, canal,
                   ajenoAlHandler>>

\* bloquearHiloMutex: the TID of the thread that is in EXEC by now.
AnotarTID ==
    /\ En("anotarTID")
    /\ IF cola_exec = <<>>
       THEN Responde /\ UNCHANGED PCBS
       ELSE /\ PCBS' = [PCBS EXCEPT ![ElPCB].TIDCola = Append(@, cola_exec[1].TID)]
            /\ Va("envia")
    /\ UNCHANGED <<colas, PCB_ID, hilosJoined, contextos, tomados, porVerificar, pedido,
                   datos, ajenoAlHandler>>

\* dumpMemory and finalizarProceso (endProceso, segmentation fault): the
\* handlers that start from the thread in EXEC.
EntraConEjecutando ==
    /\ En("entra") /\ Es({"DUMP_MEMORY", "PROCESS_EXIT", "SEGFAULT"})
    /\ IF cola_exec = <<>>
       THEN Responde /\ UNCHANGED yo
       ELSE yo' = cola_exec[1] /\ Va(IF Es({"DUMP_MEMORY"}) THEN "bloquear" ELSE "matarPCB")
    /\ UNCHANGED <<colas, tablas, contextos, tomados, porVerificar, pedido, otro, canal,
                   ajenoAlHandler>>

\* The answer of memoria: the thread goes on, or its process ends.
Volcar ==
    /\ En("volcar")
    /\ otro' = yo
    /\ Va("desbloquear") \/ Va("matarPCB")
    /\ UNCHANGED <<colas, tablas, contextos, tomados, porVerificar, pedido, yo, canal,
                   ajenoAlHandler>>

\* buscarPCB gives -1 for a process that is gone, and the slice panics.
BorrarPCB ==
    /\ En("matarPCB") /\ Libre("pcbs")
    /\ LET suyos == {k \in DOMAIN PCBS : PCBS[k].ID = yo.PID} IN
       IF suyos = {}
       THEN Panico({"pcbs"}) /\ UNCHANGED PCBS
       ELSE /\ PCBS' = RemoveAt(PCBS, CHOOSE k \in suyos : \A j \in suyos : k <= j)
            /\ Va("matarReady") /\ UNCHANGED tomados
    /\ UNCHANGED <<colas, PCB_ID, hilosJoined, contextos, porVerificar, pedido, datos,
                   ajenoAlHandler>>

\* mandarHilosExitProceso
MatarReady ==
    /\ En("matarReady") /\ Va("matarMulti")
    /\ Libre("ready") /\ Libre("exit")
    /\ cola_ready' = SinPID(cola_ready, yo.PID)
    /\ cola_exit' = cola_exit \o ConPID(cola_ready, yo.PID)
    /\ UNCHANGED <<cola_exec, cola_blocked, colasMultinivel, tablas, contextos, tomados,
                   porVerificar, pedido, datos, ajenoAlHandler>>

MatarMultinivel ==
    /\ En("matarMulti") /\ Libre("exit")
    /\ canal' = "processEnded"
    /\ colasMultinivel' = [p \in Prioridades |-> SinPID(colasMultinivel[p], yo.PID)]
    /\ IF cola_exec = <<>>
       THEN Panico({"exit"}) /\ UNCHANGED cola_exit
       ELSE /\ cola_exit' = Append(cola_exit, cola_exec[1])
            /\ IF Es({"DUMP_MEMORY"}) THEN Responde ELSE Va("envia")
            /\ UNCHANGED tomados
    /\ UNCHANGED <<cola_ready, cola_exec, cola_blocked, tablas, contextos, porVerificar,
                   pedido, yo, otro, ajenoAlHandler>>

\* The end of executionProces after a segmentation fault.
LiberarInt ==
    /\ En("liberarInt") /\ Responde
    /\ vivo' = ~Libre("int")
    /\ tomados' = tomados \ {"int"}
    /\ UNCHANGED <<perfil, colas, tablas, contextos, porVerificar, pedido, datos,
                   delPlan, interruptionExits, cargado>>

Handler ==
    \/ EntraThreadCreate \/ EntraProcessCreate \/ PasarAReady \/ SolicitarEspacioHilos
    \/ Enviar \/ RegistrarPCB
    \/ EntraFinalizar \/ ElegirAlQueTermina \/ AvisarMemoria \/ FiltrarReady
    \/ FiltrarMultinivel \/ PasarAExit \/ NadaQueSoltar \/ SoltarSinPCB \/ SoltarMutex
    \/ Desbloquear \/ Encolar \/ EnviarConReady \/ QuitarDeTIDCola \/ PedirVerificacion
    \/ EntraThreadJoin \/ PasarABlocked \/ VaciarExecPorJoin
    \/ MutexCreate \/ MutexLock \/ AnotarTID
    \/ EntraConEjecutando \/ Volcar \/ BorrarPCB \/ MatarReady \/ MatarMultinivel
    \/ LiberarInt

-----------------------------------------------------------------------------
(***************************************************************************)
(* VerificarTCBEnCanal.                                                    *)
(***************************************************************************)

EsperanA(tid) == SelectSeq(hilosJoined, LAMBDA j : j.HiloDebeFinalizar = tid)

\* A single THREAD_JOIN is not looked at.  When the waiting thread is found,
\* desbloquearHilo locks again the mutex this goroutine has already locked.
Verificar ==
    /\ vivo /\ porVerificar # <<>>
    /\ LET quienes == EsperanA(porVerificar[1]) IN
       IF Len(hilosJoined) > 1 /\ quienes # <<>>
       THEN /\ Libre("blocked")
            /\ IF ConTID(cola_blocked, quienes[1].HiloBloqueado) # <<>>
               THEN tomados' = tomados \cup {"blocked"} /\ UNCHANGED porVerificar
               ELSE porVerificar' = <<>> /\ UNCHANGED tomados
       ELSE porVerificar' = <<>> /\ UNCHANGED tomados
    /\ UNCHANGED <<perfil, colas, tablas, contextos, vivo, delPlan, handler, cpu>>

Next == CPU \/ Planner \/ Handler \/ Verificar

Spec == Init /\ [][Next]_vars

\* Goroutines are scheduled and requests are answered; the CPU is not assumed
\* to go on.
FairSpec == Spec /\ WF_vars(Planner) /\ WF_vars(Handler)
                 /\ WF_vars(Verificar)

-----------------------------------------------------------------------------
(***************************************************************************)
(* Properties.                                                             *)
(***************************************************************************)

\* The CPU is never given two threads: cola_exec, which thread_join empties
\* and two cases of the planner append to, has at most one element.
UnSoloEnExec == Len(cola_exec) <= 1

\* No call in progress, and the planner with nothing to do or stuck for good.
EnReposo ==
    vivo /\ paso = "libre" /\ plan \in {"espera", "atascado"} /\ porVerificar = <<>>

\* At rest no thread in READY is more urgent than the one in EXEC: every
\* arrival and every departure made the planner look again.
EjecutaElMasUrgente ==
    EnReposo /\ cola_exec # <<>> =>
        \A i \in DOMAIN cola_ready : cola_exec[1].Prioridad <= cola_ready[i].Prioridad

\* Under CMN, at rest cola_ready and colasMultinivel, which different mutexes
\* protect, hold the same threads: one that is only in the first is never chosen.
ColasCoherentes ==
    EnReposo /\ Algoritmo = "CMN" =>
        Hilos(cola_ready) = UNION {Hilos(colasMultinivel[p]) : p \in Prioridades}

Lugares(h) ==
    Len(ConHilo(cola_ready, h)) + Len(ConHilo(cola_exec, h))
    + Len(ConHilo(cola_blocked, h)) + Len(ConHilo(cola_exit, h))

\* At rest every thread of every process is in exactly one of the queues, in
\* programs where the planner takes the CPU from nobody who goes on: crearHilo
\* (kernel.go:276), THREAD_CANCEL, THREAD_EXIT and the planner's removal of the
\* one that runs move it without losing it or leaving a copy behind.  Nobody is
\* in BLOCKED there; with joins, locks, dumps or faults it is false.
CadaUnoEnSuCola ==
    EnReposo => \A k \in DOMAIN PCBS : \A i \in DOMAIN PCBS[k].TIDS :
                   Lugares(<<PCBS[k].ID, PCBS[k].TIDS[i]>>) = 1

Duenos(pid) ==
    UNION {Hilos(SelectSeq(q, LAMBDA t : t.PID = pid /\ t.Mutex)) :
              q \in {cola_ready, cola_exec, cola_blocked}} \ Hilos(cola_exit)

\* Of the threads of a process that have not ended one at a time has its mutex:
\* mutex_lock gives it or blocks the thread, and finalizarHilo, which runs while
\* the planner already dispatches another thread, passes it on.
ExclusionMutua == \A k \in DOMAIN PCBS : \A g, h \in Duenos(PCBS[k].ID) : g = h

\* At rest a thread that went to EXIT is not waiting for the CPU.
ExitDefinitivo == EnReposo => Hilos(cola_exit) \cap Hilos(cola_ready) = {}

\* No mutex is left locked on the way to an answer, by planificarFifo with
\* nobody in READY or by a handler that finds cola_exec empty and panics; only
\* the planner keeps cola_exec_mutex, while it replaces the thread in EXEC, and
\* it never sticks with a message for it on its way; and the kernel is alive.
SinTrabas ==
    /\ vivo /\ tomados \subseteq {"exec", "clave"}
    /\ "exec" \in tomados => plan \in {"finElige", "envia", "atascado"}
    /\ paso = "envia" => plan # "atascado"

\* Every system call is answered.
PedidoRespondido == (paso # "libre") ~> (paso = "libre")

\* The state of a thread: a thread in the hands of the planner or of
\* desbloquearHilo is on its way to or from READY.
EnMano(h) ==
    \/ Hilo(nuevo) = h /\ plan \in {"compara", "devuelve", "avisa", "toma", "intElige",
                                    "intAvisa", "intToma", "intEspera", "intDevuelve"}
    \/ Hilo(otro) = h /\ paso = "encolar"

estado ==
    [h \in Claves |-> CASE h \in Hilos(cola_exit)    -> "EXIT"
                        [] h \in Hilos(cola_blocked) \ Hilos(cola_exit) -> "BLOCKED"
                        [] h \in Hilos(cola_exec) \ Hilos(cola_exit \o cola_blocked) -> "EXEC"
                        [] OTHER -> IF h \in Hilos(cola_ready) \/ EnMano(h)
                                    THEN "READY" ELSE "NEW"]

CicloDeVida == INSTANCE Estados WITH Todos <- Claves

\* The queues implement the life cycle of Estados.
CumpleCicloDeVida == CicloDeVida!Spec
=============================================================================
