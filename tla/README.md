# A TLA+ model of the operating system simulator

The repository is a small distributed operating system: four Go programs that talk HTTP
and run, between them, programs written in a toy assembler. This directory holds TLA+
models of them, the TLC configurations that check the models, and proofs that TLAPS
checks.

Contents: [the system](#the-system), [the modules](#the-modules), [the runs](#the-runs),
[the proofs](#the-proofs), [what the checks found](#what-the-checks-found),
[limits](#limits), [the plan](#the-plan).

## The system

`net/http` serves every request in a goroutine of its own, so each handler below may run
several times at once, unless its callers prevent it.

### Kernel (`src/kernel/kernel.go`)

*State.* The queues `cola_new`, `cola_ready`, `cola_exec`, `cola_blocked`, `cola_exit`,
each with a mutex, and `colasMultinivel`, a second copy of READY by priority; the PCB
table `PCBS`, the counter `PCB_ID`; `hilosJoined`; a mutex `intProcesada` used as a
signal; unbuffered channels (`processEnded`, `nuevoElementoReadyDesalojo`,
`processInterrupted`, `execEmpty`, `tcbChannel`).

*Operations.* One goroutine, `planificacionCombinada` (the *planner*), waits on three
channels and decides which thread has the CPU, with FIFO, priorities or multilevel
queues (CMN). The system calls are HTTP handlers: processes and threads are created and
ended, joined, cancelled, blocked on mutexes and on memory dumps. They change the queues
themselves and then wake the planner through a channel. `VerificarTCBEnCanal` is one
more goroutine, for the joins. `inicializarProceso` admits processes: it asks memoria
for room with the size and the program at the head of `cola_procesosToCreate`, and a
process that memoria refuses waits in `cola_new` (the first of the line) or
`cola_newAux` (the others) until some other process ends.

*Hard.* Handlers and planner share the queues and hold the mutexes over parts of their
work only; messages on the channels carry no data, so the receiver acts on queues that
may have changed; sends block while mutexes are held; panics leave mutexes locked;
`TCB{}` means "none" and is also the first thread. What a process asked for and its PCB
wait in different queues, which only the order keeps together.

*Correct when* a thread is in one queue and follows its life cycle; one thread has the
CPU and it is the most urgent one; a mutex has one owner; every call is answered; what
ended does not run again; processes are admitted in order, each with its own program and
size, and nobody waits while there is room.

### CPU (`src/cpu/cpu.go`, `src/cpu/utils/cpuUtils.go`)

*State.* `Clave` (the thread to run) under `claveMutex`, `interruptionExits` under
`interrupcionMutex`, and `Procesos`, the registers of the threads it has loaded.

*Operations.* `RecibirProceso` sets the thread and starts the cycle the first time;
`CicloDeEjecucion` fetches, decodes (the MMU translates and checks addresses), executes
and polls the interrupt; `interrupccion` raises the flag. The CPU waits for the reply of
each system call, so the kernel has at most one call in progress.

*Hard.* The cycle ends, or a mutex stays locked, on several paths; the interrupt races
the end of an instruction; `Clave` changes while an instruction runs, and before the
context of the new thread has come; registers live in two copies, here and in memoria.

*Correct when* each thread executes its own instructions, each once and in order, with
its own registers and inside its own segment; a program that should end does.

### Memoria (`src/memoria/memoria.go`)

*State.* The partition table `particiones` under `muParciones`; `mapaContextosProcesos`
(base and limit of each process) under `muContextoProcesos`; the registers and the
instructions of each thread; the bytes `memoriaUsuario`.

*Operations.* `createProceso` finds a hole (first, best or worst fit; fixed or dynamic
partitions), `finalizarProceso` frees it and merges holes, `compactarMemoria` slides the
occupied partitions down; threads, contexts and instructions are stored and served;
`readMem`, `writeMem`; `memoryDump` reads the bytes of a process and sends them to the
filesystem.

*Hard.* Table and map change under different mutexes, one after the other, and the
handlers nest them in different orders; a reply may be lost after the work is done, and
the kernel asks again.

*Correct when* the partitions tile the memory; processes never share a byte and get what
they asked for; nothing leaks; a compaction makes the room it promised; a byte that is
read, or dumped, is the last one its process wrote there.

### Filesystem (`src/filesystem/filesystem.go`)

*State.* Three kinds of file: `bitmap.dat`, `bloques.dat`, and one metadata file per
dump.

*Operations.* `crearArchivoDump`: check the space, take an index block and data blocks
in a copy of the bitmap, save the bitmap, write the metadata, the pointers and the data.

*Hard.* No mutex at all; five writes with nothing to undo them; the size and the content
come separately.

*Correct when* dumps do not share blocks, nothing is written in a free block, and a dump
that was acknowledged reads back whole.

### How they interact

    CPU  --system calls-->  Kernel  --create/end process and thread, dump-->  Memoria
    CPU  <--thread, interrupt--  Kernel                                         |
    CPU  --registers, instructions, reads, writes----------------------------> Memoria
                                            Filesystem <--dump files--  Memoria

In the committed build the `Logger` of every server is declared and never assigned
(kernel.go:76, cpu.go:20, memoria.go:37, filesystem.go:18), so the first `Logger.Info`
of a handler panics and the reply is lost. Particiones and Volcados model both builds
(`LoggerNil`); Admision models the lost replies; Planificador and Ejecucion model the
build with loggers.

## The modules

| Module | Models | Built on |
|---|---|---|
| `Segmentos` | what memoria promises: each process has a segment of its own | |
| `Particiones` | partition table and contexts of memoria | refines `Segmentos` |
| `ParticionesProofs`, `ParticionesPasos`, `ParticionesPeticiones` | the proofs about `Particiones` | `Particiones`, `Lemas` |
| `Almacen` | what the filesystem promises: a store of dumps | |
| `Volcados` | the filesystem | refines `Almacen` |
| `VolcadosProofs` | the proofs about `Volcados` | `Volcados`, TLAPS |
| `Estados` | the life cycle of a thread, one at a time in EXEC | |
| `Colas` | TCBs, and what the kernel's loops over queues compute | |
| `Planificador` | planner, system calls, joins, and the CPU's cycle | `Colas`, refines `Estados` |
| `PlanificadorProofs` | the proofs about `Planificador` | `Planificador`, `Lemas` |
| `Fila` | what the kernel promises to who asks for a process: one line | |
| `Admision` | admission of processes, with the table of memoria | `Particiones` (its operators), refines `Fila` |
| `AdmisionProofs` | the proofs about `Admision` | `Admision`, `Lemas` |
| `Maquina` | what the programs of the repository take the CPU for: a sequential computer | |
| `Ejecucion` | CPU cycle and instructions, with contexts, instructions, bytes and dumps of memoria | refines `Maquina` until a fault |
| `EjecucionProofs` | the proofs about `Ejecucion` | `Ejecucion`, TLAPS |
| `Lemas` | facts about numbers, sequences and sums that several proofs cite | TLAPS |
| `MCParticiones`, `MCVolcados`, `MCPlanificador`, `MCAdmision`, `MCEjecucion` | constants of the runs | |

Definitions keep the names of the source where they have one. `PROJECT.json` maps each
of them to its lines. Definitions marked "Mutant of X" are plausible mistakes in X;
nothing uses them, and a property is kept only if replacing X by one of them violates
it.

### Particiones

A handler is an element of `Manejadores`; `pc[h]` says which critical section it is
about to enter. Since Go's mutexes make a critical section atomic for whoever takes the
same mutex, an action is what happens between two acquisitions of `muContextoProcesos`
or `muParciones`. The two loops that can be interleaved with something, those of
`compactarMemoria` (which takes the second mutex in each iteration) and
`ConsolidarMemoria`, are one action per iteration (`CompactarLibre`, `CompactarOcupada`,
`ConsolidarPaso`), with their Go locals as variables. `PedirCrear`, `PedirFinalizar` and
`PedirCompactar` are the kernel: it has one request about a PID at a time and repeats a
creation until it reads "Proceso creado OK"; `confirmados` are the PIDs for which it
did.

`particiones` is a sequence of records as in `utils.EspacioMemoria`, including the
`Limit` that the code computes wrongly after a split and the PID 0 that such a hole
keeps. The bytes and the thread contexts are left out.

### Volcados

A request is an element of `Pedidos`; a step is one system call on a file with the
computation around it. `caso`, chosen in `Init` among the constant `Casos`, says what the clients ask for, how many requests there may be at once (`Simultaneos`) and
which build serves them. Sizes are in words of four bytes,
because a pointer is four bytes wide. `bloques` maps each word of `bloques.dat` to its
origin: word `n` of the dump of a request, or a pointer. Writes go where the code puts
them, so a long list of pointers runs into the next block. `Caida` stops every request
that is in progress and leaves the files as they are, which is what `InitFileSystem`
does with files of the configured size; `ErrorDeDisco` fails any step. `Promesa` reads
the files as a client would, through metadata, pointers and data, and `CumplePromesa`
says that what is read that way behaves as `Almacen`, for the names that only one
request uses (a later dump of the same name replaces the earlier one).

`SinCompartir`, `EscritoMarcado`, `ArchivoIntegro` and `CumplePromesa` have the premise
`EnSerie`: one request at a time. The CPU waits for the answer to DUMP_MEMORY, so the
kernel at hand has one dump in progress; the filesystem itself does not enforce it, and
without the premise they are violated (see below). `TypeOK`, `ReservaCompleta` and
`TodoPedidoTermina` hold also for requests that overlap.

### Planificador

Three processes: the planner (`plan`), the handler of the call in progress (`paso`), the
CPU (`ciclo`); and `VerificarTCBEnCanal` (`porVerificar`). A step ends where the code
takes a mutex, sends on a channel or waits for another server. `tomados` holds the
mutexes that are locked between steps, among them those a panic leaves locked. A send is
an action that fires only when the planner is at its `select` (`plan = "espera"`).
Queues are sequences of TCBs, and the helpers in `Colas` compute what the loops compute,
with their faults: `SinHiloSalteando` skips the element after a removed one, as
`desbloquearHilo` does.

`perfil`, chosen once in `Init` among the constant `Perfiles`, says which kernel is
configured (the scheduling algorithm) and what programs do: the calls they make, the
priorities they ask for, how many threads there may be. A program is any sequence of
those calls: which instruction comes next is the program's choice. A thread can fault,
end, and (`TrasExit`) go on after its EXIT. `Volcar` lets memoria accept or refuse a
dump. A panic in a handler is a reply to the CPU (`Responde`), because `net/http`
recovers it and the CPU ignores the error. `colasMultinivel` is kept only under CMN, the
one algorithm that reads it.

Abstracted: the name of a mutex (a process creates at most one; `TCB.Mutex` says whether
the thread has it); of `RutaArchivo`, only whether it is empty; the quantum (dead code,
see below); `mutex_unlock`, because `MUTEX_UNLOCK` of cpuUtils.go panics on `args[1]`
before the request leaves the CPU; time.

### Admision

`cola_new`, `cola_newAux` and `PCBS` hold PCBs; the model keeps the PIDs, and of the
TIDs of a PCB whether the first thread is there. `cola_procesosToCreate` holds what was
asked for. One handler runs at a time, because the CPU waits for its reply: `paso` says
where it is, and a step ends where the kernel has an answer of memoria. `createProceso`
starts `inicializarProceso` (`Inicializa`) when nobody waits, or queues; `Creado` and
`NoCreado` are its two outcomes, `SigueOTermina` its recursive call for the next one
that waits, `Responde` the end of the handler, where `createProceso` appends the PCB.
`finalizarProceso` frees the memory and starts `inicializarProceso` again for the head
of `cola_new`. `RespuestaPerdida` and `FinPerdido` are the answers that never arrive,
memoria having done the work. What memoria does (`Aloja`, `Rechaza`, `Libera`) is stated
with the operators of Particiones, instantiated for its table. `pedido` is history: what
the creator of each PID asked for, to compare with `cargados`, what it got.

Abstracted: the name of the program is the PID of the request, so that no two requests
are confused; the kernel's queues of threads, and that the planner receives what
`crearHilo` and `finalizarProceso` send, are the subject of Planificador. The compaction
dialogue (`detenerPlanificacion`, `monitorizarCola`) is left out because it cannot
start: see `adm_compactar`.

### Ejecucion

`ciclo` is where `CicloDeEjecucion` is; a step is one of its calls (`Fetch`, `Decode`,
one action per instruction, `Actualizar`, `SumarPC`, `CheckInterrupt`), each with what
it asks of memoria, because memoria answers while the CPU waits. Three other parties
interleave with it: `RecibirProceso`, in two steps (`RecibirClave`, `RecibirContexto`)
because memoria answers in between; `interrupccion`; and the planner, `Planifica`, which
may make any thread that ever was the one in EXEC, at any time, once the first thread
is not alone (`Acompanado`). A system call does what its handler asks of memoria and
tells of EXEC; whatever else the handler does is in Planificador. `caso`, chosen in
`Init` among `Casos`, has the programs, the size of the first process and whether the
planner interferes.

Memoria's maps are functions with its keys: `mapaInstrucciones` by TID only, as the code
has it. `memoriaUsuario` is the array of bytes; a word is written byte by byte, up to
the end of the memory. What the code does in place of what its names say is kept:
READ_MEM assigns no register, since it looks for "valor" in a reply that has "datos";
JNZ is not called and its PC is incremented twice; MUTEX_UNLOCK panics; the update of a
context names no thread and lands in thread 0 of process 0; every dump is refused by the
filesystem and ends the process.

`Maquina` is a computer with a program, three registers and `tam` bytes, one step per
instruction, each with the effect that the programs of `src/the-last-of-c-pruebas` use it
for: READ_MEM loads the word, JNZ jumps, DUMP_MEMORY copies the bytes and the program
goes on, every byte of the process is its own. One thing it takes from the code, because no
program says otherwise: the cycle adds one to a PC that SET has assigned. It promises
nothing once the thread has company or waits (`Pierde`): from then on the code does not
keep such a promise (`ejec_programas`).

The refinement mapping shows it the registers that the CPU has, PC counted as moved as
soon as the instruction has had its effect (`PCVisto`), and the bytes of the segment.
There are two instances of it. `CumpleMaquina` is the whole promise, which the code does
not keep (`ejec_lectura`). `CumpleSinFaltas` ends it at the first fault of the first
thread: `falta` is history, and becomes true at an instruction of `Faltas` (READ_MEM,
JNZ, MUTEX_UNLOCK), at a dump that is refused (`RechazarDump`, a step after memoria has
copied the bytes, which `Maquina` sees) and at an address that is the process's and is
taken for a fault. `proxima` is history too: the next place of each thread in its own
program, as the cycle goes, for `EnOrden`.

Abstracted: the kernel is an environment; a mutex that is locked is free; the contents
of LOG and IO; registers do not overflow (`int`, cpuUtils.go:22-32); lines with a wrong
number of arguments, and empty ones, which end the cycle (cpu.go:158); a process is created
in any place clear of the others, as Particiones shows.

## The runs

Every run is exhaustive over its instance. Sizes are distinct states.

| Run | Instance | States | Checks |
|---|---|---|---|
| `part_din` | dynamic partitions, first fit, 3 handlers (symmetric), processes of 1, 2, 3 bytes in 5, compaction, logger assigned | 122 000 | `TypeOK`, `IInv`, `Mosaico`, `Aislamiento`, `ConfirmadoTieneContexto`, `SinFugas`, `SinHuecosAdyacentes`, `CompactarHaceLugar`, refinement of `Segmentos` |
| `part_interbloqueo` | dynamic, 2 handlers, compaction, fairness | | `TodaPeticionTermina`, **violated** |
| `vol` | three requests, a crash, disk errors, fairness; five cases: in series (all fit; do not fit and share a name) and at once (sizes that disagree with the content, with and without logger; do not fit) | 156 000 | `TypeOK`, `ReservaCompleta`, `SinCompartir`, `EscritoMarcado`, `ArchivoIntegro`, refinement of `Almacen`, `TodoPedidoTermina` |
| `plan_vida` | four profiles without preemption, fairness | 22 000 | `CadaUnoEnSuCola`, `SinTrabas`, refinement of `Estados`, `PedidoRespondido` |
| `plan_urgencias` | four profiles: preemption between three priorities, joins, processes that end, an inherited mutex | 4 180 000 | `TypeOK`, `EjecutaElMasUrgente`, `UnSoloEnExec`, `ColasCoherentes` |
| `plan_herencia` | four threads of one priority, CMN, one mutex | | `ExclusionMutua`, **violated** |
| `plan_exit` | four threads, two priorities, PRIORIDADES | | `ExitDefinitivo`, **violated** |
| `adm_cola` | five processes of 1 and 3 bytes (the first of 2, or of 6, which never fits) in 5 bytes, one reply lost, fairness | 37 000 | `TypeOK`, `ColasEmparejadas`, `PCBSAlDia`, `NadieEsperaConHueco`, `CadaUnoLoSuyo`, refinement of `Fila`, `TodosEntran` |
| `adm_compactar` | processes of 1, 2 and 3 bytes in 5 | | `EsperaSoloSinEspacio`, **violated** |
| `ejec_maquina` | every program of two instructions, every computation of three, processes of 4 and 6 bytes that create others of 0, 2 and 3, seven programs with preemption, fairness | 2 391 000 | `TypeOK`, `SegmentoPropio`, refinement of `Maquina` until a fault, `ProgramaTermina` |
| `ejec_lectura` | a program that writes a word and reads it back | | refinement of `Maquina`, **violated** |
| `ejec_programas` | a process that creates another one | | `EnOrden`, **violated** |

### Bounds, and why they are enough

*Particiones.* In 5 bytes, processes of 1, 2 and 3 bytes produce every shape that the
code distinguishes: a hole that fits exactly, one that is split, two holes that only add
up, neighbouring holes to the left, to the right and on both sides, a full table. Three
handlers are one more than a lock cycle needs, and as many as there are PIDs (the kernel
has one request per PID in flight). PIDs start at 1 in these runs,
and `SinFugas` leaves PID 0 out: the hole that a split leaves has PID 0
(memoria.go:245), and `liberarParticionPorPID`, which does not look at `IsFree`, may free
that hole in place of the partition of process 0. The kernel asks for PID 0 first, so
that its partition is the first of the table and is found first; in any other order it
leaks. `adm_cola` has PIDs from 0 in the order of the kernel, and there
`CadaUnoLoSuyo` holds. `CHECK_DEADLOCK FALSE`: with compaction the two mutexes really
deadlock. No run has fixed partitions; `Aislamiento`
and `SinFugas` are theorems for either scheme, `FijasIntactas` for the fixed one.

*Volcados.* Eight blocks of two words hold the three small dumps and not the large ones,
the first and the last blocks of a dump are filled and half filled, and dumps have at
most as many data blocks as an index block holds pointers; the cases where they have
more break `ArchivoIntegro` and are left out of the runs (see below). One crash: a
request that was cut short is never resumed, so a second crash does nothing that a disk
error does not do. Deadlock is checked: the only final states are `Terminado`.

*Admision.* `MaxPid` = 4, five processes: one that runs, one in `cola_new` and up to
three in `cola_newAux`, so that a line has a first, a middle and a last. Sizes 1 and 3 in
5 bytes: two of 3 never fit together, and a 3 that waits leaves room that a 1 behind it
must not take; ends in any order leave holes on both sides of a partition. Once five
processes were created no more are, and when they have ended nothing happens:
`CHECK_DEADLOCK FALSE`. `MaxPerdidas` = 1: after a reply was lost only the properties
that survive it are claimed.

*Ejecucion.* `EnsayosCortos` is every sequence of two instructions of a repertoire that
has every operation, with registers, values and addresses that decide each branch (an
address inside, at the last byte, and past the limit; jumps inside and outside the
program), each followed by PROCESS_EXIT, and every sequence of three of those that
compute. Size 6 is the whole memory, so that a word at the end would leave it; 4 leaves
room for one more process of 2. The planner interferes in seven of them, with two threads,
until a program counter passes `MaxPC` (threads that come back start again, so they
would loop for ever); in one of these, `SinContexto`, the key changes while a SET is in
hand, so that the SET makes an entry of `Procesos` with no segment. `CHECK_DEADLOCK FALSE`: the CPU really stops, on the paths listed
below.

*Planificador.* `MaxHilos`, `MaxProcesos` and `MaxJoins` bound what programs ask for
(`Cabe`), the handlers have no bound of their own. Three threads are needed for a
preemption that races something else (one in EXEC, one that arrives, one that stays
behind), four for the longest known counterexamples (`plan_exit` and `plan_herencia`; with
three threads both properties hold). `CHECK_DEADLOCK FALSE`: when every program has ended the system really stops, and it also does on the
deadlocks described below.

`EnReposo` is the premise of the properties about queues: no call in progress,
`VerificarTCBEnCanal` idle and the planner waiting or stuck. While a handler is half way
the queues are, by design, not consistent.

### Fairness

`FairSpec` of Particiones assumes strong fairness of each handler's own steps:
`sync.Mutex` hands the lock to a waiter that has starved for a millisecond, so a
goroutine that can take the mutex again and again eventually does. Nothing is assumed of
the arrival of requests. `SpecJusta` of Volcados assumes weak fairness of each request:
there are no locks, so a step stays enabled until it is taken. Planificador assumes weak
fairness of the planner, of the handler in progress and of `VerificarTCBEnCanal`, which
are goroutines that the Go scheduler runs; it assumes nothing of the CPU, whose programs
may stop asking. Admision assumes weak fairness of the handler that runs and of
`AlgunoTermina`: as long as some process is loaded one of them ends at last. The second
is an assumption about programs, without which nobody could be promised admission; that
the planner gets to run them is Planificador's. Ejecucion assumes weak fairness of the
CPU and of `RecibirProceso` only while the first thread is alone, where nothing else
competes; nothing is assumed of the planner.

### What each property is about

Each property is stated in words above its definition. In short: `Mosaico`, `SinFugas`,
`SinHuecosAdyacentes` and `CompactarHaceLugar` say that no byte of memory is lost
whatever the history; `Aislamiento` and `Segmentos` that compaction, which moves
contexts one at a time, never lets two processes overlap, not even between two of its
steps; `ConfirmadoTieneContexto` that a creation that was acknowledged is not undone by
another request. `EscritoMarcado`, `ArchivoIntegro` and `Almacen` say that no
interruption between the five writes of a dump damages what was acknowledged.
`CadaUnoEnSuCola` and `Estados` say that `crearHilo`, THREAD_CANCEL, THREAD_EXIT and the
planner, who pass threads between READY, its copy by priority, EXEC and EXIT under
different mutexes, neither lose nor copy one, in programs without preemption: BLOCKED stays
empty there, and with a DUMP_MEMORY, a join or a lock both are violated; `SinTrabas` that
none of the places that leave a mutex locked (`planificarFifo` with nobody in READY, a
handler that panics on an empty `cola_exec`) is reached on the way to an answer; `ColasCoherentes`
that the two versions of READY agree; `EjecutaElMasUrgente` that no arrival is missed,
although messages carry no data. `ExclusionMutua`, that a mutex inherited from a thread
that ends has one owner, is what `mutex_lock` answers and the code does not keep.

`ColasEmparejadas` says that the three queues of NEW, which two handlers and a recursive
call move apart, always give a process its own size and program; `PCBSAlDia` that the
PCB table agrees with them between calls; `NadieEsperaConHueco` and `TodosEntran` that
no sequence of refusals and ends leaves somebody waiting with room to spare, or for
ever; `Fila` that the order is the one of arrival. `CumpleMaquina`
says that registers and bytes, kept by two servers and reached through a translated
address, change as one instruction at a time would change them, and that what was written
is what is read: the code does not keep it. `CumpleSinFaltas` is what it does keep, up to
the first fault; `SegmentoPropio` that no thread is ever given
the segment of another process, however late its context arrives.

## The proofs

### Particiones

TLAPS proves, for any set of handlers and PIDs, any sizes, any memory, any algorithm and
scheme, with or without logger (the runs have the logger assigned, and a lost reply is
what `LoggerNil` adds):

| Theorem | States |
|---|---|
| `Invariante` | `Spec => []IInv` |
| `TipoCorrecto` | `Spec => []TypeOK` |
| `MesaCompleta` | `Spec => []Mosaico` |
| `ProcesosAislados` | `Spec => []Aislamiento` |
| `PromesaCumplida` | `Spec => CumplePromesa`: the map of contexts implements `Segmentos` |
| `ConfirmadosSiguen` | `Spec => []ConfirmadoTieneContexto` |
| `HuecosConsolidados` | `Spec => []SinHuecosAdyacentes`, if `~LoggerNil` |
| `FijasSiempreIntactas` | `Spec => FijasIntactas`, if `Esquema = "FIJAS"` and nobody asks for a compaction |
| `CompactarSirve` | `Spec => CompactarHaceLugar` |
| `NingunaFuga` | `Spec => []SinFugas`, if `~LoggerNil` |

*Assumptions.* `AjustesValidos` (the types of the constants) and `ParticionesEntran`:
the configured partitions fit in the memory, stated as the existence of the function of
their bases. The second is an assumption because its other form, a recursive sum, would
need an induction; TLC evaluates both in every run.

*The invariant.* `Aislamiento` is not inductive: nothing in it relates a context to the
partition table, nor the table to a compaction that is half done. `IInv` adds

- `Candados`: where a handler is says which mutexes it holds, so at most one is between
  two lines that touch the table;
- `Mesa`: the table is a non empty sequence that tiles `0 .. Total - 1`, each element
  after the previous one;
- `Progreso`: while `compactarMemoria` runs, what it has placed, plus the free bytes it
  has counted, ends where the part it has not visited begins, and the placed partitions
  are the visited ones moved down; `Reposo`: otherwise its locals have their initial
  values;
- `Alojados`: each context lies in an occupied partition of its PID, in the part of the
  table that is still to be visited or among the placed ones. This is what makes each
  single step of a compaction safe: moving one context down cannot reach what has not
  moved yet (`PendienteSobreMovida`);
- `PorRegistrarAlojados`: a `createProceso` between its two critical sections has a
  partition waiting for it.

The last five theorems have invariants of their own, on top of `IInv`. `IClientes` says
that no two handlers serve one PID (the kernel has one request per process in flight),
that a process that is being ended is not confirmed any more, and that a creation that is
about to answer has its context. `IHuecos` follows `ConsolidarMemoria`: before its index
no two holes are side by side, and once it ends none are anywhere; with a nil Logger the
merge never runs, and the statement is false. `SinRecorridos`: under FIJAS nobody ever
walks the table to merge or compact.

`ICuenta`, for `CompactarSirve`: the free bytes that `compactarMemoria` has counted
(`pedazoLibre`) are the sum of the holes it has passed, so the hole it appends at the end
has all the free bytes there were when the answer was "compactar". The model adds the
holes with `MapThenSumSet`, memoria one by one: `LibresEn` ties both. The property asks
for at least one free byte, because without it the statement is false: a process of size
0 is told to compact a full table, which makes no hole.

`IFugas`, for `NingunaFuga`: no two occupied partitions have the same PID, each is of a
process that has a context or is between the two critical sections of `createProceso`,
and holes have no PID but -1 or 0. Halfway through a compaction, those that were placed
come from different elements of the part that was visited. Splitting, replacing and
merging are one fact, `EsMudanza`: every occupied partition after the step comes from a
different one of before. `IAltas` says that nobody is created twice: a process that has a
context is confirmed, or on its way out. With a nil Logger that is false and so is
`SinFugas`: the reply of a creation that worked is lost, the kernel repeats it, and
memoria gives the process a second partition which nobody frees. The committed build never
assigns the Logger, so `NingunaFuga` is about the build with it mended.

*Layout.* `Lemas`, which the proofs of Admision and Planificador also cite, has facts
about `InsertAt`, `RemoveAt` and increasing sequences, and about sums: `MapThenSumSet` takes with `CHOOSE` a recursive function, and no library
theorem can be instantiated to show that there is one. `HaySuma` does it by growing the
set on which it exists, one element at a time;
`ParticionesProofs` defines `IInv` and proves what each operation on the table (split,
replace, merge, append) does to a tiling, and `Init => IInv`; `ParticionesPasos` has one
lemma per action, the first theorems and the refinement; `ParticionesPeticiones` the
other five. `IInv` is also an invariant of `part_din`.

### Volcados

For any disk, any requests and declared sizes, any number of requests at once, any
crashes and errors:

| Theorem | States |
|---|---|
| `DiscoEnPie` | `Spec => []IVolcados` |
| `TiposDelDisco` | `Spec => []TypeOK` |
| `SiempreReservaCompleta` | `Spec => []ReservaCompleta` |
| `CadaDumpEnSusBloques` | `Spec => []SinCompartir` (its premise is `EnSerie`) |
| `NadaEnBloquesLibres` | `Spec => [](IndicesCaben => EscritoMarcado)` |
| `DiscoConsistente` | `Spec => [](IVolcados /\ IDisco)` |
| `LoCreadoQueda` | `Spec => [](IndicesCaben /\ BienDeclarados => ArchivoIntegro)` |
| `DiscoCumple` | `Spec /\ IndicesCaben => CumplePromesa`: the disk implements `Almacen` |

*Assumptions.* `PedidosValidos`, the types of the constants. `IndicesCaben` says that no
dump has more data blocks than its index block has room for pointers. It is not a
convenience of the proof: without it `escribirPunterosEnIndice` writes past the index
block (filesystem.go:298) and the statements are false. `BienDeclarados` says that a
dump carries something and no more than the `tamano` it declares: the code reserves for
the declared size and cuts what does not fit (filesystem.go:319), and says "creado" all
the same. `vol` has cases where each is true and cases where it is not.

*The invariant.* `SinCompartir` is not inductive: it does not say that what a request
holds is marked, so the next one could take it. `IVolcados` adds `Marcados`, which
follows the bitmap through its three copies: between `reservarBloque` and
`guardarBitmap` a request's copy is exactly the file and its own blocks, which the file
does not have yet, and from then on the file has them for ever; and `DeAUno`, that with
one request at a time nobody holds a copy that another is about to make stale. That the
reservation is complete rests on `UnoPorRango`: counting the free blocks and finding them
one by one agree, because the function that ranks the elements of a finite set is an
injection into an interval of the same size. `Avanza` is what the steps that take no
block and do not save the bitmap have in common, so that all actions but two share one
lemma; the other lemmas are about who takes (`LoReservado`), who saves and where each write lands
(`BloqueDeDireccion`).

`ArchivoIntegro` and `Almacen` are about what the five writes of all the requests,
finished or cut short, have left on the disk. `IDisco` says it file by file: `LoTomado`
(a request took all it needs, all different, and block 0, which is what an unwritten
pointer says, is nobody's data: the search begins with the index block, so whoever takes
block 0 takes it as index), `Anotados` and `MetaHecha` (a metadata file was written by a
request of its name, and it is the one of the last that passed), `Indices` and
`PunterosHechos` (an index block holds pointers of its request, each in its place, and
zeros where it has not been), `DatosPropios` and `DatosHechos` (a word of a dump is in a
data block of its request, in its place, and the blocks behind the index of the loop
are complete). All rests on `Tenencia`: requests whose reservation reached the disk
(`Firmes`) have no block in common. Of the requests that crash between the bitmap in
memory and the one in the file nothing can be said, and `Firmes` leaves them out until
something on the disk shows that they went on. The refinement mapping shows of a disk
what can be read back through metadata and pointers. `Vista` is a function of `Vistos`,
the requests that can be read, and `SoloSeCompletaEscribiendo` says that this set grows
only by a request that writes its own data block: the order of the five writes is what
makes a dump appear at once.

### Admision

For any number of processes, any sizes, any memory and any number of lost replies:

| Theorem | States |
|---|---|
| `FilaEnPie` | `Spec => []IFila` |
| `LasColasVanJuntas` | `Spec => []ColasEmparejadas` |
| `CadaUnoSuPrograma` | `Spec => []SuPrograma`: each process runs what its creator named |
| `AdmisionEsUnaFila` | `Spec => CumpleFila`: the admission implements `Fila` |
| `MemoriaEnPie` | `Spec => []IMemoria` |
| `NadieEsperaDeMas` | `Spec => []NadieEsperaConHueco` |
| `CadaUnoConLoSuyo` | `Spec => []CadaUnoLoSuyo` |
| `PCBSEnPie` | `Spec => []IDePCBS` |
| `PCBSQuedaAlDia` | `Spec => []PCBSAlDia` |
| `TiposDeAdmision` | `Spec => []TypeOK` |

*Assumptions.* `AjustesDeAdmision`, the types of the constants, and `AjustesDeMemoria`,
what Particiones assumes of its own. The first four theorems use nothing of what
memoria does to its table: they hold whoever memoria refuses.

*The invariant.* `ColasEmparejadas` is not inductive: it would allow a second PCB in
`cola_new`, which `Creado` empties whole. `IFila` adds `Turnos`, where the handler and
`cola_new` stand: outside `inicializarProceso`, `cola_new` is empty and nobody is in
`cola_newAux`, or it holds exactly the first of the line; inside, it is empty or holds
the PCB that is being served. It also adds `Tipos`, in particular that PIDs are those
given so far, so that who arrives is new, and `SuPrograma`. `AdmisionProofs` has first
facts about a sequence with its first element apart, then about two sequences that go
together (`ParejaAlLlegar`, `ParejaAlSalir`), then `Forma`, what `EnEspera` is in each
turn, and one lemma per action that shows both that `IFila` is kept and that the step is
one of `Fila` or a stutter (`PasoDeFila`).

`IMemoria` relates the table to the queues: `SinHuecoElPrimero`, that between two calls
the first of the line was refused with the table as it now is, from which
`NadieEsperaConHueco` follows, and `CadaUnoTiene`, that who runs has its partition. Each
needs only that a step of memoria takes the partition of nobody else (`AlojarConserva`,
`LiberarConserva`). `ConsolidarMemoria` is a fold over the table; the community module
defines it as the value of a function chosen by its recursive equation, so that anything
said of it needs the existence of such a function, which `HayPlegado` proves by the
least length that would have none. The proof corrected a property: under FIJAS, `CadaUnoLoSuyo` asked
of the first process only that it fit in the whole memory, and it may fit there and in
no partition; `Cabe` says what memoria looks at.

`IDePCBS` says that `PCBS` is at every moment who waits and who runs, but for one
PCB: `createProceso` appends it after `inicializarProceso` is back (`porRegistrar`), when
the process may be running already. It needs that nobody waits twice, nor waits and
runs, because `finalizarProceso` removes the element where `buscarPCB` finds the PID, and
nothing else says that it is the only one.

### Ejecucion

For any programs, any size of the memory and of the processes, any values in registers
and bytes, any bounds:

| Theorem | States |
|---|---|
| `SoloEnPie` | `Spec => []ISolo` |
| `SinFaltasEsUnaMaquina` | `Spec => CumpleSinFaltas`: CPU, memoria and handlers implement `Maquina` until a fault |
| `SegmentosEnPie` | `Spec => []ISegmentos` |
| `CadaClaveEnSuSegmento` | `Spec => []SegmentoPropio`, with the planner interfering |
| `TiposDeEjecucion` | `Spec => []TypeOK` |

*Assumptions.* `AjustesDeEjecucion`: the types of the constants, that a first process
has a size that fits in the memory, and that a case has at least one program.

*The invariants.* `CumpleSinFaltas` says what registers and bytes look like from outside,
and that cannot be shown step by step without knowing where the cycle is. `ISolo`, which
speaks only while the first thread is alone and has met no fault, adds: `EnMemoria`, that there is no other
thread, memoria has the segment and the instructions of this one, and no interrupt is up;
`Arranca`, that before its context arrives the CPU has not moved and memoria has its
registers at zero; `EnMarcha`, that afterwards the key, the thread in EXEC and the only
entry of `Procesos` are that thread's, and the address that was translated is in bounds;
`Pendiente`, that from `decode` to the effect the instruction in hand is the one that PC
names, without which nothing says that the four steps an instruction takes are about the
same instruction. One
lemma per action shows that `ISolo` is kept and that the step is the instruction of
`Maquina`, the loss of its promise (`Pierde`, at a fault too), or a stutter. That `falta` is
never taken back (`NoRetrocede`) is what lets the promise end there for good.

`SegmentoPropio` is not inductive either: a creation could give a PID that some key
already has. `ISegmentos` adds `Conocidas`: PIDs were given from 0 on, so the next one
is new to every key, to EXEC and to `Clave`. What the invariant leaves free is
as telling: nothing is needed about which thread is in EXEC when a context arrives,
because `RecibirProceso` asks for the key it was given and holds `claveMutex`.

`TypeOK` needs two facts more (`ITipos`): before the first key the cycle has not begun,
and a dump has the two fields that the kernel sends. The attempt found two values that
the model had left out: the limit of a process of size 0 at base 0 is -1, and a CPU that
fetches from an empty program has in hand Go's zero value, no instruction
(`SinInstruccion`). Both are in the model now, and a process of size 0 in `ejec_maquina`.

### Planificador

For any algorithm, any programs, any number of processes, threads and joins:

| Theorem | States |
|---|---|
| `ExecEnPie` | `Spec => []IExec` |
| `SiempreUnoSolo` | `Spec => []UnSoloEnExec` |
| `TiposEnPie` | `Spec => []ITipos` |
| `TiposDelPlanificador` | `Spec => []TypeOK` |
| `UrgenciaEnPie` | `Spec => []IUrgencia` |
| `SiempreElMasUrgente` | `Spec => [](ConPrioridades => EjecutaElMasUrgente)` |
| `CopiasEnPie` | `Spec => []ICopias` |
| `SiempreCoherentes` | `Spec => [](SinBajas => ColasCoherentes)` |
| `VidaEnPie` | `Spec => []IVida` |
| `SiempreEnSuCola` | `Spec => [](PorTurnos => CadaUnoEnSuCola)` |
| `PlanificadorCumpleElCiclo` | `Spec /\ PorTurnos => CumpleCicloDeVida` |
| `AireEnPie` | `Spec => []IAire` |
| `SiempreSinTrabas` | `Spec => [](PorTurnos => SinTrabas)` |
| `SalidosPorTurnos` | `Spec => [](PorTurnos => ExitDefinitivo)` |

*Assumptions.* `AjustesDelPlan`, the types of the constants: bounds are naturals,
algorithms are the three of the code, priorities are naturals and 0, that of the first
thread of a kernel, is one of them. `ExecEnPie` and `SiempreUnoSolo` do not use it.

*The invariants.* `cola_exec` is written by the planner, by `thread_join` and by
`mutex_lock`; the other handlers read it with no mutex. `UnSoloEnExec` is not
inductive, because two cases of the planner append to the queue: `IExec` says where the
planner holds `cola_exec_mutex` (`ConExec`), at which of them it has emptied the queue
(`SinNadie`) and at which it counts on its first element (`ConAlguien`). `thread_join`
needs that mutex, so it waits, and `mutex_lock`, which takes none, leaves the length
alone. `Ajeno` is what all the steps of the CPU and most handlers have in common.

`ITipos` is what the types need to be kept. The TIDs of a process are consecutive and its
PID is nobody else's (`IPCBS`), or the TID that `thread_create` gives, the last plus one,
could leave its type; and `HilosCreados`, the bound, is a sum over the table, which is
why it takes the sums of `Lemas`. `IFichas` says that there is an assignment of a
priority to every thread created so far (`EsReparto`) of which every TCB in a queue or in
a local variable is a copy, with its mutex or without it. Copies are what the kernel moves,
and `TCB{}` is one: thread 0 of process 0 exists, with priority 0.

`EjecutaElMasUrgente` speaks of a system at rest; `IUrg` says what the planner knows
between its choice and the next message: whoever is in READY and more urgent has not been
announced yet (`SinAvisar`), and announcing him will make the planner look again.
`IMulti` adds that under CMN what waits is in the queue of its priority. `ConPrioridades`
is where that holds: PRIORIDADES, whatever the programs do, and CMN while they make none
of the calls in `Bajas` (THREAD_CANCEL, PROCESS_EXIT, DUMP_MEMORY, a segmentation fault),
which filter READY and `colasMultinivel` one after the other. Outside it the property is
false, not only unproved: TLC finds it violated under CMN with THREAD_CANCEL, with
PROCESS_EXIT and with segmentation faults. FIFO has no order of priorities.

`ColasCoherentes` is not inductive either: a copy of a thread in either version of READY
would survive the removal of the other. `ICopias` says that `colasMultinivel` has each
thread once, the same threads as READY plus the one that `crearHilo` has appended to the
first queue and not to the second (`IReady`); that who is in EXEC, or in the hands of
the planner, waits in neither (`IFuera`); that the thread that is being created is nowhere
yet (`INaciente`, from the numbering in `IPCBS`); and that nobody waits for a mutex
(`ISinHerencia`). `SinBajas` excludes `Bajas`, with each of which TLC finds
`ColasCoherentes` violated, and MUTEX_LOCK: there TLC finds no violation, in 29 million
states of an instance with four threads of one priority that end, but a thread
that was answered "blocked" goes on running until the planner replaces it, so that it can
be in BLOCKED and in READY at once, and the heir of a mutex be appended a second time as far
as `ICopias` knows.

`CadaUnoEnSuCola`, `Estados` and `SinTrabas` are false for programs in general, and
`PorTurnos` says for which they are proved: those in which the planner never takes the
CPU from a thread that goes on. Either threads of one priority run until their EXIT, one
after the other, under CMN or PRIORIDADES (`HastaElFinal`: creations of threads,
processes and mutexes, and THREAD_EXIT), or the first thread never ends and creates others
and cancels them while they wait, under any algorithm and with any priorities (`SinRelevo`).
The four profiles of `plan_vida` are of these two kinds. With one of THREAD_CANCEL,
THREAD_JOIN, MUTEX_LOCK, PROCESS_EXIT, DUMP_MEMORY or a segmentation fault besides the
exits, or with programs that go on after their EXIT, TLC finds both `CadaUnoEnSuCola`
and `Estados` violated.

`IVida` has four parts. `ISinHerencia`: nobody waits for a mutex. `ITurno`: whose turn it
is. A call in progress finds the planner at rest or looking at an arrival, with somebody in
EXEC, and while the planner replaces the thread in EXEC the CPU has not started or the
thread it has is one that ended; that is why the handlers, which read `cola_exec` with
no mutex, find there the thread that called. `IEspera`: when the planner looks
at an arrival somebody waits, in both versions of READY under CMN, so that `planificar`
returns the thread in EXEC and not `TCB{}`, with which the planner would preempt it; under
FIFO it is `TCB{}` that is compared, and it is taken for the first thread, which
is the one in EXEC. `ILugar`: every thread in the table of processes is in one queue, and
once, but for the one that `crearHilo` has in hand and the one that THREAD_EXIT has put in
EXIT and the planner has not taken out of EXEC yet. Two threads are never confused because
TIDs follow one another (`IPCBS`). `ILugar` uses `ICopias`, under CMN, to know that
the thread `planificarColas` chose leaves READY.

For the refinement, `EstadoEs` says that the queues give the state of each thread
(`Situacion`: EXIT first, then EXEC, then READY): no thread is in the hands of the planner
without being in EXEC. Four steps of Planificador are steps of `Estados`: the append to
READY of `crearHilo` is `Crear`, the choice of the planner `Despachar`, the append to EXIT
of THREAD_EXIT `Terminar`, the filter of THREAD_CANCEL `TerminarListos`. The rest are
stutters, `VaciarExec` too, because who is in EXIT counts as ended.

`IAire` adds to `SinTrabas` that nobody interrupts the CPU. It rests on `ITurno` and
`IEspera`: a handler that looks at `cola_exec` finds a thread there and does not panic,
FIFO chooses only the first thread, and the planner compares and never returns a thread.

*Layout.* One lemma for the planner, one for the steps that leave READY alone and one for
those that bring a thread to it, for each invariant. `FiltraDa` and `SalteandoDa` say what
the loops of `Colas` return, `IndiceMenorDa` and `menorClaveDa` that the searches for the
most urgent find it.

### Only model-checked

- Liveness (`TodosEntran`, `ProgramaTermina`, `PedidoRespondido`,
  `TodoPedidoTermina`): the prover handles neither fairness nor ENABLED.
- Of `plan_vida` only `PedidoRespondido`, above. Outside `PorTurnos` its safety properties
  are false (see below).
- `EjecutaElMasUrgente` and `ColasCoherentes` outside `ConPrioridades` and `SinBajas`: in
  `plan_urgencias`, `ColasCoherentes` with a mutex.
- `TodaPeticionTermina`, `ExclusionMutua`, `ExitDefinitivo`, `EsperaSoloSinEspacio`,
  `EnOrden` and `CumpleMaquina` are violated. The first one holds without compaction (an
  instance with three handlers and fixed partitions satisfies it under `FairSpec`);
  `ExitDefinitivo` is a theorem under `PorTurnos`, and `CumpleSinFaltas`, also a theorem,
  is what holds in place of `CumpleMaquina`.

## What the checks found

Each of these is a run that ends in a counterexample.

- `part_interbloqueo`: `compactarMemoria` takes `muParciones` and then
  `muContextoProcesos` (memoria.go:282 calls 309); `createProceso` and
  `finalizarProceso` take them in the other order. Two requests wait for each other for
  ever.
- `plan_exit`: the planner returns the thread in EXEC to READY (kernel.go:1613) while
  THREAD_EXIT, which read `cola_exec` with no mutex, sends it to EXIT (1159): it ends
  and runs again. The thread that had just been given the CPU disappears from every
  queue.
- `plan_herencia`: `mutex_lock` answers that the thread is blocked (kernel.go:972), but
  nothing stops it before the planner replaces it, so it may go on to its THREAD_EXIT. If
  it has the mutex, `finalizarHilo` passes it on (1167) and sends to EXIT whoever is in
  EXEC by then (1159), another thread: the first one is still in BLOCKED with the mutex,
  and its heir has it too.
- `adm_compactar`: memoria answers "compactar" (memoria.go:225) and the kernel compares
  with "Compactar" (kernel.go:399). It takes the answer for a refusal, so nothing is
  ever compacted and a process waits in NEW although the free bytes are enough.
- `ejec_programas`: memoria keeps instructions by TID (memoria.go:467). The first thread
  of a new process overwrites those of every other thread 0, and whoever runs goes on in
  the middle of the new program.
- `ejec_lectura`: memoria answers a read with "datos", in base 64 (memoria.go:852), and the
  CPU looks for an integer in "valor" (cpuUtils.go:309). READ_MEM fails, nobody looks at
  it, and the program goes on with the register as it was; RECURSOS_MUTEX_PROC, lines 14
  and 15, logs the word that it reads. Each of the other faults alone violates
  `CumpleMaquina` too: a JNZ with a register that is not zero (it skips one instruction;
  FIBO_10 closes its loop with "JNZ DX 6", line 16), a DUMP_MEMORY (the filesystem refuses
  it, because memoria sends "tamaño" and it reads "tamano", and the process ends; FIBO_10
  has a PROCESS_EXIT after it), a MUTEX_UNLOCK (it panics), and an access to the last byte
  of the process (a segmentation fault).

Other disagreements met while modelling, which instances other than those of the runs
show:

- `TCB{}` stands for "none" and is thread 0 of process 0. FIFO has no case for a new
  thread (1597), so it compares the thread in EXEC with `TCB{}` and, if it is another
  one, preempts it with `TCB{}`: under FIFO with exits `CadaUnoEnSuCola` and `Estados`
  are violated. Under PRIORIDADES the same happens when a THREAD_CANCEL empties READY
  first (1323).
- A call may never be answered, with DUMP_MEMORY of the only thread: the planner, with
  nothing to run, waits on `execEmpty` (1580) with `cola_exec_mutex` locked, and
  `desbloquearHilo` (1053) waits for it with `cola_ready_mutex` locked. The same happens
  when the planner looks between the two appends of `crearHilo` (289 and 304).
- `VerificarTCBEnCanal` ignores the first THREAD_JOIN (1209) and locks
  `cola_blocked_mutex` twice from the second on (1213).
- `CadaUnoEnSuCola` and `Estados` are violated with exits that race preemptions; and, with
  one priority, in programs with exits and one more of PROCESS_EXIT, a segmentation fault,
  THREAD_JOIN, THREAD_CANCEL, MUTEX_LOCK and DUMP_MEMORY, and in those that go on after
  their EXIT. The profiles of `plan_vida` are the ones where they hold. `plan_exit` is
  the simplest of these races. `ColasCoherentes` (under CMN) is violated with
  PROCESS_EXIT, a segmentation fault, THREAD_CANCEL or DUMP_MEMORY, and
  `EjecutaElMasUrgente` (also under CMN) with the first three, because they filter READY
  and `colasMultinivel` in two steps: the planner may return a thread in between, and a
  THREAD_CANCEL that finds nobody filters the second by the TID of `TCB{}`, 0 (1139).
- The planner replaces a thread only by a more urgent one with CMN and programs that
  create and end threads; not in general.
- `executionProces` unlocks `intProcesada` (kernel.go:1540) for every message, but only
  `notifCPUInterruption` locks it, after it has raised the flag of the CPU (1505): after
  a segmentation fault with no interrupt pending, or when the CPU answers in between
  (with THREAD_JOIN), the unlock is fatal to the kernel. Planificador stops there.
- Nothing protects the read, change, write of `bitmap.dat` (filesystem.go:116-164): two
  dumps that overlap take the same blocks, and `SinCompartir`, `EscritoMarcado` and
  `ArchivoIntegro` fail without `EnSerie`.
- `planificarFifo` returns with `cola_ready_mutex` locked when READY is empty (1302): it
  happens when the last thread of a FIFO kernel ends.
- An index block with more data blocks than it has room for pointers (filesystem.go:298)
  overwrites the block that follows, and the dump is acknowledged.
- A process of size 0 that finds no free partition is answered "compactar", because 0 is
  not more than the sum of the holes (memoria.go:225); with no free byte the compaction
  makes no hole and the answer is the same for ever.
- The `Limit` of the hole that a split leaves (memoria.go:247) is computed without its
  base. No context is computed from it.
- With a nil logger `finalizarProceso` panics before `ConsolidarMemoria`
  (memoria.go:385): neighbouring holes stay. The kernel does not see the reply of a
  creation that worked and repeats it.
- `TraducirDireccion` (cpu.go:565) compares the logical address with the `Limit` of the
  context, which is a physical address, the last one of the segment. With base 0 the
  last byte is refused; with another base, addresses past the end of the segment are
  let through and land in whatever follows. `writeMem` (memoria.go:890) stores four
  bytes without looking at the end: a word at one of the last addresses that pass the
  check overruns the segment, and at the end of the memory panics half way.
- A thread that comes back starts at the beginning, because `ActualizarContextoEnMemoria`
  (cpu.go:621) sends its registers without naming it; and a thread that is received
  while a system call of another is in progress misses its first instruction, because
  `SumarPC` (cpu.go:163) advances whatever `Clave` is then. Both violate `EnOrden`, in
  instances with `Desaloja` and one process.
- The cycle ends with `claveMutex` locked when a program has no next instruction
  (cpu.go:149), and without it when the interrupt arrives between `CheckInterrupt` and
  the test of the loop (139). `RecibirProceso` does not start it again in either case.

## Limits

Not modelled, and why:

- The compaction dialogue of the kernel (`detenerPlanificacion`, `monitorizarCola`): its
  start is unreachable (`adm_compactar`). For the same reason Ejecucion has no
  compaction, although `compactarMemoria` itself is in Particiones: mended, it would
  still move the bases and not the bytes (memoria.go:309), nor the copies of the bases
  that the CPU keeps.
- `mutex_unlock`: unreachable, the CPU panics first (`args[1]` in cpuUtils.go).
- The quantum: `manejarQuantum` runs for `Scheduler_Algorithm == "Colas"` and
  `planificarColas` for `"CMN"`, so no configuration has both.
- Several mutexes per process: the code confuses the index of a mutex with others; with
  one mutex the confusion shows as `BuscaDeMas` and `QuitarDeTIDCola`.
- Go data races. Slices and maps that are changed without a mutex are treated as if each
  statement were atomic (`mapaRegistrosHilos` of memoria has no mutex at all, and
  `Procesos` of the CPU is changed by `RecibirProceso` while the cycle reads it); the
  goroutines interleave at the points listed under each module.
- Overflow of registers, and what a read of four bytes past the end returns.
- Time: no sleeps and no quantum. The one timeout of the code, 10 seconds for the
  filesystem's answer to memoria (memoria.go:654), ends as the refusal that every dump
  gets anyway; the lost answers that are modelled (Admision, Particiones) are those of a
  handler that panics.
- Steps that are coarser than the code: `planificarColas` takes and gives back
  `colasMultinivelMutex` between its choice and the removal (kernel.go:1388, 1405) and is
  one step; `SolicitarEspacioHilos` has the `agregarTCB` that follows it (304);
  `CreateProcesoHiloInicial` appends to PCBS in the step that asks memoria, although
  `crearHilo` waits for the planner in between (192), and cannot fail (186);
  `inicializarProceso` always reaches memoria (395), though its answer may be lost; `Decode`
  reads `Clave` once (cpu.go:322, 324).
- A number of blocks that does not fill the last byte of the bitmap: the search looks at
  every bit (filesystem.go:115, 211-230), so that it would give blocks that do not exist.
  `BitmapSinSobras` assumes that there are none.
- What fixed partitions add to PROCESS_CREATE in Ejecucion: memoria may refuse although
  enough bytes side by side are free, in two partitions (memoria.go:187). A process that waits and is admitted when
  another ends (kernel.go:711) is in Admision only.
- Configuration files, logging, `getProceso`, `getColasMultinivel`: input and reads.

The four kernels, CPUs, memories and disks of the models are separate: Planificador
takes for granted that memoria admits and that the CPU executes, Ejecucion that the
kernel answers as its handlers do, Admision that the planner listens. No module has all
of them at once.

## The plan

In this order:

1. `Sistema`: the kernel, the CPU and memoria together, for the questions that the seams
   hide: a thread in READY eventually runs; a dump is answered.
2. Planificador: profiles where several processes cancel, dump and end, in which the
   shifts of `PCBS` show, and a statement about them that the code keeps.
3. Proofs for Planificador: `ColasCoherentes` with MUTEX_LOCK; who holds each of the other
   mutexes in `tomados`, outside `PorTurnos`, as `IExec` says of `cola_exec_mutex`.
