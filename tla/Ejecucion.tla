----------------------------- MODULE Ejecucion -----------------------------
(***************************************************************************)
(* The execution of programs: the cycle and the instructions of the CPU    *)
(* (src/cpu/cpu.go, src/cpu/utils/cpuUtils.go) composed with what memoria  *)
(* keeps for it (src/memoria/memoria.go): the contexts of the processes    *)
(* and of their threads, the instructions, and the bytes of the user.      *)
(*                                                                         *)
(* The kernel is an environment: a system call does what its handler asks  *)
(* of memoria and tells of the thread in EXEC; once the first thread is    *)
(* not alone the planner, the subject of Planificador, may send any thread *)
(* and any interrupt at any time.  The loggers are assigned, a mutex that  *)
(* is locked is free, and registers do not overflow.                       *)
(***************************************************************************)
EXTENDS Integers, Sequences, FiniteSets

CONSTANTS
    Casos,         \* what the instance runs: [Programas, Size, Desaloja]
    Memory_Size,   \* config of memoria
    Tamanos,       \* the sizes of the processes that PROCESS_CREATE asks for
    MaxPid, MaxTid, \* bounds on the processes and on the threads of each
    MaxPC          \* bound: past it the planner interferes no more

Registros   == {"AX", "BX", "PC"}
Operaciones ==
    {"SET", "SUM", "SUB", "READ_MEM", "WRITE_MEM", "JNZ", "LOG", "IO", "DUMP_MEMORY",
     "PROCESS_CREATE", "THREAD_CREATE", "THREAD_JOIN", "THREAD_CANCEL", "MUTEX_CREATE",
     "MUTEX_LOCK", "MUTEX_UNLOCK", "THREAD_EXIT", "PROCESS_EXIT"}
Instruccion ==
    [op : Operaciones, r : Registros, s : Registros, v : Int, ruta : Nat]

\* What the variable of CicloDeEjecucion holds before the first Fetch.
SinInstruccion == [op |-> "", r |-> "AX", s |-> "AX", v |-> 0, ruta |-> 0]

ASSUME AjustesDeEjecucion ==
    /\ Memory_Size \in Nat /\ Tamanos \subseteq Nat /\ MaxPid \in Nat /\ MaxTid \in Nat
    /\ MaxPC \in Nat
    /\ \A c \in Casos :
          /\ c.Size \in 1 .. Memory_Size /\ c.Desaloja \in BOOLEAN
          /\ c.Programas \in Seq(Seq(Instruccion)) /\ c.Programas # <<>>

VARIABLES
    caso,
    mapaContextosProcesos,  \* PID -> [Base, Limit]
    mapaRegistrosHilos,     \* thread -> registers; the TIDs of a process are distinct
    mapaInstrucciones,      \* TID -> instructions
    memoriaUsuario,
    ciclo,                  \* where CicloDeEjecucion is
    instruccion, direccion, \* what Fetch and Decode returned
    Clave, claveMutex, interruptionExits,
    Procesos,               \* key -> [Base, Limit, RegistroHilos]
    exec,                   \* the thread of cola_exec
    rutas,                  \* the threads there were -> their program
    volcado,                \* the last dump, [PID, contenido]
    estado,                 \* history: what became of the first thread
    falta,                  \* history: alone, it met one of Faltas
    proxima,                \* history: thread -> the next place of its program
    turno                   \* history: the thread of the last Fetch

memoria  == <<mapaContextosProcesos, mapaRegistrosHilos, mapaInstrucciones>>
kernel   == <<exec, rutas>>
entrada  == <<Clave, claveMutex, interruptionExits>>
historia == <<estado, falta, proxima, turno>>
vars == <<caso, memoria, memoriaUsuario, ciclo, instruccion, direccion, entrada,
          Procesos, kernel, volcado, historia>>

Hilos   == [PID : 0 .. MaxPid, TID : 0 .. MaxTid]
Primero == [PID |-> 0, TID |-> 0]
Ninguna == [PID |-> -1, TID |-> -1]
Bytes   == 0 .. 255

RegistroHilos == [Registros -> Int]
EnCero        == [r \in Registros |-> 0]
Limites       == -1 .. Memory_Size - 1   \* a process of size 0 ends before it begins
Contexto      == [Base : 0 .. Memory_Size, Limit : Limites]
CPU           == [Base : 0 .. Memory_Size, Limit : Limites, RegistroHilos : RegistroHilos]

Pasos == {"apagado", "arranque", "cabeza", "fetch", "decode", "execute", "volcando",
          "rechazado", "actualizar", "sumar2", "sumar", "chequeo", "fin", "caido"}

Parcial(f, D, R) == DOMAIN f \subseteq D /\ \A x \in DOMAIN f : f[x] \in R

TypeOK ==
    /\ caso.Size \in 1 .. Memory_Size
    /\ Parcial(mapaContextosProcesos, 0 .. MaxPid, Contexto)
    /\ Parcial(mapaRegistrosHilos, Hilos, RegistroHilos)
    /\ Parcial(mapaInstrucciones, 0 .. MaxTid, Seq(Instruccion))
    /\ memoriaUsuario \in [0 .. Memory_Size - 1 -> Bytes]
    /\ ciclo \in Pasos /\ direccion \in Nat
    /\ instruccion \in Instruccion \cup {SinInstruccion}
    /\ Clave \in Hilos \cup {Ninguna} /\ claveMutex \in {"libre", "recibir", "ciclo"}
    /\ interruptionExits \in BOOLEAN
    /\ Parcial(Procesos, Hilos, CPU)
    /\ exec \in Hilos \cup {Ninguna} /\ Parcial(rutas, Hilos, Nat)
    /\ volcado.PID \in -1 .. MaxPid
    /\ Parcial(volcado.contenido, 0 .. Memory_Size - 1, Bytes)
    /\ estado \in {"corre", "fin", "falla", "fuera", "agotado"} /\ falta \in BOOLEAN
    /\ Parcial(proxima, Hilos, Int) /\ DOMAIN proxima = DOMAIN rutas
    /\ turno \in Hilos

Con(f, k, x) == [q \in DOMAIN f \cup {k} |-> IF q = k THEN x ELSE f[q]]
Sin(f, k)    == [q \in DOMAIN f \ {k} |-> f[q]]

\* The first process was created and its thread is the one of EXEC.
Init ==
    /\ caso \in Casos
    /\ mapaContextosProcesos = Con(<<>>, 0, [Base |-> 0, Limit |-> caso.Size - 1])
    /\ mapaRegistrosHilos = Con(<<>>, Primero, EnCero)
    /\ mapaInstrucciones = Con(<<>>, 0, caso.Programas[1])
    /\ memoriaUsuario = [a \in 0 .. Memory_Size - 1 |-> 0]
    /\ ciclo = "apagado" /\ instruccion = SinInstruccion /\ direccion = 0
    /\ Clave = Ninguna /\ claveMutex = "libre" /\ interruptionExits = FALSE
    /\ Procesos = <<>>
    /\ exec = Primero /\ rutas = Con(<<>>, Primero, 1)
    /\ volcado = [PID |-> -1, contenido |-> <<>>]
    /\ estado = "corre" /\ falta = FALSE /\ proxima = Con(<<>>, Primero, 0) /\ turno = Primero

Va(de, a) == ciclo = de /\ ciclo' = a

-----------------------------------------------------------------------------
(***************************************************************************)
(* The kernel sends a thread: RecibirProceso, in two steps because memoria *)
(* answers in between, with claveMutex held.                               *)
(***************************************************************************)

Acompanado ==
    /\ caso.Desaloja /\ estado # "corre"
    /\ \A t \in DOMAIN Procesos : Procesos[t].RegistroHilos["PC"] <= MaxPC

Planifica ==
    /\ Acompanado
    /\ \E t \in DOMAIN rutas : exec' = t
    /\ UNCHANGED <<caso, memoria, memoriaUsuario, ciclo, instruccion, direccion, entrada,
                   Procesos, rutas, volcado, historia>>

\* The first call of all finds Clave unset; only that one starts the cycle.
RecibirClave ==
    /\ claveMutex = "libre" /\ ciclo # "caido"
    /\ exec # Ninguna /\ (Clave = Ninguna \/ Acompanado)
    /\ Clave' = exec /\ claveMutex' = "recibir"
    /\ ciclo' = IF Clave = Ninguna THEN "arranque" ELSE ciclo
    /\ UNCHANGED <<caso, memoria, memoriaUsuario, instruccion, direccion,
                   interruptionExits, Procesos, kernel, volcado, historia>>

\* obtenerContextoEjecucion: a process that is gone has the zero context.
ContextoDe(t) ==
    LET c == IF t.PID \in DOMAIN mapaContextosProcesos
             THEN mapaContextosProcesos[t.PID] ELSE [Base |-> 0, Limit |-> 0]
    IN  [Base |-> c.Base, Limit |-> c.Limit, RegistroHilos |-> mapaRegistrosHilos[t]]

\* Mutant of RecibirContexto: it asks for the context of the thread in EXEC.
RecibirContextoDeExec ==
    /\ claveMutex = "recibir" /\ claveMutex' = "libre"
    /\ exec \in DOMAIN mapaRegistrosHilos
    /\ Procesos' = Con(Procesos, Clave, ContextoDe(exec))
    /\ ciclo' = IF ciclo = "arranque" THEN "cabeza" ELSE ciclo
    /\ UNCHANGED <<caso, memoria, memoriaUsuario, instruccion, direccion, Clave,
                   interruptionExits, kernel, volcado, historia>>

RecibirContexto ==
    /\ claveMutex = "recibir" /\ claveMutex' = "libre"
    /\ IF Clave \in DOMAIN mapaRegistrosHilos
       THEN /\ Procesos' = Con(Procesos, Clave, ContextoDe(Clave))
            /\ ciclo' = IF ciclo = "arranque" THEN "cabeza" ELSE ciclo
       ELSE /\ UNCHANGED Procesos
            /\ ciclo' = IF ciclo = "arranque" THEN "fin" ELSE ciclo
    /\ UNCHANGED <<caso, memoria, memoriaUsuario, instruccion, direccion, Clave,
                   interruptionExits, kernel, volcado, historia>>

interrupccion ==
    /\ Acompanado /\ ciclo # "caido" /\ ~interruptionExits
    /\ interruptionExits' = TRUE
    /\ UNCHANGED <<caso, memoria, memoriaUsuario, ciclo, instruccion, direccion, Clave,
                   claveMutex, Procesos, kernel, volcado, historia>>

-----------------------------------------------------------------------------
(***************************************************************************)
(* Fetch and Decode.                                                       *)
(***************************************************************************)

\* A key that is not in Procesos reads as Go's zero value.
Cargado == Clave \in DOMAIN Procesos
Actual  == IF Cargado THEN Procesos[Clave]
           ELSE [Base |-> 0, Limit |-> 0, RegistroHilos |-> EnCero]
ObtenerValorRegistro(r) == Actual.RegistroHilos[r]

\* The test of the loop; an interrupt that came after CheckInterrupt ends it.
Cabeza ==
    /\ IF interruptionExits THEN Va("cabeza", "fin") ELSE Va("cabeza", "fetch")
    /\ UNCHANGED <<caso, memoria, memoriaUsuario, instruccion, direccion, entrada,
                   Procesos, kernel, volcado, historia>>

\* The thread that ran off its program will not run again, and whether it did
\* is what the history of the first one tells.
Agota(t) == estado' = IF estado = "corre" /\ t = Primero THEN "agotado" ELSE estado

\* obtenerInstruccion looks the TID up, whatever the PID.
HayInstruccion(tid, p) ==
    tid \in DOMAIN mapaInstrucciones /\ p \in 0 .. Len(mapaInstrucciones[tid]) - 1

\* Without an instruction the cycle ends with claveMutex locked.
Fetch ==
    LET p == ObtenerValorRegistro("PC") IN
    /\ ciclo = "fetch" /\ claveMutex = "libre"
    /\ turno' = Clave
    /\ IF HayInstruccion(Clave.TID, p)
       THEN /\ instruccion' = mapaInstrucciones[Clave.TID][p + 1]
            /\ ciclo' = "decode"
            /\ UNCHANGED <<claveMutex, estado>>
       ELSE /\ ciclo' = "fin" /\ claveMutex' = "ciclo"
            /\ Agota(Clave) /\ UNCHANGED instruccion
    /\ UNCHANGED <<caso, memoria, memoriaUsuario, direccion, Clave, interruptionExits,
                   Procesos, kernel, volcado, falta, proxima>>

Queda(e) == estado' = IF estado = "corre" THEN e ELSE estado

\* What the code does not do as its programs count on: no register is loaded,
\* no jump is made, the cycle panics.  A dump that is refused and an access to
\* the last byte that is taken for a fault are told where they happen.
Faltas   == {"READ_MEM", "JNZ", "MUTEX_UNLOCK"}
Falta(b) == falta' = (falta \/ (estado = "corre" /\ b))

\* memoria refuses a thread it does not have.
actualizarContextoEjecucion(t, registros) ==
    mapaRegistrosHilos' = [h \in DOMAIN mapaRegistrosHilos |->
                              IF h = t THEN registros ELSE mapaRegistrosHilos[h]]

\* The request of the CPU names no thread, so memoria takes it for thread 0 of
\* process 0.
PuedeActualizar == Cargado /\ Primero \in DOMAIN mapaRegistrosHilos
ActualizarContextoEnMemoria ==
    IF Cargado THEN actualizarContextoEjecucion(Primero, Actual.RegistroHilos)
    ELSE UNCHANGED mapaRegistrosHilos

\* finalizarProceso, for what memoria forgets of it.
FinalizarProceso(p) == mapaContextosProcesos' = Sin(mapaContextosProcesos, p)

Accede == instruccion.op \in {"WRITE_MEM", "READ_MEM"}
Logica == ObtenerValorRegistro(
              IF instruccion.op = "WRITE_MEM" THEN instruccion.r ELSE instruccion.s)
DentroDelLimite == Logica >= 0 /\ Logica < Actual.Limit

\* Decode, with TraducirDireccion for the two instructions that have an address;
\* the two reads of Clave (cpu.go:322 and 324) are one, and no line is empty.
Decode ==
    /\ \/ ~Accede /\ UNCHANGED direccion
       \/ /\ Accede /\ Cargado /\ DentroDelLimite
          /\ direccion' = Actual.Base + Logica
    /\ Va("decode", "execute")
    /\ UNCHANGED <<caso, memoria, memoriaUsuario, instruccion, entrada, Procesos, kernel,
                   volcado, historia>>

\* ManejarSegmentationFault: the kernel ends the process of the thread in EXEC,
\* whose handler panics when there is none, and the cycle ends.
ManejarSegmentationFault ==
    /\ Accede /\ Cargado /\ ~DentroDelLimite
    /\ Va("decode", "fin")
    /\ ActualizarContextoEnMemoria
    /\ IF exec = Ninguna THEN UNCHANGED mapaContextosProcesos
       ELSE FinalizarProceso(exec.PID)
    /\ exec' = Ninguna
    /\ Queda("falla") /\ Falta(Logica \in 0 .. caso.Size - 1)
    /\ UNCHANGED <<caso, mapaInstrucciones, memoriaUsuario, instruccion, direccion, entrada,
                   Procesos, rutas, volcado, proxima, turno>>

\* The context of this key was never received: the cycle ends.
ProcesoNoEncontrado ==
    /\ Accede /\ ~Cargado
    /\ Va("decode", "fin")
    /\ UNCHANGED <<caso, memoria, memoriaUsuario, instruccion, direccion, entrada, Procesos,
                   kernel, volcado, historia>>

-----------------------------------------------------------------------------
(***************************************************************************)
(* Execute.  A successful system call goes on to update the context;       *)
(* anything else, failures included, to the increment of PC.               *)
(***************************************************************************)

Ejecuta(op, paso) == instruccion.op = op /\ Va("execute", paso)

SinTocarNada == UNCHANGED <<memoria, memoriaUsuario, Procesos, kernel, volcado, estado>>

AsignarValorRegistro(r, x) ==
    /\ Procesos' = Con(Procesos, Clave, [Actual EXCEPT !.RegistroHilos =
                                             [Actual.RegistroHilos EXCEPT ![r] = x]])
    /\ UNCHANGED <<memoria, memoriaUsuario, kernel, volcado, estado>>

SET == Ejecuta("SET", "sumar") /\ AsignarValorRegistro(instruccion.r, instruccion.v)

SUM ==
    /\ Ejecuta("SUM", "sumar")
    /\ AsignarValorRegistro(instruccion.r, ObtenerValorRegistro(instruccion.r)
                                           + ObtenerValorRegistro(instruccion.s))

\* Mutant of SUB: the operands swapped.
SUBAlReves ==
    /\ Ejecuta("SUB", "sumar")
    /\ AsignarValorRegistro(instruccion.r, ObtenerValorRegistro(instruccion.s)
                                           - ObtenerValorRegistro(instruccion.r))

SUB ==
    /\ Ejecuta("SUB", "sumar")
    /\ AsignarValorRegistro(instruccion.r, ObtenerValorRegistro(instruccion.r)
                                           - ObtenerValorRegistro(instruccion.s))

\* The k-th byte of the word that is sent, the highest first.
EscribirEnMemoria(x, k) == (x \div (256 ^ (3 - k))) % 256

\* Byte by byte, until it panics past the end of the memory.
writeMem(d, x) ==
    memoriaUsuario' = [a \in DOMAIN memoriaUsuario |->
                          IF a \in d .. d + 3 THEN EscribirEnMemoria(x, a - d)
                          ELSE memoriaUsuario[a]]

WRITE_MEM ==
    /\ Ejecuta("WRITE_MEM", "sumar")
    /\ writeMem(direccion, ObtenerValorRegistro(instruccion.s))
    /\ UNCHANGED <<memoria, Procesos, kernel, volcado, estado>>

\* It looks for "valor" in a reply that has "datos", in base 64: an error, and
\* no register is assigned.
LeerDeMemoria == UNCHANGED Procesos

READ_MEM ==
    /\ Ejecuta("READ_MEM", "sumar") /\ LeerDeMemoria
    /\ UNCHANGED <<memoria, memoriaUsuario, kernel, volcado, estado>>

LOG      == Ejecuta("LOG", "sumar") /\ SinTocarNada

\* CicloDeEjecucion increments PC twice and does not call JNZ.
JNZ == Ejecuta("JNZ", "sumar2") /\ SinTocarNada

IO == Ejecuta("IO", "actualizar") /\ SinTocarNada

\* MUTEX_LOCK returns an error even when the kernel answered.
MUTEX_LOCK == Ejecuta("MUTEX_LOCK", "sumar") /\ SinTocarNada

\* It reads a second argument that the instruction does not have.
MUTEX_UNLOCK ==
    /\ Ejecuta("MUTEX_UNLOCK", "caido")
    /\ Queda("falla")
    /\ UNCHANGED <<memoria, memoriaUsuario, Procesos, kernel, volcado>>

\* The handlers that look at cola_exec[0] panic when it is empty; the one of
\* THREAD_CANCEL looks only when there is somebody in READY.
DeExec == {"THREAD_CREATE", "THREAD_JOIN", "MUTEX_CREATE", "THREAD_EXIT", "PROCESS_EXIT",
           "DUMP_MEMORY", "THREAD_CANCEL"}
SinExec ==
    /\ exec = Ninguna /\ instruccion.op \in DeExec
    /\ Va("execute", "sumar")
    /\ SinTocarNada

DeExecutando(op, paso) == exec # Ninguna /\ Ejecuta(op, paso)

MUTEX_CREATE == DeExecutando("MUTEX_CREATE", "actualizar") /\ SinTocarNada

THREAD_JOIN ==
    /\ DeExecutando("THREAD_JOIN", "actualizar")
    /\ exec' = Ninguna
    /\ Queda("fuera")
    /\ UNCHANGED <<memoria, memoriaUsuario, Procesos, rutas, volcado>>

\* crearHilo of the kernel and of memoria; a program that cannot be read
\* leaves a thread with no context.
CrearHilo(t, ruta) ==
    /\ t \in Hilos
    /\ rutas' = Con(rutas, t, ruta)
    /\ IF ruta \in DOMAIN caso.Programas
       THEN /\ mapaInstrucciones' = Con(mapaInstrucciones, t.TID, caso.Programas[ruta])
            /\ mapaRegistrosHilos' = Con(mapaRegistrosHilos, t, EnCero)
       ELSE UNCHANGED <<mapaInstrucciones, mapaRegistrosHilos>>
    /\ Queda("fuera")
    /\ UNCHANGED <<memoriaUsuario, Procesos, exec, volcado>>

THREAD_CREATE ==
    LET tids == {t.TID : t \in {h \in DOMAIN rutas : h.PID = exec.PID}} IN
    /\ DeExecutando("THREAD_CREATE", "actualizar")
    /\ CrearHilo([PID |-> exec.PID, TID |-> Cardinality(tids)], instruccion.ruta)
    /\ UNCHANGED mapaContextosProcesos

\* Mutant of Lugares: one place too many, past the end of the memory.
LugaresDeMas(size) ==
    {b \in 0 .. Memory_Size - size + 1 :
        \A p \in DOMAIN mapaContextosProcesos :
            LET c == mapaContextosProcesos[p]
            IN  b + size <= c.Base \/ c.Limit < b}

\* The places for a process of that size, clear of every other process.
Lugares(size) ==
    {b \in 0 .. Memory_Size - size :
        \A p \in DOMAIN mapaContextosProcesos :
            LET c == mapaContextosProcesos[p]
            IN  b + size <= c.Base \/ c.Limit < b}

\* Which of the places memoria gives is the subject of Particiones, as is that
\* fixed partitions may have none with room to spare elsewhere; a process that
\* does not fit waits in NEW, and when it leaves it is the subject of Admision.
PROCESS_CREATE ==
    LET pid == Cardinality({t.PID : t \in DOMAIN rutas}) IN
    /\ Ejecuta("PROCESS_CREATE", "actualizar")
    /\ \E size \in Tamanos :
        \/ Lugares(size) = {} /\ SinTocarNada
        \/ \E b \in Lugares(size) :
            /\ mapaContextosProcesos' =
                   Con(mapaContextosProcesos, pid, [Base |-> b, Limit |-> b + size - 1])
            /\ CrearHilo([PID |-> pid, TID |-> 0], instruccion.ruta)

endHilo(t) == mapaRegistrosHilos' = Sin(mapaRegistrosHilos, t)

THREAD_EXIT ==
    /\ DeExecutando("THREAD_EXIT", "actualizar")
    /\ endHilo(exec)
    /\ exec' = Ninguna
    /\ Queda("fin")
    /\ UNCHANGED <<mapaContextosProcesos, mapaInstrucciones, memoriaUsuario, Procesos,
                   rutas, volcado>>

PROCESS_EXIT ==
    /\ DeExecutando("PROCESS_EXIT", "actualizar")
    /\ FinalizarProceso(exec.PID)
    /\ exec' = Ninguna
    /\ Queda("fin")
    /\ UNCHANGED <<mapaRegistrosHilos, mapaInstrucciones, memoriaUsuario, Procesos, rutas,
                   volcado>>

\* When the thread is not found in READY the zero TCB is ended: thread 0 of
\* process 0.
THREAD_CANCEL ==
    LET otro == [PID |-> exec.PID, TID |-> instruccion.v] IN
    /\ Ejecuta("THREAD_CANCEL", "actualizar")
    /\ \E t \in {Primero} \cup ((DOMAIN rutas \cap {otro}) \ {exec}) : endHilo(t)
    /\ UNCHANGED <<mapaContextosProcesos, mapaInstrucciones, memoriaUsuario, Procesos,
                   kernel, volcado, estado>>

\* dumpMemory blocks the thread and asks memoria.
DUMP_MEMORY ==
    /\ DeExecutando("DUMP_MEMORY", "volcando")
    /\ volcado' = [PID |-> exec.PID, contenido |-> <<>>]
    /\ exec' = Ninguna
    /\ UNCHANGED <<memoria, memoriaUsuario, Procesos, rutas, estado>>

\* Where the program goes on after its instruction, at most to its end; JNZ as
\* the cycle treats it.
Siguiente(t) ==
    LET n   == IF instruccion.op = "SET" /\ instruccion.r = "PC" THEN instruccion.v + 1
               ELSE proxima[t] + (IF instruccion.op = "JNZ" THEN 2 ELSE 1)
        fin == IF rutas[t] \in DOMAIN caso.Programas
               THEN Len(caso.Programas[rutas[t]]) ELSE 0
    IN  IF n > fin THEN fin ELSE n

Execute ==
    /\ \/ SET \/ SUM \/ SUB \/ WRITE_MEM \/ READ_MEM \/ LOG \/ JNZ
       \/ IO \/ MUTEX_LOCK \/ MUTEX_UNLOCK \/ MUTEX_CREATE \/ SinExec
       \/ THREAD_CREATE \/ THREAD_JOIN \/ THREAD_CANCEL \/ THREAD_EXIT
       \/ PROCESS_CREATE \/ PROCESS_EXIT \/ DUMP_MEMORY
    /\ proxima' = [t \in DOMAIN rutas' |->
                      IF t \notin DOMAIN rutas THEN 0
                      ELSE IF t = turno THEN Siguiente(t) ELSE proxima[t]]
    /\ Falta(instruccion.op \in Faltas)
    /\ UNCHANGED <<caso, instruccion, direccion, entrada, turno>>

\* The bytes of a process; of one that is gone there are none.
obtenerDump(p) ==
    LET c == mapaContextosProcesos[p] IN
    IF p \in DOMAIN mapaContextosProcesos
    THEN [d \in 0 .. c.Limit - c.Base |-> memoriaUsuario[c.Base + d]] ELSE <<>>

memoryDump ==
    /\ Va("volcando", "rechazado")
    /\ volcado' = [volcado EXCEPT !.contenido = obtenerDump(volcado.PID)]
    /\ UNCHANGED <<caso, memoria, memoriaUsuario, instruccion, direccion, entrada, Procesos,
                   kernel, historia>>

\* The filesystem refuses the file, because the request of memoria gives its
\* size another name, and the kernel ends the process.
RechazarDump ==
    /\ Va("rechazado", "sumar")
    /\ FinalizarProceso(volcado.PID)
    /\ Queda("fin") /\ Falta(TRUE)
    /\ UNCHANGED <<caso, mapaRegistrosHilos, mapaInstrucciones, memoriaUsuario, instruccion,
                   direccion, entrada, Procesos, kernel, volcado, proxima, turno>>

-----------------------------------------------------------------------------
(***************************************************************************)
(* The end of the turn, always on the key of that moment.                  *)
(***************************************************************************)

Actualizar ==
    /\ Va("actualizar", "sumar")
    /\ ActualizarContextoEnMemoria
    /\ UNCHANGED <<caso, mapaContextosProcesos, mapaInstrucciones, memoriaUsuario,
                   instruccion, direccion, entrada, Procesos, kernel, volcado, historia>>

\* Mutant of SumarPC: the new value is not stored back in the map.
SumarPCEnCopia ==
    /\ Va("sumar2", "sumar") \/ Va("sumar", "chequeo")
    /\ UNCHANGED <<caso, memoria, memoriaUsuario, instruccion, direccion, entrada, Procesos,
                   kernel, volcado, historia>>

SumarPC ==
    /\ Va("sumar2", "sumar") \/ Va("sumar", "chequeo")
    /\ Procesos' = IF Cargado
                   THEN [Procesos EXCEPT ![Clave].RegistroHilos =
                            [Actual.RegistroHilos EXCEPT !["PC"] = @ + 1]]
                   ELSE Procesos
    /\ UNCHANGED <<caso, memoria, memoriaUsuario, instruccion, direccion, entrada, kernel,
                   volcado, historia>>

\* It returns early, the flag still up, when memoria refuses the context.
CheckInterrupt ==
    /\ Va("chequeo", "cabeza")
    /\ interruptionExits' = (interruptionExits /\ ~PuedeActualizar)
    /\ IF interruptionExits THEN ActualizarContextoEnMemoria
       ELSE UNCHANGED mapaRegistrosHilos
    /\ UNCHANGED <<caso, mapaContextosProcesos, mapaInstrucciones, memoriaUsuario,
                   instruccion, direccion, Clave, claveMutex, Procesos, kernel, volcado,
                   historia>>

CicloDeEjecucion ==
    \/ Cabeza \/ Fetch \/ Decode \/ ManejarSegmentationFault \/ ProcesoNoEncontrado
    \/ Execute \/ memoryDump \/ RechazarDump \/ Actualizar \/ SumarPC
    \/ CheckInterrupt

Recibe == RecibirClave \/ RecibirContexto

Next == CicloDeEjecucion \/ Recibe \/ Planifica \/ interrupccion

Spec == Init /\ [][Next]_vars

\* While the first thread has the machine to itself the CPU keeps going and the
\* handlers it calls answer; nothing is assumed of what comes after.
FairSpec == Spec /\ WF_vars(estado = "corre" /\ (CicloDeEjecucion \/ Recibe))

-----------------------------------------------------------------------------
(***************************************************************************)
(* Properties.                                                             *)
(***************************************************************************)

Programa == caso.Programas[1]

\* The registers that the program of the first thread sees: PC counts as moved
\* as soon as the instruction has had its effect.
RegistrosVistos ==
    IF Primero \in DOMAIN Procesos THEN Procesos[Primero].RegistroHilos ELSE EnCero
PCVisto ==
    RegistrosVistos["PC"] + (CASE ciclo \in {"rechazado", "actualizar", "sumar"} -> 1
                               [] ciclo = "sumar2" -> 2
                               [] OTHER -> 0)

GeneralesVistos == [r \in {"AX", "BX"} |-> RegistrosVistos[r]]
BytesVistos     == [d \in 0 .. caso.Size - 1 |-> memoriaUsuario[d]]

\* The first thread as a client of Maquina, to the end and until a Falta.
EstadoVisto == IF falta THEN "fuera" ELSE estado

MEntera == INSTANCE Maquina WITH
    Instrucciones <- Instruccion, programa <- Programa, tam <- caso.Size,
    pc <- PCVisto, regs <- GeneralesVistos, mem <- BytesVistos,
    volcado <- volcado.contenido, estado <- estado

M == INSTANCE Maquina WITH
    Instrucciones <- Instruccion, programa <- Programa, tam <- caso.Size,
    pc <- PCVisto, regs <- GeneralesVistos, mem <- BytesVistos,
    volcado <- volcado.contenido, estado <- EstadoVisto

\* However late a context arrives, the CPU translates the addresses of a key
\* with the segment of its own process, or with the empty one when it has none
\* (RecibirProceso, cpu.go:56, and AsignarValorRegistro, which makes the entry
\* of a key that was never received).
SegmentoPropio ==
    \A c \in DOMAIN Procesos :
        c.PID \in DOMAIN mapaContextosProcesos =>
            [Base |-> Procesos[c].Base, Limit |-> Procesos[c].Limit]
                \in {mapaContextosProcesos[c.PID], [Base |-> 0, Limit |-> 0]}

\* For as long as the first thread is alone, its program runs as on the
\* sequential machine of Maquina (cpuUtils.go:173 "Registro %s actualizado con
\* el valor"; the-last-of-c-pruebas/RECURSOS_MUTEX_PROC:14 "READ_MEM DX AX").
\* The code does not keep it.
CumpleMaquina == MEntera!Spec

\* It does until the first of Faltas: three services, two copies of the
\* registers and a base address away, each instruction has exactly its effect,
\* once and in order, and a dump copies the bytes the program wrote (cpu.go
\* CicloDeEjecucion, cpuUtils.go, memoria.go writeMem and obtenerDump).
CumpleSinFaltas == M!Spec

SoloAdelante ==
    \A n \in DOMAIN Programa :
        Programa[n].r = "PC" =>
            /\ Programa[n].op \notin {"SUM", "SUB"}
            /\ Programa[n].op = "SET" => Programa[n].v >= n - 1

\* A program that never jumps back stops being alone on the machine, ends or
\* fails: no instruction, refused or failed ones included, holds the cycle
\* (CicloDeEjecucion, cpu.go:136).
ProgramaTermina == SoloAdelante => <>(estado # "corre")

\* Each thread executes the instructions of its own program, each once and in
\* order (cpu.go:140, "Obtiene la siguiente instrucción").
EnOrden ==
    ciclo = "decode" =>
        /\ proxima[turno] + 1 \in DOMAIN caso.Programas[rutas[turno]]
        /\ instruccion = caso.Programas[rutas[turno]][proxima[turno] + 1]

=============================================================================
