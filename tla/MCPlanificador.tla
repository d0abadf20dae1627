--------------------------- MODULE MCPlanificador ---------------------------
(***************************************************************************)
(* The kernels and programs of each run of Planificador.                   *)
(***************************************************************************)
EXTENDS Planificador

\* The calls of the programs, the priorities of their threads, and how many
\* threads there may be.
Perfil(algoritmo, ops, prioridades, hilos) ==
    [Algoritmo |-> algoritmo, Operaciones |-> ops, Prioridades |-> prioridades,
     Hilos |-> hilos, TrasExit |-> FALSE]

\* Programs that may go on after their EXIT.
Insistente(p) == [p EXCEPT !.TrasExit = TRUE]

CrearYSalir    == {"THREAD_CREATE", "THREAD_EXIT"}
CrearYCancelar == {"THREAD_CREATE", "THREAD_CANCEL"}
DeProcesos     == {"PROCESS_CREATE", "PROCESS_EXIT", "SEGFAULT", "DUMP_MEMORY",
                   "MUTEX_CREATE", "MUTEX_LOCK", "THREAD_EXIT"}

SinDesalojos ==
    {Perfil("CMN", CrearYSalir \cup {"PROCESS_CREATE"}, {0}, 4),
     Perfil("PRIORIDADES", CrearYSalir \cup {"PROCESS_CREATE"}, {0}, 3),
     Perfil("CMN", CrearYCancelar, {0, 1}, 3),
     Perfil("FIFO", CrearYCancelar, {0}, 3)}

Urgencias ==
    {Perfil("CMN", CrearYSalir, {0, 1, 2}, 4),
     Insistente(Perfil("PRIORIDADES", CrearYSalir \cup {"THREAD_JOIN"}, {0, 1}, 3)),
     Insistente(Perfil("PRIORIDADES", DeProcesos, {0}, 2)),
     Perfil("CMN", CrearYSalir \cup {"MUTEX_CREATE", "MUTEX_LOCK"}, {0}, 3)}

Herencia == {Perfil("CMN", CrearYSalir \cup {"MUTEX_CREATE", "MUTEX_LOCK"}, {0}, 4)}
Carrera  == {Perfil("PRIORIDADES", CrearYSalir, {0, 1}, 4)}
=============================================================================
