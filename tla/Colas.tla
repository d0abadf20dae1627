------------------------------- MODULE Colas --------------------------------
(***************************************************************************)
(* The queues of the kernel (src/kernel/kernel.go) as sequences of TCBs,   *)
(* and what its loops over them compute.                                   *)
(***************************************************************************)
EXTENDS Integers, SequencesExt

\* Two TCBs are the same thread when PID and TID agree.
Hilo(t) == <<t.PID, t.TID>>

\* Mutex: the thread holds the mutex of its process (one per process).
\* Ruta: RutaArchivo is not the empty string.
TCB(pid, tid, prioridad) ==
    [PID |-> pid, TID |-> tid, Prioridad |-> prioridad,
     Mutex |-> FALSE, Ruta |-> TRUE]

\* TCB{}: what the planner gets when there is nothing to run.  It has the PID
\* and the TID of the first thread of the first process.
TCBVacio == [PID |-> 0, TID |-> 0, Prioridad |-> 0, Mutex |-> FALSE, Ruta |-> FALSE]

Hilos(cola) == {Hilo(cola[i]) : i \in DOMAIN cola}

\* The elements of the queue that are in S, in their order (SelectSeq, which the
\* prover cannot expand).
Filtra(cola, S) ==
    LET hasta[n \in 0 .. Len(cola)] ==
            IF n = 0 THEN <<>>
            ELSE IF cola[n] \in S THEN Append(hasta[n - 1], cola[n]) ELSE hasta[n - 1]
    IN hasta[Len(cola)]

ConHilo(cola, h) == Filtra(cola, {t \in Range(cola) : Hilo(t) = h})
SinHilo(cola, h) == Filtra(cola, {t \in Range(cola) : Hilo(t) # h})
SinPID(cola, pid) == Filtra(cola, {t \in Range(cola) : t.PID # pid})
ConPID(cola, pid) == Filtra(cola, {t \in Range(cola) : t.PID = pid})
SinTID(cola, tid) == Filtra(cola, {t \in Range(cola) : t.TID # tid})
ConTID(cola, tid) == Filtra(cola, {t \in Range(cola) : t.TID = tid})

\* The first of the TCBs of smallest Prioridad: lower is more urgent.
IndiceMenor(cola) ==
    CHOOSE i \in DOMAIN cola :
        /\ \A j \in DOMAIN cola : cola[i].Prioridad <= cola[j].Prioridad
        /\ \A j \in 1 .. i - 1 : cola[j].Prioridad > cola[i].Prioridad

\* The loop of desbloquearHilo removes in place and still advances the index:
\* the element after a removed one is never looked at.
SinHiloSalteando(cola, h) ==
    LET Paso(acc, t) ==
            IF ~acc.salta /\ Hilo(t) = h
            THEN [acc EXCEPT !.salta = TRUE]
            ELSE [resto |-> Append(acc.resto, t), salta |-> FALSE]
    IN FoldLeft(Paso, [resto |-> <<>>, salta |-> FALSE], cola).resto
=============================================================================
