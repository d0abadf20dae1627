------------------------------- MODULE Estados ------------------------------
(***************************************************************************)
(* What the scheduler promises of every thread: it moves through NEW,      *)
(* READY, EXEC, BLOCKED and EXIT, one thread at a time has the CPU, it     *)
(* leaves the CPU for another thread, to wait or to end, and a thread that *)
(* ended never comes back.                                                 *)
(***************************************************************************)
CONSTANT Todos   \* the threads

VARIABLE estado

En(e) == {h \in Todos : estado[h] = e}

TypeOK == estado \in [Todos -> {"NEW", "READY", "EXEC", "BLOCKED", "EXIT"}]

Init == \E h \in Todos : estado = [x \in Todos |-> IF x = h THEN "READY" ELSE "NEW"]

Pasa(h, de, a) == estado[h] = de /\ estado' = [estado EXCEPT ![h] = a]

Crear(h)       == Pasa(h, "NEW", "READY")
Despachar(h)   == En("EXEC") = {} /\ Pasa(h, "READY", "EXEC")
Bloquear(h)    == Pasa(h, "EXEC", "BLOCKED")
Desbloquear(h) == Pasa(h, "BLOCKED", "READY")
Terminar(h)    == Pasa(h, "EXEC", "EXIT")

\* Another thread takes the CPU.
Desalojar(h, g) ==
    /\ estado[h] = "EXEC" /\ estado[g] = "READY"
    /\ estado' = [estado EXCEPT ![h] = "READY", ![g] = "EXEC"]

\* The threads of a process that waited for the CPU end together.
TerminarListos(S) ==
    /\ S \subseteq En("READY")
    /\ estado' = [h \in Todos |-> IF h \in S THEN "EXIT" ELSE estado[h]]

Next ==
    \/ \E h \in Todos : \/ Crear(h) \/ Despachar(h) \/ Bloquear(h) \/ Desbloquear(h)
                        \/ Terminar(h)
                        \/ \E g \in Todos : Desalojar(h, g)
    \/ \E S \in SUBSET En("READY") : TerminarListos(S)

Spec == Init /\ [][Next]_estado
=============================================================================
