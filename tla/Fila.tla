-------------------------------- MODULE Fila --------------------------------
(***************************************************************************)
(* What the kernel promises to who asks for a process: requests wait in    *)
(* one line, only the oldest one that waits is admitted, and a process     *)
(* that was admitted stays until it ends.                                  *)
(***************************************************************************)
EXTENDS Sequences

CONSTANT Pids

VARIABLES espera,   \* the PIDs that wait, in order of arrival
          dentro    \* the PIDs that were admitted and have not ended

Conocidos == dentro \cup {espera[i] : i \in DOMAIN espera}

Init == espera = <<>> /\ dentro = {}

Llegar(p) ==
    /\ p \notin Conocidos
    /\ espera' = Append(espera, p) /\ dentro' = dentro

\* It arrives and nobody waits: it may be admitted in the same step.
Pasar(p) ==
    /\ p \notin Conocidos /\ espera = <<>>
    /\ espera' = espera /\ dentro' = dentro \cup {p}

Entrar ==
    /\ espera # <<>>
    /\ espera' = Tail(espera) /\ dentro' = dentro \cup {Head(espera)}

Salir(p) ==
    /\ p \in dentro
    /\ dentro' = dentro \ {p} /\ espera' = espera

Next == Entrar \/ \E p \in Pids : Llegar(p) \/ Pasar(p) \/ Salir(p)

Spec == Init /\ [][Next]_<<espera, dentro>>
=============================================================================
