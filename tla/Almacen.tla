------------------------------- MODULE Almacen -------------------------------
(***************************************************************************)
(* What the filesystem server promises to whoever asks it for dumps: a     *)
(* dump is either stored whole or not there, storing one never alters      *)
(* another, and no dump is ever lost once stored.                          *)
(***************************************************************************)
CONSTANTS
    Nombres,      \* file names
    Contenidos    \* what a dump may hold

VARIABLE guardados   \* name -> content of the dump stored under that name

TypeOK ==
    /\ DOMAIN guardados \subseteq Nombres
    /\ guardados \in [DOMAIN guardados -> Contenidos]

Init == guardados = <<>>

Guardar(n, c) ==
    /\ n \notin DOMAIN guardados
    /\ guardados' = [m \in DOMAIN guardados \cup {n} |->
                        IF m = n THEN c ELSE guardados[m]]

Next == \E n \in Nombres, c \in Contenidos : Guardar(n, c)

Spec == Init /\ [][Next]_guardados
=============================================================================
