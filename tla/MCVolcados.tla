----------------------------- MODULE MCVolcados -----------------------------
(***************************************************************************)
(* Volcados on a disk of eight blocks of two words, with three requests.   *)
(***************************************************************************)
EXTENDS Volcados, TLC

CONSTANTS a, b, c

De(x, y, z) == (a :> x) @@ (b :> y) @@ (c :> z)

Caso(nombres, tamanos, largos) ==
    [Nombre |-> nombres, Tamano |-> tamanos, Largo |-> largos,
     Simultaneos |-> 1, LoggerNil |-> FALSE]

\* One, two and one data blocks; the first and the last are not full.
Chicos == Caso(De("a.dmp", "b.dmp", "c.dmp"), De(1, 4, 1), De(1, 4, 1))

\* Requests that do not fit together, two of them with the same name.
Grandes == Caso(De("a.dmp", "b.dmp", "a.dmp"), De(3, 4, 3), De(3, 4, 3))

\* Declared sizes that disagree with the content: the first declares more than
\* it carries, and the last has no "tamano", as mandarAlFS of memoria sends it.
Desparejos == Caso(De("a.dmp", "b.dmp", "c.dmp"), De(5, 4, 0), De(1, 4, 1))

Juntos(x) == [x EXCEPT !.Simultaneos = 3]
ConLoggerNil(x) == [x EXCEPT !.LoggerNil = TRUE]

LosPedidos ==
    {Chicos, Grandes,
     Juntos(Desparejos), Juntos(Grandes), ConLoggerNil(Juntos(Desparejos))}
=============================================================================
