----------------------------- MODULE Segmentos -----------------------------
(***************************************************************************)
(* What the memory server promises about the memory of the processes: each *)
(* live PID owns one segment of at least the size it asked for, the        *)
(* segments are disjoint, and a step gives, moves or takes back the        *)
(* segment of one process and leaves the others where they are.            *)
(***************************************************************************)
EXTENDS Integers

CONSTANTS Pids, Tamano, Bytes, Exacto

VARIABLE segmentos    \* PID -> [Base, Limit]

Largo(s) == s.Limit - s.Base + 1

Separados(s, t) ==
    Largo(s) <= 0 \/ Largo(t) <= 0 \/ s.Limit < t.Base \/ t.Limit < s.Base

Segmento == [Base : Int, Limit : Int]

Sirve(p, s) ==
    /\ s \in Segmento
    /\ 0 <= s.Base /\ s.Limit < Bytes
    /\ IF Exacto THEN Largo(s) = Tamano[p] ELSE Largo(s) >= Tamano[p]

Init == segmentos = <<>>

\* p gets a segment, its first one or a new place for the one it had.
Ubicar(p) ==
    LET s == segmentos'[p] IN
    /\ DOMAIN segmentos' = DOMAIN segmentos \cup {p}
    /\ Sirve(p, s)
    /\ \A q \in DOMAIN segmentos \ {p} : Separados(s, segmentos[q])
    /\ segmentos' = [q \in DOMAIN segmentos \cup {p} |->
                        IF q = p THEN s ELSE segmentos[q]]

Terminar(p) ==
    segmentos' = [q \in DOMAIN segmentos \ {p} |-> segmentos[q]]

Next == \E p \in Pids : Ubicar(p) \/ Terminar(p)

Spec == Init /\ [][Next]_segmentos
=============================================================================
