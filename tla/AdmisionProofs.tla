--------------------------- MODULE AdmisionProofs ---------------------------
(***************************************************************************)
(* Theorems about Admision, for any memory, any sizes and any replies that *)
(* are lost.  First the queues of NEW, where nothing is used of what       *)
(* memoria does to its table: they stay paired, each process runs the      *)
(* program its creator named, and the line is the one of Fila.  Then the   *)
(* table: who runs keeps its partition and nobody waits in front of a hole *)
(* that fits.  Then PCBS, and the types.                                   *)
(***************************************************************************)
EXTENDS Admision, Lemas, FiniteSetTheorems

-----------------------------------------------------------------------------
(***************************************************************************)
(* Sequences with a first element apart.                                   *)
(***************************************************************************)

LEMMA Uno ==
    ASSUME NEW S, NEW x \in S
    PROVE  <<x>> \in Seq(S) /\ Len(<<x>>) = 1 /\ <<x>>[1] = x
OBVIOUS

\* One in front of a line: its first, the rest, and who arrives.
LEMMA AlFrente ==
    ASSUME NEW S, NEW x \in S, NEW a \in Seq(S)
    PROVE  /\ <<x>> \o a \in Seq(S) /\ <<x>> \o a # <<>>
           /\ Len(<<x>> \o a) = Len(a) + 1
           /\ Head(<<x>> \o a) = x
           /\ Tail(<<x>> \o a) = a
<1> DEFINE t == <<x>> \o a
<1>1. <<x>> \in Seq(S) /\ Len(<<x>>) = 1 /\ <<x>>[1] = x
  BY Uno
<1>2. Len(a) \in Nat
  BY LenProperties
<1>3. /\ t \in Seq(S) /\ Len(t) = 1 + Len(a)
      /\ \A i \in 1 .. 1 + Len(a) : t[i] = IF i <= 1 THEN <<x>>[i] ELSE a[i - 1]
  BY <1>1, ConcatProperties
<1> HIDE DEF t
<1>4. t # <<>>
  BY <1>2, <1>3, EmptySeq
<1>5. Head(t) = x
  BY <1>1, <1>2, <1>3, <1>4
<1>6. /\ Tail(t) \in Seq(S) /\ Len(Tail(t)) = Len(t) - 1
      /\ \A i \in 1 .. Len(Tail(t)) : Tail(t)[i] = t[i + 1]
  BY <1>3, <1>4, HeadTailProperties
<1>7. Len(Tail(t)) = Len(a)
  BY <1>2, <1>3, <1>6
<1>8. ASSUME NEW i \in 1 .. Len(Tail(t)) PROVE Tail(t)[i] = a[i]
  <2>1. i \in 1 .. Len(a) /\ i + 1 \in 1 .. 1 + Len(a) /\ ~(i + 1 <= 1) /\ i + 1 - 1 = i
    BY <1>2, <1>7, <1>8
  <2>. QED
    BY <1>3, <1>6, <2>1
<1>9. Tail(t) = a
  BY <1>6, <1>7, <1>8, SeqEqual
<1>. QED
  BY <1>2, <1>3, <1>4, <1>5, <1>9 DEF t

LEMMA LlegaAlFinal ==
    ASSUME NEW S, NEW x \in S, NEW a \in Seq(S), NEW y \in S
    PROVE  <<x>> \o Append(a, y) = Append(<<x>> \o a, y)
<1>1. <<x>> \in Seq(S) /\ <<y>> \in Seq(S)
  BY Uno
<1>2. Append(a, y) = a \o <<y>>
  BY AppendIsConcat
<1>3. <<x>> \o a \in Seq(S)
  BY AlFrente
<1>4. Append(<<x>> \o a, y) = (<<x>> \o a) \o <<y>>
  BY <1>3, AppendIsConcat
<1>. QED
  BY <1>1, <1>2, <1>4, ConcatAssociative

LEMMA PrimeroYResto ==
    ASSUME NEW S, NEW a \in Seq(S), a # <<>>
    PROVE  /\ Head(a) \in S /\ Tail(a) \in Seq(S)
           /\ <<Head(a)>> \o Tail(a) = a
<1> DEFINE t == <<Head(a)>> \o Tail(a)
<1>1. /\ Head(a) \in S /\ Tail(a) \in Seq(S) /\ Len(Tail(a)) = Len(a) - 1
  BY HeadTailProperties
<1>2. t \in Seq(S) /\ t # <<>> /\ Len(t) = Len(Tail(a)) + 1 /\ Head(t) = Head(a)
      /\ Tail(t) = Tail(a)
  BY <1>1, AlFrente
<1> HIDE DEF t
<1>3. Len(a) \in Nat \ {0} /\ Len(t) = Len(a)
  BY <1>1, <1>2, EmptySeq
<1>4. ASSUME NEW i \in 1 .. Len(a) PROVE t[i] = a[i]
  <2>1. CASE i = 1
    BY <1>2, <1>3, <2>1
  <2>2. CASE i # 1
    <3>1. i - 1 \in 1 .. Len(Tail(a)) /\ i - 1 + 1 = i
      BY <1>1, <1>3, <2>2
    <3>2. Tail(a)[i - 1] = a[i - 1 + 1]
      BY <3>1, HeadTailProperties
    <3>3. Tail(t)[i - 1] = t[i - 1 + 1]
      BY <1>2, <3>1, HeadTailProperties
    <3>. QED
      BY <1>2, <3>1, <3>2, <3>3
  <2>. QED
    BY <2>1, <2>2
<1>5. t = a
  BY <1>2, <1>3, <1>4, SeqEqual
<1>. QED
  BY <1>1, <1>5 DEF t

-----------------------------------------------------------------------------
(***************************************************************************)
(* Two queues that go together.                                            *)
(***************************************************************************)

\* Queue c keeps what f tells of the PIDs of e, in their order.
Pareja(c, e, f) ==
    Len(c) = Len(e) /\ \A i \in DOMAIN e : c[i] = f[e[i]]

LEMMA ParejaAlLlegar ==
    ASSUME NEW P, NEW n \in Int, NEW c \in Seq(P), NEW e \in Seq(0 .. n), NEW f, NEW g,
           NEW x \in P, n + 1 \in 0 .. n + 1,
           Pareja(c, e, f), g[n + 1] = x, \A q \in 0 .. n : g[q] = f[q]
    PROVE  Pareja(Append(c, x), Append(e, n + 1), g)
<1>0. Len(c) = Len(e) /\ \A i \in DOMAIN e : c[i] = f[e[i]]
  BY DEF Pareja
<1>1. e \in Seq(0 .. n + 1)
  BY SeqMonotonic
<1>2. /\ Len(Append(e, n + 1)) = Len(e) + 1
      /\ Append(e, n + 1) \in Seq(0 .. n + 1)
      /\ \A i \in 1 .. Len(e) : Append(e, n + 1)[i] = e[i]
      /\ Append(e, n + 1)[Len(e) + 1] = n + 1
  BY <1>1, AppendProperties
<1>3. /\ Len(Append(c, x)) = Len(c) + 1
      /\ \A i \in 1 .. Len(c) : Append(c, x)[i] = c[i]
      /\ Append(c, x)[Len(c) + 1] = x
  BY AppendProperties
<1>4. Len(e) \in Nat /\ DOMAIN e = 1 .. Len(e)
      /\ DOMAIN Append(e, n + 1) = 1 .. Len(Append(e, n + 1))
  BY <1>2, LenProperties
<1>5. ASSUME NEW i \in DOMAIN Append(e, n + 1)
      PROVE  Append(c, x)[i] = g[Append(e, n + 1)[i]]
  <2>1. CASE i = Len(e) + 1
    BY <1>0, <1>2, <1>3, <2>1
  <2>2. CASE i # Len(e) + 1
    <3>1. i \in 1 .. Len(e)
      BY <1>2, <1>4, <2>2
    <3>2. e[i] \in 0 .. n
      BY <3>1, ElementOfSeq
    <3>. QED
      BY <1>0, <1>2, <1>3, <1>4, <3>1, <3>2
  <2>. QED
    BY <2>1, <2>2
<1>6. Len(Append(c, x)) = Len(Append(e, n + 1))
  BY <1>0, <1>2, <1>3
<1>. QED
  BY <1>5, <1>6 DEF Pareja

LEMMA ParejaAlSalir ==
    ASSUME NEW P, NEW S, NEW c \in Seq(P), NEW e \in Seq(S), NEW f,
           Pareja(c, e, f), e # <<>>
    PROVE  /\ c # <<>> /\ Head(c) = f[Head(e)] /\ Head(c) \in P
           /\ Tail(c) \in Seq(P)
           /\ Pareja(Tail(c), Tail(e), f)
<1>0. Len(c) = Len(e) /\ \A i \in DOMAIN e : c[i] = f[e[i]]
  BY DEF Pareja
<1>1. Len(e) \in Nat \ {0} /\ DOMAIN e = 1 .. Len(e)
  BY EmptySeq, LenProperties
<1>2. c # <<>>
  BY <1>0, <1>1, EmptySeq
<1>3. /\ Head(c) \in P /\ Tail(c) \in Seq(P) /\ Len(Tail(c)) = Len(c) - 1
      /\ \A i \in 1 .. Len(Tail(c)) : Tail(c)[i] = c[i + 1]
  BY <1>2, HeadTailProperties
<1>4. /\ Tail(e) \in Seq(S) /\ Len(Tail(e)) = Len(e) - 1
      /\ \A i \in 1 .. Len(Tail(e)) : Tail(e)[i] = e[i + 1]
  BY HeadTailProperties
<1>5. DOMAIN Tail(e) = 1 .. Len(Tail(e))
  BY <1>4, LenProperties
<1>6. ASSUME NEW i \in DOMAIN Tail(e) PROVE Tail(c)[i] = f[Tail(e)[i]]
  <2>1. i \in 1 .. Len(Tail(e)) /\ i \in 1 .. Len(Tail(c)) /\ i + 1 \in DOMAIN e
    BY <1>0, <1>1, <1>3, <1>4, <1>5
  <2>. QED
    BY <1>0, <1>3, <1>4, <2>1
<1>7. Head(c) = f[Head(e)]
  BY <1>0, <1>1, <1>2
<1>. QED
  BY <1>0, <1>2, <1>3, <1>4, <1>6, <1>7 DEF Pareja

-----------------------------------------------------------------------------
(***************************************************************************)
(* The inductive invariant.                                                *)
(***************************************************************************)

Tipos ==
    /\ PCB_ID \in -1 .. MaxPid
    /\ pedido \in [0 .. PCB_ID -> Proceso]
    /\ cola_procesosToCreate \in Seq(Proceso)
    /\ cola_newAux \in Seq(0 .. PCB_ID)
    /\ DOMAIN cargados \subseteq 0 .. PCB_ID

\* cola_new holds one PCB at most, the first of the line, and nobody waits in
\* cola_newAux behind nobody.
Turnos ==
    \/ /\ paso = "inicio" /\ PCB_ID = -1 /\ nuevoPCB = Ninguno
       /\ cola_new = <<>> /\ cola_newAux = <<>>
    \/ /\ paso = "memoria" /\ nuevoPCB \in 0 .. PCB_ID
       /\ cola_new \in {<<>>, <<nuevoPCB>>}
    \/ /\ paso \in {"libre", "listo"} /\ nuevoPCB = Ninguno
       /\ cola_new = <<>> /\ cola_newAux = <<>>
    \/ /\ paso \in {"libre", "listo"} /\ nuevoPCB = Ninguno
       /\ \E q \in 0 .. PCB_ID : cola_new = <<q>>

IFila == Tipos /\ Turnos /\ ColasEmparejadas /\ SuPrograma

\* A step of the line, or none.
PasoDeFila == Linea!Next \/ UNCHANGED <<EnEspera, DOMAIN cargados>>

\* EnEspera, as a function of the three queues.
Espera(n, cn, ca) ==
    (IF n = Ninguno \/ (cn # <<>> /\ Head(cn) = n) THEN <<>> ELSE <<n>>) \o cn \o ca

LEMMA EnEsperaEs ==
    /\ EnEspera = Espera(nuevoPCB, cola_new, cola_newAux)
    /\ EnEspera' = Espera(nuevoPCB', cola_new', cola_newAux')
BY DEF EnEspera, Espera, EsElPrimero

LEMMA EsperaConUno ==
    ASSUME NEW S, NEW n \in S, NEW ca \in Seq(S), NEW cn \in {<<>>, <<n>>}, n # Ninguno
    PROVE  Espera(n, cn, ca) = <<n>> \o ca
<1>1. <<n>> \in Seq(S) /\ <<>> \in Seq(S)
  BY Uno, EmptySeq
<1>2. <<>> \o <<n>> = <<n>> /\ <<n>> \o <<>> = <<n>>
  BY <1>1, ConcatEmptySeq
<1>3. Head(<<n>>) = n /\ <<n>> # <<>>
  BY Uno, EmptySeq
<1>. QED
  BY <1>2, <1>3 DEF Espera

LEMMA EsperaQuieta ==
    ASSUME NEW S, NEW q \in S, NEW ca \in Seq(S)
    PROVE  Espera(Ninguno, <<q>>, ca) = <<q>> \o ca
<1>1. <<q>> \in Seq(S)
  BY Uno
<1>2. <<>> \o <<q>> = <<q>>
  BY <1>1, ConcatEmptySeq
<1>. QED
  BY <1>2 DEF Espera

LEMMA EsperaNadie == Espera(Ninguno, <<>>, <<>>) = <<>>
<1>1. <<>> \in Seq({}) /\ <<>> \o <<>> = <<>>
  BY EmptySeq, ConcatEmptySeq
<1>. QED
  BY <1>1 DEF Espera

LEMMA Emparejadas ==
    /\ ColasEmparejadas <=> Pareja(cola_procesosToCreate, EnEspera, pedido)
    /\ ColasEmparejadas' <=> Pareja(cola_procesosToCreate', EnEspera', pedido')
BY DEF ColasEmparejadas, Pareja

\* Where the line stands between two steps.
LEMMA Forma ==
    ASSUME IFila
    PROVE  /\ EnEspera \in Seq(0 .. PCB_ID)
           /\ paso = "memoria" => EnEspera = <<nuevoPCB>> \o cola_newAux
           /\ \A q : paso # "memoria" /\ cola_new = <<q>> =>
                         EnEspera = <<q>> \o cola_newAux
           /\ paso # "memoria" /\ cola_new = <<>> => EnEspera = <<>> /\ cola_newAux = <<>>
<1>1. CASE paso = "memoria"
  <2>1. /\ nuevoPCB \in 0 .. PCB_ID /\ nuevoPCB # Ninguno
        /\ cola_new \in {<<>>, <<nuevoPCB>>} /\ cola_newAux \in Seq(0 .. PCB_ID)
    BY <1>1 DEF IFila, Tipos, Turnos, Ninguno
  <2>2. EnEspera = <<nuevoPCB>> \o cola_newAux
    BY <2>1, EnEsperaEs, EsperaConUno
  <2>. QED
    BY <1>1, <2>1, <2>2, AlFrente
<1>2. CASE paso # "memoria" /\ \E q \in 0 .. PCB_ID : cola_new = <<q>>
  <2>1. PICK q \in 0 .. PCB_ID : cola_new = <<q>>
    BY <1>2
  <2>2. nuevoPCB = Ninguno /\ cola_newAux \in Seq(0 .. PCB_ID)
    BY <1>2 DEF IFila, Tipos, Turnos
  <2>3. EnEspera = <<q>> \o cola_newAux
    BY <2>1, <2>2, EnEsperaEs, EsperaQuieta
  <2>4. cola_new # <<>>
    BY <2>1, Uno, EmptySeq
  <2>5. \A r : cola_new = <<r>> => r = q
    BY <2>1
  <2>. QED
    BY <1>2, <2>2, <2>3, <2>4, <2>5, AlFrente
<1>3. CASE paso # "memoria" /\ ~(\E q \in 0 .. PCB_ID : cola_new = <<q>>)
  <2>1. nuevoPCB = Ninguno /\ cola_new = <<>> /\ cola_newAux = <<>>
    BY <1>3 DEF IFila, Turnos
  <2>2. EnEspera = <<>>
    BY <2>1, EnEsperaEs, EsperaNadie
  <2>3. \A q : cola_new # <<q>>
    BY <2>1
  <2>. QED
    BY <1>3, <2>1, <2>2, <2>3, EmptySeq
<1>. QED
  BY <1>1, <1>2, <1>3

LEMMA InicioEnFila == Init => IFila /\ Linea!Init
<1>1. SUFFICES ASSUME Init PROVE IFila /\ Linea!Init
  OBVIOUS
<1>2. /\ PCB_ID = -1 /\ nuevoPCB = Ninguno /\ cola_new = <<>> /\ cola_newAux = <<>>
      /\ paso = "inicio" /\ cola_procesosToCreate = <<>> /\ pedido = <<>>
      /\ cargados = <<>>
  BY <1>1 DEF Init
<1>3. <<>> \in Seq(Proceso) /\ <<>> \in Seq(0 .. -1) /\ Len(<<>>) = 0
  BY EmptySeq
<1>4. <<>> \in [1 .. 0 -> Proceso] /\ DOMAIN <<>> = 1 .. 0
  BY <1>3, LenProperties
<1>5. 1 .. 0 = {} /\ 0 .. -1 = {}
  OBVIOUS
<1>6. EnEspera = <<>>
  BY <1>2, EnEsperaEs, EsperaNadie
<1>7. Tipos
  BY <1>2, <1>3, <1>4, <1>5, AjustesDeAdmision DEF Tipos
<1>8. Turnos
  BY <1>2 DEF Turnos
<1>9. DOMAIN cargados = {}
  BY <1>2, <1>4, <1>5
<1>10. ColasEmparejadas /\ SuPrograma
  BY <1>2, <1>4, <1>5, <1>6, <1>9 DEF ColasEmparejadas, SuPrograma
<1>. QED
  BY <1>6, <1>7, <1>8, <1>9, <1>10 DEF IFila, Linea!Init

-----------------------------------------------------------------------------
(***************************************************************************)
(* Each action keeps the invariant and is a step of the line.              *)
(***************************************************************************)

\* Who waits, and who runs, has a PID that was given.
LEMMA NadieConoce ==
    ASSUME IFila
    PROVE  PCB_ID + 1 \notin Linea!Conocidos
<1>1. /\ EnEspera \in Seq(0 .. PCB_ID) /\ DOMAIN cargados \subseteq 0 .. PCB_ID
      /\ PCB_ID \in -1 .. MaxPid
  BY Forma DEF IFila, Tipos
<1>2. \A i \in DOMAIN EnEspera : EnEspera[i] \in 0 .. PCB_ID
  BY <1>1, ElementOfSeq, LenProperties
<1>3. PCB_ID + 1 \notin 0 .. PCB_ID
  BY <1>1, AjustesDeAdmision
<1>. QED
  BY <1>1, <1>2, <1>3 DEF Linea!Conocidos

\* Nothing that the invariant speaks of changes.
LEMMA Igual ==
    ASSUME IFila, Turnos', EnEspera' = EnEspera,
           UNCHANGED <<PCB_ID, pedido, cola_procesosToCreate, cargados>>,
           cola_newAux' = cola_newAux
    PROVE  IFila' /\ PasoDeFila
<1>1. Tipos'
  BY DEF IFila, Tipos
<1>2. ColasEmparejadas'
  BY DEF IFila, ColasEmparejadas
<1>3. SuPrograma'
  BY DEF IFila, SuPrograma
<1>. QED
  BY <1>1, <1>2, <1>3 DEF IFila, PasoDeFila

LEMMA PasoInicial ==
    ASSUME IFila, NEW size \in Iniciales, CreateProcesoHiloInicial(size)
    PROVE  IFila' /\ PasoDeFila /\ EnEspera = <<>> /\ EnEspera' = <<>>
<1> DEFINE x == [RutaArchivo |-> 0, SizeProceso |-> size]
<1>1. /\ paso = "inicio" /\ PCB_ID = -1 /\ nuevoPCB = Ninguno
      /\ cola_new = <<>> /\ cola_newAux = <<>>
  BY DEF IFila, Turnos, CreateProcesoHiloInicial
<1>2. /\ PCB_ID' = 0 /\ cargados' = Con(cargados, 0, x) /\ pedido' = Con(pedido, 0, x)
      /\ paso' = "libre" /\ cola_new' = <<>> /\ cola_newAux' = <<>>
      /\ cola_procesosToCreate' = cola_procesosToCreate /\ nuevoPCB' = Ninguno
  BY <1>1 DEF CreateProcesoHiloInicial, colas
<1>3. x \in Proceso
  BY AjustesDeAdmision DEF Proceso, Pids
<1> HIDE DEF x
<1>4. EnEspera = <<>> /\ EnEspera' = <<>>
  BY <1>1, <1>2, EnEsperaEs, EsperaNadie
<1>5. DOMAIN cargados = {}
  <2>1. 0 .. -1 = {}
    OBVIOUS
  <2>. QED
    BY <1>1, <2>1 DEF IFila, Tipos
<1>6. DOMAIN cargados' = {0} /\ cargados'[0] = x
  BY <1>2, <1>5 DEF Con
<1>7. pedido' \in [0 .. 0 -> Proceso] /\ pedido'[0] = x
  <2>1. pedido \in [0 .. -1 -> Proceso]
    BY <1>1 DEF IFila, Tipos
  <2>2. 0 \notin 0 .. -1 /\ (0 .. -1) \cup {0} = 0 .. 0
    OBVIOUS
  <2>3. /\ Con(pedido, 0, x) \in [(0 .. -1) \cup {0} -> Proceso]
        /\ Con(pedido, 0, x)[0] = x
    <3> DEFINE D == 0 .. -1
    <3>1. pedido \in [D -> Proceso] /\ 0 \notin D
      BY <2>1, <2>2
    <3> HIDE DEF D
    <3>2. Con(pedido, 0, x) \in [D \cup {0} -> Proceso] /\ Con(pedido, 0, x)[0] = x
      BY <1>3, <3>1 DEF Con
    <3>. QED
      BY <3>2 DEF D
  <2>. QED
    BY <1>2, <2>2, <2>3
<1>8. Tipos'
  <2>1. <<>> \in Seq(0 .. 0)
    BY EmptySeq
  <2>2. 0 \in -1 .. MaxPid /\ 0 \in 0 .. 0
    BY AjustesDeAdmision
  <2>. QED
    BY <1>2, <1>6, <1>7, <2>1, <2>2 DEF IFila, Tipos
<1>9. Turnos'
  BY <1>2 DEF Turnos
<1>10. ColasEmparejadas'
  <2>1. DOMAIN <<>> = {}
    OBVIOUS
  <2>. QED
    BY <1>2, <1>4, <2>1 DEF IFila, ColasEmparejadas
<1>11. SuPrograma'
  BY <1>6, <1>7 DEF SuPrograma
<1>12. Linea!Pasar(0) /\ 0 \in Pids
  <2>1. 0 \notin Linea!Conocidos
    BY <1>1, NadieConoce
  <2>. QED
    BY <1>4, <1>5, <1>6, <2>1, AjustesDeAdmision DEF Linea!Pasar, Pids
<1>. QED
  BY <1>4, <1>8, <1>9, <1>10, <1>11, <1>12 DEF IFila, PasoDeFila, Linea!Next

LEMMA PasoDeCrear ==
    ASSUME IFila, NEW size \in Tamanos, createProceso(size)
    PROVE  IFila' /\ PasoDeFila /\ EnEspera' = Append(EnEspera, PCB_ID + 1)
<1> DEFINE p == PCB_ID + 1
           x == [RutaArchivo |-> p, SizeProceso |-> size]
<1>1. /\ paso = "libre" /\ p \in Pids /\ PCB_ID' = p
      /\ pedido' = Con(pedido, p, x) /\ cargados' = cargados
      /\ cola_procesosToCreate' = Append(cola_procesosToCreate, x)
  BY DEF createProceso
<1>2. /\ PCB_ID \in Int /\ -1 <= PCB_ID /\ pedido \in [0 .. PCB_ID -> Proceso]
      /\ p \in 0 .. PCB_ID + 1 /\ p \in -1 .. MaxPid
      /\ cola_procesosToCreate \in Seq(Proceso) /\ cola_newAux \in Seq(0 .. PCB_ID)
      /\ 0 .. PCB_ID \subseteq 0 .. p
      /\ DOMAIN cargados \subseteq 0 .. PCB_ID
  BY <1>1, AjustesDeAdmision DEF IFila, Tipos, Pids
<1>3. x \in Proceso
  BY <1>1 DEF Proceso
<1>4. \/ /\ cola_new = <<>> /\ paso' = "memoria" /\ nuevoPCB' = p
         /\ cola_new' = <<>> /\ cola_newAux' = cola_newAux
      \/ /\ cola_new # <<>> /\ cola_newAux' = Append(cola_newAux, p)
         /\ UNCHANGED <<cola_new, paso, nuevoPCB>>
  BY DEF createProceso, Inicializa, Encola
<1> HIDE DEF x
<1> HIDE DEF p
<1>5. /\ pedido' \in [0 .. p -> Proceso] /\ pedido'[p] = x
      /\ \A q \in 0 .. PCB_ID : pedido'[q] = pedido[q]
  <2> DEFINE D == 0 .. PCB_ID
  <2>1. p \notin D /\ D \cup {p} = 0 .. p
    BY <1>2 DEF p
  <2>2. pedido \in [D -> Proceso]
    BY <1>2
  <2> HIDE DEF D
  <2>3. /\ Con(pedido, p, x) \in [D \cup {p} -> Proceso]
        /\ Con(pedido, p, x)[p] = x
        /\ \A q \in D : Con(pedido, p, x)[q] = pedido[q]
    BY <1>3, <2>1, <2>2 DEF Con
  <2>4. /\ Con(pedido, p, x) \in [0 .. p -> Proceso]
        /\ \A q \in 0 .. PCB_ID : Con(pedido, p, x)[q] = pedido[q]
    BY <2>1, <2>3 DEF D
  <2>. QED
    BY <1>1, <2>3, <2>4
<1>6. p # Ninguno
  BY <1>2 DEF Ninguno, p
<1>7. EnEspera \in Seq(0 .. PCB_ID)
  BY Forma
<1>8. /\ EnEspera' = Append(EnEspera, p) /\ Turnos'
      /\ cola_newAux' \in Seq(0 .. p)
  <2>1. CASE cola_new = <<>>
    <3>1. EnEspera = <<>> /\ cola_newAux = <<>>
      BY <1>1, <2>1, Forma
    <3>2. /\ paso' = "memoria" /\ nuevoPCB' = p /\ cola_new' = <<>>
          /\ cola_newAux' = <<>>
      BY <1>4, <2>1, <3>1
    <3>3. <<>> \in Seq({p}) /\ <<p>> \in Seq({p}) /\ <<>> \in Seq(0 .. p)
      BY Uno, EmptySeq
    <3>4. EnEspera' = <<p>> \o <<>>
      BY <1>6, <3>2, <3>3, EnEsperaEs, EsperaConUno
    <3>5. Append(<<>>, p) = <<>> \o <<p>>
      BY <3>3, AppendIsConcat
    <3>6. <<p>> \o <<>> = <<p>> /\ <<>> \o <<p>> = <<p>>
      BY <3>3, ConcatEmptySeq
    <3>7. Turnos'
      BY <1>1, <1>2, <3>2 DEF Turnos, p
    <3>. QED
      BY <3>1, <3>2, <3>3, <3>4, <3>5, <3>6, <3>7
  <2>2. CASE cola_new # <<>>
    <3>1. nuevoPCB = Ninguno /\ \E q \in 0 .. PCB_ID : cola_new = <<q>>
      BY <1>1, <2>2 DEF IFila, Turnos
    <3>2. PICK q \in 0 .. PCB_ID : cola_new = <<q>>
      BY <3>1
    <3>3. /\ cola_new' = <<q>> /\ cola_newAux' = Append(cola_newAux, p)
          /\ nuevoPCB' = Ninguno /\ paso' = "libre"
      BY <1>1, <1>4, <2>2, <3>1, <3>2
    <3>4. q \in 0 .. p /\ p \in 0 .. p /\ cola_newAux \in Seq(0 .. p)
      <4>1. p \in 0 .. p
        BY <1>2 DEF p
      <4>. QED
        BY <1>2, <4>1, SeqMonotonic
    <3>5. Append(cola_newAux, p) \in Seq(0 .. p)
      BY <3>4, AppendProperties
    <3>6. EnEspera = <<q>> \o cola_newAux
      BY <1>1, <3>2, Forma
    <3>7. EnEspera' = <<q>> \o Append(cola_newAux, p)
      BY <3>3, <3>4, <3>5, EnEsperaEs, EsperaQuieta
    <3>8. EnEspera' = Append(EnEspera, p)
      BY <3>4, <3>6, <3>7, LlegaAlFinal
    <3>9. Turnos'
      BY <1>1, <3>3, <3>4 DEF Turnos
    <3>. QED
      BY <3>3, <3>5, <3>8, <3>9
  <2>. QED
    BY <2>1, <2>2
<1>9. Append(cola_procesosToCreate, x) \in Seq(Proceso)
  BY <1>2, <1>3, AppendProperties
<1>10. Tipos'
  BY <1>1, <1>2, <1>5, <1>8, <1>9 DEF Tipos
<1>11. ColasEmparejadas'
  <2>1. Pareja(cola_procesosToCreate, EnEspera, pedido)
    BY Emparejadas DEF IFila
  <2>2. Pareja(Append(cola_procesosToCreate, x), Append(EnEspera, PCB_ID + 1), pedido')
    BY <1>2, <1>3, <1>5, <1>7, <2>1, ParejaAlLlegar DEF p
  <2>. QED
    BY <1>1, <1>8, <2>2, Emparejadas DEF p
<1>12. SuPrograma'
  BY <1>1, <1>2, <1>5 DEF IFila, SuPrograma
<1>13. Linea!Llegar(p)
  BY <1>1, <1>8, NadieConoce DEF Linea!Llegar, p
<1>. QED
  BY <1>1, <1>10, <1>11, <1>12, <1>8, <1>13 DEF IFila, PasoDeFila, Linea!Next, p

LEMMA PasoDeCreado ==
    ASSUME IFila, Creado
    PROVE  IFila' /\ PasoDeFila /\ EnEspera' = Tail(EnEspera)
<1> DEFINE c == cola_procesosToCreate
           n == nuevoPCB
           ca == cola_newAux
<1>1. /\ paso = "memoria" /\ cargados' = Con(cargados, n, Head(c))
      /\ cola_new' = <<>> /\ c' = Tail(c) /\ UNCHANGED <<PCB_ID, pedido>>
  BY DEF Creado, procesToCreate
<1>2. \/ /\ ca # <<>> /\ paso' = "memoria" /\ nuevoPCB' = Head(ca) /\ ca' = Tail(ca)
      \/ ca = <<>> /\ paso' = "listo" /\ nuevoPCB' = Ninguno /\ ca' = ca
  BY DEF Creado, SigueOTermina, Inicializa
<1>3. /\ n \in 0 .. PCB_ID /\ PCB_ID \in -1 .. MaxPid
      /\ c \in Seq(Proceso) /\ ca \in Seq(0 .. PCB_ID)
      /\ DOMAIN cargados \subseteq 0 .. PCB_ID
  BY <1>1 DEF IFila, Tipos, Turnos
<1>4. EnEspera = <<n>> \o ca /\ EnEspera \in Seq(0 .. PCB_ID)
  BY <1>1, Forma
<1> HIDE DEF c, n, ca
<1>5. EnEspera # <<>> /\ Head(EnEspera) = n /\ Tail(EnEspera) = ca
  BY <1>3, <1>4, AlFrente
<1>6. Pareja(c, EnEspera, pedido)
  BY Emparejadas DEF IFila, c
<1>7. /\ Head(c) = pedido[n] /\ Tail(c) \in Seq(Proceso)
      /\ Pareja(Tail(c), ca, pedido)
  <2>1. c \in Seq(Proceso) /\ EnEspera \in Seq(0 .. PCB_ID) /\ EnEspera # <<>>
    BY <1>3, <1>4, <1>5
  <2>2. /\ Head(c) = pedido[Head(EnEspera)] /\ Tail(c) \in Seq(Proceso)
        /\ Pareja(Tail(c), Tail(EnEspera), pedido)
    BY <1>6, <2>1, ParejaAlSalir
  <2>. QED
    BY <1>5, <2>2
<1>8. /\ EnEspera' = ca /\ Turnos' /\ ca' \in Seq(0 .. PCB_ID)
  <2>1. CASE ca # <<>>
    <3>1. paso' = "memoria" /\ nuevoPCB' = Head(ca) /\ ca' = Tail(ca)
      BY <1>2, <2>1
    <3>2. /\ Head(ca) \in 0 .. PCB_ID /\ Tail(ca) \in Seq(0 .. PCB_ID)
          /\ <<Head(ca)>> \o Tail(ca) = ca
      BY <1>3, <2>1, PrimeroYResto
    <3>3. Head(ca) # Ninguno
      BY <1>3, <3>2 DEF Ninguno
    <3>4. Espera(Head(ca), <<>>, Tail(ca)) = <<Head(ca)>> \o Tail(ca)
      BY <3>2, <3>3, EsperaConUno
    <3>5. EnEspera' = ca
      BY <1>1, <3>1, <3>2, <3>4, EnEsperaEs DEF ca
    <3>6. Turnos'
      BY <1>1, <3>1, <3>2 DEF Turnos
    <3>. QED
      BY <3>1, <3>2, <3>5, <3>6
  <2>2. CASE ca = <<>>
    <3>1. paso' = "listo" /\ nuevoPCB' = Ninguno /\ ca' = <<>>
      BY <1>2, <2>2
    <3>2. EnEspera' = ca
      BY <1>1, <2>2, <3>1, EnEsperaEs, EsperaNadie DEF ca
    <3>3. Turnos'
      BY <1>1, <3>1 DEF Turnos, ca
    <3>. QED
      BY <1>3, <2>2, <3>1, <3>2, <3>3
  <2>. QED
    BY <2>1, <2>2
<1>9. DOMAIN cargados' = DOMAIN cargados \cup {n}
  BY <1>1 DEF Con
<1>10. Tipos'
  <2>1. pedido' \in [0 .. PCB_ID' -> Proceso]
    BY <1>1 DEF IFila, Tipos
  <2>. QED
    BY <1>1, <1>3, <1>7, <1>8, <1>9, <2>1 DEF Tipos, c, ca
<1>11. ColasEmparejadas'
  BY <1>1, <1>7, <1>8, Emparejadas DEF c
<1>12. SuPrograma'
  <2>1. ASSUME NEW p \in DOMAIN cargados' PROVE cargados'[p] = pedido'[p]
    <3>1. CASE p = n
      BY <1>1, <1>7, <1>9, <2>1, <3>1 DEF Con
    <3>2. CASE p # n
      BY <1>1, <1>9, <2>1, <3>2 DEF Con, IFila, SuPrograma
    <3>. QED
      BY <3>1, <3>2
  <2>. QED
    BY <2>1 DEF SuPrograma
<1>13. Linea!Entrar
  BY <1>5, <1>8, <1>9 DEF Linea!Entrar
<1>. QED
  BY <1>5, <1>8, <1>10, <1>11, <1>12, <1>13 DEF IFila, PasoDeFila, Linea!Next

\* A process that is refused, or whose reply is lost, stays where it was.
LEMMA PasoDeSigueEnNew ==
    ASSUME IFila, paso = "memoria", SigueEnNew
    PROVE  IFila' /\ PasoDeFila /\ EnEspera' = EnEspera /\ cola_new' = <<nuevoPCB>>
<1>1. /\ nuevoPCB \in 0 .. PCB_ID /\ cola_new \in {<<>>, <<nuevoPCB>>}
      /\ cola_newAux \in Seq(0 .. PCB_ID)
  BY DEF IFila, Tipos, Turnos
<1>2. /\ paso' = "listo" /\ nuevoPCB' = Ninguno
      /\ UNCHANGED <<PCB_ID, pedido, cola_procesosToCreate, cargados, cola_newAux>>
  BY DEF SigueEnNew
<1>3. cola_new' = <<nuevoPCB>>
  <2>1. CASE cola_new = <<>>
    <3>1. ~EsElPrimero(nuevoPCB)
      BY <2>1 DEF EsElPrimero
    <3>2. cola_new' = Append(<<>>, nuevoPCB)
      BY <2>1, <3>1 DEF SigueEnNew
    <3>3. <<>> \in Seq(0 .. PCB_ID) /\ <<nuevoPCB>> \in Seq(0 .. PCB_ID)
      BY <1>1, Uno, EmptySeq
    <3>4. Append(<<>>, nuevoPCB) = <<>> \o <<nuevoPCB>>
      BY <1>1, <3>3, AppendIsConcat
    <3>. QED
      BY <3>2, <3>3, <3>4, ConcatEmptySeq
  <2>2. CASE cola_new = <<nuevoPCB>>
    <3>1. Head(<<nuevoPCB>>) = nuevoPCB /\ <<nuevoPCB>> # <<>>
      BY Uno, EmptySeq
    <3>2. EsElPrimero(nuevoPCB)
      BY <2>2, <3>1 DEF EsElPrimero
    <3>. QED
      BY <2>2, <3>2 DEF SigueEnNew
  <2>. QED
    BY <1>1, <2>1, <2>2
<1>4. EnEspera' = EnEspera
  <2>1. EnEspera = <<nuevoPCB>> \o cola_newAux
    BY Forma
  <2>2. EnEspera' = <<nuevoPCB>> \o cola_newAux
    BY <1>1, <1>2, <1>3, EnEsperaEs, EsperaQuieta
  <2>. QED
    BY <2>1, <2>2
<1>5. Turnos'
  BY <1>1, <1>2, <1>3 DEF Turnos
<1>. QED
  BY <1>2, <1>3, <1>4, <1>5, Igual

LEMMA PasoDeResponde ==
    ASSUME IFila, Responde
    PROVE  IFila' /\ PasoDeFila /\ EnEspera' = EnEspera
<1>1. /\ paso = "listo" /\ paso' = "libre"
      /\ UNCHANGED <<PCB_ID, pedido, cola_procesosToCreate, cargados, cola_newAux,
                     cola_new, nuevoPCB>>
  BY DEF Responde, colas
<1>2. EnEspera' = EnEspera
  BY <1>1, EnEsperaEs
<1>3. Turnos'
  BY <1>1 DEF IFila, Turnos
<1>. QED
  BY <1>1, <1>2, <1>3, Igual

LEMMA PasoDeFin ==
    ASSUME IFila, NEW p \in Pids, finalizarProceso(p)
    PROVE  IFila' /\ PasoDeFila /\ EnEspera' = EnEspera
<1>1. /\ paso = "libre" /\ p \in DOMAIN cargados /\ cargados' = Sin(cargados, p)
      /\ UNCHANGED <<PCB_ID, pedido, cola_procesosToCreate, cola_newAux, cola_new>>
  BY DEF finalizarProceso, colas
<1>2. \/ cola_new # <<>> /\ paso' = "memoria" /\ nuevoPCB' = Head(cola_new)
      \/ cola_new = <<>> /\ UNCHANGED <<paso, nuevoPCB>>
  BY DEF finalizarProceso, Inicializa
<1>3. PCB_ID \in -1 .. MaxPid /\ cola_newAux \in Seq(0 .. PCB_ID)
  BY DEF IFila, Tipos
<1>4. EnEspera' = EnEspera /\ Turnos'
  <2>1. CASE cola_new = <<>>
    <3>1. EnEspera' = EnEspera
      BY <1>1, <1>2, <2>1, EnEsperaEs
    <3>2. Turnos'
      BY <1>1, <1>2, <2>1 DEF IFila, Turnos
    <3>. QED
      BY <3>1, <3>2
  <2>2. CASE cola_new # <<>>
    <3>1. PICK q \in 0 .. PCB_ID : cola_new = <<q>>
      BY <1>1, <2>2 DEF IFila, Turnos
    <3>2. Head(<<q>>) = q /\ q # Ninguno
      BY <1>3, Uno DEF Ninguno
    <3>3. paso' = "memoria" /\ nuevoPCB' = q /\ cola_new' = <<q>>
      BY <1>1, <1>2, <2>2, <3>1, <3>2
    <3>4. EnEspera = <<q>> \o cola_newAux
      BY <1>1, <3>1, Forma
    <3>5. EnEspera' = <<q>> \o cola_newAux
      BY <1>1, <1>3, <3>2, <3>3, EnEsperaEs, EsperaConUno
    <3>6. Turnos'
      BY <1>1, <3>3 DEF Turnos
    <3>. QED
      BY <3>4, <3>5, <3>6
  <2>. QED
    BY <2>1, <2>2
<1>5. DOMAIN cargados' = DOMAIN cargados \ {p}
  BY <1>1 DEF Sin
<1>6. Tipos'
  BY <1>1, <1>5 DEF IFila, Tipos
<1>7. ColasEmparejadas'
  BY <1>1, <1>4 DEF IFila, ColasEmparejadas
<1>8. SuPrograma'
  BY <1>1, <1>5 DEF IFila, SuPrograma, Sin
<1>9. Linea!Salir(p)
  BY <1>1, <1>4, <1>5 DEF Linea!Salir
<1>. QED
  BY <1>4, <1>6, <1>7, <1>8, <1>9 DEF IFila, PasoDeFila, Linea!Next

LEMMA PasoDeFinPerdido ==
    ASSUME IFila, NEW p \in Pids, FinPerdido(p)
    PROVE  IFila' /\ PasoDeFila /\ EnEspera' = EnEspera
<1>1. UNCHANGED <<PCB_ID, pedido, cola_procesosToCreate, cargados, cola_newAux,
                  cola_new, nuevoPCB, paso>>
  BY DEF FinPerdido, colas
<1>2. EnEspera' = EnEspera
  BY <1>1, EnEsperaEs
<1>3. Turnos'
  BY <1>1 DEF IFila, Turnos
<1>. QED
  BY <1>1, <1>2, <1>3, Igual

LEMMA CadaPaso ==
    ASSUME IFila, [Next]_vars
    PROVE  IFila' /\ PasoDeFila
<1>1. CASE \E size \in Iniciales : CreateProcesoHiloInicial(size)
  BY <1>1, PasoInicial
<1>2. CASE Creado
  BY <1>2, PasoDeCreado
<1>3. CASE NoCreado
  BY <1>3, PasoDeSigueEnNew DEF NoCreado
<1>4. CASE Responde
  BY <1>4, PasoDeResponde
<1>5. CASE RespuestaPerdida
  BY <1>5, PasoDeSigueEnNew DEF RespuestaPerdida
<1>6. CASE \E size \in Tamanos : createProceso(size)
  BY <1>6, PasoDeCrear
<1>7. CASE \E p \in Pids : finalizarProceso(p)
  BY <1>7, PasoDeFin
<1>8. CASE \E p \in Pids : FinPerdido(p)
  BY <1>8, PasoDeFinPerdido
<1>9. CASE UNCHANGED vars
  <2>1. UNCHANGED <<PCB_ID, pedido, cola_procesosToCreate, cargados, cola_newAux,
                    cola_new, nuevoPCB, paso>>
    BY <1>9 DEF vars, colas
  <2>2. EnEspera' = EnEspera
    BY <2>1, EnEsperaEs
  <2>3. Turnos'
    BY <2>1 DEF IFila, Turnos
  <2>. QED
    BY <2>1, <2>2, <2>3, Igual
<1>. QED
  BY <1>1, <1>2, <1>3, <1>4, <1>5, <1>6, <1>7, <1>8, <1>9 DEF Next, Handler

-----------------------------------------------------------------------------
(***************************************************************************)
(* The theorems.                                                           *)
(***************************************************************************)

\* The invariant holds in every state.
THEOREM FilaEnPie == Spec => []IFila
<1>1. Init => IFila
  BY InicioEnFila
<1>2. IFila /\ [Next]_vars => IFila'
  BY CadaPaso
<1>. QED
  BY <1>1, <1>2, PTL DEF Spec

\* The queue of requests keeps what each PCB that waits asked for, at its place
\* in the line, whatever is refused, ends or is lost: inicializarProceso never
\* serves one process with the size and the program of another.
THEOREM LasColasVanJuntas == Spec => []ColasEmparejadas
<1>1. IFila => ColasEmparejadas
  BY DEF IFila
<1>. QED
  BY <1>1, FilaEnPie, PTL

\* Each process that was admitted runs the program its creator named.
THEOREM CadaUnoSuPrograma == Spec => []SuPrograma
<1>1. IFila => SuPrograma
  BY DEF IFila
<1>. QED
  BY <1>1, FilaEnPie, PTL

\* Admission implements the line of Fila: requests are served in the order in
\* which they arrived, and who was admitted leaves only by ending.
THEOREM AdmisionEsUnaFila == Spec => CumpleFila
<1>1. Init => Linea!Init
  BY InicioEnFila
<1>2. IFila /\ [Next]_vars => [Linea!Next]_<<EnEspera, DOMAIN cargados>>
  BY CadaPaso DEF PasoDeFila
<1>. QED
  BY <1>1, <1>2, FilaEnPie, PTL DEF Spec, CumpleFila, Linea!Spec

-----------------------------------------------------------------------------
(***************************************************************************)
(* ConsolidarMemoria, element by element: FoldLeft is a recursive function *)
(* on the sets of indices, and what is known of such a function starts     *)
(* with a proof that there is one.                                         *)
(***************************************************************************)

\* F folds Une over the elements of t at each set of indices up to m.
EsPlegado(t, m, F) ==
    F = [s \in SUBSET (1 .. m) |->
            IF s = {} THEN <<>> ELSE Une(F[s \ {Max(s)}], t[Max(s)])]

\* A fold of the first m elements extends to one more.
LEMMA PlegadoCrece ==
    ASSUME NEW t, NEW m \in Nat, NEW F, EsPlegado(t, m, F)
    PROVE  \E G : EsPlegado(t, m + 1, G)
<1> DEFINE U == SUBSET (1 .. m)
           V == SUBSET (1 .. m + 1)
           G == [s \in V |-> IF m + 1 \in s THEN Une(F[s \ {m + 1}], t[m + 1]) ELSE F[s]]
<1>1. \A s \in V : m + 1 \notin s => s \in U
  OBVIOUS
<1>2. \A s \in V : s \ {m + 1} \in U
  OBVIOUS
<1>3. \A s \in U : m + 1 \notin s /\ s \in V
  OBVIOUS
<1>4. \A s \in U : F[s] = IF s = {} THEN <<>> ELSE Une(F[s \ {Max(s)}], t[Max(s)])
  BY DEF EsPlegado
<1>5. \A s \in V : m + 1 \in s => Max(s) = m + 1
  BY MaximoDeIntervalo
<1>6. \A x : \A s \in U : s \ {x} \in U
  OBVIOUS
<1>7. {} \in U
  OBVIOUS
<1> HIDE DEF U, V
<1>8. \A s \in U : G[s] = F[s]
  BY <1>3
<1>9. ASSUME NEW s \in V
      PROVE  G[s] = IF s = {} THEN <<>> ELSE Une(G[s \ {Max(s)}], t[Max(s)])
  <2>1. CASE m + 1 \in s
    <3>1. G[s] = Une(F[s \ {m + 1}], t[m + 1])
      BY <2>1
    <3>2. G[s \ {m + 1}] = F[s \ {m + 1}]
      BY <1>2, <1>8
    <3>3. Max(s) = m + 1 /\ s # {}
      BY <1>5, <2>1
    <3> HIDE DEF G
    <3>. QED
      BY <3>1, <3>2, <3>3, Zenon
  <2>2. CASE m + 1 \notin s
    <3>1. s \in U
      BY <1>1, <2>2
    <3>2. G[s] = F[s] /\ G[s \ {Max(s)}] = F[s \ {Max(s)}]
      BY <1>6, <1>8, <3>1
    <3> HIDE DEF G
    <3>. QED
      BY <1>4, <3>1, <3>2, Zenon
  <2>. QED
    BY <2>1, <2>2
<1>10. G = [s \in V |-> IF s = {} THEN <<>> ELSE Une(G[s \ {Max(s)}], t[Max(s)])]
  <2>1. G = [s \in V |-> G[s]]
    OBVIOUS
  <2> HIDE DEF G
  <2>. QED
    BY <1>9, <2>1
<1>. QED
  BY <1>10 DEF EsPlegado, V

\* There is such a function for every prefix: consider the first without one.
LEMMA HayPlegado ==
    ASSUME NEW t, NEW n \in Nat
    PROVE  \E F : EsPlegado(t, n, F)
<1> DEFINE Malos == {m \in Nat : ~(\E F : EsPlegado(t, m, F))}
<1>1. SUFFICES ASSUME Malos # {} PROVE FALSE
  OBVIOUS
<1>2. Malos \subseteq Nat
  OBVIOUS
<1>3. PICK m \in Malos : \A x \in Malos : m <= x
  <2> HIDE DEF Malos
  <2>. QED
    BY <1>1, <1>2, MinimoNatural
<1>4. \E F : EsPlegado(t, 0, F)
  <2> DEFINE F == [s \in SUBSET (1 .. 0) |-> <<>>]
  <2>1. \A s \in SUBSET (1 .. 0) : s = {}
    OBVIOUS
  <2>2. EsPlegado(t, 0, F)
    BY <2>1 DEF EsPlegado
  <2>. QED
    BY <2>2
<1>5. m \in Nat /\ m # 0 /\ ~(\E F : EsPlegado(t, m, F))
  BY <1>3, <1>4
<1>6. m - 1 \in Nat /\ ~(m <= m - 1)
  BY <1>5
<1>7. m - 1 \notin Malos
  BY <1>3, <1>6
<1>8. PICK F : EsPlegado(t, m - 1, F)
  BY <1>6, <1>7
<1>9. \E G : EsPlegado(t, m - 1 + 1, G)
  <2> HIDE DEF Malos
  <2>. QED
    BY <1>6, <1>8, PlegadoCrece
<1>10. m - 1 + 1 = m
  BY <1>5
<1>. QED
  BY <1>5, <1>9, <1>10

\* What FoldLeft returns, one element of t at a time.
LEMMA PlegadoPorPartes ==
    ASSUME NEW S, NEW t \in Seq(S)
    PROVE  \E c : /\ c[0] = <<>>
                  /\ \A n \in 1 .. Len(t) : c[n] = Une(c[n - 1], t[n])
                  /\ FoldLeft(Une, <<>>, t) = c[Len(t)]
<1> DEFINE L == Len(t)
           F == CHOOSE iter : EsPlegado(t, L, iter)
           c == [n \in 0 .. L |-> F[1 .. n]]
<1>1. L \in Nat /\ DOMAIN t = 1 .. L
  BY LenProperties
<1>2. FoldLeft(Une, <<>>, t) = F[1 .. L]
  <2>1. FoldLeft(Une, <<>>, t) =
          (CHOOSE iter : iter = [s \in SUBSET DOMAIN t |->
              IF s = {} THEN <<>> ELSE Une(iter[s \ {Max(s)}], t[Max(s)])])[DOMAIN t]
    BY DEF FoldLeft, MapThenFoldSet
  <2>. QED
    BY <1>1, <2>1 DEF EsPlegado
<1>3. EsPlegado(t, L, F)
  <2>1. \E G : EsPlegado(t, L, G)
    BY <1>1, HayPlegado
  <2>. QED
    BY <2>1, Zenon
<1>4. ASSUME NEW n \in 1 .. L PROVE F[1 .. n] = Une(F[1 .. n - 1], t[n])
  <2>0. L \in Nat /\ n \in Nat /\ 1 <= n /\ n <= L
    BY <1>1
  <2>1. /\ 1 .. n \in SUBSET (1 .. L) /\ 1 .. n # {}
        /\ n - 1 \in Nat /\ n - 1 + 1 = n /\ n \in 1 .. n
        /\ (1 .. n) \ {n} = 1 .. n - 1
    <3> HIDE DEF L
    <3>1. n \in 1 .. n /\ n - 1 \in Nat /\ n - 1 + 1 = n
      BY <2>0
    <3>2. 1 .. n \in SUBSET (1 .. L)
      BY <2>0
    <3>3. (1 .. n) \ {n} = 1 .. n - 1
      BY <2>0
    <3>. QED
      BY <3>1, <3>2, <3>3
  <2>2. Max(1 .. n) = n
    BY <2>1, MaximoDeIntervalo
  <2> HIDE DEF F, L
  <2>3. F[1 .. n] = IF 1 .. n = {} THEN <<>>
                    ELSE Une(F[(1 .. n) \ {Max(1 .. n)}], t[Max(1 .. n)])
    BY <1>3, <2>1, Zenon DEF EsPlegado
  <2>. QED
    BY <2>1, <2>2, <2>3, Zenon
<1>5. F[1 .. 0] = <<>>
  <2>1. 1 .. 0 \in SUBSET (1 .. L) /\ 1 .. 0 = {}
    BY <1>1
  <2> HIDE DEF F, L
  <2>. QED
    BY <1>3, <2>1, Zenon DEF EsPlegado
<1> HIDE DEF F
<1>6. c[0] = <<>> /\ c[L] = F[1 .. L]
  BY <1>1, <1>5
<1>7. ASSUME NEW n \in 1 .. L PROVE c[n] = Une(c[n - 1], t[n])
  <2>1. n \in 0 .. L /\ n - 1 \in 0 .. L
    BY <1>1
  <2>2. c[n] = F[1 .. n] /\ c[n - 1] = F[1 .. n - 1]
    BY <2>1
  <2>. QED
    BY <1>4, <2>2
<1>. QED
  BY <1>2, <1>6, <1>7

\* The value of one step of the fold.
LEMMA UneGuarda ==
    ASSUME NEW r \in Seq(M!Particion), NEW x \in M!Particion
    PROVE  /\ Une(r, x) \in Seq(M!Particion)
           /\ \A j \in DOMAIN r : ~r[j].IsFree =>
                  \E h \in DOMAIN Une(r, x) : Une(r, x)[h] = r[j]
           /\ ~x.IsFree => \E h \in DOMAIN Une(r, x) : Une(r, x)[h] = x
<1>0. Len(r) \in Nat /\ DOMAIN r = 1 .. Len(r)
  BY LenProperties
<1>1. CASE r # <<>> /\ Last(r).IsFree /\ x.IsFree
  <2> DEFINE f == Front(r)
             u == M!Unida(Last(r), x)
  <2>1. Len(r) \in Nat \ {0} /\ Len(r) \in 1 .. Len(r)
    BY <1>0, <1>1, EmptySeq
  <2>2. Last(r) = r[Len(r)] /\ Last(r) \in M!Particion
    BY <2>1, ElementOfSeq DEF Last
  <2>3. u \in M!Particion
    <3> DEFINE y == Last(r)
    <3>1. y \in M!Particion /\ x \in M!Particion /\ u = M!Unida(y, x)
      BY <2>2
    <3> HIDE DEF y, u
    <3>2. y.Size + x.Size \in Nat /\ x.Limit \in Int
      BY <3>1 DEF M!Particion
    <3>. QED
      BY <3>1, <3>2 DEF M!Unida, M!Particion
  <2>4. /\ f \in Seq(M!Particion) /\ Len(f) = Len(r) - 1
        /\ \A j \in 1 .. Len(r) - 1 : f[j] = r[j]
    <3>1. 1 \in 1 .. Len(r) + 1 /\ Len(r) - 1 \in 0 .. Len(r) /\ Len(r) - 1 - 1 + 1 = Len(r) - 1
      BY <2>1
    <3>. QED
      BY <2>1, <3>1, SubSeqProperties DEF Front
  <2> HIDE DEF f, u
  <2>5. /\ Append(f, u) \in Seq(M!Particion) /\ Len(Append(f, u)) = Len(r)
        /\ \A j \in 1 .. Len(r) - 1 : Append(f, u)[j] = r[j]
    BY <2>1, <2>3, <2>4, AppendProperties
  <2>6. Une(r, x) = Append(f, u)
    BY <1>1 DEF Une, f, u
  <2>7. DOMAIN Append(f, u) = 1 .. Len(r)
    BY <2>5, LenProperties
  <2>8. ASSUME NEW j \in DOMAIN r, ~r[j].IsFree
        PROVE  \E h \in DOMAIN Append(f, u) : Append(f, u)[h] = r[j]
    <3>1. j # Len(r)
      BY <1>1, <2>2, <2>8
    <3>2. j \in 1 .. Len(r)
      BY <1>0
    <3>3. j \in 1 .. Len(r) - 1
      BY <1>0, <3>1, <3>2
    <3>4. j \in DOMAIN Append(f, u)
      BY <2>7, <3>2
    <3>. QED
      BY <2>5, <3>3, <3>4
  <2>. QED
    BY <1>1, <2>5, <2>6, <2>8
<1>2. CASE ~(r # <<>> /\ Last(r).IsFree /\ x.IsFree)
  <2>1. Une(r, x) = Append(r, x)
    BY <1>2 DEF Une
  <2>2. /\ Append(r, x) \in Seq(M!Particion) /\ Len(Append(r, x)) = Len(r) + 1
        /\ \A j \in 1 .. Len(r) : Append(r, x)[j] = r[j]
        /\ Append(r, x)[Len(r) + 1] = x
    BY AppendProperties
  <2>3. DOMAIN Append(r, x) = 1 .. Len(r) + 1
    BY <2>2, LenProperties
  <2>4. ASSUME NEW j \in DOMAIN r
        PROVE  \E h \in DOMAIN Append(r, x) : Append(r, x)[h] = r[j]
    <3>1. j \in 1 .. Len(r) /\ j \in DOMAIN Append(r, x)
      BY <1>0, <2>3
    <3>. QED
      BY <2>2, <3>1
  <2>5. Len(r) + 1 \in DOMAIN Append(r, x)
    BY <1>0, <2>3
  <2>. QED
    BY <2>1, <2>2, <2>4, <2>5
<1>. QED
  BY <1>1, <1>2

\* Every occupied partition of t is still in r.
Conserva(r, t) ==
    \A i \in DOMAIN t : ~t[i].IsFree => \E j \in DOMAIN r : r[j] = t[i]

\* ConsolidarMemoria loses no occupied partition.
LEMMA ConsolidarConserva ==
    ASSUME NEW t \in Seq(M!Particion)
    PROVE  /\ ConsolidarMemoria(t) \in Seq(M!Particion)
           /\ Conserva(ConsolidarMemoria(t), t)
<1>1. CASE Esquema # "DINAMICAS"
  BY <1>1 DEF ConsolidarMemoria, Conserva
<1>2. CASE Esquema = "DINAMICAS"
  <2>1. PICK c : /\ c[0] = <<>>
                 /\ \A n \in 1 .. Len(t) : c[n] = Une(c[n - 1], t[n])
                 /\ FoldLeft(Une, <<>>, t) = c[Len(t)]
    BY PlegadoPorPartes
  <2>2. Len(t) \in Nat /\ DOMAIN t = 1 .. Len(t)
    BY LenProperties
  <2> DEFINE Va(n) == /\ c[n] \in Seq(M!Particion)
                      /\ \A i \in 1 .. n : ~t[i].IsFree =>
                             \E j \in DOMAIN c[n] : c[n][j] = t[i]
             Malos == {n \in 0 .. Len(t) : ~Va(n)}
  <2>3. Va(0)
    <3>1. <<>> \in Seq(M!Particion) /\ 1 .. 0 = {}
      BY EmptySeq
    <3>. QED
      BY <2>1, <3>1
  <2>4. ASSUME NEW n \in 1 .. Len(t), Va(n - 1)
        PROVE  Va(n)
    <3> DEFINE r == c[n - 1]
               x == t[n]
               u == Une(r, x)
    <3>1. r \in Seq(M!Particion) /\ x \in M!Particion /\ c[n] = u
      BY <2>1, <2>2, <2>4, ElementOfSeq
    <3>2. /\ \A i \in 1 .. n - 1 : ~t[i].IsFree => \E j \in DOMAIN r : r[j] = t[i]
      BY <2>4
    <3> HIDE DEF r, u
    <3>3. /\ u \in Seq(M!Particion)
          /\ \A j \in DOMAIN r : ~r[j].IsFree => \E h \in DOMAIN u : u[h] = r[j]
          /\ ~x.IsFree => \E h \in DOMAIN u : u[h] = x
      BY <3>1, UneGuarda DEF u
    <3>4. ASSUME NEW i \in 1 .. n, ~t[i].IsFree
          PROVE  \E h \in DOMAIN u : u[h] = t[i]
      <4>1. CASE i = n
        BY <3>3, <3>4, <4>1
      <4>2. CASE i # n
        <5>1. i \in 1 .. n - 1
          BY <4>2
        <5>2. PICK j \in DOMAIN r : r[j] = t[i]
          BY <3>2, <3>4, <5>1
        <5>. QED
          BY <3>3, <3>4, <5>2
      <4>. QED
        BY <4>1, <4>2
    <3>. QED
      BY <3>1, <3>3, <3>4
  <2> HIDE DEF Va
  <2>5. ASSUME Malos # {} PROVE FALSE
    <3>1. Malos \subseteq Nat
      OBVIOUS
    <3>2. PICK n \in Malos : \A y \in Malos : n <= y
      <4> HIDE DEF Malos
      <4>. QED
        BY <2>5, <3>1, MinimoNatural
    <3>3. n \in 1 .. Len(t) /\ ~Va(n)
      BY <2>2, <2>3, <3>2
    <3>4. n - 1 \in 0 .. Len(t) /\ ~(n <= n - 1)
      BY <2>2, <3>3
    <3>5. Va(n - 1)
      BY <3>2, <3>4
    <3>. QED
      BY <2>4, <3>3, <3>5
  <2>6. Va(Len(t))
    BY <2>2, <2>5
  <2>7. ConsolidarMemoria(t) = c[Len(t)]
    BY <1>2, <2>1 DEF ConsolidarMemoria
  <2>. QED
    BY <2>2, <2>6, <2>7 DEF Va, Conserva
<1>. QED
  BY <1>1, <1>2

-----------------------------------------------------------------------------
(***************************************************************************)
(* What memoria does to its table.                                         *)
(***************************************************************************)

TablaInicial == [i \in 1 .. Len(M!Particionado) |->
                    M!ParticionLibre(M!Inicio[i], M!Particionado[i])]

\* InicializarMemoria leaves one hole for each configured partition.
LEMMA TablaInicialBien ==
    /\ TablaInicial \in Seq(M!Particion)
    /\ DOMAIN TablaInicial = DOMAIN M!Particionado
    /\ \A i \in DOMAIN M!Particionado :
           /\ TablaInicial[i].IsFree
           /\ TablaInicial[i].Size = M!Particionado[i]
<1> DEFINE P == M!Particionado
           L == Len(P)
<1>1. P \in Seq(Nat)
  <2>1. CASE Esquema = "FIJAS"
    BY <2>1, AjustesDeMemoria DEF M!Particionado
  <2>2. CASE Esquema # "FIJAS"
    <3>1. P = <<Memory_Size>>
      BY <2>2 DEF M!Particionado
    <3>. QED
      BY <3>1, AjustesDeMemoria, Uno
  <2>. QED
    BY <2>1, <2>2
<1>2. L \in Nat /\ DOMAIN P = 1 .. L
  BY <1>1, LenProperties
<1>3. M!Inicio \in M!Bordes
  <2>1. \E f \in M!Bordes : M!EsInicio(f)
    BY AjustesDeMemoria
  <2>. QED
    BY <2>1, Zenon DEF M!Inicio
<1>4. ASSUME NEW i \in 1 .. L PROVE M!Inicio[i] \in Nat
  <2>1. i \in 1 .. L + 1
    BY <1>2
  <2>2. M!Inicio \in [1 .. L + 1 -> 0 .. Memory_Size]
    BY <1>3 DEF M!Bordes
  <2>3. M!Inicio[i] \in 0 .. Memory_Size
    BY <2>1, <2>2
  <2>. QED
    BY <2>3
<1>5. ASSUME NEW i \in 1 .. L
      PROVE  /\ TablaInicial[i] \in M!Particion
             /\ TablaInicial[i].IsFree /\ TablaInicial[i].Size = P[i]
  <2> DEFINE b == M!Inicio[i]
             z == P[i]
             t == M!ParticionLibre(b, z)
  <2>1. TablaInicial[i] = t
    BY <1>5 DEF TablaInicial
  <2>2. b \in Nat /\ z \in Nat
    BY <1>1, <1>2, <1>4, ElementOfSeq
  <2> HIDE DEF b, z
  <2>3. b + z - 1 \in Int
    BY <2>2
  <2>4. t \in M!Particion /\ t.IsFree /\ t.Size = z
    BY <2>2, <2>3 DEF M!Particion, M!ParticionLibre
  <2> HIDE DEF t
  <2>. QED
    BY <2>1, <2>4 DEF z
<1>6. TablaInicial \in [1 .. L -> M!Particion]
  <2>1. TablaInicial = [i \in 1 .. L |-> TablaInicial[i]]
    BY DEF TablaInicial
  <2>. QED
    BY <1>5, <2>1
<1>7. TablaInicial \in Seq(M!Particion)
  BY <1>2, <1>6, SeqDef
<1>. QED
  BY <1>2, <1>5, <1>6, <1>7

\* A partition that is given to p stays a partition, and is of p.
LEMMA OcupadaBien ==
    ASSUME NEW x \in M!Particion, NEW p \in Nat, NEW z \in Nat
    PROVE  /\ M!Ocupada(x, p, z) \in M!Particion
           /\ ~M!Ocupada(x, p, z).IsFree
           /\ M!Ocupada(x, p, z).PID = p /\ M!Ocupada(x, p, z).Size = z
<1>1. p \in Int
  OBVIOUS
<1>. QED
  BY <1>1 DEF M!Ocupada, M!Particion

\* A partition that is released stays a partition.
LEMMA LiberadaBien ==
    ASSUME NEW x \in M!Particion
    PROVE  M!Liberada(x) \in M!Particion
<1>1. -1 \in Int
  OBVIOUS
<1> DEFINE menosUno == -1
<1>2. M!Liberada(x) = [x EXCEPT !.IsFree = TRUE, !.PID = menosUno]
  BY DEF M!Liberada
<1>3. menosUno \in Int
  OBVIOUS
<1> HIDE DEF menosUno
<1>. QED
  BY <1>2, <1>3 DEF M!Particion

\* createProceso of memoria: the new process gets a partition that holds what
\* it asked for and no other process loses its own.
LEMMA AlojarConserva ==
    ASSUME particiones \in Seq(M!Particion), NEW p \in Nat, NEW size \in Nat,
           Aloja(p, size)
    PROVE  /\ particiones' \in Seq(M!Particion)
           /\ Conserva(particiones', particiones)
           /\ \E j \in DOMAIN particiones' :
                  /\ ~particiones'[j].IsFree /\ particiones'[j].PID = p
                  /\ particiones'[j].Size >= size
<1>1. PICK i \in DOMAIN particiones :
         M!Elige(i, size) /\ particiones' = M!Asignada(i, p, size)
  BY DEF Aloja
<1> DEFINE s == particiones
           x == particiones[i]
           D == DOMAIN particiones
           L == Len(particiones)
<1>2. L \in Nat /\ D = 1 .. L /\ s \in [D -> M!Particion]
  BY LenProperties
<1>3. x \in M!Particion /\ x.IsFree /\ x.Size \in Nat /\ x.Size >= size
  <2>1. x \in M!Particion
    BY <1>2
  <2>. QED
    BY <1>1, <2>1 DEF M!Elige, M!Huecos, M!Particion
<1>4. i \in D
  BY <1>1
<1>5. CASE M!Parte(i, size)
  <2> DEFINE o == M!Ocupada(x, p, size)
             e == M!nuevaParticion(i, size)
             t == [s EXCEPT ![i] = o]
             r == InsertAt(t, i + 1, e)
  <2>1. particiones' = r
    BY <1>1, <1>5 DEF M!Asignada, M!InsertAt, InsertAt
  <2>2. o \in M!Particion /\ ~o.IsFree /\ o.PID = p /\ o.Size = size
    <3> HIDE DEF x
    <3>. QED
      BY <1>3, OcupadaBien
  <2>3. e \in M!Particion
    <3>0. x.Base \in Nat
      BY <1>3 DEF M!Particion
    <3>1. /\ x.Base + size \in Nat /\ x.Size - size \in Nat
          /\ x.Base + x.Size - size - 1 \in Int /\ 0 \in Int
      <4> HIDE DEF x
      <4>. QED
        BY <1>3, <3>0
    <3> DEFINE b == x.Base + size
               z == x.Size - size
               l == x.Base + x.Size - size - 1
    <3>2. e = [Base |-> b, Size |-> z, IsFree |-> TRUE, Limit |-> l, PID |-> 0]
      BY DEF M!nuevaParticion
    <3>3. b \in Nat /\ z \in Nat /\ l \in Int
      BY <3>1
    <3> HIDE DEF b, z, l, e
    <3>. QED
      BY <3>2, <3>3 DEF M!Particion
  <2> HIDE DEF o, e
  <2>4. t \in [D -> M!Particion] /\ t[i] = o /\ \A j \in D : j # i => t[j] = s[j]
    BY <1>2, <1>4, <2>2
  <2> HIDE DEF t
  <2>5. t \in Seq(M!Particion) /\ Len(t) = L
    <3>1. t \in Seq(M!Particion)
      BY <1>2, <2>4, SeqDef
    <3>. QED
      BY <1>2, <2>4, <3>1, LenProperties
  <2>6. i + 1 \in 1 .. Len(t) + 1
    BY <1>2, <1>4, <2>5
  <2>7. EsInsercion(M!Particion, r, t, i + 1, e)
    BY <2>3, <2>5, <2>6, InsertAtPropiedades
  <2> HIDE DEF r
  <2>8. /\ r \in Seq(M!Particion) /\ Len(r) = L + 1
        /\ \A j \in 1 .. L : j < i + 1 => r[j] = t[j]
        /\ \A j \in 1 .. L : j >= i + 1 => r[j + 1] = t[j]
    BY <2>5, <2>7 DEF EsInsercion
  <2>9. DOMAIN r = 1 .. L + 1
    BY <2>8, LenProperties
  <2>10. i \in DOMAIN r /\ r[i] = o
    BY <1>2, <1>4, <2>4, <2>8, <2>9
  <2>11. ASSUME NEW j \in D, ~s[j].IsFree PROVE \E h \in DOMAIN r : r[h] = s[j]
    <3>1. j # i /\ t[j] = s[j] /\ j \in 1 .. L /\ i \in 1 .. L
      BY <1>2, <1>3, <1>4, <2>4, <2>11
    <3>2. CASE j < i
      <4>1. j \in DOMAIN r /\ j < i + 1
        BY <1>2, <2>9, <3>1, <3>2
      <4>. QED
        BY <2>8, <3>1, <4>1
    <3>3. CASE j > i
      <4>1. j + 1 \in DOMAIN r /\ j >= i + 1
        BY <1>2, <2>9, <3>1, <3>3
      <4>. QED
        BY <2>8, <3>1, <4>1
    <3>. QED
      BY <1>2, <3>1, <3>2, <3>3
  <2>12. o.Size >= size
    BY <2>2
  <2>. QED
    BY <2>1, <2>2, <2>8, <2>10, <2>11, <2>12 DEF Conserva
<1>6. CASE ~M!Parte(i, size)
  <2> DEFINE o == M!Ocupada(x, p, x.Size)
             t == [s EXCEPT ![i] = o]
  <2>1. particiones' = t
    BY <1>1, <1>6 DEF M!Asignada
  <2>2. o \in M!Particion /\ ~o.IsFree /\ o.PID = p /\ o.Size >= size
    <3> HIDE DEF x
    <3>1. PICK z \in Nat : z = x.Size
      BY <1>3
    <3>2. o = M!Ocupada(x, p, z)
      BY <3>1
    <3>3. x \in M!Particion
      BY <1>3
    <3> HIDE DEF o
    <3>4. o \in M!Particion /\ ~o.IsFree /\ o.PID = p /\ o.Size = z
      BY <3>2, <3>3, OcupadaBien
    <3> HIDE DEF o
    <3>. QED
      BY <1>3, <3>1, <3>4
  <2> HIDE DEF o
  <2>3. t \in [D -> M!Particion] /\ t[i] = o /\ \A j \in D : j # i => t[j] = s[j]
    BY <1>2, <1>4, <2>2
  <2> HIDE DEF t
  <2>4. t \in Seq(M!Particion) /\ DOMAIN t = D
    BY <1>2, <2>3, SeqDef
  <2>5. ASSUME NEW j \in D, ~s[j].IsFree PROVE \E h \in DOMAIN t : t[h] = s[j]
    <3>1. j # i
      BY <1>3, <2>5
    <3>. QED
      BY <2>3, <2>4, <3>1
  <2>. QED
    BY <1>4, <2>1, <2>2, <2>3, <2>4, <2>5 DEF Conserva
<1>. QED
  BY <1>5, <1>6

\* finalizarProceso of memoria takes a partition from nobody else.
LEMMA LiberarConserva ==
    ASSUME particiones \in Seq(M!Particion), NEW p, Libera(p)
    PROVE  /\ particiones' \in Seq(M!Particion)
           /\ \A i \in DOMAIN particiones :
                  ~particiones[i].IsFree /\ particiones[i].PID # p =>
                      \E j \in DOMAIN particiones' : particiones'[j] = particiones[i]
<1>1. CASE UNCHANGED particiones
  BY <1>1
<1>2. CASE \E i \in DOMAIN particiones :
              /\ M!EsPrimera(i, p)
              /\ particiones' =
                    ConsolidarMemoria([particiones EXCEPT ![i] = M!Liberada(@)])
  <2>1. PICK i \in DOMAIN particiones :
              /\ M!EsPrimera(i, p)
              /\ particiones' =
                    ConsolidarMemoria([particiones EXCEPT ![i] = M!Liberada(@)])
    BY <1>2
  <2> DEFINE s == particiones
             D == DOMAIN particiones
             o == M!Liberada(particiones[i])
             t == [s EXCEPT ![i] = o]
  <2>2. /\ D = 1 .. Len(s) /\ Len(s) \in Nat /\ s \in [D -> M!Particion] /\ i \in D
        /\ s[i] \in M!Particion /\ s[i].PID = p
    <3>1. s[i].PID = p
      BY <2>1 DEF M!EsPrimera, M!DePid
    <3>. QED
      BY <3>1, LenProperties
  <2>3. o \in M!Particion
    BY <2>2, LiberadaBien
  <2>4. particiones' = ConsolidarMemoria(t)
    BY <2>1
  <2> HIDE DEF o
  <2>5. t \in [D -> M!Particion] /\ \A j \in D : j # i => t[j] = s[j]
    BY <2>2, <2>3
  <2> HIDE DEF t
  <2>6. t \in Seq(M!Particion) /\ DOMAIN t = D
    BY <2>2, <2>5, SeqDef
  <2>7. /\ particiones' \in Seq(M!Particion)
        /\ Conserva(particiones', t)
    BY <2>4, <2>6, ConsolidarConserva
  <2>8. ASSUME NEW j \in D, ~s[j].IsFree, s[j].PID # p
        PROVE  \E h \in DOMAIN particiones' : particiones'[h] = s[j]
    <3>1. j # i /\ t[j] = s[j] /\ j \in DOMAIN t
      BY <2>2, <2>5, <2>6, <2>8
    <3>. QED
      BY <2>7, <2>8, <3>1 DEF Conserva
  <2>. QED
    BY <2>7, <2>8
<1>. QED
  BY <1>1, <1>2 DEF Libera

-----------------------------------------------------------------------------
(***************************************************************************)
(* Who waits has no hole and who runs has its partition: the memory and    *)
(* the queues together.                                                    *)
(***************************************************************************)

ITabla ==
    /\ particiones \in Seq(M!Particion)
    /\ paso = "inicio" => particiones = TablaInicial
    /\ perdidas \in 0 .. MaxPerdidas

\* The holes of table t where z bytes fit.
HuecosDe(t, z) == {i \in DOMAIN t : t[i].IsFree /\ t[i].Size >= z}

\* Between two calls the first of the line was refused with the table as it is.
SinHuecoElPrimero ==
    paso \in {"libre", "listo"} /\ perdidas = 0 =>
        \A q \in 0 .. PCB_ID :
            cola_new = <<q>> => HuecosDe(particiones, pedido[q].SizeProceso) = {}

\* In table t process p has z bytes.
Tiene(t, p, z) ==
    \E i \in DOMAIN t : t[i].PID = p /\ ~t[i].IsFree /\ t[i].Size >= z

CadaUnoTiene ==
    \A p \in DOMAIN cargados :
        perdidas = 0 /\ (p # 0 \/ Cabe(pedido[0].SizeProceso)) =>
            Tiene(particiones, p, pedido[p].SizeProceso)

IMemoria == ITabla /\ SinHuecoElPrimero /\ CadaUnoTiene

\* The request at the head is the one of the PCB that is being admitted.
LEMMA PideElPrimero ==
    ASSUME IFila, paso = "memoria"
    PROVE  /\ nuevoPCB \in 0 .. PCB_ID /\ nuevoPCB \in Nat /\ nuevoPCB \in Pids
           /\ EnEspera # <<>> /\ Head(EnEspera) = nuevoPCB
           /\ procesToCreate = pedido[nuevoPCB]
           /\ procesToCreate.SizeProceso \in Nat
<1>1. /\ nuevoPCB \in 0 .. PCB_ID /\ PCB_ID \in -1 .. MaxPid
      /\ cola_procesosToCreate \in Seq(Proceso) /\ cola_newAux \in Seq(0 .. PCB_ID)
  BY DEF IFila, Tipos, Turnos
<1>2. EnEspera \in Seq(0 .. PCB_ID) /\ EnEspera = <<nuevoPCB>> \o cola_newAux
  BY Forma
<1>3. EnEspera # <<>> /\ Head(EnEspera) = nuevoPCB
  BY <1>1, <1>2, AlFrente
<1>4. Pareja(cola_procesosToCreate, EnEspera, pedido)
  BY Emparejadas DEF IFila
<1>5. procesToCreate = pedido[nuevoPCB] /\ procesToCreate \in Proceso
  <2> DEFINE c == cola_procesosToCreate
             e == EnEspera
  <2>1. c \in Seq(Proceso) /\ e \in Seq(0 .. PCB_ID) /\ e # <<>> /\ Pareja(c, e, pedido)
    BY <1>1, <1>2, <1>3, <1>4
  <2> HIDE DEF c, e
  <2>2. Head(c) = pedido[Head(e)] /\ Head(c) \in Proceso
    BY <2>1, ParejaAlSalir
  <2>. QED
    BY <1>3, <2>2 DEF procesToCreate, c, e
<1>6. procesToCreate.SizeProceso \in Nat
  BY <1>5, AjustesDeAdmision DEF Proceso
<1>. QED
  BY <1>1, <1>3, <1>5, <1>6, AjustesDeAdmision DEF Pids

\* A process keeps its partition while the table keeps the occupied ones.
LEMMA SigueTeniendo ==
    ASSUME NEW t, NEW r, NEW p, NEW z, Tiene(t, p, z),
           \A i \in DOMAIN t :
               ~t[i].IsFree /\ t[i].PID = p => \E j \in DOMAIN r : r[j] = t[i]
    PROVE  Tiene(r, p, z)
BY DEF Tiene

\* A step that adds nobody to those that run and lets the table keep what is
\* occupied by those that stay.
LEMMA NadieEntra ==
    ASSUME CadaUnoTiene, DOMAIN cargados' \subseteq DOMAIN cargados,
           perdidas' = 0 => perdidas = 0,
           DOMAIN cargados \subseteq 0 .. PCB_ID, PCB_ID \in Int,
           \A q \in 0 .. PCB_ID : pedido'[q] = pedido[q],
           \A i \in DOMAIN particiones :
               ~particiones[i].IsFree /\ particiones[i].PID \in DOMAIN cargados' =>
                   \E j \in DOMAIN particiones' : particiones'[j] = particiones[i]
    PROVE  CadaUnoTiene'
<1>1. SUFFICES ASSUME NEW p \in DOMAIN cargados', perdidas' = 0,
                      p # 0 \/ Cabe(pedido'[0].SizeProceso)
               PROVE  Tiene(particiones', p, pedido'[p].SizeProceso)
  BY DEF CadaUnoTiene, Cabe
<1>2. p \in DOMAIN cargados /\ p \in 0 .. PCB_ID /\ perdidas = 0
  BY <1>1
<1>3. 0 \in 0 .. PCB_ID
  BY <1>2
<1>4. pedido'[0] = pedido[0] /\ pedido'[p] = pedido[p]
  BY <1>2, <1>3
<1>5. Tiene(particiones, p, pedido[p].SizeProceso)
  BY <1>1, <1>2, <1>4 DEF CadaUnoTiene
<1>. QED
  BY <1>1, <1>4, <1>5, SigueTeniendo

\* The kernel starts with the table as InicializarMemoria left it.
LEMMA MemoriaAlInicio == Init => IMemoria
<1>1. SUFFICES ASSUME Init PROVE IMemoria
  OBVIOUS
<1>2. particiones = TablaInicial /\ paso = "inicio" /\ perdidas = 0 /\ cargados = <<>>
  BY <1>1 DEF Init, TablaInicial
<1>3. ITabla
  BY <1>2, TablaInicialBien, AjustesDeAdmision DEF ITabla
<1>4. SinHuecoElPrimero
  BY <1>2 DEF SinHuecoElPrimero
<1>5. DOMAIN <<>> = {}
  OBVIOUS
<1>6. CadaUnoTiene
  BY <1>2, <1>5 DEF CadaUnoTiene
<1>. QED
  BY <1>3, <1>4, <1>6 DEF IMemoria

\* The first process has a partition, or memoria had none for it.
LEMMA MemoriaInicial ==
    ASSUME IFila, IMemoria, NEW size \in Iniciales, CreateProcesoHiloInicial(size)
    PROVE  IMemoria'
<1> DEFINE x == [RutaArchivo |-> 0, SizeProceso |-> size]
<1>1. /\ paso = "inicio" /\ PCB_ID = -1 /\ cola_new = <<>>
  BY DEF IFila, Turnos, CreateProcesoHiloInicial
<1>2. /\ cargados' = Con(cargados, 0, x) /\ pedido' = Con(pedido, 0, x)
      /\ paso' = "libre" /\ cola_new' = <<>> /\ perdidas' = perdidas
      /\ Aloja(0, size) \/ Rechaza(size)
  BY <1>1 DEF CreateProcesoHiloInicial, colas
<1>3. size \in Nat /\ x.SizeProceso = size
  BY AjustesDeAdmision
<1> HIDE DEF x
<1>4. DOMAIN cargados = {}
  <2>1. 0 .. -1 = {}
    OBVIOUS
  <2>. QED
    BY <1>1, <2>1 DEF IFila, Tipos
<1>5. DOMAIN cargados' = {0} /\ pedido'[0] = x
  BY <1>2, <1>4 DEF Con
<1>6. particiones = TablaInicial /\ particiones \in Seq(M!Particion)
  BY <1>1 DEF IMemoria, ITabla
<1>7. particiones' \in Seq(M!Particion)
  BY <1>2, <1>3, <1>6, AlojarConserva DEF Rechaza
<1>8. ITabla'
  BY <1>2, <1>7 DEF IMemoria, ITabla
<1>9. SinHuecoElPrimero'
  <2>1. \A q : cola_new' # <<q>>
    BY <1>2
  <2>. QED
    BY <2>1 DEF SinHuecoElPrimero
<1>10. CASE Aloja(0, size)
  <2>1. \E j \in DOMAIN particiones' :
          /\ ~particiones'[j].IsFree /\ particiones'[j].PID = 0
          /\ particiones'[j].Size >= size
    BY <1>3, <1>6, <1>10, AlojarConserva
  <2>2. Tiene(particiones', 0, pedido'[0].SizeProceso)
    BY <1>3, <1>5, <2>1 DEF Tiene
  <2>3. CadaUnoTiene'
    BY <1>5, <2>2 DEF CadaUnoTiene
  <2>. QED
    BY <1>8, <1>9, <2>3 DEF IMemoria
<1>11. CASE Rechaza(size)
  <2>1. ~Cabe(size)
    <3>1. SUFFICES ASSUME Cabe(size) PROVE FALSE
      OBVIOUS
    <3>2. PICK i \in DOMAIN M!Particionado : size <= M!Particionado[i]
      BY <3>1 DEF Cabe
    <3>3. /\ i \in DOMAIN particiones /\ particiones[i].IsFree
          /\ particiones[i].Size = M!Particionado[i]
      BY <1>6, TablaInicialBien
    <3>4. particiones[i].Size \in Int
      <4>1. particiones[i] \in M!Particion
        BY <1>6, <3>3, LenProperties
      <4>. QED
        BY <4>1 DEF M!Particion
    <3>5. particiones[i].Size >= size
      BY <1>3, <3>2, <3>3, <3>4
    <3>6. i \in M!Huecos(size)
      BY <3>3, <3>5 DEF M!Huecos
    <3>. QED
      BY <1>11, <3>6 DEF Rechaza
  <2>2. CadaUnoTiene'
    BY <1>3, <1>5, <2>1 DEF CadaUnoTiene, Cabe
  <2>. QED
    BY <1>8, <1>9, <2>2 DEF IMemoria
<1>. QED
  BY <1>2, <1>10, <1>11

\* The first of the line is asked for, or the table does not matter.
LEMMA MemoriaAlCrear ==
    ASSUME IFila, IMemoria, NEW size \in Tamanos, createProceso(size)
    PROVE  IMemoria'
<1> DEFINE p == PCB_ID + 1
           x == [RutaArchivo |-> p, SizeProceso |-> size]
<1>1. /\ paso = "libre" /\ PCB_ID' = p /\ pedido' = Con(pedido, p, x)
      /\ cargados' = cargados /\ particiones' = particiones /\ perdidas' = perdidas
  BY DEF createProceso
<1>2. \/ paso' = "memoria"
      \/ cola_new # <<>> /\ paso' = paso /\ cola_new' = cola_new
  BY DEF createProceso, Inicializa, Encola
<1>3. /\ PCB_ID \in Int /\ DOMAIN cargados \subseteq 0 .. PCB_ID
      /\ pedido \in [0 .. PCB_ID -> Proceso]
  BY DEF IFila, Tipos
<1>4. \A q \in 0 .. PCB_ID : pedido'[q] = pedido[q]
  BY <1>1, <1>3 DEF Con
<1>5. ITabla'
  BY <1>1, <1>2 DEF IMemoria, ITabla
<1>6. CadaUnoTiene'
  BY <1>1, <1>3, <1>4, NadieEntra DEF IMemoria
<1>7. SinHuecoElPrimero'
  <2>1. SUFFICES ASSUME paso' \in {"libre", "listo"}, perdidas' = 0,
                        NEW q \in 0 .. PCB_ID', cola_new' = <<q>>
                 PROVE  HuecosDe(particiones', pedido'[q].SizeProceso) = {}
    BY DEF SinHuecoElPrimero
  <2>2. cola_new = <<q>> /\ paso' = paso
    BY <1>2, <2>1
  <2>3. q \in 0 .. PCB_ID
    <3>1. \E r \in 0 .. PCB_ID : cola_new = <<r>>
      BY <1>1, <2>2 DEF IFila, Turnos
    <3>. QED
      BY <2>2, <3>1
  <2>4. HuecosDe(particiones, pedido[q].SizeProceso) = {}
    BY <1>1, <2>1, <2>2, <2>3 DEF IMemoria, SinHuecoElPrimero
  <2>. QED
    BY <1>1, <1>4, <2>3, <2>4
<1>. QED
  BY <1>5, <1>6, <1>7 DEF IMemoria

\* Who is admitted has its partition, and nobody else loses one.
LEMMA MemoriaAlAdmitir ==
    ASSUME IFila, IMemoria, Creado
    PROVE  IMemoria'
<1> DEFINE n == nuevoPCB
           z == procesToCreate.SizeProceso
<1>1. /\ paso = "memoria" /\ Aloja(n, z) /\ cargados' = Con(cargados, n, procesToCreate)
      /\ cola_new' = <<>> /\ UNCHANGED <<PCB_ID, pedido, perdidas>>
      /\ paso' \in {"memoria", "listo"}
  BY DEF Creado, SigueOTermina, Inicializa
<1>2. n \in Nat /\ procesToCreate = pedido[n] /\ z \in Nat
  BY <1>1, PideElPrimero
<1> HIDE DEF n
<1>3. /\ particiones' \in Seq(M!Particion)
      /\ Conserva(particiones', particiones)
      /\ \E j \in DOMAIN particiones' :
             /\ ~particiones'[j].IsFree /\ particiones'[j].PID = n
             /\ particiones'[j].Size >= z
  BY <1>1, <1>2, AlojarConserva DEF IMemoria, ITabla
<1>4. ITabla'
  BY <1>1, <1>3 DEF IMemoria, ITabla
<1>5. SinHuecoElPrimero'
  <2>1. \A q : cola_new' # <<q>>
    BY <1>1
  <2>. QED
    BY <2>1 DEF SinHuecoElPrimero
<1>6. Tiene(particiones', n, pedido'[n].SizeProceso)
  BY <1>1, <1>2, <1>3 DEF Tiene
<1>7. DOMAIN cargados' = DOMAIN cargados \cup {n}
  BY <1>1 DEF Con
<1>8. CadaUnoTiene'
  <2>1. SUFFICES ASSUME NEW p \in DOMAIN cargados', p # n, perdidas' = 0,
                        p # 0 \/ Cabe(pedido'[0].SizeProceso)
                 PROVE  Tiene(particiones', p, pedido'[p].SizeProceso)
    BY <1>6 DEF CadaUnoTiene, Cabe
  <2>2. Tiene(particiones, p, pedido[p].SizeProceso)
    BY <1>1, <1>7, <2>1 DEF IMemoria, CadaUnoTiene
  <2>. QED
    BY <1>1, <1>3, <2>2, SigueTeniendo DEF Conserva
<1>. QED
  BY <1>4, <1>5, <1>8 DEF IMemoria

\* Who is refused waits with no hole that fits.
LEMMA MemoriaAlRechazar ==
    ASSUME IFila, IMemoria, NoCreado
    PROVE  IMemoria'
<1>1. /\ paso = "memoria" /\ Rechaza(procesToCreate.SizeProceso) /\ SigueEnNew
      /\ perdidas' = perdidas
  BY DEF NoCreado
<1>2. /\ paso' = "listo" /\ particiones' = particiones
      /\ UNCHANGED <<PCB_ID, pedido, cargados>>
      /\ HuecosDe(particiones, procesToCreate.SizeProceso) = {}
  BY <1>1 DEF SigueEnNew, Rechaza, M!Huecos, HuecosDe
<1>3. cola_new' = <<nuevoPCB>> /\ procesToCreate = pedido[nuevoPCB]
  BY <1>1, PasoDeSigueEnNew, PideElPrimero
<1>4. ITabla'
  BY <1>1, <1>2 DEF IMemoria, ITabla
<1>5. PCB_ID \in Int /\ DOMAIN cargados \subseteq 0 .. PCB_ID
  BY DEF IFila, Tipos
<1>6. CadaUnoTiene'
  BY <1>1, <1>2, <1>5, NadieEntra DEF IMemoria
<1>7. SinHuecoElPrimero'
  <2>1. SUFFICES ASSUME NEW q, cola_new' = <<q>>
                 PROVE  HuecosDe(particiones', pedido'[q].SizeProceso) = {}
    BY DEF SinHuecoElPrimero
  <2>2. q = nuevoPCB
    BY <1>3, <2>1
  <2>. QED
    BY <1>2, <1>3, <2>2
<1>. QED
  BY <1>4, <1>6, <1>7 DEF IMemoria

\* After a lost reply nothing is said of the table but its shape.
LEMMA MemoriaConPerdida ==
    ASSUME IFila, IMemoria, RespuestaPerdida \/ \E p \in Pids : FinPerdido(p)
    PROVE  IMemoria'
<1>1. perdidas \in Nat /\ MaxPerdidas \in Nat
  BY AjustesDeAdmision DEF IMemoria, ITabla
<1>2. perdidas' = perdidas + 1 /\ perdidas < MaxPerdidas
  BY DEF RespuestaPerdida, FinPerdido
<1>3. perdidas' \in 0 .. MaxPerdidas /\ perdidas' # 0
  BY <1>1, <1>2
<1>4. paso' # "inicio" /\ particiones' \in Seq(M!Particion)
  <2>1. CASE RespuestaPerdida
    <3>1. paso = "memoria" /\ Aloja(nuevoPCB, procesToCreate.SizeProceso) /\ paso' = "listo"
      BY <2>1 DEF RespuestaPerdida, SigueEnNew
    <3>. QED
      BY <3>1, PideElPrimero, AlojarConserva DEF IMemoria, ITabla
  <2>2. CASE \E p \in Pids : FinPerdido(p)
    <3>1. PICK p \in Pids : FinPerdido(p)
      BY <2>2
    <3>2. paso = "libre" /\ paso' = paso /\ Libera(p)
      BY <3>1 DEF FinPerdido
    <3>. QED
      BY <3>2, LiberarConserva DEF IMemoria, ITabla
  <2>. QED
    BY <2>1, <2>2
<1>. QED
  BY <1>3, <1>4 DEF IMemoria, ITabla, SinHuecoElPrimero, CadaUnoTiene

\* Who ends takes no partition but its own, and who waits is asked for.
LEMMA MemoriaAlFinalizar ==
    ASSUME IFila, IMemoria, NEW p \in Pids, finalizarProceso(p)
    PROVE  IMemoria'
<1>1. /\ paso = "libre" /\ Libera(p) /\ cargados' = Sin(cargados, p)
      /\ UNCHANGED <<PCB_ID, pedido, perdidas, cola_new>>
  BY DEF finalizarProceso, colas
<1>2. paso' = "memoria" \/ (cola_new = <<>> /\ paso' = paso)
  BY DEF finalizarProceso, Inicializa
<1>3. PCB_ID \in Int /\ DOMAIN cargados \subseteq 0 .. PCB_ID
  BY DEF IFila, Tipos
<1>4. /\ particiones' \in Seq(M!Particion)
      /\ \A i \in DOMAIN particiones :
             ~particiones[i].IsFree /\ particiones[i].PID # p =>
                 \E j \in DOMAIN particiones' : particiones'[j] = particiones[i]
  BY <1>1, LiberarConserva DEF IMemoria, ITabla
<1>5. ITabla'
  BY <1>1, <1>2, <1>4 DEF IMemoria, ITabla
<1>6. SinHuecoElPrimero'
  <2>1. \A q : <<>> # <<q>>
    OBVIOUS
  <2>. QED
    BY <1>1, <1>2, <2>1 DEF SinHuecoElPrimero
<1>7. DOMAIN cargados' = DOMAIN cargados \ {p}
  BY <1>1 DEF Sin
<1>8. CadaUnoTiene'
  BY <1>1, <1>3, <1>4, <1>7, NadieEntra DEF IMemoria
<1>. QED
  BY <1>5, <1>6, <1>8 DEF IMemoria

\* createProceso answers, or nothing happens.
LEMMA MemoriaQuieta ==
    ASSUME IFila, IMemoria, Responde \/ UNCHANGED vars
    PROVE  IMemoria'
<1>1. /\ UNCHANGED <<PCB_ID, pedido, cargados, particiones, perdidas, cola_new>>
      /\ paso' = paso \/ (paso = "listo" /\ paso' = "libre")
  BY DEF Responde, vars, colas
<1>2. PCB_ID \in Int /\ DOMAIN cargados \subseteq 0 .. PCB_ID
  BY DEF IFila, Tipos
<1>3. ITabla'
  BY <1>1 DEF IMemoria, ITabla
<1>4. SinHuecoElPrimero'
  BY <1>1 DEF IMemoria, SinHuecoElPrimero
<1>5. CadaUnoTiene'
  BY <1>1, <1>2, NadieEntra DEF IMemoria
<1>. QED
  BY <1>3, <1>4, <1>5 DEF IMemoria

\* IFila and IMemoria are inductive together.
THEOREM MemoriaEnPie == Spec => []IMemoria
<1>1. Init => IMemoria
  BY MemoriaAlInicio
<1>2. IFila /\ IMemoria /\ [Next]_vars => IMemoria'
  BY MemoriaInicial, MemoriaAlCrear, MemoriaAlAdmitir, MemoriaAlRechazar,
     MemoriaConPerdida, MemoriaAlFinalizar, MemoriaQuieta DEF Next, Handler
<1>. QED
  BY <1>1, <1>2, FilaEnPie, PTL DEF Spec

-----------------------------------------------------------------------------
(***************************************************************************)
(* PCBS against the line and those that run.                               *)
(***************************************************************************)

UnPCB == [ID : Pids, TIDS : {<<>>, <<0>>}]

\* s has one PCB for each of ps, and those of cs have their first thread.
AlDia(s, ps, cs) ==
    /\ s \in Seq(UnPCB)
    /\ \A i, j \in DOMAIN s : s[i].ID = s[j].ID => i = j
    /\ \A i \in DOMAIN s : s[i].ID \in ps
    /\ \A q \in ps : \E i \in DOMAIN s : s[i].ID = q
    /\ \A i \in DOMAIN s : s[i].TIDS = <<0>> <=> s[i].ID \in cs

\* A PCB is appended for a process that had none.
LEMMA AlDiaConNuevo ==
    ASSUME NEW s, NEW ps, NEW cs, NEW x \in UnPCB, AlDia(s, ps, cs), x.ID \notin ps,
           x.TIDS = << 0 >> <=> x.ID \in cs
    PROVE  AlDia(Append(s, x), ps \cup {x.ID}, cs)
<1> DEFINE t == Append(s, x)
<1>1. s \in Seq(UnPCB)
  BY DEF AlDia
<1>2. Len(s) \in Nat /\ DOMAIN s = 1 .. Len(s)
  BY <1>1, LenProperties
<1>3. /\ t \in Seq(UnPCB) /\ Len(t) = Len(s) + 1
      /\ \A i \in 1 .. Len(s) : t[i] = s[i]
      /\ t[Len(s) + 1] = x
  BY <1>1, AppendProperties
<1> HIDE DEF t
<1>4. DOMAIN t = 1 .. Len(s) + 1
  BY <1>3, LenProperties
<1>5. \A i \in DOMAIN t : i = Len(s) + 1 \/ (i \in DOMAIN s /\ t[i] = s[i])
  BY <1>2, <1>3, <1>4
<1>6. Len(s) + 1 \in DOMAIN t /\ \A i \in DOMAIN s : i \in DOMAIN t /\ t[i] = s[i]
  BY <1>2, <1>3, <1>4
<1>7. \A i \in DOMAIN s : s[i].ID # x.ID
  BY DEF AlDia
<1>8. \A i, j \in DOMAIN t : t[i].ID = t[j].ID => i = j
  BY <1>3, <1>5, <1>7 DEF AlDia
<1>9. \A i \in DOMAIN t : t[i].ID \in ps \cup {x.ID}
  BY <1>3, <1>5 DEF AlDia
<1>10. \A q \in ps \cup {x.ID} : \E i \in DOMAIN t : t[i].ID = q
  BY <1>3, <1>6 DEF AlDia
<1>11. \A i \in DOMAIN t : t[i].TIDS = <<0>> <=> t[i].ID \in cs
  BY <1>3, <1>5 DEF AlDia
<1>. QED
  BY <1>3, <1>8, <1>9, <1>10, <1>11 DEF AlDia, t

\* crearHilo gives n its first thread, if n has a PCB in PCBS already.
LEMMA AlDiaConHilo ==
    ASSUME NEW s, NEW ps, NEW cs, NEW n, AlDia(s, ps, cs), NEW t,
           t = [i \in DOMAIN s |-> IF s[i].ID = n THEN [s[i] EXCEPT !.TIDS = << 0 >>] ELSE s[i]]
    PROVE  AlDia(t, ps, cs \cup {n})
<1>1. s \in Seq(UnPCB)
  BY DEF AlDia
<1>2. Len(s) \in Nat /\ DOMAIN s = 1 .. Len(s) /\ s \in [DOMAIN s -> UnPCB] /\ DOMAIN t = DOMAIN s
  BY <1>1, LenProperties
<1>3. ASSUME NEW i \in DOMAIN s
      PROVE  /\ t[i] \in UnPCB /\ t[i].ID = s[i].ID
             /\ t[i].TIDS = IF s[i].ID = n THEN <<0>> ELSE s[i].TIDS
  <2> DEFINE y == s[i]
             u == <<0>>
  <2>1. y \in UnPCB
    BY <1>2
  <2>2. t[i] = IF y.ID = n THEN [y EXCEPT !.TIDS = u] ELSE y
    BY <1>3
  <2>3. u \in {<<>>, <<0>>}
    OBVIOUS
  <2> HIDE DEF y, u
  <2>4. /\ [y EXCEPT !.TIDS = u] \in UnPCB /\ [y EXCEPT !.TIDS = u].ID = y.ID
        /\ [y EXCEPT !.TIDS = u].TIDS = u
    BY <2>1, <2>3 DEF UnPCB
  <2>. QED
    BY <2>1, <2>2, <2>4 DEF y, u
<1>4. t \in Seq(UnPCB)
  <2>1. t = [i \in 1 .. Len(s) |-> t[i]]
    BY <1>2
  <2>2. t \in [1 .. Len(s) -> UnPCB]
    BY <1>2, <1>3, <2>1
  <2>. QED
    BY <1>2, <2>2, SeqDef
<1>5. \A i \in DOMAIN s : t[i].TIDS = <<0>> <=> t[i].ID \in cs \cup {n}
  BY <1>3 DEF AlDia
<1>. QED
  BY <1>2, <1>3, <1>4, <1>5 DEF AlDia

\* A PCB is taken out with its process.
LEMMA AlDiaSinUno ==
    ASSUME NEW s, NEW ps, NEW cs, AlDia(s, ps, cs), NEW h \in DOMAIN s
    PROVE  AlDia(RemoveAt(s, h), ps \ {s[h].ID}, cs \ {s[h].ID})
<1> DEFINE t == RemoveAt(s, h)
           p == s[h].ID
<1>1. s \in Seq(UnPCB)
  BY DEF AlDia
<1>2. Len(s) \in Nat /\ DOMAIN s = 1 .. Len(s)
  BY <1>1, LenProperties
<1>3. EsExtraccion(UnPCB, t, s, h)
  BY <1>1, <1>2, RemoveAtPropiedades
<1> HIDE DEF t
<1>4. /\ t \in Seq(UnPCB) /\ Len(t) = Len(s) - 1
      /\ \A j \in 1 .. Len(s) : j < h => t[j] = s[j]
      /\ \A j \in 1 .. Len(s) : j > h => t[j - 1] = s[j]
  BY <1>3 DEF EsExtraccion
<1>5. DOMAIN t = 1 .. Len(s) - 1
  BY <1>4, LenProperties
\* Where each element of t was in s.
<1> DEFINE Era(i) == IF i < h THEN i ELSE i + 1
<1>6. ASSUME NEW i \in DOMAIN t
      PROVE  Era(i) \in DOMAIN s /\ Era(i) # h /\ t[i] = s[Era(i)]
  <2>1. i \in Nat /\ h \in Nat /\ i \in 1 .. Len(s) - 1 /\ h \in 1 .. Len(s)
    BY <1>2, <1>5
  <2>2. CASE i < h
    BY <1>2, <1>4, <2>1, <2>2
  <2>3. CASE ~(i < h)
    <3>1. i + 1 \in 1 .. Len(s) /\ i + 1 > h /\ i + 1 - 1 = i
      BY <1>2, <2>1, <2>3
    <3>2. t[i + 1 - 1] = s[i + 1]
      BY <1>4, <3>1
    <3>. QED
      BY <1>2, <2>3, <3>1, <3>2
  <2>. QED
    BY <2>2, <2>3
<1>7. \A i, j \in DOMAIN t : Era(i) = Era(j) => i = j
  BY <1>2, <1>5
<1>8. ASSUME NEW i \in DOMAIN s, i # h
      PROVE  \E j \in DOMAIN t : t[j] = s[i]
  <2>1. CASE i < h
    BY <1>2, <1>4, <1>5, <2>1
  <2>2. CASE i > h
    <3>1. i - 1 \in DOMAIN t
      BY <1>2, <1>5, <2>2
    <3>. QED
      BY <1>2, <1>4, <2>2, <3>1
  <2>. QED
    BY <1>2, <1>8, <2>1, <2>2
<1> HIDE DEF Era, p
<1>9. \A i \in DOMAIN s : s[i].ID = p <=> i = h
  BY DEF AlDia, p
<1>10. \A i, j \in DOMAIN t : t[i].ID = t[j].ID => i = j
  BY <1>6, <1>7 DEF AlDia
<1>11. \A i \in DOMAIN t : t[i].ID \in ps \ {p}
  BY <1>6, <1>9 DEF AlDia
<1>12. \A q \in ps \ {p} : \E i \in DOMAIN t : t[i].ID = q
  <2>1. SUFFICES ASSUME NEW q \in ps \ {p} PROVE \E i \in DOMAIN t : t[i].ID = q
    OBVIOUS
  <2>2. PICK i \in DOMAIN s : s[i].ID = q
    BY DEF AlDia
  <2>3. i # h
    BY <1>9, <2>2
  <2>. QED
    BY <1>8, <2>2, <2>3
<1>13. \A i \in DOMAIN t : t[i].TIDS = <<0>> <=> t[i].ID \in cs \ {p}
  BY <1>6, <1>9 DEF AlDia
<1>. QED
  BY <1>4, <1>10, <1>11, <1>12, <1>13 DEF AlDia, t, p

\* There are as many PCBs as processes.
LEMMA AlDiaCuenta ==
    ASSUME NEW s, NEW ps, NEW cs, AlDia(s, ps, cs)
    PROVE  Len(s) = Cardinality(ps)
<1> DEFINE D == DOMAIN s
           f == [i \in D |-> s[i].ID]
<1>1. s \in Seq(UnPCB)
  BY DEF AlDia
<1>2. Len(s) \in Nat /\ D = 1 .. Len(s)
  BY <1>1, LenProperties
<1>3. IsFiniteSet(D) /\ Cardinality(D) = Len(s)
  <2>1. IsFiniteSet(1 .. Len(s)) /\ Cardinality(1 .. Len(s)) = IF 1 > Len(s) THEN 0 ELSE Len(s) - 1 + 1
    BY <1>2, FS_Interval
  <2>. QED
    BY <1>2, <2>1
<1>4. /\ f \in [D -> ps]
      /\ \A i, j \in D : f[i] = f[j] => i = j
      /\ \A q \in ps : \E i \in D : f[i] = q
  BY DEF AlDia
<1> HIDE DEF D, f
<1>5. ExistsBijection(D, ps)
  <2>1. f \in Bijection(D, ps)
    BY <1>4 DEF Bijection, Injection, Surjection, IsInjective
  <2>. QED
    BY <2>1 DEF ExistsBijection
<1>. QED
  BY <1>3, <1>5, FS_Bijection

Distintos(s) == \A i, j \in DOMAIN s : s[i] = s[j] => i = j

Presentes == Rango(EnEspera) \cup DOMAIN cargados

\* PCBS holds who waits or runs, but for the PCB that createProceso appends
\* when inicializarProceso is back; nobody waits twice, or waits and runs.
IDePCBS ==
    /\ Distintos(EnEspera)
    /\ Rango(EnEspera) \cap DOMAIN cargados = {}
    /\ porRegistrar = Ninguno \/
         (porRegistrar \in Presentes /\ paso \in {"memoria", "listo"})
    /\ AlDia(PCBS, Presentes \ {porRegistrar}, DOMAIN cargados)

\* Who arrives at the line was not in it.
LEMMA LlegaDistinto ==
    ASSUME NEW S, NEW s \in Seq(S), NEW y \in S, Distintos(s), y \notin Rango(s)
    PROVE  Distintos(Append(s, y)) /\ Rango(Append(s, y)) = Rango(s) \cup {y}
<1> DEFINE t == Append(s, y)
<1>1. /\ t \in Seq(S) /\ Len(t) = Len(s) + 1
      /\ \A i \in 1 .. Len(s) : t[i] = s[i]
      /\ t[Len(s) + 1] = y
  BY AppendProperties
<1> HIDE DEF t
<1>2. Len(s) \in Nat /\ DOMAIN s = 1 .. Len(s) /\ DOMAIN t = 1 .. Len(s) + 1
  BY <1>1, LenProperties
<1>3. \A i \in DOMAIN t : i = Len(s) + 1 \/ (i \in DOMAIN s /\ t[i] = s[i])
  BY <1>1, <1>2
<1>4. Len(s) + 1 \in DOMAIN t /\ \A i \in DOMAIN s : i \in DOMAIN t /\ t[i] = s[i]
  BY <1>1, <1>2
<1>5. \A i \in DOMAIN s : s[i] # y
  BY DEF Rango
<1>6. Distintos(t)
  BY <1>1, <1>3, <1>5 DEF Distintos
<1>7. Rango(t) = Rango(s) \cup {y}
  BY <1>1, <1>3, <1>4 DEF Rango
<1>. QED
  BY <1>6, <1>7 DEF t

\* Who leaves the line is not in it any more.
LEMMA SaleElPrimero ==
    ASSUME NEW S, NEW s \in Seq(S), s # <<>>, Distintos(s)
    PROVE  /\ Head(s) \in Rango(s)
           /\ Distintos(Tail(s)) /\ Rango(Tail(s)) = Rango(s) \ {Head(s)}
<1> DEFINE t == Tail(s)
<1>1. /\ t \in Seq(S) /\ Len(t) = Len(s) - 1
      /\ \A i \in 1 .. Len(t) : t[i] = s[i + 1]
  BY HeadTailProperties
<1>2. Len(s) \in Nat \ {0} /\ DOMAIN s = 1 .. Len(s) /\ Head(s) = s[1]
  BY EmptySeq, LenProperties
<1> HIDE DEF t
<1>3. DOMAIN t = 1 .. Len(s) - 1
  BY <1>1, LenProperties
<1>4. \A i \in DOMAIN t : i + 1 \in DOMAIN s /\ i + 1 # 1 /\ t[i] = s[i + 1]
  BY <1>1, <1>2, <1>3
<1>5. \A i \in DOMAIN s : i # 1 => i - 1 \in DOMAIN t /\ t[i - 1] = s[i]
  <2>1. ASSUME NEW i \in DOMAIN s, i # 1 PROVE i - 1 \in DOMAIN t /\ t[i - 1] = s[i]
    <3>1. i - 1 \in DOMAIN t /\ i - 1 + 1 = i
      BY <1>2, <1>3, <2>1
    <3>. QED
      BY <1>4, <3>1
  <2>. QED
    BY <2>1
<1>6. 1 \in DOMAIN s
  BY <1>2
<1>7. Distintos(t)
  <2>1. ASSUME NEW i \in DOMAIN t, NEW j \in DOMAIN t, t[i] = t[j] PROVE i = j
    <3>1. i + 1 = j + 1
      BY <1>4, <2>1 DEF Distintos
    <3>. QED
      BY <1>3, <3>1
  <2>. QED
    BY <2>1 DEF Distintos
<1>8. ASSUME NEW q \in Rango(t) PROVE q \in Rango(s) \ {s[1]}
  <2>1. PICK i \in DOMAIN t : t[i] = q
    BY <1>8 DEF Rango
  <2>2. i + 1 \in DOMAIN s /\ i + 1 # 1 /\ s[i + 1] = q
    BY <1>4, <2>1
  <2>. QED
    BY <1>6, <2>2 DEF Rango, Distintos
<1>9. ASSUME NEW q \in Rango(s), q # s[1] PROVE q \in Rango(t)
  <2>1. PICK i \in DOMAIN s : s[i] = q
    BY <1>9 DEF Rango
  <2>2. i # 1
    BY <1>9, <2>1
  <2>. QED
    BY <1>5, <2>1, <2>2 DEF Rango
<1>10. Head(s) \in Rango(s)
  BY <1>2, <1>6 DEF Rango
<1>. QED
  BY <1>2, <1>7, <1>8, <1>9, <1>10 DEF t

\* Who waits or runs has a PID that was given.
LEMMA PresentesDados ==
    ASSUME IFila
    PROVE  /\ Presentes \subseteq 0 .. PCB_ID /\ 0 .. PCB_ID \subseteq Pids
           /\ Ninguno \notin Presentes /\ PCB_ID + 1 \notin Presentes
           /\ EnEspera \in Seq(0 .. PCB_ID) /\ PCB_ID \in Int
<1>1. /\ EnEspera \in Seq(0 .. PCB_ID) /\ DOMAIN cargados \subseteq 0 .. PCB_ID
      /\ PCB_ID \in -1 .. MaxPid
  BY Forma DEF IFila, Tipos
<1>2. PCB_ID \in Int /\ MaxPid \in Nat /\ PCB_ID <= MaxPid
  BY <1>1, AjustesDeAdmision
<1>3. \A i \in DOMAIN EnEspera : EnEspera[i] \in 0 .. PCB_ID
  BY <1>1, ElementOfSeq, LenProperties
<1>4. Presentes \subseteq 0 .. PCB_ID
  BY <1>1, <1>3 DEF Presentes, Rango
<1>5. 0 .. PCB_ID \subseteq Pids
  BY <1>2 DEF Pids
<1>6. -1 \notin 0 .. PCB_ID /\ PCB_ID + 1 \notin 0 .. PCB_ID
  BY <1>2
<1>. QED
  BY <1>1, <1>2, <1>4, <1>5, <1>6 DEF Ninguno

\* Nobody waits or runs, and PCBS is empty.
LEMMA PCBSAlInicio == Init => IDePCBS
<1>1. SUFFICES ASSUME Init PROVE IDePCBS
  OBVIOUS
<1>2. /\ PCBS = <<>> /\ porRegistrar = Ninguno /\ DOMAIN cargados = {}
      /\ EnEspera = <<>>
  <2>1. DOMAIN <<>> = {}
    OBVIOUS
  <2>. QED
    BY <1>1, <2>1, EnEsperaEs, EsperaNadie DEF Init
<1>3. DOMAIN EnEspera = {} /\ DOMAIN PCBS = {} /\ PCBS \in Seq(UnPCB)
  BY <1>2, EmptySeq
<1>4. Rango(EnEspera) = {}
  BY <1>3 DEF Rango
<1>5. Presentes \ {porRegistrar} = {}
  BY <1>2, <1>4 DEF Presentes
<1>. QED
  BY <1>2, <1>3, <1>4, <1>5 DEF IDePCBS, AlDia, Distintos

\* The first process has its PCB and its thread.
LEMMA PCBSInicial ==
    ASSUME IFila, IDePCBS, NEW size \in Iniciales, CreateProcesoHiloInicial(size)
    PROVE  IDePCBS'
<1> DEFINE x == [ID |-> 0, TIDS |-> <<0>>]
<1>1. /\ paso = "inicio" /\ PCB_ID = -1 /\ EnEspera = <<>> /\ EnEspera' = <<>>
  BY PasoInicial DEF CreateProcesoHiloInicial, IFila, Turnos
<1>2. /\ PCBS' = Append(PCBS, x) /\ porRegistrar' = porRegistrar
      /\ DOMAIN cargados' = DOMAIN cargados \cup {0}
  BY <1>1 DEF CreateProcesoHiloInicial, Con
<1>3. porRegistrar = Ninguno
  BY <1>1 DEF IDePCBS
<1>4. Presentes = {} /\ DOMAIN cargados = {}
  <2>1. 0 .. -1 = {}
    OBVIOUS
  <2>. QED
    BY <1>1, <2>1, PresentesDados DEF Presentes
<1>5. AlDia(PCBS, {}, {0})
  BY <1>4 DEF IDePCBS, AlDia
<1>6. x \in UnPCB /\ x.ID = 0 /\ x.TIDS = <<0>>
  <2>1. 0 \in Pids
    BY AjustesDeAdmision DEF Pids
  <2>. QED
    BY <2>1 DEF UnPCB
<1> HIDE DEF x
<1>7. AlDia(PCBS', {0}, {0})
  <2>1. AlDia(Append(PCBS, x), {} \cup {x.ID}, {0})
    BY <1>5, <1>6, AlDiaConNuevo
  <2>2. {} \cup {x.ID} = {0}
    BY <1>6
  <2>. QED
    BY <1>2, <2>1, <2>2
<1>8. DOMAIN EnEspera' = {} /\ Rango(EnEspera') = {}
  <2>1. DOMAIN <<>> = {}
    OBVIOUS
  <2>. QED
    BY <1>1, <2>1 DEF Rango
<1>9. DOMAIN cargados' = {0} /\ Presentes' \ {porRegistrar'} = {0}
  BY <1>2, <1>3, <1>4, <1>8 DEF Presentes, Ninguno
<1>. QED
  BY <1>2, <1>3, <1>7, <1>8, <1>9 DEF IDePCBS, Distintos

\* The new PCB is in PCBS, or in porRegistrar until inicializarProceso ends.
LEMMA PCBSAlCrear ==
    ASSUME IFila, IDePCBS, NEW size \in Tamanos, createProceso(size)
    PROVE  IDePCBS'
<1> DEFINE p == PCB_ID + 1
           x == [ID |-> p, TIDS |-> <<>>]
<1>1. /\ paso = "libre" /\ p \in Pids /\ cargados' = cargados
      /\ EnEspera' = Append(EnEspera, p)
  BY PasoDeCrear DEF createProceso
<1>2. \/ paso' = "memoria" /\ porRegistrar' = p /\ PCBS' = PCBS
      \/ paso' = paso /\ porRegistrar' = porRegistrar /\ PCBS' = Append(PCBS, x)
  BY DEF createProceso, Inicializa, Encola
<1>3. porRegistrar = Ninguno
  BY <1>1 DEF IDePCBS
<1>4. EnEspera \in Seq(Pids) /\ p \notin Presentes /\ Ninguno \notin Presentes
      /\ p # Ninguno
  <2>1. EnEspera \in Seq(Pids)
    BY PresentesDados, SeqMonotonic
  <2>2. p # Ninguno
    BY <1>1, AjustesDeAdmision DEF Pids, Ninguno
  <2>. QED
    BY <2>1, <2>2, PresentesDados
<1>5. x \in UnPCB /\ x.ID = p /\ x.TIDS # <<0>>
  <2>1. <<0>> # <<>>
    OBVIOUS
  <2>. QED
    BY <1>1, <2>1 DEF UnPCB
<1> HIDE DEF p, x
<1>6. Distintos(EnEspera') /\ Rango(EnEspera') = Rango(EnEspera) \cup {p}
  <2>1. p \notin Rango(EnEspera) /\ Distintos(EnEspera)
    BY <1>4 DEF Presentes, IDePCBS
  <2>. QED
    BY <1>1, <1>4, <2>1, LlegaDistinto
<1>7. Rango(EnEspera') \cap DOMAIN cargados' = {}
  BY <1>1, <1>4, <1>6 DEF IDePCBS, Presentes
<1>8. Presentes' = Presentes \cup {p}
  BY <1>1, <1>6 DEF Presentes
<1>9. AlDia(PCBS, Presentes, DOMAIN cargados)
  <2>1. Presentes \ {porRegistrar} = Presentes
    BY <1>3, <1>4
  <2>. QED
    BY <2>1 DEF IDePCBS
<1>10. CASE paso' = "memoria" /\ porRegistrar' = p /\ PCBS' = PCBS
  <2>1. Presentes' \ {porRegistrar'} = Presentes /\ p \in Presentes'
    BY <1>4, <1>8, <1>10
  <2>. QED
    BY <1>1, <1>6, <1>7, <1>9, <1>10, <2>1 DEF IDePCBS
<1>11. CASE paso' = paso /\ porRegistrar' = porRegistrar /\ PCBS' = Append(PCBS, x)
  <2>1. Presentes' \ {porRegistrar'} = Presentes \cup {x.ID}
    BY <1>3, <1>4, <1>5, <1>8, <1>11
  <2>2. x.ID \notin Presentes /\ (x.TIDS = <<0>> <=> x.ID \in DOMAIN cargados)
    BY <1>4, <1>5 DEF Presentes
  <2>3. AlDia(Append(PCBS, x), Presentes \cup {x.ID}, DOMAIN cargados)
    BY <1>5, <1>9, <2>2, AlDiaConNuevo
  <2>. QED
    BY <1>1, <1>3, <1>6, <1>7, <1>11, <2>1, <2>3 DEF IDePCBS
<1>. QED
  BY <1>2, <1>10, <1>11

\* The first of the line gets its thread, if its PCB is in PCBS.
LEMMA PCBSAlAdmitir ==
    ASSUME IFila, IDePCBS, Creado
    PROVE  IDePCBS'
<1> DEFINE n == nuevoPCB
<1>1. /\ paso = "memoria" /\ DOMAIN cargados' = DOMAIN cargados \cup {n}
      /\ PCBS' = [i \in DOMAIN PCBS |-> ConHilo(PCBS[i])]
      /\ porRegistrar' = porRegistrar /\ paso' \in {"memoria", "listo"}
      /\ EnEspera' = Tail(EnEspera)
  BY PasoDeCreado DEF Creado, Con, SigueOTermina, Inicializa
<1>2. PCBS' = [i \in DOMAIN PCBS |->
                  IF PCBS[i].ID = n THEN [PCBS[i] EXCEPT !.TIDS = <<0>>] ELSE PCBS[i]]
  BY <1>1 DEF ConHilo
<1>3. EnEspera # <<>> /\ Head(EnEspera) = n /\ EnEspera \in Seq(0 .. PCB_ID)
  BY <1>1, PideElPrimero, PresentesDados
<1> HIDE DEF n
<1>4. /\ n \in Rango(EnEspera) /\ Distintos(EnEspera')
      /\ Rango(EnEspera') = Rango(EnEspera) \ {n}
  BY <1>1, <1>3, SaleElPrimero DEF IDePCBS
<1>5. Presentes' = Presentes /\ Rango(EnEspera') \cap DOMAIN cargados' = {}
  BY <1>1, <1>4 DEF Presentes, IDePCBS
<1>6. AlDia(PCBS', Presentes \ {porRegistrar}, DOMAIN cargados \cup {n})
  BY <1>2, AlDiaConHilo DEF IDePCBS
<1>. QED
  BY <1>1, <1>4, <1>5, <1>6 DEF IDePCBS

\* Who is not admitted keeps its PCB and its place.
LEMMA PCBSAlSeguirEnNew ==
    ASSUME IFila, IDePCBS, paso = "memoria", SigueEnNew
    PROVE  IDePCBS'
<1>1. /\ EnEspera' = EnEspera /\ paso' = "listo"
      /\ UNCHANGED <<PCBS, porRegistrar, cargados>>
  BY PasoDeSigueEnNew DEF SigueEnNew
<1>2. Presentes' = Presentes
  BY <1>1 DEF Presentes
<1>. QED
  BY <1>1, <1>2 DEF IDePCBS

\* createProceso appends the PCB with the thread it has got by then.
LEMMA PCBSAlResponder ==
    ASSUME IFila, IDePCBS, Responde
    PROVE  IDePCBS'
<1> DEFINE p == porRegistrar
           x == [ID |-> p, TIDS |-> IF p \in DOMAIN cargados THEN <<0>> ELSE <<>>]
<1>1. /\ paso = "listo" /\ porRegistrar' = Ninguno /\ cargados' = cargados
      /\ EnEspera' = EnEspera
      /\ PCBS' = IF p = Ninguno THEN PCBS ELSE Append(PCBS, x)
  BY PasoDeResponde DEF Responde
<1>2. Presentes' = Presentes /\ Presentes' \ {porRegistrar'} = Presentes
  <2>1. Presentes' = Presentes
    BY <1>1 DEF Presentes
  <2>. QED
    BY <1>1, <2>1, PresentesDados
<1>3. AlDia(PCBS', Presentes, DOMAIN cargados)
  <2>1. CASE p = Ninguno
    <3>1. Presentes \ {p} = Presentes
      BY <2>1, PresentesDados
    <3>. QED
      BY <1>1, <2>1, <3>1 DEF IDePCBS
  <2>2. CASE p # Ninguno
    <3>1. p \in Presentes /\ p \in Pids
      BY <2>2, PresentesDados DEF IDePCBS
    <3>2. x \in UnPCB /\ x.ID = p /\ (x.TIDS = <<0>> <=> p \in DOMAIN cargados)
      <4>1. <<0>> # <<>>
        OBVIOUS
      <4>2. x \in UnPCB
        BY <3>1 DEF UnPCB
      <4>. QED
        BY <4>1, <4>2
    <3>3. PCBS' = Append(PCBS, x)
      BY <1>1, <2>2
    <3>4. AlDia(PCBS, Presentes \ {p}, DOMAIN cargados)
      BY DEF IDePCBS
    <3> HIDE DEF x, p
    <3>5. AlDia(Append(PCBS, x), (Presentes \ {p}) \cup {x.ID}, DOMAIN cargados)
      BY <3>2, <3>4, AlDiaConNuevo
    <3>6. (Presentes \ {p}) \cup {x.ID} = Presentes
      BY <3>1, <3>2
    <3>. QED
      BY <3>3, <3>5, <3>6
  <2>. QED
    BY <2>1, <2>2
<1>. QED
  BY <1>1, <1>2, <1>3 DEF IDePCBS

\* The PCB that finalizarProceso takes out of PCBS is there.
LEMMA EstaElPCB ==
    ASSUME NEW p, AlDia(PCBS, Presentes, DOMAIN cargados), p \in DOMAIN cargados
    PROVE  buscarPCB(p) \in DOMAIN PCBS /\ PCBS[buscarPCB(p)].ID = p
<1>1. PICK i \in DOMAIN PCBS : PCBS[i].ID = p
  BY DEF AlDia, Presentes
<1>2. PCBS \in Seq(UnPCB)
  BY DEF AlDia
<1>3. \A j \in 1 .. i - 1 : PCBS[j].ID # p
  <2>1. DOMAIN PCBS = 1 .. Len(PCBS) /\ Len(PCBS) \in Nat
    BY <1>2, LenProperties
  <2>2. \A j \in 1 .. i - 1 : j \in DOMAIN PCBS /\ j # i
    BY <2>1
  <2>. QED
    BY <1>1, <2>2 DEF AlDia
<1>4. \E h \in DOMAIN PCBS : PCBS[h].ID = p /\ \A j \in 1 .. h - 1 : PCBS[j].ID # p
  BY <1>1, <1>3
<1>. QED
  BY <1>4, Zenon DEF buscarPCB

\* The PCB that leaves PCBS is the one of the process that ends.
LEMMA PCBSAlFinalizar ==
    ASSUME IFila, IDePCBS, NEW p \in Pids, finalizarProceso(p)
    PROVE  IDePCBS'
<1> DEFINE h == buscarPCB(p)
<1>1. /\ paso = "libre" /\ p \in DOMAIN cargados /\ DOMAIN cargados' = DOMAIN cargados \ {p}
      /\ PCBS' = RemoveAt(PCBS, h) /\ porRegistrar' = porRegistrar
      /\ EnEspera' = EnEspera
  BY PasoDeFin DEF finalizarProceso, Sin
<1>2. porRegistrar = Ninguno /\ Presentes \ {porRegistrar} = Presentes
  BY <1>1, PresentesDados DEF IDePCBS
<1>3. AlDia(PCBS, Presentes, DOMAIN cargados)
  BY <1>2 DEF IDePCBS
<1>4. h \in DOMAIN PCBS /\ PCBS[h].ID = p
  BY <1>1, <1>3, EstaElPCB
<1> HIDE DEF h
<1>5. AlDia(PCBS', Presentes \ {p}, DOMAIN cargados \ {p})
  BY <1>1, <1>3, <1>4, AlDiaSinUno
<1>6. p \notin Rango(EnEspera)
  BY <1>1 DEF IDePCBS
<1>7. Presentes' = Presentes \ {p} /\ Presentes' \ {porRegistrar'} = Presentes \ {p}
  <2>1. Presentes' = Presentes \ {p}
    BY <1>1, <1>6 DEF Presentes
  <2>. QED
    BY <1>1, <1>2, <2>1
<1>8. Rango(EnEspera') \cap DOMAIN cargados' = {}
  BY <1>1 DEF IDePCBS
<1>. QED
  BY <1>1, <1>2, <1>5, <1>7, <1>8 DEF IDePCBS

\* A finalizarProceso that returns early leaves the process as it was.
LEMMA PCBSQuietos ==
    ASSUME IFila, IDePCBS, UNCHANGED vars \/ \E p \in Pids : FinPerdido(p)
    PROVE  IDePCBS'
<1>1. /\ UNCHANGED <<PCBS, porRegistrar, cargados, paso, cola_new, cola_newAux, nuevoPCB>>
  BY DEF vars, colas, FinPerdido
<1>2. EnEspera' = EnEspera
  BY <1>1, EnEsperaEs
<1>3. Presentes' = Presentes
  BY <1>1, <1>2 DEF Presentes
<1>. QED
  BY <1>1, <1>2, <1>3 DEF IDePCBS

\* IFila and IDePCBS are inductive together.
THEOREM PCBSEnPie == Spec => []IDePCBS
<1>1. Init => IDePCBS
  BY PCBSAlInicio
<1>2. IFila /\ IDePCBS /\ [Next]_vars => IDePCBS'
  BY PCBSInicial, PCBSAlCrear, PCBSAlAdmitir, PCBSAlSeguirEnNew, PCBSAlResponder,
     PCBSAlFinalizar, PCBSQuietos DEF Next, Handler, NoCreado, RespuestaPerdida
<1>. QED
  BY <1>1, <1>2, FilaEnPie, PTL DEF Spec

-----------------------------------------------------------------------------
(***************************************************************************)
(* What the runs check, for every memory and every number of processes.    *)
(***************************************************************************)

\* The types, from the three invariants.
LEMMA TiposTodos ==
    ASSUME IFila, ITabla, IDePCBS
    PROVE  TypeOK
<1>1. /\ PCB_ID \in -1 .. MaxPid /\ pedido \in [0 .. PCB_ID -> Proceso]
      /\ cola_procesosToCreate \in Seq(Proceso) /\ cola_newAux \in Seq(0 .. PCB_ID)
      /\ DOMAIN cargados \subseteq 0 .. PCB_ID
  BY DEF IFila, Tipos
<1>2. /\ 0 .. PCB_ID \subseteq Pids /\ Presentes \subseteq 0 .. PCB_ID
  BY PresentesDados
<1>3. cola_newAux \in Seq(Pids) /\ DOMAIN cargados \subseteq Pids
  BY <1>1, <1>2, SeqMonotonic
<1>4. PCBS \in Seq([ID : Pids, TIDS : {<<>>, <<0>>}])
  BY DEF IDePCBS, AlDia, UnPCB
<1>5. /\ paso \in {"inicio", "libre", "memoria", "listo"}
      /\ nuevoPCB \in Pids \cup {Ninguno}
      /\ cola_new = <<>> \/ \E q \in Pids : cola_new = <<q>>
  BY <1>2 DEF IFila, Turnos
<1>6. cola_new \in Seq(Pids)
  BY <1>5, Uno, EmptySeq
<1>7. porRegistrar \in Pids \cup {Ninguno}
  BY <1>2 DEF IDePCBS
<1>8. Rango(cargados) \subseteq Proceso
  <2>1. \A p \in DOMAIN cargados : cargados[p] \in Proceso
    BY <1>1 DEF IFila, SuPrograma
  <2>. QED
    BY <2>1 DEF Rango
<1>. QED
  BY <1>1, <1>3, <1>4, <1>5, <1>6, <1>7, <1>8 DEF TypeOK, ITabla

\* Every variable keeps its type: sizes stay naturals through every split and
\* merge of the table, and PIDs stay within those that were given.
THEOREM TiposDeAdmision == Spec => []TypeOK
<1>1. IFila /\ IMemoria /\ IDePCBS => TypeOK
  BY TiposTodos DEF IMemoria
<1>. QED
  BY <1>1, FilaEnPie, MemoriaEnPie, PCBSEnPie, PTL

\* Between two calls no PCB waits in porRegistrar.
LEMMA AlDiaEnReposo ==
    ASSUME IFila, IDePCBS
    PROVE  PCBSAlDia
<1>1. SUFFICES ASSUME paso = "libre"
               PROVE  /\ {t.ID : t \in Rango(PCBS)} = Presentes
                      /\ Len(PCBS) = Cardinality(Presentes)
                      /\ \A t \in Rango(PCBS) :
                             t.TIDS = <<0>> <=> t.ID \in DOMAIN cargados
  BY DEF PCBSAlDia, EnReposo, Presentes
<1>2. Presentes \ {porRegistrar} = Presentes
  BY <1>1, PresentesDados DEF IDePCBS
<1>3. AlDia(PCBS, Presentes, DOMAIN cargados)
  BY <1>2 DEF IDePCBS
<1>4. {t.ID : t \in Rango(PCBS)} = Presentes
  BY <1>3 DEF AlDia, Rango
<1>5. \A t \in Rango(PCBS) : t.TIDS = <<0>> <=> t.ID \in DOMAIN cargados
  BY <1>3 DEF AlDia, Rango
<1>6. Len(PCBS) = Cardinality(Presentes)
  BY <1>3, AlDiaCuenta
<1>. QED
  BY <1>4, <1>5, <1>6

\* Between two calls PCBS holds each process that waits or runs once, and those
\* that run have the thread they were created with, although createProceso
\* appends the PCB it admits only after inicializarProceso is back.
THEOREM PCBSQuedaAlDia == Spec => []PCBSAlDia
<1>1. IFila /\ IDePCBS => PCBSAlDia
  BY AlDiaEnReposo
<1>. QED
  BY <1>1, FilaEnPie, PCBSEnPie, PTL

\* Who waits first is the one that was refused.
LEMMA RechazadoSinHueco ==
    ASSUME IFila, IMemoria
    PROVE  NadieEsperaConHueco
<1>1. SUFFICES ASSUME paso = "libre", perdidas = 0, EnEspera # <<>>
               PROVE  M!Huecos(pedido[Head(EnEspera)].SizeProceso) = {}
  BY DEF NadieEsperaConHueco, EnReposo
<1>2. PICK q \in 0 .. PCB_ID : cola_new = <<q>>
  <2>1. cola_new # <<>>
    BY <1>1, Forma
  <2>. QED
    BY <1>1, <2>1 DEF IFila, Turnos
<1>3. EnEspera = <<q>> \o cola_newAux /\ cola_newAux \in Seq(0 .. PCB_ID)
  BY <1>1, <1>2, Forma DEF IFila, Tipos
<1>4. Head(EnEspera) = q
  BY <1>3, AlFrente
<1>5. HuecosDe(particiones, pedido[q].SizeProceso) = {}
  BY <1>1, <1>2 DEF IMemoria, SinHuecoElPrimero
<1>. QED
  BY <1>4, <1>5 DEF HuecosDe, M!Huecos

\* Nobody waits while a hole fits who is first in the line, as long as no reply
\* of memoria was lost: every release ends in a new try for the first.
THEOREM NadieEsperaDeMas == Spec => []NadieEsperaConHueco
<1>1. IFila /\ IMemoria => NadieEsperaConHueco
  BY RechazadoSinHueco
<1>. QED
  BY <1>1, FilaEnPie, MemoriaEnPie, PTL

\* The partition of CadaUnoTiene is one of DePid.
LEMMA TodosTienen ==
    ASSUME IFila, IMemoria
    PROVE  CadaUnoLoSuyo
<1>1. \A p : Tiene(particiones, p, pedido[p].SizeProceso) =>
               \E i \in M!DePid(p) :
                   /\ ~particiones[i].IsFree
                   /\ particiones[i].Size >= pedido[p].SizeProceso
  BY DEF Tiene, M!DePid
<1>. QED
  BY <1>1 DEF IFila, IMemoria, CadaUnoTiene, CadaUnoLoSuyo

\* Each process that runs has the program its creator named and, as long as no
\* reply was lost, a partition of its own of the size it asked for, through
\* every other admission, end and merge (the first process, in none if memoria
\* had no partition for it when the kernel started).
THEOREM CadaUnoConLoSuyo == Spec => []CadaUnoLoSuyo
<1>1. IFila /\ IMemoria => CadaUnoLoSuyo
  BY TodosTienen
<1>. QED
  BY <1>1, FilaEnPie, MemoriaEnPie, PTL
=============================================================================
