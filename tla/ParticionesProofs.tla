------------------------- MODULE ParticionesProofs -------------------------
(***************************************************************************)
(* Proofs about Particiones: the isolation of the processes holds for any  *)
(* number of concurrent requests, any memory, any configuration and any    *)
(* set of processes.                                                       *)
(***************************************************************************)
EXTENDS Particiones, Lemas

-----------------------------------------------------------------------------
(***************************************************************************)
(* The inductive invariant.  Isolation alone is not inductive: it says     *)
(* nothing of the partitions, from which the next context is cut, nor of   *)
(* the half-moved memory of a compaction.  The invariant ties the four     *)
(* pieces together: the table is a tiling (Ordenada), every context lies   *)
(* in an occupied partition of its process (Alojados), partitions are not  *)
(* smaller than their process (Cabe), and while a compaction runs the      *)
(* partitions already moved tile the bytes below inicio and the ones still *)
(* to move lie above (Progreso).                                           *)
(***************************************************************************)

\* The program counters at which a handler owns muContextoProcesos.
ConContextos == {"asignar", "registrar", "liberar", "destruido", "consolidar",
                 "consolidando", "salir"}

ConParticiones == {"consolidando", "compactando"}

Candados ==
    \A h \in Manejadores :
        /\ pc[h] \in ConContextos <=> muContextoProcesos = h
        /\ pc[h] \in ConParticiones <=> muParciones = h

\* s tiles the bytes from 0 up to fin.
Ordenada(s, fin) ==
    /\ s = <<>> => fin = 0
    /\ s # <<>> => s[1].Base = 0 /\ Fin(s[Len(s)]) = fin
    /\ Encadenadas(s)
    /\ \A i, j \in 1 .. Len(s) : i < j => Fin(s[i]) <= s[j].Base
    /\ \A i \in 1 .. Len(s) : Fin(s[i]) <= fin

CabeEn(x) ==
    ~x.IsFree => /\ x.PID \in Pids
                 /\ Tamano[x.PID] <= x.Size
                 /\ Esquema = "DINAMICAS" => x.Size = Tamano[x.PID]

Cabe(s) == \A i \in 1 .. Len(s) : CabeEn(s[i])

\* Two partitions of one process in the same place.
MismoLugar(x, y) ==
    x.PID = y.PID /\ (x.IsFree <=> y.IsFree) /\ x.Base = y.Base /\ x.Size = y.Size

\* The first byte of the partitions of s from the n-th on, still to be moved.
BasePendiente(s, n) == IF n <= Len(s) THEN s[n].Base ELSE Total

\* s is the table, oc its partitions moved so far, up to byte ini, and the
\* holes among the first n - 1 partitions add up to ped.
ProgresoDe(s, n, ini, ped, oc) ==
    /\ n \in 1 .. Len(s) + 1
    /\ ini + ped = BasePendiente(s, n)
    /\ Ordenada(oc, ini)
    /\ Cabe(oc)
    /\ \A i \in 1 .. Len(oc) : ~oc[i].IsFree
    /\ ped = 0 => \A j \in 1 .. Len(oc) : \E i \in 1 .. Len(s) : MismoLugar(s[i], oc[j])

Progreso == ProgresoDe(particiones, k, inicio, pedazoLibre, particionesOcupadas)

Reposo ==
    (\A h \in Manejadores : pc[h] # "compactando") =>
        k = 1 /\ inicio = 0 /\ pedazoLibre = 0 /\ particionesOcupadas = <<>>

\* The partition x houses the context c of process p.
Aloja(x, p, c) ==
    /\ ~x.IsFree /\ x.PID = p /\ x.Base = c.Base
    /\ c.Limit < Fin(x)
    /\ Tamano[p] <= c.Limit - c.Base + 1
    /\ Esquema = "DINAMICAS" => c.Limit - c.Base + 1 = Tamano[p]

EnPendientes(s, n, p, c) == \E i \in 1 .. Len(s) : n <= i /\ Aloja(s[i], p, c)

EnMovidas(oc, p, c) == \E i \in 1 .. Len(oc) : Aloja(oc[i], p, c)

AlojadosEn(s, n, oc, ctx) ==
    \A p \in DOMAIN ctx : EnPendientes(s, n, p, ctx[p]) \/ EnMovidas(oc, p, ctx[p])

Alojados == AlojadosEn(particiones, k, particionesOcupadas, mapaContextosProcesos)

PorRegistrarAlojados ==
    \A h \in Manejadores :
        pc[h] = "registrar" => EnPendientes(particiones, k, pid[h], hueco[h])

Mesa(s) == s \in Seq(Particion) /\ s # <<>> /\ Ordenada(s, Total) /\ Cabe(s)

IInv ==
    /\ TypeOK
    /\ Candados
    /\ Mesa(particiones)
    /\ indice >= 1
    /\ Progreso
    /\ Reposo
    /\ Alojados
    /\ PorRegistrarAlojados

-----------------------------------------------------------------------------
(***************************************************************************)
(* The initial table.                                                      *)
(***************************************************************************)

LEMMA InicioPropiedades ==
    /\ Particionado \in Seq(Nat) /\ Len(Particionado) \in Nat \ {0}
    /\ Inicio \in [1 .. Len(Particionado) + 1 -> Nat]
    /\ Inicio[1] = 0
    /\ \A i \in 1 .. Len(Particionado) :
          Particionado[i] \in Nat /\ Inicio[i + 1] = Inicio[i] + Particionado[i]
<1>1. Particionado \in Seq(Nat) /\ Particionado # <<>>
  BY AjustesValidos DEF Particionado
<1>2. Len(Particionado) \in Nat \ {0}
  BY <1>1, EmptySeq
<1>3. Inicio \in Bordes /\ EsInicio(Inicio)
  BY ParticionesEntran DEF Inicio
<1>4. \A i \in 1 .. Len(Particionado) : Particionado[i] \in Nat
  BY <1>1, ElementOfSeq
<1>. QED
  BY <1>1, <1>2, <1>3, <1>4, AjustesValidos DEF Bordes, EsInicio

\* The bases of the initial table grow.
LEMMA InicioCrece ==
    \A i, j \in 1 .. Len(Particionado) + 1 : i <= j => Inicio[i] <= Inicio[j]
<1> DEFINE n == Len(Particionado)
<1>0. n \in Nat /\ Inicio \in [1 .. n + 1 -> Nat]
      /\ \A i \in 1 .. n : Particionado[i] \in Nat /\ Inicio[i + 1] = Inicio[i] + Particionado[i]
  BY InicioPropiedades
<1> HIDE DEF n
<1>1. Inicio \in [1 .. n + 1 -> Int]
  BY <1>0
<1>3. ASSUME NEW i \in 1 .. n PROVE Inicio[i] <= Inicio[i + 1]
  <2>1. i \in 1 .. n + 1 /\ i + 1 \in 1 .. n + 1
    BY <1>0
  <2>2. Inicio[i] \in Nat /\ Particionado[i] \in Nat
    BY <1>0, <2>1
  <2>. QED
    BY <1>0, <2>2
<1>2. \A i, j \in 1 .. n + 1 : i <= j => Inicio[i] <= Inicio[j]
  BY <1>0, <1>1, <1>3, CrecienteMonotona
<1>. QED
  BY <1>2 DEF n

LEMMA TotalEsNat == Total \in Nat
  BY InicioPropiedades DEF Total

-----------------------------------------------------------------------------
(***************************************************************************)
(* What the operations on the table do to a well-formed table: it stays    *)
(* well-formed and the occupied partitions keep their content.             *)
(***************************************************************************)

LEMMA LiberadaTipo ==
    ASSUME NEW x \in Particion
    PROVE  Liberada(x) \in Particion
<1>1. -1 \in Int
  OBVIOUS
<1>. QED
  BY <1>1, Zenon DEF Liberada, Particion

LEMMA UnidaTipo ==
    ASSUME NEW x \in Particion, NEW w \in Particion
    PROVE  Unida(x, w) \in Particion
<1>1. x.Size + w.Size \in Nat /\ w.Limit \in Int
  BY DEF Particion
<1>. QED
  BY <1>1, Zenon DEF Unida, Particion

LEMMA OcupadaCampos ==
    ASSUME NEW x \in Particion, NEW p, NEW size
    PROVE  /\ Ocupada(x, p, size).Base = x.Base /\ Ocupada(x, p, size).Size = size
           /\ ~Ocupada(x, p, size).IsFree /\ Ocupada(x, p, size).PID = p
           /\ p \in Int /\ size \in Nat => Ocupada(x, p, size) \in Particion
<1>1. /\ Ocupada(x, p, size).Base = x.Base /\ Ocupada(x, p, size).Size = size
      /\ ~Ocupada(x, p, size).IsFree /\ Ocupada(x, p, size).PID = p
  BY DEF Ocupada, Particion
<1>2. p \in Int /\ size \in Nat => Ocupada(x, p, size) \in Particion
  BY Zenon DEF Ocupada, Particion
<1>. QED
  BY <1>1, <1>2

LEMMA LiberadaCampos ==
    ASSUME NEW x \in Particion, NEW y, y = Liberada(x)
    PROVE  /\ y \in Particion /\ y.Base = x.Base /\ y.Size = x.Size
           /\ y.IsFree /\ y.PID = -1
<1>1. y \in Particion
  BY LiberadaTipo
<1>2. y.Base = x.Base /\ y.Size = x.Size /\ y.IsFree /\ y.PID = -1
  BY DEF Liberada, Particion
<1>. QED
  BY <1>1, <1>2

LEMMA UnidaCampos ==
    ASSUME NEW x \in Particion, NEW w \in Particion, NEW y, y = Unida(x, w)
    PROVE  /\ y \in Particion /\ y.Base = x.Base /\ y.Size = x.Size + w.Size
           /\ y.IsFree = x.IsFree /\ y.PID = x.PID
<1>1. y \in Particion
  BY UnidaTipo
<1>2. y.Base = x.Base /\ y.Size = x.Size + w.Size /\ y.IsFree = x.IsFree /\ y.PID = x.PID
  BY DEF Unida, Particion
<1>. QED
  BY <1>1, <1>2

\* Every occupied partition of s is in t too.
Conserva(s, t) ==
    \A j \in 1 .. Len(s) : ~s[j].IsFree => \E m \in 1 .. Len(t) : t[m] = s[j]

LEMMA MesaTipos ==
    ASSUME NEW s, Mesa(s)
    PROVE  /\ Len(s) \in Nat /\ Len(s) # 0 /\ s \in Seq(Particion)
           /\ \A j \in 1 .. Len(s) :
                 /\ s[j] \in Particion
                 /\ s[j].Base \in Nat /\ s[j].Size \in Nat /\ s[j].IsFree \in BOOLEAN
<1>1. Len(s) \in Nat /\ Len(s) # 0 /\ s \in Seq(Particion)
      /\ \A j \in 1 .. Len(s) : s[j] \in Particion
  BY EmptySeq, LenProperties, ElementOfSeq DEF Mesa
<1>. QED
  BY <1>1 DEF Particion

\* t is s with its i-th partition replaced by y, of the same place and size.
EsReemplazo(s, t, i, y) ==
    /\ i \in 1 .. Len(s) /\ y \in Particion
    /\ y.Base = s[i].Base /\ y.Size = s[i].Size
    /\ CabeEn(y)
    /\ t = [s EXCEPT ![i] = y]

\* Replacing one partition by one of the same place and size.
LEMMA ReemplazoMesa ==
    ASSUME NEW s, NEW t, NEW i, NEW y, Mesa(s), EsReemplazo(s, t, i, y)
    PROVE  /\ Mesa(t) /\ Len(t) = Len(s)
           /\ i \in 1 .. Len(t) /\ t[i] = y
           /\ \A j \in 1 .. Len(s) : j # i => t[j] = s[j]
<1>0. i \in 1 .. Len(s) /\ y \in Particion /\ y.Base = s[i].Base
      /\ y.Size = s[i].Size /\ CabeEn(y)
  BY DEF EsReemplazo
<1>1. t \in Seq(Particion) /\ Len(t) = Len(s)
      /\ \A j \in 1 .. Len(s) : t[j] = IF j = i THEN y ELSE s[j]
  BY MesaTipos, ExceptSeq DEF EsReemplazo
<1>2. \A j \in 1 .. Len(s) : t[j].Base = s[j].Base /\ t[j].Size = s[j].Size
  BY <1>0, <1>1
<1>3. Len(s) \in Nat /\ Len(s) # 0 /\ t # <<>> /\ s # <<>>
  BY <1>1, MesaTipos, EmptySeq
<1>4. Ordenada(t, Total)
  <2>1. \A j \in 1 .. Len(s) : Fin(t[j]) = Fin(s[j])
    BY <1>2 DEF Fin
  <2>2. Ordenada(s, Total) /\ 1 \in 1 .. Len(s) /\ Len(s) \in 1 .. Len(s)
    BY <1>3 DEF Mesa
  <2>3. t[1].Base = 0 /\ Fin(t[Len(t)]) = Total
    BY <1>1, <1>2, <1>3, <2>1, <2>2 DEF Ordenada
  <2>4. Encadenadas(t)
    BY <1>1, <1>2, <1>3, <2>1, <2>2 DEF Ordenada, Encadenadas
  <2>5. \A a, b \in 1 .. Len(t) : a < b => Fin(t[a]) <= t[b].Base
    BY <1>1, <1>2, <2>1, <2>2 DEF Ordenada
  <2>6. \A a \in 1 .. Len(t) : Fin(t[a]) <= Total
    BY <1>1, <2>1, <2>2 DEF Ordenada
  <2>. QED
    BY <1>3, <2>3, <2>4, <2>5, <2>6 DEF Ordenada
<1>5. Cabe(t)
  BY <1>0, <1>1 DEF Mesa, Cabe
<1>. QED
  BY <1>0, <1>1, <1>3, <1>4, <1>5 DEF Mesa

\* t is s with its i-th partition split in y and z.
EsCorte(s, t, i, y, z) ==
    /\ i \in 1 .. Len(s) /\ y \in Particion /\ z \in Particion
    /\ y.Base = s[i].Base /\ z.Base = Fin(y) /\ y.Size + z.Size = s[i].Size
    /\ CabeEn(y) /\ CabeEn(z)
    /\ t \in Seq(Particion) /\ Len(t) = Len(s) + 1
    /\ t[i] = y /\ t[i + 1] = z
    /\ \A j \in 1 .. Len(s) : j < i => t[j] = s[j]
    /\ \A j \in 1 .. Len(s) : j > i => t[j + 1] = s[j]

\* Splitting a partition keeps the table well formed.
LEMMA CorteMesa ==
    ASSUME NEW s, NEW t, NEW i, NEW y, NEW z, Mesa(s), EsCorte(s, t, i, y, z)
    PROVE  Mesa(t)
<1> DEFINE n == Len(s)
<1>1. n \in Nat /\ n # 0
  BY MesaTipos
<1>2. i \in 1 .. n /\ i \in Nat /\ Len(t) = n + 1 /\ t \in Seq(Particion)
  BY <1>1 DEF EsCorte
<1>4. t[i + 1] = z
  BY DEF EsCorte
<1>5. \A j \in 1 .. n : j < i => t[j] = s[j]
  BY DEF EsCorte
<1>6. t[i] = y
  BY DEF EsCorte
<1>7. \A j \in 1 .. n : j > i => t[j + 1] = s[j]
  BY DEF EsCorte
<1>8. \A j \in 1 .. n + 1 : j > i + 1 => j - 1 \in 1 .. n /\ t[j] = s[j - 1]
  <2>1. ASSUME NEW j \in 1 .. n + 1, j > i + 1
        PROVE  j - 1 \in 1 .. n /\ j - 1 > i /\ j - 1 + 1 = j
    BY <1>1, <1>2, <2>1
  <2>. QED
    BY <1>7, <2>1
<1>9. \A j \in 1 .. n : s[j].Base \in Nat /\ s[j].Size \in Nat
  BY MesaTipos
<1>10. y.Size \in Nat /\ z.Size \in Nat /\ y.Base \in Nat /\ z.Base \in Nat
  BY DEF EsCorte, Particion
<1>11. /\ \A a, b \in 1 .. n : a < b => Fin(s[a]) <= s[b].Base
       /\ \A a \in 1 .. n : Fin(s[a]) <= Total
       /\ \A a \in 1 .. n - 1 : s[a + 1].Base = Fin(s[a])
       /\ s[1].Base = 0 /\ Fin(s[n]) = Total
  BY DEF Mesa, Ordenada, Encadenadas
<1>12. y.Base = s[i].Base /\ z.Base = Fin(y) /\ y.Size + z.Size = s[i].Size
  BY DEF EsCorte
<1>13. ASSUME NEW j \in 1 .. n + 1
       PROVE  j < i \/ j = i \/ j = i + 1 \/ j > i + 1
  BY <1>2
<1>12a. s[i].Base \in Nat /\ s[i].Size \in Nat
  BY <1>2, <1>9
<1>12b. /\ Fin(y) = s[i].Base + y.Size /\ Fin(y) \in Nat /\ Fin(y) = z.Base
      /\ Fin(z) = Fin(s[i]) /\ Fin(s[i]) \in Nat
      /\ s[i].Base <= Fin(y) /\ Fin(y) <= Fin(s[i])
  BY <1>10, <1>12, <1>12a DEF Fin
<1>12c. \A j \in 1 .. n : Fin(s[j]) \in Nat /\ s[j].Base <= Fin(s[j])
  BY <1>9 DEF Fin
<1> HIDE DEF n
<1>14. t # <<>>
  BY <1>1, <1>2, EmptySeq
<1>15. t[1].Base = 0 /\ Fin(t[n + 1]) = Total
  <2>1. t[1].Base = 0
    BY <1>1, <1>2, <1>5, <1>6, <1>11, <1>12
  <2>2. CASE i = n
    BY <1>4, <1>11, <1>12b, <2>1, <2>2
  <2>3. CASE i # n
    BY <1>1, <1>2, <1>7, <1>11, <2>1, <2>3
  <2>. QED
    BY <2>1, <2>2, <2>3
<1>16. ASSUME NEW a \in 1 .. n, NEW b \in 1 .. n + 1, b = a + 1
       PROVE  t[b].Base = Fin(t[a])
  <2>1. CASE b < i
    BY <1>1, <1>2, <1>5, <1>11, <1>16, <2>1
  <2>2. CASE b = i
    BY <1>1, <1>2, <1>5, <1>6, <1>11, <1>12, <1>16, <2>2
  <2>3. CASE b = i + 1
    BY <1>1, <1>2, <1>4, <1>6, <1>12, <1>16, <2>3
  <2>4. CASE b = i + 2
    <3>1. a = i + 1 /\ t[a] = z /\ t[b] = s[i + 1] /\ i \in 1 .. n - 1
      BY <1>1, <1>2, <1>4, <1>7, <1>16, <2>4
    <3>. QED
      BY <1>11, <1>12b, <3>1
  <2>5. CASE b > i + 2
    <3>1. t[b] = s[b - 1] /\ t[a] = s[a - 1] /\ a - 1 \in 1 .. n - 1 /\ b - 1 = (a - 1) + 1
      BY <1>1, <1>2, <1>8, <1>16, <2>5
    <3>. QED
      BY <1>11, <3>1
  <2>. QED
    BY <1>2, <2>1, <2>2, <2>3, <2>4, <2>5
<1>17. ASSUME NEW a \in 1 .. n + 1, NEW b \in 1 .. n + 1, a < b
       PROVE  Fin(t[a]) <= t[b].Base
  <2>1. CASE b < i
    <3>1. t[a] = s[a] /\ t[b] = s[b] /\ a \in 1 .. n /\ b \in 1 .. n
      BY <1>1, <1>2, <1>5, <1>17, <2>1
    <3>. QED
      BY <1>11, <1>17, <3>1
  <2>2. CASE b = i
    <3>1. t[a] = s[a] /\ t[b].Base = s[i].Base /\ a \in 1 .. n /\ a < i
      BY <1>1, <1>2, <1>5, <1>6, <1>12, <1>17, <2>2
    <3>. QED
      BY <1>2, <1>11, <3>1
  <2>3. CASE a < i /\ b = i + 1
    <3>1. t[a] = s[a] /\ t[b] = z /\ Fin(s[a]) <= s[i].Base /\ a \in 1 .. n
      BY <1>1, <1>2, <1>4, <1>5, <1>11, <2>3
    <3>2. Fin(s[a]) \in Nat
      BY <1>12c, <3>1
    <3>. QED
      BY <1>12a, <1>12b, <3>1, <3>2
  <2>4. CASE a = i /\ b = i + 1
    BY <1>4, <1>6, <1>12b, <2>4
  <2>5. CASE a < i /\ b > i + 1
    <3>1. t[a] = s[a] /\ t[b] = s[b - 1] /\ a \in 1 .. n /\ b - 1 \in 1 .. n /\ a < b - 1
      BY <1>1, <1>2, <1>5, <1>8, <2>5
    <3>. QED
      BY <1>11, <3>1
  <2>6. CASE a = i /\ b > i + 1
    <3>1. t[a] = y /\ t[b] = s[b - 1] /\ b - 1 \in 1 .. n /\ i < b - 1
      BY <1>1, <1>2, <1>6, <1>8, <2>6
    <3>2. Fin(s[i]) <= s[b - 1].Base /\ s[b - 1].Base \in Nat
      BY <1>2, <1>9, <1>11, <3>1
    <3>. QED
      BY <1>12b, <3>1, <3>2
  <2>7. CASE a = i + 1 /\ b > i + 1
    <3>1. t[a] = z /\ t[b] = s[b - 1] /\ b - 1 \in 1 .. n /\ i < b - 1
      BY <1>1, <1>2, <1>4, <1>8, <2>7
    <3>. QED
      BY <1>2, <1>11, <1>12b, <3>1
  <2>8. CASE a > i + 1
    <3>1. t[a] = s[a - 1] /\ t[b] = s[b - 1] /\ a - 1 \in 1 .. n /\ b - 1 \in 1 .. n /\ a - 1 < b - 1
      BY <1>1, <1>2, <1>8, <1>17, <2>8
    <3>. QED
      BY <1>11, <3>1
  <2>. QED
    BY <1>2, <1>13, <1>17, <2>1, <2>2, <2>3, <2>4, <2>5, <2>6, <2>7, <2>8
<1>18. ASSUME NEW a \in 1 .. n + 1 PROVE Fin(t[a]) <= Total
  <2>1. CASE a < i
    BY <1>1, <1>2, <1>5, <1>11, <2>1
  <2>2. CASE a = i
    <3>1. Fin(s[i]) <= Total
      BY <1>2, <1>11
    <3>. QED
      BY <1>6, <1>12b, <2>2, <3>1, TotalEsNat
  <2>3. CASE a = i + 1
    BY <1>2, <1>4, <1>11, <1>12b, <2>3
  <2>4. CASE a > i + 1
    BY <1>8, <1>11, <2>4
  <2>. QED
    BY <1>13, <2>1, <2>2, <2>3, <2>4
<1>19. Ordenada(t, Total)
  <2>1. Encadenadas(t)
    BY <1>1, <1>2, <1>16 DEF Encadenadas
  <2>. QED
    BY <1>1, <1>2, <1>14, <1>15, <1>17, <1>18, <2>1 DEF Ordenada
<1>20. ASSUME NEW j \in 1 .. n + 1 PROVE CabeEn(t[j])
  <2>1. \A a \in 1 .. n : CabeEn(s[a])
    BY DEF Mesa, Cabe, n
  <2>2. CabeEn(y) /\ CabeEn(z)
    BY DEF EsCorte
  <2>. QED
    BY <1>1, <1>2, <1>4, <1>5, <1>6, <1>8, <1>13, <2>1, <2>2
<1>. QED
  BY <1>2, <1>14, <1>19, <1>20 DEF Mesa, Cabe

\* t is s with its i-th partition and the next one merged in y.
EsUnion(s, t, i, y) ==
    /\ i \in 1 .. Len(s) - 1 /\ y \in Particion
    /\ y.Base = s[i].Base /\ y.Size = s[i].Size + s[i + 1].Size /\ CabeEn(y)
    /\ t \in Seq(Particion) /\ Len(t) = Len(s) - 1
    /\ t[i] = y
    /\ \A j \in 1 .. Len(s) : j < i => t[j] = s[j]
    /\ \A j \in 1 .. Len(s) : j > i + 1 => t[j - 1] = s[j]

\* Merging two neighbours keeps the table well formed.
LEMMA UnionMesa ==
    ASSUME NEW s, NEW t, NEW i, NEW y, Mesa(s), EsUnion(s, t, i, y)
    PROVE  Mesa(t)
<1> DEFINE n == Len(s)
<1>1. n \in Nat /\ n # 0
  BY MesaTipos
<1>2. i \in 1 .. n - 1 /\ i \in 1 .. n /\ i + 1 \in 1 .. n /\ i \in Nat
      /\ Len(t) = n - 1 /\ t \in Seq(Particion) /\ t[i] = y
  BY <1>1 DEF EsUnion
<1>3. y.Base = s[i].Base /\ y.Size = s[i].Size + s[i + 1].Size
  BY DEF EsUnion
<1>4. \A j \in 1 .. n : j < i => t[j] = s[j]
  BY DEF EsUnion
<1>5. \A j \in 1 .. n : j > i + 1 => t[j - 1] = s[j]
  BY DEF EsUnion
<1>6. \A j \in 1 .. n - 1 : j > i => j + 1 \in 1 .. n /\ t[j] = s[j + 1]
  <2>1. ASSUME NEW j \in 1 .. n - 1, j > i
        PROVE  j + 1 \in 1 .. n /\ j + 1 > i + 1 /\ j + 1 - 1 = j
    BY <1>1, <1>2, <2>1
  <2>. QED
    BY <1>5, <2>1
<1>7. \A j \in 1 .. n : s[j].Base \in Nat /\ s[j].Size \in Nat
  BY MesaTipos
<1>8. /\ \A a, b \in 1 .. n : a < b => Fin(s[a]) <= s[b].Base
      /\ \A a \in 1 .. n : Fin(s[a]) <= Total
      /\ \A a \in 1 .. n - 1 : s[a + 1].Base = Fin(s[a])
      /\ s[1].Base = 0 /\ Fin(s[n]) = Total
  BY DEF Mesa, Ordenada, Encadenadas
<1>9. Fin(y) = Fin(s[i + 1])
  <2>1. s[i + 1].Base = s[i].Base + s[i].Size
    BY <1>2, <1>8 DEF Fin
  <2>2. s[i].Base \in Nat /\ s[i].Size \in Nat /\ s[i + 1].Size \in Nat
    BY <1>2, <1>7
  <2>. QED
    BY <1>3, <2>1, <2>2 DEF Fin
<1> HIDE DEF n
<1>10. ASSUME NEW j \in 1 .. n - 1
       PROVE  /\ j <= i => t[j].Base = s[j].Base
              /\ j > i => t[j].Base = s[j + 1].Base
              /\ j < i => Fin(t[j]) = Fin(s[j])
              /\ j >= i => Fin(t[j]) = Fin(s[j + 1])
              /\ j \in 1 .. n /\ j + 1 \in 1 .. n
  <2>1. j \in 1 .. n /\ j + 1 \in 1 .. n
    BY <1>1
  <2>2. CASE j < i
    BY <1>2, <1>4, <2>1, <2>2
  <2>3. CASE j = i
    BY <1>2, <1>3, <1>9, <2>1, <2>3
  <2>4. CASE j > i
    BY <1>2, <1>6, <2>1, <2>4
  <2>5. j <= i => t[j].Base = s[j].Base
    BY <1>2, <2>2, <2>3
  <2>6. j >= i => Fin(t[j]) = Fin(s[j + 1])
    BY <1>2, <2>3, <2>4
  <2>. QED
    BY <2>1, <2>2, <2>4, <2>5, <2>6
<1>11. t # <<>> /\ n - 1 \in 1 .. n - 1 /\ 1 \in 1 .. n - 1
  BY <1>1, <1>2, EmptySeq
<1>12. t[1].Base = 0 /\ Fin(t[n - 1]) = Total
  BY <1>1, <1>2, <1>8, <1>10, <1>11
<1>13. ASSUME NEW a \in 1 .. n - 1 - 1
       PROVE  t[a + 1].Base = Fin(t[a])
  <2>1. a \in 1 .. n - 1 /\ a + 1 \in 1 .. n - 1
    BY <1>1
  <2>2. CASE a + 1 <= i
    BY <1>2, <1>8, <1>10, <2>1, <2>2
  <2>3. CASE a + 1 > i
    BY <1>2, <1>8, <1>10, <2>1, <2>3
  <2>. QED
    BY <1>2, <2>2, <2>3
<1>14. ASSUME NEW a \in 1 .. n - 1, NEW b \in 1 .. n - 1, a < b
       PROVE  Fin(t[a]) <= t[b].Base
  <2>1. CASE b <= i
    BY <1>2, <1>8, <1>10, <1>14, <2>1
  <2>2. CASE a < i /\ b > i
    BY <1>2, <1>8, <1>10, <1>14, <2>2
  <2>3. CASE a >= i
    BY <1>2, <1>8, <1>10, <1>14, <2>3
  <2>. QED
    BY <1>2, <1>14, <2>1, <2>2, <2>3
<1>15. \A a \in 1 .. n - 1 : Fin(t[a]) <= Total
  BY <1>2, <1>8, <1>10
<1>16. Ordenada(t, Total)
  <2>1. Encadenadas(t)
    BY <1>2, <1>13 DEF Encadenadas
  <2>. QED
    BY <1>2, <1>11, <1>12, <1>14, <1>15, <2>1 DEF Ordenada
<1>17. ASSUME NEW j \in 1 .. n - 1 PROVE CabeEn(t[j])
  <2>1. \A a \in 1 .. n : CabeEn(s[a])
    BY DEF Mesa, Cabe, n
  <2>2. CabeEn(y)
    BY DEF EsUnion
  <2>3. j \in 1 .. n
    BY <1>1
  <2>. QED
    BY <1>2, <1>4, <1>6, <2>1, <2>2, <2>3
<1>. QED
  BY <1>2, <1>11, <1>16, <1>17 DEF Mesa, Cabe

-----------------------------------------------------------------------------
(***************************************************************************)
(* The same facts, about the operators of Particiones.                     *)
(***************************************************************************)

\* AsignarHueco keeps the table well formed and every occupied partition, and
\* the i-th partition becomes p's.
LEMMA AsignadaMesa ==
    ASSUME Mesa(particiones), NEW p \in Pids,
           NEW i \in 1 .. Len(particiones), i \in Huecos(Tamano[p]),
           NEW t, t = Asignada(i, p, Tamano[p])
    PROVE  /\ Mesa(t)
           /\ Conserva(particiones, t)
           /\ i \in 1 .. Len(t) /\ ~t[i].IsFree /\ t[i].PID = p
           /\ t[i].Base = particiones[i].Base
           /\ \/ /\ Parte(i, Tamano[p])
                 /\ \E y, z : EsCorte(particiones, t, i, y, z) /\ z.IsFree /\ z.PID = 0
              \/ \E y : EsReemplazo(particiones, t, i, y)
<1> DEFINE n == Len(particiones)
           x == particiones[i]
           sz == Tamano[p]
<1>1. n \in Nat /\ n # 0 /\ particiones \in Seq(Particion)
      /\ \A j \in 1 .. n : particiones[j] \in Particion
  BY MesaTipos
<1>2. sz \in Nat /\ p \in Nat
  BY AjustesValidos
<1>3. x \in Particion /\ x.Base \in Nat /\ x.Size \in Nat /\ x.IsFree /\ x.Size >= sz
  BY <1>1, MesaTipos DEF Huecos
<1>4. CASE Parte(i, sz)
  <2> DEFINE y == Ocupada(x, p, sz)
             z == nuevaParticion(i, sz)
  <2>1. y \in Particion /\ y.Base = x.Base /\ y.Size = sz /\ ~y.IsFree /\ y.PID = p
    <3>1. p \in Int /\ sz \in Nat /\ x.Size \in Nat
      BY <1>2, <1>3
    <3>2. x \in Particion
      BY <1>3
    <3>3. y \in Particion
      BY <3>1, <3>2, OcupadaCampos
    <3>4. y.Base = x.Base
      BY <3>2, OcupadaCampos
    <3>5. ~y.IsFree
      BY <3>2, OcupadaCampos
    <3>6. y.PID = p
      BY <3>2, OcupadaCampos
    <3>. QED
      BY <3>2, <3>3, <3>4, <3>5, <3>6, OcupadaCampos
  <2>2. x.Size - sz \in Nat /\ x.Base + sz \in Nat /\ x.Base + x.Size - sz - 1 \in Int
    BY <1>2, <1>3
  <2>3. /\ z \in Particion /\ z.Base = x.Base + sz /\ z.Size = x.Size - sz
        /\ z.IsFree /\ z.PID = 0
    BY <2>2 DEF nuevaParticion, Particion
  <2>4. CabeEn(y) /\ CabeEn(z)
    BY <1>2, <2>1, <2>3 DEF CabeEn
  <2>5. t = InsertAt([particiones EXCEPT ![i] = y], i + 1, z)
    BY <1>4 DEF Asignada
  <2> HIDE DEF y, z
  <2>6. EsCorte(particiones, t, i, y, z) /\ Len(t) = n + 1
    <3> DEFINE v == [particiones EXCEPT ![i] = y]
               w == InsertAt(v, i + 1, z)
    <3>1. v \in Seq(Particion) /\ Len(v) = n
          /\ \A j \in 1 .. n : v[j] = IF j = i THEN y ELSE particiones[j]
      BY <1>1, <2>1, ExceptSeq
    <3>2. i + 1 \in 1 .. Len(v) + 1
      BY <1>1, <3>1
    <3> HIDE DEF v
    <3>3. /\ w \in Seq(Particion) /\ Len(w) = Len(v) + 1 /\ w[i + 1] = z
          /\ \A j \in 1 .. Len(v) : j < i + 1 => w[j] = v[j]
          /\ \A j \in 1 .. Len(v) : j >= i + 1 => w[j + 1] = v[j]
      <4>1. i + 1 \in 1 .. Len(v) + 1 /\ v \in Seq(Particion) /\ z \in Particion
        BY <2>3, <3>1, <3>2
      <4>2. EsInsercion(Particion, w, v, i + 1, z)
        BY <4>1, InsertAtPropiedades
      <4>. QED
        BY <4>2 DEF EsInsercion
    <3> HIDE DEF w
    <3>4. EsCorte(particiones, w, i, y, z)
      <4>0. i \in Nat /\ i \in 1 .. n /\ Len(v) = n /\ n \in Nat
            /\ \A j \in 1 .. n : j < i + 1 => w[j] = v[j]
        BY <1>1, <3>1, <3>3
      <4>1. w[i] = y /\ \A j \in 1 .. n : j < i => w[j] = particiones[j]
        <5>1. v[i] = y /\ \A j \in 1 .. n : j < i => v[j] = particiones[j]
          BY <3>1, <4>0
        <5>. QED
          BY <4>0, <5>1
      <4>2. \A j \in 1 .. n : j > i => w[j + 1] = particiones[j]
        BY <1>1, <3>1, <3>3
      <4>3. z.Base = Fin(y) /\ y.Size + z.Size = x.Size
        BY <1>2, <1>3, <2>1, <2>3 DEF Fin
      <4>. QED
        BY <2>1, <2>3, <2>4, <3>1, <3>3, <4>1, <4>2, <4>3 DEF EsCorte
    <3>5. t = w
      BY <2>5 DEF v, w
    <3>. QED
      BY <3>1, <3>3, <3>4, <3>5
  <2>7. Mesa(t)
    BY <2>6, CorteMesa
  <2>8. Conserva(particiones, t)
    <3>1. ASSUME NEW j \in 1 .. n, ~particiones[j].IsFree
          PROVE  \E m \in 1 .. Len(t) : t[m] = particiones[j]
      <4>1. CASE j < i
        BY <1>1, <2>6, <4>1 DEF EsCorte
      <4>2. CASE j > i
        <5>1. j + 1 \in 1 .. Len(t) /\ t[j + 1] = particiones[j]
          BY <1>1, <2>6, <4>2 DEF EsCorte
        <5>. QED
          BY <5>1
      <4>. QED
        BY <1>1, <1>3, <3>1, <4>1, <4>2
    <3>. QED
      BY <3>1 DEF Conserva
  <2>9. i \in 1 .. Len(t) /\ t[i] = y
    BY <1>1, <2>6 DEF EsCorte
  <2>. QED
    BY <1>4, <2>1, <2>3, <2>6, <2>7, <2>8, <2>9
<1>5. CASE ~Parte(i, sz)
  <2> DEFINE y == Ocupada(x, p, x.Size)
  <2>1. y \in Particion /\ y.Base = x.Base /\ y.Size = x.Size /\ ~y.IsFree /\ y.PID = p
    <3>1. p \in Int /\ sz \in Nat /\ x.Size \in Nat
      BY <1>2, <1>3
    <3>2. x \in Particion
      BY <1>3
    <3>3. y \in Particion
      BY <3>1, <3>2, OcupadaCampos
    <3>4. y.Base = x.Base
      BY <3>2, OcupadaCampos
    <3>5. ~y.IsFree
      BY <3>2, OcupadaCampos
    <3>6. y.PID = p
      BY <3>2, OcupadaCampos
    <3>. QED
      BY <3>2, <3>3, <3>4, <3>5, <3>6, OcupadaCampos
  <2>2. CabeEn(y)
    BY <1>2, <1>3, <1>5, <2>1 DEF CabeEn, Parte
  <2>3. t = [particiones EXCEPT ![i] = y]
    BY <1>5 DEF Asignada
  <2> HIDE DEF y
  <2>3a. EsReemplazo(particiones, t, i, y)
    BY <2>1, <2>2, <2>3 DEF EsReemplazo
  <2>4. Mesa(t) /\ Len(t) = n /\ i \in 1 .. Len(t) /\ t[i] = y
        /\ \A j \in 1 .. n : j # i => t[j] = particiones[j]
    BY <2>3a, ReemplazoMesa
  <2>5. Conserva(particiones, t)
    BY <1>3, <2>4 DEF Conserva
  <2>. QED
    BY <2>1, <2>3a, <2>4, <2>5
<1>. QED
  BY <1>4, <1>5

\* liberarParticionPorPID keeps the table well formed; only the i-th partition
\* changes.
LEMMA LiberadaMesa ==
    ASSUME Mesa(particiones), NEW i \in 1 .. Len(particiones),
           NEW t, t = [particiones EXCEPT ![i] = Liberada(@)]
    PROVE  /\ Mesa(t) /\ Len(t) = Len(particiones)
           /\ t[i].IsFree /\ t[i].PID = -1
           /\ \A j \in 1 .. Len(particiones) : j # i => t[j] = particiones[j]
<1> DEFINE y == Liberada(particiones[i])
<1>1. particiones[i] \in Particion
  BY MesaTipos
<1>2. /\ y \in Particion /\ y.Base = particiones[i].Base
      /\ y.Size = particiones[i].Size /\ y.IsFree /\ y.PID = -1
  BY <1>1, LiberadaCampos
<1>3. CabeEn(y)
  BY <1>2 DEF CabeEn
<1>4. t = [particiones EXCEPT ![i] = y]
  OBVIOUS
<1> HIDE DEF y
<1>5. EsReemplazo(particiones, t, i, y)
  BY <1>2, <1>3, <1>4 DEF EsReemplazo
<1>. QED
  BY <1>2, <1>5, ReemplazoMesa

\* A merge in ConsolidarMemoria keeps the table well formed and every occupied
\* partition.
LEMMA FusionadaMesa ==
    ASSUME Mesa(particiones), NEW i \in 1 .. Len(particiones) - 1, Fusionables(i),
           NEW t, t = Fusionada(i)
    PROVE  /\ Mesa(t) /\ Conserva(particiones, t)
           /\ \E y : /\ EsUnion(particiones, t, i, y) /\ y.IsFree
                     /\ y.PID = particiones[i].PID
<1> DEFINE n == Len(particiones)
           y == Unida(particiones[i], particiones[i + 1])
           v == [particiones EXCEPT ![i] = y]
           w == RemoveAt(v, i + 1)
<1>1. n \in Nat /\ n # 0 /\ particiones \in Seq(Particion)
      /\ \A j \in 1 .. n : particiones[j] \in Particion
  BY MesaTipos
<1>2. i \in 1 .. n /\ i + 1 \in 1 .. n /\ i \in Nat
  BY <1>1
<1>3. particiones[i].IsFree /\ particiones[i + 1].IsFree
  BY <1>2, MesaTipos DEF Fusionables
<1>4. /\ y \in Particion /\ y.Base = particiones[i].Base
      /\ y.Size = particiones[i].Size + particiones[i + 1].Size
      /\ y.IsFree = particiones[i].IsFree
  BY <1>1, <1>2, UnidaCampos
<1>4b. y.PID = particiones[i].PID
  BY <1>1, <1>2, UnidaCampos
<1>5. CabeEn(y)
  BY <1>3, <1>4 DEF CabeEn
<1>6. t = w
  BY DEF Fusionada
<1> HIDE DEF y
<1>7. v \in Seq(Particion) /\ Len(v) = n
      /\ \A j \in 1 .. n : v[j] = IF j = i THEN y ELSE particiones[j]
  BY <1>1, <1>2, <1>4, ExceptSeq
<1> HIDE DEF v
<1>8. /\ w \in Seq(Particion) /\ Len(w) = n - 1
      /\ \A j \in 1 .. n : j < i + 1 => w[j] = v[j]
      /\ \A j \in 1 .. n : j > i + 1 => w[j - 1] = v[j]
  <2>1. i + 1 \in 1 .. Len(v) /\ v \in Seq(Particion)
    BY <1>2, <1>7
  <2>2. EsExtraccion(Particion, w, v, i + 1)
    BY <2>1, RemoveAtPropiedades
  <2>. QED
    BY <1>7, <2>2 DEF EsExtraccion
<1> HIDE DEF w
<1>9. EsUnion(particiones, w, i, y)
  <2>1. w[i] = y /\ \A j \in 1 .. n : j < i => w[j] = particiones[j]
    <3>1. \A j \in 1 .. n : j < i + 1 => w[j] = v[j]
      BY <1>8
    <3>2. \A j \in 1 .. n : v[j] = IF j = i THEN y ELSE particiones[j]
      BY <1>7
    <3>3. w[i] = v[i] /\ v[i] = y
      BY <1>2, <3>1, <3>2
    <3>4. ASSUME NEW j \in 1 .. n, j < i PROVE w[j] = particiones[j]
      BY <1>1, <1>2, <3>1, <3>2, <3>4
    <3>. QED
      BY <3>3, <3>4
  <2>2. \A j \in 1 .. n : j > i + 1 => w[j - 1] = particiones[j]
    BY <1>1, <1>2, <1>7, <1>8
  <2>. QED
    BY <1>4, <1>5, <1>8, <2>1, <2>2 DEF EsUnion
<1>10. Mesa(w)
  BY <1>9, UnionMesa
<1>11. ASSUME NEW j \in 1 .. n, ~particiones[j].IsFree
       PROVE  \E m \in 1 .. Len(w) : w[m] = particiones[j]
  <2>1. j < i \/ j > i + 1
    BY <1>1, <1>2, <1>3, <1>11
  <2>2. CASE j < i
    BY <1>1, <1>2, <1>9, <2>2 DEF EsUnion
  <2>3. CASE j > i + 1
    <3>1. j - 1 \in 1 .. Len(w) /\ w[j - 1] = particiones[j]
      BY <1>1, <1>2, <1>9, <2>3 DEF EsUnion
    <3>. QED
      BY <3>1
  <2>. QED
    BY <2>1, <2>2, <2>3
<1>. QED
  BY <1>3, <1>4, <1>4b, <1>6, <1>9, <1>10, <1>11 DEF Conserva

\* Appending a partition where the sequence ends, as compactarMemoria does.
LEMMA AppendOrdenada ==
    ASSUME NEW s \in Seq(Particion), NEW fin \in Nat, Ordenada(s, fin),
           NEW x \in Particion, x.Base = fin
    PROVE  /\ Append(s, x) \in Seq(Particion) /\ Append(s, x) # <<>>
           /\ Ordenada(Append(s, x), Fin(x))
           /\ Cabe(s) /\ CabeEn(x) => Cabe(Append(s, x))
<1> DEFINE n == Len(s)
           t == Append(s, x)
<1>1. n \in Nat /\ t \in Seq(Particion) /\ Len(t) = n + 1 /\ t[n + 1] = x
      /\ \A j \in 1 .. n : t[j] = s[j]
  BY LenProperties, AppendProperties
<1>2. t # <<>>
  BY <1>1, EmptySeq
<1>3. x.Base \in Nat /\ x.Size \in Nat /\ Fin(x) \in Nat /\ fin <= Fin(x)
  BY DEF Particion, Fin
<1>4. \A j \in 1 .. n : s[j].Base \in Nat /\ Fin(s[j]) \in Nat
  <2>1. \A j \in 1 .. n : s[j] \in Particion
    BY ElementOfSeq
  <2>2. \A y \in Particion : y.Base \in Nat /\ Fin(y) \in Nat
    BY DEF Particion, Fin
  <2> HIDE DEF n
  <2>. QED
    BY <2>1, <2>2
<1>5. /\ \A a, b \in 1 .. n : a < b => Fin(s[a]) <= s[b].Base
      /\ \A a \in 1 .. n : Fin(s[a]) <= fin
      /\ \A a \in 1 .. n - 1 : s[a + 1].Base = Fin(s[a])
      /\ s = <<>> => fin = 0
      /\ s # <<>> => s[1].Base = 0 /\ Fin(s[n]) = fin
  BY DEF Ordenada, Encadenadas
<1>6. s = <<>> <=> n = 0
  BY EmptySeq
<1> HIDE DEF n, t
<1>7. t[1].Base = 0 /\ Fin(t[n + 1]) = Fin(x)
  <2>1. CASE n = 0
    BY <1>1, <1>5, <1>6, <2>1
  <2>2. CASE n # 0
    BY <1>1, <1>5, <1>6, <2>2
  <2>. QED
    BY <2>1, <2>2
<1>8. ASSUME NEW a \in 1 .. n PROVE t[a + 1].Base = Fin(t[a])
  <2>1. CASE a = n
    <3>1. n # 0
      BY <1>1, <2>1
    <3>. QED
      BY <1>1, <1>5, <1>6, <2>1, <3>1
  <2>2. CASE a # n
    <3>1. a \in 1 .. n - 1 /\ a + 1 \in 1 .. n
      BY <1>1, <2>2
    <3>. QED
      BY <1>1, <1>5, <3>1
  <2>. QED
    BY <2>1, <2>2
<1>9. ASSUME NEW a \in 1 .. n + 1, NEW b \in 1 .. n + 1, a < b
      PROVE  Fin(t[a]) <= t[b].Base
  <2>0. a \in 1 .. n /\ t[a] = s[a]
    BY <1>1, <1>9
  <2>1. CASE b = n + 1
    BY <1>1, <1>5, <2>0, <2>1
  <2>2. CASE b # n + 1
    <3>1. b \in 1 .. n
      BY <1>1, <2>2
    <3>. QED
      BY <1>1, <1>5, <1>9, <2>0, <3>1
  <2>. QED
    BY <2>1, <2>2
<1>10. ASSUME NEW a \in 1 .. n + 1 PROVE Fin(t[a]) <= Fin(x)
  <2>1. CASE a = n + 1
    BY <1>1, <1>3, <2>1
  <2>2. CASE a # n + 1
    <3>1. a \in 1 .. n /\ t[a] = s[a] /\ Fin(s[a]) <= fin /\ Fin(s[a]) \in Nat
      BY <1>1, <1>4, <1>5, <2>2
    <3>. QED
      BY <1>3, <3>1
  <2>. QED
    BY <2>1, <2>2
<1>11. Ordenada(t, Fin(x))
  <2>1. Encadenadas(t)
    BY <1>1, <1>8 DEF Encadenadas
  <2>. QED
    BY <1>1, <1>2, <1>7, <1>9, <1>10, <2>1 DEF Ordenada
<1>12. ASSUME Cabe(s), CabeEn(x), NEW j \in 1 .. n + 1 PROVE CabeEn(t[j])
  <2>1. \A a \in 1 .. n : CabeEn(s[a])
    BY <1>12 DEF Cabe, n
  <2>. QED
    BY <1>1, <1>12, <2>1
<1>. QED
  BY <1>1, <1>2, <1>11, <1>12 DEF Cabe, t

\* With no compaction running, Progreso says nothing.
LEMMA ProgresoEnReposo ==
    ASSUME NEW s, Mesa(s)
    PROVE  ProgresoDe(s, 1, 0, 0, <<>>)
<1>1. Len(s) \in Nat /\ Len(s) # 0
  BY MesaTipos
<1>2. s # <<>> /\ s[1].Base = 0
  BY DEF Mesa, Ordenada
<1>3. BasePendiente(s, 1) = 0
  BY <1>1, <1>2 DEF BasePendiente
<1>4. Ordenada(<<>>, 0) /\ Cabe(<<>>)
  BY DEF Ordenada, Encadenadas, Cabe
<1>. QED
  BY <1>1, <1>3, <1>4 DEF ProgresoDe

\* A context stays housed while its table keeps the occupied partitions.
LEMMA ConservaAlojados ==
    ASSUME NEW s, NEW t, Conserva(s, t), NEW p, NEW c, Len(t) \in Nat,
           EnPendientes(s, 1, p, c)
    PROVE  EnPendientes(t, 1, p, c)
<1>1. PICK i \in 1 .. Len(s) : Aloja(s[i], p, c)
  BY DEF EnPendientes
<1>2. PICK m \in 1 .. Len(t) : t[m] = s[i]
  BY <1>1 DEF Conserva, Aloja
<1>. QED
  BY <1>1, <1>2 DEF EnPendientes

-----------------------------------------------------------------------------
(***************************************************************************)
(* The invariant holds initially.                                          *)
(***************************************************************************)

\* The table of InicializarMemoria is well formed.
LEMMA InitMesa == Init => Mesa(particiones)
<1> SUFFICES ASSUME Init PROVE Mesa(particiones)
  OBVIOUS
<1> DEFINE n == Len(Particionado)
<1>1. n \in Nat \ {0}
      /\ Inicio \in [1 .. n + 1 -> Nat] /\ Inicio[1] = 0 /\ Total = Inicio[n + 1]
      /\ \A i \in 1 .. n : Particionado[i] \in Nat /\ Inicio[i + 1] = Inicio[i] + Particionado[i]
  BY InicioPropiedades DEF Total
<1>2. \A i, j \in 1 .. n + 1 : i <= j => Inicio[i] <= Inicio[j]
  BY InicioCrece
<1>3. particiones = [i \in 1 .. n |-> ParticionLibre(Inicio[i], Particionado[i])]
  BY DEF Init
<1> HIDE DEF n
<1>4. ASSUME NEW i \in 1 .. n
      PROVE  /\ particiones[i] \in Particion /\ particiones[i].IsFree
             /\ particiones[i].Base = Inicio[i] /\ Fin(particiones[i]) = Inicio[i + 1]
  <2>1. Inicio[i] \in Nat /\ Particionado[i] \in Nat /\ Inicio[i + 1] = Inicio[i] + Particionado[i]
    BY <1>1
  <2>2. particiones[i] = ParticionLibre(Inicio[i], Particionado[i])
    BY <1>3
  <2>. QED
    BY <2>1, <2>2 DEF ParticionLibre, Particion, Fin
<1>5. particiones \in Seq(Particion) /\ Len(particiones) = n
  <2>1. particiones \in [1 .. n -> Particion]
    BY <1>3, <1>4
  <2>. QED
    BY <1>1, <2>1, SeqDef, LenProperties
<1>6. particiones # <<>>
  BY <1>1, <1>5, EmptySeq
<1>7. Cabe(particiones)
  BY <1>4, <1>5 DEF Cabe, CabeEn
<1>8. Ordenada(particiones, Total)
  <2>1. particiones[1].Base = 0 /\ Fin(particiones[n]) = Total
    BY <1>1, <1>4
  <2>2. Encadenadas(particiones)
    <3>1. ASSUME NEW i \in 1 .. n - 1 PROVE particiones[i + 1].Base = Fin(particiones[i])
      <4>1. i \in 1 .. n /\ i + 1 \in 1 .. n
        BY <1>1
      <4>. QED
        BY <1>4, <4>1
    <3>. QED
      BY <1>5, <3>1 DEF Encadenadas
  <2>3. ASSUME NEW i \in 1 .. n, NEW j \in 1 .. n, i < j
        PROVE  Fin(particiones[i]) <= particiones[j].Base
    <3>1. i + 1 \in 1 .. n + 1 /\ j \in 1 .. n + 1 /\ i + 1 <= j
      BY <1>1, <2>3
    <3>2. Inicio[i + 1] <= Inicio[j]
      BY <1>2, <3>1
    <3>3. Fin(particiones[i]) = Inicio[i + 1] /\ particiones[j].Base = Inicio[j]
      BY <1>4, <2>3
    <3>. QED
      BY <3>2, <3>3
  <2>4. ASSUME NEW i \in 1 .. n PROVE Fin(particiones[i]) <= Total
    <3>1. i + 1 \in 1 .. n + 1 /\ n + 1 \in 1 .. n + 1 /\ i + 1 <= n + 1
      BY <1>1
    <3>2. Inicio[i + 1] <= Inicio[n + 1]
      BY <1>2, <3>1
    <3>3. Fin(particiones[i]) = Inicio[i + 1]
      BY <1>4, <2>4
    <3>. QED
      BY <1>1, <3>2, <3>3
  <2>. QED
    BY <1>5, <1>6, <2>1, <2>2, <2>3, <2>4 DEF Ordenada
<1>. QED
  BY <1>5, <1>6, <1>7, <1>8 DEF Mesa

LEMMA InitIInv == Init => IInv
<1> SUFFICES ASSUME Init PROVE IInv
  OBVIOUS
<1>0. /\ mapaContextosProcesos = <<>>
      /\ muContextoProcesos = Nadie /\ muParciones = Nadie
      /\ pc = [h \in Manejadores |-> "libre"]
      /\ pid = [h \in Manejadores |-> NingunPid]
      /\ hueco = [h \in Manejadores |-> SinHueco]
      /\ respuesta = [h \in Manejadores |-> ""]
      /\ confirmados = {}
      /\ indice = 1 /\ k = 1 /\ inicio = 0 /\ pedazoLibre = 0
      /\ particionesOcupadas = <<>>
  BY Zenon DEF Init
<1>0a. /\ DOMAIN mapaContextosProcesos = {}
       /\ mapaContextosProcesos \in [DOMAIN mapaContextosProcesos -> Contexto]
  <2>1. <<>> \in Seq(Contexto) /\ Len(<<>>) = 0
    BY EmptySeq
  <2>2. <<>> \in [1 .. Len(<<>>) -> Contexto] /\ DOMAIN <<>> = 1 .. Len(<<>>)
    BY <2>1, LenProperties
  <2>3. 1 .. 0 = {}
    OBVIOUS
  <2>. QED
    BY <1>0, <2>1, <2>2, <2>3, Zenon
<1>1. Mesa(particiones)
  BY InitMesa
<1>2. TypeOK
  <2>1. particiones \in Seq(Particion) /\ particionesOcupadas \in Seq(Particion)
    BY <1>0, <1>1, EmptySeq DEF Mesa
  <2>4. hueco \in [Manejadores -> Contexto]
    <3>1. SinHueco \in Contexto
      BY DEF SinHueco, Contexto
    <3>. QED
      BY <1>0, <3>1
  <2>5. /\ pc \in [Manejadores -> Pcs] /\ pid \in [Manejadores -> Pids \cup {NingunPid}]
        /\ respuesta \in [Manejadores -> Respuestas]
        /\ \A h \in Manejadores : SinPid(h) \/ pid[h] \in Pids
    BY <1>0 DEF SinPid, Pcs, Respuestas
  <2>. QED
    BY <1>0, <1>0a, <2>1, <2>4, <2>5 DEF TypeOK
<1>3. Candados
  BY <1>0, AjustesValidos DEF Candados, ConContextos, ConParticiones
<1>4. Progreso
  BY <1>0, <1>1, ProgresoEnReposo DEF Progreso
<1>5. Reposo
  BY <1>0, Zenon DEF Reposo
<1>5a. indice >= 1
  <2>1. 1 >= 1
    OBVIOUS
  <2>. QED
    BY <1>0, <2>1, Zenon
<1>6. Alojados
  BY <1>0a DEF Alojados, AlojadosEn
<1>7. PorRegistrarAlojados
  BY <1>0 DEF PorRegistrarAlojados
<1>. QED
  BY <1>1, <1>2, <1>3, <1>4, <1>5, <1>5a, <1>6, <1>7 DEF IInv
=============================================================================
