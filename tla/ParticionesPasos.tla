-------------------------- MODULE ParticionesPasos --------------------------
(***************************************************************************)
(* Every step of Particiones keeps the invariant IInv, and what follows:   *)
(* the table stays a tiling, the processes stay isolated, and the map of   *)
(* contexts implements Segmentos.                                          *)
(***************************************************************************)
EXTENDS ParticionesProofs

\* Nothing the invariant says of memory changes, at most which handler does what.
MismaMemoria ==
    UNCHANGED <<particiones, mapaContextosProcesos, k, inicio, pedazoLibre,
                particionesOcupadas>>

\* A step that leaves memory alone keeps the invariant if it keeps the types
\* and the mutexes, starts no registration and ends no compaction.
LEMMA MarcoIInv ==
    ASSUME IInv, MismaMemoria, TypeOK', Candados', indice' >= 1,
           \A g \in Manejadores : pc'[g] = "registrar" =>
               pc[g] = "registrar" /\ pid'[g] = pid[g] /\ hueco'[g] = hueco[g],
           \A g \in Manejadores : pc[g] = "compactando" => pc'[g] = "compactando"
    PROVE  IInv'
<1>1. Mesa(particiones)' /\ Progreso' /\ Alojados'
  BY DEF IInv, MismaMemoria, Mesa, Progreso, ProgresoDe, Alojados, AlojadosEn
<1>2. Reposo'
  BY DEF IInv, MismaMemoria, Reposo
<1>3. PorRegistrarAlojados'
  BY DEF IInv, MismaMemoria, PorRegistrarAlojados
<1>. QED
  BY <1>1, <1>2, <1>3 DEF IInv

\* h moves from de to a and takes or gives back no mutex.
LEMMA AvanceCandados ==
    ASSUME TypeOK, Candados, NEW h \in Manejadores, NEW de, NEW a, Va(h, de, a),
           UNCHANGED <<muContextoProcesos, muParciones>>,
           a \in ConContextos <=> de \in ConContextos,
           a \in ConParticiones <=> de \in ConParticiones
    PROVE  Candados'
BY DEF TypeOK, Candados, Va

LEMMA PedirIInv ==
    ASSUME IInv, NEW h \in Manejadores, NEW p \in Pids,
           PedirCrear(h, p) \/ PedirFinalizar(h, p)
    PROVE  IInv'
<1>1. PICK op \in {"crear", "finalizar"} : Llega(h, p, op)
  BY DEF PedirCrear, PedirFinalizar
<1>2. TypeOK'
  BY <1>1 DEF IInv, TypeOK, PedirCrear, PedirFinalizar, Llega, Va, SinPid, Pcs, locales
<1>3. Candados'
  BY <1>1, AvanceCandados DEF IInv, Llega, ConContextos, ConParticiones
<1>. QED
  BY <1>1, <1>2, <1>3, MarcoIInv DEF IInv, TypeOK, Llega, Va, MismaMemoria, locales

LEMMA PedirCompactarIInv ==
    ASSUME IInv, NEW h \in Manejadores, PedirCompactar(h)
    PROVE  IInv'
<1>1. Llega(h, NingunPid, "compactar") /\ UNCHANGED confirmados
  BY DEF PedirCompactar
<1>2. TypeOK'
  BY <1>1 DEF IInv, TypeOK, Llega, Va, SinPid, Pcs, locales
<1>3. Candados'
  BY <1>1, AvanceCandados DEF IInv, Llega, ConContextos, ConParticiones
<1>. QED
  BY <1>1, <1>2, <1>3, MarcoIInv DEF IInv, TypeOK, Llega, Va, MismaMemoria, locales

LEMMA TomarContextosIInv ==
    ASSUME IInv, NEW h \in Manejadores, TomarContextos(h)
    PROVE  IInv'
<1>1. TypeOK'
  BY DEF IInv, TypeOK, TomarContextos, Va, SinPid, Pcs, locales
<1>2. Candados'
  BY AjustesValidos DEF IInv, TypeOK, TomarContextos, Va, Candados, ConContextos, ConParticiones
<1>. QED
  BY <1>1, <1>2, MarcoIInv DEF IInv, TypeOK, TomarContextos, Va, MismaMemoria, locales

LEMMA SalirIInv ==
    ASSUME IInv, NEW h \in Manejadores, Salir(h)
    PROVE  IInv'
<1>1. TypeOK'
  <2>1. pc[h] = "salir" /\ pid[h] \in Pids
    BY DEF IInv, TypeOK, Salir, Va, SinPid
  <2>2. confirmados' \subseteq Pids
    BY <2>1 DEF IInv, TypeOK, Salir
  <2>3. hueco' \in [Manejadores -> Contexto]
    <3>1. SinHueco \in Contexto
      BY DEF SinHueco, Contexto
    <3>. QED
      BY <3>1 DEF IInv, TypeOK, Salir
  <2>. QED
    BY <2>2, <2>3 DEF IInv, TypeOK, Salir, Va, SinPid, Pcs, Respuestas, locales
<1>2. Candados'
  BY AjustesValidos DEF IInv, TypeOK, Salir, Va, Candados, ConContextos, ConParticiones
<1>. QED
  BY <1>1, <1>2, MarcoIInv DEF IInv, TypeOK, Salir, Va, MismaMemoria, locales

\* The failing ends of createProceso and finalizarProceso.
LEMMA RechazoIInv ==
    ASSUME IInv, NEW h \in Manejadores, NoHayHueco(h) \/ ProcesoNoEncontrado(h)
    PROVE  IInv'
<1>1. TypeOK'
  BY DEF IInv, TypeOK, NoHayHueco, ProcesoNoEncontrado, Va, SinPid, Pcs, Respuestas, locales
<1>2. Candados'
  BY AvanceCandados DEF IInv, NoHayHueco, ProcesoNoEncontrado, ConContextos, ConParticiones
<1>. QED
  BY <1>1, <1>2, MarcoIInv DEF IInv, TypeOK, NoHayHueco, ProcesoNoEncontrado, Va,
     MismaMemoria, locales

LEMMA ProcesoDestruidoIInv ==
    ASSUME IInv, NEW h \in Manejadores, ProcesoDestruido(h)
    PROVE  IInv'
<1>1. TypeOK'
  BY DEF IInv, TypeOK, ProcesoDestruido, Va, SinPid, Pcs, Respuestas, locales
<1>2. Candados'
  BY AvanceCandados DEF IInv, ProcesoDestruido, ConContextos, ConParticiones
<1>. QED
  BY <1>1, <1>2, MarcoIInv DEF IInv, TypeOK, ProcesoDestruido, Va, MismaMemoria, locales

\* The steps that take muParciones for a whole walk of the table.
LEMMA RecorridoIInv ==
    ASSUME IInv, NEW h \in Manejadores, ConsolidarMemoria(h) \/ CompactarInicio(h)
    PROVE  IInv'
<1>1. TypeOK'
  BY DEF IInv, TypeOK, ConsolidarMemoria, CompactarInicio, Va, SinPid, Pcs, locales
<1>2. Candados'
  BY AjustesValidos DEF IInv, TypeOK, ConsolidarMemoria, CompactarInicio, Va, Candados,
     ConContextos, ConParticiones
<1>. QED
  BY <1>1, <1>2, MarcoIInv DEF IInv, TypeOK, ConsolidarMemoria, CompactarInicio, Va,
     MismaMemoria, locales

LEMMA ConsolidarFinIInv ==
    ASSUME IInv, NEW h \in Manejadores, ConsolidarFin(h)
    PROVE  IInv'
<1>1. TypeOK'
  BY DEF IInv, TypeOK, ConsolidarFin, Va, SinPid, Pcs, locales
<1>2. Candados'
  BY AjustesValidos DEF IInv, TypeOK, ConsolidarFin, Va, Candados, ConContextos, ConParticiones
<1>. QED
  BY <1>1, <1>2, MarcoIInv DEF IInv, TypeOK, ConsolidarFin, Va, MismaMemoria, locales

\* Only one handler at a time owns each mutex, and while none compacts the
\* locals of compactarMemoria are reset.
LEMMA SinCompactacion ==
    ASSUME IInv, \/ muParciones = Nadie
                 \/ \E h \in Manejadores : muParciones = h /\ pc[h] # "compactando"
    PROVE  /\ k = 1 /\ inicio = 0 /\ pedazoLibre = 0 /\ particionesOcupadas = <<>>
           /\ \A g \in Manejadores : pc[g] # "compactando"
<1>1. \A g \in Manejadores : pc[g] # "compactando"
  BY AjustesValidos DEF IInv, Candados, ConParticiones
<1>. QED
  BY <1>1 DEF IInv, Reposo

\* With no compaction running every context is housed in the table.
LEMMA AlojadosEnReposo ==
    ASSUME NEW s, NEW ctx, AlojadosEn(s, 1, <<>>, ctx), NEW p \in DOMAIN ctx
    PROVE  EnPendientes(s, 1, p, ctx[p])
<1>1. ~EnMovidas(<<>>, p, ctx[p])
  BY DEF EnMovidas
<1>. QED
  BY <1>1 DEF AlojadosEn

LEMMA AsignarHuecoIInv ==
    ASSUME IInv, NEW h \in Manejadores, AsignarHueco(h)
    PROVE  IInv'
<1> DEFINE p == pid[h]
           size == Tamano[p]
<1>1. k = 1 /\ inicio = 0 /\ pedazoLibre = 0 /\ particionesOcupadas = <<>>
  BY SinCompactacion DEF AsignarHueco
<1>2. pc[h] = "asignar" /\ p \in Pids /\ size \in Nat
  BY AjustesValidos DEF AsignarHueco, Va, IInv, TypeOK, SinPid
<1>3. PICK i \in DOMAIN particiones :
         /\ Elige(i, size)
         /\ particiones' = Asignada(i, p, size)
         /\ hueco' = [hueco EXCEPT ![h] =
               [Base |-> particiones[i].Base, Limit |-> particiones[i].Base + size - 1]]
  BY DEF AsignarHueco
<1>4. i \in 1 .. Len(particiones) /\ i \in Huecos(size) /\ Mesa(particiones)
  BY <1>3, MesaTipos, LenProperties DEF Elige, IInv
<1> DEFINE t == particiones'
<1>5. /\ Mesa(t) /\ Conserva(particiones, t)
      /\ i \in 1 .. Len(t) /\ ~t[i].IsFree /\ t[i].PID = p
      /\ t[i].Base = particiones[i].Base
  BY <1>2, <1>3, <1>4, AsignadaMesa
<1>6. particiones[i].Base \in Nat
  BY <1>4, MesaTipos
<1>7. hueco' \in [Manejadores -> Contexto]
      /\ hueco'[h].Base = particiones[i].Base
      /\ hueco'[h].Limit = particiones[i].Base + size - 1
  <2> DEFINE c == [Base |-> particiones[i].Base, Limit |-> particiones[i].Base + size - 1]
  <2>1. particiones[i].Base + size - 1 \in Int /\ particiones[i].Base \in Int
    BY <1>2, <1>6
  <2>2. c \in Contexto /\ c.Base = particiones[i].Base
        /\ c.Limit = particiones[i].Base + size - 1
    BY <2>1, Zenon DEF Contexto
  <2>3. hueco' = [hueco EXCEPT ![h] = c] /\ hueco \in [Manejadores -> Contexto]
    BY <1>3 DEF IInv, TypeOK
  <2> HIDE DEF c
  <2>4. hueco' \in [Manejadores -> Contexto] /\ hueco'[h] = c
    BY <2>2, <2>3
  <2>. QED
    BY <2>2, <2>4
<1>8. TypeOK'
  BY <1>5, <1>7 DEF IInv, TypeOK, Mesa, AsignarHueco, Va, SinPid, Pcs, locales
<1>9. Candados'
  BY AvanceCandados DEF IInv, AsignarHueco, ConContextos, ConParticiones
<1>10. Progreso' /\ Reposo'
  <2>1. k' = 1 /\ inicio' = 0 /\ pedazoLibre' = 0 /\ particionesOcupadas' = <<>>
    BY <1>1 DEF AsignarHueco, locales
  <2>2. ProgresoDe(t, 1, 0, 0, <<>>)
    BY <1>5, ProgresoEnReposo
  <2>. QED
    BY <2>1, <2>2 DEF Progreso, Reposo
<1>11. Alojados'
  <2>1. ASSUME NEW q \in DOMAIN mapaContextosProcesos
        PROVE  EnPendientes(t, 1, q, mapaContextosProcesos[q])
    <3>1. EnPendientes(particiones, 1, q, mapaContextosProcesos[q])
      BY <1>1, AlojadosEnReposo DEF IInv, Alojados
    <3>2. Len(t) \in Nat
      BY <1>5, MesaTipos
    <3>. QED
      BY <1>5, <3>1, <3>2, ConservaAlojados
  <2>. QED
    BY <1>1, <2>1 DEF AsignarHueco, Alojados, AlojadosEn, locales
<1>12. PorRegistrarAlojados'
  <2>1. Aloja(t[i], p, hueco'[h])
    <3>1. t[i].Base \in Nat /\ t[i].Size \in Nat
      BY <1>5, MesaTipos
    <3>2. size <= t[i].Size
      BY <1>5 DEF Mesa, Cabe, CabeEn
    <3>. QED
      BY <1>2, <1>5, <1>7, <3>1, <3>2 DEF Aloja, Fin
  <2>2. EnPendientes(t, 1, p, hueco'[h])
    BY <1>5, <2>1 DEF EnPendientes
  <2>3. ASSUME NEW g \in Manejadores, pc'[g] = "registrar" PROVE g = h
    BY <2>3 DEF IInv, TypeOK, Candados, ConContextos, AsignarHueco, Va
  <2>. QED
    BY <1>1, <2>2, <2>3 DEF AsignarHueco, PorRegistrarAlojados, locales
<1>13. indice' >= 1
  BY DEF IInv, AsignarHueco, locales
<1>. QED
  BY <1>5, <1>8, <1>9, <1>10, <1>11, <1>12, <1>13 DEF IInv

LEMMA RegistrarContextoIInv ==
    ASSUME IInv, NEW h \in Manejadores, RegistrarContexto(h)
    PROVE  IInv'
<1> DEFINE p == pid[h]
           ctx == mapaContextosProcesos'
<1>1. pc[h] = "registrar" /\ p \in Pids /\ hueco[h] \in Contexto
  BY DEF RegistrarContexto, Va, IInv, TypeOK, SinPid
<1>2. /\ DOMAIN ctx = DOMAIN mapaContextosProcesos \cup {p}
      /\ ctx[p] = hueco[h]
      /\ \A q \in DOMAIN mapaContextosProcesos : q # p => ctx[q] = mapaContextosProcesos[q]
  BY DEF RegistrarContexto
<1>3. TypeOK'
  <2>1. ctx \in [DOMAIN ctx -> Contexto] /\ DOMAIN ctx \subseteq Pids
    BY <1>1 DEF IInv, TypeOK, RegistrarContexto
  <2>. QED
    BY <2>1 DEF IInv, TypeOK, RegistrarContexto, Va, SinPid, Pcs, Respuestas, locales
<1>4. Candados'
  BY AvanceCandados DEF IInv, RegistrarContexto, ConContextos, ConParticiones
<1>5. Mesa(particiones)' /\ Progreso' /\ indice' >= 1
  BY DEF IInv, RegistrarContexto, locales, Mesa, Progreso, ProgresoDe
<1>6. Reposo'
  BY DEF IInv, TypeOK, RegistrarContexto, Va, locales, Reposo
<1>7. Alojados'
  <2>1. EnPendientes(particiones, k, p, hueco[h])
    BY <1>1 DEF IInv, PorRegistrarAlojados
  <2>2. \A q \in DOMAIN mapaContextosProcesos :
           \/ EnPendientes(particiones, k, q, mapaContextosProcesos[q])
           \/ EnMovidas(particionesOcupadas, q, mapaContextosProcesos[q])
    BY DEF IInv, Alojados, AlojadosEn
  <2>3. AlojadosEn(particiones, k, particionesOcupadas, ctx)
    BY <1>2, <2>1, <2>2 DEF AlojadosEn
  <2>. QED
    BY <2>3 DEF RegistrarContexto, Alojados, locales
<1>8. PorRegistrarAlojados'
  <2>1. \A g \in Manejadores : pc'[g] = "registrar" => pc[g] = "registrar"
    BY DEF RegistrarContexto, Va, IInv, TypeOK
  <2>. QED
    BY <2>1 DEF IInv, RegistrarContexto, PorRegistrarAlojados, locales
<1>. QED
  BY <1>3, <1>4, <1>5, <1>6, <1>7, <1>8 DEF IInv

LEMMA liberarParticionPorPIDIInv ==
    ASSUME IInv, NEW h \in Manejadores, liberarParticionPorPID(h)
    PROVE  IInv'
<1> DEFINE p == pid[h]
           t == particiones'
           ctx == mapaContextosProcesos'
<1>1. k = 1 /\ inicio = 0 /\ pedazoLibre = 0 /\ particionesOcupadas = <<>>
  BY SinCompactacion DEF liberarParticionPorPID
<1>2. PICK i \in DOMAIN particiones :
         EsPrimera(i, p) /\ t = [particiones EXCEPT ![i] = Liberada(@)]
  BY DEF liberarParticionPorPID
<1>3. i \in 1 .. Len(particiones) /\ Mesa(particiones) /\ particiones[i].PID = p
  BY <1>2, MesaTipos, LenProperties DEF EsPrimera, DePid, IInv
<1>4. /\ Mesa(t) /\ Len(t) = Len(particiones)
      /\ \A j \in 1 .. Len(particiones) : j # i => t[j] = particiones[j]
  BY <1>2, <1>3, LiberadaMesa
<1>5. /\ DOMAIN ctx = DOMAIN mapaContextosProcesos \ {p}
      /\ \A q \in DOMAIN ctx : ctx[q] = mapaContextosProcesos[q]
      /\ ctx \in [DOMAIN ctx -> Contexto]
  BY DEF liberarParticionPorPID, IInv, TypeOK
<1>6. TypeOK'
  BY <1>4, <1>5 DEF IInv, TypeOK, Mesa, liberarParticionPorPID, Va, SinPid, Pcs, locales
<1>7. Candados'
  BY AvanceCandados DEF IInv, liberarParticionPorPID, ConContextos, ConParticiones
<1>8. Progreso' /\ Reposo'
  <2>1. k' = 1 /\ inicio' = 0 /\ pedazoLibre' = 0 /\ particionesOcupadas' = <<>>
    BY <1>1 DEF liberarParticionPorPID, locales
  <2>2. ProgresoDe(t, 1, 0, 0, <<>>)
    BY <1>4, ProgresoEnReposo
  <2>. QED
    BY <2>1, <2>2 DEF Progreso, Reposo
<1>9. Alojados'
  <2>1. ASSUME NEW q \in DOMAIN ctx
        PROVE  EnPendientes(t, 1, q, ctx[q])
    <3>1. EnPendientes(particiones, 1, q, mapaContextosProcesos[q])
      BY <1>1, <1>5, AlojadosEnReposo DEF IInv, Alojados
    <3>2. PICK j \in 1 .. Len(particiones) : 1 <= j /\ Aloja(particiones[j], q, ctx[q])
      BY <1>5, <3>1 DEF EnPendientes
    <3>3. j # i
      BY <1>3, <1>5, <3>2 DEF Aloja
    <3>. QED
      BY <1>4, <3>2, <3>3 DEF EnPendientes
  <2>. QED
    BY <1>1, <2>1 DEF liberarParticionPorPID, Alojados, AlojadosEn, locales
<1>10. PorRegistrarAlojados'
  <2>1. \A g \in Manejadores : pc'[g] # "registrar"
    BY DEF IInv, TypeOK, Candados, ConContextos, liberarParticionPorPID, Va
  <2>. QED
    BY <2>1 DEF PorRegistrarAlojados
<1>11. indice' >= 1
  BY DEF IInv, liberarParticionPorPID, locales
<1>. QED
  BY <1>4, <1>6, <1>7, <1>8, <1>9, <1>10, <1>11 DEF IInv

LEMMA ConsolidarPasoIInv ==
    ASSUME IInv, NEW h \in Manejadores, ConsolidarPaso(h)
    PROVE  IInv'
<1> DEFINE t == particiones'
<1>0. pc[h] = "consolidando" /\ muParciones = h /\ muContextoProcesos = h
  BY DEF IInv, Candados, ConContextos, ConParticiones, ConsolidarPaso
<1>1. /\ k = 1 /\ inicio = 0 /\ pedazoLibre = 0 /\ particionesOcupadas = <<>>
      /\ \A g \in Manejadores : pc[g] # "compactando"
  BY <1>0, SinCompactacion
<1>2. Mesa(particiones)
  BY DEF IInv
<1>3. Mesa(t) /\ Conserva(particiones, t)
  <2>1. CASE particiones' = particiones
    <3>1. Conserva(particiones, particiones)
      BY DEF Conserva
    <3>. QED
      BY <1>2, <2>1, <3>1
  <2>2. CASE Fusionables(indice) /\ particiones' = Fusionada(indice)
    <3>1. Len(particiones) \in Nat
      BY <1>2, MesaTipos
    <3>2. indice \in 1 .. Len(particiones) - 1
      BY <3>1 DEF IInv, TypeOK, ConsolidarPaso
    <3>. QED
      BY <1>2, <2>2, <3>2, FusionadaMesa
  <2>. QED
    BY <2>1, <2>2 DEF ConsolidarPaso
<1>4. indice' \in Nat /\ indice' >= 1
  BY DEF IInv, TypeOK, ConsolidarPaso
<1>5. TypeOK'
  BY <1>3, <1>4 DEF IInv, TypeOK, Mesa, ConsolidarPaso, SinPid
<1>6. Candados'
  BY DEF IInv, Candados, ConsolidarPaso
<1>7. Progreso' /\ Reposo'
  <2>1. k' = 1 /\ inicio' = 0 /\ pedazoLibre' = 0 /\ particionesOcupadas' = <<>>
    BY <1>1 DEF ConsolidarPaso
  <2>2. ProgresoDe(t, 1, 0, 0, <<>>)
    BY <1>3, ProgresoEnReposo
  <2>. QED
    BY <2>1, <2>2 DEF Progreso, Reposo
<1>8. Alojados'
  <2>1. ASSUME NEW q \in DOMAIN mapaContextosProcesos
        PROVE  EnPendientes(t, 1, q, mapaContextosProcesos[q])
    <3>1. EnPendientes(particiones, 1, q, mapaContextosProcesos[q])
      BY <1>1, AlojadosEnReposo DEF IInv, Alojados
    <3>2. Len(t) \in Nat
      BY <1>3, MesaTipos
    <3>. QED
      BY <1>3, <3>1, <3>2, ConservaAlojados
  <2>. QED
    BY <1>1, <2>1 DEF ConsolidarPaso, Alojados, AlojadosEn
<1>9. PorRegistrarAlojados'
  <2>1. \A g \in Manejadores : pc'[g] # "registrar"
    BY <1>0 DEF IInv, Candados, ConContextos, ConsolidarPaso
  <2>. QED
    BY <2>1 DEF PorRegistrarAlojados
<1>. QED
  BY <1>3, <1>4, <1>5, <1>6, <1>7, <1>8, <1>9 DEF IInv

LEMMA CompactarLibreIInv ==
    ASSUME IInv, NEW h \in Manejadores, CompactarLibre(h)
    PROVE  IInv'
<1> DEFINE s == particiones
           n == Len(particiones)
<1>1. /\ pc[h] = "compactando" /\ k <= n /\ s[k].IsFree
      /\ pedazoLibre' = pedazoLibre + s[k].Size /\ k' = k + 1
  BY DEF CompactarLibre
<1>2. n \in Nat /\ k \in 1 .. n
      /\ \A j \in 1 .. n : s[j].Base \in Nat /\ s[j].Size \in Nat
  <2>1. n \in Nat /\ \A j \in 1 .. n : s[j].Base \in Nat /\ s[j].Size \in Nat
    BY MesaTipos DEF IInv
  <2>2. k \in 1 .. n + 1
    BY DEF IInv, Progreso, ProgresoDe
  <2>. QED
    BY <1>1, <2>1, <2>2
<1>3. pedazoLibre \in Nat /\ pedazoLibre' \in Nat /\ k' \in Nat /\ inicio \in Nat
  BY <1>1, <1>2 DEF IInv, TypeOK
<1>4. TypeOK'
  BY <1>3 DEF IInv, TypeOK, CompactarLibre, SinPid
<1>5. Candados'
  BY DEF IInv, Candados, CompactarLibre
<1>6. Mesa(particiones)' /\ indice' >= 1
  BY DEF IInv, CompactarLibre, Mesa
<1>7. Reposo'
  BY <1>1 DEF CompactarLibre, Reposo
<1>8. Progreso'
  <2>1. BasePendiente(s, k + 1) = Fin(s[k])
    BY <1>2 DEF IInv, Mesa, Ordenada, Encadenadas, BasePendiente
  <2>2. inicio + pedazoLibre = s[k].Base
    BY <1>1, <1>2 DEF IInv, Progreso, ProgresoDe, BasePendiente
  <2>3. inicio + pedazoLibre' = BasePendiente(s, k + 1)
    BY <1>1, <1>2, <1>3, <2>1, <2>2 DEF Fin
  <2>4. k + 1 \in 1 .. n + 1
    BY <1>2
  <2>5. pedazoLibre' = 0 => pedazoLibre = 0
    BY <1>1, <1>2, <1>3
  <2>6. ProgresoDe(s, k + 1, inicio, pedazoLibre', particionesOcupadas)
    BY <2>3, <2>4, <2>5 DEF IInv, Progreso, ProgresoDe
  <2>. QED
    BY <1>1, <2>6 DEF CompactarLibre, Progreso
<1>9. ASSUME NEW q, NEW c, EnPendientes(s, k, q, c)
      PROVE  EnPendientes(s, k + 1, q, c)
  <2>1. PICK i \in 1 .. n : k <= i /\ Aloja(s[i], q, c)
    BY <1>9 DEF EnPendientes
  <2>2. i # k
    BY <1>1, <2>1 DEF Aloja
  <2>3. k + 1 <= i
    BY <1>2, <2>1, <2>2
  <2>. QED
    BY <2>1, <2>3 DEF EnPendientes
<1>10. Alojados'
  <2>1. AlojadosEn(s, k + 1, particionesOcupadas, mapaContextosProcesos)
    BY <1>9 DEF IInv, Alojados, AlojadosEn
  <2>. QED
    BY <1>1, <2>1 DEF CompactarLibre, Alojados
<1>11. PorRegistrarAlojados'
  BY <1>1, <1>9 DEF IInv, CompactarLibre, PorRegistrarAlojados
<1>. QED
  BY <1>4, <1>5, <1>6, <1>7, <1>8, <1>10, <1>11 DEF IInv

\* The partition that compactarMemoria has moved.
LEMMA MovidaCampos ==
    ASSUME NEW x \in Particion, inicio \in Nat
    PROVE  /\ Movida(x) \in Particion
           /\ Movida(x).Base = inicio /\ Movida(x).Limit = inicio + x.Size - 1
           /\ Movida(x).Size = x.Size /\ Movida(x).PID = x.PID
           /\ Movida(x).IsFree <=> x.IsFree
<1>1. inicio + x.Size - 1 \in Int
  BY DEF Particion
<1>2. Movida(x) \in Particion
  BY <1>1, Zenon DEF Movida, Particion
<1>3. /\ Movida(x).Base = inicio /\ Movida(x).Limit = inicio + x.Size - 1
      /\ Movida(x).Size = x.Size /\ Movida(x).PID = x.PID
      /\ Movida(x).IsFree <=> x.IsFree
  BY DEF Movida, Particion
<1>. QED
  BY <1>2, <1>3

LEMMA CompactarOcupadaIInv ==
    ASSUME IInv, NEW h \in Manejadores, CompactarOcupada(h)
    PROVE  IInv'
<1> DEFINE s == particiones
           n == Len(particiones)
           x == s[k]
           m == Movida(x)
           oc == particionesOcupadas
           ctx == mapaContextosProcesos'
<1>1. /\ pc[h] = "compactando" /\ k <= n /\ ~x.IsFree /\ muContextoProcesos = Nadie
      /\ ctx = cambiarContextoProceso(m.Base, m.Limit, m.PID)
      /\ oc' = Append(oc, m) /\ inicio' = inicio + m.Size /\ k' = k + 1
  BY DEF CompactarOcupada
<1>2. n \in Nat /\ k \in 1 .. n /\ x \in Particion
      /\ \A j \in 1 .. n : s[j].Base \in Nat /\ s[j].Size \in Nat
  <2>1. n \in Nat /\ \A j \in 1 .. n : s[j] \in Particion /\ s[j].Base \in Nat /\ s[j].Size \in Nat
    BY MesaTipos DEF IInv
  <2>2. k \in 1 .. n + 1
    BY DEF IInv, Progreso, ProgresoDe
  <2>. QED
    BY <1>1, <2>1, <2>2
<1>3. pedazoLibre \in Nat /\ inicio \in Nat /\ x.Base \in Nat /\ x.Size \in Nat
  BY <1>2 DEF IInv, TypeOK
<1>4. /\ m \in Particion /\ m.Base = inicio /\ m.Limit = inicio + x.Size - 1
      /\ m.Size = x.Size /\ m.PID = x.PID /\ ~m.IsFree
  BY <1>1, <1>2, <1>3, MovidaCampos
<1> HIDE DEF m
<1>5. /\ x.PID \in Pids /\ Tamano[x.PID] <= x.Size
      /\ Esquema = "DINAMICAS" => x.Size = Tamano[x.PID]
  BY <1>1, <1>2 DEF IInv, Mesa, Cabe, CabeEn
<1>6. CabeEn(m)
  BY <1>4, <1>5 DEF CabeEn
<1>7. /\ oc \in Seq(Particion) /\ Ordenada(oc, inicio) /\ Cabe(oc)
      /\ inicio + pedazoLibre = x.Base
      /\ \A j \in 1 .. Len(oc) : ~oc[j].IsFree
      /\ pedazoLibre = 0 =>
            \A j \in 1 .. Len(oc) : \E i \in 1 .. n : MismoLugar(s[i], oc[j])
  BY <1>1 DEF IInv, TypeOK, Progreso, ProgresoDe, BasePendiente
<1>8. oc' \in Seq(Particion) /\ Ordenada(oc', Fin(m)) /\ Cabe(oc')
  BY <1>1, <1>3, <1>4, <1>6, <1>7, AppendOrdenada
<1>9. Fin(m) = inicio' /\ inicio' \in Nat
  BY <1>1, <1>3, <1>4 DEF Fin
<1>10. /\ Len(oc) \in Nat /\ Len(oc') = Len(oc) + 1 /\ oc'[Len(oc) + 1] = m
       /\ \A j \in 1 .. Len(oc) : oc'[j] = oc[j]
  BY <1>1, <1>4, <1>7, LenProperties, AppendProperties
<1>11. /\ DOMAIN ctx = DOMAIN mapaContextosProcesos
       /\ \A q \in DOMAIN ctx : q # x.PID => ctx[q] = mapaContextosProcesos[q]
       /\ x.PID \in DOMAIN ctx => ctx[x.PID] = [Base |-> m.Base, Limit |-> m.Limit]
       /\ \A q \in DOMAIN ctx : ctx[q] \in Contexto
  <2>1. /\ DOMAIN ctx = DOMAIN mapaContextosProcesos
        /\ \A q \in DOMAIN ctx : q # x.PID => ctx[q] = mapaContextosProcesos[q]
        /\ x.PID \in DOMAIN ctx => ctx[x.PID] = [Base |-> m.Base, Limit |-> m.Limit]
    BY <1>1, <1>4 DEF cambiarContextoProceso
  <2>2. [Base |-> m.Base, Limit |-> m.Limit] \in Contexto
    BY <1>3, <1>4 DEF Contexto
  <2>3. \A q \in DOMAIN mapaContextosProcesos : mapaContextosProcesos[q] \in Contexto
    BY DEF IInv, TypeOK
  <2>. QED
    BY <2>1, <2>2, <2>3, Zenon
<1>12. TypeOK'
  <2>1. ctx \in [DOMAIN ctx -> Contexto] /\ DOMAIN ctx \subseteq Pids
    <3>1. ctx = [q \in DOMAIN ctx |-> ctx[q]]
      BY <1>1 DEF cambiarContextoProceso
    <3>. QED
      BY <1>11, <3>1 DEF IInv, TypeOK
  <2>2. k' \in Nat
    BY <1>1, <1>2
  <2>. QED
    BY <1>8, <1>9, <2>1, <2>2 DEF IInv, TypeOK, CompactarOcupada, SinPid
<1>13. Candados'
  BY DEF IInv, Candados, CompactarOcupada
<1>14. Mesa(particiones)' /\ indice' >= 1
  BY DEF IInv, CompactarOcupada, Mesa
<1>15. Reposo'
  BY <1>1 DEF CompactarOcupada, Reposo
<1>16. Progreso'
  <2>1. BasePendiente(s, k + 1) = Fin(x)
    BY <1>2 DEF IInv, Mesa, Ordenada, Encadenadas, BasePendiente
  <2>2. inicio' + pedazoLibre = BasePendiente(s, k + 1)
    BY <1>1, <1>3, <1>4, <1>7, <2>1 DEF Fin
  <2>3. k + 1 \in 1 .. n + 1
    BY <1>2
  <2>4. \A j \in 1 .. Len(oc') : ~oc'[j].IsFree
    BY <1>4, <1>7, <1>10
  <2>5. ASSUME pedazoLibre = 0, NEW j \in 1 .. Len(oc')
        PROVE  \E i \in 1 .. n : MismoLugar(s[i], oc'[j])
    <3>1. CASE j = Len(oc) + 1
      <4>1. MismoLugar(x, m)
        BY <1>1, <1>3, <1>4, <1>7, <2>5 DEF MismoLugar
      <4>. QED
        BY <1>2, <1>10, <3>1, <4>1
    <3>2. CASE j # Len(oc) + 1
      <4>1. j \in 1 .. Len(oc) /\ oc'[j] = oc[j]
        BY <1>10, <3>2
      <4>. QED
        BY <1>7, <2>5, <4>1
    <3>. QED
      BY <3>1, <3>2
  <2>6. ProgresoDe(s, k + 1, inicio', pedazoLibre, oc')
    BY <1>8, <1>9, <2>2, <2>3, <2>4, <2>5 DEF ProgresoDe
  <2>. QED
    BY <1>1, <2>6 DEF CompactarOcupada, Progreso
<1>17. AlojadosEn(s, k + 1, oc', ctx)
  <2>1. ASSUME NEW q \in DOMAIN ctx
        PROVE  EnPendientes(s, k + 1, q, ctx[q]) \/ EnMovidas(oc', q, ctx[q])
    <3>1. CASE q = x.PID
      <4>1. ctx[q].Base = inicio /\ ctx[q].Limit = inicio + x.Size - 1
        BY <1>4, <1>11, <3>1
      <4>2. Fin(m) = inicio + x.Size /\ Tamano[q] \in Nat
        BY <1>4, <1>5, <3>1, AjustesValidos DEF Fin
      <4>3. Aloja(m, q, ctx[q])
        BY <1>3, <1>4, <1>5, <3>1, <4>1, <4>2 DEF Aloja
      <4>4. Len(oc) + 1 \in 1 .. Len(oc')
        BY <1>10
      <4>. QED
        BY <1>10, <4>3, <4>4 DEF EnMovidas
    <3>2. CASE q # x.PID
      <4>1. ctx[q] = mapaContextosProcesos[q] /\ q \in DOMAIN mapaContextosProcesos
        BY <1>11, <3>2
      <4>2. CASE EnPendientes(s, k, q, ctx[q])
        <5>1. PICK i \in 1 .. n : k <= i /\ Aloja(s[i], q, ctx[q])
          BY <4>2 DEF EnPendientes
        <5>2. i # k
          BY <3>2, <5>1 DEF Aloja
        <5>3. k + 1 <= i
          BY <1>2, <5>1, <5>2
        <5>. QED
          BY <5>1, <5>3 DEF EnPendientes
      <4>3. CASE EnMovidas(oc, q, ctx[q])
        <5>1. PICK j \in 1 .. Len(oc) : Aloja(oc[j], q, ctx[q])
          BY <4>3 DEF EnMovidas
        <5>2. j \in 1 .. Len(oc') /\ oc'[j] = oc[j]
          BY <1>10
        <5>. QED
          BY <5>1, <5>2 DEF EnMovidas
      <4>. QED
        BY <4>1, <4>2, <4>3 DEF IInv, Alojados, AlojadosEn
    <3>. QED
      BY <3>1, <3>2
  <2>. QED
    BY <2>1 DEF AlojadosEn
<1>18. Alojados'
  BY <1>1, <1>17 DEF CompactarOcupada, Alojados
<1>19. PorRegistrarAlojados'
  <2>1. \A g \in Manejadores : pc'[g] # "registrar"
    BY <1>1, AjustesValidos DEF IInv, Candados, ConContextos, CompactarOcupada
  <2>. QED
    BY <2>1 DEF PorRegistrarAlojados
<1>. QED
  BY <1>12, <1>13, <1>14, <1>15, <1>16, <1>18, <1>19 DEF IInv

\* The table that compactarMemoria leaves houses every context.
LEMMA CompactarFinIInv ==
    ASSUME IInv, NEW h \in Manejadores, CompactarFin(h)
    PROVE  IInv'
<1> DEFINE s == particiones
           t == particiones'
           oc == particionesOcupadas
           r == ParticionLibre(inicio, pedazoLibre)
<1>1. /\ pc[h] = "compactando" /\ k > Len(s) /\ muParciones' = Nadie
      /\ k' = 1 /\ inicio' = 0 /\ pedazoLibre' = 0 /\ oc' = <<>>
      /\ pedazoLibre = 0 => t = s
      /\ pedazoLibre # 0 => t = Append(oc, r)
  BY DEF CompactarFin, Va
<1>2. Len(s) \in Nat /\ Mesa(s) /\ k \in Nat
  BY MesaTipos DEF IInv, TypeOK
<1>3. /\ oc \in Seq(Particion) /\ Ordenada(oc, inicio) /\ Cabe(oc)
      /\ inicio \in Nat /\ pedazoLibre \in Nat /\ inicio + pedazoLibre = Total
      /\ pedazoLibre = 0 =>
            \A j \in 1 .. Len(oc) : \E i \in 1 .. Len(s) : MismoLugar(s[i], oc[j])
  BY <1>1, <1>2 DEF IInv, TypeOK, Progreso, ProgresoDe, BasePendiente
<1>4. /\ r \in Particion /\ r.Base = inicio /\ Fin(r) = Total /\ CabeEn(r)
  <2>1. inicio + pedazoLibre - 1 \in Int
    BY <1>3
  <2>2. r \in Particion /\ r.Base = inicio /\ r.Size = pedazoLibre /\ r.IsFree
    BY <1>3, <2>1 DEF ParticionLibre, Particion
  <2>. QED
    BY <1>3, <2>2 DEF Fin, CabeEn
<1> HIDE DEF r
<1>5. Mesa(t)
  <2>1. CASE pedazoLibre = 0
    BY <1>1, <1>2, <2>1
  <2>2. CASE pedazoLibre # 0
    BY <1>1, <1>3, <1>4, <2>2, AppendOrdenada DEF Mesa
  <2>. QED
    BY <2>1, <2>2
<1>6. TypeOK'
  <2>1. oc' \in Seq(Particion)
    BY <1>1, EmptySeq
  <2>. QED
    BY <1>1, <1>5, <2>1 DEF IInv, TypeOK, Mesa, CompactarFin, Va, SinPid, Pcs
<1>7. Candados'
  BY AjustesValidos DEF IInv, TypeOK, CompactarFin, Va, Candados, ConContextos, ConParticiones
<1>8. Progreso' /\ Reposo'
  <2>1. ProgresoDe(t, 1, 0, 0, <<>>)
    BY <1>5, ProgresoEnReposo
  <2>. QED
    BY <1>1, <2>1 DEF Progreso, Reposo
<1>9. Alojados'
  <2>1. ASSUME NEW q \in DOMAIN mapaContextosProcesos
        PROVE  EnPendientes(t, 1, q, mapaContextosProcesos[q])
    <3> DEFINE c == mapaContextosProcesos[q]
    <3>1. ~EnPendientes(s, k, q, c)
      BY <1>1, <1>2 DEF EnPendientes
    <3>2. EnMovidas(oc, q, c)
      BY <3>1 DEF IInv, Alojados, AlojadosEn
    <3>3. PICK j \in 1 .. Len(oc) : Aloja(oc[j], q, c)
      BY <3>2 DEF EnMovidas
    <3> HIDE DEF c
    <3>4. CASE pedazoLibre = 0
      <4>1. PICK i \in 1 .. Len(s) : MismoLugar(s[i], oc[j])
        BY <1>3, <3>4
      <4>2. Aloja(s[i], q, c)
        BY <3>3, <4>1 DEF MismoLugar, Aloja, Fin
      <4>. QED
        BY <1>1, <1>2, <3>4, <4>2 DEF EnPendientes, c
    <3>5. CASE pedazoLibre # 0
      <4>1. /\ Len(oc) \in Nat /\ Len(Append(oc, r)) = Len(oc) + 1
            /\ \A i \in 1 .. Len(oc) : Append(oc, r)[i] = oc[i]
        BY <1>3, <1>4, LenProperties, AppendProperties
      <4>2. Len(t) = Len(oc) + 1 /\ t[j] = oc[j]
        BY <1>1, <3>5, <4>1
      <4>3. j \in 1 .. Len(t) /\ 1 <= j
        BY <4>1, <4>2
      <4>. QED
        BY <3>3, <4>2, <4>3 DEF EnPendientes, c
    <3>. QED
      BY <3>4, <3>5
  <2>. QED
    BY <1>1, <2>1 DEF CompactarFin, Alojados, AlojadosEn
<1>10. PorRegistrarAlojados'
  <2>1. \A g \in Manejadores : pc[g] # "registrar"
    BY <1>1, <1>2 DEF IInv, PorRegistrarAlojados, EnPendientes
  <2>2. \A g \in Manejadores : pc'[g] # "registrar"
    BY <2>1 DEF IInv, TypeOK, CompactarFin, Va
  <2>. QED
    BY <2>2 DEF PorRegistrarAlojados
<1>11. indice' >= 1
  BY DEF IInv, CompactarFin
<1>. QED
  BY <1>5, <1>6, <1>7, <1>8, <1>9, <1>10, <1>11 DEF IInv

-----------------------------------------------------------------------------

LEMMA PasoIInv == IInv /\ [Next]_vars => IInv'
<1> SUFFICES ASSUME IInv, [Next]_vars PROVE IInv'
  OBVIOUS
<1>1. CASE UNCHANGED vars
  <2>1. MismaMemoria /\ TypeOK' /\ Candados' /\ indice' >= 1
    BY <1>1 DEF IInv, vars, locales, MismaMemoria, TypeOK, SinPid, Candados
  <2>. QED
    BY <1>1, <2>1, MarcoIInv DEF vars
<1>2. ASSUME NEW h \in Manejadores, NEW p \in Pids, PedirCrear(h, p) \/ PedirFinalizar(h, p)
      PROVE  IInv'
  BY <1>2, PedirIInv
<1>3. ASSUME NEW h \in Manejadores, PedirCompactar(h) PROVE IInv'
  BY <1>3, PedirCompactarIInv
<1>4. ASSUME NEW h \in Manejadores, Avanza(h) PROVE IInv'
  <2>1. CASE TomarContextos(h) \/ Salir(h)
    BY <2>1, TomarContextosIInv, SalirIInv
  <2>2. CASE AsignarHueco(h)
    BY <2>2, AsignarHuecoIInv
  <2>3. CASE NoHayHueco(h) \/ ProcesoNoEncontrado(h)
    BY <2>3, RechazoIInv
  <2>4. CASE RegistrarContexto(h)
    BY <2>4, RegistrarContextoIInv
  <2>5. CASE liberarParticionPorPID(h)
    BY <2>5, liberarParticionPorPIDIInv
  <2>6. CASE ProcesoDestruido(h)
    BY <2>6, ProcesoDestruidoIInv
  <2>7. CASE ConsolidarMemoria(h) \/ CompactarInicio(h)
    BY <2>7, RecorridoIInv
  <2>8. CASE ConsolidarPaso(h)
    BY <2>8, ConsolidarPasoIInv
  <2>9. CASE ConsolidarFin(h)
    BY <2>9, ConsolidarFinIInv
  <2>10. CASE CompactarLibre(h)
    BY <2>10, CompactarLibreIInv
  <2>11. CASE CompactarOcupada(h)
    BY <2>11, CompactarOcupadaIInv
  <2>12. CASE CompactarFin(h)
    BY <2>12, CompactarFinIInv
  <2>. QED
    BY <1>4, <2>1, <2>2, <2>3, <2>4, <2>5, <2>6, <2>7, <2>8, <2>9, <2>10, <2>11, <2>12
    DEF Avanza
<1>. QED
  BY <1>1, <1>2, <1>3, <1>4 DEF Next

\* The inductive invariant holds in every reachable state, for any number of
\* concurrent requests, any memory and any set of processes.
THEOREM Invariante == Spec => []IInv
<1>. QED
  BY InitIInv, PasoIInv, PTL DEF Spec

\* Type correctness.
THEOREM TipoCorrecto == Spec => []TypeOK
<1>1. IInv => TypeOK
  BY DEF IInv
<1>. QED
  BY <1>1, Invariante, PTL

\* The partitions always tile the memory: createProceso's splits, the merges of
\* ConsolidarMemoria and compactarMemoria lose and duplicate no byte.
THEOREM MesaCompleta == Spec => []Mosaico
<1>1. IInv => Mosaico
  BY DEF IInv, Mesa, Ordenada, Mosaico
<1>. QED
  BY <1>1, Invariante, PTL

LEMMA ParticionCampos ==
    \A y \in Particion : y.Base \in Nat /\ y.Size \in Nat /\ Fin(y) \in Nat
BY DEF Particion, Fin

\* Two contexts in the same sequence of disjoint partitions are disjoint.
LEMMA MismaSecuenciaAjenos ==
    ASSUME NEW s \in Seq(Particion), NEW fin, Ordenada(s, fin),
           NEW i \in 1 .. Len(s), NEW j \in 1 .. Len(s), NEW p, NEW q, p # q, NEW c \in Contexto, NEW d \in Contexto,
           Aloja(s[i], p, c), Aloja(s[j], q, d)
    PROVE  Ajenos(c, d)
<1>1. i # j
  BY DEF Aloja
<1>2. /\ s[i].Base = c.Base /\ c.Limit < Fin(s[i])
      /\ s[j].Base = d.Base /\ d.Limit < Fin(s[j])
  BY DEF Aloja
<1>3. i < j => Fin(s[i]) <= s[j].Base
  BY DEF Ordenada
<1>4. j < i => Fin(s[j]) <= s[i].Base
  BY DEF Ordenada
<1>5. /\ s[i] \in Particion /\ s[j] \in Particion
      /\ Fin(s[i]) \in Nat /\ Fin(s[j]) \in Nat
  <2>1. s[i] \in Particion /\ s[j] \in Particion
    BY ElementOfSeq
  <2>2. \A y \in Particion : y.Base \in Nat /\ Fin(y) \in Nat
    BY ParticionCampos
  <2>. QED
    BY <2>1, <2>2
<1>6. c.Base \in Int /\ c.Limit \in Int /\ d.Base \in Int /\ d.Limit \in Int
  BY DEF Contexto
<1>7. i < j \/ j < i
  BY <1>1
<1>. QED
  BY <1>2, <1>3, <1>4, <1>5, <1>6, <1>7 DEF Ajenos

\* What is still to be moved lies above what has been moved.
LEMMA PendienteSobreMovida ==
    ASSUME IInv, NEW i \in 1 .. Len(particiones), k <= i,
           NEW j \in 1 .. Len(particionesOcupadas)
    PROVE  /\ Fin(particionesOcupadas[j]) <= particiones[i].Base
           /\ Fin(particionesOcupadas[j]) <= Total
           /\ particionesOcupadas[j].Base \in Nat /\ Fin(particionesOcupadas[j]) \in Nat
<1> DEFINE s == particiones
           oc == particionesOcupadas
<1>1. Len(s) \in Nat /\ k \in 1 .. Len(s) + 1 /\ inicio \in Nat /\ pedazoLibre \in Nat
      /\ \A a \in 1 .. Len(s) : s[a].Base \in Nat /\ s[a].Size \in Nat
      /\ inicio + pedazoLibre = BasePendiente(s, k) /\ Ordenada(oc, inicio)
      /\ oc \in Seq(Particion) /\ Ordenada(s, Total)
  BY MesaTipos DEF IInv, TypeOK, Mesa, Progreso, ProgresoDe
<1>2. k \in 1 .. Len(s)
  BY <1>1
<1>3. inicio <= s[k].Base /\ s[k].Base <= Fin(s[k]) /\ Fin(s[k]) \in Nat
  BY <1>1, <1>2 DEF BasePendiente, Fin
<1>4. s[k].Base <= s[i].Base
  <2>1. CASE k = i
    BY <1>1, <2>1
  <2>2. CASE k < i
    <3>1. Fin(s[k]) <= s[i].Base
      BY <1>1, <1>2, <2>2 DEF Ordenada
    <3>. QED
      BY <1>1, <1>2, <1>3, <3>1
  <2>. QED
    BY <1>1, <2>1, <2>2
<1>5. s[i].Base <= Total
  <2>1. Fin(s[i]) <= Total /\ s[i].Base <= Fin(s[i]) /\ Fin(s[i]) \in Nat
    BY <1>1 DEF Ordenada, Fin
  <2>. QED
    BY <1>1, <2>1, TotalEsNat
<1>6. oc[j].Base \in Nat /\ Fin(oc[j]) \in Nat /\ Fin(oc[j]) <= inicio
  <2>1. oc[j] \in Particion
    BY <1>1, ElementOfSeq
  <2>2. \A y \in Particion : y.Base \in Nat /\ Fin(y) \in Nat
    BY ParticionCampos
  <2>. QED
    BY <1>1, <2>1, <2>2 DEF Ordenada
<1>. QED
  BY <1>1, <1>2, <1>3, <1>4, <1>5, <1>6, TotalEsNat

\* Where a context lies, and how large it is.
LEMMA AlojadoCabe ==
    ASSUME IInv, NEW p \in DOMAIN mapaContextosProcesos
    PROVE  LET c == mapaContextosProcesos[p] IN
           /\ p \in Pids /\ c \in Contexto
           /\ 0 <= c.Base /\ c.Limit < Total
           /\ Tamano[p] <= c.Limit - c.Base + 1
           /\ Esquema = "DINAMICAS" => c.Limit - c.Base + 1 = Tamano[p]
<1> DEFINE c == mapaContextosProcesos[p]
<1>1. p \in Pids /\ c \in Contexto /\ c.Base \in Int /\ c.Limit \in Int /\ Total \in Nat
  BY TotalEsNat DEF IInv, TypeOK, Contexto
<1>2. EnPendientes(particiones, k, p, c) \/ EnMovidas(particionesOcupadas, p, c)
  BY DEF IInv, Alojados, AlojadosEn
<1>3. \A y \in Particion : y.Base \in Nat /\ Fin(y) \in Nat
  BY ParticionCampos
<1> HIDE DEF c
<1>4. ASSUME NEW x \in Particion, Fin(x) <= Total, Aloja(x, p, c)
      PROVE  /\ 0 <= c.Base /\ c.Limit < Total
             /\ Tamano[p] <= c.Limit - c.Base + 1
             /\ Esquema = "DINAMICAS" => c.Limit - c.Base + 1 = Tamano[p]
  BY <1>1, <1>3, <1>4 DEF Aloja
<1>5. CASE EnPendientes(particiones, k, p, c)
  <2>1. PICK i \in 1 .. Len(particiones) : Aloja(particiones[i], p, c)
    BY <1>5 DEF EnPendientes
  <2>2. particiones[i] \in Particion /\ Fin(particiones[i]) <= Total
    BY MesaTipos DEF IInv, Mesa, Ordenada
  <2>. QED
    BY <1>1, <1>4, <2>1, <2>2 DEF c
<1>6. CASE EnMovidas(particionesOcupadas, p, c)
  <2>1. PICK j \in 1 .. Len(particionesOcupadas) : Aloja(particionesOcupadas[j], p, c)
    BY <1>6 DEF EnMovidas
  <2>2. /\ particionesOcupadas[j] \in Particion
        /\ Fin(particionesOcupadas[j]) <= inicio
        /\ inicio \in Nat /\ pedazoLibre \in Nat
    BY ElementOfSeq DEF IInv, TypeOK, Progreso, ProgresoDe, Ordenada
  <2>3. inicio + pedazoLibre <= Total
    <3>1. inicio + pedazoLibre = BasePendiente(particiones, k)
      BY DEF IInv, Progreso, ProgresoDe
    <3>2. CASE k <= Len(particiones)
      <4>1. k \in 1 .. Len(particiones)
        BY <3>2, MesaTipos DEF IInv, Progreso, ProgresoDe
      <4>2. Fin(particiones[k]) <= Total /\ particiones[k] \in Particion
        BY <4>1, MesaTipos DEF IInv, Mesa, Ordenada
      <4>3. particiones[k].Base <= Fin(particiones[k])
            /\ particiones[k].Base \in Nat /\ Fin(particiones[k]) \in Nat
        BY <4>2 DEF Particion, Fin
      <4>. QED
        BY <1>1, <3>1, <3>2, <4>2, <4>3 DEF BasePendiente
    <3>3. CASE ~(k <= Len(particiones))
      BY <1>1, <3>1, <3>3 DEF BasePendiente
    <3>. QED
      BY <3>2, <3>3
  <2>4. Fin(particionesOcupadas[j]) <= Total
    BY <1>1, <1>3, <2>2, <2>3
  <2>. QED
    BY <1>1, <1>4, <2>1, <2>2, <2>4 DEF c
<1>. QED
  BY <1>1, <1>2, <1>5, <1>6 DEF c

\* Two processes own disjoint bytes, also in the middle of a compaction.
LEMMA AlojadosAjenos ==
    ASSUME IInv, NEW p \in DOMAIN mapaContextosProcesos,
           NEW q \in DOMAIN mapaContextosProcesos, p # q
    PROVE  Ajenos(mapaContextosProcesos[p], mapaContextosProcesos[q])
<1> DEFINE s == particiones
           oc == particionesOcupadas
           c == mapaContextosProcesos[p]
           d == mapaContextosProcesos[q]
<1>1. /\ c \in Contexto /\ c.Base \in Int /\ c.Limit \in Int
      /\ d \in Contexto /\ d.Base \in Int /\ d.Limit \in Int
  BY DEF IInv, TypeOK, Contexto
<1>2. /\ EnPendientes(s, k, p, c) \/ EnMovidas(oc, p, c)
      /\ EnPendientes(s, k, q, d) \/ EnMovidas(oc, q, d)
  BY DEF IInv, Alojados, AlojadosEn
<1>3. /\ s \in Seq(Particion) /\ Ordenada(s, Total)
      /\ oc \in Seq(Particion) /\ Ordenada(oc, inicio)
  BY DEF IInv, TypeOK, Mesa, Progreso, ProgresoDe
<1> HIDE DEF c, d
<1>4. CASE EnPendientes(s, k, p, c) /\ EnPendientes(s, k, q, d)
  BY <1>1, <1>3, <1>4, MismaSecuenciaAjenos DEF EnPendientes, c, d
<1>5. CASE EnMovidas(oc, p, c) /\ EnMovidas(oc, q, d)
  BY <1>1, <1>3, <1>5, MismaSecuenciaAjenos DEF EnMovidas, c, d
<1>6. CASE EnMovidas(oc, p, c) /\ EnPendientes(s, k, q, d)
  <2>1. PICK j \in 1 .. Len(oc) : Aloja(oc[j], p, c)
    BY <1>6 DEF EnMovidas
  <2>2. PICK i \in 1 .. Len(s) : k <= i /\ Aloja(s[i], q, d)
    BY <1>6 DEF EnPendientes
  <2>3. Fin(oc[j]) <= s[i].Base /\ Fin(oc[j]) \in Nat
    BY <2>2, PendienteSobreMovida
  <2>. QED
    BY <1>1, <2>1, <2>2, <2>3 DEF Aloja, Ajenos, c, d
<1>7. CASE EnPendientes(s, k, p, c) /\ EnMovidas(oc, q, d)
  <2>1. PICK j \in 1 .. Len(oc) : Aloja(oc[j], q, d)
    BY <1>7 DEF EnMovidas
  <2>2. PICK i \in 1 .. Len(s) : k <= i /\ Aloja(s[i], p, c)
    BY <1>7 DEF EnPendientes
  <2>3. Fin(oc[j]) <= s[i].Base /\ Fin(oc[j]) \in Nat
    BY <2>2, PendienteSobreMovida
  <2>. QED
    BY <1>1, <2>1, <2>2, <2>3 DEF Aloja, Ajenos, c, d
<1>. QED
  BY <1>2, <1>4, <1>5, <1>6, <1>7 DEF c, d

\* Isolation: no two live processes ever share a byte, whatever requests run
\* at once and in whatever order their steps interleave.
THEOREM ProcesosAislados == Spec => []Aislamiento
<1>1. IInv => Aislamiento
  BY AlojadoCabe, AlojadosAjenos DEF Aislamiento
<1>. QED
  BY <1>1, Invariante, PTL

-----------------------------------------------------------------------------
(***************************************************************************)
(* The map of contexts implements Segmentos.                               *)
(***************************************************************************)

\* Every context is a segment that Segmentos allows.
Servidos(ctx) ==
    \A p \in DOMAIN ctx :
        /\ p \in Pids
        /\ Promesa!Sirve(p, ctx[p])
        /\ \A q \in DOMAIN ctx \ {p} : Promesa!Separados(ctx[p], ctx[q])

LEMMA ContextosServidos == IInv => Servidos(mapaContextosProcesos)
<1> SUFFICES ASSUME IInv, NEW p \in DOMAIN mapaContextosProcesos
             PROVE  /\ p \in Pids
                    /\ Promesa!Sirve(p, mapaContextosProcesos[p])
                    /\ \A q \in DOMAIN mapaContextosProcesos \ {p} :
                          Promesa!Separados(mapaContextosProcesos[p], mapaContextosProcesos[q])
  BY DEF Servidos
<1> DEFINE c == mapaContextosProcesos[p]
<1>1. /\ p \in Pids /\ c \in Contexto
      /\ 0 <= c.Base /\ c.Limit < Total
      /\ Tamano[p] <= c.Limit - c.Base + 1
      /\ Esquema = "DINAMICAS" => c.Limit - c.Base + 1 = Tamano[p]
  BY AlojadoCabe
<1>2. c.Base \in Int /\ c.Limit \in Int /\ Tamano[p] \in Int
  BY <1>1, AjustesValidos DEF Contexto
<1>3. \A q \in DOMAIN mapaContextosProcesos \ {p} : Promesa!Separados(c, mapaContextosProcesos[q])
  BY AlojadosAjenos DEF Ajenos, Promesa!Separados
<1> HIDE DEF c
<1>4. Promesa!Sirve(p, c)
  BY <1>1, <1>2 DEF Promesa!Sirve, Promesa!Largo, Promesa!Segmento, Contexto
<1>. QED
  BY <1>1, <1>3, <1>4 DEF c

LEMMA ContextosServidosDespues == IInv' => Servidos(mapaContextosProcesos)'
<1>1. (IInv => Servidos(mapaContextosProcesos))'
  BY ContextosServidos, PTL
<1>. QED
  BY <1>1

\* A step that gives p a segment, and leaves the other processes theirs, is
\* one that Segmentos allows.
LEMMA UbicarPermitido ==
    ASSUME IInv', NEW p,
           DOMAIN mapaContextosProcesos' = DOMAIN mapaContextosProcesos \cup {p},
           mapaContextosProcesos' = [q \in DOMAIN mapaContextosProcesos \cup {p} |->
               IF q = p THEN mapaContextosProcesos'[p] ELSE mapaContextosProcesos[q]]
    PROVE  p \in Pids /\ Promesa!Ubicar(p)
<1> DEFINE ctx == mapaContextosProcesos'
<1>1. Servidos(ctx)
  BY ContextosServidosDespues
<1>2. /\ p \in DOMAIN ctx /\ p \in Pids /\ Promesa!Sirve(p, ctx[p])
      /\ \A q \in DOMAIN ctx \ {p} : Promesa!Separados(ctx[p], ctx[q])
  BY <1>1 DEF Servidos
<1>3. \A q \in DOMAIN mapaContextosProcesos \ {p} : ctx[q] = mapaContextosProcesos[q]
  OBVIOUS
<1>4. \A q \in DOMAIN mapaContextosProcesos \ {p} :
         Promesa!Separados(ctx[p], mapaContextosProcesos[q])
  BY <1>2, <1>3
<1>. QED
  BY <1>2, <1>4 DEF Promesa!Ubicar

LEMMA PasoPermitido ==
    IInv /\ IInv' /\ [Next]_vars => [Promesa!Next]_mapaContextosProcesos
<1> SUFFICES ASSUME IInv, IInv', [Next]_vars
             PROVE  Promesa!Next \/ UNCHANGED mapaContextosProcesos
  OBVIOUS
<1>1. ASSUME NEW h \in Manejadores, RegistrarContexto(h)
      PROVE  Promesa!Next
  <2>1. /\ DOMAIN mapaContextosProcesos' = DOMAIN mapaContextosProcesos \cup {pid[h]}
        /\ mapaContextosProcesos' = [q \in DOMAIN mapaContextosProcesos \cup {pid[h]} |->
              IF q = pid[h] THEN mapaContextosProcesos'[pid[h]] ELSE mapaContextosProcesos[q]]
    BY <1>1 DEF RegistrarContexto
  <2>. QED
    BY <2>1, UbicarPermitido DEF Promesa!Next
<1>2. ASSUME NEW h \in Manejadores, liberarParticionPorPID(h)
      PROVE  Promesa!Next
  <2>1. pid[h] \in Pids
    BY <1>2 DEF liberarParticionPorPID, Va, IInv, TypeOK, SinPid
  <2>2. Promesa!Terminar(pid[h])
    BY <1>2 DEF liberarParticionPorPID, Promesa!Terminar
  <2>. QED
    BY <2>1, <2>2 DEF Promesa!Next
<1>3. ASSUME NEW h \in Manejadores, CompactarOcupada(h)
      PROVE  Promesa!Next \/ UNCHANGED mapaContextosProcesos
  <2> DEFINE m == Movida(particiones[k])
             d == [Base |-> m.Base, Limit |-> m.Limit]
  <2>1. mapaContextosProcesos' =
           [q \in DOMAIN mapaContextosProcesos |->
               IF q = m.PID THEN d ELSE mapaContextosProcesos[q]]
    BY <1>3 DEF CompactarOcupada, cambiarContextoProceso
  <2> HIDE DEF m, d
  <2>2. CASE m.PID \in DOMAIN mapaContextosProcesos
    <3>1. DOMAIN mapaContextosProcesos' = DOMAIN mapaContextosProcesos \cup {m.PID}
      BY <2>1, <2>2
    <3>2. mapaContextosProcesos' = [q \in DOMAIN mapaContextosProcesos \cup {m.PID} |->
             IF q = m.PID THEN mapaContextosProcesos'[m.PID] ELSE mapaContextosProcesos[q]]
      BY <2>1, <2>2
    <3>. QED
      BY <3>1, <3>2, UbicarPermitido DEF Promesa!Next
  <2>3. CASE m.PID \notin DOMAIN mapaContextosProcesos
    <3>1. mapaContextosProcesos' =
             [q \in DOMAIN mapaContextosProcesos |-> mapaContextosProcesos[q]]
      BY <2>1, <2>3
    <3>2. mapaContextosProcesos =
             [q \in DOMAIN mapaContextosProcesos |-> mapaContextosProcesos[q]]
      BY DEF IInv, TypeOK
    <3>. QED
      BY <3>1, <3>2
  <2>. QED
    BY <2>2, <2>3
<1>4. ASSUME NEW h \in Manejadores, Avanza(h), ~RegistrarContexto(h),
             ~liberarParticionPorPID(h), ~CompactarOcupada(h)
      PROVE  UNCHANGED mapaContextosProcesos
  BY <1>4 DEF Avanza, TomarContextos, Salir, AsignarHueco, NoHayHueco, ProcesoNoEncontrado,
     ProcesoDestruido, ConsolidarMemoria, ConsolidarPaso, ConsolidarFin, CompactarInicio,
     CompactarLibre, CompactarFin
<1>5. ASSUME NEW h \in Manejadores,
             \/ \E p \in Pids : PedirCrear(h, p) \/ PedirFinalizar(h, p)
             \/ PedirCompactar(h)
      PROVE  UNCHANGED mapaContextosProcesos
  BY <1>5 DEF PedirCrear, PedirFinalizar, PedirCompactar, Llega
<1>6. CASE UNCHANGED vars
  BY <1>6 DEF vars
<1>. QED
  BY <1>1, <1>2, <1>3, <1>4, <1>5, <1>6 DEF Next

\* What the kernel and the CPU are promised is what the memory server does,
\* in every interleaving of its handlers.
THEOREM PromesaCumplida == Spec => CumplePromesa
<1>1. Init => Promesa!Init
  BY Zenon DEF Init, Promesa!Init
<1>. QED
  BY <1>1, PasoPermitido, Invariante, PTL DEF Spec, CumplePromesa, Promesa!Spec
=============================================================================
