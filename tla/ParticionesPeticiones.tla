----------------------- MODULE ParticionesPeticiones -----------------------
(***************************************************************************)
(* What the clients of memoria are told, and what a request leaves behind: *)
(* a process whose creation was acknowledged keeps its context until it is *)
(* ended, a process that is ended leaves no two holes side by side, fixed  *)
(* partitions keep their place, a compaction makes room, and no partition  *)
(* stays occupied on behalf of nobody.                                     *)
(***************************************************************************)
EXTENDS ParticionesPasos

-----------------------------------------------------------------------------
(***************************************************************************)
(* The acknowledged processes.                                             *)
(***************************************************************************)

DelFinal == {"finalizar", "liberar", "destruido", "consolidar", "consolidando"}

UnoPorPid ==
    \A g, h \in Manejadores : g # h /\ pid[g] = pid[h] => pid[g] = NingunPid

\* Who is being ended is not acknowledged any more.
FinalSinConfirmar == \A h \in Manejadores : pc[h] \in DelFinal => pid[h] \notin confirmados

\* "creado" is on its way only when the context is there.
CreadoConContexto ==
    \A h \in Manejadores : respuesta[h] = "creado" =>
        pc[h] = "salir" /\ pid[h] \in DOMAIN mapaContextosProcesos

IClientes ==
    UnoPorPid /\ FinalSinConfirmar /\ CreadoConContexto /\ ConfirmadoTieneContexto

LEMMA PidVerdadero == \A p \in Pids : p # NingunPid
BY AjustesValidos DEF NingunPid

LEMMA InicioClientes == Init => IClientes
BY DEF Init, IClientes, UnoPorPid, FinalSinConfirmar, CreadoConContexto,
   ConfirmadoTieneContexto, DelFinal

LEMMA PideClientes ==
    ASSUME TypeOK, IClientes, NEW h \in Manejadores,
           \/ PedirCompactar(h)
           \/ \E p \in Pids : PedirCrear(h, p) \/ PedirFinalizar(h, p)
    PROVE  IClientes'
<1>1. PICK q, op :
          /\ Llega(h, q, op)
          /\ q = NingunPid \/ ~EnVuelo(q)
          /\ confirmados' \subseteq confirmados
          /\ op \in DelFinal => q \notin confirmados'
  BY DEF PedirCompactar, PedirCrear, PedirFinalizar, DelFinal
<1>2. /\ pc[h] = "libre" /\ pc' = [pc EXCEPT ![h] = op] /\ pid' = [pid EXCEPT ![h] = q]
      /\ UNCHANGED <<respuesta, mapaContextosProcesos>>
  BY <1>1 DEF Llega, Va
<1>3. UnoPorPid'
  BY <1>1, <1>2 DEF TypeOK, IClientes, UnoPorPid, EnVuelo
<1>4. FinalSinConfirmar'
  BY <1>1, <1>2 DEF TypeOK, IClientes, FinalSinConfirmar
<1>5. CreadoConContexto'
  BY <1>2 DEF TypeOK, IClientes, CreadoConContexto
<1>6. ConfirmadoTieneContexto'
  BY <1>1, <1>2 DEF IClientes, ConfirmadoTieneContexto
<1>. QED
  BY <1>3, <1>4, <1>5, <1>6 DEF IClientes

LEMMA SaleClientes ==
    ASSUME TypeOK, IClientes, NEW h \in Manejadores, Salir(h)
    PROVE  IClientes'
<1>1. /\ pc[h] = "salir" /\ pc' = [pc EXCEPT ![h] = "libre"] /\ pid[h] \in Pids
      /\ pid' = [pid EXCEPT ![h] = NingunPid]
      /\ respuesta' = [respuesta EXCEPT ![h] = ""]
      /\ mapaContextosProcesos' = mapaContextosProcesos
  BY DEF Salir, Va, TypeOK, SinPid
<1>2. pid[h] # NingunPid
  BY <1>1, PidVerdadero
<1>3. confirmados' \subseteq confirmados \cup {pid[h]}
      /\ (confirmados' = confirmados \/ respuesta[h] = "creado")
  BY DEF Salir
<1>4. UnoPorPid'
  BY <1>1 DEF TypeOK, IClientes, UnoPorPid
<1>5. FinalSinConfirmar'
  <2>1. ASSUME NEW g \in Manejadores, pc'[g] \in DelFinal PROVE pid'[g] \notin confirmados'
    <3>1. g # h
      BY <1>1, <2>1 DEF TypeOK, DelFinal
    <3>2. pc[g] \in DelFinal /\ pid'[g] = pid[g] /\ pid[g] # pid[h]
      BY <1>1, <1>2, <2>1, <3>1 DEF TypeOK, IClientes, UnoPorPid
    <3>. QED
      BY <1>3, <3>2 DEF IClientes, FinalSinConfirmar
  <2>. QED
    BY <2>1 DEF FinalSinConfirmar
<1>6. CreadoConContexto'
  BY <1>1 DEF TypeOK, IClientes, CreadoConContexto
<1>7. ConfirmadoTieneContexto'
  BY <1>1, <1>3 DEF IClientes, CreadoConContexto, ConfirmadoTieneContexto
<1>. QED
  BY <1>4, <1>5, <1>6, <1>7 DEF IClientes

\* A context is added with its acknowledgement, and taken away from who is
\* being ended; no other step matters to the clients.
LEMMA AvanzaClientes ==
    ASSUME TypeOK, IClientes, NEW h \in Manejadores, NEW de, NEW a, Va(h, de, a),
           a \in DelFinal => de \in DelFinal, de # "salir",
           UNCHANGED <<pid, confirmados>>,
           \A g \in Manejadores : respuesta'[g] = respuesta[g] \/ g = h,
           respuesta'[h] = "creado" /\ respuesta[h] # "creado" =>
               a = "salir" /\ pid[h] \in DOMAIN mapaContextosProcesos',
           \/ DOMAIN mapaContextosProcesos \subseteq DOMAIN mapaContextosProcesos'
           \/ /\ de \in DelFinal
              /\ DOMAIN mapaContextosProcesos \ {pid[h]} \subseteq DOMAIN mapaContextosProcesos'
    PROVE  IClientes'
<1>1. pc[h] = de /\ pc' = [pc EXCEPT ![h] = a]
  BY DEF Va
<1>2. respuesta[h] # "creado"
  BY <1>1 DEF IClientes, CreadoConContexto
<1>3. UnoPorPid'
  BY DEF IClientes, UnoPorPid
<1>4. FinalSinConfirmar'
  BY <1>1 DEF TypeOK, IClientes, FinalSinConfirmar
<1>5. CreadoConContexto'
  <2>1. ASSUME NEW g \in Manejadores, respuesta'[g] = "creado"
        PROVE  pc'[g] = "salir" /\ pid'[g] \in DOMAIN mapaContextosProcesos'
    <3>1. CASE g = h
      BY <1>1, <1>2, <2>1, <3>1 DEF TypeOK
    <3>2. CASE g # h
      <4>1. pc[g] = "salir" /\ pid[g] \in DOMAIN mapaContextosProcesos
        BY <2>1, <3>2 DEF IClientes, CreadoConContexto
      <4>2. pc'[g] = "salir" /\ pid'[g] = pid[g]
        BY <1>1, <3>2, <4>1 DEF TypeOK
      <4>3. pid[g] \in Pids /\ pid[g] # NingunPid
        BY <4>1, PidVerdadero DEF TypeOK, SinPid
      <4>4. pid[g] # pid[h]
        BY <3>2, <4>3 DEF IClientes, UnoPorPid
      <4>. QED
        BY <4>1, <4>2, <4>4
    <3>. QED
      BY <3>1, <3>2
  <2>. QED
    BY <2>1 DEF CreadoConContexto
<1>6. ConfirmadoTieneContexto'
  BY <1>1 DEF IClientes, FinalSinConfirmar, ConfirmadoTieneContexto
<1>. QED
  BY <1>3, <1>4, <1>5, <1>6 DEF IClientes

LEMMA PasoClientes == TypeOK /\ IClientes /\ [Next]_vars => IClientes'
<1> SUFFICES ASSUME TypeOK, IClientes, [Next]_vars PROVE IClientes'
  OBVIOUS
<1>1. CASE UNCHANGED vars
  BY <1>1 DEF vars, IClientes, UnoPorPid, FinalSinConfirmar, CreadoConContexto,
     ConfirmadoTieneContexto
<1>2. ASSUME NEW h \in Manejadores,
             PedirCompactar(h) \/ \E p \in Pids : PedirCrear(h, p) \/ PedirFinalizar(h, p)
      PROVE  IClientes'
  BY <1>2, PideClientes
<1>3. ASSUME NEW h \in Manejadores, Salir(h) PROVE IClientes'
  BY <1>3, SaleClientes
<1>4. ASSUME NEW h \in Manejadores,
             \/ TomarContextos(h) \/ AsignarHueco(h) \/ ConsolidarMemoria(h)
             \/ ConsolidarFin(h) \/ CompactarInicio(h) \/ CompactarFin(h)
      PROVE  IClientes'
  <2>1. PICK de, a :
            /\ Va(h, de, a) /\ de # "salir" /\ (a \in DelFinal => de \in DelFinal)
            /\ UNCHANGED <<pid, confirmados, respuesta, mapaContextosProcesos>>
    BY <1>4 DEF TomarContextos, AsignarHueco, ConsolidarMemoria, ConsolidarFin,
       CompactarInicio, CompactarFin, DelFinal
  <2>. QED
    BY <2>1, AvanzaClientes
<1>5. ASSUME NEW h \in Manejadores,
             NoHayHueco(h) \/ ProcesoNoEncontrado(h) \/ ProcesoDestruido(h)
      PROVE  IClientes'
  <2>1. PICK de, a :
            /\ Va(h, de, a) /\ de # "salir" /\ (a \in DelFinal => de \in DelFinal)
            /\ UNCHANGED <<pid, confirmados, mapaContextosProcesos>>
    BY <1>5 DEF NoHayHueco, ProcesoNoEncontrado, ProcesoDestruido, DelFinal
  <2>2. \E x : x # "creado" /\ respuesta' = [respuesta EXCEPT ![h] = x]
    BY <1>5 DEF NoHayHueco, ProcesoNoEncontrado, ProcesoDestruido
  <2>3. respuesta'[h] # "creado" /\ \A g \in Manejadores : respuesta'[g] = respuesta[g] \/ g = h
    BY <2>2 DEF TypeOK
  <2>. QED
    BY <2>1, <2>3, AvanzaClientes
<1>6. ASSUME NEW h \in Manejadores, RegistrarContexto(h) PROVE IClientes'
  <2>1. /\ Va(h, "registrar", "salir") /\ UNCHANGED <<pid, confirmados>>
        /\ DOMAIN mapaContextosProcesos' = DOMAIN mapaContextosProcesos \cup {pid[h]}
        /\ \E x : respuesta' = [respuesta EXCEPT ![h] = x]
    BY <1>6 DEF RegistrarContexto
  <2>2. \A g \in Manejadores : respuesta'[g] = respuesta[g] \/ g = h
    BY <2>1 DEF TypeOK
  <2>3. "salir" \notin DelFinal
    BY DEF DelFinal
  <2>. QED
    BY <2>1, <2>2, <2>3, AvanzaClientes
<1>7. ASSUME NEW h \in Manejadores, liberarParticionPorPID(h) PROVE IClientes'
  <2>1. /\ Va(h, "liberar", "destruido") /\ UNCHANGED <<pid, confirmados, respuesta>>
        /\ DOMAIN mapaContextosProcesos' = DOMAIN mapaContextosProcesos \ {pid[h]}
    BY <1>7 DEF liberarParticionPorPID
  <2>2. "liberar" \in DelFinal
    BY DEF DelFinal
  <2>. QED
    BY <2>1, <2>2, AvanzaClientes
<1>8. ASSUME NEW h \in Manejadores,
             ConsolidarPaso(h) \/ CompactarLibre(h) \/ CompactarOcupada(h)
      PROVE  IClientes'
  <2>1. /\ UNCHANGED <<pc, pid, confirmados, respuesta>>
        /\ DOMAIN mapaContextosProcesos' = DOMAIN mapaContextosProcesos
    BY <1>8 DEF ConsolidarPaso, CompactarLibre, CompactarOcupada, cambiarContextoProceso
  <2>. QED
    BY <2>1 DEF IClientes, UnoPorPid, FinalSinConfirmar, CreadoConContexto,
       ConfirmadoTieneContexto
<1>. QED
  BY <1>1, <1>2, <1>3, <1>4, <1>5, <1>6, <1>7, <1>8 DEF Next, Avanza

\* Whatever requests are served at once, a process that a client was told of
\* keeps its context until a client asks to end it.
THEOREM ConfirmadosSiguen == Spec => []ConfirmadoTieneContexto
<1>1. IClientes => ConfirmadoTieneContexto
  BY DEF IClientes
<1>. QED
  BY <1>1, InicioClientes, PasoClientes, TipoCorrecto, PTL DEF Spec

-----------------------------------------------------------------------------
(***************************************************************************)
(* The holes.                                                              *)
(***************************************************************************)

\* Before the n-th partition of s no two neighbours are holes.
SinJuntas(s, n) ==
    \A j \in 1 .. Len(s) - 1 : j < n => ~(s[j].IsFree /\ s[j + 1].IsFree)

LEMMA JuntasAlCortar ==
    ASSUME NEW s, NEW t, NEW i, NEW y, NEW z, Mesa(s), EsCorte(s, t, i, y, z),
           s[i].IsFree, ~t[i].IsFree, SinJuntas(s, Len(s))
    PROVE  SinJuntas(t, Len(t))
<1>1. Len(s) \in Nat /\ i \in 1 .. Len(s) /\ Len(t) = Len(s) + 1
  BY MesaTipos DEF EsCorte
<1>2. \A j \in 1 .. Len(s) : j < i => t[j] = s[j]
  BY DEF EsCorte
<1>3. \A j \in 1 .. Len(s) : j > i => t[j + 1] = s[j]
  BY DEF EsCorte
<1>4. ASSUME NEW j \in 1 .. Len(t) - 1, t[j].IsFree, t[j + 1].IsFree
      PROVE  FALSE
  <2>1. CASE j + 1 < i
    <3>1. t[j] = s[j] /\ t[j + 1] = s[j + 1] /\ j \in 1 .. Len(s) - 1
      BY <1>1, <1>2, <2>1
    <3>. QED
      BY <1>4, <3>1, <1>1 DEF SinJuntas
  <2>2. CASE j = i \/ j + 1 = i
    BY <1>4, <2>2
  <2>3. CASE j > i
    <3>1. CASE j = i + 1
      <4>1. t[j + 1] = s[j] /\ i \in 1 .. Len(s) - 1 /\ i < Len(s)
        BY <1>1, <1>3, <3>1
      <4>. QED
        BY <1>4, <3>1, <4>1 DEF SinJuntas
    <3>2. CASE j > i + 1
      <4>1. j - 1 \in 1 .. Len(s) /\ j - 1 > i /\ j \in 1 .. Len(s) /\ (j - 1) + 1 = j
            /\ j - 1 \in 1 .. Len(s) - 1 /\ j - 1 < Len(s)
        BY <1>1, <3>2
      <4>2. t[j] = s[j - 1] /\ t[j + 1] = s[j]
        <5>1. t[(j - 1) + 1] = s[j - 1]
          BY <1>3, <4>1
        <5>2. t[j + 1] = s[j]
          BY <1>1, <1>3, <2>3, <4>1
        <5>. QED
          BY <4>1, <5>1, <5>2
      <4>3. ~(s[j - 1].IsFree /\ s[(j - 1) + 1].IsFree)
        BY <4>1 DEF SinJuntas
      <4>. QED
        BY <1>4, <4>1, <4>2, <4>3
    <3>. QED
      BY <1>1, <2>3, <3>1, <3>2
  <2>. QED
    BY <1>1, <2>1, <2>2, <2>3
<1>. QED
  BY <1>4 DEF SinJuntas

LEMMA JuntasAlReemplazar ==
    ASSUME NEW s, NEW t, NEW i, NEW y, Mesa(s), EsReemplazo(s, t, i, y),
           ~t[i].IsFree, SinJuntas(s, Len(s))
    PROVE  SinJuntas(t, Len(t))
<1>1. Len(t) = Len(s) /\ \A j \in 1 .. Len(s) : j # i => t[j] = s[j]
  BY ReemplazoMesa
<1>2. Len(s) \in Nat
  BY MesaTipos
<1>. QED
  BY <1>1, <1>2 DEF SinJuntas

\* The holes before the merged one, which stays a hole.
LEMMA JuntasAlUnir ==
    ASSUME NEW s, NEW t, NEW i, NEW y, Mesa(s), EsUnion(s, t, i, y), y.IsFree,
           s[i].IsFree, SinJuntas(s, i)
    PROVE  SinJuntas(t, i)
<1>1. Len(s) \in Nat /\ i \in 1 .. Len(s) - 1 /\ Len(t) = Len(s) - 1 /\ t[i] = y
  BY MesaTipos DEF EsUnion
<1>2. \A j \in 1 .. Len(s) : j < i => t[j] = s[j]
  BY DEF EsUnion
<1>3. ASSUME NEW j \in 1 .. Len(t) - 1, j < i, t[j].IsFree, t[j + 1].IsFree
      PROVE  FALSE
  <2>1. j \in 1 .. Len(s) - 1 /\ t[j] = s[j] /\ j + 1 \in 1 .. Len(s)
    BY <1>1, <1>2, <1>3
  <2>2. s[j + 1].IsFree
    <3>1. CASE j + 1 = i
      BY <3>1
    <3>2. CASE j + 1 < i
      BY <1>2, <1>3, <2>1, <3>2
    <3>. QED
      BY <1>1, <1>3, <3>1, <3>2
  <2>. QED
    BY <1>3, <2>1, <2>2 DEF SinJuntas
<1>. QED
  BY <1>3 DEF SinJuntas

UnoConsolida == \E h \in Manejadores : pc[h] = "consolidando"

\* While somebody merges, what is behind its index is merged.
IHuecos ==
    /\ ~UnoConsolida => indice = 1
    /\ Esquema = "DINAMICAS" /\ ~Consolidando => SinJuntas(particiones, Len(particiones))
    /\ UnoConsolida => SinJuntas(particiones, indice)

LEMMA HuecosSeparados ==
    IInv /\ IHuecos => SinHuecosAdyacentes
<1> SUFFICES ASSUME IInv, IHuecos PROVE SinHuecosAdyacentes
  OBVIOUS
<1>1. Len(particiones) \in Nat
  BY MesaTipos DEF IInv
<1>. QED
  BY <1>1 DEF IHuecos, SinJuntas, SinHuecosAdyacentes, Fusionables

LEMMA InicioHuecos == Init => IHuecos
<1> SUFFICES ASSUME Init PROVE IHuecos
  OBVIOUS
<1>1. indice = 1 /\ ~UnoConsolida
  BY DEF Init, UnoConsolida
<1>2. ASSUME Esquema = "DINAMICAS" PROVE SinJuntas(particiones, Len(particiones))
  <2>1. Len(Particionado) = 1
    BY <1>2 DEF Particionado
  <2>2. Len(particiones) = 1
    <3>1. particiones = [i \in 1 .. 1 |-> ParticionLibre(Inicio[i], Particionado[i])]
      BY <2>1 DEF Init
    <3>2. Mesa(particiones)
      BY InitMesa
    <3>. QED
      BY <3>1, <3>2, MesaTipos
  <2>. QED
    BY <2>2 DEF SinJuntas
<1>. QED
  BY <1>1, <1>2 DEF IHuecos

\* A step that does not touch the table, and neither starts nor ends a merge.
LEMMA SinTocarTabla ==
    ASSUME IHuecos, UNCHANGED <<particiones, indice>>, UnoConsolida' = UnoConsolida,
           Consolidando => Consolidando'
    PROVE  IHuecos'
BY DEF IHuecos, SinJuntas

LEMMA AsignaHuecos ==
    ASSUME IInv, IHuecos, NEW h \in Manejadores, AsignarHueco(h)
    PROVE  IHuecos'
<1>1. pc[h] = "asignar" /\ pid[h] \in Pids /\ pc' = [pc EXCEPT ![h] = "registrar"]
      /\ indice' = indice /\ muParciones = Nadie
  BY DEF IInv, TypeOK, SinPid, AsignarHueco, Va, locales
<1>2. ~UnoConsolida /\ ~UnoConsolida'
  BY <1>1, AjustesValidos DEF IInv, TypeOK, Candados, ConParticiones, UnoConsolida
<1>3. ~Consolidando' => ~Consolidando
  BY <1>1 DEF IInv, TypeOK, Consolidando
<1>4. PICK i \in DOMAIN particiones :
          /\ Elige(i, Tamano[pid[h]])
          /\ particiones' = Asignada(i, pid[h], Tamano[pid[h]])
  BY DEF AsignarHueco
<1>5. Mesa(particiones) /\ i \in 1 .. Len(particiones) /\ i \in Huecos(Tamano[pid[h]])
      /\ particiones[i].IsFree
  BY <1>4, MesaTipos, LenProperties DEF IInv, Elige, Huecos
<1>6. /\ ~particiones'[i].IsFree
      /\ \/ \E y, z : EsCorte(particiones, particiones', i, y, z)
         \/ \E y : EsReemplazo(particiones, particiones', i, y)
  BY <1>1, <1>4, <1>5, AsignadaMesa
<1>7. ASSUME Esquema = "DINAMICAS", ~Consolidando'
      PROVE  SinJuntas(particiones', Len(particiones'))
  <2>1. SinJuntas(particiones, Len(particiones))
    BY <1>3, <1>7 DEF IHuecos
  <2>. QED
    BY <1>5, <1>6, <2>1, JuntasAlCortar, JuntasAlReemplazar
<1>. QED
  BY <1>1, <1>2, <1>7 DEF IHuecos

LEMMA ConsolidaHuecos ==
    ASSUME IInv, IHuecos, NEW h \in Manejadores,
           ConsolidarMemoria(h) \/ ConsolidarPaso(h) \/ ConsolidarFin(h)
    PROVE  IHuecos'
<1>0. Mesa(particiones) /\ Len(particiones) \in Nat /\ indice \in Nat /\ indice >= 1
  BY MesaTipos DEF IInv, TypeOK
<1>1. CASE ConsolidarMemoria(h)
  <2>1. /\ pc[h] = "consolidar" /\ pc' = [pc EXCEPT ![h] = "consolidando"]
        /\ muParciones = Nadie /\ UNCHANGED <<particiones, indice>>
    BY <1>1 DEF ConsolidarMemoria, Va, locales
  <2>2. ~UnoConsolida
    BY <2>1, AjustesValidos DEF IInv, Candados, ConParticiones, UnoConsolida
  <2>3. UnoConsolida' /\ Consolidando'
    BY <2>1 DEF IInv, TypeOK, UnoConsolida, Consolidando
  <2>4. indice = 1
    BY <2>2 DEF IHuecos
  <2>5. SinJuntas(particiones, 1)
    BY <1>0 DEF SinJuntas
  <2>. QED
    BY <2>1, <2>3, <2>4, <2>5 DEF IHuecos
<1>2. CASE ConsolidarPaso(h)
  <2>1. pc[h] = "consolidando" /\ indice < Len(particiones) /\ pc' = pc
    BY <1>2 DEF ConsolidarPaso
  <2>2. UnoConsolida /\ UnoConsolida' /\ Consolidando'
    BY <2>1 DEF UnoConsolida, Consolidando
  <2>3. SinJuntas(particiones, indice)
    BY <2>2 DEF IHuecos
  <2>4. SinJuntas(particiones', indice')
    <3>1. CASE /\ Fusionables(indice) /\ particiones' = Fusionada(indice)
               /\ indice' = indice
      <4>1. indice \in 1 .. Len(particiones) - 1 /\ particiones[indice].IsFree
        BY <1>0, <2>1, <3>1 DEF Fusionables
      <4>2. \E y : EsUnion(particiones, particiones', indice, y) /\ y.IsFree
        BY <1>0, <3>1, <4>1, FusionadaMesa
      <4>. QED
        BY <1>0, <2>3, <3>1, <4>1, <4>2, JuntasAlUnir
    <3>2. CASE ~Fusionables(indice) /\ particiones' = particiones /\ indice' = indice + 1
      BY <1>0, <2>3, <3>2 DEF SinJuntas, Fusionables
    <3>. QED
      BY <1>2, <3>1, <3>2 DEF ConsolidarPaso
  <2>. QED
    BY <2>2, <2>4 DEF IHuecos
<1>3. CASE ConsolidarFin(h)
  <2>1. /\ pc[h] = "consolidando" /\ pc' = [pc EXCEPT ![h] = "salir"]
        /\ indice >= Len(particiones) /\ indice' = 1 /\ particiones' = particiones
    BY <1>3 DEF ConsolidarFin, Va
  <2>2. UnoConsolida
    BY <2>1 DEF UnoConsolida
  <2>3. SinJuntas(particiones, Len(particiones)) /\ SinJuntas(particiones, 1)
    BY <1>0, <2>1, <2>2 DEF IHuecos, SinJuntas
  <2>. QED
    BY <2>1, <2>3 DEF IHuecos
<1>. QED
  BY <1>1, <1>2, <1>3

\* What compactarMemoria leaves is occupied up to the last partition.
LEMMA CompactaHuecos ==
    ASSUME IInv, IHuecos, NEW h \in Manejadores, CompactarFin(h)
    PROVE  IHuecos'
<1>1. /\ pc[h] = "compactando" /\ pc' = [pc EXCEPT ![h] = "libre"] /\ indice' = indice
  BY DEF CompactarFin, Va
<1>2. ~UnoConsolida /\ ~UnoConsolida'
  BY <1>1, AjustesValidos DEF IInv, TypeOK, Candados, ConParticiones, UnoConsolida
<1>3. ~Consolidando' => ~Consolidando
  BY <1>1 DEF IInv, TypeOK, Consolidando
<1>4. CASE pedazoLibre = 0
  <2>1. particiones' = particiones
    BY <1>4 DEF CompactarFin
  <2>. QED
    BY <1>1, <1>2, <1>3, <2>1 DEF IHuecos
<1>5. CASE pedazoLibre # 0
  <2> DEFINE oc == particionesOcupadas
             r == ParticionLibre(inicio, pedazoLibre)
  <2>1. particiones' = Append(oc, r)
    BY <1>5 DEF CompactarFin
  <2>2. oc \in Seq(Particion) /\ Len(oc) \in Nat /\ \A j \in 1 .. Len(oc) : ~oc[j].IsFree
    BY LenProperties DEF IInv, TypeOK, Progreso, ProgresoDe
  <2>3. r \in Particion
    BY DEF IInv, TypeOK, ParticionLibre, Particion
  <2> HIDE DEF r
  <2>4. Len(particiones') = Len(oc) + 1
        /\ \A j \in 1 .. Len(oc) : particiones'[j] = oc[j]
    BY <2>1, <2>2, <2>3, AppendProperties
  <2>5. SinJuntas(particiones', Len(particiones'))
    BY <2>2, <2>4 DEF SinJuntas
  <2>. QED
    BY <1>1, <1>2, <2>5 DEF IHuecos
<1>. QED
  BY <1>4, <1>5

LEMMA PasoHuecos ==
    ASSUME ~LoggerNil
    PROVE  IInv /\ IHuecos /\ [Next]_vars => IHuecos'
<1> SUFFICES ASSUME IInv, IHuecos, [Next]_vars PROVE IHuecos'
  OBVIOUS
<1>0. TypeOK
  BY DEF IInv
<1>1. CASE UNCHANGED vars
  <2>1. UNCHANGED <<particiones, indice, pc>>
    BY <1>1 DEF vars, locales
  <2>. QED
    BY <2>1, SinTocarTabla DEF UnoConsolida, Consolidando
<1>2. ASSUME NEW h \in Manejadores, AsignarHueco(h) PROVE IHuecos'
  BY <1>2, AsignaHuecos
<1>3. ASSUME NEW h \in Manejadores,
             ConsolidarMemoria(h) \/ ConsolidarPaso(h) \/ ConsolidarFin(h)
      PROVE  IHuecos'
  BY <1>3, ConsolidaHuecos
<1>4. ASSUME NEW h \in Manejadores, CompactarFin(h) PROVE IHuecos'
  BY <1>4, CompactaHuecos
<1>5. ASSUME NEW h \in Manejadores, liberarParticionPorPID(h) PROVE IHuecos'
  <2>1. /\ pc[h] = "liberar" /\ pc' = [pc EXCEPT ![h] = "destruido"]
        /\ muParciones = Nadie /\ indice' = indice
    BY <1>5 DEF liberarParticionPorPID, Va, locales
  <2>2. ~UnoConsolida /\ ~UnoConsolida'
    BY <1>0, <2>1, AjustesValidos DEF IInv, TypeOK, Candados, ConParticiones, UnoConsolida
  <2>3. Consolidando'
    BY <1>0, <2>1 DEF TypeOK, Consolidando
  <2>. QED
    BY <2>1, <2>2, <2>3 DEF IHuecos
<1>6. ASSUME NEW h \in Manejadores, NEW de, NEW a, Va(h, de, a),
             UNCHANGED <<particiones, indice>>,
             de # "consolidando", a # "consolidando",
             de \in {"destruido", "consolidar"} =>
                 a \in {"destruido", "consolidar"} \/ Esquema # "DINAMICAS"
      PROVE  IHuecos'
  <2>1. pc[h] = de /\ pc' = [pc EXCEPT ![h] = a]
    BY <1>6 DEF Va
  <2>2. UnoConsolida' = UnoConsolida
    BY <1>0, <1>6, <2>1 DEF TypeOK, UnoConsolida
  <2>3. CASE Esquema = "DINAMICAS"
    <3>1. Consolidando => Consolidando'
      BY <1>0, <1>6, <2>1, <2>3 DEF TypeOK, Consolidando
    <3>. QED
      BY <1>6, <2>2, <3>1, SinTocarTabla
  <2>4. CASE Esquema # "DINAMICAS"
    BY <1>6, <2>2, <2>4 DEF IHuecos, SinJuntas
  <2>. QED
    BY <2>3, <2>4
<1>7. ASSUME NEW h \in Manejadores,
             \/ PedirCompactar(h)
             \/ \E p \in Pids : PedirCrear(h, p) \/ PedirFinalizar(h, p)
      PROVE  IHuecos'
  <2>1. PICK a : /\ a \in Operaciones /\ Va(h, "libre", a)
                 /\ UNCHANGED <<particiones, indice>>
    BY <1>7 DEF PedirCompactar, PedirCrear, PedirFinalizar, Llega, locales
  <2>2. a # "consolidando"
    BY <2>1, AjustesValidos
  <2>. QED
    BY <1>6, <2>1, <2>2
<1>8. ASSUME NEW h \in Manejadores,
             \/ TomarContextos(h) \/ Salir(h) \/ NoHayHueco(h) \/ RegistrarContexto(h)
             \/ ProcesoNoEncontrado(h) \/ ProcesoDestruido(h) \/ CompactarInicio(h)
      PROVE  IHuecos'
  <2>1. PICK de, a :
            /\ Va(h, de, a) /\ UNCHANGED <<particiones, indice>>
            /\ de # "consolidando" /\ a # "consolidando"
            /\ de \in {"destruido", "consolidar"} =>
                   a \in {"destruido", "consolidar"} \/ Esquema # "DINAMICAS"
    <3>1. CASE ProcesoDestruido(h)
      <4> DEFINE b == IF Esquema = "DINAMICAS" THEN "consolidar" ELSE "salir"
      <4>1. Va(h, "destruido", b) /\ UNCHANGED <<particiones, indice>>
        BY <3>1 DEF ProcesoDestruido, locales
      <4>2. b # "consolidando" /\ (b = "consolidar" \/ Esquema # "DINAMICAS")
        OBVIOUS
      <4>. QED
        BY <4>1, <4>2
    <3>2. CASE NoHayHueco(h)
      <4>1. Va(h, "asignar", "salir") /\ UNCHANGED <<particiones, indice>>
        BY <3>2 DEF NoHayHueco, locales
      <4>. QED
        BY <4>1
    <3>3. CASE \/ TomarContextos(h) \/ Salir(h) \/ RegistrarContexto(h)
               \/ ProcesoNoEncontrado(h) \/ CompactarInicio(h)
      <4>1. UNCHANGED <<particiones, indice>>
        BY <3>3 DEF TomarContextos, Salir, RegistrarContexto, ProcesoNoEncontrado,
           CompactarInicio, locales
      <4>2. \/ Va(h, "crear", "asignar") \/ Va(h, "finalizar", "liberar")
            \/ Va(h, "salir", "libre") \/ Va(h, "registrar", "salir")
            \/ Va(h, "liberar", "salir") \/ Va(h, "compactar", "compactando")
        BY <3>3 DEF TomarContextos, Salir, RegistrarContexto, ProcesoNoEncontrado,
           CompactarInicio
      <4>. QED
        BY <4>1, <4>2
    <3>. QED
      BY <1>8, <3>1, <3>2, <3>3
  <2>. QED
    BY <1>6, <2>1
<1>9. ASSUME NEW h \in Manejadores, CompactarLibre(h) \/ CompactarOcupada(h)
      PROVE  IHuecos'
  <2>1. UNCHANGED <<particiones, indice, pc>>
    BY <1>9 DEF CompactarLibre, CompactarOcupada
  <2>. QED
    BY <2>1, SinTocarTabla DEF UnoConsolida, Consolidando
<1>. QED
  BY <1>1, <1>2, <1>3, <1>4, <1>5, <1>7, <1>8, <1>9 DEF Next, Avanza

\* Where the loggers are assigned, the splits, the merges and the compactions
\* of any number of requests leave no two holes side by side, except while a
\* finalizarProceso is on its way to merge them.
THEOREM HuecosConsolidados ==
    ASSUME ~LoggerNil
    PROVE  Spec => []SinHuecosAdyacentes
<1>1. IInv /\ IHuecos /\ [Next]_vars => IHuecos'
  BY PasoHuecos
<1>2. IInv /\ IHuecos => SinHuecosAdyacentes
  BY HuecosSeparados
<1>. QED
  BY <1>1, <1>2, InicioHuecos, Invariante, PTL DEF Spec

-----------------------------------------------------------------------------
(***************************************************************************)
(* Fixed partitions.                                                       *)
(***************************************************************************)

SinRecorridos ==
    \A h \in Manejadores :
        pc[h] \notin {"consolidar", "consolidando", "compactar", "compactando"}

\* t has the partitions of s, whoever they are for.
MismosLugares(s, t) ==
    /\ Len(t) = Len(s)
    /\ \A i \in DOMAIN s : t[i].Base = s[i].Base /\ t[i].Size = s[i].Size

LEMMA ReemplazoMismosLugares ==
    ASSUME NEW s, NEW t, NEW i, NEW y, Mesa(s), EsReemplazo(s, t, i, y)
    PROVE  MismosLugares(s, t)
<1>1. /\ Len(t) = Len(s) /\ t[i] = y /\ y.Base = s[i].Base /\ y.Size = s[i].Size
      /\ \A j \in 1 .. Len(s) : j # i => t[j] = s[j]
  BY ReemplazoMesa DEF EsReemplazo
<1>2. DOMAIN s = 1 .. Len(s)
  BY MesaTipos, LenProperties
<1>. QED
  BY <1>1, <1>2 DEF MismosLugares

LEMMA PasoFijas ==
    ASSUME Esquema = "FIJAS", "compactar" \notin Operaciones
    PROVE  IInv /\ SinRecorridos /\ [Next]_vars =>
               /\ SinRecorridos'
               /\ particiones' = particiones \/ MismosLugares(particiones, particiones')
<1> SUFFICES ASSUME IInv, SinRecorridos, [Next]_vars
             PROVE  /\ SinRecorridos'
                    /\ \/ particiones' = particiones
                       \/ MismosLugares(particiones, particiones')
  OBVIOUS
<1>0. TypeOK /\ Mesa(particiones)
  BY DEF IInv
<1>1. CASE UNCHANGED vars
  BY <1>1 DEF vars, SinRecorridos
<1>2. ASSUME NEW h \in Manejadores, NEW de, NEW a, Va(h, de, a),
             a \notin {"consolidar", "consolidando", "compactar", "compactando"}
      PROVE  SinRecorridos'
  BY <1>0, <1>2 DEF TypeOK, SinRecorridos, Va
<1>3. ASSUME NEW h \in Manejadores,
             \/ PedirCompactar(h)
             \/ \E p \in Pids : PedirCrear(h, p) \/ PedirFinalizar(h, p)
      PROVE  SinRecorridos' /\ particiones' = particiones
  <2>1. PICK a \in Operaciones : Va(h, "libre", a) /\ particiones' = particiones
    BY <1>3 DEF PedirCompactar, PedirCrear, PedirFinalizar, Llega
  <2>2. a \in {"crear", "finalizar"}
    BY <2>1, AjustesValidos
  <2>. QED
    BY <1>2, <2>1, <2>2
<1>4. ASSUME NEW h \in Manejadores,
             \/ TomarContextos(h) \/ Salir(h) \/ NoHayHueco(h) \/ RegistrarContexto(h)
             \/ ProcesoNoEncontrado(h) \/ ProcesoDestruido(h)
      PROVE  SinRecorridos' /\ particiones' = particiones
  <2>1. particiones' = particiones
    BY <1>4 DEF TomarContextos, Salir, NoHayHueco, RegistrarContexto, ProcesoNoEncontrado,
       ProcesoDestruido
  <2>2. \/ Va(h, "crear", "asignar") \/ Va(h, "finalizar", "liberar")
        \/ Va(h, "salir", "libre") \/ Va(h, "registrar", "salir")
        \/ Va(h, "liberar", "salir") \/ Va(h, "asignar", "salir") \/ Va(h, "destruido", "salir")
    BY <1>4 DEF TomarContextos, Salir, NoHayHueco, RegistrarContexto, ProcesoNoEncontrado,
       ProcesoDestruido
  <2>. QED
    BY <1>2, <2>1, <2>2
<1>5. ASSUME NEW h \in Manejadores, AsignarHueco(h)
      PROVE  SinRecorridos' /\ MismosLugares(particiones, particiones')
  <2>1. Va(h, "asignar", "registrar") /\ pid[h] \in Pids
    BY <1>0, <1>5 DEF AsignarHueco, Va, TypeOK, SinPid
  <2>2. PICK i \in DOMAIN particiones :
            /\ Elige(i, Tamano[pid[h]])
            /\ particiones' = Asignada(i, pid[h], Tamano[pid[h]])
    BY <1>5 DEF AsignarHueco
  <2>3. i \in 1 .. Len(particiones) /\ i \in Huecos(Tamano[pid[h]])
    BY <1>0, <2>2, MesaTipos, LenProperties DEF Elige
  <2>4. ~Parte(i, Tamano[pid[h]])
    BY DEF Parte
  <2>5. \E y : EsReemplazo(particiones, particiones', i, y)
    BY <1>0, <2>1, <2>2, <2>3, <2>4, AsignadaMesa
  <2>. QED
    BY <1>0, <1>2, <2>1, <2>5, ReemplazoMismosLugares
<1>6. ASSUME NEW h \in Manejadores, liberarParticionPorPID(h)
      PROVE  SinRecorridos' /\ MismosLugares(particiones, particiones')
  <2>1. Va(h, "liberar", "destruido")
    BY <1>6 DEF liberarParticionPorPID
  <2>2. PICK i \in DOMAIN particiones :
            particiones' = [particiones EXCEPT ![i] = Liberada(@)]
    BY <1>6 DEF liberarParticionPorPID
  <2>3. i \in 1 .. Len(particiones) /\ particiones[i] \in Particion
    BY <1>0, <2>2, MesaTipos, LenProperties
  <2> DEFINE y == Liberada(particiones[i])
  <2>4. y \in Particion /\ y.Base = particiones[i].Base /\ y.Size = particiones[i].Size
        /\ y.IsFree
    BY <2>3, LiberadaCampos
  <2>5. particiones' = [particiones EXCEPT ![i] = y]
    BY <2>2
  <2> HIDE DEF y
  <2>6. EsReemplazo(particiones, particiones', i, y)
    BY <2>3, <2>4, <2>5 DEF EsReemplazo, CabeEn
  <2>. QED
    BY <1>0, <1>2, <2>1, <2>6, ReemplazoMismosLugares
<1>7. ASSUME NEW h \in Manejadores,
             \/ ConsolidarMemoria(h) \/ ConsolidarPaso(h) \/ ConsolidarFin(h)
             \/ CompactarInicio(h) \/ CompactarLibre(h) \/ CompactarOcupada(h)
             \/ CompactarFin(h)
      PROVE  FALSE
  BY <1>7 DEF SinRecorridos, ConsolidarMemoria, ConsolidarPaso, ConsolidarFin, Va,
     CompactarInicio, CompactarLibre, CompactarOcupada, CompactarFin
<1>. QED
  BY <1>1, <1>3, <1>4, <1>5, <1>6, <1>7 DEF Next, Avanza

\* Under FIJAS, where the kernel asks for no compaction, the partitions that
\* were configured keep their place and size whatever processes come and go.
THEOREM FijasSiempreIntactas ==
    ASSUME Esquema = "FIJAS", "compactar" \notin Operaciones
    PROVE  Spec => FijasIntactas
<1>1. Init => SinRecorridos
  BY DEF Init, SinRecorridos
<1>2. IInv /\ SinRecorridos /\ [Next]_vars => SinRecorridos'
  BY PasoFijas
<1>3. IInv /\ SinRecorridos /\ [Next]_vars =>
          [Esquema = "FIJAS" =>
              /\ Len(particiones') = Len(particiones)
              /\ \A i \in DOMAIN particiones :
                     /\ particiones'[i].Base = particiones[i].Base
                     /\ particiones'[i].Size = particiones[i].Size]_particiones
  BY PasoFijas DEF MismosLugares
<1>. QED
  BY <1>1, <1>2, <1>3, Invariante, PTL DEF Spec, FijasIntactas

-----------------------------------------------------------------------------
(***************************************************************************)
(* The free bytes.                                                         *)
(***************************************************************************)

\* The free bytes of each partition of s.
LibresDe(s) == [i \in DOMAIN s |-> IF s[i].IsFree THEN s[i].Size ELSE 0]

\* F is the recursive function by which totalHuecosLibres adds up the holes of s.
EsCuenta(s, F) ==
    F = [z \in SUBSET DOMAIN s |->
            IF z = {} THEN 0
            ELSE (IF s[Elegido(z)].IsFree THEN s[Elegido(z)].Size ELSE 0) + F[z \ {Elegido(z)}]]

LibresEn(s) == (CHOOSE F : EsCuenta(s, F))[DOMAIN s]

LEMMA TotalEsCuenta ==
    /\ totalHuecosLibres = LibresEn(particiones)
    /\ totalHuecosLibres' = LibresEn(particiones')
<1>1. totalHuecosLibres = LibresEn(particiones)
  BY DEF totalHuecosLibres, MapThenSumSet, MapThenFoldSet, Libre, LibresEn, EsCuenta, Elegido
<1>2. totalHuecosLibres' = LibresEn(particiones')
  BY DEF totalHuecosLibres, MapThenSumSet, MapThenFoldSet, Libre, LibresEn, EsCuenta, Elegido
<1>. QED
  BY <1>1, <1>2

LEMMA LibresTipo ==
    ASSUME NEW s \in Seq(Particion)
    PROVE  /\ DOMAIN s = 1 .. Len(s) /\ Len(s) \in Nat
           /\ LibresDe(s) \in [1 .. Len(s) -> Nat]
           /\ \A i \in 1 .. Len(s) :
                  LibresDe(s)[i] = IF s[i].IsFree THEN s[i].Size ELSE 0
<1>1. Len(s) \in Nat /\ DOMAIN s = 1 .. Len(s)
      /\ \A i \in 1 .. Len(s) : s[i] \in Particion
  BY LenProperties, ElementOfSeq
<1>2. \A i \in 1 .. Len(s) : s[i].Size \in Nat
  BY <1>1 DEF Particion
<1>. QED
  BY <1>1, <1>2 DEF LibresDe

\* What the holes of a table add up to one after the other is what
\* totalHuecosLibres says of it.
LEMMA LibresSuman ==
    ASSUME NEW s \in Seq(Particion), NEW v, Suman(Len(s), LibresDe(s), v)
    PROVE  LibresEn(s) = v
<1> DEFINE n == Len(s)
           g == LibresDe(s)
<1>1. /\ DOMAIN s = 1 .. n /\ n \in Nat /\ g \in [1 .. n -> Nat]
      /\ \A i \in 1 .. n : g[i] = IF s[i].IsFree THEN s[i].Size ELSE 0
  BY LibresTipo
<1>2. Suman(n, g, v)
  OBVIOUS
<1> HIDE DEF n, g
<1>3. \A z \in SUBSET (1 .. n) : z # {} => Elegido(z) \in 1 .. n
  BY DEF Elegido
<1>4. ASSUME NEW F PROVE EsCuenta(s, F) <=> EsSuma(n, g, F)
  <2>1. \A z \in SUBSET (1 .. n) :
            (IF z = {} THEN 0
             ELSE (IF s[Elegido(z)].IsFree THEN s[Elegido(z)].Size ELSE 0) + F[z \ {Elegido(z)}])
          = (IF z = {} THEN 0 ELSE g[Elegido(z)] + F[z \ {Elegido(z)}])
    BY <1>1, <1>3
  <2>. QED
    BY <1>1, <2>1 DEF EsCuenta, EsSuma
<1>5. \E F : EsCuenta(s, F)
  BY <1>1, <1>4, HaySuma
<1> DEFINE F == CHOOSE G : EsCuenta(s, G)
<1>6. EsCuenta(s, F)
  BY <1>5
<1>7. LibresEn(s) = F[1 .. n]
  BY <1>1 DEF LibresEn
<1> HIDE DEF F
<1>8. EsSuma(n, g, F)
  BY <1>4, <1>6
<1>9. Restringida(g, 1 .. n) = g
  BY <1>1 DEF Restringida
<1>10. \A w : Suman(n, Restringida(g, 1 .. n), w) => F[1 .. n] = w
  BY <1>1, <1>8, EsLoQueSuman
<1>. QED
  BY <1>2, <1>7, <1>9, <1>10

\* pedazoLibre is what the holes that compactarMemoria has passed add up to.
ICuenta == Suman(k - 1, LibresDe(particiones), pedazoLibre)

LEMMA CuentaVacia ==
    /\ k = 1 /\ pedazoLibre = 0 => ICuenta
    /\ k' = 1 /\ pedazoLibre' = 0 => ICuenta'
<1>1. \A g : Suman(0, g, 0)
  BY SumanNinguno
<1>. QED
  BY <1>1 DEF ICuenta

LEMMA CompactarLibreCuenta ==
    ASSUME IInv, ICuenta, NEW h \in Manejadores, CompactarLibre(h)
    PROVE  ICuenta'
<1> DEFINE s == particiones
           g == LibresDe(s)
<1>1. /\ s[k].IsFree /\ pedazoLibre' = pedazoLibre + s[k].Size /\ k' = k + 1
      /\ k <= Len(s) /\ particiones' = s
  BY DEF CompactarLibre
<1>2. s \in Seq(Particion) /\ k \in 1 .. Len(s) + 1
  BY DEF IInv, TypeOK, Progreso, ProgresoDe
<1>3. Len(s) \in Nat /\ g \in [1 .. Len(s) -> Nat]
      /\ \A i \in 1 .. Len(s) : g[i] = IF s[i].IsFree THEN s[i].Size ELSE 0
  BY <1>2, LibresTipo
<1>4. k \in 1 .. Len(s) /\ k - 1 \in Nat /\ (k - 1) + 1 = k /\ (k + 1) - 1 = k
  BY <1>1, <1>2, <1>3
<1>5. g[k] = s[k].Size /\ g[k] \in Nat
  BY <1>1, <1>3, <1>4
<1>6. Suman(k - 1, g, pedazoLibre)
  BY DEF ICuenta
<1> HIDE DEF g
<1>7. Suman((k - 1) + 1, g, pedazoLibre + g[(k - 1) + 1])
  BY <1>4, <1>5, <1>6, SumanCrece
<1>8. Suman(k, g, pedazoLibre')
  BY <1>1, <1>4, <1>5, <1>7
<1>. QED
  BY <1>1, <1>4, <1>8 DEF ICuenta, g

LEMMA CompactarOcupadaCuenta ==
    ASSUME IInv, ICuenta, NEW h \in Manejadores, CompactarOcupada(h)
    PROVE  ICuenta'
<1> DEFINE s == particiones
           g == LibresDe(s)
<1>1. /\ ~s[k].IsFree /\ pedazoLibre' = pedazoLibre /\ k' = k + 1
      /\ k <= Len(s) /\ particiones' = s
  BY DEF CompactarOcupada
<1>2. s \in Seq(Particion) /\ k \in 1 .. Len(s) + 1 /\ pedazoLibre \in Nat
  BY DEF IInv, TypeOK, Progreso, ProgresoDe
<1>3. Len(s) \in Nat /\ g \in [1 .. Len(s) -> Nat]
      /\ \A i \in 1 .. Len(s) : g[i] = IF s[i].IsFree THEN s[i].Size ELSE 0
  BY <1>2, LibresTipo
<1>4. k \in 1 .. Len(s) /\ k - 1 \in Nat /\ (k - 1) + 1 = k /\ (k + 1) - 1 = k
  BY <1>1, <1>2, <1>3
<1>5. g[k] = 0 /\ g[k] \in Nat /\ pedazoLibre + g[k] = pedazoLibre
  BY <1>1, <1>2, <1>3, <1>4
<1>6. Suman(k - 1, g, pedazoLibre)
  BY DEF ICuenta
<1> HIDE DEF g
<1>7. Suman((k - 1) + 1, g, pedazoLibre + g[(k - 1) + 1])
  BY <1>4, <1>5, <1>6, SumanCrece
<1>8. Suman(k, g, pedazoLibre')
  BY <1>1, <1>4, <1>5, <1>7
<1>. QED
  BY <1>1, <1>4, <1>8 DEF ICuenta, g

\* The steps that change the table outside a compaction find it at rest, and
\* the last step of a compaction leaves it at rest.
LEMMA PasoCuenta == IInv /\ ICuenta /\ [Next]_vars => ICuenta'
<1> SUFFICES ASSUME IInv, ICuenta, [Next]_vars PROVE ICuenta'
  OBVIOUS
<1>1. CASE UNCHANGED <<particiones, k, pedazoLibre>>
  BY <1>1 DEF ICuenta
<1>2. ASSUME NEW h \in Manejadores,
             AsignarHueco(h) \/ liberarParticionPorPID(h) \/ ConsolidarPaso(h)
      PROVE  ICuenta'
  <2>1. \/ muParciones = Nadie
        \/ muParciones = h /\ pc[h] # "compactando"
    BY <1>2 DEF IInv, Candados, ConParticiones, AsignarHueco, liberarParticionPorPID,
       ConsolidarPaso
  <2>2. k = 1 /\ pedazoLibre = 0
    BY <2>1, SinCompactacion
  <2>3. k' = k /\ pedazoLibre' = pedazoLibre
    BY <1>2 DEF AsignarHueco, liberarParticionPorPID, ConsolidarPaso, locales
  <2>. QED
    BY <2>2, <2>3, CuentaVacia
<1>3. ASSUME NEW h \in Manejadores, CompactarFin(h) PROVE ICuenta'
  BY <1>3, CuentaVacia DEF CompactarFin
<1>4. ASSUME NEW h \in Manejadores, CompactarLibre(h) \/ CompactarOcupada(h) PROVE ICuenta'
  BY <1>4, CompactarLibreCuenta, CompactarOcupadaCuenta
<1>5. ASSUME NEW h \in Manejadores,
             \/ PedirCompactar(h)
             \/ \E p \in Pids : PedirCrear(h, p) \/ PedirFinalizar(h, p)
             \/ TomarContextos(h) \/ Salir(h) \/ NoHayHueco(h) \/ RegistrarContexto(h)
             \/ ProcesoNoEncontrado(h) \/ ProcesoDestruido(h) \/ ConsolidarMemoria(h)
             \/ ConsolidarFin(h) \/ CompactarInicio(h)
      PROVE  UNCHANGED <<particiones, k, pedazoLibre>>
  BY <1>5 DEF PedirCompactar, PedirCrear, PedirFinalizar, Llega, TomarContextos, Salir,
     NoHayHueco, RegistrarContexto, ProcesoNoEncontrado, ProcesoDestruido,
     ConsolidarMemoria, ConsolidarFin, CompactarInicio, locales
<1>6. CASE UNCHANGED vars
  BY <1>1, <1>6 DEF vars, locales
<1>. QED
  BY <1>1, <1>2, <1>3, <1>4, <1>5, <1>6 DEF Next, Avanza

\* What a compaction that found holes leaves: one hole, as large as all of them.
LEMMA CompactaLibres ==
    ASSUME IInv, ICuenta, NEW h \in Manejadores, CompactarFin(h)
    PROVE  /\ LibresEn(particiones) = pedazoLibre /\ pedazoLibre \in Nat
           /\ LibresEn(particiones') = pedazoLibre
           /\ pedazoLibre # 0 =>
                  \E i \in DOMAIN particiones' :
                      particiones'[i].IsFree /\ particiones'[i].Size = pedazoLibre
<1> DEFINE s == particiones
           t == particiones'
           oc == particionesOcupadas
           r == ParticionLibre(inicio, pedazoLibre)
<1>1. /\ k > Len(s)
      /\ pedazoLibre = 0 => t = s
      /\ pedazoLibre # 0 => t = Append(oc, r)
  BY DEF CompactarFin
<1>2. /\ s \in Seq(Particion) /\ k \in 1 .. Len(s) + 1 /\ pedazoLibre \in Nat
      /\ oc \in Seq(Particion) /\ inicio \in Nat
      /\ \A i \in 1 .. Len(oc) : ~oc[i].IsFree
  BY DEF IInv, TypeOK, Progreso, ProgresoDe
<1>3. Len(s) \in Nat
  BY <1>2, LenProperties
<1>4. k - 1 = Len(s)
  BY <1>1, <1>2, <1>3
<1>5. LibresEn(s) = pedazoLibre
  BY <1>2, <1>4, LibresSuman DEF ICuenta
<1>6. CASE pedazoLibre = 0
  BY <1>1, <1>2, <1>5, <1>6
<1>7. CASE pedazoLibre # 0
  <2>1. t = Append(oc, r)
    BY <1>1, <1>7
  <2>2. r \in Particion /\ r.IsFree /\ r.Size = pedazoLibre
    <3>1. inicio + pedazoLibre - 1 \in Int
      BY <1>2
    <3>. QED
      BY <1>2, <3>1 DEF ParticionLibre, Particion
  <2> HIDE DEF r
  <2> DEFINE m == Len(oc)
             g == LibresDe(t)
  <2>3. /\ m \in Nat /\ t \in Seq(Particion) /\ Len(t) = m + 1 /\ t[m + 1] = r
        /\ \A i \in 1 .. m : t[i] = oc[i]
    BY <1>2, <2>1, <2>2, LenProperties, AppendProperties
  <2>4. /\ DOMAIN t = 1 .. m + 1
        /\ g \in [1 .. m + 1 -> Nat]
        /\ \A i \in 1 .. m + 1 : g[i] = IF t[i].IsFree THEN t[i].Size ELSE 0
    BY <2>3, LibresTipo
  <2> HIDE DEF m, g, t
  <2>5. g[m + 1] = pedazoLibre /\ \A i \in 1 .. m : g[i] = 0
    <3>1. \A i \in 1 .. m : ~t[i].IsFree
      BY <1>2, <2>3 DEF m
    <3>. QED
      BY <2>2, <2>3, <2>4, <3>1
  <2>6. Suman(m, g, 0)
    <3>1. g \in [1 .. m + 1 -> Nat] /\ m \in Nat
      BY <2>3, <2>4
    <3>2. [i \in 1 .. m |-> g[i]] \in [1 .. m -> Nat]
      BY <3>1
    <3>3. Acumula(m, g, [i \in 0 .. m |-> 0])
      BY <2>3, <2>5 DEF Acumula
    <3>. QED
      BY <2>3, <3>3 DEF Suman
  <2>7. Suman(m + 1, g, 0 + g[m + 1])
    BY <1>2, <2>3, <2>5, <2>6, SumanCrece
  <2>8. Suman(Len(t), LibresDe(t), pedazoLibre)
    BY <1>2, <2>3, <2>5, <2>7 DEF g
  <2>9. LibresEn(t) = pedazoLibre
    BY <2>3, <2>8, LibresSuman
  <2>10. m + 1 \in DOMAIN t /\ t[m + 1].IsFree /\ t[m + 1].Size = pedazoLibre
    BY <2>2, <2>3, <2>4
  <2>. QED
    BY <1>2, <1>5, <2>9, <2>10 DEF t
<1>. QED
  BY <1>6, <1>7

\* When a compaction ends, whatever else memoria was doing meanwhile, the holes
\* still add up to what they did, and whoever asks for no more than that has a hole.
LEMMA CompactarLugar ==
    ASSUME IInv, ICuenta, NEW h \in Manejadores, CompactarFin(h)
    PROVE  /\ totalHuecosLibres' = totalHuecosLibres
           /\ totalHuecosLibres > 0 =>
                  \A p \in Pids : totalHuecosLibres >= Tamano[p] => Huecos(Tamano[p])' # {}
<1>1. totalHuecosLibres' = totalHuecosLibres /\ totalHuecosLibres = pedazoLibre
  BY CompactaLibres, TotalEsCuenta
<1>2. ASSUME NEW p \in Pids, pedazoLibre > 0, pedazoLibre >= Tamano[p]
      PROVE  Huecos(Tamano[p])' # {}
  <2>1. pedazoLibre \in Nat /\ pedazoLibre # 0
    BY <1>2, CompactaLibres
  <2>2. PICK i \in DOMAIN particiones' :
            particiones'[i].IsFree /\ particiones'[i].Size = pedazoLibre
    BY <2>1, CompactaLibres
  <2>3. i \in Huecos(Tamano[p])'
    BY <1>2, <2>2 DEF Huecos
  <2>. QED
    BY <2>3
<1>. QED
  BY <1>1, <1>2

\* Whatever requests are served, a compaction loses no free byte and leaves a
\* hole for every process that memoria answered "compactar" to.
THEOREM CompactarSirve == Spec => CompactarHaceLugar
<1>1. Init => ICuenta
  BY CuentaVacia DEF Init
<1>2. IInv /\ ICuenta /\ [Next]_vars =>
          [\A h \in Manejadores : CompactarFin(h) =>
              /\ totalHuecosLibres' = totalHuecosLibres
              /\ totalHuecosLibres > 0 =>
                  \A p \in Pids : totalHuecosLibres >= Tamano[p] => Huecos(Tamano[p])' # {}]_vars
  BY CompactarLugar
<1>. QED
  BY <1>1, <1>2, PasoCuenta, Invariante, PTL DEF Spec, CompactarHaceLugar

-----------------------------------------------------------------------------
(***************************************************************************)
(* Whose partitions are.  A hole keeps the PID of the hole it was cut from *)
(* or merged with, and the rest of a split has PID 0, Go's zero value: of  *)
(* a PID other than 0 the partitions are the occupied ones, and there is   *)
(* one.                                                                    *)
(***************************************************************************)

HuecosSinPid(s) == \A i \in 1 .. Len(s) : s[i].IsFree => s[i].PID \in {-1, 0}

Unicas(s) ==
    \A i, j \in 1 .. Len(s) :
        i # j /\ ~s[i].IsFree /\ ~s[j].IsFree /\ s[i].PID = s[j].PID => s[i].PID = 0

Reparto(s) == HuecosSinPid(s) /\ Unicas(s)

\* Process p occupies a partition of s.
Ocupa(s, p) == \E i \in 1 .. Len(s) : ~s[i].IsFree /\ s[i].PID = p

\* t is s with the i-th partition changed and perhaps a hole more or less; f
\* says where each of the others was.
EsMudanza(s, t, i, f) ==
    /\ \A j \in 1 .. Len(t) : j # i =>
           \/ t[j].IsFree /\ t[j].PID \in {-1, 0}
           \/ f[j] \in 1 .. Len(s) /\ t[j] = s[f[j]]
    /\ \A j, m \in 1 .. Len(t) : j # i /\ m # i /\ j # m => f[j] # f[m]
    /\ i \in 1 .. Len(t)
    /\ t[i].IsFree => t[i].PID \in {-1, 0}

\* Who is given the partition had none.
LEMMA MudanzaReparto ==
    ASSUME NEW s, NEW t, NEW i, NEW f, NEW p, Reparto(s), EsMudanza(s, t, i, f),
           ~t[i].IsFree => t[i].PID = p /\ (p = 0 \/ ~Ocupa(s, p))
    PROVE  /\ Reparto(t)
           /\ \A q : Ocupa(t, q) => Ocupa(s, q) \/ (q = p /\ ~t[i].IsFree)
<1>1. \A j \in 1 .. Len(t) : j # i /\ ~t[j].IsFree => f[j] \in 1 .. Len(s) /\ t[j] = s[f[j]]
  BY DEF EsMudanza
<1>2. HuecosSinPid(t)
  <2>1. ASSUME NEW j \in 1 .. Len(t), t[j].IsFree PROVE t[j].PID \in {-1, 0}
    BY <2>1 DEF Reparto, HuecosSinPid, EsMudanza
  <2>. QED
    BY <2>1 DEF HuecosSinPid
<1>3. ASSUME NEW j \in 1 .. Len(t), j # i, ~t[j].IsFree PROVE Ocupa(s, t[j].PID)
  BY <1>1, <1>3 DEF Ocupa
<1>4. Unicas(t)
  <2>1. ASSUME NEW j \in 1 .. Len(t), NEW m \in 1 .. Len(t), j # m,
               ~t[j].IsFree, ~t[m].IsFree, t[j].PID = t[m].PID
        PROVE  t[j].PID = 0
    <3>1. CASE j # i /\ m # i
      <4>1. f[j] # f[m]
        BY <2>1, <3>1 DEF EsMudanza
      <4>. QED
        BY <1>1, <2>1, <3>1, <4>1 DEF Reparto, Unicas
    <3>2. CASE j = i \/ m = i
      BY <1>3, <2>1, <3>2
    <3>. QED
      BY <3>1, <3>2
  <2>. QED
    BY <2>1 DEF Unicas
<1>5. ASSUME NEW q, Ocupa(t, q) PROVE Ocupa(s, q) \/ (q = p /\ ~t[i].IsFree)
  <2>1. PICK j \in 1 .. Len(t) : ~t[j].IsFree /\ t[j].PID = q
    BY <1>5 DEF Ocupa
  <2>. QED
    BY <1>3, <2>1
<1>. QED
  BY <1>2, <1>4, <1>5 DEF Reparto

LEMMA CorteEsMudanza ==
    ASSUME NEW s, NEW t, NEW i, NEW y, NEW z, Mesa(s), EsCorte(s, t, i, y, z),
           z.IsFree, z.PID = 0, ~t[i].IsFree
    PROVE  \E f : EsMudanza(s, t, i, f)
<1> DEFINE n == Len(s)
           f == [j \in 1 .. n + 1 |-> IF j < i THEN j ELSE j - 1]
<1>1. n \in Nat /\ i \in 1 .. n /\ Len(t) = n + 1 /\ t[i + 1] = z
  BY MesaTipos DEF EsCorte
<1>2. \A j \in 1 .. n : j < i => t[j] = s[j]
  BY DEF EsCorte
<1>3. \A j \in 1 .. n : j > i => t[j + 1] = s[j]
  BY DEF EsCorte
<1>4. ASSUME NEW j \in 1 .. Len(t), j # i
      PROVE  \/ t[j].IsFree /\ t[j].PID \in {-1, 0}
             \/ f[j] \in 1 .. n /\ t[j] = s[f[j]]
  <2>1. CASE j < i
    BY <1>1, <1>2, <2>1
  <2>2. CASE j = i + 1
    BY <1>1, <2>2
  <2>3. CASE j > i + 1
    <3>1. j - 1 \in 1 .. n /\ j - 1 > i /\ (j - 1) + 1 = j /\ f[j] = j - 1
      BY <1>1, <2>3
    <3>. QED
      BY <1>3, <3>1
  <2>. QED
    BY <1>1, <1>4, <2>1, <2>2, <2>3
<1>5. \A j, m \in 1 .. Len(t) : j # i /\ m # i /\ j # m => f[j] # f[m]
  BY <1>1
<1> HIDE DEF f
<1>6. EsMudanza(s, t, i, f)
  BY <1>1, <1>4, <1>5 DEF EsMudanza
<1>. QED
  BY <1>6

LEMMA ReemplazoEsMudanza ==
    ASSUME NEW s, NEW t, Len(s) \in Nat, Len(t) = Len(s), NEW i \in 1 .. Len(s),
           \A j \in 1 .. Len(s) : j # i => t[j] = s[j],
           t[i].IsFree => t[i].PID \in {-1, 0}
    PROVE  \E f : EsMudanza(s, t, i, f)
<1>1. EsMudanza(s, t, i, [j \in 1 .. Len(s) |-> j])
  BY DEF EsMudanza
<1>. QED
  BY <1>1

LEMMA UnionEsMudanza ==
    ASSUME NEW s, NEW t, NEW i, NEW y, Mesa(s), EsUnion(s, t, i, y), y.PID \in {-1, 0}
    PROVE  \E f : EsMudanza(s, t, i, f)
<1> DEFINE n == Len(s)
           f == [j \in 1 .. n - 1 |-> IF j < i THEN j ELSE j + 1]
<1>1. n \in Nat /\ i \in 1 .. n - 1 /\ Len(t) = n - 1 /\ t[i] = y
  BY MesaTipos DEF EsUnion
<1>2. \A j \in 1 .. n : j < i => t[j] = s[j]
  BY DEF EsUnion
<1>3. \A j \in 1 .. n : j > i + 1 => t[j - 1] = s[j]
  BY DEF EsUnion
<1>4. ASSUME NEW j \in 1 .. Len(t), j # i
      PROVE  f[j] \in 1 .. n /\ t[j] = s[f[j]]
  <2>1. CASE j < i
    BY <1>1, <1>2, <2>1
  <2>2. CASE j > i
    <3>1. j + 1 \in 1 .. n /\ j + 1 > i + 1 /\ (j + 1) - 1 = j /\ f[j] = j + 1
      BY <1>1, <2>2
    <3>. QED
      BY <1>3, <3>1
  <2>. QED
    BY <1>1, <1>4, <2>1, <2>2
<1>5. \A j, m \in 1 .. Len(t) : j # i /\ m # i /\ j # m => f[j] # f[m]
  BY <1>1
<1> HIDE DEF f
<1>6. EsMudanza(s, t, i, f)
  BY <1>1, <1>4, <1>5 DEF EsMudanza
<1>. QED
  BY <1>6

-----------------------------------------------------------------------------
(***************************************************************************)
(* Nobody is created twice.                                                *)
(***************************************************************************)

DeCrear == {"crear", "asignar", "registrar"}

\* Who is being created is not acknowledged yet.
CrearSinConfirmar == \A h \in Manejadores : pc[h] \in DeCrear => pid[h] \notin confirmados

\* A request of p is past its change of the table, or about to undo it.
DeSalida(p) ==
    \E h \in Manejadores :
        /\ pid[h] = p
        /\ pc[h] \in {"finalizar", "liberar"} \/ (pc[h] = "salir" /\ respuesta[h] = "creado")

\* A process with a context is acknowledged, unless its acknowledgement or its
\* end is on its way: nobody asks for it again.
IAltas ==
    /\ CrearSinConfirmar
    /\ \A p \in DOMAIN mapaContextosProcesos : p \in confirmados \/ DeSalida(p)

LEMMA InicioAltas == Init => IAltas
<1> SUFFICES ASSUME Init PROVE IAltas
  OBVIOUS
<1>1. DOMAIN mapaContextosProcesos = {}
  <2>1. mapaContextosProcesos = <<>>
    BY DEF Init
  <2>. QED
    BY <2>1
<1>2. CrearSinConfirmar
  BY DEF Init, CrearSinConfirmar, DeCrear
<1>. QED
  BY <1>1, <1>2 DEF IAltas

LEMMA PideAltas ==
    ASSUME TypeOK, IAltas, NEW h \in Manejadores,
           \/ PedirCompactar(h)
           \/ \E p \in Pids : PedirCrear(h, p) \/ PedirFinalizar(h, p)
    PROVE  IAltas'
<1>1. PICK q, op :
          /\ Llega(h, q, op)
          /\ confirmados' = confirmados \/ (confirmados' = confirmados \ {q} /\ op = "finalizar")
          /\ op \in DeCrear => q \notin confirmados'
  BY DEF PedirCompactar, PedirCrear, PedirFinalizar, DeCrear
<1>2. /\ pc[h] = "libre" /\ pc' = [pc EXCEPT ![h] = op] /\ pid' = [pid EXCEPT ![h] = q]
      /\ UNCHANGED <<respuesta, mapaContextosProcesos>>
  BY <1>1 DEF Llega, Va
<1>3. CrearSinConfirmar'
  BY <1>1, <1>2 DEF TypeOK, IAltas, CrearSinConfirmar
<1>4. ASSUME NEW p, DeSalida(p) PROVE DeSalida(p)'
  <2>1. PICK g \in Manejadores :
            /\ pid[g] = p
            /\ pc[g] \in {"finalizar", "liberar"} \/ (pc[g] = "salir" /\ respuesta[g] = "creado")
    BY <1>4 DEF DeSalida
  <2>2. g # h /\ pc'[g] = pc[g] /\ pid'[g] = pid[g] /\ respuesta'[g] = respuesta[g]
    BY <1>2, <2>1 DEF TypeOK
  <2>. QED
    BY <2>1, <2>2 DEF DeSalida
<1>5. ASSUME op = "finalizar" PROVE DeSalida(q)'
  BY <1>2, <1>5 DEF TypeOK, DeSalida
<1>6. ASSUME NEW p \in DOMAIN mapaContextosProcesos' PROVE p \in confirmados' \/ DeSalida(p)'
  BY <1>1, <1>2, <1>4, <1>5 DEF IAltas
<1>. QED
  BY <1>3, <1>6 DEF IAltas

LEMMA SaleAltas ==
    ASSUME TypeOK, IClientes, IAltas, NEW h \in Manejadores, Salir(h)
    PROVE  IAltas'
<1>1. /\ pc[h] = "salir" /\ pc' = [pc EXCEPT ![h] = "libre"] /\ pid[h] \in Pids
      /\ pid' = [pid EXCEPT ![h] = NingunPid]
      /\ respuesta' = [respuesta EXCEPT ![h] = ""]
      /\ mapaContextosProcesos' = mapaContextosProcesos
      /\ confirmados' = IF respuesta[h] = "creado"
                        THEN confirmados \cup {pid[h]} ELSE confirmados
  BY DEF Salir, Va, TypeOK, SinPid
<1>2. pid[h] # NingunPid
  BY <1>1, PidVerdadero
<1>3. CrearSinConfirmar'
  <2>1. ASSUME NEW g \in Manejadores, pc'[g] \in DeCrear PROVE pid'[g] \notin confirmados'
    <3>1. g # h
      BY <1>1, <2>1 DEF TypeOK, DeCrear
    <3>2. pc[g] \in DeCrear /\ pid'[g] = pid[g] /\ pid[g] # pid[h]
      BY <1>1, <1>2, <2>1, <3>1 DEF TypeOK, IClientes, UnoPorPid
    <3>3. pid[g] \notin confirmados
      BY <3>2 DEF IAltas, CrearSinConfirmar
    <3>4. confirmados' \subseteq confirmados \cup {pid[h]}
      BY <1>1
    <3>. QED
      BY <3>2, <3>3, <3>4
  <2>. QED
    BY <2>1 DEF CrearSinConfirmar
<1>4. ASSUME NEW p, DeSalida(p) PROVE p \in confirmados' \/ DeSalida(p)'
  <2>1. PICK g \in Manejadores :
            /\ pid[g] = p
            /\ pc[g] \in {"finalizar", "liberar"} \/ (pc[g] = "salir" /\ respuesta[g] = "creado")
    BY <1>4 DEF DeSalida
  <2>2. CASE g = h
    BY <1>1, <2>1, <2>2
  <2>3. CASE g # h
    <3>1. pc'[g] = pc[g] /\ pid'[g] = pid[g] /\ respuesta'[g] = respuesta[g]
      BY <1>1, <2>3 DEF TypeOK
    <3>. QED
      BY <2>1, <3>1 DEF DeSalida
  <2>. QED
    BY <2>2, <2>3
<1>5. ASSUME NEW p \in DOMAIN mapaContextosProcesos' PROVE p \in confirmados' \/ DeSalida(p)'
  BY <1>1, <1>4 DEF IAltas
<1>. QED
  BY <1>3, <1>5 DEF IAltas

\* A step of h between the arrival of its request and its reply.
LEMMA AvanzaAltas ==
    ASSUME TypeOK, IAltas, NEW h \in Manejadores, NEW de, NEW a, Va(h, de, a),
           de # "salir", a \in DeCrear => de \in DeCrear,
           UNCHANGED <<pid, confirmados>>,
           \A g \in Manejadores : respuesta'[g] = respuesta[g] \/ g = h,
           DOMAIN mapaContextosProcesos' \subseteq DOMAIN mapaContextosProcesos \cup {pid[h]},
           /\ pid[h] \in DOMAIN mapaContextosProcesos'
           /\ de \in {"finalizar", "liberar"} \/ pid[h] \notin DOMAIN mapaContextosProcesos
           => a \in {"finalizar", "liberar"} \/ (a = "salir" /\ respuesta'[h] = "creado")
    PROVE  IAltas'
<1>1. pc[h] = de /\ pc' = [pc EXCEPT ![h] = a]
  BY DEF Va
<1>2. pc'[h] = a /\ \A g \in Manejadores : g # h => pc'[g] = pc[g]
  BY <1>1 DEF TypeOK
<1>3. CrearSinConfirmar'
  BY <1>1, <1>2 DEF IAltas, CrearSinConfirmar
<1>4. ASSUME NEW p \in DOMAIN mapaContextosProcesos' PROVE p \in confirmados' \/ DeSalida(p)'
  <2>1. CASE p = pid[h] /\ (a \in {"finalizar", "liberar"} \/ (a = "salir" /\ respuesta'[h] = "creado"))
    BY <1>2, <2>1 DEF DeSalida
  <2>2. CASE p # pid[h] \/ ~(a \in {"finalizar", "liberar"} \/ (a = "salir" /\ respuesta'[h] = "creado"))
    <3>1. p \in DOMAIN mapaContextosProcesos
      BY <1>4, <2>2
    <3>2. CASE p \in confirmados
      BY <3>2
    <3>3. CASE DeSalida(p)
      <4>1. PICK g \in Manejadores :
                /\ pid[g] = p
                /\ pc[g] \in {"finalizar", "liberar"} \/ (pc[g] = "salir" /\ respuesta[g] = "creado")
        BY <3>3 DEF DeSalida
      <4>2. g # h
        BY <1>1, <1>4, <2>2, <4>1
      <4>. QED
        BY <1>2, <4>1, <4>2 DEF DeSalida
    <3>. QED
      BY <3>1, <3>2, <3>3 DEF IAltas
  <2>. QED
    BY <2>1, <2>2
<1>. QED
  BY <1>3, <1>4 DEF IAltas

\* finalizarProceso misses no process that has a context.
LEMMA NoEncontradoSinContexto ==
    ASSUME IInv, NEW h \in Manejadores, ProcesoNoEncontrado(h)
    PROVE  pid[h] \notin DOMAIN mapaContextosProcesos
<1>1. k = 1 /\ particionesOcupadas = <<>>
  BY SinCompactacion DEF ProcesoNoEncontrado
<1>2. DePid(pid[h]) = {}
  BY DEF ProcesoNoEncontrado
<1>3. DOMAIN particiones = 1 .. Len(particiones)
  BY LenProperties DEF IInv, TypeOK
<1>4. ASSUME pid[h] \in DOMAIN mapaContextosProcesos PROVE FALSE
  <2>1. EnPendientes(particiones, 1, pid[h], mapaContextosProcesos[pid[h]])
    BY <1>1, <1>4, AlojadosEnReposo DEF IInv, Alojados
  <2>. QED
    BY <1>2, <1>3, <2>1 DEF EnPendientes, Aloja, DePid
<1>. QED
  BY <1>4

LEMMA PasoAltas ==
    ASSUME ~LoggerNil
    PROVE  IInv /\ IClientes /\ IAltas /\ [Next]_vars => IAltas'
<1> SUFFICES ASSUME IInv, IClientes, IAltas, [Next]_vars PROVE IAltas'
  OBVIOUS
<1>0. TypeOK
  BY DEF IInv
<1>1. CASE UNCHANGED vars
  BY <1>1 DEF vars, IAltas, CrearSinConfirmar, DeSalida
<1>2. ASSUME NEW h \in Manejadores,
             PedirCompactar(h) \/ \E p \in Pids : PedirCrear(h, p) \/ PedirFinalizar(h, p)
      PROVE  IAltas'
  BY <1>0, <1>2, PideAltas
<1>3. ASSUME NEW h \in Manejadores, Salir(h) PROVE IAltas'
  BY <1>0, <1>3, SaleAltas
<1>4. ASSUME NEW h \in Manejadores,
             \/ TomarContextos(h) \/ AsignarHueco(h) \/ ConsolidarMemoria(h)
             \/ ConsolidarFin(h) \/ CompactarInicio(h) \/ CompactarFin(h)
      PROVE  IAltas'
  <2>1. PICK de, a :
            /\ Va(h, de, a) /\ de # "salir" /\ (a \in DeCrear => de \in DeCrear)
            /\ de \in {"finalizar", "liberar"} => a = "liberar"
            /\ UNCHANGED <<pid, confirmados, respuesta, mapaContextosProcesos>>
    BY <1>4 DEF TomarContextos, AsignarHueco, ConsolidarMemoria, ConsolidarFin,
       CompactarInicio, CompactarFin, DeCrear
  <2>. QED
    BY <1>0, <2>1, AvanzaAltas
<1>5. ASSUME NEW h \in Manejadores, NoHayHueco(h) \/ ProcesoDestruido(h)
      PROVE  IAltas'
  <2>1. PICK de, a :
            /\ Va(h, de, a) /\ de # "salir" /\ (a \in DeCrear => de \in DeCrear)
            /\ de \notin {"finalizar", "liberar"}
            /\ UNCHANGED <<pid, confirmados, mapaContextosProcesos>>
    BY <1>5 DEF NoHayHueco, ProcesoDestruido, DeCrear
  <2>2. \E x : respuesta' = [respuesta EXCEPT ![h] = x]
    BY <1>5 DEF NoHayHueco, ProcesoDestruido
  <2>3. \A g \in Manejadores : respuesta'[g] = respuesta[g] \/ g = h
    BY <1>0, <2>2 DEF TypeOK
  <2>. QED
    BY <1>0, <2>1, <2>3, AvanzaAltas
<1>6. ASSUME NEW h \in Manejadores, ProcesoNoEncontrado(h) PROVE IAltas'
  <2>1. /\ Va(h, "liberar", "salir") /\ UNCHANGED <<pid, confirmados, mapaContextosProcesos>>
        /\ respuesta' = [respuesta EXCEPT ![h] = "noEncontrado"]
    BY <1>6 DEF ProcesoNoEncontrado
  <2>2. pid[h] \notin DOMAIN mapaContextosProcesos'
    BY <1>6, <2>1, NoEncontradoSinContexto
  <2>3. \A g \in Manejadores : respuesta'[g] = respuesta[g] \/ g = h
    BY <1>0, <2>1 DEF TypeOK
  <2>4. "salir" \notin DeCrear
    BY DEF DeCrear
  <2>. QED
    BY <1>0, <2>1, <2>2, <2>3, <2>4, AvanzaAltas
<1>7. ASSUME NEW h \in Manejadores, RegistrarContexto(h) PROVE IAltas'
  <2>1. /\ Va(h, "registrar", "salir") /\ UNCHANGED <<pid, confirmados>>
        /\ DOMAIN mapaContextosProcesos' = DOMAIN mapaContextosProcesos \cup {pid[h]}
        /\ respuesta' = [respuesta EXCEPT ![h] = "creado"]
    BY <1>7 DEF RegistrarContexto
  <2>2. respuesta'[h] = "creado" /\ \A g \in Manejadores : respuesta'[g] = respuesta[g] \/ g = h
    BY <1>0, <2>1 DEF TypeOK
  <2>3. "salir" \notin DeCrear
    BY DEF DeCrear
  <2>. QED
    BY <1>0, <2>1, <2>2, <2>3, AvanzaAltas
<1>8. ASSUME NEW h \in Manejadores, liberarParticionPorPID(h) PROVE IAltas'
  <2>1. /\ Va(h, "liberar", "destruido") /\ UNCHANGED <<pid, confirmados, respuesta>>
        /\ DOMAIN mapaContextosProcesos' = DOMAIN mapaContextosProcesos \ {pid[h]}
    BY <1>8 DEF liberarParticionPorPID
  <2>2. "destruido" \notin DeCrear
    BY DEF DeCrear
  <2>. QED
    BY <1>0, <2>1, <2>2, AvanzaAltas
<1>9. ASSUME NEW h \in Manejadores,
             ConsolidarPaso(h) \/ CompactarLibre(h) \/ CompactarOcupada(h)
      PROVE  IAltas'
  <2>1. /\ UNCHANGED <<pc, pid, confirmados, respuesta>>
        /\ DOMAIN mapaContextosProcesos' = DOMAIN mapaContextosProcesos
    BY <1>9 DEF ConsolidarPaso, CompactarLibre, CompactarOcupada, cambiarContextoProceso
  <2>. QED
    BY <2>1 DEF IAltas, CrearSinConfirmar, DeSalida
<1>. QED
  BY <1>1, <1>2, <1>3, <1>4, <1>5, <1>6, <1>7, <1>8, <1>9 DEF Next, Avanza

-----------------------------------------------------------------------------
(***************************************************************************)
(* No partition is left without an owner.                                  *)
(***************************************************************************)

\* Each partition moved so far was occupied by the same process before.
VienenDe(s, n, oc) ==
    \A j \in 1 .. Len(oc) :
        \E i \in 1 .. Len(s) : i < n /\ ~s[i].IsFree /\ s[i].PID = oc[j].PID

ConDueno(p) == p \in DOMAIN mapaContextosProcesos \/ PorRegistrar(p)

IFugas ==
    /\ Reparto(particiones)
    /\ \A p \in Pids : Ocupa(particiones, p) /\ p # 0 => ConDueno(p)
    /\ Unicas(particionesOcupadas)
    /\ VienenDe(particiones, k, particionesOcupadas)

LEMMA NadaMovido ==
    ASSUME NEW s
    PROVE  Unicas(<<>>) /\ VienenDe(s, 1, <<>>)
<1>1. Len(<<>>) = 0
  BY EmptySeq
<1>. QED
  BY <1>1 DEF Unicas, VienenDe

LEMMA InicioFugas == Init => IFugas
<1> SUFFICES ASSUME Init PROVE IFugas
  OBVIOUS
<1>1. k = 1 /\ particionesOcupadas = <<>>
  BY DEF Init
<1>2. \A i \in 1 .. Len(particiones) : particiones[i].IsFree /\ particiones[i].PID = -1
  <2>1. particiones = [i \in 1 .. Len(Particionado) |->
                          ParticionLibre(Inicio[i], Particionado[i])]
    BY DEF Init
  <2>2. Len(Particionado) \in Nat
    BY InicioPropiedades
  <2>3. DOMAIN particiones = 1 .. Len(Particionado) /\ particiones \in Seq(Particion)
    BY <2>1, InitIInv DEF IInv, TypeOK
  <2>4. Len(particiones) = Len(Particionado)
    BY <2>2, <2>3, LenProperties
  <2>5. \A i \in 1 .. Len(Particionado) :
            particiones[i] = ParticionLibre(Inicio[i], Particionado[i])
    BY <2>1
  <2>6. \A b, x : ParticionLibre(b, x).IsFree /\ ParticionLibre(b, x).PID = -1
    BY DEF ParticionLibre
  <2>. QED
    BY <2>4, <2>5, <2>6
<1>. QED
  BY <1>1, <1>2, NadaMovido DEF IFugas, Reparto, HuecosSinPid, Unicas, Ocupa

\* The step leaves the table alone and takes nobody's context nor registration.
LEMMA TablaQuietaFugas ==
    ASSUME IFugas, UNCHANGED <<particiones, k, particionesOcupadas>>,
           \A p \in Pids : ConDueno(p) => ConDueno(p)'
    PROVE  IFugas'
BY DEF IFugas

\* The step changes the table outside a compaction.
LEMMA MudanzaFugas ==
    ASSUME IFugas, NEW i, NEW f, NEW q, EsMudanza(particiones, particiones', i, f),
           k' = 1, particionesOcupadas' = <<>>,
           ~particiones'[i].IsFree =>
               /\ particiones'[i].PID = q /\ (q = 0 \/ ~Ocupa(particiones, q))
               /\ ConDueno(q)',
           \A p \in Pids : Ocupa(particiones', p) /\ ConDueno(p) /\ p # 0 => ConDueno(p)'
    PROVE  IFugas'
<1> DEFINE t == particiones'
<1>1. Reparto(t) /\ \A p : Ocupa(t, p) => Ocupa(particiones, p) \/ (p = q /\ ~t[i].IsFree)
  BY MudanzaReparto DEF IFugas
<1>2. ASSUME NEW p \in Pids, Ocupa(t, p), p # 0 PROVE ConDueno(p)'
  <2>1. CASE Ocupa(particiones, p)
    BY <1>2, <2>1 DEF IFugas
  <2>2. CASE p = q /\ ~t[i].IsFree
    BY <2>2
  <2>. QED
    BY <1>1, <1>2, <2>1, <2>2
<1>3. Unicas(particionesOcupadas') /\ VienenDe(t, k', particionesOcupadas')
  BY NadaMovido
<1>. QED
  BY <1>1, <1>2, <1>3 DEF IFugas

\* Nobody is given a second partition.
LEMMA SinSegunda ==
    ASSUME IInv, IClientes, IAltas, IFugas, NEW h \in Manejadores, pc[h] = "asignar",
           pid[h] # 0
    PROVE  ~Ocupa(particiones, pid[h])
<1>1. pid[h] \in Pids /\ pid[h] # NingunPid
  BY PidVerdadero DEF IInv, TypeOK, SinPid
<1>2. \A g \in Manejadores : pid[g] = pid[h] => g = h
  BY <1>1 DEF IClientes, UnoPorPid
<1>3. pid[h] \notin confirmados
  BY DEF IAltas, CrearSinConfirmar, DeCrear
<1>4. ~DeSalida(pid[h]) /\ ~PorRegistrar(pid[h])
  BY <1>2 DEF DeSalida, PorRegistrar
<1>5. ~ConDueno(pid[h])
  BY <1>3, <1>4 DEF IAltas, ConDueno
<1>. QED
  BY <1>1, <1>5 DEF IFugas

LEMMA AsignaFugas ==
    ASSUME IInv, IClientes, IAltas, IFugas, NEW h \in Manejadores, AsignarHueco(h),
           NEW q, q = pid[h]
    PROVE  IFugas'
<1> DEFINE t == particiones'
<1>1. /\ pc[h] = "asignar" /\ q \in Pids /\ pc' = [pc EXCEPT ![h] = "registrar"]
      /\ muParciones = Nadie
      /\ UNCHANGED <<pid, mapaContextosProcesos, k, particionesOcupadas>>
  BY DEF IInv, TypeOK, SinPid, AsignarHueco, Va, locales
<1>2. k' = 1 /\ particionesOcupadas' = <<>>
  BY <1>1, SinCompactacion
<1>3. PICK i \in DOMAIN particiones :
          /\ Elige(i, Tamano[q])
          /\ t = Asignada(i, q, Tamano[q])
  BY DEF AsignarHueco
<1>4. Mesa(particiones) /\ i \in 1 .. Len(particiones) /\ i \in Huecos(Tamano[q])
  BY <1>3, MesaTipos, LenProperties DEF IInv, Elige
<1>5. /\ i \in 1 .. Len(t) /\ ~t[i].IsFree /\ t[i].PID = q
      /\ \/ \E y, z : EsCorte(particiones, t, i, y, z) /\ z.IsFree /\ z.PID = 0
         \/ \E y : EsReemplazo(particiones, t, i, y)
  BY <1>1, <1>3, <1>4, AsignadaMesa
<1> HIDE DEF t
<1>6. \E f : EsMudanza(particiones, t, i, f)
  <2>1. CASE \E y, z : EsCorte(particiones, t, i, y, z) /\ z.IsFree /\ z.PID = 0
    BY <1>4, <1>5, <2>1, CorteEsMudanza
  <2>2. CASE \E y : EsReemplazo(particiones, t, i, y)
    <3>1. Len(t) = Len(particiones)
          /\ \A j \in 1 .. Len(particiones) : j # i => t[j] = particiones[j]
      BY <1>4, <2>2, ReemplazoMesa
    <3>2. Len(particiones) \in Nat
      BY <1>4, MesaTipos
    <3>. QED
      BY <1>4, <1>5, <3>1, <3>2, ReemplazoEsMudanza
  <2>. QED
    BY <1>5, <2>1, <2>2
<1>7. q = 0 \/ ~Ocupa(particiones, q)
  BY <1>1, SinSegunda
<1>8. ConDueno(q)'
  BY <1>1 DEF IInv, TypeOK, ConDueno, PorRegistrar
<1>9. ASSUME NEW p \in Pids, ConDueno(p) PROVE ConDueno(p)'
  BY <1>1, <1>9 DEF IInv, TypeOK, ConDueno, PorRegistrar
<1>10. PICK f : EsMudanza(particiones, t, i, f)
  BY <1>6
<1>. QED
  BY <1>2, <1>5, <1>7, <1>8, <1>9, <1>10, MudanzaFugas DEF t

\* Whoever is ended leaves the partition it had, and had no other.
LEMMA LiberaFugas ==
    ASSUME IInv, IFugas, NEW h \in Manejadores, liberarParticionPorPID(h)
    PROVE  IFugas'
<1> DEFINE q == pid[h]
           s == particiones
           t == particiones'
<1>1. /\ pc[h] = "liberar" /\ q \in Pids /\ pc' = [pc EXCEPT ![h] = "destruido"]
      /\ muParciones = Nadie
      /\ UNCHANGED <<pid, k, particionesOcupadas>>
      /\ DOMAIN mapaContextosProcesos' = DOMAIN mapaContextosProcesos \ {q}
  BY DEF IInv, TypeOK, SinPid, liberarParticionPorPID, Va, locales
<1>2. k' = 1 /\ particionesOcupadas' = <<>>
  BY <1>1, SinCompactacion
<1>3. PICK i \in DOMAIN s : EsPrimera(i, q) /\ t = [s EXCEPT ![i] = Liberada(@)]
  BY DEF liberarParticionPorPID
<1>4. Mesa(s) /\ i \in 1 .. Len(s) /\ s[i].PID = q /\ Len(s) \in Nat
  BY <1>3, MesaTipos, LenProperties DEF IInv, EsPrimera, DePid
<1>5. /\ Len(t) = Len(s) /\ t[i].IsFree /\ t[i].PID = -1
      /\ \A j \in 1 .. Len(s) : j # i => t[j] = s[j]
  BY <1>3, <1>4, LiberadaMesa
<1> HIDE DEF t
<1>6. \E f : EsMudanza(s, t, i, f)
  BY <1>4, <1>5, ReemplazoEsMudanza
<1>7. q # 0 => ~Ocupa(t, q)
  <2>1. ASSUME q # 0, NEW j \in 1 .. Len(t), ~t[j].IsFree, t[j].PID = q PROVE FALSE
    <3>1. j # i /\ j \in 1 .. Len(s) /\ s[j] = t[j]
      BY <1>5, <2>1
    <3>2. q # -1
      BY <1>1, PidVerdadero DEF NingunPid
    <3>3. ~s[i].IsFree
      BY <1>4, <2>1, <3>2 DEF IFugas, Reparto, HuecosSinPid
    <3>. QED
      BY <1>4, <2>1, <3>1, <3>3 DEF IFugas, Reparto, Unicas
  <2>. QED
    BY <2>1 DEF Ocupa
<1>8. ASSUME NEW p \in Pids, Ocupa(t, p), ConDueno(p), p # 0 PROVE ConDueno(p)'
  <2>1. p # q
    BY <1>7, <1>8
  <2>2. PorRegistrar(p) => PorRegistrar(p)'
    BY <1>1 DEF IInv, TypeOK, PorRegistrar
  <2>. QED
    BY <1>1, <1>8, <2>1, <2>2 DEF ConDueno
<1>. QED
  BY <1>2, <1>5, <1>6, <1>8, MudanzaFugas DEF t

LEMMA FusionaFugas ==
    ASSUME IInv, IFugas, NEW h \in Manejadores, ConsolidarPaso(h)
    PROVE  IFugas'
<1>1. /\ pc[h] = "consolidando" /\ indice < Len(particiones)
      /\ UNCHANGED <<pc, pid, mapaContextosProcesos, k, particionesOcupadas>>
  BY DEF ConsolidarPaso
<1>2. \A p \in Pids : ConDueno(p) => ConDueno(p)'
  BY <1>1 DEF ConDueno, PorRegistrar
<1>3. CASE particiones' = particiones
  BY <1>1, <1>2, <1>3, TablaQuietaFugas
<1>4. CASE Fusionables(indice) /\ particiones' = Fusionada(indice)
  <2> DEFINE t == particiones'
  <2>1. /\ Mesa(particiones) /\ Len(particiones) \in Nat /\ indice \in Nat /\ indice >= 1
    BY MesaTipos DEF IInv, TypeOK
  <2>2. indice \in 1 .. Len(particiones) - 1 /\ indice \in 1 .. Len(particiones)
    BY <1>1, <2>1
  <2>3. particiones[indice].PID \in {-1, 0}
    BY <1>4, <2>2 DEF Fusionables, IFugas, Reparto, HuecosSinPid
  <2>4. PICK y : /\ EsUnion(particiones, t, indice, y) /\ y.IsFree
                 /\ y.PID = particiones[indice].PID
    BY <1>4, <2>1, <2>2, FusionadaMesa
  <2>5. t[indice].IsFree
    BY <2>4 DEF EsUnion
  <2>6. k' = 1 /\ particionesOcupadas' = <<>>
    <3>1. muParciones = h
      BY <1>1 DEF IInv, Candados, ConParticiones
    <3>. QED
      BY <1>1, <3>1, SinCompactacion
  <2> HIDE DEF t
  <2>7. \E f : EsMudanza(particiones, t, indice, f)
    BY <2>1, <2>3, <2>4, UnionEsMudanza
  <2>. QED
    BY <1>2, <2>5, <2>6, <2>7, MudanzaFugas DEF t
<1>. QED
  BY <1>3, <1>4 DEF ConsolidarPaso

LEMMA CompactarLibreFugas ==
    ASSUME IInv, IFugas, NEW h \in Manejadores, CompactarLibre(h)
    PROVE  IFugas'
<1>1. /\ UNCHANGED <<particiones, particionesOcupadas, mapaContextosProcesos, pc, pid>>
      /\ k' = k + 1 /\ k \in Nat /\ Len(particiones) \in Nat
  BY MesaTipos DEF CompactarLibre, IInv, TypeOK
<1>2. VienenDe(particiones, k + 1, particionesOcupadas)
  <2> SUFFICES ASSUME NEW j \in 1 .. Len(particionesOcupadas)
               PROVE  \E i \in 1 .. Len(particiones) :
                        /\ i < k + 1 /\ ~particiones[i].IsFree
                        /\ particiones[i].PID = particionesOcupadas[j].PID
    BY DEF VienenDe
  <2>1. PICK i \in 1 .. Len(particiones) :
            /\ i < k /\ ~particiones[i].IsFree
            /\ particiones[i].PID = particionesOcupadas[j].PID
    BY DEF IFugas, VienenDe
  <2>2. i < k + 1
    BY <1>1, <2>1
  <2>. QED
    BY <2>1, <2>2
<1>. QED
  BY <1>1, <1>2 DEF IFugas, ConDueno, PorRegistrar

\* The partition that is moved has none of the earlier ones' PIDs.
LEMMA CompactarOcupadaFugas ==
    ASSUME IInv, IFugas, NEW h \in Manejadores, CompactarOcupada(h)
    PROVE  IFugas'
<1> DEFINE s == particiones
           oc == particionesOcupadas
           m == Movida(s[k])
           w == Append(oc, m)
<1>1. /\ UNCHANGED <<particiones, pc, pid>>
      /\ DOMAIN mapaContextosProcesos' = DOMAIN mapaContextosProcesos
      /\ k' = k + 1 /\ k <= Len(s) /\ ~s[k].IsFree /\ particionesOcupadas' = w
  BY DEF CompactarOcupada, cambiarContextoProceso
<1>2. Len(s) \in Nat /\ k \in 1 .. Len(s) /\ s[k] \in Particion /\ oc \in Seq(Particion)
      /\ inicio \in Nat
  <2>1. Len(s) \in Nat /\ \A j \in 1 .. Len(s) : s[j] \in Particion
    BY MesaTipos DEF IInv
  <2>2. k \in 1 .. Len(s) + 1 /\ oc \in Seq(Particion) /\ inicio \in Nat
    BY DEF IInv, TypeOK, Progreso, ProgresoDe
  <2>. QED
    BY <1>1, <2>1, <2>2
<1>3. m.PID = s[k].PID /\ m \in Particion
  BY <1>2, MovidaCampos
<1> HIDE DEF m
<1>4. /\ Len(oc) \in Nat /\ Len(w) = Len(oc) + 1 /\ w[Len(oc) + 1] = m
      /\ \A j \in 1 .. Len(oc) : w[j] = oc[j]
  BY <1>2, <1>3, LenProperties, AppendProperties
<1> HIDE DEF w
<1>5. ASSUME NEW j \in 1 .. Len(oc), oc[j].PID = m.PID PROVE m.PID = 0
  <2>1. PICK i \in 1 .. Len(s) : i < k /\ ~s[i].IsFree /\ s[i].PID = oc[j].PID
    BY DEF IFugas, VienenDe
  <2>2. i # k
    BY <1>2, <2>1
  <2>. QED
    BY <1>1, <1>2, <1>3, <1>5, <2>1, <2>2 DEF IFugas, Reparto, Unicas
<1>6. Unicas(w)
  <2>1. ASSUME NEW a \in 1 .. Len(w), NEW b \in 1 .. Len(w), a # b,
               ~w[a].IsFree, ~w[b].IsFree, w[a].PID = w[b].PID
        PROVE  w[a].PID = 0
    <3>1. CASE a \in 1 .. Len(oc) /\ b \in 1 .. Len(oc)
      BY <1>4, <2>1, <3>1 DEF IFugas, Unicas
    <3>2. CASE a = Len(oc) + 1 /\ b \in 1 .. Len(oc)
      BY <1>4, <1>5, <2>1, <3>2
    <3>3. CASE b = Len(oc) + 1 /\ a \in 1 .. Len(oc)
      BY <1>4, <1>5, <2>1, <3>3
    <3>. QED
      BY <1>4, <2>1, <3>1, <3>2, <3>3
  <2>. QED
    BY <2>1 DEF Unicas
<1>7. VienenDe(s, k + 1, w)
  <2>1. ASSUME NEW j \in 1 .. Len(w)
        PROVE  \E i \in 1 .. Len(s) : i < k + 1 /\ ~s[i].IsFree /\ s[i].PID = w[j].PID
    <3>1. CASE j \in 1 .. Len(oc)
      <4>1. PICK i \in 1 .. Len(s) : i < k /\ ~s[i].IsFree /\ s[i].PID = oc[j].PID
        BY <3>1 DEF IFugas, VienenDe
      <4>2. i < k + 1 /\ w[j] = oc[j]
        BY <1>2, <1>4, <3>1, <4>1
      <4>. QED
        BY <4>1, <4>2
    <3>2. CASE j = Len(oc) + 1
      <4>1. k < k + 1 /\ s[k].PID = w[j].PID
        BY <1>2, <1>3, <1>4, <3>2
      <4>. QED
        BY <1>1, <1>2, <4>1
    <3>. QED
      BY <1>4, <3>1, <3>2
  <2>. QED
    BY <2>1 DEF VienenDe
<1>. QED
  BY <1>1, <1>6, <1>7 DEF IFugas, ConDueno, PorRegistrar

\* What a compaction leaves was there before.
LEMMA CompactarFinFugas ==
    ASSUME IInv, IFugas, NEW h \in Manejadores, CompactarFin(h)
    PROVE  IFugas'
<1> DEFINE s == particiones
           t == particiones'
           oc == particionesOcupadas
           r == ParticionLibre(inicio, pedazoLibre)
<1>1. /\ pc[h] = "compactando" /\ pc' = [pc EXCEPT ![h] = "libre"]
      /\ UNCHANGED <<pid, mapaContextosProcesos>>
      /\ k' = 1 /\ particionesOcupadas' = <<>>
      /\ pedazoLibre = 0 => t = s
      /\ pedazoLibre # 0 => t = Append(oc, r)
  BY DEF CompactarFin, Va
<1>2. \A p \in Pids : ConDueno(p) => ConDueno(p)'
  BY <1>1 DEF IInv, TypeOK, ConDueno, PorRegistrar
<1>3. Unicas(particionesOcupadas') /\ VienenDe(t, k', particionesOcupadas')
  BY <1>1, NadaMovido
<1>4. CASE pedazoLibre = 0
  BY <1>1, <1>2, <1>3, <1>4 DEF IFugas
<1>5. CASE pedazoLibre # 0
  <2>1. t = Append(oc, r)
    BY <1>1, <1>5
  <2>2. r \in Particion /\ r.IsFree /\ r.PID = -1
    <3>1. inicio + pedazoLibre - 1 \in Int /\ inicio \in Nat /\ pedazoLibre \in Nat
      BY DEF IInv, TypeOK
    <3>. QED
      BY <3>1 DEF ParticionLibre, Particion
  <2> HIDE DEF r
  <2>3. oc \in Seq(Particion) /\ Len(oc) \in Nat /\ \A j \in 1 .. Len(oc) : ~oc[j].IsFree
    BY LenProperties DEF IInv, TypeOK, Progreso, ProgresoDe
  <2>4. /\ Len(t) = Len(oc) + 1 /\ t[Len(oc) + 1] = r
        /\ \A j \in 1 .. Len(oc) : t[j] = oc[j]
    BY <2>1, <2>2, <2>3, AppendProperties
  <2> HIDE DEF t
  <2>5. \A j \in 1 .. Len(t) :
            \/ j \in 1 .. Len(oc) /\ ~t[j].IsFree /\ t[j] = oc[j]
            \/ j = Len(oc) + 1 /\ t[j] = r
    BY <2>3, <2>4
  <2>6. HuecosSinPid(t)
    BY <2>2, <2>5 DEF HuecosSinPid
  <2>7. Unicas(t)
    <3>1. ASSUME NEW a \in 1 .. Len(t), NEW b \in 1 .. Len(t), a # b,
                 ~t[a].IsFree, ~t[b].IsFree, t[a].PID = t[b].PID
          PROVE  t[a].PID = 0
      <4>1. /\ a \in 1 .. Len(oc) /\ b \in 1 .. Len(oc) /\ t[a] = oc[a] /\ t[b] = oc[b]
        BY <2>2, <2>5, <3>1
      <4>. QED
        BY <3>1, <4>1 DEF IFugas, Unicas
    <3>. QED
      BY <3>1 DEF Unicas
  <2>8. ASSUME NEW p, Ocupa(t, p) PROVE Ocupa(s, p)
    <3>1. PICK j \in 1 .. Len(t) : ~t[j].IsFree /\ t[j].PID = p
      BY <2>8 DEF Ocupa
    <3>2. j \in 1 .. Len(oc) /\ oc[j].PID = p
      BY <2>2, <2>5, <3>1
    <3>. QED
      BY <3>2 DEF IFugas, VienenDe, Ocupa
  <2>. QED
    BY <1>2, <1>3, <2>6, <2>7, <2>8 DEF IFugas, Reparto, t
<1>. QED
  BY <1>4, <1>5

LEMMA PasoFugas == IInv /\ IClientes /\ IAltas /\ IFugas /\ [Next]_vars => IFugas'
<1> SUFFICES ASSUME IInv, IClientes, IAltas, IFugas, [Next]_vars PROVE IFugas'
  OBVIOUS
<1>0. TypeOK
  BY DEF IInv
<1>1. CASE UNCHANGED vars
  BY <1>1, TablaQuietaFugas DEF vars, locales, ConDueno, PorRegistrar
<1>2. ASSUME NEW h \in Manejadores,
             \/ PedirCompactar(h)
             \/ \E p \in Pids : PedirCrear(h, p) \/ PedirFinalizar(h, p)
      PROVE  IFugas'
  <2>1. PICK q, op : Llega(h, q, op)
    BY <1>2 DEF PedirCompactar, PedirCrear, PedirFinalizar
  <2>2. /\ pc[h] = "libre" /\ pc' = [pc EXCEPT ![h] = op] /\ pid' = [pid EXCEPT ![h] = q]
        /\ UNCHANGED <<particiones, k, particionesOcupadas, mapaContextosProcesos>>
    BY <2>1 DEF Llega, Va, locales
  <2>3. \A p \in Pids : ConDueno(p) => ConDueno(p)'
    BY <1>0, <2>2 DEF TypeOK, ConDueno, PorRegistrar
  <2>. QED
    BY <2>2, <2>3, TablaQuietaFugas
<1>3. ASSUME NEW h \in Manejadores,
             \/ TomarContextos(h) \/ Salir(h) \/ NoHayHueco(h) \/ RegistrarContexto(h)
             \/ ProcesoNoEncontrado(h) \/ ProcesoDestruido(h) \/ ConsolidarMemoria(h)
             \/ ConsolidarFin(h) \/ CompactarInicio(h)
      PROVE  IFugas'
  <2>1. UNCHANGED <<particiones, k, particionesOcupadas>>
    BY <1>3 DEF TomarContextos, Salir, NoHayHueco, RegistrarContexto, ProcesoNoEncontrado,
       ProcesoDestruido, ConsolidarMemoria, ConsolidarFin, CompactarInicio, locales
  <2>2. \A g \in Manejadores : pc[g] = "registrar" /\ g # h =>
            pc'[g] = "registrar" /\ pid'[g] = pid[g]
    BY <1>0, <1>3 DEF TypeOK, TomarContextos, Salir, NoHayHueco, RegistrarContexto,
       ProcesoNoEncontrado, ProcesoDestruido, ConsolidarMemoria, ConsolidarFin,
       CompactarInicio, Va
  <2>3. pc[h] = "registrar" => pid[h] \in DOMAIN mapaContextosProcesos'
    BY <1>3 DEF TomarContextos, Salir, NoHayHueco, RegistrarContexto, ProcesoNoEncontrado,
       ProcesoDestruido, ConsolidarMemoria, ConsolidarFin, CompactarInicio, Va
  <2>4. DOMAIN mapaContextosProcesos \subseteq DOMAIN mapaContextosProcesos'
    BY <1>3 DEF TomarContextos, Salir, NoHayHueco, RegistrarContexto, ProcesoNoEncontrado,
       ProcesoDestruido, ConsolidarMemoria, ConsolidarFin, CompactarInicio
  <2>5. \A p \in Pids : ConDueno(p) => ConDueno(p)'
    BY <2>2, <2>3, <2>4 DEF ConDueno, PorRegistrar
  <2>. QED
    BY <2>1, <2>5, TablaQuietaFugas
<1>4. ASSUME NEW h \in Manejadores, AsignarHueco(h) PROVE IFugas'
  BY <1>4, AsignaFugas
<1>5. ASSUME NEW h \in Manejadores, liberarParticionPorPID(h) PROVE IFugas'
  BY <1>5, LiberaFugas
<1>6. ASSUME NEW h \in Manejadores, ConsolidarPaso(h) PROVE IFugas'
  BY <1>6, FusionaFugas
<1>7. ASSUME NEW h \in Manejadores, CompactarLibre(h) PROVE IFugas'
  BY <1>7, CompactarLibreFugas
<1>8. ASSUME NEW h \in Manejadores, CompactarOcupada(h) PROVE IFugas'
  BY <1>8, CompactarOcupadaFugas
<1>9. ASSUME NEW h \in Manejadores, CompactarFin(h) PROVE IFugas'
  BY <1>9, CompactarFinFugas
<1>. QED
  BY <1>1, <1>2, <1>3, <1>4, <1>5, <1>6, <1>7, <1>8, <1>9 DEF Next, Avanza

LEMMA Fugas == ASSUME ~LoggerNil PROVE Spec => []IFugas
<1>1. IInv /\ IClientes /\ IAltas /\ [Next]_vars => IAltas'
  BY PasoAltas
<1>2. TypeOK /\ IClientes /\ [Next]_vars => IClientes'
  BY PasoClientes
<1>. QED
  BY <1>1, <1>2, InicioAltas, InicioFugas, InicioClientes, PasoFugas, Invariante,
     TipoCorrecto, PTL DEF Spec

LEMMA FugasNinguna == IInv /\ IFugas => SinFugas
<1> SUFFICES ASSUME IInv, IFugas PROVE SinFugas
  OBVIOUS
<1>1. DOMAIN particiones = 1 .. Len(particiones) /\ Cabe(particiones)
  BY LenProperties DEF IInv, TypeOK, Mesa
<1>2. ASSUME NEW i \in DOMAIN particiones, ~particiones[i].IsFree, particiones[i].PID # 0
      PROVE  ConDueno(particiones[i].PID)
  <2>1. particiones[i].PID \in Pids /\ Ocupa(particiones, particiones[i].PID)
    BY <1>1, <1>2 DEF Cabe, CabeEn, Ocupa
  <2>. QED
    BY <1>2, <2>1 DEF IFugas
<1>3. ASSUME NEW i \in DOMAIN particiones, ~particiones[i].IsFree, particiones[i].PID # 0,
             NEW j \in DOMAIN particiones \ {i}, ~particiones[j].IsFree
      PROVE  particiones[j].PID # particiones[i].PID
  BY <1>1, <1>3 DEF IFugas, Reparto, Unicas
<1>. QED
  BY <1>2, <1>3 DEF SinFugas, ConDueno

\* Where the loggers are assigned, no partition stays occupied on behalf of
\* nobody and no process occupies two, whatever creations, ends, merges and
\* compactions are served at once.
THEOREM NingunaFuga ==
    ASSUME ~LoggerNil
    PROVE  Spec => []SinFugas
<1>. QED
  BY Fugas, FugasNinguna, Invariante, PTL
=============================================================================
