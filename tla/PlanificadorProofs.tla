-------------------------- MODULE PlanificadorProofs --------------------------
(***************************************************************************)
(* Theorems about Planificador, for any kernel, any programs and any       *)
(* bounds.  First, what the planner may rely on of cola_exec while it      *)
(* holds its mutex, and that the CPU is never given two threads.  Then     *)
(* where the threads in the queues come from, and the types; that at rest  *)
(* nobody waits who is more urgent than the thread in EXEC; that the two   *)
(* versions of READY agree; and, in programs where the planner never takes *)
(* the CPU from a thread that goes on, where each thread is, that the      *)
(* queues implement the life cycle of Estados, and that no mutex is left   *)
(* locked.                                                                 *)
(***************************************************************************)
EXTENDS Planificador, Lemas

\* Where the planner holds cola_exec_mutex, for good in "atascado".
ConExec ==
    {"finElige", "atascado", "envia", "devuelve", "avisa", "toma", "intDevuelve",
     "intElige", "intAvisa", "intToma", "intEspera", "intEnvia"}

\* Where it has emptied cola_exec and not filled it yet.
SinNadie ==
    {"finElige", "atascado", "intDevuelve", "intElige", "intAvisa", "intToma", "intEspera"}

\* Where it has found a thread in EXEC to replace.
ConAlguien == {"devuelve", "avisa", "toma"}

UnoONinguno(cola) == cola = <<>> \/ \E t : cola = <<t>>

\* cola_exec has what the planner left there: thread_join, which empties it, and
\* mutex_lock, which marks its thread, cannot come in between.
IExec ==
    /\ UnoONinguno(cola_exec)
    /\ "exec" \in tomados <=> plan \in ConExec
    /\ plan \in SinNadie => cola_exec = <<>>
    /\ plan \in ConAlguien => cola_exec # <<>>
    /\ canal \in Canales

LEMMA InicioExec == Init => IExec
BY DEF Init, IExec, UnoONinguno, ConExec, SinNadie, ConAlguien, Canales

\* A step that leaves the planner, cola_exec and its mutex alone.
Ajeno ==
    /\ plan' = plan /\ cola_exec' = cola_exec
    /\ "exec" \in tomados' <=> "exec" \in tomados
    /\ canal' \in Canales

LEMMA AjenoSigue ==
    ASSUME IExec, Ajeno
    PROVE  IExec'
BY DEF IExec, Ajeno, UnoONinguno

-----------------------------------------------------------------------------
(***************************************************************************)
(* The CPU and VerificarTCBEnCanal.                                        *)
(***************************************************************************)

LEMMA CPUSigue ==
    ASSUME IExec, CPU \/ Verificar
    PROVE  IExec'
<1>1. CASE Syscall \/ OtraInstruccion \/ FinDeCiclo \/ CheckInterrupt
  <2>1. Ajeno
    BY <1>1 DEF Syscall, OtraInstruccion, FinDeCiclo, CheckInterrupt, Ajeno, IExec,
                colas, delPlan, handler, datos
  <2>. QED
    BY <2>1, AjenoSigue
<1>2. CASE FetchFalla
  <2>1. Ajeno
    BY <1>2 DEF FetchFalla, Ajeno, IExec, colas, delPlan, handler, datos
  <2>. QED
    BY <2>1, AjenoSigue
<1>3. CASE executionProces
  <2>1. Ajeno
    BY <1>3 DEF executionProces, Ajeno, IExec, colas, delPlan, handler, datos
  <2>. QED
    BY <2>1, AjenoSigue
<1>4. CASE Verificar
  <2>1. tomados' = tomados \/ tomados' = tomados \cup {"blocked"}
    BY <1>4 DEF Verificar
  <2>2. Ajeno
    BY <1>4, <2>1 DEF Verificar, Ajeno, IExec, colas, delPlan, handler, datos
  <2>. QED
    BY <2>2, AjenoSigue
<1>. QED
  BY <1>1, <1>2, <1>3, <1>4 DEF CPU

-----------------------------------------------------------------------------
(***************************************************************************)
(* The planner.                                                            *)
(***************************************************************************)

\* A choice takes and leaves cola_ready_mutex, and no other.
LEMMA EleccionAjena ==
    ASSUME NEW e, Elige(e)
    PROVE  "exec" \in tomados' <=> "exec" \in tomados
BY DEF Elige

LEMMA PlannerSigue ==
    ASSUME IExec, Planner
    PROVE  IExec'
<1> USE DEF IExec, EnPlan, De, ConExec, SinNadie, ConAlguien, ajenoAlPlan, handler, datos
<1>1. CASE VaciarExec
  BY <1>1 DEF VaciarExec, UnoONinguno
<1>2. CASE ElegirSiguiente
  <2>1. /\ plan = "finElige" /\ canal' = canal
        /\ "exec" \in tomados' <=> "exec" \in tomados
    BY <1>2, EleccionAjena DEF ElegirSiguiente
  <2>2. CASE plan' = "envia" /\ cola_exec' = Append(cola_exec, nuevo')
    <3>1. cola_exec' = <<nuevo'>>
      BY <2>1, <2>2
    <3>. QED
      BY <2>1, <2>2, <3>1 DEF UnoONinguno
  <2>3. CASE plan' = "atascado" /\ UNCHANGED cola_exec
    BY <2>1, <2>3 DEF UnoONinguno
  <2>. QED
    BY <1>2, <2>2, <2>3 DEF ElegirSiguiente
<1>3. CASE Ejecutar
  BY <1>3 DEF Ejecutar, colas, UnoONinguno
<1>4. CASE ElegirDesalojo
  <2>1. /\ plan = "elige" /\ plan' = "compara" /\ canal' = canal
        /\ cola_exec' = cola_exec
        /\ "exec" \in tomados' <=> "exec" \in tomados
    BY <1>4, EleccionAjena DEF ElegirDesalojo, colas
  <2>. QED
    BY <2>1 DEF UnoONinguno
<1>5. CASE Comparar
  BY <1>5 DEF Comparar, SinDesalojo, Libre, colas, UnoONinguno
<1>6. CASE Devolver \/ DevolverInterrumpido
  BY <1>6 DEF Devolver, DevolverInterrumpido, UnoONinguno
<1>7. CASE notifCPUInterruption
  BY <1>7 DEF notifCPUInterruption, colas, UnoONinguno
<1>8. CASE Desalojar
  BY <1>8 DEF Desalojar, UnoONinguno
<1>9. CASE Interrumpir
  BY <1>9 DEF Interrumpir, UnoONinguno
<1>10. CASE ElegirInterrumpido
  <2>1. /\ plan = "intElige" /\ plan' = "intAvisa" /\ canal' = canal
        /\ cola_exec' = cola_exec
        /\ "exec" \in tomados' <=> "exec" \in tomados
    BY <1>10, EleccionAjena DEF ElegirInterrumpido
  <2>. QED
    BY <2>1 DEF UnoONinguno
<1>11. CASE TomarIntProcesada
  BY <1>11 DEF TomarIntProcesada, colas, UnoONinguno
<1>12. CASE EsperarCPU
  <2>1. cola_exec' = <<nuevo>>
    BY <1>12 DEF EsperarCPU
  <2>. QED
    BY <1>12, <2>1 DEF EsperarCPU, UnoONinguno
<1>13. CASE EjecutarInterrumpido
  BY <1>13 DEF EjecutarInterrumpido, colas, UnoONinguno
<1>. QED
  BY <1>1, <1>2, <1>3, <1>4, <1>5, <1>6, <1>7, <1>8, <1>9, <1>10, <1>11, <1>12, <1>13
     DEF Planner

-----------------------------------------------------------------------------
(***************************************************************************)
(* The handlers.                                                           *)
(***************************************************************************)

\* Those that say which message the planner will get.
LEMMA AvisosSiguen ==
    ASSUME IExec,
           SolicitarEspacioHilos \/ PasarABlocked \/ PasarAExit \/ MatarMultinivel
    PROVE  IExec'
<1> USE DEF ajenoAlHandler, delPlan, Canales, Ajeno, Responde, Va, Panico
<1>1. CASE SolicitarEspacioHilos
  <2>1. Ajeno
    BY <1>1 DEF SolicitarEspacioHilos
  <2>. QED
    BY <2>1, AjenoSigue
<1>2. CASE PasarABlocked
  <2>1. Ajeno
    BY <1>2 DEF PasarABlocked
  <2>. QED
    BY <2>1, AjenoSigue
<1>3. CASE PasarAExit
  <2>1. tomados' = tomados \/ tomados' = tomados \cup {"exit"}
    BY <1>3 DEF PasarAExit
  <2>2. canal' \in Canales
    BY <1>3 DEF PasarAExit, IExec
  <2>3. Ajeno
    BY <1>3, <2>1, <2>2 DEF PasarAExit
  <2>. QED
    BY <2>3, AjenoSigue
<1>4. CASE MatarMultinivel
  <2>1. tomados' = tomados \/ tomados' = tomados \cup {"exit"}
    BY <1>4 DEF MatarMultinivel
  <2>2. Ajeno
    BY <1>4, <2>1 DEF MatarMultinivel
  <2>. QED
    BY <2>2, AjenoSigue
<1>. QED
  BY <1>1, <1>2, <1>3, <1>4

\* Those that take no mutex the planner shares with them for cola_exec.
LEMMA AjenosSiguen ==
    ASSUME IExec,
           \/ EntraThreadCreate \/ EntraProcessCreate \/ PasarAReady \/ RegistrarPCB
           \/ EntraFinalizar \/ AvisarMemoria \/ FiltrarReady \/ FiltrarMultinivel
           \/ NadaQueSoltar \/ SoltarSinPCB \/ SoltarMutex \/ Desbloquear
           \/ QuitarDeTIDCola \/ PedirVerificacion \/ EntraThreadJoin \/ MutexCreate
           \/ AnotarTID \/ EntraConEjecutando \/ Volcar \/ MatarReady
    PROVE  IExec'
<1>1. plan' = plan /\ cola_exec' = cola_exec /\ tomados' = tomados /\ canal' = canal
  BY DEF EntraThreadCreate, EntraProcessCreate, PasarAReady, RegistrarPCB, EntraFinalizar,
         AvisarMemoria, FiltrarReady, FiltrarMultinivel, NadaQueSoltar, SoltarSinPCB,
         SoltarMutex, Desbloquear, QuitarDeTIDCola, PedirVerificacion, EntraThreadJoin,
         MutexCreate, AnotarTID, EntraConEjecutando, Volcar, MatarReady,
         colas, datos, ajenoAlHandler, delPlan
<1>. QED
  BY <1>1, AjenoSigue DEF Ajeno, IExec

\* Those that take or leave other mutexes.
LEMMA OtrosCerrojosSiguen ==
    ASSUME IExec, ElegirAlQueTermina \/ Encolar \/ BorrarPCB \/ LiberarInt
    PROVE  IExec'
<1>1. plan' = plan /\ cola_exec' = cola_exec /\ canal' = canal
  BY DEF ElegirAlQueTermina, Encolar, BorrarPCB, LiberarInt, colas, datos,
         ajenoAlHandler, delPlan
<1>2. \/ tomados' = tomados
      \/ \E m \in {"ready", "pcbs", "int"} :
            tomados' = tomados \cup {m} \/ tomados' = tomados \ {m}
  BY DEF ElegirAlQueTermina, Encolar, BorrarPCB, LiberarInt, Panico
<1>3. "exec" \in tomados' <=> "exec" \in tomados
  BY <1>2
<1>. QED
  BY <1>1, <1>3, AjenoSigue DEF Ajeno, IExec

\* The messages: the planner was waiting.
LEMMA MensajesSiguen ==
    ASSUME IExec, Enviar \/ EnviarConReady
    PROVE  IExec'
<1>1. plan = "espera" /\ cola_exec' = cola_exec /\ canal' = canal
  BY DEF Enviar, EnviarConReady, colas, datos
<1>2. plan' \in {"fin", "elige", "interrumpe"}
  BY DEF Enviar, EnviarConReady, AlRecibir, IExec, Canales
<1>3. "exec" \in tomados' <=> "exec" \in tomados
  BY DEF Enviar, EnviarConReady
<1>. QED
  BY <1>1, <1>2, <1>3 DEF IExec, UnoONinguno, ConExec, SinNadie, ConAlguien

\* thread_join waits for cola_exec_mutex.
LEMMA JoinSigue ==
    ASSUME IExec, VaciarExecPorJoin
    PROVE  IExec'
<1>1. /\ plan' = plan /\ tomados' = tomados /\ "exec" \notin tomados
      /\ cola_exec' = <<>> /\ canal' \in Canales
  BY DEF VaciarExecPorJoin, Libre, Canales, ajenoAlHandler, delPlan
<1>. QED
  BY <1>1 DEF IExec, UnoONinguno, ConExec, ConAlguien, SinNadie

\* mutex_lock marks the thread in EXEC without a mutex, and takes it nowhere.
LEMMA MutexLockSigue ==
    ASSUME IExec, MutexLock
    PROVE  IExec'
<1>1. plan' = plan /\ tomados' = tomados /\ canal' = canal
  BY DEF MutexLock, ajenoAlHandler, delPlan
<1>2. \/ cola_exec' = cola_exec
      \/ cola_exec # <<>> /\ cola_exec' = [cola_exec EXCEPT ![1].Mutex = TRUE]
  BY DEF MutexLock
<1>3. CASE cola_exec' = cola_exec
  BY <1>1, <1>3, AjenoSigue DEF Ajeno, IExec
<1>4. CASE cola_exec # <<>> /\ cola_exec' = [cola_exec EXCEPT ![1].Mutex = TRUE]
  <2>1. PICK t : cola_exec = <<t>>
    BY <1>4 DEF IExec, UnoONinguno
  <2>2. cola_exec' = <<[t EXCEPT !.Mutex = TRUE]>>
    <3>1. cola_exec' = [cola_exec EXCEPT ![1] = [cola_exec[1] EXCEPT !.Mutex = TRUE]]
      BY <1>4, Zenon
    <3>2. cola_exec[1] = t
      BY <2>1
    <3> DEFINE u == [cola_exec[1] EXCEPT !.Mutex = TRUE]
    <3>3. cola_exec' = [<<t>> EXCEPT ![1] = u]
      BY <2>1, <3>1
    <3>4. u = [t EXCEPT !.Mutex = TRUE]
      BY <3>2
    <3> HIDE DEF u
    <3>5. cola_exec' = <<u>>
      BY <3>3
    <3>. QED
      BY <3>4, <3>5
  <2>3. cola_exec' # <<>>
    BY <2>2
  <2>. QED
    BY <1>1, <1>4, <2>2, <2>3 DEF IExec, UnoONinguno
<1>. QED
  BY <1>2, <1>3, <1>4

LEMMA HandlerSigue ==
    ASSUME IExec, Handler
    PROVE  IExec'
BY AvisosSiguen, AjenosSiguen, OtrosCerrojosSiguen, MensajesSiguen, JoinSigue,
   MutexLockSigue DEF Handler

LEMMA PasoExec == IExec /\ [Next]_vars => IExec'
<1> SUFFICES ASSUME IExec, [Next]_vars PROVE IExec'
  OBVIOUS
<1>1. CASE UNCHANGED vars
  <2>1. Ajeno
    BY <1>1 DEF vars, Ajeno, IExec, colas, delPlan, handler, datos
  <2>. QED
    BY <2>1, AjenoSigue
<1>. QED
  BY <1>1, CPUSigue, PlannerSigue, HandlerSigue DEF Next

-----------------------------------------------------------------------------
(***************************************************************************)
(* cola_exec.                                                              *)
(***************************************************************************)

\* From the moment the planner finds a thread in EXEC to replace until it puts
\* the other in its place, nobody empties cola_exec, whose first element it
\* reads; and what it empties stays empty until it fills it.
THEOREM ExecEnPie == Spec => []IExec
BY InicioExec, PasoExec, PTL DEF Spec

\* The CPU is never given two threads, whatever calls race the planner.
THEOREM SiempreUnoSolo == Spec => []UnSoloEnExec
<1>1. IExec => UnSoloEnExec
  BY DEF IExec, UnoONinguno, UnSoloEnExec
<1>. QED
  BY <1>1, ExecEnPie, PTL

-----------------------------------------------------------------------------
(***************************************************************************)
(* What the helpers of Colas return.                                       *)
(***************************************************************************)

\* f is what Filtra has kept of the queue, one element after another.
EsFiltrado(T, q, S, f) ==
    /\ f \in [0 .. Len(q) -> Seq(T)] /\ f[0] = <<>>
    /\ \A n \in 1 .. Len(q) :
          f[n] = IF q[n] \in S THEN Append(f[n - 1], q[n]) ELSE f[n - 1]
    /\ Filtra(q, S) = f[Len(q)]

LEMMA FiltraPorPartes ==
    ASSUME NEW T, NEW q \in Seq(T), NEW S
    PROVE  \E f : EsFiltrado(T, q, S, f)
<1> DEFINE L == Len(q)
           P == [x \in Seq(T) \X Nat |->
                    IF x[2] \in DOMAIN q /\ q[x[2]] \in S THEN Append(x[1], q[x[2]]) ELSE x[1]]
           EsFiltro(f) == f = [n \in 0 .. L |->
                                 IF n = 0 THEN <<>>
                                 ELSE IF q[n] \in S THEN Append(f[n - 1], q[n]) ELSE f[n - 1]]
           h == CHOOSE f : EsFiltro(f)
<1>1. L \in Nat /\ DOMAIN q = 1 .. L /\ <<>> \in Seq(T)
  BY LenProperties, EmptySeq
<1>2. \A v \in Seq(T) : \A i \in Nat : P[<<v, i>>] \in Seq(T)
  <2>1. ASSUME NEW v \in Seq(T), NEW i \in Nat PROVE P[<<v, i>>] \in Seq(T)
    <3>1. P[<<v, i>>] = IF i \in DOMAIN q /\ q[i] \in S THEN Append(v, q[i]) ELSE v
      OBVIOUS
    <3>2. i \in DOMAIN q => Append(v, q[i]) \in Seq(T)
      BY <1>1
    <3>. QED
      BY <3>1, <3>2
  <2>. QED
    BY <2>1
<1>3. PICK g : EsSerie(Seq(T), P, <<>>, L, g)
  <2> HIDE DEF P, L
  <2>. QED
    BY <1>1, <1>2, HaySerie
<1>4. /\ g \in [0 .. L -> Seq(T)] /\ g[0] = <<>>
      /\ \A i \in 1 .. L : g[i] = P[<<g[i - 1], i>>]
  BY <1>3 DEF EsSerie
<1>5. ASSUME NEW n \in 1 .. L
      PROVE  g[n] = IF q[n] \in S THEN Append(g[n - 1], q[n]) ELSE g[n - 1]
  <2>1. n - 1 \in 0 .. L /\ n \in Nat /\ n \in DOMAIN q
    BY <1>1
  <2>2. <<g[n - 1], n>> \in Seq(T) \X Nat
    BY <1>4, <2>1
  <2>3. P[<<g[n - 1], n>>] = IF n \in DOMAIN q /\ q[n] \in S THEN Append(g[n - 1], q[n]) ELSE g[n - 1]
    BY <2>2
  <2>. QED
    BY <1>4, <2>1, <2>3
<1>6. EsFiltro(g)
  <2>1. ASSUME NEW n \in 0 .. L
        PROVE  g[n] = IF n = 0 THEN <<>>
                      ELSE IF q[n] \in S THEN Append(g[n - 1], q[n]) ELSE g[n - 1]
    <3>1. CASE n = 0
      BY <1>4, <3>1
    <3>2. CASE n # 0
      <4>1. n \in 1 .. L
        BY <1>1, <3>2
      <4>. QED
        BY <1>5, <3>2, <4>1
    <3>. QED
      BY <3>1, <3>2
  <2>2. g = [n \in 0 .. L |-> g[n]]
    BY <1>4
  <2> HIDE DEF L
  <2>. QED
    BY <2>1, <2>2
<1>7. EsFiltro(h)
  BY <1>6, Zenon
<1>8. Filtra(q, S) = h[L]
  BY DEF Filtra
<1>9. ASSUME NEW n \in 0 .. L
      PROVE  h[n] = IF n = 0 THEN <<>>
                    ELSE IF q[n] \in S THEN Append(h[n - 1], q[n]) ELSE h[n - 1]
  <2> HIDE DEF h, L
  <2>. QED
    BY <1>7
<1>10. h \in [0 .. L -> Seq(T)]
  <2>1. SUFFICES ASSUME NEW m \in 0 .. L, h[m] \notin Seq(T) PROVE FALSE
    <3> HIDE DEF h, L
    <3>1. h = [n \in 0 .. L |-> h[n]]
      BY <1>7
    <3>. QED
      BY <2>1, <3>1
  <2> DEFINE Malos == {n \in 0 .. L : h[n] \notin Seq(T)}
  <2> HIDE DEF h
  <2>2. Malos \subseteq Nat /\ Malos # {}
    BY <1>1, <2>1
  <2>3. PICK n \in Malos : \A x \in Malos : n <= x
    <3> HIDE DEF Malos
    <3>. QED
      BY <2>2, MinimoNatural
  <2>4. n \in 0 .. L /\ h[n] \notin Seq(T)
    BY <2>3
  <2>5. n # 0
    BY <1>1, <1>9, <2>4
  <2>6. n - 1 \in 0 .. L /\ ~(n <= n - 1) /\ n \in 1 .. L
    BY <1>1, <2>4, <2>5
  <2>7. h[n - 1] \in Seq(T)
    BY <2>3, <2>6
  <2>8. h[n] = IF q[n] \in S THEN Append(h[n - 1], q[n]) ELSE h[n - 1]
    BY <1>9, <2>4, <2>5
  <2>9. q[n] \in T
    BY <1>1, <2>6
  <2>. QED
    BY <2>4, <2>7, <2>8, <2>9
<1> HIDE DEF h
<1>11. ASSUME NEW n \in 1 .. L
      PROVE  h[n] = IF q[n] \in S THEN Append(h[n - 1], q[n]) ELSE h[n - 1]
  <2>1. n \in 0 .. L /\ n # 0
    BY <1>1
  <2>. QED
    BY <1>9, <2>1
<1>12. h[0] = <<>>
  BY <1>1, <1>9
<1>. QED
  BY <1>8, <1>10, <1>11, <1>12 DEF EsFiltrado

\* Filtra keeps the elements that are in S, and no other.
LEMMA FiltraDa ==
    ASSUME NEW T, NEW q \in Seq(T), NEW S
    PROVE  /\ Filtra(q, S) \in Seq(T)
           /\ Range(Filtra(q, S)) = Range(q) \cap S
<1>0. PICK f : EsFiltrado(T, q, S, f)
  BY FiltraPorPartes
<1>1. /\ f \in [0 .. Len(q) -> Seq(T)] /\ f[0] = <<>>
      /\ \A n \in 1 .. Len(q) :
            f[n] = IF q[n] \in S THEN Append(f[n - 1], q[n]) ELSE f[n - 1]
      /\ Filtra(q, S) = f[Len(q)]
  BY <1>0 DEF EsFiltrado
<1> DEFINE L == Len(q)
           Hasta(n) == {q[i] : i \in 1 .. n} \cap S
           Malos == {n \in 0 .. L : Range(f[n]) # Hasta(n)}
<1>2. L \in Nat /\ DOMAIN q = 1 .. L
  BY LenProperties
<1>3. Malos = {}
  <2>1. SUFFICES ASSUME Malos # {} PROVE FALSE
    OBVIOUS
  <2>2. PICK n \in Malos : \A x \in Malos : n <= x
    <3>1. Malos \subseteq Nat
      BY <1>2
    <3> HIDE DEF Malos
    <3>. QED
      BY <2>1, <3>1, MinimoNatural
  <2>3. n \in 0 .. L /\ Range(f[n]) # Hasta(n)
    BY <2>2
  <2>4. n # 0
    <3>1. Range(<<>>) = {} /\ Hasta(0) = {}
      BY DEF Range
    <3>. QED
      BY <1>1, <2>3, <3>1
  <2>5. n - 1 \in 0 .. L /\ ~(n <= n - 1) /\ n \in 1 .. L /\ n \in Nat
    BY <1>2, <2>3, <2>4
  <2>6. Range(f[n - 1]) = Hasta(n - 1)
    BY <2>2, <2>5
  <2>7. f[n - 1] \in Seq(T) /\ q[n] \in T
    BY <1>1, <1>2, <2>5
  <2>8. 1 .. n = (1 .. n - 1) \cup {n}
    BY <2>5
  <2>9. CASE q[n] \in S
    <3>1. Range(f[n]) = Range(f[n - 1]) \cup {q[n]}
      <4>1. f[n] = Append(f[n - 1], q[n])
        BY <1>1, <2>5, <2>9
      <4>2. DOMAIN f[n] = DOMAIN f[n - 1] \cup {Len(f[n - 1]) + 1}
        BY <2>7, <4>1
      <4>3. \A i \in DOMAIN f[n - 1] : f[n][i] = f[n - 1][i]
        BY <2>7, <4>1
      <4>4. f[n][Len(f[n - 1]) + 1] = q[n]
        BY <2>7, <4>1
      <4>. QED
        BY <4>2, <4>3, <4>4 DEF Range
    <3>2. Hasta(n) = Hasta(n - 1) \cup {q[n]}
      BY <2>8, <2>9
    <3>. QED
      BY <2>3, <2>6, <3>1, <3>2
  <2>10. CASE q[n] \notin S
    <3>1. f[n] = f[n - 1]
      BY <1>1, <2>5, <2>10
    <3>2. Hasta(n) = Hasta(n - 1)
      BY <2>8, <2>10
    <3>. QED
      BY <2>3, <2>6, <3>1, <3>2
  <2>. QED
    BY <2>9, <2>10
<1>4. L \in 0 .. L
  BY <1>2
<1>5. Range(f[L]) = Hasta(L)
  BY <1>3, <1>4
<1>6. Range(q) = {q[i] : i \in 1 .. L}
  BY <1>2 DEF Range
<1>. QED
  BY <1>1, <1>4, <1>5, <1>6

\* The loop of desbloquearHilo keeps elements of the queue.
LEMMA SalteandoDa ==
    ASSUME NEW T, NEW q \in Seq(T), NEW h
    PROVE  SinHiloSalteando(q, h) \in Seq(T)
<1> DEFINE L == Len(q)
           V == [resto : Seq(T), salta : BOOLEAN]
           b == [resto |-> <<>>, salta |-> FALSE]
           Paso(acc, t) == IF ~acc.salta /\ Hilo(t) = h
                           THEN [acc EXCEPT !.salta = TRUE]
                           ELSE [resto |-> Append(acc.resto, t), salta |-> FALSE]
           P == [x \in V \X Nat |-> IF x[2] \in DOMAIN q THEN Paso(x[1], q[x[2]]) ELSE x[1]]
           EsFold(F) == F = [s \in SUBSET (1 .. L) |->
                               IF s = {} THEN b ELSE Paso(F[s \ {Max(s)}], q[Max(s)])]
           F == CHOOSE iter : EsFold(iter)
<1>1. L \in Nat /\ DOMAIN q = 1 .. L /\ <<>> \in Seq(T)
  BY LenProperties, EmptySeq
<1>2. b \in V
  BY <1>1
<1>3. ASSUME NEW v \in V, NEW i \in DOMAIN q PROVE Paso(v, q[i]) \in V
  <2>1. q[i] \in T /\ v.resto \in Seq(T)
    OBVIOUS
  <2>2. Append(v.resto, q[i]) \in Seq(T)
    BY <2>1
  <2>. QED
    BY <2>2
<1> HIDE DEF Paso, b, V
<1>4. \A v \in V : \A i \in Nat : P[<<v, i>>] \in V
  BY <1>3
<1>5. PICK G : EsRecorrido(V, P, b, L, G)
  <2> HIDE DEF P, L
  <2>. QED
    BY <1>1, <1>2, <1>4, HayRecorrido
<1>6. /\ G \in [SUBSET (1 .. L) -> V]
      /\ \A s \in SUBSET (1 .. L) : G[s] = IF s = {} THEN b ELSE P[<<G[s \ {Max(s)}], Max(s)>>]
  BY <1>5 DEF EsRecorrido
<1>7. \A s \in SUBSET (1 .. L) : s # {} => Max(s) \in s
  <2>1. SUFFICES ASSUME NEW s \in SUBSET (1 .. L), s # {}
                 PROVE  \E x \in s : \A y \in s : x >= y
    BY DEF Max
  <2> DEFINE C == {L - x : x \in s}
  <2>2. C \subseteq Nat /\ C # {}
    <3>1. \A x \in s : x \in 1 .. L /\ L - x \in Nat
      <4> HIDE DEF L
      <4>. QED
        BY <1>1
    <3> HIDE DEF L
    <3>. QED
      BY <2>1, <3>1
  <2>3. PICK c \in C : \A d \in C : c <= d
    <3> HIDE DEF C
    <3>. QED
      BY <2>2, MinimoNatural
  <2>4. PICK x \in s : c = L - x
    BY <2>3
  <2>5. \A y \in s : L - x <= L - y
    BY <2>3, <2>4
  <2>6. \A y \in s : x >= y
    BY <1>1, <2>5
  <2>. QED
    BY <2>6
<1>8. EsFold(G)
  <2>1. ASSUME NEW s \in SUBSET (1 .. L)
        PROVE  G[s] = IF s = {} THEN b ELSE Paso(G[s \ {Max(s)}], q[Max(s)])
    <3>1. CASE s = {}
      BY <1>6, <3>1
    <3>2. CASE s # {}
      <4>1. Max(s) \in DOMAIN q /\ Max(s) \in Nat
        <5>1. Max(s) \in s
          BY <1>7, <3>2, Zenon
        <5>2. s \subseteq 1 .. L /\ 1 .. L \subseteq Nat
          BY <1>1
        <5>. QED
          BY <1>1, <5>1, <5>2
      <4>2. s \ {Max(s)} \in SUBSET (1 .. L)
        OBVIOUS
      <4>3. G[s \ {Max(s)}] \in V
        BY <1>6, <4>2
      <4>4. P[<<G[s \ {Max(s)}], Max(s)>>] = Paso(G[s \ {Max(s)}], q[Max(s)])
        BY <4>1, <4>3
      <4>. QED
        BY <1>6, <3>2, <4>4
    <3>. QED
      BY <3>1, <3>2
  <2>2. G = [s \in SUBSET (1 .. L) |-> G[s]]
    BY <1>6
  <2> HIDE DEF L
  <2>. QED
    BY <2>1, <2>2
<1>9. EsFold(F)
  BY <1>8, Zenon
<1>10. SinHiloSalteando(q, h) = F[1 .. L].resto
  <2>1. SinHiloSalteando(q, h) =
          (CHOOSE iter : iter = [s \in SUBSET DOMAIN q |->
              IF s = {} THEN b ELSE Paso(iter[s \ {Max(s)}], q[Max(s)])])[DOMAIN q].resto
    BY DEF SinHiloSalteando, FoldLeft, MapThenFoldSet, Paso, b
  <2>. QED
    BY <1>1, <2>1
<1>11. \A s \in SUBSET (1 .. L) :
          F[s] = IF s = {} THEN b ELSE Paso(F[s \ {Max(s)}], q[Max(s)])
  <2> HIDE DEF F, L
  <2>. QED
    BY <1>9
<1> HIDE DEF F
<1> DEFINE Malos == {n \in 0 .. L : F[1 .. n] \notin V}
<1>12. Malos = {}
  <2>1. SUFFICES ASSUME Malos # {} PROVE FALSE
    OBVIOUS
  <2>2. PICK n \in Malos : \A x \in Malos : n <= x
    <3>1. Malos \subseteq Nat
      BY <1>1
    <3> HIDE DEF Malos
    <3>. QED
      BY <2>1, <3>1, MinimoNatural
  <2>3. n \in 0 .. L /\ F[1 .. n] \notin V
    BY <2>2
  <2>4. n # 0
    <3>1. 1 .. 0 = {} /\ {} \in SUBSET (1 .. L)
      OBVIOUS
    <3>2. F[{}] = b
      BY <1>11, <3>1
    <3>. QED
      BY <1>2, <2>3, <3>1, <3>2
  <2>5. n - 1 \in 0 .. L /\ ~(n <= n - 1) /\ n \in 1 .. L /\ n \in Nat
    BY <1>1, <2>3, <2>4
  <2>6. F[1 .. n - 1] \in V
    BY <2>2, <2>5
  <2>7. /\ 1 .. n \in SUBSET (1 .. L) /\ 1 .. n # {} /\ Max(1 .. n) = n
        /\ (1 .. n) \ {n} = 1 .. n - 1
    BY <1>1, <2>5, Prefijo
  <2>8. F[1 .. n] = Paso(F[(1 .. n) \ {Max(1 .. n)}], q[Max(1 .. n)])
    BY <1>11, <2>7
  <2>9. F[1 .. n] = Paso(F[1 .. n - 1], q[n])
    BY <2>7, <2>8
  <2>. QED
    BY <1>1, <1>3, <2>3, <2>5, <2>6, <2>9
<1>13. F[1 .. L] \in V
  <2>1. L \in 0 .. L
    BY <1>1
  <2>. QED
    BY <1>12, <2>1
<1>. QED
  BY <1>10, <1>13 DEF V

-----------------------------------------------------------------------------
(***************************************************************************)
(* What the planner chooses.                                               *)
(***************************************************************************)

\* The sets of TCBs that a step cannot leave: the kernel marks and unmarks the
\* Mutex of a TCB, and takes TCB{} for the lack of one.
Cerrado(F) ==
    /\ TCBVacio \in F
    /\ \A t \in F : /\ t.Prioridad \in Nat
                    /\ \A b \in BOOLEAN : [t EXCEPT !.Mutex = b] \in F

\* Every TCB that the kernel has is in F.
EnCasa(F) ==
    /\ cola_ready \in Seq(F) /\ cola_exec \in Seq(F)
    /\ cola_blocked \in Seq(F) /\ cola_exit \in Seq(F)
    /\ colasMultinivel \in [Prioridades -> Seq(F)]
    /\ nuevo \in F /\ yo \in F /\ otro \in F

\* The search for the most urgent TCB finds one.
LEMMA IndiceMenorDa ==
    \A F : \A q \in Seq(F) :
       (\A t \in F : t.Prioridad \in Nat) /\ q # <<>> =>
          /\ IndiceMenor(q) \in DOMAIN q
          /\ \A j \in DOMAIN q : q[IndiceMenor(q)].Prioridad <= q[j].Prioridad
<1>1. SUFFICES ASSUME NEW F, NEW q \in Seq(F), \A t \in F : t.Prioridad \in Nat, q # <<>>
               PROVE  /\ IndiceMenor(q) \in DOMAIN q
                      /\ \A j \in DOMAIN q : q[IndiceMenor(q)].Prioridad <= q[j].Prioridad
  OBVIOUS
<1> DEFINE D == DOMAIN q
           N == {q[i].Prioridad : i \in D}
<1>2. D = 1 .. Len(q) /\ Len(q) \in Nat /\ D # {}
  <2>1. Len(q) \in Nat /\ DOMAIN q = 1 .. Len(q) /\ Len(q) # 0
    BY <1>1
  <2>2. 1 \in 1 .. Len(q)
    BY <2>1
  <2>. QED
    BY <2>1, <2>2
<1>3. \A i \in D : q[i].Prioridad \in Nat
  BY <1>1
<1>4. PICK n \in N : \A x \in N : n <= x
  <2>1. N \subseteq Nat /\ N # {}
    BY <1>2, <1>3
  <2> HIDE DEF N
  <2>. QED
    BY <2>1, MinimoNatural
<1> DEFINE I == {i \in D : q[i].Prioridad = n}
<1>5. PICK i \in I : \A j \in I : i <= j
  <2>1. I \subseteq Nat /\ I # {}
    BY <1>2, <1>4
  <2> HIDE DEF I
  <2>. QED
    BY <2>1, MinimoNatural
<1>6. i \in D /\ q[i].Prioridad = n /\ n \in Nat
  BY <1>3, <1>5
<1>7. \A j \in D : q[i].Prioridad <= q[j].Prioridad
  BY <1>4, <1>6
<1>8. ASSUME NEW j \in 1 .. i - 1 PROVE q[j].Prioridad > q[i].Prioridad
  <2>1. j \in D /\ ~(i <= j)
    BY <1>2, <1>6
  <2>2. j \notin I
    BY <1>5, <2>1
  <2>3. q[j].Prioridad # n /\ q[j].Prioridad \in Nat
    BY <1>3, <2>1, <2>2
  <2>4. n <= q[j].Prioridad
    BY <1>4, <2>1
  <2>. QED
    BY <1>6, <2>3, <2>4
<1>9. \E k \in DOMAIN q : /\ \A j \in DOMAIN q : q[k].Prioridad <= q[j].Prioridad
                          /\ \A j \in 1 .. k - 1 : q[j].Prioridad > q[k].Prioridad
  BY <1>6, <1>7, <1>8
<1>. QED
  BY <1>9 DEF IndiceMenor

\* So does obtenerPrimerElementoConClaveMenor, when there is a queue.
LEMMA menorClaveDa ==
    ASSUME Prioridades \subseteq Nat, Claves_multinivel # {}
    PROVE  menorClave \in Claves_multinivel /\ \A p \in Claves_multinivel : menorClave <= p
<1>1. Claves_multinivel \subseteq Nat
  BY DEF Claves_multinivel
<1>2. \E p \in Claves_multinivel : \A q \in Claves_multinivel : p <= q
  BY <1>1, MinimoNatural
<1>. QED
  BY <1>2 DEF menorClave

\* The kernel that is configured.
LEMMA PerfilDa ==
    ASSUME perfil \in Perfiles
    PROVE  /\ Algoritmo \in {"FIFO", "PRIORIDADES", "CMN"}
           /\ Prioridades \subseteq Nat /\ 0 \in Prioridades
           /\ perfil.Operaciones \subseteq SysCalls
           /\ perfil.Hilos \in 0 .. MaxHilos
BY AjustesDelPlan DEF Algoritmo, Prioridades

\* Whatever the algorithm, the choice is one of those that wait, the one in EXEC
\* or TCB{}, and the queues it leaves have nothing new.
LEMMA EleccionEnCasa ==
    ASSUME NEW F, Cerrado(F), EnCasa(F), perfil \in Perfiles
    PROVE  /\ planificar.tcb \in F /\ planificar.ready \in Seq(F)
           /\ planificar.multinivel \in [Prioridades -> Seq(F)]
<1> USE DEF Nada, Eleccion
<1>1. /\ cola_ready \in Seq(F) /\ cola_exec \in Seq(F)
      /\ colasMultinivel \in [Prioridades -> Seq(F)] /\ TCBVacio \in F
  BY DEF Cerrado, EnCasa
<1>2. cola_exec # <<>> => cola_exec[1] \in F
  BY <1>1
<1>3. CASE Algoritmo = "FIFO"
  <2>1. cola_ready # <<>> => cola_ready[1] \in F /\ Tail(cola_ready) \in Seq(F)
    BY <1>1
  <2>. QED
    BY <1>1, <1>3, <2>1 DEF planificar, planificarFifo
<1>4. CASE Algoritmo = "PRIORIDADES"
  <2>1. CASE cola_ready = <<>>
    BY <1>1, <1>4, <2>1 DEF planificar, planificarPrioridades
  <2>2. CASE cola_ready # <<>>
    <3> DEFINE m == IndiceMenor(cola_ready)
    <3>1. m \in DOMAIN cola_ready
      BY <1>1, <2>2, IndiceMenorDa DEF Cerrado
    <3>2. cola_ready[m] \in F /\ RemoveAt(cola_ready, m) \in Seq(F)
      <4>1. m \in 1 .. Len(cola_ready)
        BY <1>1, <3>1
      <4> HIDE DEF m
      <4>2. EsExtraccion(F, RemoveAt(cola_ready, m), cola_ready, m)
        BY <1>1, <4>1, RemoveAtPropiedades
      <4>. QED
        BY <1>1, <3>1, <4>2 DEF EsExtraccion
    <3>3. planificar = IF Sigue(cola_ready[m]) THEN Nada(cola_exec[1])
                       ELSE Eleccion(cola_ready[m], RemoveAt(cola_ready, m), colasMultinivel, FALSE)
      BY <1>4, <2>2 DEF planificar, planificarPrioridades
    <3>4. CASE Sigue(cola_ready[m])
      BY <1>1, <1>2, <3>3, <3>4 DEF Sigue
    <3>5. CASE ~Sigue(cola_ready[m])
      BY <1>1, <3>2, <3>3, <3>5
    <3>. QED
      BY <3>4, <3>5
  <2>. QED
    BY <2>1, <2>2
<1>5. CASE Algoritmo = "CMN"
  <2>1. CASE cola_ready = <<>> \/ Claves_multinivel = {}
    BY <1>1, <1>5, <2>1 DEF planificar, planificarColas
  <2>2. CASE ~(cola_ready = <<>> \/ Claves_multinivel = {})
    <3> DEFINE m == menorClave
               t == colasMultinivel[m][1]
    <3>1. m \in Prioridades /\ colasMultinivel[m] # <<>>
      BY <2>2, PerfilDa, menorClaveDa DEF Claves_multinivel
    <3>2. t \in F /\ Tail(colasMultinivel[m]) \in Seq(F)
      BY <1>1, <3>1
    <3>3. SinHilo(cola_ready, Hilo(t)) \in Seq(F)
      BY <1>1, FiltraDa DEF SinHilo
    <3>4. planificar = IF Sigue(t) THEN Nada(cola_exec[1])
                       ELSE Eleccion(t, SinHilo(cola_ready, Hilo(t)),
                                     [colasMultinivel EXCEPT ![m] = Tail(@)], FALSE)
      BY <1>5, <2>2 DEF planificar, planificarColas
    <3>5. CASE Sigue(t)
      BY <1>1, <1>2, <3>4, <3>5 DEF Sigue
    <3>6. CASE ~Sigue(t)
      BY <1>1, <3>1, <3>2, <3>3, <3>4, <3>6
    <3>. QED
      BY <3>5, <3>6
  <2>. QED
    BY <2>1, <2>2
<1>. QED
  BY <1>3, <1>4, <1>5, PerfilDa

-----------------------------------------------------------------------------
(***************************************************************************)
(* No step brings in a TCB from outside, but the two that create threads.  *)
(***************************************************************************)

\* A step that touches no TCB.
SinTocar == UNCHANGED <<perfil, colas, nuevo, yo, otro>>

LEMMA SinTocarEnCasa ==
    ASSUME NEW F, EnCasa(F), SinTocar
    PROVE  EnCasa(F)'
BY DEF SinTocar, EnCasa, colas, Prioridades

LEMMA QuienesNoTocan ==
    ASSUME \/ CPU \/ Verificar \/ Ejecutar \/ Comparar \/ notifCPUInterruption
           \/ TomarIntProcesada \/ EjecutarInterrumpido \/ Enviar \/ RegistrarPCB
           \/ EntraFinalizar \/ AvisarMemoria \/ NadaQueSoltar \/ SoltarSinPCB
           \/ EnviarConReady \/ QuitarDeTIDCola \/ PedirVerificacion \/ MutexCreate
           \/ AnotarTID \/ BorrarPCB \/ LiberarInt
    PROVE  SinTocar
<1> USE DEF SinTocar, colas, delPlan, datos, handler, ajenoAlPlan, ajenoAlHandler
<1>1. CASE CPU
  BY <1>1 DEF CPU, Syscall, OtraInstruccion, FetchFalla, FinDeCiclo, CheckInterrupt,
              executionProces
<1>2. CASE Verificar \/ Ejecutar \/ Comparar \/ notifCPUInterruption \/ TomarIntProcesada
           \/ EjecutarInterrumpido
  BY <1>2 DEF Verificar, Ejecutar, Comparar, notifCPUInterruption, TomarIntProcesada,
              EjecutarInterrumpido
<1>3. CASE \/ Enviar \/ RegistrarPCB \/ EntraFinalizar \/ AvisarMemoria \/ NadaQueSoltar
           \/ SoltarSinPCB \/ EnviarConReady \/ QuitarDeTIDCola \/ PedirVerificacion
  BY <1>3 DEF Enviar, RegistrarPCB, EntraFinalizar, AvisarMemoria, NadaQueSoltar,
              SoltarSinPCB, EnviarConReady, QuitarDeTIDCola, PedirVerificacion
<1>4. CASE MutexCreate \/ AnotarTID \/ BorrarPCB \/ LiberarInt
  BY <1>4 DEF MutexCreate, AnotarTID, BorrarPCB, LiberarInt
<1>. QED
  BY <1>1, <1>2, <1>3, <1>4

LEMMA AgregarEnCasa ==
    ASSUME NEW F, EnCasa(F), NEW t \in F
    PROVE  agregarTCB(t) \in [Prioridades -> Seq(F)]
<1>1. colasMultinivel \in [Prioridades -> Seq(F)]
  BY DEF EnCasa
<1>2. ASSUME NEW p \in Prioridades PROVE Append(colasMultinivel[p], t) \in Seq(F)
  BY <1>1
<1>3. CASE t.Prioridad \in Prioridades
  BY <1>1, <1>2, <1>3 DEF agregarTCB
<1>4. CASE t.Prioridad \notin Prioridades
  BY <1>1, <1>4 DEF agregarTCB
<1>. QED
  BY <1>3, <1>4

LEMMA PlannerEnCasa ==
    ASSUME NEW F, Cerrado(F), EnCasa(F), IExec, perfil \in Perfiles, Planner
    PROVE  EnCasa(F)'
<1> USE DEF ajenoAlPlan, handler, datos, Prioridades
<1>1. CASE VaciarExec
  BY <1>1 DEF VaciarExec, EnCasa
<1>2. ASSUME Elige(planificar)
      PROVE  /\ nuevo' \in F /\ cola_ready' \in Seq(F)
             /\ colasMultinivel' \in [Prioridades -> Seq(F)]
             /\ UNCHANGED <<cola_blocked, cola_exit>>
  BY <1>2, EleccionEnCasa DEF Elige
<1>3. CASE ElegirSiguiente
  <2>1. Elige(planificar) /\ UNCHANGED <<perfil, yo, otro>>
    BY <1>3 DEF ElegirSiguiente
  <2>2. cola_exec' = cola_exec \/ cola_exec' = Append(cola_exec, nuevo')
    BY <1>3 DEF ElegirSiguiente
  <2>3. cola_exec' \in Seq(F)
    <3>1. nuevo' \in F /\ cola_exec \in Seq(F)
      BY <1>2, <2>1 DEF EnCasa
    <3>. QED
      BY <2>2, <3>1
  <2>. QED
    BY <1>2, <2>1, <2>3 DEF EnCasa
<1>4. CASE ElegirDesalojo
  <2>1. UNCHANGED <<perfil, yo, otro, cola_exec>>
    BY <1>4 DEF ElegirDesalojo, colas
  <2>2. CASE Algoritmo = "FIFO"
    BY <1>4, <2>1, <2>2 DEF ElegirDesalojo, colas, EnCasa, Cerrado
  <2>3. CASE Algoritmo # "FIFO"
    <3>1. Elige(planificar)
      BY <1>4, <2>3 DEF ElegirDesalojo
    <3>. QED
      BY <1>2, <2>1, <3>1 DEF EnCasa
  <2>. QED
    BY <2>2, <2>3
<1>5. CASE ElegirInterrumpido
  <2>1. Elige(planificar) /\ UNCHANGED <<perfil, yo, otro, cola_exec>>
    BY <1>5 DEF ElegirInterrumpido
  <2>. QED
    BY <1>2, <2>1 DEF EnCasa
<1>6. CASE Devolver
  <2>1. cola_exec[1] \in F
    BY <1>6 DEF Devolver, De, EnPlan, IExec, ConAlguien, EnCasa
  <2>2. agregarTCB(cola_exec[1]) \in [Prioridades -> Seq(F)]
    BY <2>1, AgregarEnCasa
  <2>3. cola_ready' \in Seq(F)
    BY <1>6, <2>1 DEF Devolver, EnCasa
  <2>. QED
    BY <1>6, <2>2, <2>3 DEF Devolver, EnCasa
<1>7. CASE DevolverInterrumpido
  <2>1. agregarTCB(nuevo) \in [Prioridades -> Seq(F)]
    BY AgregarEnCasa DEF EnCasa
  <2>. QED
    BY <1>7, <2>1 DEF DevolverInterrumpido, EnCasa
<1>8. CASE Desalojar \/ EsperarCPU
  <2>1. cola_exec' = <<nuevo>> \/ cola_exec' = Append(cola_exec, nuevo)
    BY <1>8 DEF Desalojar, EsperarCPU
  <2>2. cola_exec \in Seq(F) /\ nuevo \in F
    BY DEF EnCasa
  <2>3. cola_exec' \in Seq(F)
    <3>1. <<nuevo>> \in Seq(F)
      BY <2>2
    <3>2. Append(cola_exec, nuevo) \in Seq(F)
      BY <2>2
    <3>. QED
      BY <2>1, <3>1, <3>2
  <2>. QED
    BY <1>8, <2>3 DEF Desalojar, EsperarCPU, EnCasa
<1>9. CASE Interrumpir
  BY <1>9 DEF Interrumpir, EnCasa
<1>10. CASE Ejecutar \/ Comparar \/ notifCPUInterruption \/ TomarIntProcesada
            \/ EjecutarInterrumpido
  BY <1>10, QuienesNoTocan, SinTocarEnCasa
<1>. QED
  BY <1>1, <1>3, <1>4, <1>5, <1>6, <1>7, <1>8, <1>9, <1>10 DEF Planner

LEMMA HandlerEnCasa ==
    ASSUME NEW F, Cerrado(F), EnCasa(F), perfil \in Perfiles, Handler,
           ~EntraThreadCreate, ~EntraProcessCreate
    PROVE  EnCasa(F)'
<1> USE DEF ajenoAlHandler, delPlan, datos, Prioridades
<1>1. cola_exec # <<>> => cola_exec[1] \in F
  BY DEF EnCasa
<1>2. otro \in F /\ yo \in F /\ TCBVacio \in F
  BY DEF EnCasa, Cerrado
<1>3. CASE \/ Enviar \/ RegistrarPCB \/ EntraFinalizar \/ AvisarMemoria \/ NadaQueSoltar
           \/ SoltarSinPCB \/ EnviarConReady \/ QuitarDeTIDCola \/ PedirVerificacion
           \/ MutexCreate \/ AnotarTID \/ BorrarPCB \/ LiberarInt
  BY <1>3, QuienesNoTocan, SinTocarEnCasa
<1>4. CASE PasarAReady
  BY <1>4 DEF PasarAReady, EnCasa
<1>5. CASE SolicitarEspacioHilos
  <2>1. agregarTCB(otro) \in [Prioridades -> Seq(F)]
    BY <1>2, AgregarEnCasa
  <2>. QED
    BY <1>5, <2>1 DEF SolicitarEspacioHilos, EnCasa
<1>6. CASE Encolar
  <2>1. agregarTCB(otro) \in [Prioridades -> Seq(F)]
    BY <1>2, AgregarEnCasa
  <2>. QED
    BY <1>6, <2>1 DEF Encolar, EnCasa
<1>7. CASE ElegirAlQueTermina
  <2> DEFINE candidatos == ConTID(cola_ready, pedido.arg)
             propios == ConPID(candidatos, cola_exec[1].PID)
  <2>1. candidatos \in Seq(F)
    BY FiltraDa DEF ConTID, EnCasa
  <2>2. propios \in Seq(F)
    BY <2>1, FiltraDa DEF ConPID
  <2>3. yo' \in F
    <3>1. propios # <<>> => propios[1] \in F
      BY <2>2
    <3>2. \/ yo' = yo \/ yo' = TCBVacio
          \/ cola_exec # <<>> /\ yo' = cola_exec[1]
          \/ propios # <<>> /\ yo' = propios[1]
      BY <1>7 DEF ElegirAlQueTermina
    <3> HIDE DEF propios
    <3>. QED
      BY <1>1, <1>2, <3>1, <3>2
  <2>4. UNCHANGED <<perfil, colas, nuevo, otro>>
    BY <1>7 DEF ElegirAlQueTermina
  <2>. QED
    BY <2>3, <2>4 DEF EnCasa, colas
<1>8. CASE FiltrarReady
  <2>1. SinTID(cola_ready, pedido.arg) \in Seq(F) /\ ConTID(cola_ready, pedido.arg) \in Seq(F)
    BY FiltraDa DEF SinTID, ConTID, EnCasa
  <2>2. cola_exit' \in Seq(F)
    BY <1>8, <2>1 DEF FiltrarReady, EnCasa
  <2>. QED
    BY <1>8, <2>1, <2>2 DEF FiltrarReady, EnCasa
<1>9. CASE FiltrarMultinivel
  <2>1. \A p \in Prioridades : SinTID(colasMultinivel[p], yo.TID) \in Seq(F)
    BY FiltraDa DEF SinTID, EnCasa
  <2>. QED
    BY <1>9, <2>1 DEF FiltrarMultinivel, EnCasa
<1>10. CASE PasarAExit
  <2>1. cola_exit' \in Seq(F)
    <3>1. \/ cola_exit' = cola_exit
          \/ cola_exec # <<>> /\ cola_exit' = Append(cola_exit, cola_exec[1])
      BY <1>10 DEF PasarAExit
    <3>2. cola_exit \in Seq(F)
      BY DEF EnCasa
    <3>. QED
      BY <1>1, <3>1, <3>2
  <2>. QED
    BY <1>10, <2>1 DEF PasarAExit, EnCasa
<1>11. CASE SoltarMutex
  <2>1. yo' \in F
    BY <1>2, <1>11 DEF SoltarMutex, Cerrado
  <2>2. otro' \in F
    <3>1. \/ otro' = otro \/ otro' = [TCBVacio EXCEPT !.Mutex = TRUE]
          \/ cola_blocked # <<>> /\ otro' = [cola_blocked[1] EXCEPT !.Mutex = TRUE]
      BY <1>11 DEF SoltarMutex, EsElHeredero
    <3>2. cola_blocked # <<>> => cola_blocked[1] \in F
      BY DEF EnCasa
    <3>. QED
      BY <1>2, <3>1, <3>2 DEF Cerrado
  <2>3. UNCHANGED <<perfil, colas, nuevo>>
    BY <1>11 DEF SoltarMutex
  <2>. QED
    BY <2>1, <2>2, <2>3 DEF EnCasa, colas
<1>12. CASE Desbloquear
  <2>1. SinHiloSalteando(cola_blocked, Hilo(otro)) \in Seq(F)
    BY SalteandoDa DEF EnCasa
  <2>. QED
    BY <1>12, <2>1 DEF Desbloquear, EnCasa
<1>13. CASE EntraThreadJoin \/ EntraConEjecutando
  <2>1. yo' \in F
    BY <1>1, <1>2, <1>13 DEF EntraThreadJoin, EntraConEjecutando
  <2>2. UNCHANGED <<perfil, colas, nuevo, otro>>
    BY <1>13 DEF EntraThreadJoin, EntraConEjecutando
  <2>. QED
    BY <2>1, <2>2 DEF EnCasa, colas
<1>14. CASE PasarABlocked
  BY <1>14 DEF PasarABlocked, EnCasa
<1>15. CASE VaciarExecPorJoin
  BY <1>15 DEF VaciarExecPorJoin, EnCasa
<1>16. CASE MutexLock
  <2>1. yo' \in F
    BY <1>1, <1>2, <1>16 DEF MutexLock
  <2>2. cola_exec' \in Seq(F)
    <3>1. \/ cola_exec' = cola_exec
          \/ cola_exec # <<>> /\ cola_exec' = [cola_exec EXCEPT ![1].Mutex = TRUE]
      BY <1>16 DEF MutexLock
    <3>2. CASE cola_exec # <<>> /\ cola_exec' = [cola_exec EXCEPT ![1].Mutex = TRUE]
      <4> DEFINE u == [cola_exec[1] EXCEPT !.Mutex = TRUE]
      <4>1. u \in F
        BY <1>1, <3>2 DEF Cerrado
      <4>2. cola_exec' = [cola_exec EXCEPT ![1] = u]
        BY <3>2, Zenon
      <4>3. cola_exec \in Seq(F)
        BY DEF EnCasa
      <4>4. 1 \in 1 .. Len(cola_exec)
        BY <3>2, <4>3
      <4> HIDE DEF u
      <4>5. [cola_exec EXCEPT ![1] = u] \in Seq(F)
        BY <4>1, <4>3, <4>4, ExceptSeq
      <4>. QED
        BY <4>2, <4>5
    <3>. QED
      BY <3>1, <3>2 DEF EnCasa
  <2>3. UNCHANGED <<perfil, cola_ready, cola_blocked, cola_exit, colasMultinivel, nuevo, otro>>
    BY <1>16 DEF MutexLock
  <2>. QED
    BY <2>1, <2>2, <2>3 DEF EnCasa
<1>17. CASE Volcar
  BY <1>17 DEF Volcar, EnCasa, colas
<1>18. CASE MatarReady
  <2>1. SinPID(cola_ready, yo.PID) \in Seq(F) /\ ConPID(cola_ready, yo.PID) \in Seq(F)
    BY FiltraDa DEF SinPID, ConPID, EnCasa
  <2>2. cola_exit' \in Seq(F)
    BY <1>18, <2>1 DEF MatarReady, EnCasa
  <2>. QED
    BY <1>18, <2>1, <2>2 DEF MatarReady, EnCasa
<1>19. CASE MatarMultinivel
  <2>1. \A p \in Prioridades : SinPID(colasMultinivel[p], yo.PID) \in Seq(F)
    BY FiltraDa DEF SinPID, EnCasa
  <2>2. cola_exit' \in Seq(F)
    <3>1. \/ cola_exit' = cola_exit
          \/ cola_exec # <<>> /\ cola_exit' = Append(cola_exit, cola_exec[1])
      BY <1>19 DEF MatarMultinivel
    <3>2. cola_exit \in Seq(F)
      BY DEF EnCasa
    <3>. QED
      BY <1>1, <3>1, <3>2
  <2>. QED
    BY <1>19, <2>1, <2>2 DEF MatarMultinivel, EnCasa
<1>. QED
  BY <1>3, <1>4, <1>5, <1>6, <1>7, <1>8, <1>9, <1>10, <1>11, <1>12, <1>13, <1>14, <1>15,
     <1>16, <1>17, <1>18, <1>19 DEF Handler

-----------------------------------------------------------------------------
(***************************************************************************)
(* The threads created.                                                    *)
(***************************************************************************)

\* A process has no more threads than there are.
LEMMA HilosCreadosCubre ==
    ASSUME DOMAIN PCBS = 1 .. Len(PCBS), Len(PCBS) \in Nat,
           \A k \in DOMAIN PCBS : Len(PCBS[k].TIDS) \in Nat
    PROVE  /\ HilosCreados \in Nat
           /\ \A k \in DOMAIN PCBS : Len(PCBS[k].TIDS) <= HilosCreados
<1> DEFINE n == Len(PCBS)
           g == [k \in 1 .. n |-> Len(PCBS[k].TIDS)]
           EsTotal(f) == f = [s \in SUBSET DOMAIN PCBS |->
                                IF s = {} THEN 0
                                ELSE Len(PCBS[Elegido(s)].TIDS) + f[s \ {Elegido(s)}]]
           F == CHOOSE f : EsTotal(f)
<1>1. n \in Nat /\ g \in [1 .. n -> Nat] /\ DOMAIN g = 1 .. n
  OBVIOUS
<1>2. HilosCreados = F[1 .. n]
  BY DEF HilosCreados, MapThenSumSet, MapThenFoldSet, Elegido
<1>3. ASSUME NEW f PROVE EsTotal(f) <=> EsSuma(n, g, f)
  <2>1. ASSUME NEW s \in SUBSET (1 .. n), s # {}
        PROVE  Len(PCBS[Elegido(s)].TIDS) = g[Elegido(s)]
    <3>1. Elegido(s) \in s
      BY <2>1 DEF Elegido
    <3>. QED
      BY <3>1
  <2>. QED
    BY <2>1 DEF EsSuma
<1> HIDE DEF g
<1>4. EsSuma(n, g, F)
  <2>1. \E f : EsSuma(n, g, f)
    BY <1>1, HaySuma
  <2> HIDE DEF EsTotal
  <2>2. \E f : EsTotal(f)
    BY <1>3, <2>1
  <2>3. EsTotal(F)
    BY <2>2, Zenon
  <2>. QED
    BY <1>3, <2>3
<1> HIDE DEF F
<1>5. PICK v \in Nat : Suman(n, g, v)
  BY <1>1, SumanAlgo
<1>6. Restringida(g, 1 .. n) = g
  BY <1>1 DEF Restringida
<1>7. 1 .. n \in SUBSET (1 .. n)
  OBVIOUS
<1>8. Suman(n, Restringida(g, 1 .. n), v)
  BY <1>5, <1>6
<1>9. F[1 .. n] = v
  <2> HIDE DEF n
  <2>. QED
    BY <1>1, <1>4, <1>7, <1>8, EsLoQueSuman
<1>10. \A k \in 1 .. n : g[k] <= v
  BY <1>1, <1>5, SumanCubre
<1>. QED
  BY <1>2, <1>5, <1>9, <1>10 DEF g
-----------------------------------------------------------------------------
(***************************************************************************)
(* Types: the table of processes, the calls, and every thread with the     *)
(* priority it was created with.                                           *)
(***************************************************************************)

Tabla == [ID : Pids, TIDS : Seq(Tids), creado : BOOLEAN,
          Status : {"Libre", "Bloqueado"}, TIDCola : Seq(Tids)]

\* A process with threads and no PCB yet: createProceso appends it at the end.
ProcesoNuevo ==
    pedido.op = "PROCESS_CREATE" /\ paso \in {"listo", "memoria", "envia", "registrar"}

\* PIDs are given once, and TIDs in order.
IPCBS ==
    /\ PCBS \in Seq(Tabla) /\ PCB_ID \in Pids
    /\ \A j, k \in DOMAIN PCBS : PCBS[j].ID = PCBS[k].ID => j = k
    /\ \A k \in DOMAIN PCBS :
          /\ PCBS[k].ID <= PCB_ID /\ PCBS[k].TIDS # <<>>
          /\ \A i \in DOMAIN PCBS[k].TIDS : PCBS[k].TIDS[i] = i - 1
    /\ ProcesoNuevo => otro.PID = PCB_ID /\ \A k \in DOMAIN PCBS : PCBS[k].ID < PCB_ID

\* The call in progress, and which steps belong to which call.
IPedido ==
    /\ paso \in PasosDelHandler /\ canal \in Canales
    /\ pedido \in Instrucciones \cup {[op |-> "", arg |-> 0]}
    /\ paso = "entra" /\ pedido.op = "THREAD_CREATE" => HilosCreados < perfil.Hilos
    /\ paso = "entra" /\ pedido.op = "PROCESS_CREATE" => PCB_ID + 1 < MaxProcesos
    /\ pedido.op = "PROCESS_CREATE" =>
          paso \in {"libre", "entra", "listo", "memoria", "envia", "registrar"}
    /\ paso = "registrar" => pedido.op = "PROCESS_CREATE"
    /\ paso = "bloquear" => pedido.op \in DOMAIN TrasBloquear
    /\ hilosJoined \in Seq([HiloBloqueado : Tids, HiloDebeFinalizar : Tids])

\* The CPU, memoria, and the rest.
IMaquina ==
    /\ perfil \in Perfiles
    /\ contextos \subseteq Claves /\ Procesos \subseteq Claves
    /\ terminados \subseteq Claves /\ Clave \in Claves \cup {Ninguna}
    /\ ciclo # "apagado" \/ paso # "libre" => Clave # Ninguna
    /\ tomados \subseteq Cerrojos /\ vivo \in BOOLEAN /\ interruptionExits \in BOOLEAN
    /\ plan \in PasosDelPlan
    /\ porVerificar \in {<<>>} \cup {<<tid>> : tid \in Tids}
    /\ ciclo \in {"apagado", "fetch", "syscall", "chequeo", "avisa", "fin"}

\* The TCBs of the threads in the domain of pr, each with its priority there.
FichasDe(pr) ==
    {t \in [PID : Nat, TID : Nat, Prioridad : Nat, Mutex : BOOLEAN, Ruta : BOOLEAN] :
        Hilo(t) \in DOMAIN pr /\ t.Prioridad = pr[Hilo(t)]}

\* pr gives the threads created so far their priority.
EsReparto(pr) ==
    /\ <<0, 0>> \in DOMAIN pr /\ pr[<<0, 0>>] = 0
    /\ \A h \in DOMAIN pr :
          /\ h \in Claves /\ pr[h] \in Prioridades /\ h[1] <= PCB_ID
          /\ \A k \in DOMAIN PCBS : PCBS[k].ID = h[1] => h[2] < Len(PCBS[k].TIDS)
          /\ ProcesoNuevo /\ h[1] = PCB_ID => h[2] = 0

IFichas == \E pr : EsReparto(pr) /\ EnCasa(FichasDe(pr))

ITipos == IMaquina /\ IPedido /\ IPCBS /\ IFichas

\* What ITipos adds to TypeOK is how the types are kept.
LEMMA TiposDelPlan == ITipos => TypeOK
<1> SUFFICES ASSUME ITipos PROVE TypeOK
  OBVIOUS
<1>1. PICK pr : EsReparto(pr) /\ EnCasa(FichasDe(pr))
  BY DEF ITipos, IFichas
<1>2. FichasDe(pr) \subseteq TCBs
  BY <1>1 DEF FichasDe, EsReparto, TCBs, Claves, Hilo
<1>3. ASSUME NEW q \in Seq(FichasDe(pr)) PROVE q \in Seq(TCBs)
  BY <1>2
<1>4. \A q \in {cola_ready, cola_exec, cola_blocked, cola_exit} : q \in Seq(TCBs)
  BY <1>1, <1>3 DEF EnCasa
<1>5. colasMultinivel \in [Prioridades -> Seq(TCBs)]
  BY <1>1, <1>3 DEF EnCasa
<1>6. nuevo \in TCBs /\ yo \in TCBs /\ otro \in TCBs
  BY <1>1, <1>2 DEF EnCasa
<1>7. \A k \in DOMAIN PCBS : PCBS[k] \in Tabla
  BY DEF ITipos, IPCBS
<1>. QED
  BY <1>4, <1>5, <1>6, <1>7 DEF ITipos, IPCBS, IPedido, IMaquina, TypeOK, Tabla

LEMMA CerradoFichas ==
    ASSUME NEW pr, EsReparto(pr), perfil \in Perfiles
    PROVE  Cerrado(FichasDe(pr))
<1>1. TCBVacio \in FichasDe(pr)
  BY DEF FichasDe, EsReparto, TCBVacio, Hilo
<1>2. ASSUME NEW t \in FichasDe(pr), NEW b \in BOOLEAN
      PROVE  [t EXCEPT !.Mutex = b] \in FichasDe(pr)
  BY DEF FichasDe, Hilo
<1>. QED
  BY <1>1, <1>2 DEF Cerrado, FichasDe

LEMMA InicioTipos == Init => ITipos
<1> SUFFICES ASSUME Init PROVE ITipos
  OBVIOUS
<1> DEFINE h == TCB(0, 0, 0)
           pr == [c \in {<<0, 0>>} |-> 0]
<1>1. /\ perfil \in Perfiles /\ 0 \in Prioridades /\ Prioridades \subseteq Nat
      /\ MaxProcesos \in Nat /\ MaxHilos \in Nat
  BY PerfilDa, AjustesDelPlan DEF Init
<1>2. IMaquina
  <2>1. /\ contextos = {<<0, 0>>} /\ Procesos = {} /\ terminados = {} /\ Clave = Ninguna
        /\ ciclo = "apagado" /\ paso = "libre" /\ tomados = {} /\ vivo = TRUE
        /\ interruptionExits = FALSE /\ plan = "fin" /\ porVerificar = <<>>
    BY DEF Init, Hilo, TCB
  <2>2. <<0, 0>> \in Claves
    BY <1>1 DEF Claves, Pids, Tids
  <2>. QED
    BY <1>1, <2>1, <2>2 DEF IMaquina, PasosDelPlan
<1>3. IPedido
  <2>1. /\ paso = "libre" /\ pedido = [op |-> "", arg |-> 0] /\ canal = "processEnded"
        /\ hilosJoined = <<>>
    BY DEF Init
  <2>2. <<>> \in Seq([HiloBloqueado : Tids, HiloDebeFinalizar : Tids])
    OBVIOUS
  <2>3. pedido.op = ""
    BY <2>1
  <2>. QED
    BY <2>1, <2>2, <2>3 DEF IPedido, PasosDelHandler, Canales
<1>4. IPCBS
  <2>1. crearPCB(0, <<0>>) \in Tabla
    BY <1>1 DEF crearPCB, Tabla, Pids, Tids
  <2>2. PCBS = <<crearPCB(0, <<0>>)>> /\ PCB_ID = 0 /\ paso = "libre"
    BY DEF Init
  <2>3. PCBS \in Seq(Tabla) /\ DOMAIN PCBS = {1} /\ PCBS[1] = crearPCB(0, <<0>>)
    BY <2>1, <2>2
  <2>4. crearPCB(0, <<0>>).ID = 0 /\ crearPCB(0, <<0>>).TIDS = <<0>>
    BY DEF crearPCB
  <2>. QED
    BY <1>1, <2>2, <2>3, <2>4 DEF IPCBS, ProcesoNuevo, Pids
<1>5. EsReparto(pr)
  <2>1. PCBS = <<crearPCB(0, <<0>>)>> /\ PCB_ID = 0 /\ paso = "libre"
    BY DEF Init
  <2>2. DOMAIN PCBS = {1} /\ PCBS[1].TIDS = <<0>>
    BY <2>1 DEF crearPCB
  <2>3. <<0, 0>> \in Claves
    BY <1>1 DEF Claves, Pids, Tids
  <2>4. Len(<<0>>) = 1
    OBVIOUS
  <2>. QED
    BY <1>1, <2>1, <2>2, <2>3, <2>4 DEF EsReparto, ProcesoNuevo
<1>6. EnCasa(FichasDe(pr))
  <2>1. h \in FichasDe(pr) /\ TCBVacio \in FichasDe(pr)
    BY DEF FichasDe, TCB, TCBVacio, Hilo
  <2>2. <<>> \in Seq(FichasDe(pr)) /\ <<h>> \in Seq(FichasDe(pr))
    BY <2>1
  <2> HIDE DEF h, pr
  <2>. QED
    BY <2>1, <2>2 DEF Init, EnCasa, h
<1>. QED
  BY <1>2, <1>3, <1>4, <1>5, <1>6 DEF ITipos, IFichas

\* The profile does not change.
LEMMA PerfilFijo ==
    ASSUME [Next]_vars
    PROVE  perfil' = perfil
<1> USE DEF ajenoAlPlan, ajenoAlHandler
<1>1. CASE CPU \/ Verificar
  BY <1>1 DEF CPU, Syscall, OtraInstruccion, FetchFalla, FinDeCiclo, CheckInterrupt,
              executionProces, Verificar
<1>2. CASE Planner
  BY <1>2 DEF Planner, VaciarExec, ElegirSiguiente, Ejecutar, ElegirDesalojo, Comparar,
              Devolver, notifCPUInterruption, Desalojar, Interrumpir, DevolverInterrumpido,
              ElegirInterrumpido, TomarIntProcesada, EsperarCPU, EjecutarInterrumpido
<1>3. CASE \/ EntraThreadCreate \/ EntraProcessCreate \/ PasarAReady \/ SolicitarEspacioHilos
           \/ Enviar \/ RegistrarPCB \/ EntraFinalizar \/ ElegirAlQueTermina \/ AvisarMemoria
           \/ FiltrarReady \/ FiltrarMultinivel \/ PasarAExit \/ NadaQueSoltar \/ SoltarSinPCB
           \/ SoltarMutex \/ Desbloquear \/ Encolar \/ EnviarConReady
  BY <1>3 DEF EntraThreadCreate, EntraProcessCreate, PasarAReady, SolicitarEspacioHilos,
              Enviar, RegistrarPCB, EntraFinalizar, ElegirAlQueTermina, AvisarMemoria,
              FiltrarReady, FiltrarMultinivel, PasarAExit, NadaQueSoltar, SoltarSinPCB,
              SoltarMutex, Desbloquear, Encolar, EnviarConReady
<1>4. CASE \/ QuitarDeTIDCola \/ PedirVerificacion \/ EntraThreadJoin \/ PasarABlocked
           \/ VaciarExecPorJoin \/ MutexCreate \/ MutexLock \/ AnotarTID
           \/ EntraConEjecutando \/ Volcar \/ BorrarPCB \/ MatarReady \/ MatarMultinivel
           \/ LiberarInt
  BY <1>4 DEF QuitarDeTIDCola, PedirVerificacion, EntraThreadJoin, PasarABlocked,
              VaciarExecPorJoin, MutexCreate, MutexLock, AnotarTID, EntraConEjecutando,
              Volcar, BorrarPCB, MatarReady, MatarMultinivel, LiberarInt
<1>. QED
  BY <1>1, <1>2, <1>3, <1>4 DEF Next, Handler, vars

\* A step that leaves each process its threads, and creates none.
MismosHilos ==
    /\ PCBS' \in Seq(Tabla) /\ DOMAIN PCBS' = DOMAIN PCBS /\ PCB_ID' = PCB_ID
    /\ \A k \in DOMAIN PCBS : PCBS'[k].ID = PCBS[k].ID /\ PCBS'[k].TIDS = PCBS[k].TIDS
    /\ ProcesoNuevo' => ProcesoNuevo /\ otro' = otro

LEMMA MismosHilosSiguen ==
    ASSUME IPCBS, MismosHilos
    PROVE  IPCBS'
<1>1. \A k \in DOMAIN PCBS' : k \in DOMAIN PCBS /\ PCBS'[k].ID = PCBS[k].ID /\ PCBS'[k].TIDS = PCBS[k].TIDS
  BY DEF MismosHilos
<1>2. PCB_ID' = PCB_ID /\ PCBS' \in Seq(Tabla) /\ PCBS \in Seq(Tabla)
  BY DEF MismosHilos, IPCBS
<1>3. ProcesoNuevo' => ProcesoNuevo /\ otro' = otro
  BY DEF MismosHilos
<1>. QED
  BY <1>1, <1>2, <1>3 DEF IPCBS

LEMMA MismosHilosReparten ==
    ASSUME NEW pr, EsReparto(pr), MismosHilos, perfil' = perfil
    PROVE  EsReparto(pr)'
<1>1. \A k \in DOMAIN PCBS' : k \in DOMAIN PCBS /\ PCBS'[k].ID = PCBS[k].ID /\ PCBS'[k].TIDS = PCBS[k].TIDS
  BY DEF MismosHilos
<1>2. PCB_ID' = PCB_ID /\ Prioridades' = Prioridades /\ (ProcesoNuevo' => ProcesoNuevo)
  BY DEF MismosHilos, Prioridades
<1>. QED
  BY <1>1, <1>2 DEF EsReparto

\* What a handler writes in a PCB besides the threads.
LEMMA EscribeEnPCB ==
    ASSUME IPCBS, NEW k, NEW P, NEW p \in Tabla,
           k \in DOMAIN PCBS => p.ID = PCBS[k].ID /\ p.TIDS = PCBS[k].TIDS,
           P = [PCBS EXCEPT ![k] = p]
    PROVE  /\ P \in Seq(Tabla) /\ DOMAIN P = DOMAIN PCBS
           /\ \A j \in DOMAIN PCBS : P[j].ID = PCBS[j].ID /\ P[j].TIDS = PCBS[j].TIDS
<1>1. PCBS \in Seq(Tabla) /\ DOMAIN PCBS = 1 .. Len(PCBS)
  BY DEF IPCBS
<1>2. CASE k \in DOMAIN PCBS
  <2>1. P \in Seq(Tabla)
    BY <1>1, <1>2, ExceptSeq
  <2>. QED
    BY <1>2, <2>1
<1>3. CASE k \notin DOMAIN PCBS
  <2>1. P = PCBS
    BY <1>1, <1>3
  <2>. QED
    BY <1>1, <2>1
<1>. QED
  BY <1>2, <1>3

LEMMA DelPlanNoTocaHilos ==
    ASSUME IPCBS, Planner \/ CPU \/ Verificar
    PROVE  MismosHilos
<1>1. /\ UNCHANGED <<PCBS, PCB_ID, otro>>
      /\ \/ UNCHANGED <<paso, pedido>>
         \/ paso' \in {"entra", "libre"}
  BY DEF CPU, Syscall, OtraInstruccion, FetchFalla, FinDeCiclo, CheckInterrupt,
         executionProces, Verificar, Planner, VaciarExec, ElegirSiguiente, Ejecutar,
         ElegirDesalojo, Comparar, Devolver, notifCPUInterruption, Desalojar, Interrumpir,
         DevolverInterrumpido, ElegirInterrumpido, TomarIntProcesada, EsperarCPU,
         EjecutarInterrumpido, ajenoAlPlan, tablas, handler, datos
<1>. QED
  BY <1>1 DEF MismosHilos, IPCBS, ProcesoNuevo

LEMMA HandlerNoTocaHilos ==
    ASSUME IPCBS, IPedido, cola_exec # <<>> => cola_exec[1].TID \in Tids, Handler,
           ~EntraThreadCreate, ~EntraProcessCreate, ~RegistrarPCB, ~BorrarPCB
    PROVE  MismosHilos
<1> USE DEF ajenoAlHandler, tablas, datos
\* The step before tells whether a process is being created.
<1>1. ASSUME pedido' = pedido, otro' = otro \/ pedido.op # "PROCESS_CREATE",
             \/ paso \in {"listo", "memoria", "envia"} \/ pedido.op # "PROCESS_CREATE"
             \/ paso' = "libre"
      PROVE  ProcesoNuevo' => ProcesoNuevo /\ otro' = otro
  BY <1>1 DEF ProcesoNuevo
<1>2. ASSUME PCBS' = PCBS, PCB_ID' = PCB_ID, ProcesoNuevo' => ProcesoNuevo /\ otro' = otro
      PROVE  MismosHilos
  BY <1>2 DEF MismosHilos, IPCBS
<1>3. ASSUME NEW k, NEW p \in Tabla, k \in DOMAIN PCBS => p.ID = PCBS[k].ID /\ p.TIDS = PCBS[k].TIDS,
             PCBS' = [PCBS EXCEPT ![k] = p], PCB_ID' = PCB_ID, pedido' = pedido,
             pedido.op # "PROCESS_CREATE"
      PROVE  MismosHilos
  <2>1. /\ PCBS' \in Seq(Tabla) /\ DOMAIN PCBS' = DOMAIN PCBS
        /\ \A j \in DOMAIN PCBS : PCBS'[j].ID = PCBS[j].ID /\ PCBS'[j].TIDS = PCBS[j].TIDS
    BY <1>3, EscribeEnPCB
  <2>. QED
    BY <1>3, <2>1 DEF MismosHilos, ProcesoNuevo
<1>4. \A k \in DOMAIN PCBS : PCBS[k] \in Tabla
  BY DEF IPCBS
<1>5. CASE PasarAReady \/ SolicitarEspacioHilos \/ Enviar
  <2>1. /\ UNCHANGED <<PCBS, PCB_ID, pedido, otro>> /\ paso \in {"listo", "memoria", "envia"}
    BY <1>5 DEF PasarAReady, SolicitarEspacioHilos, Enviar, En
  <2>. QED
    BY <1>1, <1>2, <2>1
<1>6. CASE \/ EntraFinalizar \/ EntraThreadJoin \/ EntraConEjecutando
  <2>1. /\ UNCHANGED <<PCBS, PCB_ID, pedido, otro>> /\ pedido.op # "PROCESS_CREATE"
    BY <1>6 DEF EntraFinalizar, EntraThreadJoin, EntraConEjecutando, Es
  <2>. QED
    BY <1>1, <1>2, <2>1
<1>7. CASE \/ ElegirAlQueTermina \/ AvisarMemoria \/ FiltrarReady
           \/ FiltrarMultinivel \/ PasarAExit \/ NadaQueSoltar \/ SoltarSinPCB
           \/ Desbloquear \/ Encolar \/ EnviarConReady \/ PedirVerificacion
  <2>1. /\ UNCHANGED <<PCBS, PCB_ID, pedido, otro>> /\ pedido.op # "PROCESS_CREATE"
    BY <1>7 DEF ElegirAlQueTermina, AvisarMemoria, FiltrarReady, FiltrarMultinivel,
                PasarAExit, NadaQueSoltar, SoltarSinPCB, Desbloquear, Encolar,
                EnviarConReady, PedirVerificacion, En, IPedido
  <2>. QED
    BY <1>1, <1>2, <2>1
<1>8. CASE PasarABlocked \/ VaciarExecPorJoin \/ Volcar \/ MatarReady \/ MatarMultinivel
           \/ LiberarInt
  <2>1. /\ UNCHANGED <<PCBS, PCB_ID, pedido>> /\ pedido.op # "PROCESS_CREATE"
    BY <1>8 DEF PasarABlocked, VaciarExecPorJoin, Volcar, MatarReady, MatarMultinivel,
                LiberarInt, En, IPedido
  <2>. QED
    BY <1>1, <1>2, <2>1
<1>9. CASE SoltarMutex
  <2>1. /\ PCB_ID' = PCB_ID /\ pedido' = pedido /\ pedido.op # "PROCESS_CREATE"
        /\ ElPCB \in DOMAIN PCBS
    BY <1>9 DEF SoltarMutex, HayMutex, HayPCB, En, IPedido
  <2>2. PICK s \in {"Libre", "Bloqueado"} : PCBS' = [PCBS EXCEPT ![ElPCB].Status = s]
    BY <1>9 DEF SoltarMutex, Status
  <2> DEFINE p == [PCBS[ElPCB] EXCEPT !.Status = s]
  <2>3. PCBS' = [PCBS EXCEPT ![ElPCB] = p]
    BY <2>2, Zenon
  <2>4. p \in Tabla /\ p.ID = PCBS[ElPCB].ID /\ p.TIDS = PCBS[ElPCB].TIDS
    BY <1>4, <2>1 DEF Tabla
  <2> HIDE DEF p
  <2>. QED
    BY <1>3, <2>1, <2>3, <2>4
<1>10. CASE QuitarDeTIDCola \/ AnotarTID
  <2>1. /\ PCB_ID' = PCB_ID /\ pedido' = pedido /\ otro' = otro
        /\ pedido.op # "PROCESS_CREATE"
    BY <1>10 DEF QuitarDeTIDCola, AnotarTID, En, IPedido
  <2>2. CASE ElPCB \notin DOMAIN PCBS
    <3>1. PCBS' = PCBS \/ \E c : PCBS' = [PCBS EXCEPT ![ElPCB].TIDCola = c]
      BY <1>10 DEF QuitarDeTIDCola, AnotarTID
    <3>2. PCBS' = PCBS
      BY <2>2, <3>1 DEF IPCBS
    <3>. QED
      BY <1>1, <1>2, <2>1, <3>2
  <2>3. CASE ElPCB \in DOMAIN PCBS
    <3> DEFINE cola == PCBS[ElPCB].TIDCola
    <3>1. cola \in Seq(Tids)
      BY <1>4, <2>3 DEF Tabla
    <3>2. PCBS' = PCBS \/ \E c \in Seq(Tids) : PCBS' = [PCBS EXCEPT ![ElPCB].TIDCola = c]
      <4>1. CASE QuitarDeTIDCola
        <5>1. \/ PCBS' = [PCBS EXCEPT ![ElPCB].TIDCola = cola]
              \/ cola # <<>> /\ PCBS' = [PCBS EXCEPT ![ElPCB].TIDCola = Tail(cola)]
          BY <4>1 DEF QuitarDeTIDCola
        <5>2. cola # <<>> => Tail(cola) \in Seq(Tids)
          BY <3>1
        <5>. QED
          BY <3>1, <5>1, <5>2
      <4>2. CASE AnotarTID
        <5>1. \/ PCBS' = PCBS
              \/ /\ cola_exec # <<>>
                 /\ PCBS' = [PCBS EXCEPT ![ElPCB].TIDCola = Append(@, cola_exec[1].TID)]
          BY <4>2 DEF AnotarTID
        <5>2. cola_exec # <<>> => Append(cola, cola_exec[1].TID) \in Seq(Tids)
          BY <3>1
        <5>. QED
          BY <5>1, <5>2, Zenon
      <4>. QED
        BY <1>10, <4>1, <4>2
    <3>3. CASE PCBS' = PCBS
      BY <1>1, <1>2, <2>1, <3>3
    <3>4. ASSUME NEW c \in Seq(Tids), PCBS' = [PCBS EXCEPT ![ElPCB].TIDCola = c]
          PROVE  MismosHilos
      <4> DEFINE p == [PCBS[ElPCB] EXCEPT !.TIDCola = c]
      <4>1. PCBS' = [PCBS EXCEPT ![ElPCB] = p]
        BY <3>4, Zenon
      <4>2. p \in Tabla /\ p.ID = PCBS[ElPCB].ID /\ p.TIDS = PCBS[ElPCB].TIDS
        BY <1>4, <2>3, <3>4 DEF Tabla
      <4> HIDE DEF p
      <4>. QED
        BY <1>3, <2>1, <4>1, <4>2
    <3>. QED
      BY <3>2, <3>3, <3>4
  <2>. QED
    BY <2>2, <2>3
<1>11. CASE MutexCreate \/ MutexLock
  <2> DEFINE k == cola_exec[1].PID + 1
  <2>1. /\ PCB_ID' = PCB_ID /\ pedido' = pedido /\ otro' = otro
        /\ pedido.op # "PROCESS_CREATE"
    BY <1>11 DEF MutexCreate, MutexLock, Es
  <2>2. \/ PCBS' = PCBS
        \/ k \in DOMAIN PCBS /\ PCBS' = [PCBS EXCEPT ![k].creado = TRUE]
        \/ k \in DOMAIN PCBS /\ PCBS' = [PCBS EXCEPT ![k].Status = "Bloqueado"]
    BY <1>11 DEF MutexCreate, MutexLock, Status
  <2>3. CASE PCBS' = PCBS
    BY <1>1, <1>2, <2>1, <2>3
  <2>4. CASE k \in DOMAIN PCBS /\ PCBS' = [PCBS EXCEPT ![k].creado = TRUE]
    <3> DEFINE p == [PCBS[k] EXCEPT !.creado = TRUE]
    <3>1. PCBS' = [PCBS EXCEPT ![k] = p]
      BY <2>4, Zenon
    <3>2. p \in Tabla /\ p.ID = PCBS[k].ID /\ p.TIDS = PCBS[k].TIDS
      BY <1>4, <2>4 DEF Tabla
    <3> HIDE DEF p
    <3>. QED
      BY <1>3, <2>1, <3>1, <3>2
  <2>5. CASE k \in DOMAIN PCBS /\ PCBS' = [PCBS EXCEPT ![k].Status = "Bloqueado"]
    <3> DEFINE p == [PCBS[k] EXCEPT !.Status = "Bloqueado"]
    <3>1. PCBS' = [PCBS EXCEPT ![k] = p]
      BY <2>5, Zenon
    <3>2. p \in Tabla /\ p.ID = PCBS[k].ID /\ p.TIDS = PCBS[k].TIDS
      BY <1>4, <2>5 DEF Tabla
    <3> HIDE DEF p
    <3>. QED
      BY <1>3, <2>1, <3>1, <3>2
  <2>. QED
    BY <2>2, <2>3, <2>4, <2>5
<1>. QED
  BY <1>5, <1>6, <1>7, <1>8, <1>9, <1>10, <1>11 DEF Handler

\* A step that leaves every TCB where it was, but for a new one.
LEMMA UnoMasEnCasa ==
    ASSUME NEW F, EnCasa(F), NEW G, F \subseteq G, otro' \in G,
           UNCHANGED <<perfil, colas, nuevo, yo>>
    PROVE  EnCasa(G)'
<1>1. \A q \in Seq(F) : q \in Seq(G)
  OBVIOUS
<1>. QED
  BY <1>1 DEF EnCasa, colas, Prioridades

\* One thread more, and the priority it is created with.
ConOtro(pr, h, p) == [c \in DOMAIN pr \cup {h} |-> IF c = h THEN p ELSE pr[c]]

LEMMA ConOtroTiene ==
    ASSUME NEW pr, NEW h, h \notin DOMAIN pr, NEW p
    PROVE  FichasDe(pr) \subseteq FichasDe(ConOtro(pr, h, p))
BY DEF FichasDe, ConOtro

\* The priority that THREAD_CREATE and PROCESS_CREATE ask for.
LEMMA PrioridadPedida ==
    ASSUME IPedido, pedido.op \in {"THREAD_CREATE", "PROCESS_CREATE"}
    PROVE  pedido.arg \in Prioridades
<1>1. pedido \in Instrucciones
  <2>1. pedido \in Instrucciones \cup {[op |-> "", arg |-> 0]}
    BY DEF IPedido
  <2>2. ASSUME pedido = [op |-> "", arg |-> 0] PROVE pedido.op = ""
    BY <2>2
  <2>. QED
    BY <2>1, <2>2
<1>2. PICK o \in perfil.Operaciones : pedido \in [op : {o}, arg : Argumentos(o)]
  BY <1>1 DEF Instrucciones
<1>3. pedido.op = o /\ pedido.arg \in Argumentos(o)
  BY <1>2
<1>4. Argumentos("THREAD_CREATE") = Prioridades /\ Argumentos("PROCESS_CREATE") = Prioridades
  BY DEF Argumentos
<1>. QED
  BY <1>3, <1>4

\* thread_create gives the next TID of the process.
LEMMA ThreadCreateReparte ==
    ASSUME ITipos, NEW pr, EsReparto(pr), EnCasa(FichasDe(pr)), EntraThreadCreate
    PROVE  IPCBS' /\ IFichas'
<1> DEFINE k == cola_exec[1].PID + 1
<1>1. UNCHANGED <<perfil, colas, nuevo, yo, PCB_ID, pedido>> /\ pedido.op = "THREAD_CREATE"
  BY DEF EntraThreadCreate, ajenoAlHandler, delPlan, Es
<1>2. IPCBS /\ IPedido /\ perfil \in Perfiles /\ PCBS \in Seq(Tabla)
  BY DEF ITipos, IMaquina, IPCBS
<1>3. CASE UNCHANGED <<PCBS, otro>>
  <2>1. MismosHilos
    BY <1>1, <1>2, <1>3 DEF MismosHilos, IPCBS, ProcesoNuevo
  <2>2. EsReparto(pr)'
    BY <1>1, <2>1, MismosHilosReparten
  <2>3. EnCasa(FichasDe(pr))'
    BY <1>1, <1>3, UnoMasEnCasa DEF EnCasa
  <2>. QED
    BY <1>2, <2>1, <2>2, <2>3, MismosHilosSiguen DEF IFichas
<1>4. CASE /\ k \in DOMAIN PCBS
           /\ PCBS' = [PCBS EXCEPT ![k].TIDS = Append(@, TIDSiguiente(PCBS[k]))]
           /\ otro' = TCB(PCBS[k].ID, TIDSiguiente(PCBS[k]), pedido.arg)
           /\ paso = "entra"
  <2> DEFINE T == PCBS[k].TIDS
             n == Len(T)
             h == <<PCBS[k].ID, n>>
             p2 == [PCBS[k] EXCEPT !.TIDS = Append(T, n)]
  <2>0. PICK pr2 : pr2 = ConOtro(pr, h, pedido.arg)
    OBVIOUS
  <2>1. /\ PCBS[k] \in Tabla /\ T \in Seq(Tids) /\ T # <<>> /\ n \in Nat /\ n # 0
        /\ DOMAIN T = 1 .. n /\ T[n] = n - 1
        /\ PCBS[k].ID \in Pids /\ PCBS[k].ID <= PCB_ID
    <3>1. PCBS[k] \in Tabla
      BY <1>2, <1>4
    <3>2. T \in Seq(Tids) /\ PCBS[k].ID \in Pids
      BY <3>1 DEF Tabla
    <3>3. /\ T # <<>> /\ PCBS[k].ID <= PCB_ID
          /\ \A i \in DOMAIN T : T[i] = i - 1
      BY <1>2, <1>4 DEF IPCBS
    <3>4. n \in Nat /\ DOMAIN T = 1 .. n /\ n # 0
      BY <3>2, <3>3
    <3>. QED
      BY <3>1, <3>2, <3>3, <3>4
  <2>2. TIDSiguiente(PCBS[k]) = n
    BY <2>1 DEF TIDSiguiente, Last
  <2>3. n \in Tids
    <3>1. /\ \A j \in DOMAIN PCBS : Len(PCBS[j].TIDS) \in Nat
          /\ DOMAIN PCBS = 1 .. Len(PCBS) /\ Len(PCBS) \in Nat
      BY <1>2 DEF Tabla
    <3>2. HilosCreados \in Nat /\ n <= HilosCreados
      BY <1>4, <3>1, HilosCreadosCubre
    <3>3. HilosCreados < perfil.Hilos
      BY <1>1, <1>2, <1>4 DEF IPedido
    <3>4. perfil.Hilos \in 0 .. MaxHilos /\ MaxHilos \in Nat
      BY <1>2, PerfilDa, AjustesDelPlan
    <3>. QED
      BY <2>1, <3>2, <3>3, <3>4 DEF Tids
  <2>4. pedido.arg \in Prioridades
    BY <1>1, <1>2, PrioridadPedida
  <2>5. h \in Claves /\ h \notin DOMAIN pr
    BY <1>4, <2>1, <2>3 DEF Claves, EsReparto
  <2>6. PCBS' = [PCBS EXCEPT ![k] = p2]
    BY <1>4, <2>2, Zenon
  <2>7. /\ p2 \in Tabla /\ p2.ID = PCBS[k].ID /\ p2.TIDS = Append(T, n)
    <3>1. Append(T, n) \in Seq(Tids)
      BY <2>1, <2>3
    <3>. QED
      BY <2>1, <3>1 DEF Tabla
  <2>8. /\ Append(T, n) # <<>> /\ Len(Append(T, n)) = n + 1
        /\ \A i \in DOMAIN Append(T, n) : Append(T, n)[i] = i - 1
    <3>1. Append(T, n) \in Seq(Tids) /\ Len(Append(T, n)) = n + 1
      BY <2>1, <2>3
    <3>2. ASSUME NEW i \in DOMAIN Append(T, n) PROVE Append(T, n)[i] = i - 1
      <4>1. i \in 1 .. n + 1 /\ Append(T, n)[i] = IF i = n + 1 THEN n ELSE T[i]
        BY <2>1, <2>3, <3>1
      <4>2. i \in 1 .. n => T[i] = i - 1
        BY <1>2, <1>4, <2>1 DEF IPCBS
      <4>. QED
        BY <2>1, <4>1, <4>2
    <3> DEFINE A == Append(T, n)
    <3>3. A \in Seq(Tids) /\ Len(A) = n + 1 /\ \A i \in DOMAIN A : A[i] = i - 1
      BY <3>1, <3>2
    <3> HIDE DEF A
    <3>4. A # <<>>
      BY <2>1, <3>3
    <3>. QED
      BY <3>3, <3>4 DEF A
  <2> HIDE DEF p2
  <2>9. /\ PCBS' \in Seq(Tabla) /\ DOMAIN PCBS' = DOMAIN PCBS
        /\ PCBS'[k] = p2 /\ \A j \in DOMAIN PCBS : j # k => PCBS'[j] = PCBS[j]
    <3>1. PCBS' \in Seq(Tabla)
      BY <1>2, <1>4, <2>6, <2>7, ExceptSeq
    <3>. QED
      BY <1>2, <1>4, <2>6, <3>1
  <2>10. \A j \in DOMAIN PCBS : PCBS'[j].ID = PCBS[j].ID
    BY <2>7, <2>9
  <2>11. ~ProcesoNuevo'
    BY <1>1 DEF ProcesoNuevo
  <2>12. IPCBS'
    <3>1. \A i, j \in DOMAIN PCBS' : PCBS'[i].ID = PCBS'[j].ID => i = j
      BY <1>2, <2>9, <2>10 DEF IPCBS
    <3>2. ASSUME NEW j \in DOMAIN PCBS'
          PROVE  /\ PCBS'[j].ID <= PCB_ID' /\ PCBS'[j].TIDS # <<>>
                 /\ \A i \in DOMAIN PCBS'[j].TIDS : PCBS'[j].TIDS[i] = i - 1
      <4>1. CASE j = k
        BY <1>1, <2>1, <2>7, <2>8, <2>9, <4>1
      <4>2. CASE j # k
        BY <1>1, <1>2, <2>9, <4>2 DEF IPCBS
      <4>. QED
        BY <4>1, <4>2
    <3>3. PCB_ID' \in Pids
      BY <1>1, <1>2 DEF IPCBS
    <3>. QED
      BY <2>9, <2>11, <3>1, <3>2, <3>3 DEF IPCBS
  <2>13. /\ pr2[h] = pedido.arg /\ DOMAIN pr2 = DOMAIN pr \cup {h}
         /\ \A c \in DOMAIN pr : pr2[c] = pr[c]
    BY <2>0, <2>5 DEF ConOtro
  <2>14. \A j \in DOMAIN PCBS : Len(PCBS'[j].TIDS) >= Len(PCBS[j].TIDS) /\ Len(PCBS[j].TIDS) \in Nat
    <3>1. ASSUME NEW j \in DOMAIN PCBS
          PROVE  Len(PCBS'[j].TIDS) >= Len(PCBS[j].TIDS) /\ Len(PCBS[j].TIDS) \in Nat
      <4>1. PCBS[j] \in Tabla
        BY <1>2
      <4>2. PCBS[j].TIDS \in Seq(Tids)
        BY <4>1 DEF Tabla
      <4>3. Len(PCBS[j].TIDS) \in Nat
        BY <4>2
      <4>4. CASE j = k
        <5>1. Len(PCBS'[k].TIDS) = n + 1
          BY <2>7, <2>8, <2>9
        <5>2. Len(PCBS[k].TIDS) = n /\ n \in Nat
          BY <2>1
        <5> HIDE DEF n
        <5>. QED
          BY <4>4, <5>1, <5>2
      <4>5. CASE j # k
        <5>1. PCBS'[j] = PCBS[j]
          BY <2>9, <4>5
        <5>. QED
          BY <4>3, <5>1
      <4>. QED
        BY <4>4, <4>5
    <3>. QED
      BY <3>1
  <2> HIDE DEF h, n, T, k
  <2>15. EsReparto(pr2)'
    <3>1. <<0, 0>> \in DOMAIN pr2 /\ pr2[<<0, 0>>] = 0
      BY <2>13 DEF EsReparto
    <3>2. ASSUME NEW c \in DOMAIN pr2
          PROVE  /\ c \in Claves /\ pr2[c] \in Prioridades' /\ c[1] <= PCB_ID'
                 /\ \A j \in DOMAIN PCBS' : PCBS'[j].ID = c[1] => c[2] < Len(PCBS'[j].TIDS)
      <4>1. CASE c = h
        <5>1. h \in Claves /\ h[1] = PCBS[k].ID /\ h[2] = n
          BY <2>5 DEF h
        <5>2. \A j \in DOMAIN PCBS' : PCBS'[j].ID = h[1] => j = k
          BY <1>2, <1>4, <2>9, <2>10, <5>1 DEF IPCBS
        <5>3. Len(PCBS'[k].TIDS) = n + 1 /\ n < n + 1
          BY <2>1, <2>7, <2>8, <2>9
        <5>. QED
          BY <1>1, <2>1, <2>4, <2>13, <4>1, <5>1, <5>2, <5>3 DEF Prioridades
      <4>2. CASE c # h
        <5>1. /\ c \in DOMAIN pr /\ c \in Claves /\ pr2[c] \in Prioridades
              /\ c[1] <= PCB_ID /\ c[2] \in Nat
          BY <2>13, <4>2, PerfilDa, AjustesDelPlan DEF EsReparto, Claves, Tids
        <5>2. ASSUME NEW j \in DOMAIN PCBS', PCBS'[j].ID = c[1]
              PROVE  c[2] < Len(PCBS'[j].TIDS)
          <6>1. c[2] < Len(PCBS[j].TIDS)
            BY <2>9, <2>10, <5>1, <5>2 DEF EsReparto
          <6>2. Len(PCBS'[j].TIDS) >= Len(PCBS[j].TIDS) /\ Len(PCBS[j].TIDS) \in Nat
            BY <2>9, <2>14
          <6>3. Len(PCBS'[j].TIDS) \in Nat
            BY <2>9 DEF Tabla
          <6>. QED
            BY <5>1, <6>1, <6>2, <6>3
        <5>. QED
          BY <1>1, <5>1, <5>2 DEF Prioridades
      <4>. QED
        BY <4>1, <4>2
    <3>. QED
      BY <2>11, <3>1, <3>2 DEF EsReparto
  <2>16. EnCasa(FichasDe(pr2))'
    <3>1. otro' \in FichasDe(pr2)
      <4>1. otro' = TCB(PCBS[k].ID, n, pedido.arg) /\ h = <<PCBS[k].ID, n>>
        BY <1>4, <2>2 DEF h
      <4>2. PCBS[k].ID \in Nat /\ n \in Nat /\ pedido.arg \in Nat
        BY <1>2, <2>1, <2>4, PerfilDa DEF Pids
      <4>. QED
        BY <2>13, <4>1, <4>2 DEF FichasDe, TCB, Hilo
    <3>2. FichasDe(pr) \subseteq FichasDe(pr2)
      BY <2>0, <2>5, ConOtroTiene
    <3>. QED
      BY <1>1, <3>1, <3>2, UnoMasEnCasa
  <2>. QED
    BY <2>12, <2>15, <2>16 DEF IFichas
<1>. QED
  BY <1>3, <1>4 DEF EntraThreadCreate, En

\* createProceso gives the next PID, and its PCB comes later.
LEMMA ProcessCreateReparte ==
    ASSUME ITipos, NEW pr, EsReparto(pr), EnCasa(FichasDe(pr)), EntraProcessCreate
    PROVE  IPCBS' /\ IFichas'
<1> DEFINE h == <<PCB_ID + 1, 0>>
<1>0. PICK pr2 : pr2 = ConOtro(pr, h, pedido.arg)
  OBVIOUS
<1>1. /\ UNCHANGED <<perfil, colas, nuevo, yo, PCBS, pedido>> /\ pedido.op = "PROCESS_CREATE"
      /\ paso = "entra" /\ PCB_ID' = PCB_ID + 1 /\ otro' = TCB(PCB_ID + 1, 0, pedido.arg)
  BY DEF EntraProcessCreate, ajenoAlHandler, delPlan, Es, En
<1>2. /\ IPCBS /\ IPedido /\ perfil \in Perfiles /\ PCB_ID + 1 < MaxProcesos
      /\ PCB_ID \in Pids /\ pedido.arg \in Prioridades
  BY <1>1, PrioridadPedida DEF ITipos, IMaquina, IPedido, IPCBS
<1>3. /\ MaxProcesos \in Nat /\ MaxHilos \in Nat /\ PCB_ID \in Nat
      /\ Prioridades \subseteq Nat
  BY <1>2, AjustesDelPlan, PerfilDa DEF Pids
<1>4. /\ PCB_ID' \in Pids /\ h \in Claves /\ PCB_ID < PCB_ID'
  BY <1>1, <1>2, <1>3 DEF Pids, Tids, Claves
<1>5. \A k \in DOMAIN PCBS : PCBS[k].ID <= PCB_ID /\ PCBS[k].ID \in Nat
  <2>1. ASSUME NEW k \in DOMAIN PCBS PROVE PCBS[k].ID <= PCB_ID /\ PCBS[k].ID \in Nat
    <3>1. PCBS[k] \in Tabla /\ PCBS[k].ID <= PCB_ID
      BY <1>2 DEF IPCBS
    <3>. QED
      BY <3>1 DEF Tabla, Pids
  <2>. QED
    BY <2>1
<1>6. h \notin DOMAIN pr
  BY <1>3 DEF EsReparto
<1>7. IPCBS'
  <2>1. \A k \in DOMAIN PCBS' : PCBS'[k].ID < PCB_ID' /\ PCBS'[k].ID <= PCB_ID'
    BY <1>1, <1>3, <1>5
  <2>2. otro'.PID = PCB_ID'
    BY <1>1 DEF TCB
  <2>3. PCBS' = PCBS
    BY <1>1
  <2>. QED
    BY <1>2, <1>4, <2>1, <2>2, <2>3 DEF IPCBS
<1>8. /\ pr2[h] = pedido.arg /\ DOMAIN pr2 = DOMAIN pr \cup {h}
      /\ \A c \in DOMAIN pr : pr2[c] = pr[c]
  BY <1>0, <1>6 DEF ConOtro
<1>9. EsReparto(pr2)'
  <2>1. <<0, 0>> \in DOMAIN pr2 /\ pr2[<<0, 0>>] = 0
    BY <1>8 DEF EsReparto
  <2>2. ASSUME NEW c \in DOMAIN pr2
        PROVE  /\ c \in Claves /\ pr2[c] \in Prioridades' /\ c[1] <= PCB_ID'
               /\ \A k \in DOMAIN PCBS' : PCBS'[k].ID = c[1] => c[2] < Len(PCBS'[k].TIDS)
               /\ c[1] = PCB_ID' => c[2] = 0
    <3>1. CASE c = h
      BY <1>1, <1>2, <1>3, <1>4, <1>5, <1>8, <3>1 DEF Prioridades
    <3>2. CASE c # h
      <4>1. /\ c \in DOMAIN pr /\ c \in Claves /\ pr2[c] \in Prioridades /\ c[1] <= PCB_ID
            /\ \A k \in DOMAIN PCBS : PCBS[k].ID = c[1] => c[2] < Len(PCBS[k].TIDS)
        BY <1>8, <3>2 DEF EsReparto
      <4>2. c[1] \in Nat
        BY <4>1 DEF Claves, Pids
      <4>3. PCBS' = PCBS /\ Prioridades' = Prioridades
        BY <1>1 DEF Prioridades
      <4>. QED
        BY <1>1, <1>3, <4>1, <4>2, <4>3
    <3>. QED
      BY <3>1, <3>2
  <2>. QED
    BY <2>1, <2>2 DEF EsReparto
<1>10. EnCasa(FichasDe(pr2))'
  <2>1. otro' \in FichasDe(pr2)
    <3>1. PCB_ID + 1 \in Nat
      BY <1>3
    <3>2. pedido.arg \in Nat
      BY <1>2, <1>3
    <3>. QED
      BY <1>1, <1>8, <3>1, <3>2 DEF FichasDe, TCB, Hilo
  <2>2. FichasDe(pr) \subseteq FichasDe(pr2)
    BY <1>0, <1>6, ConOtroTiene
  <2>. QED
    BY <1>1, <2>1, <2>2, UnoMasEnCasa
<1>. QED
  BY <1>7, <1>9, <1>10 DEF IFichas

\* The PCB of the new process, with its thread.
LEMMA RegistrarReparte ==
    ASSUME ITipos, NEW pr, EsReparto(pr), EnCasa(FichasDe(pr)), RegistrarPCB
    PROVE  IPCBS' /\ EsReparto(pr)'
<1> DEFINE p == crearPCB(otro.PID, <<0>>)
           n == Len(PCBS)
<1>1. /\ UNCHANGED <<perfil, PCB_ID, pedido>> /\ paso = "registrar" /\ paso' = "libre"
      /\ PCBS' = Append(PCBS, p)
  BY DEF RegistrarPCB, ajenoAlHandler, En, Responde
<1>2. /\ IPCBS /\ perfil \in Perfiles /\ pedido.op = "PROCESS_CREATE" /\ PCB_ID \in Pids
      /\ PCBS \in Seq(Tabla)
  BY <1>1 DEF ITipos, IMaquina, IPedido, IPCBS
<1>3. ProcesoNuevo /\ ~ProcesoNuevo'
  BY <1>1, <1>2 DEF ProcesoNuevo
<1>4. otro.PID = PCB_ID /\ \A k \in DOMAIN PCBS : PCBS[k].ID < PCB_ID
  BY <1>2, <1>3 DEF IPCBS
<1>5. MaxHilos \in Nat /\ MaxProcesos \in Nat /\ PCB_ID \in Nat
  BY <1>2, AjustesDelPlan DEF Pids
<1>6. p \in Tabla /\ p.ID = PCB_ID /\ p.TIDS = <<0>>
  BY <1>2, <1>4, <1>5 DEF crearPCB, Tabla, Tids
<1> HIDE DEF p
<1>7. n \in Nat /\ DOMAIN PCBS = 1 .. n
  BY <1>2
<1>8. /\ PCBS' \in Seq(Tabla) /\ DOMAIN PCBS' = 1 .. n + 1 /\ PCBS'[n + 1] = p
      /\ \A k \in 1 .. n : PCBS'[k] = PCBS[k]
  BY <1>1, <1>2, <1>6, <1>7
<1> HIDE DEF n
<1>9. IPCBS'
  <2>1. ASSUME NEW k \in DOMAIN PCBS'
        PROVE  /\ PCBS'[k].ID <= PCB_ID' /\ PCBS'[k].TIDS # <<>>
               /\ \A i \in DOMAIN PCBS'[k].TIDS : PCBS'[k].TIDS[i] = i - 1
    <3>1. CASE k = n + 1
      <4>1. <<0>> # <<>> /\ \A i \in DOMAIN <<0>> : <<0>>[i] = i - 1
        OBVIOUS
      <4>2. PCBS'[k] = p
        BY <1>8, <3>1
      <4>3. PCB_ID <= PCB_ID
        BY <1>5
      <4>. QED
        BY <1>1, <1>6, <4>1, <4>2, <4>3
    <3>2. CASE k # n + 1
      <4>1. k \in DOMAIN PCBS /\ PCBS'[k] = PCBS[k]
        BY <1>7, <1>8, <3>2
      <4>. QED
        BY <1>1, <1>2, <4>1 DEF IPCBS
    <3>. QED
      BY <3>1, <3>2
  <2>2. \A j, k \in DOMAIN PCBS' : PCBS'[j].ID = PCBS'[k].ID => j = k
    <3>1. \A k \in 1 .. n : PCBS'[k].ID = PCBS[k].ID /\ PCBS[k].ID # PCB_ID
      BY <1>4, <1>5, <1>7, <1>8
    <3>2. \A j, k \in 1 .. n : PCBS[j].ID = PCBS[k].ID => j = k
      BY <1>2, <1>7 DEF IPCBS
    <3>3. PCBS'[n + 1].ID = PCB_ID
      BY <1>6, <1>8
    <3>4. \A k \in DOMAIN PCBS' : k \in 1 .. n \/ k = n + 1
      BY <1>7, <1>8
    <3>. QED
      BY <3>1, <3>2, <3>3, <3>4
  <2>3. PCB_ID' \in Pids
    BY <1>1, <1>2
  <2>. QED
    BY <1>3, <1>8, <2>1, <2>2, <2>3 DEF IPCBS
<1>10. EsReparto(pr)'
  <2>1. ASSUME NEW c \in DOMAIN pr, NEW k \in DOMAIN PCBS', PCBS'[k].ID = c[1]
        PROVE  c[2] < Len(PCBS'[k].TIDS)
    <3>1. CASE k = n + 1
      <4>0. PCBS'[k] = p
        BY <1>8, <3>1
      <4>1. c[1] = PCB_ID /\ Len(PCBS'[k].TIDS) = 1
        BY <1>6, <2>1, <4>0
      <4>2. c[2] = 0
        BY <1>3, <4>1 DEF EsReparto
      <4>. QED
        BY <4>1, <4>2
    <3>2. CASE k # n + 1
      <4>1. k \in DOMAIN PCBS /\ PCBS'[k] = PCBS[k]
        BY <1>7, <1>8, <3>2
      <4>. QED
        BY <2>1, <4>1 DEF EsReparto
    <3>. QED
      BY <3>1, <3>2
  <2>2. PCB_ID' = PCB_ID /\ Prioridades' = Prioridades
    BY <1>1 DEF Prioridades
  <2>. QED
    BY <1>3, <2>1, <2>2 DEF EsReparto
<1>. QED
  BY <1>9, <1>10

\* The PCB of a process that ends goes away, and the others keep theirs.
LEMMA BorrarReparte ==
    ASSUME ITipos, NEW pr, EsReparto(pr), EnCasa(FichasDe(pr)), BorrarPCB
    PROVE  IPCBS' /\ EsReparto(pr)'
<1> DEFINE n == Len(PCBS)
<1>1. /\ UNCHANGED <<perfil, PCB_ID, pedido, otro>> /\ paso = "matarPCB"
  BY DEF BorrarPCB, ajenoAlHandler, datos, En
<1>2. /\ IPCBS /\ PCBS \in Seq(Tabla) /\ PCB_ID \in Pids /\ pedido.op # "PROCESS_CREATE"
  BY <1>1 DEF ITipos, IPedido, IPCBS
<1>3. ~ProcesoNuevo'
  BY <1>1, <1>2 DEF ProcesoNuevo
<1>4. n \in Nat /\ DOMAIN PCBS = 1 .. n
  BY <1>2
<1>5. CASE PCBS' = PCBS
  <2>1. MismosHilos
    BY <1>1, <1>2, <1>3, <1>5 DEF MismosHilos
  <2>. QED
    BY <1>1, <1>2, <2>1, MismosHilosSiguen, MismosHilosReparten
<1>6. ASSUME NEW x \in 1 .. n, PCBS' = RemoveAt(PCBS, x)
      PROVE  IPCBS' /\ EsReparto(pr)'
  <2>1. /\ PCBS' \in Seq(Tabla) /\ Len(PCBS') = n - 1
        /\ \A j \in 1 .. n : j < x => PCBS'[j] = PCBS[j]
        /\ \A j \in 1 .. n : j > x => PCBS'[j - 1] = PCBS[j]
    BY <1>2, <1>6, RemoveAtPropiedades DEF EsExtraccion
  <2> DEFINE De1(j) == IF j < x THEN j ELSE j + 1
  <2>2. DOMAIN PCBS' = 1 .. n - 1
    BY <2>1
  <2>3. ASSUME NEW j \in DOMAIN PCBS'
        PROVE  De1(j) \in DOMAIN PCBS /\ PCBS'[j] = PCBS[De1(j)]
    <3>1. j \in 1 .. n - 1
      BY <2>2
    <3>2. CASE j < x
      BY <1>4, <2>1, <3>1, <3>2
    <3>3. CASE ~(j < x)
      <4>1. j + 1 \in 1 .. n /\ j + 1 > x /\ (j + 1) - 1 = j
        BY <1>4, <3>1, <3>3
      <4>. QED
        BY <1>4, <2>1, <3>3, <4>1
    <3>. QED
      BY <3>2, <3>3
  <2>4. \A i, j \in DOMAIN PCBS' : De1(i) = De1(j) => i = j
    BY <1>4, <2>2
  <2> HIDE DEF De1, n
  <2>5. IPCBS'
    <3>1. \A i, j \in DOMAIN PCBS' : PCBS'[i].ID = PCBS'[j].ID => i = j
      BY <1>2, <2>3, <2>4 DEF IPCBS
    <3>2. \A k \in DOMAIN PCBS' :
             /\ PCBS'[k].ID <= PCB_ID' /\ PCBS'[k].TIDS # <<>>
             /\ \A i \in DOMAIN PCBS'[k].TIDS : PCBS'[k].TIDS[i] = i - 1
      BY <1>1, <1>2, <2>3 DEF IPCBS
    <3>. QED
      BY <1>1, <1>2, <1>3, <2>1, <3>1, <3>2 DEF IPCBS
  <2>6. EsReparto(pr)'
    <3>1. \A c \in DOMAIN pr : \A k \in DOMAIN PCBS' :
             PCBS'[k].ID = c[1] => c[2] < Len(PCBS'[k].TIDS)
      BY <2>3 DEF EsReparto
    <3>2. PCB_ID' = PCB_ID /\ Prioridades' = Prioridades
      BY <1>1 DEF Prioridades
    <3>. QED
      BY <1>3, <3>1, <3>2 DEF EsReparto
  <2>. QED
    BY <2>5, <2>6
<1>7. PCBS' = PCBS \/ \E x \in 1 .. n : PCBS' = RemoveAt(PCBS, x)
  <2> DEFINE suyos == {k \in DOMAIN PCBS : PCBS[k].ID = yo.PID}
             x == CHOOSE k \in suyos : \A j \in suyos : k <= j
  <2>1. CASE suyos = {}
    BY <2>1 DEF BorrarPCB
  <2>2. CASE suyos # {}
    <3>1. suyos \subseteq Nat
      BY <1>4
    <3> HIDE DEF suyos
    <3>2. \E k \in suyos : \A j \in suyos : k <= j
      BY <2>2, <3>1, MinimoNatural
    <3>3. x \in suyos
      BY <3>2
    <3>4. PCBS' = RemoveAt(PCBS, x)
      BY <2>2 DEF BorrarPCB, suyos
    <3>5. x \in 1 .. n
      BY <1>4, <3>3 DEF suyos
    <3> HIDE DEF x
    <3>. QED
      BY <3>4, <3>5
  <2>. QED
    BY <2>1, <2>2
<1>. QED
  BY <1>5, <1>6, <1>7

\* What follows a message, and what follows the append to cola_blocked.
LEMMA Rutas ==
    /\ DOMAIN TrasEnviar = {"PROCESS_CREATE", "THREAD_EXIT", "DUMP_MEMORY", "SEGFAULT"}
    /\ TrasEnviar["PROCESS_CREATE"] = "registrar" /\ TrasEnviar["THREAD_EXIT"] = "soltar"
    /\ TrasEnviar["DUMP_MEMORY"] = "volcar" /\ TrasEnviar["SEGFAULT"] = "liberarInt"
    /\ DOMAIN TrasBloquear = {"THREAD_JOIN", "MUTEX_LOCK", "DUMP_MEMORY"}
    /\ TrasBloquear["THREAD_JOIN"] = "vaciar" /\ TrasBloquear["MUTEX_LOCK"] = "anotarTID"
    /\ TrasBloquear["DUMP_MEMORY"] = "envia"
BY DEF TrasEnviar, TrasBloquear

\* What is counted only depends on the table.
LEMMA HilosCreadosIgual ==
    ASSUME PCBS' = PCBS
    PROVE  HilosCreados' = HilosCreados
BY DEF HilosCreados, MapThenSumSet, MapThenFoldSet

\* Which step of which call follows.
LEMMA HandlerSigueRuta ==
    ASSUME IPedido, Handler
    PROVE  /\ pedido' = pedido /\ paso' \in PasosDelHandler \ {"entra"}
           /\ pedido.op = "PROCESS_CREATE" =>
                 paso' \in {"libre", "listo", "memoria", "envia", "registrar"}
           /\ paso' = "registrar" => pedido.op = "PROCESS_CREATE"
           /\ paso' = "bloquear" => pedido.op \in DOMAIN TrasBloquear
<1> USE DEF ajenoAlHandler, Responde, Panico, En, Va, Es, IPedido, PasosDelHandler
<1>1. CASE EntraThreadCreate \/ EntraProcessCreate \/ PasarAReady \/ SolicitarEspacioHilos
           \/ RegistrarPCB
  BY <1>1 DEF EntraThreadCreate, EntraProcessCreate, PasarAReady, SolicitarEspacioHilos,
              RegistrarPCB, TrasBloquear
<1>2. CASE Enviar
  BY <1>2, Rutas DEF Enviar
<1>3. CASE EntraFinalizar \/ ElegirAlQueTermina \/ AvisarMemoria \/ FiltrarReady
           \/ FiltrarMultinivel \/ PasarAExit
  BY <1>3 DEF EntraFinalizar, ElegirAlQueTermina, AvisarMemoria, FiltrarReady,
              FiltrarMultinivel, PasarAExit, datos
<1>4. CASE NadaQueSoltar \/ SoltarSinPCB \/ SoltarMutex \/ Desbloquear \/ Encolar
           \/ EnviarConReady \/ QuitarDeTIDCola \/ PedirVerificacion
  BY <1>4 DEF NadaQueSoltar, SoltarSinPCB, SoltarMutex, Desbloquear, Encolar,
              EnviarConReady, QuitarDeTIDCola, PedirVerificacion, datos
<1>5. CASE EntraThreadJoin \/ PasarABlocked \/ VaciarExecPorJoin \/ MutexCreate \/ MutexLock
           \/ AnotarTID \/ EntraConEjecutando
  BY <1>5, Rutas DEF EntraThreadJoin, PasarABlocked, VaciarExecPorJoin, MutexCreate,
              MutexLock, AnotarTID, EntraConEjecutando
<1>6. CASE Volcar \/ BorrarPCB \/ MatarReady \/ MatarMultinivel \/ LiberarInt
  BY <1>6 DEF Volcar, BorrarPCB, MatarReady, MatarMultinivel, LiberarInt
<1>. QED
  BY <1>1, <1>2, <1>3, <1>4, <1>5, <1>6 DEF Handler

Joins == Seq([HiloBloqueado : Tids, HiloDebeFinalizar : Tids])

\* The TID that THREAD_JOIN names.
LEMMA TIDPedido ==
    ASSUME IPedido, perfil \in Perfiles, pedido.op = "THREAD_JOIN"
    PROVE  pedido.arg \in Tids
<1>1. pedido \in Instrucciones
  <2>1. pedido \in Instrucciones \cup {[op |-> "", arg |-> 0]}
    BY DEF IPedido
  <2>2. ASSUME pedido = [op |-> "", arg |-> 0] PROVE pedido.op = ""
    BY <2>2
  <2>. QED
    BY <2>1, <2>2
<1>2. PICK o \in perfil.Operaciones : pedido \in [op : {o}, arg : Argumentos(o)]
  BY <1>1 DEF Instrucciones
<1>3. pedido.op = o /\ pedido.arg \in Argumentos(o)
  BY <1>2
<1>4. Argumentos("THREAD_JOIN") = 0 .. perfil.Hilos
  BY DEF Argumentos
<1>5. perfil.Hilos \in 0 .. MaxHilos /\ MaxHilos \in Nat
  BY PerfilDa, AjustesDelPlan
<1>. QED
  BY <1>3, <1>4, <1>5 DEF Tids

LEMMA JoinsDa ==
    ASSUME IPedido, perfil \in Perfiles, cola_exec # <<>> => cola_exec[1].TID \in Tids, Next
    PROVE  hilosJoined' \in Joins
<1>1. hilosJoined \in Joins
  BY DEF IPedido, Joins
<1>2. CASE EntraThreadJoin
  <2>1. CASE cola_exec = <<>>
    BY <1>1, <1>2, <2>1 DEF EntraThreadJoin
  <2>2. CASE cola_exec # <<>>
    <3> DEFINE j == [HiloBloqueado |-> cola_exec[1].TID, HiloDebeFinalizar |-> pedido.arg]
    <3>1. hilosJoined' = Append(hilosJoined, j)
      BY <1>2, <2>2 DEF EntraThreadJoin
    <3>2. pedido.arg \in Tids
      BY <1>2, TIDPedido DEF EntraThreadJoin, Es
    <3>3. j \in [HiloBloqueado : Tids, HiloDebeFinalizar : Tids]
      BY <2>2, <3>2
    <3> HIDE DEF j
    <3>. QED
      BY <1>1, <3>1, <3>3 DEF Joins
  <2>. QED
    BY <2>1, <2>2
<1>3. CASE Next /\ ~EntraThreadJoin
  <2>1. hilosJoined' = hilosJoined
    <3> USE DEF tablas, ajenoAlPlan
    <3>1. CASE CPU \/ Verificar
      BY <3>1 DEF CPU, Syscall, OtraInstruccion, FetchFalla, FinDeCiclo, CheckInterrupt,
                  executionProces, Verificar
    <3>2. CASE Planner
      BY <3>2 DEF Planner, VaciarExec, ElegirSiguiente, Ejecutar, ElegirDesalojo, Comparar,
                  Devolver, notifCPUInterruption, Desalojar, Interrumpir,
                  DevolverInterrumpido, ElegirInterrumpido, TomarIntProcesada, EsperarCPU,
                  EjecutarInterrumpido
    <3>3. CASE \/ EntraThreadCreate \/ EntraProcessCreate \/ PasarAReady
               \/ SolicitarEspacioHilos \/ Enviar \/ RegistrarPCB \/ EntraFinalizar
               \/ ElegirAlQueTermina \/ AvisarMemoria \/ FiltrarReady \/ FiltrarMultinivel
               \/ PasarAExit \/ NadaQueSoltar \/ SoltarSinPCB \/ SoltarMutex \/ Desbloquear
      BY <3>3 DEF EntraThreadCreate, EntraProcessCreate, PasarAReady, SolicitarEspacioHilos,
                  Enviar, RegistrarPCB, EntraFinalizar, ElegirAlQueTermina, AvisarMemoria,
                  FiltrarReady, FiltrarMultinivel, PasarAExit, NadaQueSoltar, SoltarSinPCB,
                  SoltarMutex, Desbloquear
    <3>4. CASE \/ Encolar \/ EnviarConReady \/ QuitarDeTIDCola \/ PedirVerificacion
               \/ PasarABlocked \/ VaciarExecPorJoin \/ MutexCreate \/ MutexLock
               \/ AnotarTID \/ EntraConEjecutando \/ Volcar \/ BorrarPCB \/ MatarReady
               \/ MatarMultinivel \/ LiberarInt
      BY <3>4 DEF Encolar, EnviarConReady, QuitarDeTIDCola, PedirVerificacion,
                  PasarABlocked, VaciarExecPorJoin, MutexCreate, MutexLock, AnotarTID,
                  EntraConEjecutando, Volcar, BorrarPCB, MatarReady, MatarMultinivel,
                  LiberarInt
    <3>. QED
      BY <1>3, <3>1, <3>2, <3>3, <3>4 DEF Next, Handler
  <2>. QED
    BY <1>1, <2>1
<1>. QED
  BY <1>2, <1>3

LEMMA PedidoSigue ==
    ASSUME IPedido, IExec, IPCBS, perfil \in Perfiles,
           cola_exec # <<>> => cola_exec[1].TID \in Tids, Next
    PROVE  IPedido'
<1>1. perfil' = perfil /\ canal' \in Canales /\ hilosJoined' \in Joins
  BY PerfilFijo, PasoExec, JoinsDa DEF IExec
<1>2. Instrucciones' = Instrucciones
  BY <1>1 DEF Instrucciones, Argumentos, Prioridades
<1>3. CASE Handler
  <2>1. /\ pedido' = pedido /\ paso' \in PasosDelHandler \ {"entra"}
        /\ pedido.op = "PROCESS_CREATE" =>
              paso' \in {"libre", "listo", "memoria", "envia", "registrar"}
        /\ paso' = "registrar" => pedido.op = "PROCESS_CREATE"
        /\ paso' = "bloquear" => pedido.op \in DOMAIN TrasBloquear
    BY <1>3, HandlerSigueRuta
  <2>2. paso' \in PasosDelHandler /\ paso' # "entra"
    BY <2>1
  <2>3. pedido' \in Instrucciones' \cup {[op |-> "", arg |-> 0]}
    BY <1>2, <2>1 DEF IPedido
  <2>. QED
    BY <1>1, <2>1, <2>2, <2>3 DEF IPedido, Joins, TrasBloquear
<1>4. CASE Syscall
  <2>1. PICK i \in Instrucciones : Cabe(i) /\ pedido' = i
    BY <1>4 DEF Syscall
  <2>2. paso' = "entra" /\ PCBS' = PCBS /\ PCB_ID' = PCB_ID
    BY <1>4 DEF Syscall, tablas
  <2>3. HilosCreados' = HilosCreados
    BY <2>2, HilosCreadosIgual
  <2>4. /\ i.op = "THREAD_CREATE" => HilosCreados < perfil.Hilos
        /\ i.op = "PROCESS_CREATE" => PCB_ID + 1 < MaxProcesos
    BY <2>1 DEF Cabe
  <2>. QED
    BY <1>1, <1>2, <2>1, <2>2, <2>3, <2>4 DEF IPedido, Joins, PasosDelHandler
<1>5. CASE (CPU \/ Planner \/ Verificar) /\ ~Syscall
  <2>1. UNCHANGED <<paso, pedido, PCBS, PCB_ID>>
    BY <1>5 DEF CPU, OtraInstruccion, FetchFalla, FinDeCiclo, CheckInterrupt,
         executionProces, Verificar, Planner, VaciarExec, ElegirSiguiente, Ejecutar,
         ElegirDesalojo, Comparar, Devolver, notifCPUInterruption, Desalojar, Interrumpir,
         DevolverInterrumpido, ElegirInterrumpido, TomarIntProcesada, EsperarCPU,
         EjecutarInterrumpido, ajenoAlPlan, tablas, handler
  <2>2. HilosCreados' = HilosCreados
    BY <2>1, HilosCreadosIgual
  <2>. QED
    BY <1>1, <1>2, <2>1, <2>2 DEF IPedido, Joins
<1>. QED
  BY <1>3, <1>4, <1>5 DEF Next

\* What a TCB of the kernel names.
LEMMA FichaDa ==
    ASSUME perfil \in Perfiles, NEW pr, EsReparto(pr), NEW t \in FichasDe(pr)
    PROVE  /\ Hilo(t) \in Claves /\ Hilo(t) # Ninguna
           /\ t.TID \in Tids /\ t.PID \in Pids
<1>1. Hilo(t) \in Claves /\ Hilo(t) = <<t.PID, t.TID>>
  BY DEF FichasDe, EsReparto, Hilo
<1>2. MaxProcesos \in Nat /\ MaxHilos \in Nat
  BY AjustesDelPlan
<1>. QED
  BY <1>1, <1>2 DEF Claves, Pids, Tids, Ninguna

\* The call gives the CPU a thread.
LEMMA RecibirDa ==
    ASSUME IMaquina, NEW t, Hilo(t) \in Claves, Hilo(t) # Ninguna, RecibirProceso(t)
    PROVE  /\ Clave' \in Claves /\ Clave' # Ninguna /\ Procesos' \subseteq Claves
           /\ terminados' \subseteq Claves /\ interruptionExits' \in BOOLEAN
           /\ ciclo' \in {"apagado", "fetch", "syscall", "chequeo", "avisa", "fin"}
BY DEF IMaquina, RecibirProceso

Ciclos == {"apagado", "fetch", "syscall", "chequeo", "avisa", "fin"}

\* The other mutexes the planner takes are of the list too.
LEMMA TomadosDelPlan ==
    ASSUME IMaquina, Planner
    PROVE  /\ tomados' \subseteq Cerrojos /\ plan' \in PasosDelPlan
           /\ UNCHANGED <<vivo, porVerificar, contextos, paso>>
<1> USE DEF IMaquina, Cerrojos, PasosDelPlan, De, EnPlan, ajenoAlPlan, handler
<1>1. CASE VaciarExec \/ Ejecutar \/ Comparar \/ Devolver \/ notifCPUInterruption
           \/ Desalojar \/ Interrumpir
  BY <1>1 DEF VaciarExec, Ejecutar, Comparar, Devolver, notifCPUInterruption, Desalojar,
              Interrumpir
<1>2. CASE DevolverInterrumpido \/ TomarIntProcesada \/ EsperarCPU \/ EjecutarInterrumpido
  BY <1>2 DEF DevolverInterrumpido, TomarIntProcesada, EsperarCPU, EjecutarInterrumpido
<1>3. ASSUME Elige(planificar) PROVE tomados' \subseteq Cerrojos
  BY <1>3 DEF Elige
<1>4. CASE ElegirSiguiente
  BY <1>3, <1>4 DEF ElegirSiguiente
<1>5. CASE ElegirDesalojo
  BY <1>3, <1>5 DEF ElegirDesalojo
<1>6. CASE ElegirInterrumpido
  BY <1>3, <1>6 DEF ElegirInterrumpido
<1>. QED
  BY <1>1, <1>2, <1>4, <1>5, <1>6 DEF Planner

LEMMA MaquinaSigue ==
    ASSUME IMaquina, IPedido, IExec, NEW pr, EsReparto(pr), EnCasa(FichasDe(pr)), Next
    PROVE  IMaquina'
<1>1. perfil \in Perfiles /\ perfil' = perfil
  BY PerfilFijo DEF IMaquina
<1>2. /\ Hilo(nuevo) \in Claves /\ Hilo(nuevo) # Ninguna
      /\ Hilo(otro) \in Claves /\ yo.TID \in Tids
  BY <1>1, FichaDa DEF EnCasa
<1>3. CASE CPU
  <2>1. UNCHANGED <<contextos, plan, porVerificar>>
    BY <1>3 DEF CPU, Syscall, OtraInstruccion, FetchFalla, FinDeCiclo, CheckInterrupt,
                executionProces, delPlan
  <2>2. /\ UNCHANGED <<Procesos, Clave>> /\ terminados' \subseteq Claves
        /\ ciclo' \in Ciclos /\ ciclo # "apagado"
        /\ vivo' \in BOOLEAN /\ interruptionExits' \in BOOLEAN /\ tomados' \subseteq Cerrojos
    <3> USE DEF IMaquina, Ciclos, Cerrojos, cargado
    <3>1. CASE Syscall
      <4>1. ciclo = "fetch"
        BY <3>1 DEF Syscall, HayInstruccion, EnFetch
      <4>2. Clave \in Claves
        BY <4>1
      <4>3. terminados' = terminados \/ terminados' = terminados \cup {Clave}
        BY <3>1 DEF Syscall
      <4>. QED
        BY <3>1, <4>1, <4>2, <4>3 DEF Syscall
    <3>2. CASE OtraInstruccion \/ FetchFalla \/ FinDeCiclo
      BY <3>2 DEF OtraInstruccion, FetchFalla, FinDeCiclo, HayInstruccion, EnFetch
    <3>3. CASE CheckInterrupt \/ executionProces
      BY <3>3 DEF CheckInterrupt, executionProces
    <3>. QED
      BY <1>3, <3>1, <3>2, <3>3 DEF CPU
  <2>. QED
    BY <1>1, <2>1, <2>2 DEF IMaquina, Ciclos
<1>4. CASE Verificar
  <2>1. tomados' = tomados \/ tomados' = tomados \cup {"blocked"}
    BY <1>4 DEF Verificar
  <2>2. porVerificar' = porVerificar \/ porVerificar' = <<>>
    BY <1>4 DEF Verificar
  <2>3. UNCHANGED <<contextos, plan, vivo, paso, ciclo, Procesos, Clave, terminados,
                    interruptionExits>>
    BY <1>4 DEF Verificar, delPlan, handler, cpu, cargado
  <2>. QED
    BY <1>1, <2>1, <2>2, <2>3 DEF IMaquina, Cerrojos
<1>5. CASE Planner
  <2>1. /\ tomados' \subseteq Cerrojos /\ plan' \in PasosDelPlan
        /\ UNCHANGED <<vivo, porVerificar, contextos, paso>>
    BY <1>5, TomadosDelPlan
  <2>2. CASE Ejecutar \/ EjecutarInterrumpido
    <3>1. RecibirProceso(nuevo)
      BY <2>2 DEF Ejecutar, EjecutarInterrumpido
    <3>. QED
      BY <1>1, <1>2, <2>1, <3>1, RecibirDa DEF IMaquina
  <2>3. CASE notifCPUInterruption
    BY <1>1, <2>1, <2>3 DEF IMaquina, notifCPUInterruption, interrupccion, cargado
  <2>4. CASE ~(Ejecutar \/ EjecutarInterrumpido \/ notifCPUInterruption)
    <3>1. UNCHANGED cpu
      BY <1>5, <2>4 DEF Planner, VaciarExec, ElegirSiguiente, ElegirDesalojo, Comparar,
         Devolver, Desalojar, Interrumpir, DevolverInterrumpido, ElegirInterrumpido,
         TomarIntProcesada, EsperarCPU
    <3>. QED
      BY <1>1, <2>1, <3>1 DEF IMaquina, cpu, cargado
  <2>. QED
    BY <2>2, <2>3, <2>4
<1>6. CASE Handler
  <2>1. /\ ciclo' \in Ciclos /\ UNCHANGED <<interruptionExits, Procesos, Clave, terminados>>
        /\ Clave # Ninguna
    <3> USE DEF IMaquina, Ciclos, Va, Responde, Panico, En, ajenoAlHandler, cargado
    <3>1. CASE EntraThreadCreate \/ EntraProcessCreate \/ PasarAReady
               \/ SolicitarEspacioHilos \/ RegistrarPCB \/ Enviar \/ EntraFinalizar
               \/ ElegirAlQueTermina \/ AvisarMemoria \/ FiltrarReady
      BY <3>1 DEF EntraThreadCreate, EntraProcessCreate, PasarAReady,
                  SolicitarEspacioHilos, RegistrarPCB, Enviar, EntraFinalizar,
                  ElegirAlQueTermina, AvisarMemoria, FiltrarReady
    <3>2. CASE FiltrarMultinivel \/ PasarAExit \/ NadaQueSoltar \/ SoltarSinPCB
               \/ SoltarMutex \/ Desbloquear \/ Encolar \/ EnviarConReady \/ QuitarDeTIDCola
               \/ PedirVerificacion
      BY <3>2 DEF FiltrarMultinivel, PasarAExit, NadaQueSoltar, SoltarSinPCB, SoltarMutex,
                  Desbloquear, Encolar, EnviarConReady, QuitarDeTIDCola, PedirVerificacion
    <3>3. CASE EntraThreadJoin \/ PasarABlocked \/ VaciarExecPorJoin \/ MutexCreate
               \/ MutexLock \/ AnotarTID
      BY <3>3 DEF EntraThreadJoin, PasarABlocked, VaciarExecPorJoin, MutexCreate,
                  MutexLock, AnotarTID
    <3>4. CASE EntraConEjecutando \/ Volcar \/ BorrarPCB \/ MatarReady \/ MatarMultinivel
               \/ LiberarInt
      BY <3>4 DEF EntraConEjecutando, Volcar, BorrarPCB, MatarReady, MatarMultinivel,
                  LiberarInt
    <3>. QED
      BY <1>6, <3>1, <3>2, <3>3, <3>4 DEF Handler
  <2>2. contextos' \subseteq Claves
    <3>1. \/ contextos' = contextos \/ contextos' = contextos \cup {Hilo(otro)}
          \/ contextos' = contextos \ {Hilo(yo)}
      <4>1. CASE SolicitarEspacioHilos \/ AvisarMemoria
        BY <4>1 DEF SolicitarEspacioHilos, AvisarMemoria
      <4>2. CASE EntraThreadCreate \/ EntraProcessCreate \/ PasarAReady
                 \/ RegistrarPCB \/ Enviar \/ EntraFinalizar
                 \/ ElegirAlQueTermina \/ FiltrarReady \/ FiltrarMultinivel \/ PasarAExit
                 \/ NadaQueSoltar \/ SoltarSinPCB \/ SoltarMutex \/ Desbloquear
        BY <4>2 DEF EntraThreadCreate, EntraProcessCreate, PasarAReady, RegistrarPCB,
                    Enviar, EntraFinalizar, ElegirAlQueTermina, FiltrarReady,
                    FiltrarMultinivel, PasarAExit, NadaQueSoltar, SoltarSinPCB,
                    SoltarMutex, Desbloquear
      <4>3. CASE Encolar \/ EnviarConReady \/ QuitarDeTIDCola
                 \/ PedirVerificacion \/ EntraThreadJoin \/ PasarABlocked
                 \/ VaciarExecPorJoin \/ MutexCreate \/ MutexLock \/ AnotarTID
                 \/ EntraConEjecutando \/ Volcar \/ BorrarPCB \/ MatarReady
                 \/ MatarMultinivel \/ LiberarInt
        BY <4>3 DEF Encolar, EnviarConReady, QuitarDeTIDCola, PedirVerificacion,
                    EntraThreadJoin, PasarABlocked, VaciarExecPorJoin, MutexCreate,
                    MutexLock, AnotarTID, EntraConEjecutando, Volcar, BorrarPCB,
                    MatarReady, MatarMultinivel, LiberarInt
      <4>. QED
        BY <1>6, <4>1, <4>2, <4>3 DEF Handler
    <3>2. contextos \subseteq Claves
      BY DEF IMaquina
    <3>. QED
      BY <1>2, <3>1, <3>2
  <2>3. plan' \in PasosDelPlan
    <3>1. CASE Enviar \/ EnviarConReady
      <4>1. plan' \in {"fin", "elige", "interrumpe"}
        BY <3>1 DEF Enviar, EnviarConReady, AlRecibir, IExec, Canales
      <4>. QED
        BY <4>1 DEF PasosDelPlan
    <3>2. CASE Handler /\ ~Enviar /\ ~EnviarConReady
      <4>1. plan' = plan
        BY <3>2 DEF Handler, EntraThreadCreate, EntraProcessCreate, PasarAReady,
                    SolicitarEspacioHilos, RegistrarPCB, EntraFinalizar,
                    ElegirAlQueTermina, AvisarMemoria, FiltrarReady, FiltrarMultinivel,
                    PasarAExit, NadaQueSoltar, SoltarSinPCB, SoltarMutex, Desbloquear,
                    Encolar, QuitarDeTIDCola, PedirVerificacion,
                    EntraThreadJoin, PasarABlocked, VaciarExecPorJoin, MutexCreate,
                    MutexLock, AnotarTID, EntraConEjecutando, Volcar, BorrarPCB,
                    MatarReady, MatarMultinivel, LiberarInt, ajenoAlHandler, delPlan
      <4>. QED
        BY <4>1 DEF IMaquina
    <3>. QED
      BY <1>6, <3>1, <3>2
  <2>4. vivo' \in BOOLEAN /\ porVerificar' \in {<<>>} \cup {<<tid>> : tid \in Tids}
    <3>1. CASE LiberarInt
      BY <3>1 DEF LiberarInt, IMaquina
    <3>2. CASE PedirVerificacion
      BY <1>2, <3>2 DEF PedirVerificacion, IMaquina, ajenoAlHandler
    <3>3. CASE Handler /\ ~LiberarInt /\ ~PedirVerificacion
      <4>1. vivo' = vivo /\ porVerificar' = porVerificar
        BY <3>3 DEF Handler, EntraThreadCreate, EntraProcessCreate, PasarAReady,
                    SolicitarEspacioHilos, Enviar, RegistrarPCB, EntraFinalizar,
                    ElegirAlQueTermina, AvisarMemoria, FiltrarReady, FiltrarMultinivel,
                    PasarAExit, NadaQueSoltar, SoltarSinPCB, SoltarMutex, Desbloquear,
                    Encolar, EnviarConReady, QuitarDeTIDCola,
                    EntraThreadJoin, PasarABlocked, VaciarExecPorJoin, MutexCreate,
                    MutexLock, AnotarTID, EntraConEjecutando, Volcar, BorrarPCB,
                    MatarReady, MatarMultinivel, ajenoAlHandler
      <4>. QED
        BY <4>1 DEF IMaquina
    <3>. QED
      BY <1>6, <3>1, <3>2, <3>3
  <2>5. tomados' \subseteq Cerrojos
    <3>1. \/ tomados' = tomados
          \/ \E m \in {"ready", "exit", "pcbs", "int"} :
                tomados' = tomados \cup {m} \/ tomados' = tomados \ {m}
      <4>1. CASE ElegirAlQueTermina \/ PasarAExit \/ Encolar \/ EnviarConReady \/ BorrarPCB
                 \/ MatarMultinivel \/ LiberarInt
        BY <4>1 DEF ElegirAlQueTermina, PasarAExit, Encolar, EnviarConReady, BorrarPCB,
                    MatarMultinivel, LiberarInt, Panico
      <4>2. CASE EntraThreadCreate \/ EntraProcessCreate \/ PasarAReady
                 \/ SolicitarEspacioHilos \/ RegistrarPCB \/ Enviar \/ EntraFinalizar
                 \/ AvisarMemoria \/ FiltrarReady \/ FiltrarMultinivel
                 \/ NadaQueSoltar \/ SoltarSinPCB \/ SoltarMutex \/ Desbloquear
        BY <4>2 DEF EntraThreadCreate, EntraProcessCreate, PasarAReady,
                    SolicitarEspacioHilos, RegistrarPCB, Enviar, EntraFinalizar,
                    AvisarMemoria, FiltrarReady, FiltrarMultinivel,
                    NadaQueSoltar, SoltarSinPCB, SoltarMutex, Desbloquear
      <4>3. CASE QuitarDeTIDCola \/ PedirVerificacion \/ EntraThreadJoin \/ PasarABlocked
                 \/ VaciarExecPorJoin \/ MutexCreate \/ MutexLock \/ AnotarTID
                 \/ EntraConEjecutando \/ Volcar \/ MatarReady
        BY <4>3 DEF QuitarDeTIDCola, PedirVerificacion, EntraThreadJoin, PasarABlocked,
                    VaciarExecPorJoin, MutexCreate, MutexLock, AnotarTID,
                    EntraConEjecutando, Volcar, MatarReady
      <4>. QED
        BY <1>6, <4>1, <4>2, <4>3 DEF Handler
    <3>2. tomados \subseteq Cerrojos
      BY DEF IMaquina
    <3>. QED
      BY <3>1, <3>2 DEF Cerrojos
  <2>. QED
    BY <1>1, <2>1, <2>2, <2>3, <2>4, <2>5 DEF IMaquina, Ciclos
<1>. QED
  BY <1>3, <1>4, <1>5, <1>6 DEF Next

LEMMA PasoTipos ==
    ASSUME IExec, ITipos, [Next]_vars
    PROVE  ITipos'
<1>1. PICK pr : EsReparto(pr) /\ EnCasa(FichasDe(pr))
  BY DEF ITipos, IFichas
<1>2. /\ IMaquina /\ IPedido /\ IPCBS /\ perfil \in Perfiles /\ perfil' = perfil
  BY PerfilFijo DEF ITipos, IMaquina
<1>3. Cerrado(FichasDe(pr))
  BY <1>1, <1>2, CerradoFichas
<1>4. cola_exec # <<>> => cola_exec[1].TID \in Tids
  <2>1. cola_exec # <<>> => cola_exec[1] \in FichasDe(pr)
    BY <1>1 DEF EnCasa
  <2>. QED
    BY <1>1, <1>2, <2>1, FichaDa
<1>5. ASSUME MismosHilos, EnCasa(FichasDe(pr))'
      PROVE  IPCBS' /\ IFichas'
  BY <1>1, <1>2, <1>5, MismosHilosSiguen, MismosHilosReparten DEF IFichas
<1>6. CASE Next
  <2>1. IMaquina' /\ IPedido'
    BY <1>1, <1>2, <1>4, <1>6, MaquinaSigue, PedidoSigue
  <2>2. IPCBS' /\ IFichas'
    <3>1. CASE CPU \/ Verificar
      BY <1>1, <1>2, <1>5, <3>1, DelPlanNoTocaHilos, QuienesNoTocan, SinTocarEnCasa
    <3>2. CASE Planner
      BY <1>1, <1>2, <1>3, <1>5, <3>2, DelPlanNoTocaHilos, PlannerEnCasa
    <3>3. CASE EntraThreadCreate
      BY <1>1, <3>3, ThreadCreateReparte
    <3>4. CASE EntraProcessCreate
      BY <1>1, <3>4, ProcessCreateReparte
    <3>5. CASE RegistrarPCB \/ BorrarPCB
      <4>1. EnCasa(FichasDe(pr))'
        BY <1>1, <3>5, QuienesNoTocan, SinTocarEnCasa
      <4>2. IPCBS' /\ EsReparto(pr)'
        BY <1>1, <3>5, RegistrarReparte, BorrarReparte
      <4>. QED
        BY <4>1, <4>2 DEF IFichas
    <3>6. CASE /\ Handler /\ ~EntraThreadCreate /\ ~EntraProcessCreate /\ ~RegistrarPCB
               /\ ~BorrarPCB
      BY <1>1, <1>2, <1>3, <1>4, <1>5, <3>6, HandlerEnCasa, HandlerNoTocaHilos
    <3>. QED
      BY <1>6, <3>1, <3>2, <3>3, <3>4, <3>5, <3>6 DEF Next
  <2>. QED
    BY <2>1, <2>2 DEF ITipos
<1>7. CASE UNCHANGED vars
  <2>1. MismosHilos
    BY <1>2, <1>7 DEF vars, tablas, handler, datos, MismosHilos, IPCBS, ProcesoNuevo
  <2>2. EnCasa(FichasDe(pr))'
    BY <1>1, <1>7, SinTocarEnCasa DEF vars, delPlan, handler, datos, SinTocar
  <2>3. HilosCreados' = HilosCreados
    BY <1>7, HilosCreadosIgual DEF vars, tablas
  <2>4. IPedido'
    BY <1>2, <1>7, <2>3 DEF vars, tablas, handler, datos, IPedido, Instrucciones, Argumentos,
       Prioridades
  <2>5. IMaquina'
    BY <1>2, <1>7 DEF vars, tablas, handler, delPlan, cpu, cargado, IMaquina
  <2>. QED
    BY <1>5, <2>1, <2>2, <2>4, <2>5 DEF ITipos
<1>. QED
  BY <1>6, <1>7

\* Every thread the kernel knows of is one it created, with the priority it gave
\* it then; PIDs are not repeated, and the TIDs of a process are consecutive.
THEOREM TiposEnPie == Spec => []ITipos
<1>1. IExec /\ ITipos /\ [Next]_vars => ITipos'
  BY PasoTipos
<1>. QED
  BY <1>1, InicioTipos, ExecEnPie, PTL DEF Spec

\* The types of the scheduler.
THEOREM TiposDelPlanificador == Spec => []TypeOK
BY TiposEnPie, TiposDelPlan, PTL

-----------------------------------------------------------------------------
(***************************************************************************)
(* Urgency: no thread waits that is more urgent than the one in EXEC.      *)
(***************************************************************************)

\* The elements of a queue when one arrives at the end or one leaves.
LEMMA RangoAppend ==
    ASSUME NEW F, NEW q \in Seq(F), NEW t \in F
    PROVE  Range(Append(q, t)) = Range(q) \cup {t}
<1> DEFINE a == Append(q, t)
           n == Len(q)
<1>1. /\ a \in Seq(F) /\ DOMAIN a = 1 .. n + 1 /\ DOMAIN q = 1 .. n /\ n \in Nat
      /\ a[n + 1] = t /\ \A j \in 1 .. n : a[j] = q[j]
  OBVIOUS
<1> HIDE DEF a, n
<1>2. ASSUME NEW x PROVE x \in Range(a) <=> x \in Range(q) \cup {t}
  <2>1. \A j \in DOMAIN a : j \in 1 .. n \/ j = n + 1
    BY <1>1
  <2>2. x \in Range(a) => x \in Range(q) \cup {t}
    BY <1>1, <2>1 DEF Range
  <2>3. x \in Range(q) => x \in Range(a)
    <3>1. ASSUME NEW j \in DOMAIN q PROVE q[j] \in Range(a)
      <4>1. j \in DOMAIN a /\ a[j] = q[j]
        BY <1>1
      <4>. QED
        BY <4>1 DEF Range
    <3>. QED
      BY <3>1 DEF Range
  <2>4. t \in Range(a)
    <3>1. n + 1 \in DOMAIN a
      BY <1>1
    <3>. QED
      BY <1>1, <3>1 DEF Range
  <2>. QED
    BY <2>2, <2>3, <2>4
<1>. QED
  BY <1>2 DEF a

LEMMA RangoRemoveAt ==
    ASSUME NEW F, NEW q \in Seq(F), NEW m \in 1 .. Len(q)
    PROVE  Range(RemoveAt(q, m)) \subseteq Range(q)
<1> DEFINE r == RemoveAt(q, m)
           n == Len(q)
<1>1. /\ r \in Seq(F) /\ Len(r) = n - 1 /\ n \in Nat
      /\ \A j \in 1 .. n : j < m => r[j] = q[j]
      /\ \A j \in 1 .. n : j > m => r[j - 1] = q[j]
  <2>1. EsExtraccion(F, r, q, m)
    BY RemoveAtPropiedades
  <2> HIDE DEF r
  <2>. QED
    BY <2>1, LenProperties DEF EsExtraccion
<1>2. DOMAIN r = 1 .. n - 1 /\ DOMAIN q = 1 .. n
  BY <1>1
<1> HIDE DEF r, n
<1>3. ASSUME NEW j \in DOMAIN r PROVE r[j] \in Range(q)
  <2>1. CASE j < m
    <3>1. j \in DOMAIN q /\ r[j] = q[j]
      BY <1>1, <1>2, <2>1
    <3>. QED
      BY <3>1 DEF Range
  <2>2. CASE ~(j < m)
    <3>1. j + 1 \in 1 .. n /\ j + 1 > m /\ (j + 1) - 1 = j
      BY <1>1, <1>2, <2>2
    <3>2. j + 1 \in DOMAIN q /\ r[j] = q[j + 1]
      BY <1>1, <1>2, <3>1
    <3>. QED
      BY <3>2 DEF Range
  <2>. QED
    BY <2>1, <2>2
<1>. QED
  BY <1>3 DEF Range, r

LEMMA RangoTail ==
    ASSUME NEW F, NEW q \in Seq(F), q # <<>>
    PROVE  /\ q[1] \in Range(q) /\ Range(Tail(q)) \subseteq Range(q)
           /\ Range(q) \subseteq Range(Tail(q)) \cup {q[1]}
<1> DEFINE r == Tail(q)
           n == Len(q)
<1>1. /\ r \in Seq(F) /\ n \in Nat /\ n # 0 /\ DOMAIN r = 1 .. n - 1 /\ DOMAIN q = 1 .. n
      /\ \A j \in 1 .. n - 1 : r[j] = q[j + 1]
  OBVIOUS
<1> HIDE DEF r, n
<1>2. q[1] \in Range(q)
  <2>1. 1 \in DOMAIN q
    BY <1>1
  <2>. QED
    BY <2>1 DEF Range
<1>3. ASSUME NEW j \in DOMAIN r PROVE r[j] \in Range(q)
  <2>1. j + 1 \in DOMAIN q /\ r[j] = q[j + 1]
    BY <1>1
  <2>. QED
    BY <2>1 DEF Range
<1>4. ASSUME NEW j \in DOMAIN q, j # 1 PROVE q[j] \in Range(r)
  <2>1. j - 1 \in DOMAIN r /\ r[j - 1] = q[(j - 1) + 1] /\ (j - 1) + 1 = j
    BY <1>1, <1>4
  <2>. QED
    BY <2>1 DEF Range
<1>. QED
  BY <1>2, <1>3, <1>4 DEF Range, r

\* The thread in READY that the planner has not been told of yet: crearHilo and
\* desbloquearHilo append it and only then send.
SinAvisar == IF paso \in {"memoria", "envia", "enviaReady"} THEN {otro} ELSE {}

\* t is as urgent as any of the others that wait.
Menor(t) == \A u \in Range(cola_ready) : u \in SinAvisar \/ t.Prioridad <= u.Prioridad

\* The calls that take threads out of READY or colasMultinivel, one with and one
\* without the other in between.
Bajas == {"THREAD_CANCEL", "PROCESS_EXIT", "SEGFAULT", "DUMP_MEMORY"}

\* With priorities, or with queues that only the planner empties.
ConPrioridades ==
    \/ Algoritmo = "PRIORIDADES"
    \/ Algoritmo = "CMN" /\ perfil.Operaciones \cap Bajas = {}

\* What the planner keeps of its choice until the thread is in EXEC, and from then
\* on until the next message.
IUrg ==
    /\ plan \in {"espera", "envia", "intEnvia"} /\ cola_exec # <<>> => Menor(cola_exec[1])
    /\ plan = "compara" /\ cola_exec # <<>> =>
          IF Hilo(cola_exec[1]) = Hilo(nuevo) THEN Menor(cola_exec[1])
          ELSE Menor(nuevo) /\ nuevo.Prioridad <= cola_exec[1].Prioridad
    /\ plan = "devuelve" => Menor(nuevo) /\ nuevo.Prioridad <= cola_exec[1].Prioridad
    /\ plan \in {"avisa", "toma", "intAvisa", "intToma", "intEspera"} => Menor(nuevo)

\* Under CMN what waits is in the queue of its priority, but for the thread whose
\* context memoria is creating.
IMulti ==
    Algoritmo = "CMN" =>
       /\ \A p \in Prioridades : \A u \in Range(colasMultinivel[p]) : u.Prioridad = p
       /\ \A u \in Range(cola_ready) :
             (paso = "memoria" /\ u = otro) \/ u \in Range(colasMultinivel[u.Prioridad])

\* Which calls reach the steps that take threads out of the queues.
IRutas ==
    /\ paso \in {"elegir", "avisar"} => pedido.op \in {"THREAD_EXIT", "THREAD_CANCEL"}
    /\ paso \in {"filtrar", "filtrarMulti"} => pedido.op = "THREAD_CANCEL"
    /\ paso = "volcar" => pedido.op = "DUMP_MEMORY"
    /\ paso \in {"matarPCB", "matarReady", "matarMulti"} =>
          pedido.op \in {"DUMP_MEMORY", "PROCESS_EXIT", "SEGFAULT"}

IUrgencia == IRutas /\ (ConPrioridades => IUrg /\ IMulti)

LEMMA RutasSiguen ==
    ASSUME IPedido, IRutas, [Next]_vars
    PROVE  IRutas'
<1> USE DEF Responde, Panico, En, Va, Es
<1>1. CASE (CPU \/ Planner \/ Verificar) /\ ~Syscall
  <2>1. UNCHANGED <<paso, pedido>>
    BY <1>1 DEF CPU, OtraInstruccion, FetchFalla, FinDeCiclo, CheckInterrupt,
         executionProces, Verificar, Planner, VaciarExec, ElegirSiguiente, Ejecutar,
         ElegirDesalojo, Comparar, Devolver, notifCPUInterruption, Desalojar, Interrumpir,
         DevolverInterrumpido, ElegirInterrumpido, TomarIntProcesada, EsperarCPU,
         EjecutarInterrumpido, ajenoAlPlan, handler
  <2>. QED
    BY <2>1 DEF IRutas
<1>2. CASE Syscall
  BY <1>2 DEF Syscall, IRutas
<1>3. CASE UNCHANGED vars
  BY <1>3 DEF vars, handler, IRutas
<1>4. CASE Handler
  <2>1. pedido' = pedido
    BY <1>4, HandlerSigueRuta
  <2>2. CASE EntraThreadCreate \/ EntraProcessCreate \/ PasarAReady \/ SolicitarEspacioHilos
             \/ RegistrarPCB \/ PasarAExit \/ NadaQueSoltar \/ SoltarSinPCB \/ SoltarMutex
             \/ Desbloquear \/ Encolar
    BY <2>1, <2>2 DEF EntraThreadCreate, EntraProcessCreate, PasarAReady,
       SolicitarEspacioHilos, RegistrarPCB, PasarAExit, NadaQueSoltar, SoltarSinPCB,
       SoltarMutex, Desbloquear, Encolar, IRutas
  <2>3. CASE Enviar
    BY <2>1, <2>3, Rutas DEF Enviar, IRutas
  <2>4. CASE EntraFinalizar \/ ElegirAlQueTermina \/ AvisarMemoria \/ FiltrarReady
             \/ FiltrarMultinivel
    BY <2>1, <2>4 DEF EntraFinalizar, ElegirAlQueTermina, AvisarMemoria, FiltrarReady,
       FiltrarMultinivel, IRutas
  <2>5. CASE EnviarConReady \/ QuitarDeTIDCola \/ PedirVerificacion \/ EntraThreadJoin
             \/ VaciarExecPorJoin \/ MutexCreate \/ MutexLock \/ AnotarTID \/ LiberarInt
    BY <2>1, <2>5 DEF EnviarConReady, QuitarDeTIDCola, PedirVerificacion, EntraThreadJoin,
       VaciarExecPorJoin, MutexCreate, MutexLock, AnotarTID, LiberarInt, IRutas
  <2>6. CASE PasarABlocked
    <3>1. pedido.op \in DOMAIN TrasBloquear
      BY <2>6 DEF PasarABlocked, IPedido
    <3>2. paso' \in {"vaciar", "anotarTID", "envia"}
      BY <2>6, <3>1, Rutas DEF PasarABlocked
    <3>. QED
      BY <2>1, <3>2 DEF IRutas
  <2>7. CASE EntraConEjecutando \/ Volcar \/ BorrarPCB \/ MatarReady \/ MatarMultinivel
    BY <2>1, <2>7 DEF EntraConEjecutando, Volcar, BorrarPCB, MatarReady, MatarMultinivel,
       IRutas
  <2>. QED
    BY <1>4, <2>2, <2>3, <2>4, <2>5, <2>6, <2>7 DEF Handler
<1>. QED
  BY <1>1, <1>2, <1>3, <1>4 DEF Next

\* A set with every TCB of the kernel, in which a thread has one priority.
Reparto(F) ==
    /\ Cerrado(F) /\ EnCasa(F)
    /\ \A t \in F : t.Prioridad \in Prioridades
    /\ \A t, u \in F : Hilo(t) = Hilo(u) => t.Prioridad = u.Prioridad

LEMMA HayReparto ==
    ASSUME ITipos
    PROVE  perfil \in Perfiles /\ \E F : Reparto(F)
<1>1. perfil \in Perfiles
  BY DEF ITipos, IMaquina
<1>2. PICK pr : EsReparto(pr) /\ EnCasa(FichasDe(pr))
  BY DEF ITipos, IFichas
<1>3. Cerrado(FichasDe(pr))
  BY <1>1, <1>2, CerradoFichas
<1>4. \A t \in FichasDe(pr) : Hilo(t) \in DOMAIN pr /\ t.Prioridad = pr[Hilo(t)]
  BY DEF FichasDe
<1>5. \A h \in DOMAIN pr : pr[h] \in Prioridades
  BY <1>2 DEF EsReparto
<1>. QED
  BY <1>1, <1>2, <1>3, <1>4, <1>5 DEF Reparto

\* The choice leaves nobody behind that is more urgent, in READY or in EXEC.
LEMMA EleccionUrgente ==
    ASSUME NEW F, Reparto(F), perfil \in Perfiles, ConPrioridades, IMulti
    PROVE  /\ Range(planificar.ready) \subseteq Range(cola_ready)
           /\ \A u \in Range(planificar.ready) :
                 u \in SinAvisar \/ planificar.tcb.Prioridad <= u.Prioridad
           /\ cola_exec # <<>> => planificar.tcb.Prioridad <= cola_exec[1].Prioridad
           /\ Algoritmo = "CMN" =>
                 /\ \A p \in Prioridades :
                       Range(planificar.multinivel[p]) \subseteq Range(colasMultinivel[p])
                 /\ \A u \in Range(planificar.ready) :
                       (paso = "memoria" /\ u = otro)
                       \/ u \in Range(planificar.multinivel[u.Prioridad])
<1> USE DEF Nada, Eleccion
<1>1. /\ cola_ready \in Seq(F) /\ cola_exec \in Seq(F)
      /\ colasMultinivel \in [Prioridades -> Seq(F)] /\ TCBVacio \in F
      /\ \A t \in F : t.Prioridad \in Nat /\ t.Prioridad \in Prioridades
  BY DEF Reparto, Cerrado, EnCasa
<1>2. cola_exec # <<>> => cola_exec[1] \in F
  BY <1>1
<1>3. Range(cola_ready) \subseteq F /\ TCBVacio.Prioridad = 0
  BY <1>1 DEF Range, TCBVacio
<1>4. CASE Algoritmo = "PRIORIDADES"
  <2>1. CASE cola_ready = <<>>
    <3>1. planificar = Nada(TCBVacio)
      BY <1>4, <2>1 DEF planificar, planificarPrioridades
    <3>2. Range(cola_ready) = {}
      BY <2>1 DEF Range
    <3>. QED
      BY <1>1, <1>2, <1>3, <1>4, <3>1, <3>2
  <2>2. CASE cola_ready # <<>>
    <3> DEFINE m == IndiceMenor(cola_ready)
               n == cola_ready[m].Prioridad
    <3>1. m \in DOMAIN cola_ready /\ \A j \in DOMAIN cola_ready : n <= cola_ready[j].Prioridad
      BY <1>1, <2>2, IndiceMenorDa
    <3>2. cola_ready[m] \in F /\ m \in 1 .. Len(cola_ready)
      BY <1>1, <3>1
    <3>3. planificar = IF Sigue(cola_ready[m]) THEN Nada(cola_exec[1])
                       ELSE Eleccion(cola_ready[m], RemoveAt(cola_ready, m), colasMultinivel, FALSE)
      BY <1>4, <2>2 DEF planificar, planificarPrioridades
    <3>4. \A u \in Range(cola_ready) : n <= u.Prioridad /\ u.Prioridad \in Nat
      BY <1>1, <1>3, <3>1 DEF Range
    <3>5. n \in Nat
      BY <1>1, <3>2
    <3>6. Range(RemoveAt(cola_ready, m)) \subseteq Range(cola_ready)
      <4> HIDE DEF m
      <4>. QED
        BY <1>1, <3>2, RangoRemoveAt
    <3> HIDE DEF m
    <3>7. CASE Sigue(cola_ready[m])
      <4>1. planificar.tcb = cola_exec[1] /\ planificar.ready = cola_ready
        BY <3>3, <3>7
      <4>2. cola_exec # <<>> /\ cola_exec[1].Prioridad <= n
        BY <1>1, <1>2, <3>5, <3>7 DEF Sigue
      <4>3. cola_exec[1].Prioridad \in Nat
        BY <1>1, <1>2, <4>2
      <4> HIDE DEF n
      <4>. QED
        BY <1>4, <3>4, <3>5, <4>1, <4>2, <4>3
    <3>8. CASE ~Sigue(cola_ready[m])
      <4>1. planificar.tcb = cola_ready[m] /\ planificar.ready = RemoveAt(cola_ready, m)
        BY <3>3, <3>8
      <4>2. cola_exec # <<>> => n <= cola_exec[1].Prioridad
        BY <1>1, <1>2, <3>5, <3>8 DEF Sigue
      <4>3. planificar.tcb.Prioridad = n
        BY <4>1
      <4> HIDE DEF n
      <4>. QED
        BY <1>4, <3>4, <3>6, <4>1, <4>2, <4>3
    <3>. QED
      BY <3>7, <3>8
  <2>. QED
    BY <2>1, <2>2
<1>5. CASE Algoritmo = "CMN"
  <2>0. /\ \A p \in Prioridades : \A u \in Range(colasMultinivel[p]) : u.Prioridad = p
        /\ \A u \in Range(cola_ready) :
              (paso = "memoria" /\ u = otro) \/ u \in Range(colasMultinivel[u.Prioridad])
    BY <1>5 DEF IMulti
  <2>1. CASE cola_ready = <<>> \/ Claves_multinivel = {}
    <3>1. planificar = Nada(TCBVacio)
      BY <1>5, <2>1 DEF planificar, planificarColas
    <3>2. \A u \in Range(cola_ready) : paso = "memoria" /\ u = otro
      <4>1. CASE cola_ready = <<>>
        BY <4>1 DEF Range
      <4>2. CASE Claves_multinivel = {}
        <5>1. \A p \in Prioridades : Range(colasMultinivel[p]) = {}
          BY <4>2 DEF Claves_multinivel, Range
        <5>. QED
          BY <1>1, <1>3, <2>0, <5>1
      <4>. QED
        BY <2>1, <4>1, <4>2
    <3>3. \A u \in Range(cola_ready) : u \in SinAvisar
      BY <3>2 DEF SinAvisar
    <3>. QED
      BY <1>1, <1>2, <1>3, <2>0, <3>1, <3>3
  <2>2. CASE ~(cola_ready = <<>> \/ Claves_multinivel = {})
    <3> DEFINE m == menorClave
               t == colasMultinivel[m][1]
               r == SinHilo(cola_ready, Hilo(t))
    <3>1. /\ m \in Prioridades /\ colasMultinivel[m] # <<>>
          /\ \A p \in Claves_multinivel : m <= p
      BY <2>2, PerfilDa, menorClaveDa DEF Claves_multinivel
    <3>2. /\ t \in F /\ t \in Range(colasMultinivel[m])
          /\ Range(Tail(colasMultinivel[m])) \subseteq Range(colasMultinivel[m])
          /\ Range(colasMultinivel[m]) \subseteq Range(Tail(colasMultinivel[m])) \cup {t}
      BY <1>1, <3>1, RangoTail
    <3>3. t.Prioridad = m /\ m \in Nat
      BY <1>1, <2>0, <3>1, <3>2
    <3>4. Range(r) \subseteq Range(cola_ready) /\ \A u \in Range(r) : Hilo(u) # Hilo(t)
      BY <1>1, FiltraDa DEF SinHilo
    <3>5. planificar = IF Sigue(t) THEN Nada(cola_exec[1])
                       ELSE Eleccion(t, r, [colasMultinivel EXCEPT ![m] = Tail(@)], FALSE)
      BY <1>5, <2>2 DEF planificar, planificarColas
    <3>6. ASSUME NEW u \in Range(cola_ready) PROVE u \in SinAvisar \/ m <= u.Prioridad
      <4>1. CASE paso = "memoria" /\ u = otro
        BY <4>1 DEF SinAvisar
      <4>2. CASE u \in Range(colasMultinivel[u.Prioridad])
        <5>1. u.Prioridad \in Prioridades /\ colasMultinivel[u.Prioridad] # <<>>
          BY <1>1, <1>3, <4>2 DEF Range
        <5>. QED
          BY <3>1, <5>1 DEF Claves_multinivel
      <4>. QED
        BY <2>0, <4>1, <4>2
    <3>7. \A u \in Range(cola_ready) : u.Prioridad \in Nat
      BY <1>1, <1>3
    <3> HIDE DEF m, t, r
    <3>8. CASE Sigue(t)
      <4>1. /\ planificar.tcb = cola_exec[1] /\ planificar.ready = cola_ready
            /\ planificar.multinivel = colasMultinivel
        BY <3>5, <3>8
      <4>2. cola_exec # <<>> /\ cola_exec[1].Prioridad <= m
        BY <1>1, <1>2, <3>3, <3>8 DEF Sigue
      <4>3. cola_exec[1].Prioridad \in Nat
        BY <1>1, <1>2, <4>2
      <4>4. \A u \in Range(cola_ready) : u \in SinAvisar \/ cola_exec[1].Prioridad <= u.Prioridad
        BY <3>3, <3>6, <3>7, <4>2, <4>3
      <4>. QED
        BY <2>0, <4>1, <4>3, <4>4
    <3>9. CASE ~Sigue(t)
      <4>1. /\ planificar.tcb = t /\ planificar.ready = r
            /\ planificar.multinivel = [colasMultinivel EXCEPT ![m] = Tail(@)]
        BY <3>5, <3>9
      <4>2. cola_exec # <<>> => m <= cola_exec[1].Prioridad
        BY <1>1, <1>2, <3>3, <3>9 DEF Sigue
      <4>3. \A u \in Range(r) : u \in SinAvisar \/ m <= u.Prioridad
        BY <3>4, <3>6
      <4>4. \A p \in Prioridades :
               planificar.multinivel[p] = IF p = m THEN Tail(colasMultinivel[m]) ELSE colasMultinivel[p]
        BY <1>1, <4>1
      <4>5. \A p \in Prioridades :
               Range(planificar.multinivel[p]) \subseteq Range(colasMultinivel[p])
        BY <3>2, <4>4
      <4>6. ASSUME NEW u \in Range(r)
            PROVE  (paso = "memoria" /\ u = otro) \/ u \in Range(planificar.multinivel[u.Prioridad])
        <5>1. u \in Range(cola_ready) /\ u # t /\ u.Prioridad \in Prioridades
          BY <1>1, <1>3, <3>4
        <5>2. CASE u \in Range(colasMultinivel[u.Prioridad])
          <6>1. CASE u.Prioridad = m
            BY <3>2, <4>4, <5>1, <5>2, <6>1
          <6>2. CASE u.Prioridad # m
            BY <4>4, <5>1, <5>2, <6>2
          <6>. QED
            BY <6>1, <6>2
        <5>. QED
          BY <2>0, <5>1, <5>2
      <4>. QED
        BY <3>3, <3>4, <4>1, <4>2, <4>3, <4>5, <4>6
    <3>. QED
      BY <3>8, <3>9
  <2>. QED
    BY <2>1, <2>2
<1>. QED
  BY <1>4, <1>5 DEF ConPrioridades

\* A thread that goes to READY and to the queue of its priority.
LEMMA AgregarUrgente ==
    ASSUME NEW F, Reparto(F), IMulti, NEW t \in F, perfil' = perfil,
           cola_ready' = Append(cola_ready, t), colasMultinivel' = agregarTCB(t),
           paso # "memoria" \/ UNCHANGED <<paso, otro>>
    PROVE  IMulti' /\ Range(cola_ready') = Range(cola_ready) \cup {t}
<1>1. /\ cola_ready \in Seq(F) /\ colasMultinivel \in [Prioridades -> Seq(F)]
      /\ \A u \in F : u.Prioridad \in Prioridades
  BY DEF Reparto, EnCasa
<1>2. Range(cola_ready') = Range(cola_ready) \cup {t} /\ Range(cola_ready) \subseteq F
  <2>1. Range(Append(cola_ready, t)) = Range(cola_ready) \cup {t}
    BY <1>1, RangoAppend
  <2>2. Range(cola_ready) \subseteq F
    BY <1>1 DEF Range
  <2>. QED
    BY <2>1, <2>2
<1>3. CASE Algoritmo = "CMN"
  <2>1. /\ \A p \in Prioridades : \A u \in Range(colasMultinivel[p]) : u.Prioridad = p
        /\ \A u \in Range(cola_ready) :
              (paso = "memoria" /\ u = otro) \/ u \in Range(colasMultinivel[u.Prioridad])
    BY <1>3 DEF IMulti
  <2> DEFINE p0 == t.Prioridad
  <2>2. \A p \in Prioridades :
           colasMultinivel'[p] = IF p = p0 THEN Append(colasMultinivel[p0], t)
                                 ELSE colasMultinivel[p]
    BY <1>1, <1>3 DEF agregarTCB
  <2>3. p0 \in Prioridades /\ Range(Append(colasMultinivel[p0], t)) = Range(colasMultinivel[p0]) \cup {t}
    BY <1>1, RangoAppend
  <2>4. \A p \in Prioridades :
           Range(colasMultinivel'[p]) = IF p = p0 THEN Range(colasMultinivel[p]) \cup {t}
                                        ELSE Range(colasMultinivel[p])
    BY <2>2, <2>3
  <2>5. Prioridades' = Prioridades
    BY DEF Prioridades
  <2>6. ASSUME NEW p \in Prioridades, NEW u \in Range(colasMultinivel'[p]) PROVE u.Prioridad = p
    BY <2>1, <2>4, <2>6
  <2>7. ASSUME NEW u \in Range(cola_ready')
        PROVE  (paso' = "memoria" /\ u = otro') \/ u \in Range(colasMultinivel'[u.Prioridad])
    <3>1. CASE u = t
      BY <2>3, <2>4, <3>1
    <3>2. CASE u \in Range(cola_ready) /\ u \in Range(colasMultinivel[u.Prioridad])
      <4>1. u.Prioridad \in Prioridades
        BY <1>1, <1>2, <3>2
      <4>. QED
        BY <2>4, <3>2, <4>1
    <3>3. CASE paso = "memoria" /\ u = otro
      BY <3>3
    <3>. QED
      BY <1>2, <2>1, <2>7, <3>1, <3>2, <3>3
  <2> HIDE DEF p0
  <2>. QED
    BY <1>2, <2>5, <2>6, <2>7 DEF IMulti
<1>4. CASE Algoritmo # "CMN"
  BY <1>2, <1>4 DEF IMulti, Algoritmo
<1>. QED
  BY <1>3, <1>4

LEMMA PlannerUrgente ==
    ASSUME IExec, ITipos, ConPrioridades, IUrg, IMulti, Planner
    PROVE  IUrg' /\ IMulti'
<1>1. PICK F : Reparto(F) /\ perfil \in Perfiles
  BY HayReparto
<1>2. UNCHANGED <<perfil, paso, otro>>
  BY DEF Planner, VaciarExec, ElegirSiguiente, Ejecutar, ElegirDesalojo, Comparar,
         Devolver, notifCPUInterruption, Desalojar, Interrumpir, DevolverInterrumpido,
         ElegirInterrumpido, TomarIntProcesada, EsperarCPU, EjecutarInterrumpido,
         ajenoAlPlan, handler, datos
<1>3. SinAvisar' = SinAvisar /\ Prioridades' = Prioridades /\ Algoritmo' = Algoritmo
  BY <1>2 DEF SinAvisar, Prioridades, Algoritmo
<1>4. /\ cola_exec \in Seq(F) /\ nuevo \in F
      /\ \A t \in F : t.Prioridad \in Nat
      /\ \A t, u \in F : Hilo(t) = Hilo(u) => t.Prioridad = u.Prioridad
  BY <1>1 DEF Reparto, EnCasa, Cerrado
<1>5. cola_exec # <<>> => cola_exec[1] \in F
  BY <1>4
<1> USE DEF De, EnPlan
\* The choices.
<1>6. ASSUME Elige(planificar)
      PROVE  /\ IMulti' /\ nuevo' \in F
             /\ \A u \in Range(cola_ready') : u \in SinAvisar' \/ nuevo'.Prioridad <= u.Prioridad
             /\ cola_exec # <<>> => nuevo'.Prioridad <= cola_exec[1].Prioridad
  <2>1. /\ nuevo' = planificar.tcb /\ cola_ready' = planificar.ready
        /\ colasMultinivel' = planificar.multinivel
    BY <1>6 DEF Elige
  <2>2. nuevo' \in F
    BY <1>1, <2>1, EleccionEnCasa DEF Reparto
  <2>3. /\ \A u \in Range(cola_ready') : u \in SinAvisar \/ nuevo'.Prioridad <= u.Prioridad
        /\ cola_exec # <<>> => nuevo'.Prioridad <= cola_exec[1].Prioridad
        /\ Algoritmo = "CMN" =>
              /\ \A p \in Prioridades : Range(colasMultinivel'[p]) \subseteq Range(colasMultinivel[p])
              /\ \A u \in Range(cola_ready') :
                    (paso = "memoria" /\ u = otro) \/ u \in Range(colasMultinivel'[u.Prioridad])
    BY <1>1, <2>1, EleccionUrgente
  <2>4. IMulti'
    BY <1>2, <1>3, <2>3 DEF IMulti
  <2>. QED
    BY <1>3, <2>2, <2>3, <2>4
<1>7. CASE ElegirSiguiente
  <2>1. Elige(planificar) /\ plan = "finElige"
    BY <1>7 DEF ElegirSiguiente
  <2>2. cola_exec = <<>>
    BY <2>1 DEF IExec, SinNadie
  <2>3. CASE plan' = "envia" /\ cola_exec' = Append(cola_exec, nuevo')
    <3>1. cola_exec'[1] = nuevo'
      BY <2>2, <2>3
    <3>. QED
      BY <1>6, <2>1, <2>3, <3>1 DEF IUrg, Menor
  <2>4. CASE plan' = "atascado"
    BY <1>6, <2>1, <2>4 DEF IUrg
  <2>. QED
    BY <1>7, <2>3, <2>4 DEF ElegirSiguiente
<1>8. CASE ElegirDesalojo
  <2>1. Elige(planificar) /\ cola_exec' = cola_exec /\ plan' = "compara"
    BY <1>8 DEF ElegirDesalojo, ConPrioridades
  <2>2. CASE cola_exec = <<>>
    BY <1>6, <2>1, <2>2 DEF IUrg
  <2>3. CASE cola_exec # <<>> /\ Hilo(cola_exec[1]) = Hilo(nuevo')
    <3>1. nuevo'.Prioridad = cola_exec[1].Prioridad
      BY <1>4, <1>5, <1>6, <2>1, <2>3
    <3>2. \A u \in Range(cola_ready') : u \in SinAvisar' \/ cola_exec[1].Prioridad <= u.Prioridad
      BY <1>6, <2>1, <3>1
    <3>3. Menor(cola_exec[1])'
      BY <2>1, <3>2 DEF Menor
    <3>4. Hilo(cola_exec[1])' = Hilo(nuevo)'
      BY <2>1, <2>3 DEF Hilo
    <3>. QED
      BY <1>6, <2>1, <3>3, <3>4 DEF IUrg
  <2>4. CASE cola_exec # <<>> /\ Hilo(cola_exec[1]) # Hilo(nuevo')
    <3>1. Menor(nuevo)'
      BY <1>6, <2>1 DEF Menor
    <3>2. Hilo(cola_exec[1])' # Hilo(nuevo)'
      BY <2>1, <2>4 DEF Hilo
    <3>3. nuevo'.Prioridad <= cola_exec'[1].Prioridad
      BY <1>6, <2>1, <2>4
    <3>. QED
      BY <1>6, <2>1, <3>1, <3>2, <3>3 DEF IUrg
  <2>. QED
    BY <2>2, <2>3, <2>4
<1>9. CASE ElegirInterrumpido
  <2>1. Elige(planificar) /\ plan' = "intAvisa"
    BY <1>9 DEF ElegirInterrumpido
  <2>2. Menor(nuevo)'
    BY <1>6, <2>1 DEF Menor
  <2>. QED
    BY <1>6, <2>1, <2>2 DEF IUrg
\* What goes back to READY.
<1>10. CASE Devolver
  <2>1. plan = "devuelve" /\ plan' = "avisa" /\ nuevo' = nuevo
    BY <1>10 DEF Devolver
  <2>2. cola_exec[1] \in F
    BY <1>5, <2>1 DEF IExec, ConAlguien
  <2>3. IMulti' /\ Range(cola_ready') = Range(cola_ready) \cup {cola_exec[1]}
    <3>1. /\ cola_ready' = Append(cola_ready, cola_exec[1])
          /\ colasMultinivel' = agregarTCB(cola_exec[1])
      BY <1>10 DEF Devolver
    <3>. QED
      BY <1>1, <1>2, <2>2, <3>1, AgregarUrgente
  <2>4. \A u \in Range(cola_ready') : u \in SinAvisar' \/ nuevo'.Prioridad <= u.Prioridad
    <3>1. nuevo.Prioridad <= cola_exec[1].Prioridad
      BY <2>1 DEF IUrg
    <3>2. \A u \in Range(cola_ready) : u \in SinAvisar \/ nuevo.Prioridad <= u.Prioridad
      BY <2>1 DEF IUrg, Menor
    <3>. QED
      BY <1>3, <2>1, <2>3, <3>1, <3>2
  <2>5. Menor(nuevo)'
    BY <2>4 DEF Menor
  <2>. QED
    BY <2>1, <2>3, <2>5 DEF IUrg
<1>11. CASE DevolverInterrumpido
  <2>1. /\ plan' = "intElige" /\ cola_ready' = Append(cola_ready, nuevo)
        /\ colasMultinivel' = agregarTCB(nuevo)
    BY <1>11 DEF DevolverInterrumpido
  <2>2. IMulti'
    BY <1>1, <1>2, <1>4, <2>1, AgregarUrgente
  <2>. QED
    BY <2>1, <2>2 DEF IUrg
\* The others leave both as they were.
<1>12. CASE VaciarExec \/ Ejecutar \/ Comparar \/ notifCPUInterruption \/ Desalojar
            \/ Interrumpir \/ TomarIntProcesada \/ EsperarCPU \/ EjecutarInterrumpido
  <2>0. UNCHANGED <<cola_ready, colasMultinivel>>
    BY <1>12 DEF VaciarExec, Ejecutar, Comparar, notifCPUInterruption, Desalojar,
       Interrumpir, TomarIntProcesada, EsperarCPU, EjecutarInterrumpido, colas
  <2>1. IMulti'
    BY <1>2, <1>3, <2>0 DEF IMulti
  <2>2. CASE VaciarExec \/ Interrumpir
    <3>1. plan' \in {"finElige", "intElige", "intDevuelve"}
      BY <2>2 DEF VaciarExec, Interrumpir
    <3>. QED
      BY <2>1, <3>1 DEF IUrg
  <2>3. CASE Ejecutar \/ EjecutarInterrumpido
    <3>1. plan \in {"envia", "intEnvia"} /\ plan' = "espera" /\ cola_exec' = cola_exec
      BY <2>3 DEF Ejecutar, EjecutarInterrumpido, colas
    <3>2. cola_exec # <<>> => Menor(cola_exec[1])
      BY <3>1 DEF IUrg
    <3>3. cola_exec' # <<>> => Menor(cola_exec[1])'
      BY <1>3, <2>0, <3>1, <3>2 DEF Menor
    <3>. QED
      BY <2>1, <3>1, <3>3 DEF IUrg
  <2>4. CASE Comparar
    <3>1. plan = "compara" /\ cola_exec' = cola_exec /\ nuevo' = nuevo
      BY <2>4 DEF Comparar, colas
    <3>2. CASE SinDesalojo
      <4>1. plan' = "espera"
        BY <2>4, <3>2 DEF Comparar
      <4>2. cola_exec # <<>> => Menor(cola_exec[1])
        BY <3>1, <3>2 DEF IUrg, SinDesalojo
      <4>3. cola_exec' # <<>> => Menor(cola_exec[1])'
        BY <1>3, <2>0, <3>1, <4>2 DEF Menor
      <4>. QED
        BY <2>1, <4>1, <4>3 DEF IUrg
    <3>3. CASE ~SinDesalojo
      <4>1. plan' = "devuelve"
        BY <2>4, <3>3 DEF Comparar
      <4>2. Menor(nuevo) /\ nuevo.Prioridad <= cola_exec[1].Prioridad
        BY <3>1, <3>3 DEF IUrg, SinDesalojo
      <4>3. Menor(nuevo)' /\ nuevo'.Prioridad <= cola_exec'[1].Prioridad
        BY <1>3, <2>0, <3>1, <4>2 DEF Menor
      <4>. QED
        BY <2>1, <4>1, <4>3 DEF IUrg
    <3>. QED
      BY <3>2, <3>3
  <2>5. CASE notifCPUInterruption \/ TomarIntProcesada
    <3>1. /\ plan \in {"avisa", "intAvisa", "intToma"} /\ nuevo' = nuevo
          /\ plan' \in {"toma", "intToma", "intEspera"}
      BY <2>5 DEF notifCPUInterruption, TomarIntProcesada
    <3>2. Menor(nuevo)
      BY <3>1 DEF IUrg
    <3>3. Menor(nuevo)'
      BY <1>3, <2>0, <3>1, <3>2 DEF Menor
    <3>. QED
      BY <2>1, <3>1, <3>3 DEF IUrg
  <2>6. CASE Desalojar \/ EsperarCPU
    <3>1. plan \in {"toma", "intEspera"} /\ plan' \in {"envia", "intEnvia"} /\ nuevo' = nuevo
      BY <2>6 DEF Desalojar, EsperarCPU
    <3>2. cola_exec' = <<nuevo>>
      <4>1. CASE Desalojar
        BY <4>1 DEF Desalojar
      <4>2. CASE EsperarCPU
        <5>1. cola_exec = <<>> /\ cola_exec' = Append(cola_exec, nuevo)
          BY <4>2 DEF EsperarCPU, IExec, SinNadie
        <5>. QED
          BY <5>1
      <4>. QED
        BY <2>6, <4>1, <4>2
    <3>3. cola_exec'[1] = nuevo
      BY <3>2
    <3>4. Menor(nuevo)
      BY <3>1 DEF IUrg
    <3>5. Menor(cola_exec[1])'
      BY <1>3, <2>0, <3>3, <3>4 DEF Menor
    <3>. QED
      BY <2>1, <3>1, <3>5 DEF IUrg
  <2>. QED
    BY <1>12, <2>2, <2>3, <2>4, <2>5, <2>6
<1>. QED
  BY <1>7, <1>8, <1>9, <1>10, <1>11, <1>12 DEF Planner

\* A step that leaves the planner where it is, and brings nobody to READY of whom
\* the planner is not going to be told.
Discreto ==
    /\ UNCHANGED <<plan, nuevo>>
    /\ \A u \in Range(cola_ready') : u \in SinAvisar' \/ u \in Range(cola_ready) \ SinAvisar
    /\ \/ cola_exec' = <<>> /\ plan # "devuelve"
       \/ /\ cola_exec # <<>> => cola_exec' # <<>>
          /\ cola_exec' # <<>> =>
                /\ cola_exec # <<>>
                /\ Hilo(cola_exec'[1]) = Hilo(cola_exec[1])
                /\ cola_exec'[1].Prioridad = cola_exec[1].Prioridad

LEMMA DiscretoSigue ==
    ASSUME IUrg, Discreto
    PROVE  IUrg'
<1>1. ASSUME NEW n, \A u \in Range(cola_ready) : u \in SinAvisar \/ n <= u.Prioridad
      PROVE  \A u \in Range(cola_ready') : u \in SinAvisar' \/ n <= u.Prioridad
  BY <1>1 DEF Discreto
<1>2. Menor(nuevo) => Menor(nuevo)'
  BY <1>1 DEF Discreto, Menor
<1>3. /\ plan' = plan /\ nuevo' = nuevo
      /\ plan = "devuelve" => cola_exec' # <<>> \/ cola_exec = <<>>
  BY DEF Discreto
<1>4. CASE cola_exec' = <<>> /\ plan # "devuelve"
  BY <1>2, <1>3, <1>4 DEF IUrg
<1>5. CASE cola_exec' = <<>> /\ cola_exec = <<>>
  <2>1. plan = "devuelve" => nuevo'.Prioridad <= cola_exec'[1].Prioridad
    BY <1>3, <1>5 DEF IUrg
  <2>. QED
    BY <1>2, <1>3, <1>5, <2>1 DEF IUrg
<1>6. CASE /\ cola_exec' # <<>> /\ cola_exec # <<>>
           /\ Hilo(cola_exec'[1]) = Hilo(cola_exec[1])
           /\ cola_exec'[1].Prioridad = cola_exec[1].Prioridad
  <2>1. Menor(cola_exec[1]) => Menor(cola_exec[1])'
    <3>1. ASSUME Menor(cola_exec[1])
          PROVE  \A u \in Range(cola_ready') :
                    u \in SinAvisar' \/ cola_exec'[1].Prioridad <= u.Prioridad
      <4>1. \A u \in Range(cola_ready) : u \in SinAvisar \/ cola_exec[1].Prioridad <= u.Prioridad
        BY <3>1 DEF Menor
      <4>. QED
        BY <1>1, <1>6, <4>1
    <3>. QED
      BY <3>1 DEF Menor
  <2>2. Hilo(nuevo)' = Hilo(nuevo) /\ Hilo(cola_exec[1])' = Hilo(cola_exec[1])
    BY <1>3, <1>6 DEF Hilo
  <2>. QED
    BY <1>2, <1>3, <1>6, <2>1, <2>2 DEF IUrg
<1>. QED
  BY <1>4, <1>5, <1>6 DEF Discreto

\* The queues of priorities do not change, and READY only loses.
LEMMA MultiSigue ==
    ASSUME IMulti, UNCHANGED <<perfil, colasMultinivel>>,
           Range(cola_ready') \subseteq Range(cola_ready),
           paso # "memoria" \/ UNCHANGED <<paso, otro>>
    PROVE  IMulti'
<1>1. Prioridades' = Prioridades /\ Algoritmo' = Algoritmo
  BY DEF Prioridades, Algoritmo
<1>. QED
  BY <1>1 DEF IMulti

\* Steps that touch neither READY nor the queues of priorities.
LEMMA AjenosUrgentes ==
    ASSUME IExec, IUrg, IMulti,
           \/ CPU \/ Verificar
           \/ EntraThreadCreate \/ EntraProcessCreate \/ RegistrarPCB \/ EntraFinalizar
           \/ ElegirAlQueTermina \/ AvisarMemoria \/ PasarAExit \/ NadaQueSoltar
           \/ SoltarSinPCB \/ SoltarMutex \/ Desbloquear \/ QuitarDeTIDCola
           \/ PedirVerificacion \/ EntraThreadJoin \/ PasarABlocked \/ VaciarExecPorJoin
           \/ MutexCreate \/ MutexLock \/ AnotarTID \/ EntraConEjecutando \/ Volcar
           \/ BorrarPCB \/ LiberarInt
    PROVE  IUrg' /\ IMulti'
<1> USE DEF colas, delPlan, datos, handler, ajenoAlHandler, En, Va, Responde, Panico
<1>1. /\ UNCHANGED <<perfil, colasMultinivel, cola_ready, plan, nuevo>>
      /\ paso \notin {"memoria", "envia", "enviaReady"} \/ UNCHANGED <<paso, otro>>
  <2>1. CASE CPU \/ Verificar
    BY <2>1 DEF CPU, Syscall, OtraInstruccion, FetchFalla, FinDeCiclo, CheckInterrupt,
                executionProces, Verificar
  <2>2. CASE EntraThreadCreate \/ EntraProcessCreate \/ RegistrarPCB \/ EntraFinalizar
             \/ ElegirAlQueTermina \/ AvisarMemoria \/ PasarAExit \/ NadaQueSoltar
             \/ SoltarSinPCB \/ SoltarMutex
    BY <2>2 DEF EntraThreadCreate, EntraProcessCreate, RegistrarPCB, EntraFinalizar,
                ElegirAlQueTermina, AvisarMemoria, PasarAExit, NadaQueSoltar,
                SoltarSinPCB, SoltarMutex
  <2>3. CASE Desbloquear \/ QuitarDeTIDCola \/ PedirVerificacion \/ EntraThreadJoin
             \/ PasarABlocked \/ VaciarExecPorJoin
    BY <2>3 DEF Desbloquear, QuitarDeTIDCola, PedirVerificacion, EntraThreadJoin,
                PasarABlocked, VaciarExecPorJoin
  <2>4. CASE MutexCreate \/ MutexLock \/ AnotarTID \/ EntraConEjecutando \/ Volcar
             \/ BorrarPCB \/ LiberarInt
    BY <2>4 DEF MutexCreate, MutexLock, AnotarTID, EntraConEjecutando, Volcar, BorrarPCB,
                LiberarInt
  <2>. QED
    BY <2>1, <2>2, <2>3, <2>4
<1>2. IMulti'
  BY <1>1, MultiSigue
<1>3. \A u \in Range(cola_ready') : u \in SinAvisar' \/ u \in Range(cola_ready) \ SinAvisar
  BY <1>1 DEF SinAvisar
<1>4. CASE cola_exec' = cola_exec
  BY <1>1, <1>2, <1>3, <1>4, DiscretoSigue DEF Discreto
<1>5. CASE VaciarExecPorJoin
  <2>1. cola_exec' = <<>> /\ plan # "devuelve"
    BY <1>5 DEF VaciarExecPorJoin, IExec, ConExec, Libre
  <2>. QED
    BY <1>1, <1>2, <1>3, <2>1, DiscretoSigue DEF Discreto
<1>6. CASE MutexLock /\ cola_exec' # cola_exec
  <2>1. cola_exec # <<>> /\ cola_exec' = [cola_exec EXCEPT ![1].Mutex = TRUE]
    BY <1>6 DEF MutexLock
  <2>2. PICK t : cola_exec = <<t>>
    BY <2>1 DEF IExec, UnoONinguno
  <2>3. cola_exec'[1] = [t EXCEPT !.Mutex = TRUE] /\ cola_exec' # <<>>
    BY <2>1, <2>2
  <2>4. /\ Hilo(cola_exec'[1]) = Hilo(cola_exec[1])
        /\ cola_exec'[1].Prioridad = cola_exec[1].Prioridad
    BY <2>2, <2>3 DEF Hilo
  <2>. QED
    BY <1>1, <1>2, <1>3, <2>1, <2>3, <2>4, DiscretoSigue DEF Discreto
<1>7. cola_exec' = cola_exec \/ VaciarExecPorJoin \/ MutexLock
  <2>1. CASE CPU \/ Verificar
    BY <2>1 DEF CPU, Syscall, OtraInstruccion, FetchFalla, FinDeCiclo, CheckInterrupt,
                executionProces, Verificar
  <2>2. CASE EntraThreadCreate \/ EntraProcessCreate \/ RegistrarPCB \/ EntraFinalizar
             \/ ElegirAlQueTermina \/ AvisarMemoria \/ PasarAExit \/ NadaQueSoltar
             \/ SoltarSinPCB \/ SoltarMutex
    BY <2>2 DEF EntraThreadCreate, EntraProcessCreate, RegistrarPCB, EntraFinalizar,
                ElegirAlQueTermina, AvisarMemoria, PasarAExit, NadaQueSoltar,
                SoltarSinPCB, SoltarMutex
  <2>3. CASE Desbloquear \/ QuitarDeTIDCola \/ PedirVerificacion \/ EntraThreadJoin
             \/ PasarABlocked \/ MutexCreate \/ AnotarTID \/ EntraConEjecutando \/ Volcar
             \/ BorrarPCB \/ LiberarInt
    BY <2>3 DEF Desbloquear, QuitarDeTIDCola, PedirVerificacion, EntraThreadJoin,
                PasarABlocked, MutexCreate, AnotarTID, EntraConEjecutando, Volcar,
                BorrarPCB, LiberarInt
  <2>. QED
    BY <2>1, <2>2, <2>3
<1>. QED
  BY <1>4, <1>5, <1>6, <1>7

\* The calls that bring a thread to READY tell the planner afterwards.
LEMMA LlegadasUrgentes ==
    ASSUME ITipos, IUrg, IMulti,
           PasarAReady \/ SolicitarEspacioHilos \/ Enviar \/ Encolar \/ EnviarConReady
    PROVE  IUrg' /\ IMulti'
<1> USE DEF colas, delPlan, datos, handler, ajenoAlHandler, En, Va, Responde
<1>0. PICK F : Reparto(F) /\ perfil \in Perfiles
  BY HayReparto
<1>1. cola_ready \in Seq(F) /\ otro \in F
  BY <1>0 DEF Reparto, EnCasa
<1>2. CASE PasarAReady
  <2>1. /\ UNCHANGED <<plan, nuevo, cola_exec, perfil, colasMultinivel, otro>>
        /\ paso = "listo" /\ paso' = "memoria" /\ cola_ready' = Append(cola_ready, otro)
    BY <1>2 DEF PasarAReady
  <2>2. Range(cola_ready') = Range(cola_ready) \cup {otro}
    BY <1>1, <2>1, RangoAppend
  <2>3. SinAvisar = {} /\ SinAvisar' = {otro}
    BY <2>1 DEF SinAvisar
  <2>4. IUrg'
    BY <2>1, <2>2, <2>3, DiscretoSigue DEF Discreto
  <2>5. IMulti'
    BY <2>1, <2>2 DEF IMulti, Algoritmo, Prioridades
  <2>. QED
    BY <2>4, <2>5
<1>3. CASE Encolar
  <2>1. /\ UNCHANGED <<plan, nuevo, cola_exec, perfil, otro>>
        /\ paso = "encolar" /\ paso' = "enviaReady" /\ cola_ready' = Append(cola_ready, otro)
        /\ colasMultinivel' = agregarTCB(otro)
    BY <1>3 DEF Encolar
  <2>2. IMulti' /\ Range(cola_ready') = Range(cola_ready) \cup {otro}
    BY <1>0, <1>1, <2>1, AgregarUrgente
  <2>3. SinAvisar = {} /\ SinAvisar' = {otro}
    BY <2>1 DEF SinAvisar
  <2>4. IUrg'
    BY <2>1, <2>2, <2>3, DiscretoSigue DEF Discreto
  <2>. QED
    BY <2>2, <2>4
<1>4. CASE SolicitarEspacioHilos
  <2>1. /\ UNCHANGED <<plan, nuevo, cola_exec, perfil, otro, cola_ready>>
        /\ paso = "memoria" /\ paso' = "envia" /\ colasMultinivel' = agregarTCB(otro)
    BY <1>4 DEF SolicitarEspacioHilos
  <2>2. SinAvisar = {otro} /\ SinAvisar' = {otro}
    BY <2>1 DEF SinAvisar
  <2>3. IUrg'
    BY <2>1, <2>2, DiscretoSigue DEF Discreto
  <2>4. CASE Algoritmo = "CMN"
    <3>1. /\ \A p \in Prioridades : \A u \in Range(colasMultinivel[p]) : u.Prioridad = p
          /\ \A u \in Range(cola_ready) : u = otro \/ u \in Range(colasMultinivel[u.Prioridad])
      BY <2>4 DEF IMulti
    <3>2. /\ colasMultinivel \in [Prioridades -> Seq(F)] /\ otro.Prioridad \in Prioridades
          /\ \A u \in F : u.Prioridad \in Prioridades
      BY <1>0, <1>1 DEF Reparto, EnCasa
    <3>3. \A p \in Prioridades :
             Range(colasMultinivel'[p]) = IF p = otro.Prioridad
                                          THEN Range(colasMultinivel[p]) \cup {otro}
                                          ELSE Range(colasMultinivel[p])
      <4>1. \A p \in Prioridades :
               colasMultinivel'[p] = IF p = otro.Prioridad
                                     THEN Append(colasMultinivel[p], otro) ELSE colasMultinivel[p]
        BY <2>1, <2>4, <3>2 DEF agregarTCB
      <4>2. \A p \in Prioridades :
               Range(Append(colasMultinivel[p], otro)) = Range(colasMultinivel[p]) \cup {otro}
        BY <1>1, <3>2, RangoAppend
      <4>. QED
        BY <4>1, <4>2
    <3>4. \A p \in Prioridades : \A u \in Range(colasMultinivel'[p]) : u.Prioridad = p
      BY <3>1, <3>3
    <3>5. ASSUME NEW u \in Range(cola_ready) PROVE u \in Range(colasMultinivel'[u.Prioridad])
      <4>1. u \in F
        BY <1>1 DEF Range
      <4>. QED
        BY <3>1, <3>2, <3>3, <4>1
    <3>6. Prioridades' = Prioridades /\ cola_ready' = cola_ready
      BY <2>1 DEF Prioridades
    <3>. QED
      BY <2>3, <3>4, <3>5, <3>6 DEF IMulti
  <2>5. CASE Algoritmo # "CMN"
    BY <2>1, <2>3, <2>5 DEF IMulti, Algoritmo
  <2>. QED
    BY <2>4, <2>5
<1>5. CASE Enviar \/ EnviarConReady
  <2>1. UNCHANGED <<perfil, colasMultinivel, cola_ready, otro>> /\ paso # "memoria"
    BY <1>5 DEF Enviar, EnviarConReady
  <2>2. IMulti'
    BY <2>1, MultiSigue
  <2>3. plan' \in {"fin", "elige", "interrumpe"}
    <3>1. canal \in Canales
      BY DEF ITipos, IPedido
    <3>. QED
      BY <1>5, <3>1 DEF Enviar, EnviarConReady, AlRecibir, Canales
  <2>. QED
    BY <2>2, <2>3 DEF IUrg
<1>. QED
  BY <1>2, <1>3, <1>4, <1>5

\* The calls that take threads out of the queues: under CMN there are none.
LEMMA BajasUrgentes ==
    ASSUME ITipos, IRutas, ConPrioridades, IUrg, IMulti,
           FiltrarReady \/ FiltrarMultinivel \/ MatarReady \/ MatarMultinivel
    PROVE  IUrg' /\ IMulti'
<1> USE DEF colas, delPlan, datos, ajenoAlHandler, En, Va, Responde, Panico
<1>0. PICK F : Reparto(F) /\ perfil \in Perfiles
  BY HayReparto
<1>1. /\ UNCHANGED <<plan, nuevo, cola_exec, perfil, otro>>
      /\ paso \in {"filtrar", "filtrarMulti", "matarReady", "matarMulti"}
  BY DEF FiltrarReady, FiltrarMultinivel, MatarReady, MatarMultinivel
<1>2. Algoritmo # "CMN"
  <2>1. pedido.op \in Bajas
    BY <1>1 DEF IRutas, Bajas
  <2>2. pedido.op \in perfil.Operaciones
    <3>1. pedido \in Instrucciones
      <4>1. pedido \in Instrucciones \cup {[op |-> "", arg |-> 0]}
        BY DEF ITipos, IPedido
      <4>2. ASSUME pedido = [op |-> "", arg |-> 0] PROVE pedido.op = ""
        BY <4>2
      <4>. QED
        BY <2>1, <4>1, <4>2 DEF Bajas
    <3>2. PICK o \in perfil.Operaciones : pedido \in [op : {o}, arg : Argumentos(o)]
      BY <3>1 DEF Instrucciones
    <3>. QED
      BY <3>2
  <2>. QED
    BY <2>1, <2>2 DEF ConPrioridades
<1>3. IMulti'
  BY <1>1, <1>2 DEF IMulti, Algoritmo
<1>4. Range(cola_ready') \subseteq Range(cola_ready)
  <2>1. cola_ready \in Seq(F)
    BY <1>0 DEF Reparto, EnCasa
  <2>2. \/ cola_ready' = cola_ready
        \/ cola_ready' = SinTID(cola_ready, pedido.arg)
        \/ cola_ready' = SinPID(cola_ready, yo.PID)
    BY DEF FiltrarReady, FiltrarMultinivel, MatarReady, MatarMultinivel
  <2>. QED
    BY <2>1, <2>2, FiltraDa DEF SinTID, SinPID
<1>5. SinAvisar = {}
  BY <1>1 DEF SinAvisar
<1>6. IUrg'
  BY <1>1, <1>4, <1>5, DiscretoSigue DEF Discreto
<1>. QED
  BY <1>3, <1>6

LEMMA PasoUrgencia ==
    ASSUME IExec, ITipos, IUrgencia, [Next]_vars
    PROVE  IUrgencia'
<1>1. IRutas'
  BY RutasSiguen DEF IUrgencia, ITipos
<1>2. ASSUME ConPrioridades'
      PROVE  IUrg' /\ IMulti'
  <2>1. ConPrioridades
    BY <1>2, PerfilFijo DEF ConPrioridades, Algoritmo
  <2>2. IRutas /\ IUrg /\ IMulti
    BY <2>1 DEF IUrgencia
  <2>3. CASE UNCHANGED vars
    <3>1. UNCHANGED <<perfil, plan, nuevo, paso, otro, cola_ready, cola_exec, colasMultinivel>>
      BY <2>3 DEF vars, colas, delPlan, handler, datos
    <3>2. SinAvisar' = SinAvisar
      BY <3>1 DEF SinAvisar
    <3>. QED
      BY <2>2, <3>1, <3>2, MultiSigue DEF IUrg, Menor
  <2>4. CASE CPU \/ Verificar
    BY <2>2, <2>4, AjenosUrgentes
  <2>5. CASE Planner
    BY <2>1, <2>2, <2>5, PlannerUrgente
  <2>6. CASE Handler
    BY <2>1, <2>2, <2>6, AjenosUrgentes, LlegadasUrgentes, BajasUrgentes DEF Handler
  <2>. QED
    BY <2>3, <2>4, <2>5, <2>6 DEF Next
<1>. QED
  BY <1>1, <1>2 DEF IUrgencia

LEMMA InicioUrgencia == Init => IUrgencia
<1> SUFFICES ASSUME Init PROVE IUrgencia
  OBVIOUS
<1>1. IRutas /\ IUrg
  BY DEF Init, IRutas, IUrg
<1>2. ASSUME Algoritmo = "CMN" PROVE IMulti
  <2> DEFINE h == TCB(0, 0, 0)
  <2>1. 0 \in Prioridades
    BY PerfilDa DEF Init
  <2>2. h.Prioridad = 0
    BY DEF TCB
  <2> HIDE DEF h
  <2>4. Range(<<h>>) = {h} /\ Range(<<>>) = {}
    <3>1. DOMAIN <<h>> = {1} /\ <<h>>[1] = h
      OBVIOUS
    <3>. QED
      BY <3>1 DEF Range
  <2>3. /\ cola_ready = <<h>>
        /\ \A p \in Prioridades : colasMultinivel[p] = IF p = 0 THEN <<h>> ELSE <<>>
    BY <1>2 DEF Init, h
  <2>. QED
    BY <2>1, <2>2, <2>3, <2>4 DEF IMulti
<1>3. IMulti
  BY <1>2 DEF IMulti
<1>. QED
  BY <1>1, <1>3 DEF IUrgencia

\* What the planner chose stays the most urgent until it is in EXEC, and then
\* until the next message: whoever arrives in between brings one.
THEOREM UrgenciaEnPie == Spec => []IUrgencia
<1>1. IExec /\ ITipos /\ IUrgencia /\ [Next]_vars => IUrgencia'
  BY PasoUrgencia
<1>. QED
  BY <1>1, InicioUrgencia, ExecEnPie, TiposEnPie, PTL DEF Spec

LEMMA UrgenciaDa == IExec /\ IUrgencia => (ConPrioridades => EjecutaElMasUrgente)
<1> SUFFICES ASSUME IExec, IUrgencia, ConPrioridades, EnReposo, cola_exec # <<>>,
                    NEW i \in DOMAIN cola_ready
             PROVE  cola_exec[1].Prioridad <= cola_ready[i].Prioridad
  BY DEF EjecutaElMasUrgente
<1>1. SinAvisar = {}
  BY DEF SinAvisar, EnReposo
<1>2. Menor(cola_exec[1])
  BY DEF IUrgencia, IUrg, IExec, SinNadie, EnReposo
<1>. QED
  BY <1>1, <1>2 DEF Menor, Range

\* At rest the thread in EXEC is as urgent as any in READY, with PRIORIDADES
\* whatever the programs do, and with CMN while they end and cancel no other
\* thread: then colasMultinivel loses threads that READY keeps.
THEOREM SiempreElMasUrgente == Spec => [](ConPrioridades => EjecutaElMasUrgente)
BY ExecEnPie, UrgenciaEnPie, UrgenciaDa, PTL

-----------------------------------------------------------------------------
(***************************************************************************)
(* The two versions of READY: under CMN, colasMultinivel has each thread   *)
(* once, and the same threads as cola_ready.                               *)
(***************************************************************************)

\* M, a queue for each priority, has each thread at most once.
UnaVez(M) ==
    \A p, q \in DOMAIN M : \A i \in DOMAIN M[p], j \in DOMAIN M[q] :
        Hilo(M[p][i]) = Hilo(M[q][j]) => p = q /\ i = j

HilosDe(M) == UNION {Hilos(M[p]) : p \in DOMAIN M}

LEMMA HilosAppend ==
    ASSUME NEW F, NEW q \in Seq(F), NEW t \in F
    PROVE  Hilos(Append(q, t)) = Hilos(q) \cup {Hilo(t)}
<1>1. Range(Append(q, t)) = Range(q) \cup {t}
  BY RangoAppend
<1>2. \A s : Hilos(s) = {Hilo(u) : u \in Range(s)}
  BY DEF Hilos, Range
<1>. QED
  BY <1>1, <1>2

LEMMA HilosSinHilo ==
    ASSUME NEW F, NEW q \in Seq(F), NEW h
    PROVE  Hilos(SinHilo(q, h)) = Hilos(q) \ {h}
<1>1. Range(SinHilo(q, h)) = {t \in Range(q) : Hilo(t) # h}
  BY FiltraDa DEF SinHilo
<1>2. \A s : Hilos(s) = {Hilo(u) : u \in Range(s)}
  BY DEF Hilos, Range
<1>. QED
  BY <1>1, <1>2

UnoMas(F, P, M, M2, p0, t) ==
    M \in [P -> Seq(F)] /\ p0 \in P /\ t \in F /\ M2 = [M EXCEPT ![p0] = Append(@, t)]

UnoMenos(F, P, M, M2, p0) ==
    M \in [P -> Seq(F)] /\ p0 \in P /\ M[p0] # <<>> /\ M2 = [M EXCEPT ![p0] = Tail(@)]

\* A thread that was in none of the queues goes to one of them.
LEMMA UnoMasUnaVez ==
    ASSUME NEW F, NEW P, NEW M, NEW M2, NEW p0, NEW t, UnoMas(F, P, M, M2, p0, t),
           UnaVez(M), Hilo(t) \notin HilosDe(M)
    PROVE  UnaVez(M2) /\ HilosDe(M2) = HilosDe(M) \cup {Hilo(t)}
<1>0. M \in [P -> Seq(F)] /\ t \in F /\ p0 \in P
  BY DEF UnoMas
<1> DEFINE N == [M EXCEPT ![p0] = Append(@, t)]
           h == Hilo(t)
<1>1. /\ DOMAIN M = P /\ DOMAIN N = P
      /\ \A p \in P : N[p] = IF p = p0 THEN Append(M[p0], t) ELSE M[p]
  BY <1>0
<1>2. \A p \in P : M[p] \in Seq(F) /\ h \notin Hilos(M[p])
  BY <1>0, <1>1 DEF HilosDe
<1>3. Hilos(Append(M[p0], t)) = Hilos(M[p0]) \cup {h}
  BY <1>0, <1>2, HilosAppend
<1>4. HilosDe(N) = HilosDe(M) \cup {h}
  <2>1. \A p \in P : Hilos(N[p]) = IF p = p0 THEN Hilos(M[p]) \cup {h} ELSE Hilos(M[p])
    BY <1>0, <1>1, <1>3
  <2> HIDE DEF N, h
  <2>. QED
    BY <1>0, <1>1, <2>1 DEF HilosDe
<1>5. \A p \in P : \A i \in DOMAIN N[p] :
         \/ i \in DOMAIN M[p] /\ N[p][i] = M[p][i] /\ Hilo(N[p][i]) # h
         \/ p = p0 /\ i = Len(M[p0]) + 1 /\ Hilo(N[p][i]) = h
  <2> SUFFICES ASSUME NEW p \in P, NEW i \in DOMAIN N[p]
               PROVE  \/ i \in DOMAIN M[p] /\ N[p][i] = M[p][i] /\ Hilo(N[p][i]) # h
                      \/ p = p0 /\ i = Len(M[p0]) + 1 /\ Hilo(N[p][i]) = h
    OBVIOUS
  <2>1. ASSUME i \in DOMAIN M[p], N[p][i] = M[p][i] PROVE Hilo(N[p][i]) # h
    BY <1>2, <2>1 DEF Hilos
  <2>2. CASE p # p0
    BY <1>1, <2>1, <2>2
  <2>3. CASE p = p0
    <3>1. /\ DOMAIN Append(M[p0], t) = 1 .. Len(M[p0]) + 1 /\ DOMAIN M[p0] = 1 .. Len(M[p0])
          /\ Len(M[p0]) \in Nat
          /\ Append(M[p0], t)[Len(M[p0]) + 1] = t
          /\ \A j \in 1 .. Len(M[p0]) : Append(M[p0], t)[j] = M[p0][j]
      BY <1>0, <1>2
    <3>2. N[p] = Append(M[p0], t)
      BY <1>1, <2>3
    <3> HIDE DEF N
    <3>3. i \in 1 .. Len(M[p0]) \/ i = Len(M[p0]) + 1
      BY <3>1, <3>2
    <3>. QED
      BY <2>1, <2>3, <3>1, <3>2, <3>3
  <2>. QED
    BY <2>2, <2>3
<1> HIDE DEF N, h
<1>6. UnaVez(N)
  <2> SUFFICES ASSUME NEW p \in P, NEW q \in P, NEW i \in DOMAIN N[p], NEW j \in DOMAIN N[q],
                      Hilo(N[p][i]) = Hilo(N[q][j])
               PROVE  p = q /\ i = j
    BY <1>1 DEF UnaVez
  <2>1. CASE Hilo(N[p][i]) = h
    BY <1>5, <2>1
  <2>2. CASE Hilo(N[p][i]) # h
    <3>1. /\ i \in DOMAIN M[p] /\ N[p][i] = M[p][i]
          /\ j \in DOMAIN M[q] /\ N[q][j] = M[q][j]
      BY <1>5, <2>2
    <3>. QED
      BY <1>1, <3>1 DEF UnaVez
  <2>. QED
    BY <2>1, <2>2
<1>. QED
  BY <1>4, <1>6 DEF N, h, UnoMas

\* The first thread of one of the queues leaves.
LEMMA UnoMenosUnaVez ==
    ASSUME NEW F, NEW P, NEW M, NEW M2, NEW p0, UnoMenos(F, P, M, M2, p0), UnaVez(M)
    PROVE  UnaVez(M2) /\ HilosDe(M2) = HilosDe(M) \ {Hilo(M[p0][1])}
<1>0. M \in [P -> Seq(F)] /\ p0 \in P /\ M[p0] # <<>>
  BY DEF UnoMenos
<1> DEFINE N == [M EXCEPT ![p0] = Tail(@)]
           t == M[p0][1]
<1>1. /\ DOMAIN M = P /\ DOMAIN N = P
      /\ \A p \in P : N[p] = IF p = p0 THEN Tail(M[p0]) ELSE M[p]
  BY <1>0
<1>2. /\ \A p \in P : M[p] \in Seq(F)
      /\ DOMAIN M[p0] = 1 .. Len(M[p0]) /\ Len(M[p0]) \in Nat /\ Len(M[p0]) >= 1
      /\ DOMAIN Tail(M[p0]) = 1 .. Len(M[p0]) - 1
      /\ \A i \in 1 .. Len(M[p0]) - 1 : Tail(M[p0])[i] = M[p0][i + 1]
  BY <1>0
\* Where each thread of N was in M.
<1> DEFINE Antes(p, i) == IF p = p0 THEN i + 1 ELSE i
<1>3. \A p \in P : \A i \in DOMAIN N[p] :
         Antes(p, i) \in DOMAIN M[p] /\ N[p][i] = M[p][Antes(p, i)] /\ (p = p0 => i >= 1 /\ i \in Nat)
  <2> HIDE DEF N
  <2>. QED
    BY <1>1, <1>2
<1>4. \A p \in P : \A i \in DOMAIN M[p] : ~(p = p0 /\ i = 1) =>
         \E j \in DOMAIN N[p] : N[p][j] = M[p][i]
  <2> SUFFICES ASSUME NEW p \in P, NEW i \in DOMAIN M[p], ~(p = p0 /\ i = 1)
               PROVE  \E j \in DOMAIN N[p] : N[p][j] = M[p][i]
    OBVIOUS
  <2>1. CASE p # p0
    BY <1>1, <2>1
  <2>2. CASE p = p0
    <3>1. i - 1 \in 1 .. Len(M[p0]) - 1 /\ (i - 1) + 1 = i
      BY <1>2, <2>2
    <3>2. N[p] = Tail(M[p0])
      BY <1>1, <2>2
    <3>3. Tail(M[p0])[i - 1] = M[p0][i]
      BY <1>2, <3>1
    <3> HIDE DEF N
    <3>. QED
      BY <1>2, <2>2, <3>1, <3>2, <3>3
  <2>. QED
    BY <2>1, <2>2
<1>7. 1 \in DOMAIN M[p0]
  BY <1>2
<1> HIDE DEF N, t
<1>5. UnaVez(N)
  <2> SUFFICES ASSUME NEW p \in P, NEW q \in P, NEW i \in DOMAIN N[p], NEW j \in DOMAIN N[q],
                      Hilo(N[p][i]) = Hilo(N[q][j])
               PROVE  p = q /\ i = j
    BY <1>1 DEF UnaVez
  <2>1. /\ Antes(p, i) \in DOMAIN M[p] /\ N[p][i] = M[p][Antes(p, i)]
        /\ Antes(q, j) \in DOMAIN M[q] /\ N[q][j] = M[q][Antes(q, j)]
    BY <1>3
  <2> HIDE DEF Antes
  <2>2. p = q /\ Antes(p, i) = Antes(q, j)
    BY <1>1, <2>1 DEF UnaVez
  <2>. QED
    BY <1>3, <2>2 DEF Antes
<1>6. HilosDe(N) = HilosDe(M) \ {Hilo(t)}
  <2>1. ASSUME NEW p \in P, NEW i \in DOMAIN N[p]
        PROVE  Hilo(N[p][i]) \in HilosDe(M) /\ Hilo(N[p][i]) # Hilo(t)
    <3>1. Antes(p, i) \in DOMAIN M[p] /\ N[p][i] = M[p][Antes(p, i)] /\ ~(p = p0 /\ Antes(p, i) = 1)
      BY <1>3
    <3> HIDE DEF Antes
    <3>2. Hilo(N[p][i]) \in HilosDe(M)
      BY <1>1, <3>1 DEF HilosDe, Hilos
    <3>3. Hilo(N[p][i]) # Hilo(t)
      BY <1>0, <1>1, <1>7, <3>1 DEF UnaVez, t
    <3>. QED
      BY <3>2, <3>3
  <2>2. ASSUME NEW p \in P, NEW i \in DOMAIN M[p], Hilo(M[p][i]) # Hilo(t)
        PROVE  Hilo(M[p][i]) \in HilosDe(N)
    <3>1. PICK j \in DOMAIN N[p] : N[p][j] = M[p][i]
      BY <1>4, <2>2 DEF t
    <3>2. Hilo(M[p][i]) \in Hilos(N[p])
      BY <3>1 DEF Hilos
    <3>. QED
      BY <1>1, <3>2 DEF HilosDe
  <2>3. /\ \A h \in HilosDe(N) : \E p \in P : \E i \in DOMAIN N[p] : h = Hilo(N[p][i])
        /\ \A h \in HilosDe(M) : \E p \in P : \E i \in DOMAIN M[p] : h = Hilo(M[p][i])
    BY <1>1 DEF HilosDe, Hilos
  <2>. QED
    BY <2>1, <2>2, <2>3
<1>. QED
  BY <1>5, <1>6 DEF N, t, UnoMenos

\* Programs whose calls neither take threads out of the queues nor bring back
\* those that were blocked.
SinBajas == perfil.Operaciones \cap (Bajas \cup {"MUTEX_LOCK"}) = {}

EnMulti == HilosDe(colasMultinivel)

\* The thread being created, from its append to READY to the other one.
SinClave == IF paso = "memoria" THEN {Hilo(otro)} ELSE {}

IReady ==
    /\ UnaVez(colasMultinivel)
    /\ EnMulti \cup SinClave \subseteq Hilos(cola_ready)
    /\ Hilos(cola_ready) \subseteq EnMulti \cup SinClave

\* Where the planner has in nuevo a thread that waits in no queue.
EnCamino ==
    {"compara", "devuelve", "avisa", "toma", "intDevuelve", "intAvisa", "intToma", "intEspera"}

\* Who is in EXEC, or on the way there, does not wait, but for the one that is
\* being replaced.
IFuera ==
    /\ plan \notin {"avisa", "toma"} /\ cola_exec # <<>> => Hilo(cola_exec[1]) \notin EnMulti
    /\ plan \in EnCamino => Hilo(nuevo) \notin EnMulti
    /\ plan = "devuelve" => Hilo(cola_exec[1]) # Hilo(nuevo)

\* A thread that is being created is nowhere else, and is not the first one.
INaciente ==
    paso \in {"listo", "memoria"} =>
        /\ Hilo(otro) \notin EnMulti \cup {<<0, 0>>}
        /\ cola_exec # <<>> => Hilo(cola_exec[1]) # Hilo(otro)
        /\ plan \in EnCamino => Hilo(nuevo) # Hilo(otro)

\* Nobody waits for a mutex, so nobody inherits one.
ISinHerencia ==
    /\ paso \notin {"anotarTID", "desbloquear", "encolar", "enviaReady", "quitarCola"}
    /\ \A k \in DOMAIN PCBS : PCBS[k].TIDCola = <<>>

ICopias ==
    Algoritmo = "CMN" /\ SinBajas => ISinHerencia /\ IReady /\ IFuera /\ INaciente

\* A choice leaves both versions of READY with the same threads, and what it
\* chooses in neither.
LEMMA EleccionSinCopias ==
    ASSUME NEW F, Reparto(F), perfil \in Perfiles, Algoritmo = "CMN", IReady, INaciente,
           cola_exec # <<>> => Hilo(cola_exec[1]) \notin EnMulti
    PROVE  LET e == planificar
           IN  /\ UnaVez(e.multinivel)
               /\ HilosDe(e.multinivel) \cup SinClave \subseteq Hilos(e.ready)
               /\ Hilos(e.ready) \subseteq HilosDe(e.multinivel) \cup SinClave
               /\ HilosDe(e.multinivel) \subseteq EnMulti
               /\ Hilo(e.tcb) \notin HilosDe(e.multinivel)
               /\ \/ Hilo(e.tcb) \in EnMulti \cup {<<0, 0>>}
                  \/ cola_exec # <<>> /\ e.tcb = cola_exec[1]
<1> USE DEF Nada, Eleccion
<1>1. /\ cola_ready \in Seq(F) /\ colasMultinivel \in [Prioridades -> Seq(F)]
      /\ Prioridades \subseteq Nat
  BY PerfilDa DEF Reparto, EnCasa
<1>2. /\ UnaVez(colasMultinivel) /\ EnMulti \cup SinClave \subseteq Hilos(cola_ready)
      /\ Hilos(cola_ready) \subseteq EnMulti \cup SinClave
  BY DEF IReady
<1>3. CASE cola_ready = <<>> \/ Claves_multinivel = {}
  <2>1. planificar = Nada(TCBVacio)
    BY <1>3 DEF planificar, planificarColas
  <2>2. EnMulti = {}
    <3>1. CASE cola_ready = <<>>
      BY <1>2, <3>1 DEF Hilos
    <3>2. CASE Claves_multinivel = {}
      <4>1. \A p \in Prioridades : Hilos(colasMultinivel[p]) = {}
        BY <3>2 DEF Claves_multinivel, Hilos
      <4>. QED
        BY <1>1, <4>1 DEF EnMulti, HilosDe
    <3>. QED
      BY <1>3, <3>1, <3>2
  <2>3. Hilo(TCBVacio) = <<0, 0>>
    BY DEF TCBVacio, Hilo
  <2>4. /\ planificar.tcb = TCBVacio /\ planificar.ready = cola_ready
        /\ planificar.multinivel = colasMultinivel
    BY <2>1
  <2>. QED
    BY <1>2, <2>2, <2>3, <2>4 DEF EnMulti
<1>4. CASE ~(cola_ready = <<>> \/ Claves_multinivel = {})
  <2> DEFINE m == menorClave
             t == colasMultinivel[m][1]
             r == SinHilo(cola_ready, Hilo(t))
             N == [colasMultinivel EXCEPT ![m] = Tail(@)]
  <2>1. m \in Prioridades /\ colasMultinivel[m] # <<>>
    BY <1>1, <1>4, menorClaveDa DEF Claves_multinivel
  <2>2. planificar = IF Sigue(t) THEN Nada(cola_exec[1]) ELSE Eleccion(t, r, N, FALSE)
    BY <1>4 DEF planificar, planificarColas
  <2>3. Hilo(t) \in EnMulti
    <3>1. 1 \in DOMAIN colasMultinivel[m]
      BY <1>1, <2>1
    <3>2. Hilo(t) \in Hilos(colasMultinivel[m])
      BY <3>1 DEF Hilos
    <3>. QED
      BY <1>1, <2>1, <3>2 DEF EnMulti, HilosDe
  <2>4. Hilos(r) = Hilos(cola_ready) \ {Hilo(t)}
    <3> HIDE DEF t
    <3>. QED
      BY <1>1, HilosSinHilo
  <2>5. UnaVez(N) /\ HilosDe(N) = EnMulti \ {Hilo(t)}
    <3>1. UnaVez(N) /\ HilosDe(N) = HilosDe(colasMultinivel) \ {Hilo(t)}
      <4>1. UnoMenos(F, Prioridades, colasMultinivel, N, m)
        BY <1>1, <2>1 DEF UnoMenos
      <4> HIDE DEF m, N
      <4>. QED
        BY <1>2, <4>1, UnoMenosUnaVez
    <3>. QED
      BY <3>1 DEF EnMulti
  <2>6. Hilo(t) \notin SinClave
    BY <2>3 DEF SinClave, INaciente
  <2> HIDE DEF m, t, r, N
  <2>7. CASE Sigue(t)
    <3>1. /\ planificar.tcb = cola_exec[1] /\ planificar.ready = cola_ready
          /\ planificar.multinivel = colasMultinivel /\ cola_exec # <<>>
      BY <2>2, <2>7 DEF Sigue
    <3>. QED
      BY <1>2, <3>1 DEF EnMulti
  <2>8. CASE ~Sigue(t)
    <3>1. planificar.tcb = t /\ planificar.ready = r /\ planificar.multinivel = N
      BY <2>2, <2>8
    <3>. QED
      BY <1>2, <2>3, <2>4, <2>5, <2>6, <3>1
  <2>. QED
    BY <2>7, <2>8
<1>. QED
  BY <1>3, <1>4

\* A thread goes to both versions of READY.
LEMMA AgregarSinCopias ==
    ASSUME NEW F, Reparto(F), Algoritmo = "CMN", UnaVez(colasMultinivel), NEW t \in F,
           Hilo(t) \notin EnMulti, colasMultinivel' = agregarTCB(t)
    PROVE  UnaVez(colasMultinivel') /\ HilosDe(colasMultinivel') = EnMulti \cup {Hilo(t)}
<1>1. colasMultinivel \in [Prioridades -> Seq(F)] /\ t.Prioridad \in Prioridades
  BY DEF Reparto, EnCasa
<1>2. colasMultinivel' = [colasMultinivel EXCEPT ![t.Prioridad] = Append(@, t)]
  BY DEF agregarTCB
<1>3. UnoMas(F, Prioridades, colasMultinivel, colasMultinivel', t.Prioridad, t)
  BY <1>1, <1>2 DEF UnoMas
<1>. QED
  BY <1>3, UnoMasUnaVez DEF EnMulti

\* A thread that is being created has a TID, or a PID, that no other has.
LEMMA NacienteNuevo ==
    ASSUME ITipos, EntraThreadCreate \/ EntraProcessCreate, paso' = "listo"
    PROVE  \E pr : /\ EsReparto(pr) /\ EnCasa(FichasDe(pr))
                   /\ Hilo(otro') \notin DOMAIN pr
<1>1. PICK pr : EsReparto(pr) /\ EnCasa(FichasDe(pr))
  BY DEF ITipos, IFichas
<1>2. IPCBS /\ PCBS \in Seq(Tabla)
  BY DEF ITipos, IPCBS
<1> DEFINE k == cola_exec[1].PID + 1
<1>3. CASE EntraThreadCreate
  <2>1. k \in DOMAIN PCBS /\ otro' = TCB(PCBS[k].ID, TIDSiguiente(PCBS[k]), pedido.arg)
    BY <1>3 DEF EntraThreadCreate, Responde
  <2> DEFINE T == PCBS[k].TIDS
  <2>2. PCBS[k] \in Tabla /\ T # <<>> /\ \A i \in DOMAIN T : T[i] = i - 1
    BY <1>2, <2>1 DEF IPCBS
  <2>3. T \in Seq(Tids)
    BY <2>2 DEF Tabla
  <2>4. Len(T) \in Nat /\ Len(T) # 0 /\ DOMAIN T = 1 .. Len(T)
    BY <2>2, <2>3
  <2>5. TIDSiguiente(PCBS[k]) = Len(T)
    BY <2>2, <2>4 DEF TIDSiguiente, Last
  <2>6. Hilo(otro') = <<PCBS[k].ID, Len(T)>>
    BY <2>1, <2>5 DEF Hilo, TCB
  <2>7. <<PCBS[k].ID, Len(T)>> \notin DOMAIN pr
    <3>1. \A h \in DOMAIN pr : h[1] = PCBS[k].ID => h[2] < Len(T)
      BY <1>1, <2>1 DEF EsReparto
    <3>. QED
      BY <2>4, <3>1
  <2>. QED
    BY <1>1, <2>6, <2>7
<1>4. CASE EntraProcessCreate
  <2>1. Hilo(otro') = <<PCB_ID + 1, 0>>
    BY <1>4 DEF EntraProcessCreate, Hilo, TCB
  <2>2. PCB_ID \in Nat
    BY <1>2 DEF IPCBS, Pids
  <2>3. \A h \in DOMAIN pr : h[1] <= PCB_ID
    BY <1>1 DEF EsReparto
  <2>. QED
    BY <1>1, <2>1, <2>2, <2>3
<1>. QED
  BY <1>3, <1>4

\* A step that touches neither version of READY, nor the planner, and at most
\* empties cola_exec.
Quieto ==
    /\ UNCHANGED <<cola_ready, colasMultinivel, plan, nuevo>>
    /\ cola_exec' = cola_exec \/ (cola_exec' = <<>> /\ plan # "devuelve")
    /\ \/ UNCHANGED <<paso, otro>>
       \/ paso # "memoria" /\ paso' \notin {"listo", "memoria"}

LEMMA QuietoSinCopias ==
    ASSUME IReady, IFuera, INaciente, Quieto
    PROVE  IReady' /\ IFuera' /\ INaciente'
<1> USE DEF Quieto
<1>1. EnMulti' = EnMulti /\ SinClave' = SinClave
  BY DEF EnMulti, SinClave, Hilo
<1>2. IReady'
  BY <1>1 DEF IReady
<1>3. Hilo(nuevo)' = Hilo(nuevo) /\ Hilo(otro)' = Hilo(otro')
  BY DEF Hilo
<1>4. cola_exec' # <<>> => cola_exec # <<>> /\ Hilo(cola_exec[1])' = Hilo(cola_exec[1])
  BY DEF Hilo
<1>5. IFuera'
  <2>1. plan = "devuelve" => Hilo(cola_exec[1])' = Hilo(cola_exec[1])
    BY DEF Hilo
  <2>. QED
    BY <1>1, <1>3, <1>4, <2>1 DEF IFuera
<1>6. INaciente'
  BY <1>1, <1>3, <1>4 DEF INaciente
<1>. QED
  BY <1>2, <1>5, <1>6

\* The planner chooses a thread that waits, or goes on with the one in EXEC.
LEMMA PlannerSinCopias ==
    ASSUME IExec, ITipos, Algoritmo = "CMN", IReady, IFuera, INaciente, Planner
    PROVE  IReady' /\ IFuera' /\ INaciente'
<1>1. PICK F : Reparto(F) /\ perfil \in Perfiles
  BY HayReparto
<1>2. UNCHANGED <<perfil, paso, otro>>
  BY DEF Planner, VaciarExec, ElegirSiguiente, Ejecutar, ElegirDesalojo, Comparar,
         Devolver, notifCPUInterruption, Desalojar, Interrumpir, DevolverInterrumpido,
         ElegirInterrumpido, TomarIntProcesada, EsperarCPU, EjecutarInterrumpido,
         ajenoAlPlan, handler, datos
<1>3. SinClave' = SinClave /\ Hilo(otro)' = Hilo(otro)
  BY <1>2 DEF SinClave, Hilo
<1>4. /\ cola_exec \in Seq(F) /\ nuevo \in F /\ cola_ready \in Seq(F)
      /\ cola_exec # <<>> => cola_exec[1] \in F
  BY <1>1 DEF Reparto, EnCasa
<1> USE DEF De, EnPlan
\* The choices.
<1>5. ASSUME Elige(planificar), cola_exec # <<>> => Hilo(cola_exec[1]) \notin EnMulti
      PROVE  /\ IReady' /\ EnMulti' \subseteq EnMulti /\ Hilo(nuevo') \notin EnMulti'
             /\ \/ Hilo(nuevo') \in EnMulti \cup {<<0, 0>>}
                \/ cola_exec # <<>> /\ nuevo' = cola_exec[1]
  <2>1. /\ nuevo' = planificar.tcb /\ cola_ready' = planificar.ready
        /\ colasMultinivel' = planificar.multinivel
    BY <1>5 DEF Elige
  <2>2. /\ UnaVez(colasMultinivel')
        /\ HilosDe(colasMultinivel') \cup SinClave \subseteq Hilos(cola_ready')
        /\ Hilos(cola_ready') \subseteq HilosDe(colasMultinivel') \cup SinClave
        /\ HilosDe(colasMultinivel') \subseteq EnMulti
        /\ Hilo(nuevo') \notin HilosDe(colasMultinivel')
        /\ \/ Hilo(nuevo') \in EnMulti \cup {<<0, 0>>}
           \/ cola_exec # <<>> /\ nuevo' = cola_exec[1]
    BY <1>1, <1>5, <2>1, EleccionSinCopias
  <2>. QED
    BY <1>3, <2>2 DEF IReady, EnMulti
\* The thread goes to both versions of READY.
<1>6. ASSUME NEW t \in F, Hilo(t) \notin EnMulti, cola_ready' = Append(cola_ready, t),
             colasMultinivel' = agregarTCB(t)
      PROVE  IReady' /\ EnMulti' = EnMulti \cup {Hilo(t)}
  <2>1. /\ UnaVez(colasMultinivel')
        /\ HilosDe(colasMultinivel') = EnMulti \cup {Hilo(t)}
    BY <1>1, <1>6, AgregarSinCopias DEF IReady
  <2>2. Hilos(cola_ready') = Hilos(cola_ready) \cup {Hilo(t)}
    BY <1>4, <1>6, HilosAppend
  <2>. QED
    BY <1>3, <2>1, <2>2 DEF IReady, EnMulti
\* Steps that leave READY alone.
<1>7. ASSUME UNCHANGED <<cola_ready, colasMultinivel>>
      PROVE  IReady' /\ EnMulti' = EnMulti
  <2>1. EnMulti' = EnMulti
    BY <1>7 DEF EnMulti
  <2>. QED
    BY <1>3, <1>7, <2>1 DEF IReady
<1>8. CASE VaciarExec
  <2>1. cola_exec' = <<>> /\ plan' = "finElige" /\ UNCHANGED <<cola_ready, colasMultinivel, nuevo>>
    BY <1>8 DEF VaciarExec
  <2>. QED
    BY <1>2, <1>3, <1>7, <2>1 DEF IFuera, INaciente, EnCamino
<1>9. CASE ElegirSiguiente
  <2>1. Elige(planificar) /\ plan = "finElige" /\ cola_exec = <<>>
    BY <1>9 DEF ElegirSiguiente, IExec, SinNadie
  <2>2. CASE plan' = "envia" /\ cola_exec' = Append(cola_exec, nuevo')
    <3>1. Hilo(cola_exec[1])' = Hilo(nuevo')
      <4>1. cola_exec'[1] = nuevo'
        BY <2>1, <2>2
      <4>. QED
        BY <4>1 DEF Hilo
    <3>. QED
      BY <1>2, <1>3, <1>5, <2>1, <2>2, <3>1 DEF IFuera, INaciente, EnCamino
  <2>3. CASE plan' = "atascado" /\ cola_exec' = cola_exec
    BY <1>2, <1>3, <1>5, <2>1, <2>3 DEF IFuera, INaciente, EnCamino
  <2>. QED
    BY <1>9, <2>2, <2>3 DEF ElegirSiguiente
<1>10. CASE ElegirDesalojo
  <2>1. Elige(planificar) /\ cola_exec' = cola_exec /\ plan = "elige" /\ plan' = "compara"
    BY <1>10 DEF ElegirDesalojo
  <2>2. cola_exec # <<>> => Hilo(cola_exec[1]) \notin EnMulti
    BY <2>1 DEF IFuera
  <2>3. Hilo(nuevo)' = Hilo(nuevo') /\ Hilo(cola_exec[1])' = Hilo(cola_exec[1])
    BY <2>1 DEF Hilo
  <2>. QED
    BY <1>2, <1>3, <1>5, <2>1, <2>2, <2>3 DEF IFuera, INaciente
<1>11. CASE Comparar
  <2>1. /\ UNCHANGED <<cola_ready, colasMultinivel, cola_exec, nuevo>> /\ plan = "compara"
        /\ \/ plan' = "espera"
           \/ plan' = "devuelve" /\ Hilo(cola_exec[1]) # Hilo(nuevo)
    BY <1>11 DEF Comparar, colas, SinDesalojo
  <2>2. Hilo(nuevo)' = Hilo(nuevo) /\ Hilo(cola_exec[1])' = Hilo(cola_exec[1])
    BY <2>1 DEF Hilo
  <2>. QED
    BY <1>2, <1>3, <1>7, <2>1, <2>2 DEF IFuera, INaciente, EnCamino
<1>12. CASE Devolver
  <2>1. /\ UNCHANGED <<cola_exec, nuevo>> /\ plan = "devuelve" /\ plan' = "avisa"
        /\ cola_ready' = Append(cola_ready, cola_exec[1])
        /\ colasMultinivel' = agregarTCB(cola_exec[1])
    BY <1>12 DEF Devolver
  <2>2. cola_exec # <<>>
    BY <2>1 DEF IExec, ConAlguien
  <2>3. Hilo(cola_exec[1]) \notin EnMulti /\ Hilo(cola_exec[1]) # Hilo(nuevo)
    BY <2>1, <2>2 DEF IFuera
  <2>4. IReady' /\ EnMulti' = EnMulti \cup {Hilo(cola_exec[1])}
    BY <1>4, <1>6, <2>1, <2>2, <2>3
  <2>5. Hilo(nuevo)' = Hilo(nuevo) /\ Hilo(cola_exec[1])' = Hilo(cola_exec[1])
    BY <2>1 DEF Hilo
  <2>. QED
    BY <1>2, <1>3, <2>1, <2>2, <2>3, <2>4, <2>5 DEF IFuera, INaciente, EnCamino
<1>13. CASE notifCPUInterruption \/ TomarIntProcesada
  <2>1. /\ UNCHANGED <<cola_ready, colasMultinivel, cola_exec, nuevo>>
        /\ \/ plan = "avisa" /\ plan' = "toma"
           \/ plan = "intAvisa" /\ plan' = "intToma"
           \/ plan = "intToma" /\ plan' = "intEspera"
    BY <1>13 DEF notifCPUInterruption, TomarIntProcesada, colas
  <2>2. Hilo(nuevo)' = Hilo(nuevo) /\ Hilo(cola_exec[1])' = Hilo(cola_exec[1])
    BY <2>1 DEF Hilo
  <2>. QED
    BY <1>2, <1>3, <1>7, <2>1, <2>2 DEF IFuera, INaciente, EnCamino
<1>14. CASE Desalojar \/ EsperarCPU
  <2>1. /\ UNCHANGED <<cola_ready, colasMultinivel, nuevo>> /\ cola_exec' = <<nuevo>>
        /\ plan \in {"toma", "intEspera"} /\ plan' \in {"envia", "intEnvia"}
    <3>1. CASE Desalojar
      BY <3>1 DEF Desalojar
    <3>2. CASE EsperarCPU
      <4>1. cola_exec = <<>> /\ cola_exec' = Append(cola_exec, nuevo)
        BY <3>2 DEF EsperarCPU, IExec, SinNadie
      <4>2. cola_exec' = <<nuevo>>
        BY <4>1
      <4>. QED
        BY <3>2, <4>2 DEF EsperarCPU
    <3>. QED
      BY <1>14, <3>1, <3>2
  <2>2. Hilo(cola_exec[1])' = Hilo(nuevo)
    <3>1. cola_exec'[1] = nuevo
      BY <2>1
    <3>. QED
      BY <3>1 DEF Hilo
  <2>. QED
    BY <1>2, <1>3, <1>7, <2>1, <2>2 DEF IFuera, INaciente, EnCamino
<1>15. CASE Interrumpir
  <2>1. /\ UNCHANGED <<cola_ready, colasMultinivel>> /\ cola_exec' = <<>> /\ plan = "interrumpe"
        /\ \/ plan' = "intElige"
           \/ cola_exec # <<>> /\ plan' = "intDevuelve" /\ nuevo' = cola_exec[1]
    BY <1>15 DEF Interrumpir
  <2>2. plan' = "intDevuelve" => Hilo(nuevo)' = Hilo(cola_exec[1])
    BY <2>1 DEF Hilo
  <2>. QED
    BY <1>2, <1>3, <1>7, <2>1, <2>2 DEF IFuera, INaciente, EnCamino
<1>16. CASE DevolverInterrumpido
  <2>1. /\ UNCHANGED <<cola_exec, nuevo>> /\ plan = "intDevuelve" /\ plan' = "intElige"
        /\ cola_ready' = Append(cola_ready, nuevo) /\ colasMultinivel' = agregarTCB(nuevo)
    BY <1>16 DEF DevolverInterrumpido
  <2>2. cola_exec = <<>>
    BY <2>1 DEF IExec, SinNadie
  <2>3. Hilo(nuevo) \notin EnMulti
    BY <2>1 DEF IFuera, EnCamino
  <2>4. IReady' /\ EnMulti' = EnMulti \cup {Hilo(nuevo)}
    BY <1>4, <1>6, <2>1, <2>3
  <2>. QED
    BY <1>2, <1>3, <2>1, <2>2, <2>4 DEF IFuera, INaciente, EnCamino
<1>17. CASE ElegirInterrumpido
  <2>1. Elige(planificar) /\ cola_exec' = cola_exec /\ plan = "intElige" /\ plan' = "intAvisa"
    BY <1>17 DEF ElegirInterrumpido
  <2>2. cola_exec = <<>>
    BY <2>1 DEF IExec, SinNadie
  <2>3. Hilo(nuevo)' = Hilo(nuevo')
    BY DEF Hilo
  <2>. QED
    BY <1>2, <1>3, <1>5, <2>1, <2>2, <2>3 DEF IFuera, INaciente
<1>18. CASE Ejecutar \/ EjecutarInterrumpido
  <2>1. /\ UNCHANGED <<cola_ready, colasMultinivel, cola_exec, nuevo>>
        /\ plan \in {"envia", "intEnvia"} /\ plan' = "espera"
    BY <1>18 DEF Ejecutar, EjecutarInterrumpido, colas
  <2>2. Hilo(cola_exec[1])' = Hilo(cola_exec[1])
    BY <2>1 DEF Hilo
  <2>. QED
    BY <1>2, <1>3, <1>7, <2>1, <2>2 DEF IFuera, INaciente, EnCamino
<1>. QED
  BY <1>8, <1>9, <1>10, <1>11, <1>12, <1>13, <1>14, <1>15, <1>16, <1>17, <1>18 DEF Planner

\* The call in progress is one of those of the programs.
LEMMA LlamadaDelPerfil ==
    ASSUME ITipos
    PROVE  pedido.op \in perfil.Operaciones \cup {""}
<1>1. pedido \in Instrucciones \cup {[op |-> "", arg |-> 0]}
  BY DEF ITipos, IPedido
<1>2. CASE pedido = [op |-> "", arg |-> 0]
  BY <1>2
<1>3. CASE pedido \in Instrucciones
  <2>1. PICK o \in perfil.Operaciones : pedido \in [op : {o}, arg : Argumentos(o)]
    BY <1>3 DEF Instrucciones
  <2>. QED
    BY <2>1
<1>. QED
  BY <1>1, <1>2, <1>3

\* The calls that programs without Bajas do not make.
LEMMA LlamadasExcluidas ==
    ASSUME ITipos, IRutas, SinBajas
    PROVE  /\ pedido.op \notin Bajas \cup {"MUTEX_LOCK"}
           /\ paso \notin {"filtrar", "filtrarMulti", "volcar", "matarPCB", "matarReady",
                           "matarMulti"}
<1>1. pedido.op \notin Bajas \cup {"MUTEX_LOCK"}
  BY LlamadaDelPerfil DEF SinBajas, Bajas
<1>. QED
  BY <1>1 DEF IRutas, Bajas

\* Calls that do not bring a thread to READY.
LEMMA AjenosSinCopias ==
    ASSUME IExec, ITipos, IRutas, SinBajas, ISinHerencia, IReady, IFuera, INaciente,
           \/ CPU \/ Verificar
           \/ EntraThreadCreate /\ paso' # "listo"
           \/ EntraProcessCreate /\ paso' # "listo"
           \/ RegistrarPCB \/ EntraFinalizar
           \/ ElegirAlQueTermina \/ AvisarMemoria \/ FiltrarReady \/ FiltrarMultinivel
           \/ PasarAExit \/ NadaQueSoltar
           \/ SoltarSinPCB \/ SoltarMutex \/ Desbloquear \/ Encolar \/ EnviarConReady
           \/ QuitarDeTIDCola
           \/ PedirVerificacion \/ EntraThreadJoin \/ PasarABlocked \/ VaciarExecPorJoin
           \/ MutexCreate \/ MutexLock \/ AnotarTID \/ EntraConEjecutando \/ Volcar
           \/ BorrarPCB \/ MatarReady \/ MatarMultinivel \/ LiberarInt
    PROVE  IReady' /\ IFuera' /\ INaciente'
<1> USE DEF colas, delPlan, datos, handler, ajenoAlHandler, En, Va, Es, Responde, Panico
<1>0. /\ pedido.op \notin Bajas \cup {"MUTEX_LOCK"}
      /\ paso \notin {"filtrar", "filtrarMulti", "volcar", "matarPCB", "matarReady",
                      "matarMulti", "anotarTID", "desbloquear", "encolar", "enviaReady",
                      "quitarCola"}
  BY LlamadasExcluidas DEF ISinHerencia
<1>1. CASE CPU \/ Verificar
  <2>1. Quieto
    BY <1>1 DEF Quieto, CPU, Syscall, OtraInstruccion, FetchFalla, FinDeCiclo, CheckInterrupt,
                executionProces, Verificar
  <2>. QED
    BY <2>1, QuietoSinCopias
<1>2. CASE (EntraThreadCreate /\ paso' # "listo") \/ (EntraProcessCreate /\ paso' # "listo")
           \/ RegistrarPCB \/ EntraFinalizar
           \/ ElegirAlQueTermina \/ AvisarMemoria \/ PasarAExit \/ NadaQueSoltar
           \/ SoltarSinPCB \/ SoltarMutex
  <2>1. Quieto
    BY <1>2 DEF Quieto, EntraThreadCreate, EntraProcessCreate, RegistrarPCB, EntraFinalizar,
                ElegirAlQueTermina, AvisarMemoria, PasarAExit, NadaQueSoltar,
                SoltarSinPCB, SoltarMutex
  <2>. QED
    BY <2>1, QuietoSinCopias
<1>3. CASE PedirVerificacion \/ EntraThreadJoin \/ MutexCreate \/ EntraConEjecutando
           \/ LiberarInt
  <2>1. Quieto
    BY <1>3 DEF Quieto, PedirVerificacion, EntraThreadJoin, MutexCreate, EntraConEjecutando,
                LiberarInt
  <2>. QED
    BY <2>1, QuietoSinCopias
<1>4. CASE PasarABlocked
  <2>1. paso' \notin {"listo", "memoria"}
    <3>1. pedido.op \in DOMAIN TrasBloquear
      BY <1>4 DEF PasarABlocked, ITipos, IPedido
    <3>. QED
      BY <1>4, <3>1, Rutas DEF PasarABlocked
  <2>2. Quieto
    BY <1>4, <2>1 DEF Quieto, PasarABlocked
  <2>. QED
    BY <2>2, QuietoSinCopias
<1>5. CASE VaciarExecPorJoin
  <2>1. plan # "devuelve"
    BY <1>5 DEF VaciarExecPorJoin, IExec, ConExec, Libre
  <2>2. Quieto
    BY <1>5, <2>1 DEF Quieto, VaciarExecPorJoin
  <2>. QED
    BY <2>2, QuietoSinCopias
<1>6. CASE FiltrarReady \/ FiltrarMultinivel \/ Desbloquear \/ Encolar \/ EnviarConReady
           \/ QuitarDeTIDCola \/ MutexLock \/ AnotarTID \/ Volcar \/ BorrarPCB \/ MatarReady
           \/ MatarMultinivel
  BY <1>0, <1>6 DEF FiltrarReady, FiltrarMultinivel, Desbloquear, Encolar, EnviarConReady,
       QuitarDeTIDCola, MutexLock, AnotarTID, Volcar, BorrarPCB, MatarReady, MatarMultinivel
<1>. QED
  BY <1>1, <1>2, <1>3, <1>4, <1>5, <1>6

\* Calls that create a thread, and the messages to the planner.
LEMMA LlegadasSinCopias ==
    ASSUME ITipos, Algoritmo = "CMN", IReady, IFuera, INaciente, [Next]_vars,
           \/ EntraThreadCreate /\ paso' = "listo"
           \/ EntraProcessCreate /\ paso' = "listo"
           \/ PasarAReady \/ SolicitarEspacioHilos \/ Enviar
    PROVE  IReady' /\ IFuera' /\ INaciente'
<1> USE DEF colas, delPlan, datos, handler, ajenoAlHandler, En, Va, Es, Responde
<1>1. PICK F : Reparto(F) /\ perfil \in Perfiles
  BY HayReparto
<1>2. cola_ready \in Seq(F) /\ otro \in F
  BY <1>1 DEF Reparto, EnCasa
<1>3. CASE (EntraThreadCreate /\ paso' = "listo") \/ (EntraProcessCreate /\ paso' = "listo")
  <2>1. /\ UNCHANGED <<cola_ready, colasMultinivel, cola_exec, plan, nuevo>>
        /\ paso = "entra" /\ paso' = "listo"
    BY <1>3 DEF EntraThreadCreate, EntraProcessCreate
  <2>2. PICK pr : /\ EsReparto(pr) /\ EnCasa(FichasDe(pr))
                  /\ Hilo(otro') \notin DOMAIN pr
    BY <1>3, NacienteNuevo
  <2> DEFINE G == FichasDe(pr)
  <2>3. /\ \A t \in G : Hilo(t) \in DOMAIN pr
        /\ <<0, 0>> \in DOMAIN pr
    BY <2>2 DEF FichasDe, EsReparto
  <2>4. /\ nuevo \in G /\ (cola_exec # <<>> => cola_exec[1] \in G)
        /\ colasMultinivel \in [Prioridades -> Seq(G)]
    <3> HIDE DEF G
    <3>1. EnCasa(G)
      BY <2>2 DEF G
    <3>. QED
      BY <3>1 DEF EnCasa
  <2>5. EnMulti \subseteq DOMAIN pr
    <3> SUFFICES ASSUME NEW p \in Prioridades, NEW i \in DOMAIN colasMultinivel[p]
                 PROVE  Hilo(colasMultinivel[p][i]) \in DOMAIN pr
      BY <2>4 DEF EnMulti, HilosDe, Hilos
    <3>1. colasMultinivel[p][i] \in G
      <4> HIDE DEF G
      <4>. QED
        BY <2>4
    <3>. QED
      BY <2>3, <3>1
  <2>6. EnMulti' = EnMulti /\ SinClave = {} /\ SinClave' = {}
    BY <2>1 DEF EnMulti, SinClave
  <2>7. /\ Hilo(nuevo)' = Hilo(nuevo) /\ Hilo(otro)' = Hilo(otro')
        /\ Hilo(cola_exec[1])' = Hilo(cola_exec[1])
    BY <2>1 DEF Hilo
  <2>8. IReady' /\ IFuera'
    BY <2>1, <2>6, <2>7 DEF IReady, IFuera
  <2>9. INaciente'
    BY <2>1, <2>2, <2>3, <2>4, <2>5, <2>6, <2>7 DEF INaciente
  <2>. QED
    BY <2>8, <2>9
<1>4. CASE PasarAReady
  <2>1. /\ UNCHANGED <<plan, nuevo, cola_exec, colasMultinivel, otro>>
        /\ paso = "listo" /\ paso' = "memoria" /\ cola_ready' = Append(cola_ready, otro)
    BY <1>4 DEF PasarAReady
  <2>2. Hilos(cola_ready') = Hilos(cola_ready) \cup {Hilo(otro)}
    BY <1>2, <2>1, HilosAppend
  <2>3. /\ EnMulti' = EnMulti /\ SinClave = {} /\ SinClave' = {Hilo(otro)}
        /\ Hilo(nuevo)' = Hilo(nuevo) /\ Hilo(otro)' = Hilo(otro)
        /\ Hilo(cola_exec[1])' = Hilo(cola_exec[1])
    BY <2>1 DEF EnMulti, SinClave, Hilo
  <2>4. IReady'
    BY <2>1, <2>2, <2>3 DEF IReady
  <2>. QED
    BY <2>1, <2>3, <2>4 DEF IFuera, INaciente
<1>5. CASE SolicitarEspacioHilos
  <2>1. /\ UNCHANGED <<plan, nuevo, cola_exec, cola_ready, otro>>
        /\ paso = "memoria" /\ paso' = "envia" /\ colasMultinivel' = agregarTCB(otro)
    BY <1>5 DEF SolicitarEspacioHilos
  <2>2. /\ Hilo(otro) \notin EnMulti
        /\ cola_exec # <<>> => Hilo(cola_exec[1]) # Hilo(otro)
        /\ plan \in EnCamino => Hilo(nuevo) # Hilo(otro)
    BY <2>1 DEF INaciente
  <2>3. UnaVez(colasMultinivel') /\ HilosDe(colasMultinivel') = EnMulti \cup {Hilo(otro)}
    BY <1>1, <1>2, <2>1, <2>2, AgregarSinCopias DEF IReady
  <2>4. /\ SinClave = {Hilo(otro)} /\ SinClave' = {}
        /\ Hilo(nuevo)' = Hilo(nuevo) /\ Hilo(cola_exec[1])' = Hilo(cola_exec[1])
    BY <2>1 DEF SinClave, Hilo
  <2>5. EnMulti' = EnMulti \cup {Hilo(otro)}
    BY <2>3 DEF EnMulti
  <2>6. IReady'
    BY <2>1, <2>3, <2>4, <2>5 DEF IReady
  <2>. QED
    BY <2>1, <2>2, <2>4, <2>5, <2>6 DEF IFuera, INaciente
<1>6. CASE Enviar
  <2>1. /\ UNCHANGED <<cola_ready, colasMultinivel, cola_exec, nuevo, otro>>
        /\ paso = "envia" /\ plan = "espera"
    BY <1>6 DEF Enviar
  <2>2. plan' \in {"fin", "elige", "interrumpe"}
    <3>1. canal \in Canales
      BY DEF ITipos, IPedido
    <3>. QED
      BY <1>6, <3>1 DEF Enviar, AlRecibir, Canales
  <2>3. paso' \notin {"listo", "memoria"}
    BY <1>6, Rutas DEF Enviar
  <2>4. /\ EnMulti' = EnMulti /\ SinClave = {} /\ SinClave' = {}
        /\ Hilo(cola_exec[1])' = Hilo(cola_exec[1])
    BY <2>1, <2>3 DEF EnMulti, SinClave, Hilo
  <2>. QED
    BY <2>1, <2>2, <2>3, <2>4 DEF IReady, IFuera, INaciente, EnCamino
<1>. QED
  BY <1>3, <1>4, <1>5, <1>6

\* The calls after which a thread may wait for a mutex or be woken by a handler.
Llaman == {"MUTEX_LOCK", "DUMP_MEMORY", "PROCESS_EXIT", "SEGFAULT"}
SinEsperas == perfil.Operaciones \cap Llaman = {}

LEMMA SinHerenciaSigue ==
    ASSUME ITipos, IRutas, SinEsperas, ISinHerencia, [Next]_vars
    PROVE  ISinHerencia'
<1> USE DEF tablas, handler, ajenoAlPlan, En, Va, Es, Responde, Panico
<1>0. /\ pedido.op \notin Llaman
      /\ paso \notin {"volcar", "matarPCB", "matarReady", "matarMulti", "anotarTID",
                      "desbloquear", "encolar", "enviaReady", "quitarCola"}
      /\ \A k \in DOMAIN PCBS : PCBS[k].TIDCola = <<>>
  BY LlamadaDelPerfil DEF ISinHerencia, IRutas, SinEsperas, Llaman
<1>1. \A k \in DOMAIN PCBS : PCBS[k] \in Tabla
  BY DEF ITipos, IPCBS
<1>2. CASE UNCHANGED vars
  BY <1>2 DEF vars, ISinHerencia
<1>3. CASE CPU \/ Verificar
  BY <1>0, <1>3 DEF CPU, Syscall, OtraInstruccion, FetchFalla, FinDeCiclo, CheckInterrupt,
     executionProces, Verificar, ISinHerencia
<1>4. CASE Planner
  BY <1>0, <1>4 DEF Planner, VaciarExec, ElegirSiguiente, Ejecutar, ElegirDesalojo, Comparar,
     Devolver, notifCPUInterruption, Desalojar, Interrumpir, DevolverInterrumpido,
     ElegirInterrumpido, TomarIntProcesada, EsperarCPU, EjecutarInterrumpido, ISinHerencia
<1>5. CASE EntraThreadCreate
  <2>1. paso' \in {"libre", "listo"}
    BY <1>5 DEF EntraThreadCreate
  <2>2. ASSUME NEW k \in DOMAIN PCBS, NEW x,
               PCBS' = [PCBS EXCEPT ![k].TIDS = x]
        PROVE  \A j \in DOMAIN PCBS' : PCBS'[j].TIDCola = <<>>
    BY <1>0, <1>1, <2>2 DEF Tabla
  <2>3. \/ PCBS' = PCBS
        \/ \E k \in DOMAIN PCBS : \E x : PCBS' = [PCBS EXCEPT ![k].TIDS = x]
    BY <1>5 DEF EntraThreadCreate
  <2>. QED
    BY <1>0, <2>1, <2>2, <2>3 DEF ISinHerencia
<1>6. CASE RegistrarPCB
  <2>1. paso' = "libre" /\ PCBS' = Append(PCBS, crearPCB(otro.PID, <<0>>))
    BY <1>6 DEF RegistrarPCB
  <2> DEFINE c == crearPCB(otro.PID, <<0>>)
  <2>2. c.TIDCola = <<>>
    BY DEF crearPCB
  <2>3. PCBS \in Seq(Tabla) /\ PCBS' = Append(PCBS, c)
    BY <2>1 DEF ITipos, IPCBS
  <2> HIDE DEF c
  <2>4. ASSUME NEW k \in DOMAIN PCBS' PROVE PCBS'[k].TIDCola = <<>>
    <3>1. (k \in DOMAIN PCBS /\ PCBS'[k] = PCBS[k]) \/ PCBS'[k] = c
      BY <2>3
    <3>. QED
      BY <1>0, <2>2, <3>1
  <2>. QED
    BY <2>1, <2>4 DEF ISinHerencia
<1>7. CASE SoltarMutex
  <2>1. ElPCB \in DOMAIN PCBS
    BY <1>7 DEF SoltarMutex, HayMutex, HayPCB
  <2>2. PCBS' = Status(ElPCB, "Libre") /\ paso' \in {"libre", "verificar"}
    BY <1>0, <1>7, <2>1 DEF SoltarMutex
  <2>3. ASSUME NEW k \in DOMAIN PCBS' PROVE PCBS'[k].TIDCola = <<>>
    BY <1>0, <1>1, <2>2 DEF Status, Tabla
  <2>. QED
    BY <2>2, <2>3 DEF ISinHerencia
<1>8. CASE MutexCreate
  <2>1. paso' = "libre"
    BY <1>8 DEF MutexCreate
  <2>2. ASSUME NEW k \in DOMAIN PCBS, PCBS' = [PCBS EXCEPT ![k].creado = TRUE]
        PROVE  \A j \in DOMAIN PCBS' : PCBS'[j].TIDCola = <<>>
    BY <1>0, <1>1, <2>2 DEF Tabla
  <2>3. \/ PCBS' = PCBS
        \/ \E k \in DOMAIN PCBS : PCBS' = [PCBS EXCEPT ![k].creado = TRUE]
    BY <1>8 DEF MutexCreate
  <2>. QED
    BY <1>0, <2>1, <2>2, <2>3 DEF ISinHerencia
<1>9. CASE Enviar
  BY <1>0, <1>9, Rutas DEF Enviar, ISinHerencia
<1>10. CASE PasarABlocked
  <2>1. pedido.op = "THREAD_JOIN"
    BY <1>0, <1>10, Rutas DEF PasarABlocked, ITipos, IPedido, Llaman
  <2>. QED
    BY <1>0, <1>10, <2>1, Rutas DEF PasarABlocked, ISinHerencia
<1>11. CASE EntraProcessCreate \/ PasarAReady \/ SolicitarEspacioHilos \/ EntraFinalizar
            \/ ElegirAlQueTermina \/ AvisarMemoria \/ FiltrarReady \/ FiltrarMultinivel
            \/ PasarAExit \/ NadaQueSoltar \/ SoltarSinPCB
  BY <1>0, <1>11 DEF EntraProcessCreate, PasarAReady, SolicitarEspacioHilos, EntraFinalizar,
     ElegirAlQueTermina, AvisarMemoria, FiltrarReady, FiltrarMultinivel, PasarAExit,
     NadaQueSoltar, SoltarSinPCB, ISinHerencia
<1>12. CASE PedirVerificacion \/ EntraThreadJoin \/ VaciarExecPorJoin \/ EntraConEjecutando
            \/ LiberarInt
  BY <1>0, <1>12 DEF PedirVerificacion, EntraThreadJoin, VaciarExecPorJoin,
     EntraConEjecutando, LiberarInt, ISinHerencia
<1>13. CASE Desbloquear \/ Encolar \/ EnviarConReady \/ QuitarDeTIDCola \/ MutexLock \/ AnotarTID \/ Volcar \/ BorrarPCB \/ MatarReady
            \/ MatarMultinivel
  BY <1>0, <1>13 DEF Llaman, Desbloquear, Encolar, EnviarConReady,
       QuitarDeTIDCola, MutexLock, AnotarTID, Volcar, BorrarPCB, MatarReady, MatarMultinivel
<1>. QED
  BY <1>2, <1>3, <1>4, <1>5, <1>6, <1>7, <1>8, <1>9, <1>10, <1>11, <1>12, <1>13
     DEF Next, Handler

LEMMA PasoCopias ==
    ASSUME IExec, ITipos, IRutas, ICopias, [Next]_vars
    PROVE  ICopias'
<1> SUFFICES ASSUME (Algoritmo = "CMN" /\ SinBajas)'
             PROVE  (ISinHerencia /\ IReady /\ IFuera /\ INaciente)'
  BY DEF ICopias
<1>1. Algoritmo = "CMN" /\ SinBajas
  BY PerfilFijo DEF Algoritmo, SinBajas
<1>2. ISinHerencia /\ IReady /\ IFuera /\ INaciente
  BY <1>1 DEF ICopias
<1>3. ISinHerencia'
  BY <1>1, <1>2, SinHerenciaSigue DEF SinBajas, SinEsperas, Bajas, Llaman
<1>4. CASE UNCHANGED vars
  <2>1. Quieto
    BY <1>4 DEF Quieto, vars, colas, delPlan, handler, datos
  <2>. QED
    BY <1>2, <1>3, <2>1, QuietoSinCopias
<1>5. CASE Planner
  BY <1>1, <1>2, <1>3, <1>5, PlannerSinCopias
<1>6. CASE CPU \/ Verificar
  BY <1>1, <1>2, <1>3, <1>6, AjenosSinCopias
<1>7. CASE Handler
  BY <1>1, <1>2, <1>3, <1>7, AjenosSinCopias, LlegadasSinCopias DEF Handler
<1>. QED
  BY <1>4, <1>5, <1>6, <1>7 DEF Next

LEMMA InicioCopias == Init => ICopias
<1> SUFFICES ASSUME Init, Algoritmo = "CMN"
             PROVE  ISinHerencia /\ IReady /\ IFuera /\ INaciente
  BY DEF ICopias
<1> DEFINE h == TCB(0, 0, 0)
<1>1. /\ cola_ready = <<h>> /\ cola_exec = <<>> /\ plan = "fin" /\ paso = "libre"
      /\ \A p \in Prioridades : colasMultinivel[p] = IF p = 0 THEN <<h>> ELSE <<>>
      /\ DOMAIN colasMultinivel = Prioridades /\ 0 \in Prioridades
      /\ PCBS = <<crearPCB(0, <<0>>)>>
  BY PerfilDa DEF Init
<1>2. ISinHerencia
  <2>1. crearPCB(0, <<0>>).TIDCola = <<>>
    BY DEF crearPCB
  <2> DEFINE c == crearPCB(0, <<0>>)
  <2>2. PCBS = <<c>> /\ c.TIDCola = <<>>
    BY <1>1, <2>1
  <2> HIDE DEF c
  <2>3. \A k \in DOMAIN PCBS : PCBS[k].TIDCola = <<>>
    BY <2>2
  <2>. QED
    BY <1>1, <2>3 DEF ISinHerencia
<1> HIDE DEF h
<1>3. /\ DOMAIN <<h>> = {1} /\ <<h>>[1] = h /\ DOMAIN <<>> = {}
  OBVIOUS
<1>4. Hilos(<<h>>) = {Hilo(h)} /\ Hilos(<<>>) = {}
  BY <1>3 DEF Hilos
<1>5. EnMulti = {Hilo(h)}
  <2>1. \A p \in Prioridades : Hilos(colasMultinivel[p]) = IF p = 0 THEN {Hilo(h)} ELSE {}
    BY <1>1, <1>4
  <2>. QED
    BY <1>1, <2>1 DEF EnMulti, HilosDe
<1>6. UnaVez(colasMultinivel)
  <2>1. \A p \in Prioridades : \A i \in DOMAIN colasMultinivel[p] : p = 0 /\ i = 1
    BY <1>1, <1>3
  <2>. QED
    BY <1>1, <2>1 DEF UnaVez
<1>7. IReady
  BY <1>1, <1>4, <1>5, <1>6 DEF IReady, SinClave
<1>. QED
  BY <1>1, <1>2, <1>7 DEF IFuera, INaciente, EnCamino

\* Under CMN a thread waits once in colasMultinivel and once in READY, and while
\* it runs, or is about to, in neither.
THEOREM CopiasEnPie == Spec => []ICopias
<1>1. IExec /\ ITipos /\ IUrgencia /\ ICopias /\ [Next]_vars => ICopias'
  BY PasoCopias DEF IUrgencia
<1>. QED
  BY <1>1, InicioCopias, ExecEnPie, TiposEnPie, UrgenciaEnPie, PTL DEF Spec

LEMMA CopiasDan == ITipos /\ ICopias => (SinBajas => ColasCoherentes)
<1> SUFFICES ASSUME ITipos, ICopias, SinBajas, EnReposo, Algoritmo = "CMN"
             PROVE  Hilos(cola_ready) = UNION {Hilos(colasMultinivel[p]) : p \in Prioridades}
  BY DEF ColasCoherentes
<1>1. IReady
  BY DEF ICopias
<1>2. SinClave = {}
  BY DEF SinClave, EnReposo
<1>3. PICK F : Reparto(F) /\ perfil \in Perfiles
  BY HayReparto
<1>4. DOMAIN colasMultinivel = Prioridades
  BY <1>3 DEF Reparto, EnCasa
<1>5. Hilos(cola_ready) = EnMulti
  BY <1>1, <1>2 DEF IReady
<1>. QED
  BY <1>4, <1>5 DEF EnMulti, HilosDe

\* With CMN, while programs take no thread out of the queues and lock no mutex, at
\* rest the two versions of READY hold the same threads: none is forgotten.
THEOREM SiempreCoherentes == Spec => [](SinBajas => ColasCoherentes)
BY TiposEnPie, CopiasEnPie, CopiasDan, PTL

-----------------------------------------------------------------------------
(***************************************************************************)
(* Where each thread is.  First, queues that have no thread twice.         *)
(***************************************************************************)

SinRepetir(q) == \A i, j \in DOMAIN q : Hilo(q[i]) = Hilo(q[j]) => i = j

\* r is q with t at the end, q without its m-th TCB, and p with q behind.
LlegaA(F, q, t, r)   == q \in Seq(F) /\ t \in F /\ r = Append(q, t)
SaleDe(F, q, m, r)   == q \in Seq(F) /\ m \in 1 .. Len(q) /\ r = RemoveAt(q, m)
SeSumanA(F, p, q, r) == p \in Seq(F) /\ q \in Seq(F) /\ r = p \o q

LEMMA LlegaSinRepetir ==
    ASSUME NEW F, NEW q, NEW t, NEW r, LlegaA(F, q, t, r), SinRepetir(q),
           Hilo(t) \notin Hilos(q)
    PROVE  SinRepetir(r) /\ Hilos(r) = Hilos(q) \cup {Hilo(t)}
<1>1. q \in Seq(F) /\ t \in F /\ r = Append(q, t)
  BY DEF LlegaA
<1> DEFINE n == Len(q)
<1>2. /\ DOMAIN r = 1 .. n + 1 /\ DOMAIN q = 1 .. n /\ n \in Nat
      /\ r[n + 1] = t /\ \A j \in 1 .. n : r[j] = q[j]
  BY <1>1
<1> HIDE DEF n
<1>3. \A j \in 1 .. n + 1 : j \in 1 .. n \/ j = n + 1
  BY <1>2
<1>4. \A j \in 1 .. n : Hilo(r[j]) = Hilo(q[j]) /\ Hilo(r[j]) # Hilo(t)
  BY <1>2 DEF Hilos
<1>5. SinRepetir(r)
  <2> SUFFICES ASSUME NEW i \in 1 .. n + 1, NEW j \in 1 .. n + 1, Hilo(r[i]) = Hilo(r[j])
               PROVE  i = j
    BY <1>2 DEF SinRepetir
  <2>. QED
    BY <1>2, <1>3, <1>4 DEF SinRepetir
<1>6. Hilos(r) = Hilos(q) \cup {Hilo(t)}
  BY <1>1, HilosAppend
<1>. QED
  BY <1>5, <1>6

LEMMA SaleSinRepetir ==
    ASSUME NEW F, NEW q, NEW m, NEW r, SaleDe(F, q, m, r), SinRepetir(q)
    PROVE  SinRepetir(r) /\ Hilos(r) = Hilos(q) \ {Hilo(q[m])}
<1>1. q \in Seq(F) /\ m \in 1 .. Len(q) /\ r = RemoveAt(q, m)
  BY DEF SaleDe
<1>2. EsExtraccion(F, r, q, m)
  BY <1>1, RemoveAtPropiedades
<1> DEFINE n == Len(q)
           Antes(i) == IF i < m THEN i ELSE i + 1
<1>3. /\ r \in Seq(F) /\ Len(r) = n - 1 /\ n \in Nat /\ DOMAIN q = 1 .. n
      /\ \A j \in 1 .. n : j < m => r[j] = q[j]
      /\ \A j \in 1 .. n : j > m => r[j - 1] = q[j]
  BY <1>1, <1>2 DEF EsExtraccion
<1>4. DOMAIN r = 1 .. n - 1 /\ m \in 1 .. n
  BY <1>1, <1>3
<1> HIDE DEF n
<1>5. ASSUME NEW i \in 1 .. n - 1
      PROVE  Antes(i) \in 1 .. n /\ r[i] = q[Antes(i)] /\ Antes(i) # m
  <2>1. CASE i < m
    BY <1>3, <1>4, <2>1
  <2>2. CASE ~(i < m)
    <3>1. i + 1 \in 1 .. n /\ i + 1 > m /\ (i + 1) - 1 = i
      BY <1>3, <1>4, <2>2
    <3>. QED
      BY <1>3, <1>4, <2>2, <3>1
  <2>. QED
    BY <2>1, <2>2
<1>6. ASSUME NEW j \in 1 .. n, j # m
      PROVE  \E i \in 1 .. n - 1 : r[i] = q[j]
  <2>1. CASE j < m
    <3>1. j \in 1 .. n - 1
      BY <1>3, <1>4, <2>1
    <3>. QED
      BY <1>3, <2>1, <3>1
  <2>2. CASE ~(j < m)
    <3>1. j - 1 \in 1 .. n - 1 /\ j > m
      BY <1>3, <1>4, <1>6, <2>2
    <3>. QED
      BY <1>3, <3>1
  <2>. QED
    BY <2>1, <2>2
<1>7. \A i, j \in 1 .. n - 1 : Antes(i) = Antes(j) => i = j
  BY <1>3, <1>4
<1> HIDE DEF Antes
<1>8. SinRepetir(r)
  <2> SUFFICES ASSUME NEW i \in 1 .. n - 1, NEW j \in 1 .. n - 1, Hilo(r[i]) = Hilo(r[j])
               PROVE  i = j
    BY <1>4 DEF SinRepetir
  <2>1. Antes(i) = Antes(j)
    BY <1>3, <1>5 DEF SinRepetir
  <2>. QED
    BY <1>7, <2>1
<1>9. Hilos(r) = Hilos(q) \ {Hilo(q[m])}
  <2>1. ASSUME NEW i \in 1 .. n - 1 PROVE Hilo(r[i]) \in Hilos(q) \ {Hilo(q[m])}
    <3>1. Antes(i) \in 1 .. n /\ r[i] = q[Antes(i)] /\ Antes(i) # m
      BY <1>5
    <3>2. Hilo(q[Antes(i)]) # Hilo(q[m])
      BY <1>3, <1>4, <3>1 DEF SinRepetir
    <3>. QED
      BY <1>3, <3>1, <3>2 DEF Hilos
  <2>2. ASSUME NEW j \in 1 .. n, Hilo(q[j]) # Hilo(q[m]) PROVE Hilo(q[j]) \in Hilos(r)
    <3>1. PICK i \in 1 .. n - 1 : r[i] = q[j]
      BY <1>6, <2>2
    <3>. QED
      BY <1>4, <3>1 DEF Hilos
  <2>. QED
    BY <1>3, <1>4, <2>1, <2>2 DEF Hilos
<1>. QED
  BY <1>8, <1>9

LEMMA SumaSinRepetir ==
    ASSUME NEW F, NEW p, NEW q, NEW r, SeSumanA(F, p, q, r), SinRepetir(p), SinRepetir(q),
           Hilos(p) \cap Hilos(q) = {}
    PROVE  SinRepetir(r) /\ Hilos(r) = Hilos(p) \cup Hilos(q)
<1>1. p \in Seq(F) /\ q \in Seq(F) /\ r = p \o q
  BY DEF SeSumanA
<1> DEFINE m == Len(p)
           n == Len(q)
<1>2. /\ m \in Nat /\ n \in Nat /\ DOMAIN p = 1 .. m /\ DOMAIN q = 1 .. n
      /\ DOMAIN r = 1 .. m + n
      /\ \A i \in 1 .. m : r[i] = p[i]
      /\ \A i \in 1 .. m + n : i > m => r[i] = q[i - m]
  BY <1>1
<1> HIDE DEF m, n
<1>3. \A i \in 1 .. m + n : (i \in 1 .. m /\ ~(i > m)) \/ (i > m /\ i - m \in 1 .. n)
  BY <1>2
<1>4. ASSUME NEW i \in 1 .. m, NEW j \in 1 .. n PROVE Hilo(p[i]) # Hilo(q[j])
  BY <1>2 DEF Hilos
<1>5. SinRepetir(r)
  <2> SUFFICES ASSUME NEW i \in 1 .. m + n, NEW j \in 1 .. m + n, Hilo(r[i]) = Hilo(r[j])
               PROVE  i = j
    BY <1>2 DEF SinRepetir
  <2>1. CASE i \in 1 .. m /\ j \in 1 .. m
    BY <1>2, <2>1 DEF SinRepetir
  <2>2. CASE i > m /\ j > m
    <3>1. i - m \in 1 .. n /\ j - m \in 1 .. n /\ r[i] = q[i - m] /\ r[j] = q[j - m]
      BY <1>2, <1>3, <2>2
    <3>2. i - m = j - m
      BY <1>2, <3>1 DEF SinRepetir
    <3>. QED
      BY <1>2, <3>2
  <2>3. CASE i \in 1 .. m /\ j > m
    <3>1. j - m \in 1 .. n /\ r[i] = p[i] /\ r[j] = q[j - m]
      BY <1>2, <1>3, <2>3
    <3>. QED
      BY <1>4, <2>3, <3>1
  <2>4. CASE i > m /\ j \in 1 .. m
    <3>1. i - m \in 1 .. n /\ r[j] = p[j] /\ r[i] = q[i - m]
      BY <1>2, <1>3, <2>4
    <3>. QED
      BY <1>4, <2>4, <3>1
  <2>. QED
    BY <1>3, <2>1, <2>2, <2>3, <2>4
<1>6. Hilos(r) = Hilos(p) \cup Hilos(q)
  <2>1. ASSUME NEW i \in 1 .. m + n PROVE Hilo(r[i]) \in Hilos(p) \cup Hilos(q)
    <3>1. CASE i \in 1 .. m
      BY <1>2, <3>1 DEF Hilos
    <3>2. CASE i > m /\ i - m \in 1 .. n
      BY <1>2, <3>2 DEF Hilos
    <3>. QED
      BY <1>3, <3>1, <3>2
  <2>2. ASSUME NEW i \in 1 .. m PROVE Hilo(p[i]) \in Hilos(r)
    <3>1. i \in 1 .. m + n
      BY <1>2
    <3>. QED
      BY <1>2, <3>1 DEF Hilos
  <2>3. ASSUME NEW i \in 1 .. n PROVE Hilo(q[i]) \in Hilos(r)
    <3>1. i + m \in 1 .. m + n /\ i + m > m /\ (i + m) - m = i
      BY <1>2
    <3>2. r[i + m] = q[i]
      BY <1>2, <3>1
    <3>. QED
      BY <1>2, <3>1, <3>2 DEF Hilos
  <2>. QED
    BY <1>2, <2>1, <2>2, <2>3 DEF Hilos
<1>. QED
  BY <1>5, <1>6

\* A loop that keeps some of the TCBs keeps each once.
LEMMA FiltraSinRepetir ==
    ASSUME NEW T, NEW q \in Seq(T), NEW S, SinRepetir(q)
    PROVE  SinRepetir(Filtra(q, S))
<1>0. PICK f : EsFiltrado(T, q, S, f)
  BY FiltraPorPartes
<1>1. /\ f \in [0 .. Len(q) -> Seq(T)] /\ f[0] = <<>>
      /\ \A n \in 1 .. Len(q) :
            f[n] = IF q[n] \in S THEN Append(f[n - 1], q[n]) ELSE f[n - 1]
      /\ Filtra(q, S) = f[Len(q)]
  BY <1>0 DEF EsFiltrado
<1> DEFINE L == Len(q)
           Hasta(n) == {Hilo(q[i]) : i \in 1 .. n}
           Bien(n) == SinRepetir(f[n]) /\ Hilos(f[n]) \subseteq Hasta(n)
           Malos == {n \in 0 .. L : ~Bien(n)}
<1>2. L \in Nat /\ DOMAIN q = 1 .. L
  BY LenProperties
<1>3. Malos = {}
  <2>1. SUFFICES ASSUME Malos # {} PROVE FALSE
    OBVIOUS
  <2>2. PICK n \in Malos : \A x \in Malos : n <= x
    <3>1. Malos \subseteq Nat
      BY <1>2
    <3> HIDE DEF Malos
    <3>. QED
      BY <2>1, <3>1, MinimoNatural
  <2>3. n \in 0 .. L /\ ~Bien(n)
    BY <2>2
  <2>4. n # 0
    <3>1. SinRepetir(<<>>) /\ Hilos(<<>>) = {}
      BY DEF SinRepetir, Hilos
    <3>. QED
      BY <1>1, <2>3, <3>1
  <2>5. n - 1 \in 0 .. L /\ ~(n <= n - 1) /\ n \in 1 .. L /\ n \in Nat
    BY <1>2, <2>3, <2>4
  <2>6. Bien(n - 1)
    BY <2>2, <2>5
  <2>7. f[n - 1] \in Seq(T) /\ q[n] \in T
    BY <1>1, <1>2, <2>5
  <2>8. /\ Hasta(n) = Hasta(n - 1) \cup {Hilo(q[n])}
        /\ Hilo(q[n]) \notin Hasta(n - 1)
    <3>1. 1 .. n = (1 .. n - 1) \cup {n} /\ 1 .. n \subseteq DOMAIN q /\ n \notin 1 .. n - 1
      BY <1>2, <2>5
    <3>. QED
      BY <3>1 DEF SinRepetir
  <2>9. CASE q[n] \in S
    <3>1. f[n] = Append(f[n - 1], q[n])
      BY <1>1, <2>5, <2>9
    <3>2. LlegaA(T, f[n - 1], q[n], f[n])
      BY <2>7, <3>1 DEF LlegaA
    <3>3. Hilo(q[n]) \notin Hilos(f[n - 1])
      BY <2>6, <2>8
    <3> HIDE DEF Hasta
    <3>4. SinRepetir(f[n]) /\ Hilos(f[n]) = Hilos(f[n - 1]) \cup {Hilo(q[n])}
      BY <2>6, <3>2, <3>3, LlegaSinRepetir
    <3>. QED
      BY <2>3, <2>6, <2>8, <3>4
  <2>10. CASE q[n] \notin S
    <3>1. f[n] = f[n - 1]
      BY <1>1, <2>5, <2>10
    <3> HIDE DEF Hasta
    <3>. QED
      BY <2>3, <2>6, <2>8, <3>1
  <2>. QED
    BY <2>9, <2>10
<1>4. L \in 0 .. L
  BY <1>2
<1>. QED
  BY <1>1, <1>3, <1>4

\* Such a queue has a thread once or not at all.
LEMMA UnLugar ==
    ASSUME NEW F, NEW q \in Seq(F), SinRepetir(q), NEW h
    PROVE  Len(ConHilo(q, h)) = IF h \in Hilos(q) THEN 1 ELSE 0
<1> DEFINE r == ConHilo(q, h)
<1>1. /\ r \in Seq(F) /\ SinRepetir(r)
      /\ Range(r) = {t \in Range(q) : Hilo(t) = h}
  BY FiltraDa, FiltraSinRepetir DEF ConHilo
<1> HIDE DEF r
<1>2. Len(r) \in Nat /\ DOMAIN r = 1 .. Len(r)
  BY <1>1
<1>3. \A i \in DOMAIN r : Hilo(r[i]) = h
  BY <1>1 DEF Range
<1>4. Len(r) <= 1
  <2>1. SUFFICES ASSUME ~(Len(r) <= 1) PROVE FALSE
    OBVIOUS
  <2>2. 1 \in DOMAIN r /\ 2 \in DOMAIN r
    BY <1>2, <2>1
  <2>3. Hilo(r[1]) = Hilo(r[2]) /\ 1 # 2
    BY <1>3, <2>2
  <2>. QED
    BY <1>1, <2>2, <2>3 DEF SinRepetir
<1>5. CASE h \in Hilos(q)
  <2>1. PICK i \in DOMAIN q : h = Hilo(q[i])
    BY <1>5 DEF Hilos
  <2>2. q[i] \in Range(q)
    BY <2>1 DEF Range
  <2>3. q[i] \in Range(r)
    BY <1>1, <2>1, <2>2
  <2>4. DOMAIN r # {}
    BY <2>3 DEF Range
  <2>. QED
    BY <1>2, <1>4, <1>5, <2>4 DEF r
<1>6. CASE h \notin Hilos(q)
  <2>1. Range(r) = {}
    BY <1>1, <1>6 DEF Range, Hilos
  <2>2. \A i \in DOMAIN r : FALSE
    BY <2>1 DEF Range
  <2>3. ~(1 \in DOMAIN r)
    BY <2>2
  <2>. QED
    BY <1>2, <1>4, <1>6, <2>3 DEF r
<1>. QED
  BY <1>5, <1>6

-----------------------------------------------------------------------------
(***************************************************************************)
(* Programs in which the planner never takes the CPU from a thread that    *)
(* has not ended.                                                          *)
(***************************************************************************)

\* Threads of a single priority run until they end, one after the other.
HastaElFinal ==
    /\ Algoritmo \in {"CMN", "PRIORIDADES"} /\ Prioridades = {0} /\ ~perfil.TrasExit
    /\ perfil.Operaciones \subseteq
          {"THREAD_CREATE", "PROCESS_CREATE", "MUTEX_CREATE", "THREAD_EXIT"}

\* The first thread does not end; it creates others and ends them while they wait.
SinRelevo ==
    perfil.Operaciones \subseteq
        {"THREAD_CREATE", "PROCESS_CREATE", "MUTEX_CREATE", "THREAD_CANCEL"}

PorTurnos == HastaElFinal \/ SinRelevo

Listos   == Hilos(cola_ready)
EnExec   == Hilos(cola_exec)
Salidos  == Hilos(cola_exit)
Ubicados == Listos \cup EnExec \cup Salidos

\* Where the planner leaves the thread in EXEC alone, and where it replaces it.
Quedo  == {"espera", "elige", "compara"}
Relevo == {"fin", "finElige", "atascado", "envia"}

Creando  == pedido.op \in {"THREAD_CREATE", "PROCESS_CREATE"} /\ paso \in {"listo", "memoria"}
Saliendo == pedido.op = "THREAD_EXIT" /\ paso \notin {"libre", "soltar", "verificar"}
YaSalio  == pedido.op = "THREAD_EXIT" /\ paso \in {"soltar", "verificar"}

\* A call finds the planner at rest or looking at an arrival; while the planner
\* replaces the thread in EXEC the CPU has not started or its thread has ended.
ITurno ==
    /\ cola_blocked = <<>>
    /\ plan \in Quedo \cup Relevo
    /\ plan \in Quedo \cup {"envia"} => cola_exec # <<>>
    /\ plan = "compara" => Hilo(nuevo) = Hilo(cola_exec[1])
    /\ plan \in Relevo => ciclo = "apagado" \/ (Clave \in terminados /\ ~perfil.TrasExit)
    /\ paso \in {"libre", "entra", "listo", "memoria", "envia", "registrar", "elegir",
                 "avisar", "filtrar", "filtrarMulti", "aExit", "soltar", "verificar"}
    /\ paso # "libre" => ciclo # "apagado" /\ (YaSalio \/ plan \in Quedo)
    /\ Saliendo => Clave \in terminados
    /\ paso \in {"listo", "memoria"} => Creando
    /\ paso = "aExit" => pedido.op = "THREAD_EXIT"
    /\ paso = "envia" => canal = IF pedido.op = "THREAD_EXIT" THEN "processEnded"
                                 ELSE "nuevoElementoReadyDesalojo"

HayQuienEspere == cola_ready # <<>> /\ (Algoritmo = "CMN" => EnMulti # {})

\* The planner looks at an arrival when somebody waits, so that it compares it with
\* the thread in EXEC and never with TCB{}; or it may take TCB{} for the first thread.
IEspera ==
    /\ paso \in {"listo", "memoria"} => Hilo(otro) # <<0, 0>>
    /\ paso = "memoria" => Hilo(otro) \in Listos
    /\ HastaElFinal /\ (plan = "elige" \/ (paso = "envia" /\ ~Saliendo)) => HayQuienEspere
    /\ SinRelevo =>
          /\ cola_exec # <<>> => Hilo(cola_exec[1]) = <<0, 0>>
          /\ plan \in {"fin", "finElige"} =>
                /\ cola_ready = <<TCB(0, 0, 0)>> /\ cola_exec = <<>>
                /\ \A p \in Prioridades :
                      colasMultinivel[p] = IF p = 0 /\ Algoritmo = "CMN"
                                           THEN <<TCB(0, 0, 0)>> ELSE <<>>

\* The thread that ends is in EXEC and in EXIT until the planner empties cola_exec.
EnAmbas == plan = "fin" \/ (Saliendo /\ paso = "envia")

Creados ==
    (UNION {{<<PCBS[k].ID, PCBS[k].TIDS[i]>> : i \in DOMAIN PCBS[k].TIDS} : k \in DOMAIN PCBS})
    \cup (IF ProcesoNuevo THEN {Hilo(otro)} ELSE {})

EnCreacion == IF paso = "listo" THEN {Hilo(otro)} ELSE {}

\* Every thread that was created is in one queue, once, but for the one that its
\* creation has in hand and the one that is ending.
ILugar ==
    /\ SinRepetir(cola_ready) /\ SinRepetir(cola_exit)
    /\ Listos \cap Salidos = {} /\ EnExec \cap Listos = {}
    /\ IF EnAmbas THEN EnExec \subseteq Salidos ELSE EnExec \cap Salidos = {}
    /\ EnCreacion \cap Ubicados = {} /\ Creados \subseteq Ubicados \cup EnCreacion
    /\ \A t \in Range(cola_ready) : t.Ruta
    /\ \A p \in Prioridades : \A t \in Range(colasMultinivel[p]) : t.Ruta
    /\ paso \in {"listo", "memoria"} => otro.Ruta

IVida == PorTurnos => ISinHerencia /\ ITurno /\ IEspera /\ ILugar

-----------------------------------------------------------------------------
LEMMA TurnosSinEsperas ==
    ASSUME PorTurnos
    PROVE  SinEsperas
BY DEF PorTurnos, HastaElFinal, SinRelevo, SinEsperas, Llaman

LEMMA HastaElFinalSinBajas ==
    ASSUME HastaElFinal
    PROVE  SinBajas
BY DEF HastaElFinal, SinBajas, Bajas

\* Which calls these programs make.
LEMMA LlamadasDelTurno ==
    ASSUME ITipos, PorTurnos
    PROVE  /\ pedido.op \in {"THREAD_CREATE", "PROCESS_CREATE", "MUTEX_CREATE", "THREAD_EXIT",
                             "THREAD_CANCEL", ""}
           /\ pedido.op = "THREAD_EXIT" => HastaElFinal /\ ~SinRelevo
           /\ pedido.op = "THREAD_CANCEL" => SinRelevo /\ ~HastaElFinal
BY LlamadaDelPerfil DEF PorTurnos, HastaElFinal, SinRelevo

\* Which handlers, and which steps of the planner.
LEMMA PasosDelTurno ==
    ASSUME ITipos, IRutas, PorTurnos, ITurno, Handler
    PROVE  \/ EntraThreadCreate \/ EntraProcessCreate \/ PasarAReady \/ SolicitarEspacioHilos
           \/ Enviar \/ RegistrarPCB \/ EntraFinalizar \/ ElegirAlQueTermina \/ AvisarMemoria
           \/ FiltrarReady \/ FiltrarMultinivel \/ PasarAExit \/ NadaQueSoltar
           \/ SoltarSinPCB \/ SoltarMutex \/ PedirVerificacion \/ MutexCreate
<1> USE LlamadasDelTurno DEF ITurno, En, Es
<1>1. ~(Desbloquear \/ Encolar \/ EnviarConReady \/ QuitarDeTIDCola)
  BY DEF Desbloquear, Encolar, EnviarConReady, QuitarDeTIDCola
<1>2. ~(EntraThreadJoin \/ PasarABlocked \/ VaciarExecPorJoin \/ MutexLock \/ AnotarTID)
  BY DEF EntraThreadJoin, PasarABlocked, VaciarExecPorJoin, MutexLock, AnotarTID
<1>3. ~(EntraConEjecutando \/ Volcar \/ BorrarPCB \/ MatarReady \/ MatarMultinivel \/ LiberarInt)
  BY DEF EntraConEjecutando, Volcar, BorrarPCB, MatarReady, MatarMultinivel, LiberarInt
<1>. QED
  BY <1>1, <1>2, <1>3 DEF Handler

LEMMA PlanDelTurno ==
    ASSUME ITurno, Planner
    PROVE  VaciarExec \/ ElegirSiguiente \/ Ejecutar \/ ElegirDesalojo \/ Comparar
BY DEF ITurno, Quedo, Relevo, Planner, Devolver, notifCPUInterruption, Desalojar, Interrumpir,
       DevolverInterrumpido, ElegirInterrumpido, TomarIntProcesada, EsperarCPU,
       EjecutarInterrumpido, De, EnPlan

-----------------------------------------------------------------------------
LEMMA InicioVida == Init => IVida
<1> SUFFICES ASSUME Init, PorTurnos PROVE ISinHerencia /\ ITurno /\ IEspera /\ ILugar
  BY DEF IVida
<1> DEFINE h == TCB(0, 0, 0)
           c == crearPCB(0, <<0>>)
<1>1. /\ cola_ready = <<h>> /\ cola_exec = <<>> /\ cola_blocked = <<>> /\ cola_exit = <<>>
      /\ plan = "fin" /\ paso = "libre" /\ ciclo = "apagado" /\ pedido.op = ""
      /\ \A p \in Prioridades : colasMultinivel[p] = IF p = 0 /\ Algoritmo = "CMN"
                                                     THEN <<h>> ELSE <<>>
      /\ PCBS = <<c>>
  BY DEF Init
<1>2. /\ c.ID = 0 /\ c.TIDS = <<0>> /\ c.TIDCola = <<>>
      /\ h.Ruta /\ Hilo(h) = <<0, 0>>
  BY DEF crearPCB, TCB, Hilo
<1> HIDE DEF h, c
<1>3. /\ DOMAIN <<h>> = {1} /\ <<h>>[1] = h /\ DOMAIN <<>> = {}
      /\ DOMAIN PCBS = {1} /\ PCBS[1] = c
      /\ DOMAIN c.TIDS = {1} /\ c.TIDS[1] = 0
  <2>1. DOMAIN <<h>> = {1} /\ <<h>>[1] = h /\ DOMAIN <<>> = {}
    OBVIOUS
  <2>2. DOMAIN <<c>> = {1} /\ <<c>>[1] = c
    OBVIOUS
  <2>3. DOMAIN <<0>> = {1} /\ <<0>>[1] = 0
    OBVIOUS
  <2>. QED
    BY <1>1, <1>2, <2>1, <2>2, <2>3
<1>4. ISinHerencia
  BY <1>1, <1>2, <1>3 DEF ISinHerencia
<1>5. ITurno
  BY <1>1 DEF ITurno, Quedo, Relevo, Saliendo
<1>6. IEspera
  BY <1>1 DEF IEspera, Saliendo, h
<1>7. /\ Listos = {<<0, 0>>} /\ EnExec = {} /\ Salidos = {}
  <2>1. Hilos(<<h>>) = {<<0, 0>>} /\ Hilos(<<>>) = {}
    BY <1>2, <1>3 DEF Hilos
  <2>. QED
    BY <1>1, <2>1 DEF Listos, EnExec, Salidos
<1>8. SinRepetir(cola_ready) /\ SinRepetir(cola_exit)
  BY <1>1, <1>3 DEF SinRepetir
<1>9. Creados \subseteq {<<0, 0>>} /\ EnCreacion = {}
  <2>1. ~ProcesoNuevo /\ EnCreacion = {}
    BY <1>1 DEF EnCreacion, ProcesoNuevo
  <2>. QED
    BY <1>2, <1>3, <2>1 DEF Creados
<1>10. Range(<<h>>) = {h} /\ Range(<<>>) = {}
  BY <1>3, Zenon DEF Range
<1>11. /\ \A t \in Range(cola_ready) : t.Ruta
       /\ \A p \in Prioridades : \A t \in Range(colasMultinivel[p]) : t.Ruta
  BY <1>1, <1>2, <1>10
<1>12. ILugar
  BY <1>1, <1>7, <1>8, <1>9, <1>11 DEF ILugar, EnAmbas, Ubicados, Saliendo
<1>. QED
  BY <1>4, <1>5, <1>6, <1>12

-----------------------------------------------------------------------------
(***************************************************************************)
(* What the planner chooses in them.                                       *)
(***************************************************************************)

\* The first thread of the first process has priority 0.
LEMMA HayRepartoConPrimero ==
    ASSUME ITipos
    PROVE  /\ perfil \in Perfiles
           /\ \E F : Reparto(F) /\ \A t \in F : Hilo(t) = <<0, 0>> => t.Prioridad = 0
<1>1. perfil \in Perfiles
  BY DEF ITipos, IMaquina
<1>2. PICK pr : EsReparto(pr) /\ EnCasa(FichasDe(pr))
  BY DEF ITipos, IFichas
<1>3. Cerrado(FichasDe(pr))
  BY <1>1, <1>2, CerradoFichas
<1>4. \A t \in FichasDe(pr) : Hilo(t) \in DOMAIN pr /\ t.Prioridad = pr[Hilo(t)]
  BY DEF FichasDe
<1>5. /\ \A h \in DOMAIN pr : pr[h] \in Prioridades
      /\ pr[<<0, 0>>] = 0
  BY <1>2 DEF EsReparto
<1>6. Reparto(FichasDe(pr))
  BY <1>1, <1>2, <1>3, <1>4, <1>5 DEF Reparto
<1>7. \A t \in FichasDe(pr) : Hilo(t) = <<0, 0>> => t.Prioridad = 0
  BY <1>4, <1>5
<1> DEFINE F == FichasDe(pr)
<1> HIDE DEF F
<1>8. Reparto(F) /\ \A t \in F : Hilo(t) = <<0, 0>> => t.Prioridad = 0
  BY <1>6, <1>7 DEF F
<1>. QED
  BY <1>1, <1>8

\* After an arrival the thread in EXEC goes on.
LEMMA EleccionQueSigue ==
    ASSUME ITipos, PorTurnos, IEspera, plan = "elige", cola_exec # <<>>, Algoritmo # "FIFO"
    PROVE  /\ Hilo(planificar.tcb) = Hilo(cola_exec[1])
           /\ planificar.ready = cola_ready /\ planificar.multinivel = colasMultinivel
<1> USE DEF Nada, Eleccion
<1>1. PICK F : Reparto(F) /\ \A t \in F : Hilo(t) = <<0, 0>> => t.Prioridad = 0
  BY HayRepartoConPrimero
<1>2. /\ perfil \in Perfiles /\ Prioridades \subseteq Nat
      /\ Algoritmo \in {"PRIORIDADES", "CMN"}
  BY HayRepartoConPrimero, PerfilDa
<1>3. /\ cola_ready \in Seq(F) /\ cola_exec[1] \in F
      /\ colasMultinivel \in [Prioridades -> Seq(F)]
      /\ \A t \in F : t.Prioridad \in Nat /\ t.Prioridad \in Prioridades
  BY <1>1, <1>2 DEF Reparto, EnCasa, Cerrado
\* None is more urgent.
<1>4. \A t \in F : Sigue(t)
  <2>1. cola_exec[1].Prioridad = 0
    <3>1. CASE HastaElFinal
      BY <1>3, <3>1 DEF HastaElFinal
    <3>2. CASE SinRelevo
      BY <1>1, <1>3, <3>2 DEF IEspera
    <3>. QED
      BY <3>1, <3>2 DEF PorTurnos
  <2>. QED
    BY <1>3, <2>1 DEF Sigue
\* With nobody to compare it with, TCB{} is the first thread.
<1>5. ASSUME planificar = Nada(TCBVacio), SinRelevo
      PROVE  /\ Hilo(planificar.tcb) = Hilo(cola_exec[1])
             /\ planificar.ready = cola_ready /\ planificar.multinivel = colasMultinivel
  <2>1. Hilo(TCBVacio) = <<0, 0>> /\ Hilo(cola_exec[1]) = <<0, 0>>
    BY <1>5 DEF IEspera, TCBVacio, Hilo
  <2>. QED
    BY <1>5, <2>1
<1>6. HastaElFinal => HayQuienEspere
  BY DEF IEspera
<1>7. CASE Algoritmo = "PRIORIDADES"
  <2>1. CASE cola_ready = <<>>
    BY <1>5, <1>6, <1>7, <2>1 DEF planificar, planificarPrioridades, HayQuienEspere, PorTurnos
  <2>2. CASE cola_ready # <<>>
    <3>1. IndiceMenor(cola_ready) \in DOMAIN cola_ready
      BY <1>3, <2>2, IndiceMenorDa
    <3>2. cola_ready[IndiceMenor(cola_ready)] \in F
      BY <1>3, <3>1
    <3>3. planificar = Nada(cola_exec[1])
      BY <1>4, <1>7, <2>2, <3>2 DEF planificar, planificarPrioridades
    <3>. QED
      BY <3>3
  <2>. QED
    BY <2>1, <2>2
<1>8. CASE Algoritmo = "CMN"
  <2>1. CASE cola_ready = <<>> \/ Claves_multinivel = {}
    <3>1. planificar = Nada(TCBVacio)
      BY <1>8, <2>1 DEF planificar, planificarColas
    <3>2. ~HayQuienEspere
      <4>1. CASE cola_ready = <<>>
        BY <4>1 DEF HayQuienEspere
      <4>2. CASE Claves_multinivel = {}
        <5>1. \A p \in Prioridades : Hilos(colasMultinivel[p]) = {}
          BY <4>2 DEF Claves_multinivel, Hilos
        <5>. QED
          BY <1>3, <1>8, <5>1 DEF HayQuienEspere, EnMulti, HilosDe
      <4>. QED
        BY <2>1, <4>1, <4>2
    <3>. QED
      BY <1>5, <1>6, <3>1, <3>2 DEF PorTurnos
  <2>2. CASE ~(cola_ready = <<>> \/ Claves_multinivel = {})
    <3>1. menorClave \in Prioridades /\ colasMultinivel[menorClave] # <<>>
      BY <1>2, <2>2, menorClaveDa DEF Claves_multinivel
    <3>2. colasMultinivel[menorClave][1] \in F
      BY <1>3, <3>1
    <3>3. planificar = Nada(cola_exec[1])
      BY <1>4, <1>8, <2>2, <3>2 DEF planificar, planificarColas
    <3>. QED
      BY <3>3
  <2>. QED
    BY <2>1, <2>2
<1>. QED
  BY <1>2, <1>7, <1>8

\* A thread leaves READY, and nothing else changes in it.
Releva(e) ==
    /\ e.tcb.Ruta /\ Hilo(e.tcb) \in Listos
    /\ SinRepetir(e.ready) /\ Hilos(e.ready) = Listos \ {Hilo(e.tcb)}
    /\ Range(e.ready) \subseteq Range(cola_ready)
    /\ \A p \in Prioridades : Range(e.multinivel[p]) \subseteq Range(colasMultinivel[p])

\* After a thread ended another takes its place, if there is one.
LEMMA EleccionQueReleva ==
    ASSUME ITipos, IExec, ICopias, PorTurnos, ITurno, IEspera, ILugar, plan = "finElige"
    PROVE  \/ planificar = Nada(TCBVacio)
           \/ Releva(planificar)
<1> USE DEF Nada, Eleccion
<1>1. PICK F : Reparto(F) /\ perfil \in Perfiles
  BY HayReparto
<1>2. /\ cola_ready \in Seq(F) /\ colasMultinivel \in [Prioridades -> Seq(F)]
      /\ Prioridades \subseteq Nat /\ \A t \in F : t.Prioridad \in Nat
      /\ Algoritmo \in {"FIFO", "PRIORIDADES", "CMN"} /\ 0 \in Prioridades
  BY <1>1, PerfilDa DEF Reparto, EnCasa, Cerrado
<1>3. /\ cola_exec = <<>> /\ SinRepetir(cola_ready)
      /\ \A t \in Range(cola_ready) : t.Ruta
      /\ \A p \in Prioridades : \A t \in Range(colasMultinivel[p]) : t.Ruta
  BY DEF IExec, SinNadie, ILugar
<1>4. \A t : ~Sigue(t)
  BY <1>3 DEF Sigue
<1>5. CASE Algoritmo = "PRIORIDADES"
  <2>1. CASE cola_ready = <<>>
    BY <1>5, <2>1 DEF planificar, planificarPrioridades
  <2>2. CASE cola_ready # <<>>
    <3> DEFINE m == IndiceMenor(cola_ready)
               r == RemoveAt(cola_ready, m)
    <3>1. m \in DOMAIN cola_ready
      BY <1>2, <2>2, IndiceMenorDa
    <3>2. planificar = Eleccion(cola_ready[m], r, colasMultinivel, FALSE)
      BY <1>4, <1>5, <2>2 DEF planificar, planificarPrioridades
    <3> HIDE DEF m
    <3>3. m \in 1 .. Len(cola_ready) /\ SaleDe(F, cola_ready, m, r)
      BY <1>2, <3>1 DEF SaleDe
    <3>4. Range(r) \subseteq Range(cola_ready)
      BY <1>2, <3>3, RangoRemoveAt
    <3> HIDE DEF r
    <3>5. SinRepetir(r) /\ Hilos(r) = Listos \ {Hilo(cola_ready[m])}
      BY <1>3, <3>3, SaleSinRepetir DEF Listos
    <3>6. cola_ready[m] \in Range(cola_ready) /\ Hilo(cola_ready[m]) \in Listos
      BY <3>1 DEF Range, Listos, Hilos
    <3>. QED
      BY <1>3, <3>2, <3>4, <3>5, <3>6 DEF Releva
  <2>. QED
    BY <2>1, <2>2
<1>6. CASE Algoritmo = "CMN"
  <2>1. CASE cola_ready = <<>> \/ Claves_multinivel = {}
    BY <1>6, <2>1 DEF planificar, planificarColas
  <2>2. CASE ~(cola_ready = <<>> \/ Claves_multinivel = {})
    <3> DEFINE m == menorClave
               t == colasMultinivel[m][1]
               r == SinHilo(cola_ready, Hilo(t))
               N == [colasMultinivel EXCEPT ![m] = Tail(@)]
    <3>1. m \in Prioridades /\ colasMultinivel[m] # <<>>
      BY <1>2, <2>2, menorClaveDa DEF Claves_multinivel
    <3>2. planificar = Eleccion(t, r, N, FALSE)
      BY <1>4, <1>6, <2>2 DEF planificar, planificarColas
    <3> HIDE DEF m
    <3>3. t \in Range(colasMultinivel[m]) /\ Hilo(t) \in EnMulti
      <4>1. 1 \in DOMAIN colasMultinivel[m]
        BY <1>2, <3>1
      <4>2. t \in Range(colasMultinivel[m]) /\ Hilo(t) \in Hilos(colasMultinivel[m])
        BY <4>1 DEF Range, Hilos
      <4>. QED
        BY <1>2, <3>1, <4>2 DEF EnMulti, HilosDe
    <3>4. EnMulti \subseteq Listos
      <4>1. CASE HastaElFinal
        <5>1. IReady
          BY <1>6, <4>1, HastaElFinalSinBajas DEF ICopias
        <5>. QED
          BY <5>1 DEF IReady, Listos
      <4>2. CASE SinRelevo
        <5> DEFINE h == TCB(0, 0, 0)
        <5>1. /\ cola_ready = <<h>>
              /\ \A p \in Prioridades : colasMultinivel[p] = <<h>> \/ colasMultinivel[p] = <<>>
          BY <4>2 DEF IEspera
        <5> HIDE DEF h
        <5>2. Hilos(<<>>) = {}
          BY DEF Hilos
        <5>3. \A p \in Prioridades : Hilos(colasMultinivel[p]) \subseteq Hilos(cola_ready)
          BY <5>1, <5>2
        <5>. QED
          BY <1>2, <5>3 DEF EnMulti, HilosDe, Listos
      <4>. QED
        BY <4>1, <4>2 DEF PorTurnos
    <3>5. /\ SinRepetir(r) /\ Hilos(r) = Listos \ {Hilo(t)}
          /\ Range(r) \subseteq Range(cola_ready)
      <4> HIDE DEF t
      <4>1. Range(r) = Range(cola_ready) \cap {u \in Range(cola_ready) : Hilo(u) # Hilo(t)}
        BY <1>2, FiltraDa DEF SinHilo
      <4>2. SinRepetir(r)
        BY <1>2, <1>3, FiltraSinRepetir DEF SinHilo
      <4>. QED
        BY <1>2, <4>1, <4>2, HilosSinHilo DEF Listos
    <3>6. \A p \in Prioridades : Range(N[p]) \subseteq Range(colasMultinivel[p])
      <4>1. Range(Tail(colasMultinivel[m])) \subseteq Range(colasMultinivel[m])
        BY <1>2, <3>1, RangoTail
      <4>. QED
        BY <1>2, <3>1, <4>1
    <3>7. t.Ruta
      <4> HIDE DEF t
      <4>. QED
        BY <1>3, <3>1, <3>3
    <3> HIDE DEF t, r, N
    <3>. QED
      BY <3>2, <3>3, <3>4, <3>5, <3>6, <3>7 DEF Releva
  <2>. QED
    BY <2>1, <2>2
<1>7. CASE Algoritmo = "FIFO"
  <2>1. SinRelevo
    BY <1>7 DEF PorTurnos, HastaElFinal
  <2> DEFINE h == TCB(0, 0, 0)
  <2>2. cola_ready = <<h>> /\ h.Ruta
    BY <2>1 DEF IEspera, TCB
  <2> HIDE DEF h
  <2>3. /\ cola_ready # <<>> /\ cola_ready[1] = h /\ Tail(cola_ready) = <<>>
        /\ DOMAIN cola_ready = {1} /\ DOMAIN <<>> = {}
    BY <2>2
  <2>4. planificar = Eleccion(h, <<>>, colasMultinivel, FALSE)
    BY <1>7, <2>3 DEF planificar, planificarFifo
  <2>5. Listos = {Hilo(h)} /\ Hilos(<<>>) = {}
    BY <2>3 DEF Listos, Hilos
  <2>6. SinRepetir(<<>>) /\ Range(<<>>) = {}
    BY <2>3 DEF SinRepetir, Range
  <2>. QED
    BY <2>2, <2>4, <2>5, <2>6 DEF Releva
<1>. QED
  BY <1>2, <1>5, <1>6, <1>7

-----------------------------------------------------------------------------
(***************************************************************************)
(* Whose turn it is.                                                       *)
(***************************************************************************)

\* A step of a handler that leaves the planner and EXEC alone.
Anda ==
    /\ UNCHANGED <<perfil, plan, nuevo, Clave, terminados, cola_exec, cola_blocked, pedido>>
    /\ paso # "libre" /\ (paso' = "libre" \/ ciclo' = ciclo) /\ ciclo' # "apagado"
    /\ paso' \in {"libre", "listo", "memoria", "envia", "elegir", "avisar", "filtrar",
                  "filtrarMulti", "aExit", "soltar", "verificar"}
    /\ paso' \in {"listo", "memoria"} => pedido.op \in {"THREAD_CREATE", "PROCESS_CREATE"}
    /\ paso' = "aExit" => pedido.op = "THREAD_EXIT"
    /\ paso' = "envia" => canal' = IF pedido.op = "THREAD_EXIT" THEN "processEnded"
                                   ELSE "nuevoElementoReadyDesalojo"
    /\ paso \in {"soltar", "verificar"} => paso' \in {"libre", "verificar"}
    /\ pedido.op = "THREAD_EXIT" /\ paso \notin {"soltar", "verificar"} =>
          paso' \notin {"soltar", "verificar"}

LEMMA AndaSigue ==
    ASSUME ITurno, Anda
    PROVE  ITurno'
<1> USE DEF Anda
<1>1. Saliendo' => Saliendo
  BY DEF Saliendo
<1>2. YaSalio => YaSalio' \/ paso' = "libre"
  BY DEF YaSalio
<1>3. plan \in Relevo => Clave \in terminados /\ ~perfil.TrasExit
  BY DEF ITurno
<1>4. Hilo(nuevo)' = Hilo(nuevo) /\ Hilo(cola_exec[1])' = Hilo(cola_exec[1])
  BY DEF Hilo
<1>. QED
  BY <1>1, <1>2, <1>3, <1>4 DEF ITurno, Creando

LEMMA HandlerAnda ==
    ASSUME ITipos, IRutas, PorTurnos, ISinHerencia, ITurno, IEspera,
           \/ EntraThreadCreate \/ EntraProcessCreate \/ PasarAReady \/ SolicitarEspacioHilos
           \/ RegistrarPCB \/ EntraFinalizar \/ ElegirAlQueTermina \/ AvisarMemoria
           \/ FiltrarReady \/ FiltrarMultinivel \/ PasarAExit \/ NadaQueSoltar
           \/ SoltarSinPCB \/ SoltarMutex \/ PedirVerificacion \/ MutexCreate
    PROVE  Anda
<1> USE DEF Anda, ITurno, ajenoAlHandler, delPlan, cargado, colas, datos, En, Va, Es,
            Responde, Panico
<1>0. /\ pedido.op \in {"THREAD_CREATE", "PROCESS_CREATE", "MUTEX_CREATE", "THREAD_EXIT",
                        "THREAD_CANCEL", ""}
      /\ pedido.op # "SEGFAULT"
  BY LlamadasDelTurno
<1>1. CASE EntraThreadCreate
  BY <1>0, <1>1 DEF EntraThreadCreate
<1>2. CASE EntraProcessCreate
  BY <1>0, <1>2 DEF EntraProcessCreate
<1>3. CASE PasarAReady
  BY <1>0, <1>3 DEF PasarAReady, Creando
<1>4. CASE SolicitarEspacioHilos
  <2>1. Creando /\ cola_exec # <<>>
    BY <1>4 DEF SolicitarEspacioHilos, YaSalio
  <2>2. ~SoloElPrimero
    <3>1. PICK F : Reparto(F) /\ perfil \in Perfiles
      BY HayReparto
    <3>2. cola_ready \in Seq(F)
      BY <3>1 DEF Reparto, EnCasa
    <3>3. Hilo(otro) \in Listos /\ Hilo(otro) # <<0, 0>>
      BY <1>4 DEF SolicitarEspacioHilos, IEspera
    <3>4. PICK i \in DOMAIN cola_ready : Hilo(otro) = Hilo(cola_ready[i])
      BY <3>3 DEF Listos, Hilos
    <3>5. Len(cola_ready) = 1 => i = 1
      BY <3>2, <3>4
    <3>. QED
      BY <3>3, <3>4, <3>5 DEF SoloElPrimero, Hilo
  <2>. QED
    BY <1>0, <1>4, <2>1, <2>2 DEF SolicitarEspacioHilos, Creando
<1>5. CASE RegistrarPCB
  <2>1. pedido.op = "PROCESS_CREATE"
    BY <1>5 DEF RegistrarPCB, ITipos, IPedido
  <2>. QED
    BY <1>0, <1>5, <2>1 DEF RegistrarPCB
<1>6. CASE EntraFinalizar
  BY <1>0, <1>6 DEF EntraFinalizar
<1>7. CASE ElegirAlQueTermina
  BY <1>0, <1>7 DEF ElegirAlQueTermina
<1>8. CASE AvisarMemoria
  BY <1>0, <1>8 DEF AvisarMemoria
<1>9. CASE FiltrarReady
  BY <1>0, <1>9 DEF FiltrarReady
<1>10. CASE FiltrarMultinivel
  <2>1. pedido.op = "THREAD_CANCEL"
    BY <1>10 DEF FiltrarMultinivel, IRutas
  <2>. QED
    BY <1>0, <1>10, <2>1 DEF FiltrarMultinivel
<1>11. CASE PasarAExit
  BY <1>0, <1>11 DEF PasarAExit
<1>12. CASE NadaQueSoltar
  BY <1>0, <1>12 DEF NadaQueSoltar
<1>13. CASE SoltarSinPCB
  BY <1>0, <1>13 DEF SoltarSinPCB
<1>14. CASE SoltarMutex
  <2>1. PCBS[ElPCB].TIDCola = <<>>
    BY <1>14 DEF SoltarMutex, HayMutex, HayPCB, ISinHerencia
  <2>. QED
    BY <1>0, <1>14, <2>1 DEF SoltarMutex
<1>15. CASE PedirVerificacion
  BY <1>0, <1>15 DEF PedirVerificacion
<1>16. CASE MutexCreate
  BY <1>0, <1>16 DEF MutexCreate
<1>. QED
  BY <1>1, <1>2, <1>3, <1>4, <1>5, <1>6, <1>7, <1>8, <1>9, <1>10, <1>11, <1>12, <1>13, <1>14,
     <1>15, <1>16

\* The message that ends the turn, or announces an arrival.
LEMMA EnviarTurno ==
    ASSUME ITipos, PorTurnos, ITurno, Enviar
    PROVE  /\ ITurno'
           /\ plan' = IF Saliendo THEN "fin" ELSE "elige"
           /\ paso' \in {"libre", "registrar", "soltar"}
<1>0. /\ pedido.op \in {"THREAD_CREATE", "PROCESS_CREATE", "MUTEX_CREATE", "THREAD_EXIT",
                        "THREAD_CANCEL", ""}
      /\ pedido.op = "THREAD_EXIT" => HastaElFinal
  BY LlamadasDelTurno
<1>1. /\ paso = "envia" /\ plan = "espera" /\ plan' = AlRecibir[canal]
      /\ UNCHANGED <<perfil, cola_exec, cola_blocked, pedido, Clave, terminados>>
      /\ IF pedido.op \in DOMAIN TrasEnviar
         THEN paso' = TrasEnviar[pedido.op] /\ ciclo' = ciclo
         ELSE paso' = "libre" /\ ciclo' \in {"fin", "chequeo"}
  BY DEF Enviar, En, Va, Responde, colas, cargado
<1>2. /\ cola_blocked = <<>> /\ cola_exec # <<>> /\ ciclo # "apagado"
      /\ Saliendo => Clave \in terminados
      /\ canal = IF pedido.op = "THREAD_EXIT" THEN "processEnded"
                 ELSE "nuevoElementoReadyDesalojo"
  BY <1>1 DEF ITurno, Quedo
<1>3. CASE pedido.op = "THREAD_EXIT"
  <2>1. plan' = "fin" /\ paso' = "soltar" /\ ciclo' = ciclo
    BY <1>1, <1>2, <1>3, Rutas DEF AlRecibir
  <2>2. Saliendo /\ Clave \in terminados /\ ~perfil.TrasExit
    BY <1>0, <1>1, <1>2, <1>3 DEF Saliendo, HastaElFinal
  <2>3. YaSalio' /\ ~Saliendo' /\ plan' \in Relevo /\ plan' \notin Quedo \cup {"envia"}
    BY <1>1, <1>3, <2>1 DEF Saliendo, YaSalio, Quedo, Relevo
  <2>4. ITurno'
    BY <1>1, <1>2, <2>1, <2>2, <2>3 DEF ITurno
  <2>. QED
    BY <2>1, <2>2, <2>4
<1>4. CASE pedido.op # "THREAD_EXIT"
  <2>1. plan' = "elige" /\ paso' \in {"libre", "registrar"} /\ ciclo' # "apagado"
    BY <1>0, <1>1, <1>2, <1>4, Rutas DEF AlRecibir
  <2>2. ~Saliendo /\ ~Saliendo'
    BY <1>1, <1>4 DEF Saliendo
  <2>3. ITurno'
    BY <1>1, <1>2, <2>1, <2>2 DEF ITurno, Quedo, Relevo
  <2>. QED
    BY <2>1, <2>2, <2>3
<1>. QED
  BY <1>3, <1>4

LEMMA CPUTurno ==
    ASSUME ITurno, CPU \/ Verificar
    PROVE  ITurno'
<1> USE DEF ITurno, colas, delPlan, cargado, handler, datos, cpu
<1>1. Hilo(nuevo') = Hilo(nuevo) /\ UNCHANGED <<perfil, plan, cola_exec, cola_blocked, canal>>
  BY DEF CPU, Syscall, OtraInstruccion, FetchFalla, FinDeCiclo, CheckInterrupt,
         executionProces, Verificar
<1>2. Hilo(nuevo)' = Hilo(nuevo) /\ Hilo(cola_exec[1])' = Hilo(cola_exec[1])
  BY <1>1 DEF Hilo
<1>3. CASE Syscall
  <2>1. plan \notin Relevo
    BY <1>3 DEF Syscall, HayInstruccion, EnFetch
  <2>2. /\ paso = "libre" /\ paso' = "entra" /\ ciclo' = "syscall" /\ Clave' = Clave
        /\ terminados' = IF pedido'.op \in {"THREAD_EXIT", "PROCESS_EXIT"}
                         THEN terminados \cup {Clave} ELSE terminados
    BY <1>3 DEF Syscall
  <2>. QED
    BY <1>1, <1>2, <2>1, <2>2 DEF Saliendo, YaSalio, Creando
<1>4. CASE ~Syscall
  <2>1. UNCHANGED <<paso, pedido, Clave, terminados>>
    BY <1>4 DEF CPU, OtraInstruccion, FetchFalla, FinDeCiclo, CheckInterrupt,
                executionProces, Verificar
  <2>2. \/ ciclo' = ciclo
        \/ ciclo # "apagado" /\ ciclo' # "apagado"
    BY <1>4 DEF CPU, OtraInstruccion, HayInstruccion, EnFetch, FetchFalla, FinDeCiclo,
                CheckInterrupt, executionProces, Verificar
  <2>. QED
    BY <1>1, <1>2, <2>1, <2>2 DEF Saliendo, YaSalio, Creando
<1>. QED
  BY <1>3, <1>4

LEMMA PlanTurno ==
    ASSUME ITipos, IExec, PorTurnos, ITurno, IEspera, Planner
    PROVE  ITurno'
<1> USE DEF ITurno, ajenoAlPlan, handler, datos, De, EnPlan, cpu, cargado, colas
<1>1. /\ VaciarExec \/ ElegirSiguiente \/ Ejecutar \/ ElegirDesalojo \/ Comparar
      /\ UNCHANGED <<perfil, paso, pedido, otro, canal>>
  BY PlanDelTurno DEF VaciarExec, ElegirSiguiente, Ejecutar, ElegirDesalojo, Comparar
<1>2. (Saliendo' <=> Saliendo) /\ (YaSalio' <=> YaSalio) /\ (Creando' <=> Creando)
  BY <1>1 DEF Saliendo, YaSalio, Creando
<1>3. CASE VaciarExec
  BY <1>1, <1>2, <1>3 DEF VaciarExec, Quedo, Relevo
<1>4. CASE ElegirSiguiente
  <2>1. /\ plan = "finElige" /\ plan' \in {"envia", "atascado"}
        /\ plan' = "envia" => cola_exec' # <<>>
        /\ UNCHANGED <<cola_blocked, ciclo, Clave, terminados>>
    <3>1. /\ plan = "finElige" /\ UNCHANGED <<cola_blocked, ciclo, Clave, terminados>>
          /\ \/ plan' = "envia" /\ cola_exec' = Append(cola_exec, nuevo')
             \/ plan' = "atascado"
      BY <1>4 DEF ElegirSiguiente, Elige
    <3>2. cola_exec = <<>>
      BY <3>1 DEF IExec, SinNadie
    <3>3. Append(<<>>, nuevo') # <<>>
      OBVIOUS
    <3>. QED
      BY <3>1, <3>2, <3>3
  <2>. QED
    BY <1>1, <1>2, <2>1 DEF Quedo, Relevo
<1>5. CASE Ejecutar
  <2>1. /\ plan = "envia" /\ plan' = "espera" /\ UNCHANGED <<cola_exec, cola_blocked>>
        /\ ciclo' = ciclo \/ ciclo' = "fetch"
    BY <1>5 DEF Ejecutar, RecibirProceso
  <2>2. ~Saliendo
    BY <2>1 DEF Saliendo, YaSalio, Quedo
  <2>. QED
    BY <1>1, <1>2, <2>1, <2>2 DEF Quedo, Relevo
<1>6. CASE ElegirDesalojo
  <2>1. /\ plan = "elige" /\ plan' = "compara" /\ cola_exec # <<>>
        /\ UNCHANGED <<cola_exec, cola_blocked, ciclo, Clave, terminados>>
    BY <1>6 DEF ElegirDesalojo, Elige, Quedo
  <2>2. Hilo(nuevo') = Hilo(cola_exec[1])
    <3>1. CASE Algoritmo = "FIFO"
      <4>1. SinRelevo /\ nuevo' = TCBVacio
        BY <1>6, <3>1 DEF ElegirDesalojo, PorTurnos, HastaElFinal
      <4>. QED
        BY <2>1, <4>1 DEF IEspera, TCBVacio, Hilo
    <3>2. CASE Algoritmo # "FIFO"
      <4>1. nuevo' = planificar.tcb
        BY <1>6, <3>2 DEF ElegirDesalojo, Elige
      <4>. QED
        BY <2>1, <3>2, <4>1, EleccionQueSigue
    <3>. QED
      BY <3>1, <3>2
  <2>3. Hilo(nuevo)' = Hilo(nuevo') /\ Hilo(cola_exec[1])' = Hilo(cola_exec[1])
    BY <2>1 DEF Hilo
  <2>. QED
    BY <1>1, <1>2, <2>1, <2>2, <2>3 DEF Quedo, Relevo
<1>7. CASE Comparar
  <2>1. /\ plan = "compara" /\ cola_exec # <<>> /\ SinDesalojo
    BY <1>7 DEF Comparar, Quedo, SinDesalojo
  <2>2. plan' = "espera" /\ UNCHANGED <<cola_exec, cola_blocked, ciclo, Clave, terminados>>
    BY <1>7, <2>1 DEF Comparar
  <2>. QED
    BY <1>1, <1>2, <2>1, <2>2 DEF Quedo, Relevo
<1>. QED
  BY <1>1, <1>3, <1>4, <1>5, <1>6, <1>7

-----------------------------------------------------------------------------
(***************************************************************************)
(* Where each thread is, step by step.                                     *)
(***************************************************************************)

\* A step that moves no thread, and neither starts nor finishes an arrival.
Calmo ==
    /\ UNCHANGED <<perfil, colas, plan, nuevo>> /\ MismosHilos
    /\ \/ UNCHANGED <<paso, otro, pedido>>
       \/ paso \notin {"listo", "memoria", "envia"} /\ paso' \notin {"listo", "memoria", "envia"}

LEMMA CreadosSiguen ==
    ASSUME ITipos, MismosHilos
    PROVE  Creados' \subseteq Creados
<1>1. \A k \in DOMAIN PCBS' : k \in DOMAIN PCBS /\ PCBS'[k].ID = PCBS[k].ID /\ PCBS'[k].TIDS = PCBS[k].TIDS
  BY DEF MismosHilos
<1>2. ProcesoNuevo' => ProcesoNuevo /\ Hilo(otro)' = Hilo(otro)
  BY DEF MismosHilos, Hilo
<1>. QED
  BY <1>1, <1>2 DEF Creados

LEMMA CalmoSigue ==
    ASSUME ITipos, IEspera, ILugar, Calmo
    PROVE  IEspera' /\ ILugar'
<1> USE DEF Calmo, colas
<1>1. /\ Hilo(cola_exec[1])' = Hilo(cola_exec[1]) /\ (otro' = otro => Hilo(otro)' = Hilo(otro))
      /\ (HastaElFinal' <=> HastaElFinal) /\ (SinRelevo' <=> SinRelevo)
      /\ (HayQuienEspere' <=> HayQuienEspere) /\ Listos' = Listos
      /\ Prioridades' = Prioridades /\ (Algoritmo' = Algoritmo)
  BY DEF Hilo, HastaElFinal, SinRelevo, HayQuienEspere, Listos, Prioridades, Algoritmo, EnMulti
<1>2. paso' = "envia" /\ ~Saliendo' => paso = "envia" /\ ~Saliendo
  BY DEF Saliendo
<1>3. IEspera'
  BY <1>1, <1>2 DEF IEspera
<1>4. /\ EnExec' = EnExec /\ Salidos' = Salidos /\ Ubicados' = Ubicados
      /\ EnAmbas' <=> EnAmbas
      /\ EnCreacion' = EnCreacion
  BY <1>1 DEF EnExec, Salidos, Listos, Ubicados, EnAmbas, Saliendo, EnCreacion
<1>5. Creados' \subseteq Creados
  BY CreadosSiguen
<1>6. paso' \in {"listo", "memoria"} => paso \in {"listo", "memoria"} /\ otro' = otro
  OBVIOUS
<1>7. ILugar'
  BY <1>1, <1>4, <1>5, <1>6 DEF ILugar
<1>. QED
  BY <1>3, <1>7

\* The steps of the handlers that do neither.
Tranquilo ==
    \/ (EntraThreadCreate /\ paso' # "listo") \/ EntraFinalizar \/ ElegirAlQueTermina
    \/ AvisarMemoria \/ NadaQueSoltar \/ SoltarSinPCB \/ SoltarMutex \/ PedirVerificacion
    \/ MutexCreate

LEMMA TranquiloSigue ==
    ASSUME ITipos, IRutas, PorTurnos, ISinHerencia, ITurno, IEspera, ILugar,
           CPU \/ Verificar \/ UNCHANGED vars \/ Tranquilo
    PROVE  IEspera' /\ ILugar'
<1>0. IPCBS /\ IPedido /\ (cola_exec # <<>> => cola_exec[1].TID \in Tids)
  <2>1. TypeOK
    BY TiposDelPlan
  <2>2. cola_exec \in Seq(TCBs)
    BY <2>1 DEF TypeOK
  <2>3. cola_exec # <<>> => cola_exec[1] \in TCBs
    BY <2>2
  <2>. QED
    BY <2>3 DEF ITipos, TCBs
<1>1. CASE CPU \/ Verificar
  <2>1. MismosHilos
    BY <1>0, <1>1, DelPlanNoTocaHilos
  <2>2. /\ UNCHANGED <<perfil, colas, plan, nuevo>>
        /\ \/ UNCHANGED <<paso, otro, pedido>>
           \/ paso = "libre" /\ paso' = "entra"
    BY <1>1 DEF CPU, Syscall, OtraInstruccion, FetchFalla, FinDeCiclo, CheckInterrupt,
                executionProces, Verificar, delPlan, handler, datos
  <2>. QED
    BY <2>1, <2>2, CalmoSigue DEF Calmo
<1>2. CASE UNCHANGED vars
  <2>1. MismosHilos
    BY <1>0, <1>2 DEF MismosHilos, IPCBS, ProcesoNuevo, vars, tablas, handler, datos
  <2>2. UNCHANGED <<perfil, colas, plan, nuevo, paso, otro, pedido>>
    BY <1>2 DEF vars, delPlan, handler, datos
  <2>. QED
    BY <2>1, <2>2, CalmoSigue DEF Calmo
<1>3. CASE EntraThreadCreate /\ paso' # "listo"
  <2>1. /\ UNCHANGED <<perfil, colas, plan, nuevo, PCBS, PCB_ID, otro>>
        /\ paso = "entra" /\ paso' = "libre"
    BY <1>3 DEF EntraThreadCreate, En, Va, Responde, ajenoAlHandler, delPlan
  <2>2. MismosHilos
    BY <1>0, <2>1 DEF MismosHilos, IPCBS, ProcesoNuevo
  <2>. QED
    BY <2>1, <2>2, CalmoSigue DEF Calmo
<1>4. CASE Tranquilo /\ ~(EntraThreadCreate /\ paso' # "listo")
  <2>1. /\ paso \notin {"listo", "memoria", "envia"}
        /\ ~EntraThreadCreate /\ ~EntraProcessCreate /\ ~RegistrarPCB /\ ~BorrarPCB /\ Handler
    <3>1. paso \in {"entra", "elegir", "avisar", "soltar", "verificar"}
          /\ (paso = "entra" => pedido.op \notin {"THREAD_CREATE", "PROCESS_CREATE"})
      BY <1>4 DEF Tranquilo, EntraFinalizar, ElegirAlQueTermina, AvisarMemoria, NadaQueSoltar,
                  SoltarSinPCB, SoltarMutex, PedirVerificacion, MutexCreate, En, Es
    <3>2. Handler
      BY <1>4 DEF Tranquilo, Handler
    <3>. QED
      BY <3>1, <3>2 DEF EntraThreadCreate, EntraProcessCreate, RegistrarPCB, BorrarPCB, En, Es
  <2>2. MismosHilos
    BY <1>0, <1>4, <2>1, HandlerNoTocaHilos
  <2>3. /\ UNCHANGED <<perfil, colas, plan, nuevo>>
        /\ paso' \in {"libre", "elegir", "avisar", "aExit", "filtrar", "verificar", "desbloquear"}
    BY <1>4 DEF Tranquilo, EntraFinalizar, ElegirAlQueTermina, AvisarMemoria, NadaQueSoltar,
                  SoltarSinPCB, SoltarMutex, PedirVerificacion, MutexCreate,
                Va, Responde, Panico, ajenoAlHandler, delPlan
  <2>. QED
    BY <2>1, <2>2, <2>3, CalmoSigue DEF Calmo
<1>. QED
  BY <1>1, <1>2, <1>3, <1>4 DEF Tranquilo

\* What the planner does.
LEMMA PlanLugar ==
    ASSUME IExec, ITipos, ICopias, PorTurnos, ITurno, IEspera, ILugar, Planner
    PROVE  IEspera' /\ ILugar'
<1>1. /\ VaciarExec \/ ElegirSiguiente \/ Ejecutar \/ ElegirDesalojo \/ Comparar
      /\ UNCHANGED <<perfil, paso, pedido, otro, PCBS, PCB_ID>>
  BY PlanDelTurno DEF VaciarExec, ElegirSiguiente, Ejecutar, ElegirDesalojo, Comparar,
                      ajenoAlPlan, tablas, handler, datos
<1>2. /\ (HastaElFinal' <=> HastaElFinal) /\ (SinRelevo' <=> SinRelevo)
      /\ Prioridades' = Prioridades /\ Algoritmo' = Algoritmo /\ Hilo(otro)' = Hilo(otro)
      /\ EnCreacion' = EnCreacion /\ (Saliendo' <=> Saliendo) /\ Creados' = Creados
      /\ cola_exec' = cola_exec => Hilo(cola_exec[1])' = Hilo(cola_exec[1])
  BY <1>1 DEF HastaElFinal, SinRelevo, Prioridades, Algoritmo, Hilo, EnCreacion, Saliendo,
              Creados, ProcesoNuevo
<1>3. plan \in Relevo => paso \notin {"listo", "memoria", "envia"} /\ ~Saliendo
  <2>1. plan \in Relevo => plan \notin Quedo
    BY DEF Relevo, Quedo
  <2>. QED
    BY <2>1 DEF ITurno, YaSalio, Saliendo
\* Most steps move nobody.
<1>4. ASSUME UNCHANGED colas, plan \in {"finElige", "envia", "elige", "compara"},
             plan' \notin {"fin", "finElige", "elige"}
      PROVE  IEspera' /\ ILugar'
  <2>1. /\ (HayQuienEspere' <=> HayQuienEspere) /\ Listos' = Listos /\ EnExec' = EnExec
        /\ Salidos' = Salidos /\ Ubicados' = Ubicados /\ (EnAmbas' <=> EnAmbas)
        /\ UNCHANGED <<cola_ready, cola_exec, cola_exit, colasMultinivel>>
    BY <1>1, <1>2, <1>4 DEF colas, HayQuienEspere, EnMulti, Listos, EnExec, Salidos, Ubicados,
                            EnAmbas
  <2>2. IEspera'
    BY <1>1, <1>2, <1>4, <2>1 DEF IEspera
  <2>3. ILugar'
    BY <1>1, <1>2, <1>4, <2>1 DEF ILugar
  <2>. QED
    BY <2>2, <2>3
<1>5. CASE VaciarExec
  <2>1. /\ plan = "fin" /\ plan' = "finElige" /\ cola_exec' = <<>>
        /\ UNCHANGED <<cola_ready, cola_exit, colasMultinivel>>
    BY <1>5 DEF VaciarExec, De, EnPlan
  <2>2. Hilos(<<>>) = {}
    BY DEF Hilos
  <2>3. /\ Listos' = Listos /\ Salidos' = Salidos /\ EnExec' = {}
        /\ EnExec \subseteq Salidos /\ EnAmbas /\ ~EnAmbas' /\ Ubicados' = Ubicados
    BY <1>1, <1>2, <1>3, <2>1, <2>2 DEF Listos, Salidos, EnExec, ILugar, EnAmbas, Ubicados, Relevo
  <2>4. IEspera'
    BY <1>1, <1>2, <1>3, <2>1 DEF IEspera, Relevo
  <2>5. ILugar'
    BY <1>1, <1>2, <2>1, <2>3 DEF ILugar
  <2>. QED
    BY <2>4, <2>5
<1>6. CASE ElegirSiguiente
  <2>1. /\ plan = "finElige" /\ Elige(planificar)
        /\ IF nuevo'.Ruta
           THEN plan' = "envia" /\ cola_exec' = Append(cola_exec, nuevo')
           ELSE plan' = "atascado" /\ UNCHANGED cola_exec
    BY <1>6 DEF ElegirSiguiente, EnPlan
  <2>2. CASE planificar = Nada(TCBVacio)
    <3>1. nuevo' = TCBVacio /\ UNCHANGED <<cola_ready, colasMultinivel, cola_blocked, cola_exit>>
      BY <2>1, <2>2 DEF Elige, Nada, Eleccion
    <3>2. ~TCBVacio.Ruta
      BY DEF TCBVacio
    <3>3. plan' = "atascado" /\ UNCHANGED colas
      BY <2>1, <3>1, <3>2 DEF colas
    <3>. QED
      BY <1>4, <2>1, <3>3
  <2>3. CASE Releva(planificar)
    <3>1. /\ nuevo' = planificar.tcb /\ cola_ready' = planificar.ready
          /\ colasMultinivel' = planificar.multinivel /\ UNCHANGED cola_exit
          /\ plan' = "envia" /\ cola_exec' = Append(<<>>, nuevo')
      BY <2>1, <2>3 DEF Elige, Releva, IExec, SinNadie
    <3> DEFINE e == nuevo'
    <3>2. /\ e.Ruta /\ Hilo(e) \in Listos /\ SinRepetir(cola_ready')
          /\ Hilos(cola_ready') = Listos \ {Hilo(e)}
          /\ Range(cola_ready') \subseteq Range(cola_ready)
          /\ \A p \in Prioridades : Range(colasMultinivel'[p]) \subseteq Range(colasMultinivel[p])
      BY <2>3, <3>1 DEF Releva
    <3>3. cola_exec' = <<e>> /\ cola_exec'[1] = e /\ Hilos(cola_exec') = {Hilo(e)}
      <4>1. Append(<<>>, e) = <<e>> /\ <<e>>[1] = e /\ DOMAIN <<e>> = {1}
        OBVIOUS
      <4> HIDE DEF e
      <4>. QED
        BY <3>1, <4>1 DEF Hilos, e
    <3> HIDE DEF e
    <3>4. /\ Listos' = Listos \ {Hilo(e)} /\ EnExec' = {Hilo(e)} /\ Salidos' = Salidos
      BY <3>1, <3>2, <3>3 DEF Listos, EnExec, Salidos
    <3>5. EnExec = {} /\ ~EnAmbas /\ ~EnAmbas'
      <4>1. cola_exec = <<>>
        BY <2>1 DEF IExec, SinNadie
      <4>2. Hilos(<<>>) = {}
        BY DEF Hilos
      <4>. QED
        BY <1>1, <1>2, <1>3, <2>1, <3>1, <4>1, <4>2 DEF EnExec, EnAmbas, Relevo
    <3>6. Ubicados' = Ubicados
      BY <3>2, <3>4, <3>5 DEF Ubicados
    <3>7. Hilo(cola_exec[1])' = Hilo(e)
      BY <3>3 DEF Hilo
    <3>8. SinRelevo => Hilo(e) = <<0, 0>>
      <4> DEFINE h == TCB(0, 0, 0)
      <4>1. Hilo(h) = <<0, 0>> /\ (SinRelevo => cola_ready = <<h>>)
        BY <2>1 DEF IEspera, TCB, Hilo
      <4> HIDE DEF h
      <4>2. DOMAIN <<h>> = {1} /\ <<h>>[1] = h
        OBVIOUS
      <4>. QED
        BY <3>2, <4>1, <4>2 DEF Listos, Hilos
    <3>9. IEspera'
      BY <1>1, <1>2, <1>3, <2>1, <3>1, <3>7, <3>8 DEF IEspera, Relevo
    <3>10. ILugar'
      BY <1>1, <1>2, <1>3, <2>1, <3>1, <3>2, <3>4, <3>5, <3>6 DEF ILugar, Relevo
    <3>. QED
      BY <3>9, <3>10
  <2>. QED
    BY <2>1, <2>2, <2>3, EleccionQueReleva
<1>7. CASE Ejecutar
  BY <1>4, <1>7 DEF Ejecutar, De, EnPlan
<1>8. CASE ElegirDesalojo
  <2>1. plan = "elige" /\ plan' = "compara" /\ UNCHANGED cola_exec
    BY <1>8 DEF ElegirDesalojo, De, EnPlan, colas
  <2>2. cola_exec # <<>>
    BY <2>1 DEF ITurno, Quedo
  <2>3. UNCHANGED colas
    <3>1. CASE Algoritmo = "FIFO"
      BY <1>8, <3>1 DEF ElegirDesalojo
    <3>2. CASE Algoritmo # "FIFO"
      <4>1. planificar.ready = cola_ready /\ planificar.multinivel = colasMultinivel
        BY <2>1, <2>2, <3>2, EleccionQueSigue
      <4>2. Elige(planificar)
        BY <1>8, <3>2 DEF ElegirDesalojo
      <4>. QED
        BY <2>1, <4>1, <4>2 DEF Elige, colas
    <3>. QED
      BY <3>1, <3>2
  <2>. QED
    BY <1>4, <2>1, <2>3
<1>9. CASE Comparar
  BY <1>4, <1>9 DEF Comparar, EnPlan
<1>. QED
  BY <1>1, <1>5, <1>6, <1>7, <1>8, <1>9

LEMMA MismoPerfil ==
    ASSUME perfil' = perfil
    PROVE  /\ (HastaElFinal' <=> HastaElFinal) /\ (SinRelevo' <=> SinRelevo)
           /\ (PorTurnos' <=> PorTurnos) /\ Prioridades' = Prioridades /\ Algoritmo' = Algoritmo
BY DEF PorTurnos, HastaElFinal, SinRelevo, Prioridades, Algoritmo

\* A thread begins.
LEMMA NaceLugar ==
    ASSUME ITipos, PorTurnos, ITurno, IEspera, ILugar, paso' = "listo",
           EntraThreadCreate \/ EntraProcessCreate
    PROVE  IEspera' /\ ILugar'
<1>1. /\ UNCHANGED <<perfil, colas, plan, pedido>> /\ paso = "entra"
      /\ pedido.op \in {"THREAD_CREATE", "PROCESS_CREATE"}
  BY DEF EntraThreadCreate, EntraProcessCreate, ajenoAlHandler, delPlan, En, Es
<1>2. UNCHANGED <<cola_ready, cola_exec, cola_exit, colasMultinivel>>
  BY <1>1 DEF colas
<1>3. PICK pr : EsReparto(pr) /\ EnCasa(FichasDe(pr)) /\ Hilo(otro') \notin DOMAIN pr
  BY NacienteNuevo
<1> DEFINE G == FichasDe(pr)
<1>4. <<0, 0>> \in DOMAIN pr /\ \A t \in G : Hilo(t) \in DOMAIN pr
  BY <1>3 DEF EsReparto, FichasDe
<1>5. cola_ready \in Seq(G) /\ cola_exec \in Seq(G) /\ cola_exit \in Seq(G)
  <2> HIDE DEF G
  <2>1. EnCasa(G)
    BY <1>3 DEF G
  <2>. QED
    BY <2>1 DEF EnCasa
<1>6. Hilo(otro') \notin Ubicados /\ Hilo(otro') # <<0, 0>>
  <2> HIDE DEF G
  <2>1. \A q \in Seq(G) : Hilos(q) \subseteq DOMAIN pr
    BY <1>4 DEF Hilos
  <2>2. Ubicados \subseteq DOMAIN pr
    BY <1>5, <2>1 DEF Ubicados, Listos, EnExec, Salidos
  <2>. QED
    BY <1>3, <1>4, <2>2
<1>7. otro'.Ruta
  BY DEF EntraThreadCreate, EntraProcessCreate, TCB, Responde
<1>8. /\ Hilo(cola_exec[1])' = Hilo(cola_exec[1]) /\ Hilo(otro)' = Hilo(otro')
      /\ Listos' = Listos /\ EnExec' = EnExec /\ Salidos' = Salidos /\ Ubicados' = Ubicados
      /\ (HayQuienEspere' <=> HayQuienEspere)
  BY <1>1, <1>2, MismoPerfil DEF Hilo, Listos, EnExec, Salidos, Ubicados, HayQuienEspere, EnMulti
<1>9. EnCreacion' = {Hilo(otro')} /\ EnCreacion = {} /\ (EnAmbas' <=> EnAmbas)
  BY <1>1, <1>8 DEF EnCreacion, EnAmbas, Saliendo
<1>10. Creados' \subseteq Creados \cup {Hilo(otro')}
  <2>1. CASE EntraProcessCreate
    <3>1. PCBS' = PCBS
      BY <2>1 DEF EntraProcessCreate
    <3>. QED
      BY <1>8, <3>1 DEF Creados
  <2>2. CASE EntraThreadCreate
    <3> DEFINE k == cola_exec[1].PID + 1
               n == TIDSiguiente(PCBS[k])
    <3>1. /\ k \in DOMAIN PCBS /\ PCBS' = [PCBS EXCEPT ![k].TIDS = Append(@, n)]
          /\ otro' = TCB(PCBS[k].ID, n, pedido.arg)
          /\ pedido.op = "THREAD_CREATE"
      BY <2>2 DEF EntraThreadCreate, Responde, Es
    <3> HIDE DEF k, n
    <3>2. PCBS[k] \in Tabla /\ PCBS \in Seq(Tabla)
      BY <3>1 DEF ITipos, IPCBS
    <3>3. PCBS[k].TIDS \in Seq(Tids)
      BY <3>2 DEF Tabla
    <3>4. /\ DOMAIN PCBS' = DOMAIN PCBS /\ PCBS'[k].ID = PCBS[k].ID
          /\ PCBS'[k].TIDS = Append(PCBS[k].TIDS, n)
          /\ \A j \in DOMAIN PCBS : j # k => PCBS'[j] = PCBS[j]
      BY <3>1, <3>2 DEF Tabla
    <3>5. \A i \in DOMAIN PCBS'[k].TIDS : \/ i \in DOMAIN PCBS[k].TIDS
                                             /\ PCBS'[k].TIDS[i] = PCBS[k].TIDS[i]
                                          \/ PCBS'[k].TIDS[i] = n
      BY <3>3, <3>4
    <3>6. Hilo(otro') = <<PCBS[k].ID, n>> /\ ~ProcesoNuevo'
      BY <1>1, <3>1 DEF Hilo, TCB, ProcesoNuevo
    <3>. QED
      BY <3>1, <3>4, <3>5, <3>6 DEF Creados
  <2>. QED
    BY <2>1, <2>2
<1>11. IEspera'
  BY <1>1, <1>2, <1>6, <1>8, MismoPerfil DEF IEspera
<1>12. ILugar'
  BY <1>1, <1>2, <1>6, <1>7, <1>8, <1>9, <1>10, MismoPerfil DEF ILugar
<1>. QED
  BY <1>11, <1>12

\* It goes to READY, and to colasMultinivel.
LEMMA LlegaLugar ==
    ASSUME ITipos, ICopias, PorTurnos, ITurno, IEspera, ILugar,
           PasarAReady \/ SolicitarEspacioHilos
    PROVE  IEspera' /\ ILugar'
<1>0. PICK F : Reparto(F) /\ perfil \in Perfiles
  BY HayReparto
<1>1. /\ cola_ready \in Seq(F) /\ otro \in F /\ otro.Prioridad \in Prioridades
      /\ colasMultinivel \in [Prioridades -> Seq(F)]
  BY <1>0 DEF Reparto, EnCasa
<1>2. /\ UNCHANGED <<perfil, plan, pedido, otro, cola_exec, cola_exit, PCBS, PCB_ID>>
      /\ paso \in {"listo", "memoria"} /\ paso' \in {"memoria", "envia"}
  BY DEF PasarAReady, SolicitarEspacioHilos, ajenoAlHandler, delPlan, datos, tablas, En, Va
<1>3. Creando /\ ~Saliendo /\ ~Saliendo' /\ plan \in Quedo
  BY <1>2 DEF ITurno, YaSalio, Creando, Saliendo
<1>4. plan \notin {"fin", "finElige"} /\ ~EnAmbas /\ ~EnAmbas'
  BY <1>2, <1>3 DEF Quedo, EnAmbas
<1>5. /\ Hilo(cola_exec[1])' = Hilo(cola_exec[1]) /\ Hilo(otro)' = Hilo(otro)
      /\ EnExec' = EnExec /\ Salidos' = Salidos /\ EnCreacion' = {}
  BY <1>2 DEF Hilo, EnExec, Salidos, EnCreacion
<1>6. Creados' \subseteq Creados
  BY <1>2, <1>5 DEF Creados, ProcesoNuevo
<1>7. CASE PasarAReady
  <2>1. /\ cola_ready' = Append(cola_ready, otro) /\ paso = "listo" /\ paso' = "memoria"
        /\ UNCHANGED colasMultinivel
    BY <1>7 DEF PasarAReady, En, Va
  <2>2. /\ EnCreacion = {Hilo(otro)} /\ Hilo(otro) \notin Listos /\ Hilo(otro) \notin EnExec
        /\ Hilo(otro) \notin Salidos
    BY <2>1 DEF EnCreacion, ILugar, Ubicados
  <2>3. LlegaA(F, cola_ready, otro, cola_ready')
    BY <1>1, <2>1 DEF LlegaA
  <2>4. SinRepetir(cola_ready') /\ Hilos(cola_ready') = Listos \cup {Hilo(otro)}
    BY <2>2, <2>3, LlegaSinRepetir DEF ILugar, Listos
  <2>5. Listos' = Listos \cup {Hilo(otro)}
    BY <2>4 DEF Listos
  <2>6. Range(cola_ready') = Range(cola_ready) \cup {otro}
    BY <1>1, <2>1, RangoAppend
  <2>7. HayQuienEspere => HayQuienEspere'
    <3>1. cola_ready' # <<>>
      BY <1>1, <2>1
    <3>. QED
      BY <1>2, <2>1, <3>1, MismoPerfil DEF HayQuienEspere, EnMulti
  <2>8. IEspera'
    BY <1>2, <1>4, <1>5, <2>1, <2>5, <2>7, MismoPerfil DEF IEspera
  <2>9. ILugar'
    BY <1>2, <1>4, <1>5, <1>6, <2>1, <2>2, <2>4, <2>5, <2>6, MismoPerfil DEF ILugar, Ubicados
  <2>. QED
    BY <2>8, <2>9
<1>8. CASE SolicitarEspacioHilos
  <2>1. /\ colasMultinivel' = agregarTCB(otro) /\ UNCHANGED cola_ready
        /\ paso = "memoria" /\ paso' = "envia"
    BY <1>8 DEF SolicitarEspacioHilos, En, Va
  <2>2. Listos' = Listos /\ EnCreacion = {} /\ Hilo(otro) \in Listos
    BY <2>1 DEF Listos, EnCreacion, IEspera
  <2>3. HastaElFinal => HayQuienEspere'
    <3>1. cola_ready # <<>>
      <4>1. Hilos(<<>>) = {}
        BY DEF Hilos
      <4>. QED
        BY <2>2, <4>1 DEF Listos
    <3>2. ASSUME HastaElFinal, Algoritmo = "CMN" PROVE EnMulti' # {}
      <4>1. IReady /\ INaciente
        BY <3>2, HastaElFinalSinBajas DEF ICopias
      <4>2. HilosDe(colasMultinivel') = EnMulti \cup {Hilo(otro)}
        BY <1>0, <1>1, <2>1, <3>2, <4>1, AgregarSinCopias DEF IReady, INaciente
      <4>. QED
        BY <4>2 DEF EnMulti
    <3>. QED
      BY <1>2, <2>1, <3>1, <3>2, MismoPerfil DEF HayQuienEspere
  <2>4. \A p \in Prioridades : Range(colasMultinivel'[p]) \subseteq Range(colasMultinivel[p]) \cup {otro}
    <3>1. CASE Algoritmo = "CMN"
      <4>1. colasMultinivel' = [colasMultinivel EXCEPT ![otro.Prioridad] =
                                   Append(colasMultinivel[otro.Prioridad], otro)]
        BY <2>1, <3>1 DEF agregarTCB
      <4>2. Range(Append(colasMultinivel[otro.Prioridad], otro)) =
              Range(colasMultinivel[otro.Prioridad]) \cup {otro}
        BY <1>1, RangoAppend
      <4>. QED
        BY <1>1, <4>1, <4>2
    <3>2. CASE Algoritmo # "CMN"
      BY <2>1, <3>2 DEF agregarTCB
    <3>. QED
      BY <3>1, <3>2
  <2>5. IEspera'
    BY <1>2, <1>4, <1>5, <2>1, <2>3, MismoPerfil DEF IEspera
  <2>6. ILugar'
    BY <1>2, <1>4, <1>5, <1>6, <2>1, <2>2, <2>4, MismoPerfil DEF ILugar, Ubicados
  <2>. QED
    BY <2>5, <2>6
<1>. QED
  BY <1>7, <1>8

\* Its creation is announced, or the end of another thread is.
LEMMA AvisaLugar ==
    ASSUME ITipos, PorTurnos, ITurno, IEspera, ILugar, Enviar \/ RegistrarPCB
    PROVE  IEspera' /\ ILugar'
<1>1. /\ UNCHANGED <<perfil, colas, otro, pedido>>
      /\ UNCHANGED <<cola_ready, cola_exec, cola_exit, colasMultinivel>>
  BY DEF Enviar, RegistrarPCB, ajenoAlHandler, datos, colas
<1>2. /\ Hilo(cola_exec[1])' = Hilo(cola_exec[1]) /\ Hilo(otro)' = Hilo(otro)
      /\ Listos' = Listos /\ EnExec' = EnExec /\ Salidos' = Salidos /\ Ubicados' = Ubicados
      /\ (HayQuienEspere' <=> HayQuienEspere)
  BY <1>1, MismoPerfil DEF Hilo, Listos, EnExec, Salidos, Ubicados, HayQuienEspere, EnMulti
<1>3. CASE Enviar
  <2>1. /\ plan' = (IF Saliendo THEN "fin" ELSE "elige")
        /\ paso' \in {"libre", "registrar", "soltar"}
    BY <1>3, EnviarTurno
  <2>2. paso = "envia" /\ plan = "espera" /\ UNCHANGED <<PCBS, PCB_ID>>
    BY <1>3 DEF Enviar, En, tablas
  <2>3. Saliendo => ~SinRelevo
    BY LlamadasDelTurno DEF Saliendo
  <2>4. EnCreacion' = {} /\ EnCreacion = {} /\ (EnAmbas' <=> EnAmbas)
    BY <1>1, <2>1, <2>2 DEF EnCreacion, EnAmbas, Saliendo
  <2>5. Creados' \subseteq Creados
    BY <1>1, <1>2, <2>1, <2>2 DEF Creados, ProcesoNuevo
  <2>6. IEspera'
    BY <1>1, <1>2, <2>1, <2>2, <2>3, MismoPerfil DEF IEspera
  <2>7. ILugar'
    BY <1>1, <1>2, <2>1, <2>4, <2>5, MismoPerfil DEF ILugar
  <2>. QED
    BY <2>6, <2>7
<1>4. CASE RegistrarPCB
  <2>1. /\ paso = "registrar" /\ paso' = "libre" /\ UNCHANGED plan
        /\ PCBS' = Append(PCBS, crearPCB(otro.PID, <<0>>))
    BY <1>4 DEF RegistrarPCB, En, Responde, ajenoAlHandler, delPlan
  <2>2. pedido.op = "PROCESS_CREATE" /\ ProcesoNuevo /\ ~ProcesoNuevo'
    BY <2>1 DEF ITipos, IPedido, ProcesoNuevo
  <2>3. Hilo(otro) = <<otro.PID, 0>>
    <3>1. PICK pr : EsReparto(pr) /\ EnCasa(FichasDe(pr))
      BY DEF ITipos, IFichas
    <3>2. otro \in FichasDe(pr) /\ otro.PID = PCB_ID
      BY <2>2, <3>1 DEF EnCasa, ITipos, IPCBS
    <3>3. Hilo(otro) \in DOMAIN pr
      BY <3>2 DEF FichasDe
    <3>4. Hilo(otro)[1] = PCB_ID => Hilo(otro)[2] = 0
      BY <2>2, <3>1, <3>3 DEF EsReparto
    <3>. QED
      BY <3>2, <3>4 DEF Hilo
  <2>4. Creados' \subseteq Creados
    <3> DEFINE c == crearPCB(otro.PID, <<0>>)
    <3>1. c.ID = otro.PID /\ c.TIDS = <<0>>
      BY DEF crearPCB
    <3>2. c \in Tabla \/ c \notin Tabla
      OBVIOUS
    <3>3. PCBS \in Seq(Tabla) /\ PCBS' = Append(PCBS, c)
      BY <2>1 DEF ITipos, IPCBS
    <3> HIDE DEF c
    <3>4. /\ DOMAIN PCBS' = 1 .. Len(PCBS) + 1 /\ DOMAIN PCBS = 1 .. Len(PCBS) /\ Len(PCBS) \in Nat
          /\ PCBS'[Len(PCBS) + 1] = c /\ \A k \in 1 .. Len(PCBS) : PCBS'[k] = PCBS[k]
      BY <3>3
    <3>5. \A k \in DOMAIN PCBS' : (k \in DOMAIN PCBS /\ PCBS'[k] = PCBS[k]) \/ PCBS'[k] = c
      BY <3>4
    <3>6. DOMAIN <<0>> = {1} /\ <<0>>[1] = 0
      OBVIOUS
    <3>7. \A i \in DOMAIN c.TIDS : <<c.ID, c.TIDS[i]>> = Hilo(otro)
      BY <2>3, <3>1, <3>6
    <3>. QED
      BY <2>2, <3>5, <3>7 DEF Creados
  <2>5. EnCreacion' = {} /\ EnCreacion = {} /\ (EnAmbas' <=> EnAmbas)
    BY <1>1, <2>1 DEF EnCreacion, EnAmbas, Saliendo
  <2>6. IEspera'
    BY <1>1, <1>2, <2>1, MismoPerfil DEF IEspera
  <2>7. ILugar'
    BY <1>1, <1>2, <2>1, <2>4, <2>5, MismoPerfil DEF ILugar
  <2>. QED
    BY <2>6, <2>7
<1>. QED
  BY <1>3, <1>4

\* A thread ends.
LEMMA TerminaLugar ==
    ASSUME IExec, ITipos, IRutas, PorTurnos, ITurno, IEspera, ILugar,
           FiltrarReady \/ FiltrarMultinivel \/ PasarAExit
    PROVE  IEspera' /\ ILugar'
<1>0. PICK F : Reparto(F) /\ perfil \in Perfiles
  BY HayReparto
<1>1. /\ cola_ready \in Seq(F) /\ cola_exec \in Seq(F) /\ cola_exit \in Seq(F)
      /\ colasMultinivel \in [Prioridades -> Seq(F)]
  BY <1>0 DEF Reparto, EnCasa
<1>2. /\ UNCHANGED <<perfil, plan, pedido, otro, cola_exec, PCBS, PCB_ID>>
      /\ paso \in {"filtrar", "filtrarMulti", "aExit"}
      /\ paso' \in {"libre", "filtrarMulti", "soltar", "envia"}
      /\ paso' = "envia" => PasarAExit
  BY DEF FiltrarReady, FiltrarMultinivel, PasarAExit, ajenoAlHandler, delPlan, datos, tablas,
         En, Va, Responde, Panico
<1>3. plan \in Quedo /\ plan \notin {"fin", "finElige"} /\ cola_exec # <<>>
  BY <1>2 DEF ITurno, YaSalio, Quedo
<1>4. /\ Hilo(cola_exec[1])' = Hilo(cola_exec[1]) /\ EnExec' = EnExec
      /\ EnCreacion = {} /\ EnCreacion' = {} /\ ~EnAmbas
  BY <1>2, <1>3 DEF Hilo, EnExec, EnCreacion, EnAmbas
<1>5. Creados' \subseteq Creados
  <2>1. pedido.op # "PROCESS_CREATE"
    BY <1>2 DEF IRutas, ITurno
  <2>. QED
    BY <1>2, <2>1 DEF Creados, ProcesoNuevo
<1>6. CASE FiltrarReady
  <2> DEFINE quedan == SinTID(cola_ready, pedido.arg)
             salen  == ConTID(cola_ready, pedido.arg)
  <2>1. /\ cola_ready' = quedan /\ cola_exit' = cola_exit \o salen
        /\ UNCHANGED colasMultinivel /\ paso = "filtrar"
    BY <1>6 DEF FiltrarReady, En
  <2>2. pedido.op = "THREAD_CANCEL"
    BY <2>1 DEF IRutas
  <2>3. ~HastaElFinal
    BY <2>2, LlamadasDelTurno
  <2>4. /\ quedan \in Seq(F) /\ SinRepetir(quedan)
        /\ Range(quedan) = {t \in Range(cola_ready) : t.TID # pedido.arg}
        /\ salen \in Seq(F) /\ SinRepetir(salen)
        /\ Range(salen) = {t \in Range(cola_ready) : t.TID = pedido.arg}
    <3>1. SinRepetir(cola_ready)
      BY DEF ILugar
    <3>. QED
      BY <1>1, <3>1, FiltraDa, FiltraSinRepetir DEF SinTID, ConTID
  <2> HIDE DEF quedan, salen
  <2>5. \A q : Hilos(q) = {Hilo(t) : t \in Range(q)}
    BY DEF Hilos, Range
  <2>6. /\ Hilos(quedan) \cup Hilos(salen) = Listos
        /\ Hilos(quedan) \cap Hilos(salen) = {}
    <3>1. \A t, u : Hilo(t) = Hilo(u) => t.TID = u.TID
      BY DEF Hilo
    <3>. QED
      BY <2>4, <2>5, <3>1 DEF Listos
  <2>7. SinRepetir(cola_exit') /\ Hilos(cola_exit') = Salidos \cup Hilos(salen)
    <3>1. SeSumanA(F, cola_exit, salen, cola_exit')
      BY <1>1, <2>1, <2>4 DEF SeSumanA
    <3>2. SinRepetir(cola_exit) /\ Hilos(cola_exit) \cap Hilos(salen) = {}
      BY <2>6 DEF ILugar, Salidos
    <3>. QED
      BY <2>4, <3>1, <3>2, SumaSinRepetir DEF Salidos
  <2>8. Listos' = Hilos(quedan) /\ Salidos' = Salidos \cup Hilos(salen)
    BY <2>1, <2>7 DEF Listos, Salidos
  <2>9. ~EnAmbas'
    BY <1>2, <1>3, <2>2 DEF EnAmbas, Saliendo
  <2>10. IEspera'
    BY <1>2, <1>3, <1>4, <2>2, <2>3, MismoPerfil DEF IEspera
  <2>11. ILugar'
    BY <1>2, <1>4, <1>5, <2>1, <2>4, <2>6, <2>7, <2>8, <2>9, MismoPerfil DEF ILugar, Ubicados
  <2>. QED
    BY <2>10, <2>11
<1>7. CASE FiltrarMultinivel
  <2>1. /\ UNCHANGED <<cola_ready, cola_exit>> /\ paso = "filtrarMulti" /\ paso' = "soltar"
        /\ colasMultinivel' = [p \in Prioridades |-> SinTID(colasMultinivel[p], yo.TID)]
    BY <1>7 DEF FiltrarMultinivel, En, Va
  <2>2. pedido.op = "THREAD_CANCEL"
    BY <2>1 DEF IRutas
  <2>3. ~HastaElFinal
    BY <2>2, LlamadasDelTurno
  <2>4. \A p \in Prioridades : Range(colasMultinivel'[p]) \subseteq Range(colasMultinivel[p])
    BY <1>1, <2>1, FiltraDa DEF SinTID
  <2>5. Listos' = Listos /\ Salidos' = Salidos /\ ~EnAmbas'
    BY <1>2, <1>3, <2>1, <2>2 DEF Listos, Salidos, EnAmbas, Saliendo
  <2>6. IEspera'
    BY <1>2, <1>3, <1>4, <2>1, <2>2, <2>3, MismoPerfil DEF IEspera
  <2>7. ILugar'
    BY <1>2, <1>4, <1>5, <2>1, <2>4, <2>5, MismoPerfil DEF ILugar, Ubicados
  <2>. QED
    BY <2>6, <2>7
<1>8. CASE PasarAExit
  <2>1. /\ cola_exit' = Append(cola_exit, cola_exec[1]) /\ paso = "aExit" /\ paso' = "envia"
        /\ UNCHANGED <<cola_ready, colasMultinivel>>
    BY <1>3, <1>8 DEF PasarAExit, En, Va
  <2>2. pedido.op = "THREAD_EXIT" /\ Saliendo /\ Saliendo' /\ EnAmbas'
    BY <1>2, <2>1 DEF ITurno, Saliendo, EnAmbas
  <2>3. EnExec = {Hilo(cola_exec[1])} /\ cola_exec[1] \in F
    <3>1. PICK t : cola_exec = <<t>>
      BY <1>3 DEF IExec, UnoONinguno
    <3>2. DOMAIN <<t>> = {1} /\ <<t>>[1] = t
      OBVIOUS
    <3>. QED
      BY <1>1, <1>3, <3>1, <3>2 DEF EnExec, Hilos
  <2> DEFINE e == cola_exec[1]
  <2>4. LlegaA(F, cola_exit, e, cola_exit') /\ Hilo(e) \notin Salidos /\ Hilo(e) \notin Listos
    BY <1>1, <1>4, <2>1, <2>3 DEF LlegaA, ILugar
  <2>5. SinRepetir(cola_exit') /\ Hilos(cola_exit') = Salidos \cup {Hilo(e)}
    BY <2>4, LlegaSinRepetir DEF ILugar, Salidos
  <2>6. Salidos' = Salidos \cup EnExec /\ Listos' = Listos
    BY <2>1, <2>3, <2>5 DEF Salidos, Listos
  <2>7. IEspera'
    <3>1. ~SinRelevo
      BY <2>2, LlamadasDelTurno
    <3>2. HayQuienEspere' <=> HayQuienEspere
      BY <1>2, <2>1, MismoPerfil DEF HayQuienEspere, EnMulti
    <3>. QED
      BY <1>2, <1>3, <1>4, <2>1, <2>2, <3>1, <3>2, MismoPerfil DEF IEspera
  <2>8. ILugar'
    BY <1>2, <1>4, <1>5, <2>1, <2>2, <2>4, <2>3, <2>5, <2>6, MismoPerfil DEF ILugar, Ubicados
  <2>. QED
    BY <2>7, <2>8
<1>. QED
  BY <1>6, <1>7, <1>8

LEMMA HandlerLugar ==
    ASSUME IExec, ITipos, IRutas, ICopias, PorTurnos, ISinHerencia, ITurno, IEspera, ILugar,
           Handler
    PROVE  IEspera' /\ ILugar'
<1>1. \/ Tranquilo
      \/ (EntraThreadCreate \/ EntraProcessCreate) /\ paso' = "listo"
      \/ PasarAReady \/ SolicitarEspacioHilos
      \/ Enviar \/ RegistrarPCB
      \/ FiltrarReady \/ FiltrarMultinivel \/ PasarAExit
  BY PasosDelTurno DEF Tranquilo, EntraProcessCreate, Va
<1>. QED
  BY <1>1, TranquiloSigue, NaceLugar, LlegaLugar, AvisaLugar, TerminaLugar

LEMMA HandlerTurno ==
    ASSUME ITipos, IRutas, PorTurnos, ISinHerencia, ITurno, IEspera, Handler
    PROVE  ITurno'
BY PasosDelTurno, HandlerAnda, AndaSigue, EnviarTurno

LEMMA PasoVida ==
    ASSUME IExec, ITipos, IRutas, ICopias, IVida, [Next]_vars
    PROVE  IVida'
<1> SUFFICES ASSUME PorTurnos' PROVE (ISinHerencia /\ ITurno /\ IEspera /\ ILugar)'
  BY DEF IVida
<1>1. PorTurnos /\ ISinHerencia /\ ITurno /\ IEspera /\ ILugar
  BY PerfilFijo, MismoPerfil DEF IVida
<1>2. ISinHerencia'
  BY <1>1, SinHerenciaSigue, TurnosSinEsperas
<1>3. CASE UNCHANGED vars
  <2>1. ITurno'
    BY <1>1, <1>3 DEF ITurno, vars, colas, delPlan, handler, datos, cpu, cargado, Saliendo,
                      YaSalio, Creando, Hilo
  <2>. QED
    BY <1>1, <1>2, <1>3, <2>1, TranquiloSigue
<1>4. CASE CPU \/ Verificar
  BY <1>1, <1>2, <1>4, CPUTurno, TranquiloSigue
<1>5. CASE Planner
  BY <1>1, <1>2, <1>5, PlanTurno, PlanLugar
<1>6. CASE Handler
  BY <1>1, <1>2, <1>6, HandlerTurno, HandlerLugar
<1>. QED
  BY <1>3, <1>4, <1>5, <1>6 DEF Next

\* Where each thread is, and whose turn, never stops being so.
THEOREM VidaEnPie == Spec => []IVida
<1>1. IExec /\ ITipos /\ IUrgencia /\ ICopias /\ IVida /\ [Next]_vars => IVida'
  BY PasoVida DEF IUrgencia
<1>. QED
  BY <1>1, InicioVida, ExecEnPie, TiposEnPie, UrgenciaEnPie, CopiasEnPie, PTL DEF Spec

LEMMA VidaDa == IExec /\ ITipos /\ IVida => (PorTurnos => CadaUnoEnSuCola)
<1> SUFFICES ASSUME IExec, ITipos, IVida, PorTurnos, EnReposo, NEW k \in DOMAIN PCBS,
                    NEW i \in DOMAIN PCBS[k].TIDS
             PROVE  Lugares(<<PCBS[k].ID, PCBS[k].TIDS[i]>>) = 1
  BY DEF CadaUnoEnSuCola
<1> DEFINE h == <<PCBS[k].ID, PCBS[k].TIDS[i]>>
<1>1. ITurno /\ ILugar
  BY DEF IVida
<1>2. PICK F : EnCasa(F)
  BY HayReparto DEF Reparto
<1>3. /\ cola_ready \in Seq(F) /\ cola_exec \in Seq(F) /\ cola_exit \in Seq(F)
      /\ cola_blocked = <<>> /\ <<>> \in Seq(F)
  BY <1>1, <1>2 DEF EnCasa, ITurno
<1>4. SinRepetir(cola_ready) /\ SinRepetir(cola_exit) /\ SinRepetir(<<>>)
  BY <1>1 DEF ILugar, SinRepetir
<1>5. SinRepetir(cola_exec)
  <2>1. CASE cola_exec = <<>>
    BY <1>4, <2>1
  <2>2. CASE cola_exec # <<>>
    <3>1. PICK t : cola_exec = <<t>>
      BY <2>2 DEF IExec, UnoONinguno
    <3>2. DOMAIN <<t>> = {1}
      OBVIOUS
    <3>. QED
      BY <3>1, <3>2 DEF SinRepetir
  <2>. QED
    BY <2>1, <2>2
<1>6. h \in Creados
  BY DEF Creados
<1>7. EnCreacion = {} /\ ~EnAmbas
  BY DEF EnReposo, EnCreacion, EnAmbas, Saliendo
<1>8. /\ h \in Listos \cup EnExec \cup Salidos
      /\ Listos \cap Salidos = {} /\ EnExec \cap Listos = {} /\ EnExec \cap Salidos = {}
  BY <1>1, <1>6, <1>7 DEF ILugar, Ubicados
<1> HIDE DEF h
<1>9. /\ Len(ConHilo(cola_ready, h)) = IF h \in Listos THEN 1 ELSE 0
      /\ Len(ConHilo(cola_exec, h)) = IF h \in EnExec THEN 1 ELSE 0
      /\ Len(ConHilo(cola_exit, h)) = IF h \in Salidos THEN 1 ELSE 0
  BY <1>3, <1>4, <1>5, UnLugar DEF Listos, EnExec, Salidos
<1>10. Len(ConHilo(cola_blocked, h)) = 0
  <2>1. Hilos(<<>>) = {}
    BY DEF Hilos
  <2>. QED
    BY <1>3, <1>4, <2>1, UnLugar
<1>11. Lugares(h) = 1
  BY <1>8, <1>9, <1>10 DEF Lugares
<1>. QED
  BY <1>11 DEF h

\* In those programs, at rest every thread of every process is in exactly one of the
\* queues, whatever the threads and the processes: none is lost or left in two.
THEOREM SiempreEnSuCola == Spec => [](PorTurnos => CadaUnoEnSuCola)
BY TiposEnPie, ExecEnPie, VidaEnPie, VidaDa, PTL

-----------------------------------------------------------------------------
(***************************************************************************)
(* The life cycle of Estados, step by step.                                *)
(***************************************************************************)

Situacion(h) ==
    IF h \in Salidos THEN "EXIT" ELSE IF h \in EnExec THEN "EXEC"
    ELSE IF h \in Listos THEN "READY" ELSE "NEW"

EstadoEs == estado = [h \in Claves |-> Situacion(h)]

\* In these programs the queues say the state of each thread: the one the planner has in
\* hand is the one in EXEC.
LEMMA EstadoDa == ITipos /\ IExec /\ IVida => (PorTurnos => EstadoEs)
<1> SUFFICES ASSUME ITipos, IExec, IVida, PorTurnos PROVE EstadoEs
  OBVIOUS
<1>1. ITurno
  BY DEF IVida
<1>2. PICK F : EnCasa(F)
  BY HayReparto DEF Reparto
<1>3. cola_blocked = <<>> /\ cola_exit \in Seq(F) /\ cola_exec \in Seq(F)
  BY <1>1, <1>2 DEF EnCasa, ITurno
<1>4. cola_exit \o cola_blocked = cola_exit
  BY <1>3
<1>5. Hilos(cola_blocked) = {}
  BY <1>3 DEF Hilos
<1>6. ASSUME NEW h, EnMano(h) PROVE h \in EnExec
  <2>1. paso # "encolar" /\ plan \in Quedo \cup Relevo
    BY <1>1 DEF ITurno
  <2>2. plan = "compara" /\ Hilo(nuevo) = h
    BY <1>6, <2>1 DEF EnMano, Quedo, Relevo
  <2>3. cola_exec # <<>> /\ Hilo(cola_exec[1]) = h
    BY <1>1, <2>2 DEF ITurno, Quedo
  <2>4. 1 \in DOMAIN cola_exec
    BY <1>3, <2>3
  <2>. QED
    BY <2>3, <2>4 DEF EnExec, Hilos
<1>7. \A h \in Claves : estado[h] = Situacion(h)
  BY <1>4, <1>5, <1>6 DEF estado, Situacion, Salidos, EnExec, Listos
<1>8. DOMAIN estado = Claves /\ estado = [h \in Claves |-> estado[h]]
  BY DEF estado
<1>. QED
  BY <1>7, <1>8 DEF EstadoEs

LEMMA NoMuda ==
    ASSUME EstadoEs, EstadoEs', Salidos' = Salidos, Listos' = Listos,
           EnExec' \ Salidos = EnExec \ Salidos
    PROVE  UNCHANGED estado
<1>1. \A h \in Claves : Situacion(h)' = Situacion(h)
  BY DEF Situacion
<1>. QED
  BY <1>1 DEF EstadoEs

LEMMA Muda ==
    ASSUME EstadoEs, EstadoEs', NEW h \in Claves, NEW d, NEW a, Situacion(h) = d,
           Situacion(h)' = a, \A g \in Claves : g # h => Situacion(g)' = Situacion(g)
    PROVE  CicloDeVida!Pasa(h, d, a)
<1>1. estado[h] = d /\ estado' = [g \in Claves |-> IF g = h THEN a ELSE estado[g]]
  BY DEF EstadoEs
<1>2. estado' = [estado EXCEPT ![h] = a]
  BY <1>1 DEF EstadoEs
<1>. QED
  BY <1>1, <1>2 DEF CicloDeVida!Pasa

\* The threads of every queue are among those there may be.
LEMMA HilosClaves ==
    ASSUME ITipos
    PROVE  /\ cola_ready \in Seq(TCBs) /\ cola_exec \in Seq(TCBs) /\ cola_exit \in Seq(TCBs)
           /\ otro \in TCBs
           /\ \A t \in TCBs : Hilo(t) \in Claves
           /\ Listos \subseteq Claves /\ EnExec \subseteq Claves
<1>1. /\ cola_ready \in Seq(TCBs) /\ cola_exec \in Seq(TCBs) /\ cola_exit \in Seq(TCBs)
      /\ otro \in TCBs
  BY TiposDelPlan DEF TypeOK
<1>2. \A t \in TCBs : Hilo(t) \in Claves
  BY DEF TCBs, Hilo, Claves
<1>3. \A q \in Seq(TCBs) : Hilos(q) \subseteq Claves
  BY <1>2 DEF Hilos
<1>. QED
  BY <1>1, <1>2, <1>3 DEF Listos, EnExec

\* The steps that change the state of a thread.
LEMMA CreaEstado ==
    ASSUME ITipos, ILugar, EstadoEs, EstadoEs', PasarAReady
    PROVE  \E h \in Claves : CicloDeVida!Crear(h)
<1>1. /\ cola_ready' = Append(cola_ready, otro) /\ UNCHANGED <<cola_exec, cola_exit>>
      /\ paso = "listo"
  BY DEF PasarAReady, En
<1>2. PICK h \in Claves : h = Hilo(otro) /\ h \notin Ubicados
  BY <1>1, HilosClaves DEF ILugar, EnCreacion
<1>3. Listos' = Listos \cup {h} /\ EnExec' = EnExec /\ Salidos' = Salidos
  BY <1>1, <1>2, HilosClaves, HilosAppend DEF Listos, EnExec, Salidos
<1>4. /\ Situacion(h) = "NEW" /\ Situacion(h)' = "READY"
      /\ \A g \in Claves : g # h => Situacion(g)' = Situacion(g)
  BY <1>2, <1>3 DEF Situacion, Ubicados
<1>. QED
  BY <1>4, Muda DEF CicloDeVida!Crear

LEMMA DespachaEstado ==
    ASSUME ITipos, IExec, ICopias, PorTurnos, ITurno, IEspera, ILugar, EstadoEs, EstadoEs',
           ElegirSiguiente
    PROVE  UNCHANGED estado \/ \E h \in Claves : CicloDeVida!Despachar(h)
<1>1. /\ plan = "finElige" /\ Elige(planificar)
      /\ IF nuevo'.Ruta THEN cola_exec' = Append(cola_exec, nuevo') ELSE UNCHANGED cola_exec
  BY DEF ElegirSiguiente, EnPlan
<1>2. cola_exec = <<>> /\ EnExec = {}
  <2>1. Hilos(<<>>) = {}
    BY DEF Hilos
  <2>. QED
    BY <1>1, <2>1 DEF IExec, SinNadie, EnExec
<1>3. CASE planificar = Nada(TCBVacio)
  <2>1. nuevo' = TCBVacio /\ UNCHANGED <<cola_ready, cola_exit>>
    BY <1>1, <1>3 DEF Elige, Nada, Eleccion
  <2>2. ~TCBVacio.Ruta
    BY DEF TCBVacio
  <2>3. Listos' = Listos /\ EnExec' = EnExec /\ Salidos' = Salidos
    BY <1>1, <2>1, <2>2 DEF Listos, EnExec, Salidos
  <2>. QED
    BY <2>3, NoMuda
<1>4. CASE Releva(planificar)
  <2>1. nuevo' = planificar.tcb /\ cola_ready' = planificar.ready /\ UNCHANGED cola_exit
    BY <1>1 DEF Elige
  <2>2. /\ nuevo'.Ruta /\ Hilo(nuevo') \in Listos
        /\ Hilos(cola_ready') = Listos \ {Hilo(nuevo')}
    BY <1>4, <2>1 DEF Releva
  <2>3. PICK e : e = nuevo'
    OBVIOUS
  <2>4. PICK h \in Claves : h = Hilo(e) /\ h \notin Salidos
    BY <2>2, <2>3, HilosClaves DEF ILugar
  <2>5. cola_exec' = <<e>> /\ Hilos(<<e>>) = {h}
    <3>1. Append(<<>>, e) = <<e>> /\ DOMAIN <<e>> = {1} /\ <<e>>[1] = e
      OBVIOUS
    <3>2. cola_exec' = <<e>>
      BY <1>1, <1>2, <2>2, <2>3, <3>1
    <3>. QED
      BY <2>4, <3>1, <3>2 DEF Hilos
  <2>6. Listos' = Listos \ {h} /\ EnExec' = {h} /\ Salidos' = Salidos /\ h \in Listos
    BY <2>1, <2>2, <2>3, <2>4, <2>5 DEF Listos, EnExec, Salidos
  <2>7. /\ Situacion(h) = "READY" /\ Situacion(h)' = "EXEC"
        /\ \A g \in Claves : g # h => Situacion(g)' = Situacion(g)
    BY <1>2, <2>4, <2>6 DEF Situacion
  <2>8. CicloDeVida!En("EXEC") = {}
    BY <1>2 DEF CicloDeVida!En, EstadoEs, Situacion
  <2>. QED
    BY <2>7, <2>8, Muda DEF CicloDeVida!Despachar
<1>. QED
  BY <1>1, <1>3, <1>4, EleccionQueReleva

LEMMA TerminaEstado ==
    ASSUME ITipos, IExec, PorTurnos, ITurno, ILugar, EstadoEs, EstadoEs', PasarAExit
    PROVE  \E h \in Claves : CicloDeVida!Terminar(h)
<1>1. cola_exec # <<>> /\ paso = "aExit" /\ pedido.op = "THREAD_EXIT" /\ plan \in Quedo
  BY DEF PasarAExit, En, ITurno, YaSalio, Quedo
<1>2. cola_exit' = Append(cola_exit, cola_exec[1]) /\ UNCHANGED <<cola_exec, cola_ready>>
  BY <1>1 DEF PasarAExit
<1>3. cola_exec[1] \in TCBs /\ EnExec = {Hilo(cola_exec[1])}
  <2>1. PICK t : cola_exec = <<t>>
    BY <1>1 DEF IExec, UnoONinguno
  <2>2. DOMAIN <<t>> = {1} /\ <<t>>[1] = t
    OBVIOUS
  <2>. QED
    BY <1>1, <2>1, <2>2, HilosClaves DEF EnExec, Hilos
<1>4. PICK h \in Claves : h = Hilo(cola_exec[1]) /\ h \notin Salidos
  <2>1. ~EnAmbas
    BY <1>1 DEF EnAmbas, Quedo
  <2>. QED
    BY <1>3, <2>1, HilosClaves DEF ILugar
<1>5. Listos' = Listos /\ EnExec' = EnExec /\ Salidos' = Salidos \cup {h}
  BY <1>2, <1>3, <1>4, HilosClaves, HilosAppend DEF Listos, EnExec, Salidos
<1>6. /\ Situacion(h) = "EXEC" /\ Situacion(h)' = "EXIT"
      /\ \A g \in Claves : g # h => Situacion(g)' = Situacion(g)
  BY <1>3, <1>4, <1>5 DEF Situacion
<1>. QED
  BY <1>6, Muda DEF CicloDeVida!Terminar

LEMMA CancelaEstado ==
    ASSUME ITipos, IRutas, PorTurnos, ITurno, ILugar, EstadoEs, EstadoEs', FiltrarReady
    PROVE  \E S \in SUBSET CicloDeVida!En("READY") : CicloDeVida!TerminarListos(S)
<1> DEFINE quedan == SinTID(cola_ready, pedido.arg)
           salen  == ConTID(cola_ready, pedido.arg)
           S      == Hilos(salen)
<1>1. /\ cola_ready' = quedan /\ cola_exit' = cola_exit \o salen /\ UNCHANGED cola_exec
      /\ paso = "filtrar"
  BY DEF FiltrarReady, En
<1>2. /\ Range(quedan) = {t \in Range(cola_ready) : t.TID # pedido.arg}
      /\ salen \in Seq(TCBs)
      /\ Range(salen) = {t \in Range(cola_ready) : t.TID = pedido.arg}
  BY HilosClaves, FiltraDa DEF SinTID, ConTID
<1> HIDE DEF quedan, salen
<1>3. \A q : Hilos(q) = {Hilo(t) : t \in Range(q)}
  BY DEF Hilos, Range
<1>4. S \subseteq Listos /\ Hilos(quedan) = Listos \ S
  <2>1. \A t, u : Hilo(t) = Hilo(u) => t.TID = u.TID
    BY DEF Hilo
  <2>. QED
    BY <1>2, <1>3, <2>1 DEF Listos
<1>5. Hilos(cola_exit') = Salidos \cup S
  <2>1. Range(cola_exit \o salen) = Range(cola_exit) \cup Range(salen)
    BY <1>2, HilosClaves, RangeConcatenation
  <2>. QED
    BY <1>1, <1>3, <2>1 DEF Salidos
<1> HIDE DEF S
<1>6. Listos' = Listos \ S /\ EnExec' = EnExec /\ Salidos' = Salidos \cup S
  BY <1>1, <1>4, <1>5 DEF Listos, EnExec, Salidos
<1>7. \A h \in S : h \in Claves /\ h \notin Salidos /\ h \notin EnExec
  BY <1>4, HilosClaves DEF ILugar
<1>8. \A h \in Claves : Situacion(h)' = IF h \in S THEN "EXIT" ELSE Situacion(h)
  BY <1>4, <1>6 DEF Situacion
<1>9. S \in SUBSET CicloDeVida!En("READY")
  BY <1>4, <1>7 DEF CicloDeVida!En, EstadoEs, Situacion
<1>10. estado' = [h \in Claves |-> IF h \in S THEN "EXIT" ELSE estado[h]]
  BY <1>8 DEF EstadoEs
<1>. QED
  BY <1>9, <1>10 DEF CicloDeVida!TerminarListos

\* The other steps move no thread, or take out of EXEC one that is in EXIT.
LEMMA QuedaEstado ==
    ASSUME ITipos, IRutas, PorTurnos, ISinHerencia, ITurno, IEspera, ILugar,
           EstadoEs, EstadoEs', [Next]_vars,
           ~PasarAReady, ~ElegirSiguiente, ~PasarAExit, ~FiltrarReady
    PROVE  UNCHANGED estado
<1>1. ASSUME UNCHANGED <<cola_ready, cola_exec, cola_exit>> PROVE UNCHANGED estado
  <2>1. Listos' = Listos /\ EnExec' = EnExec /\ Salidos' = Salidos
    BY <1>1 DEF Listos, EnExec, Salidos
  <2>. QED
    BY <2>1, NoMuda
<1>2. CASE UNCHANGED vars \/ CPU \/ Verificar
  BY <1>1, <1>2 DEF vars, colas, CPU, Syscall, OtraInstruccion, FetchFalla, FinDeCiclo,
                    CheckInterrupt, executionProces, Verificar
<1>3. CASE Planner
  <2>1. VaciarExec \/ Ejecutar \/ ElegirDesalojo \/ Comparar
    BY <1>3, PlanDelTurno
  <2>2. CASE VaciarExec
    <3>1. plan = "fin" /\ cola_exec' = <<>> /\ UNCHANGED <<cola_ready, cola_exit>>
      BY <2>2 DEF VaciarExec, De, EnPlan
    <3>2. EnExec \subseteq Salidos
      BY <3>1 DEF ILugar, EnAmbas
    <3>3. Hilos(<<>>) = {}
      BY DEF Hilos
    <3>4. Listos' = Listos /\ EnExec' = {} /\ Salidos' = Salidos
      BY <3>1, <3>3 DEF Listos, EnExec, Salidos
    <3>. QED
      BY <3>2, <3>4, NoMuda
  <2>3. CASE Ejecutar \/ Comparar
    BY <1>1, <2>3 DEF Ejecutar, Comparar, colas
  <2>4. CASE ElegirDesalojo
    <3>1. CASE Algoritmo = "FIFO"
      BY <1>1, <2>4, <3>1 DEF ElegirDesalojo, colas
    <3>2. CASE Algoritmo # "FIFO"
      <4>1. plan = "elige" /\ Elige(planificar) /\ UNCHANGED cola_exec
        BY <2>4, <3>2 DEF ElegirDesalojo, De, EnPlan
      <4>2. cola_exec # <<>>
        BY <4>1 DEF ITurno, Quedo
      <4>3. planificar.ready = cola_ready
        BY <3>2, <4>1, <4>2, EleccionQueSigue
      <4>. QED
        BY <1>1, <4>1, <4>3 DEF Elige
    <3>. QED
      BY <3>1, <3>2
  <2>. QED
    BY <2>1, <2>2, <2>3, <2>4
<1>4. CASE Handler
  <2>1. Tranquilo \/ EntraThreadCreate \/ EntraProcessCreate \/ SolicitarEspacioHilos
        \/ Enviar \/ RegistrarPCB \/ FiltrarMultinivel
    BY <1>4, PasosDelTurno DEF Tranquilo
  <2>. QED
    BY <1>1, <2>1 DEF Tranquilo, EntraThreadCreate, EntraProcessCreate, SolicitarEspacioHilos,
       Enviar, RegistrarPCB, FiltrarMultinivel, EntraFinalizar, ElegirAlQueTermina,
       AvisarMemoria, NadaQueSoltar, SoltarSinPCB, SoltarMutex, PedirVerificacion, MutexCreate,
       colas
<1>. QED
  BY <1>2, <1>3, <1>4 DEF Next

LEMMA PasoCiclo ==
    ASSUME IExec, ITipos, IRutas, ICopias, IVida, PorTurnos, EstadoEs, EstadoEs', [Next]_vars
    PROVE  [CicloDeVida!Next]_estado
<1>1. ISinHerencia /\ ITurno /\ IEspera /\ ILugar
  BY DEF IVida
<1>2. CASE PasarAReady
  BY <1>1, <1>2, CreaEstado DEF CicloDeVida!Next
<1>3. CASE ElegirSiguiente
  BY <1>1, <1>3, DespachaEstado DEF CicloDeVida!Next
<1>4. CASE PasarAExit
  BY <1>1, <1>4, TerminaEstado DEF CicloDeVida!Next
<1>5. CASE FiltrarReady
  BY <1>1, <1>5, CancelaEstado DEF CicloDeVida!Next
<1>. QED
  BY <1>1, <1>2, <1>3, <1>4, <1>5, QuedaEstado

LEMMA InicioCiclo == Init /\ EstadoEs => CicloDeVida!Init
<1> SUFFICES ASSUME Init, EstadoEs PROVE CicloDeVida!Init
  OBVIOUS
<1> DEFINE t == TCB(0, 0, 0)
<1>1. cola_ready = <<t>> /\ cola_exec = <<>> /\ cola_exit = <<>>
  BY DEF Init
<1>2. Hilo(t) = <<0, 0>>
  BY DEF TCB, Hilo
<1> HIDE DEF t
<1>3. DOMAIN <<t>> = {1} /\ <<t>>[1] = t /\ DOMAIN <<>> = {}
  OBVIOUS
<1>4. Hilos(<<t>>) = {<<0, 0>>} /\ Hilos(<<>>) = {}
  BY <1>2, <1>3 DEF Hilos
<1>5. Listos = {<<0, 0>>} /\ EnExec = {} /\ Salidos = {}
  BY <1>1, <1>4 DEF Listos, EnExec, Salidos
<1>6. <<0, 0>> \in Claves
  BY AjustesDelPlan DEF Claves, Pids, Tids
<1>7. estado = [x \in Claves |-> IF x = <<0, 0>> THEN "READY" ELSE "NEW"]
  BY <1>5 DEF EstadoEs, Situacion
<1>. QED
  BY <1>6, <1>7 DEF CicloDeVida!Init

\* In those programs the queues implement the life cycle of Estados, step by step: a thread
\* gets the CPU when nobody has it, ends once, and ends there or while it waits.
THEOREM PlanificadorCumpleElCiclo == Spec /\ PorTurnos => CumpleCicloDeVida
<1>1. PorTurnos /\ [Next]_vars => PorTurnos'
  BY PerfilFijo, MismoPerfil
<1>2. IExec /\ ITipos /\ IUrgencia /\ ICopias /\ IVida /\ PorTurnos /\ EstadoEs /\ EstadoEs'
         /\ [Next]_vars => [CicloDeVida!Next]_estado
  BY PasoCiclo DEF IUrgencia
<1>. QED
  BY <1>1, <1>2, EstadoDa, InicioCiclo, ExecEnPie, TiposEnPie, UrgenciaEnPie, CopiasEnPie,
     VidaEnPie, PTL DEF Spec, CumpleCicloDeVida, CicloDeVida!Spec

-----------------------------------------------------------------------------
(***************************************************************************)
(* No mutex is left behind.                                                *)
(***************************************************************************)

\* Besides, nobody interrupts the CPU, so that it never unlocks intProcesada.
IAire == PorTurnos => ~interruptionExits /\ ciclo # "avisa" /\ SinTrabas

LEMMA InicioAire == Init => IAire
BY DEF Init, IAire, SinTrabas

\* Where the planner takes cola_ready_mutex, it unlocks it: under FIFO it only chooses
\* the first thread, which is there.
LEMMA EleccionSuelta ==
    ASSUME ITipos, PorTurnos, IEspera,
           plan = "finElige" \/ Algoritmo # "FIFO"
    PROVE  ~planificar.traba
<1>1. Algoritmo \in {"FIFO", "PRIORIDADES", "CMN"}
  BY HayReparto, AjustesDelPlan DEF Algoritmo
<1>2. CASE Algoritmo = "FIFO"
  <2>1. SinRelevo /\ plan = "finElige"
    BY <1>2 DEF PorTurnos, HastaElFinal
  <2>2. cola_ready = <<TCB(0, 0, 0)>>
    BY <2>1 DEF IEspera
  <2>3. cola_ready # <<>>
    BY <2>2
  <2>4. planificar = planificarFifo
    BY <1>2 DEF planificar
  <2>. QED
    BY <2>3, <2>4 DEF planificarFifo, Eleccion
<1>3. CASE Algoritmo = "PRIORIDADES"
  <2>1. planificar = planificarPrioridades
    BY <1>3 DEF planificar
  <2>. QED
    BY <2>1 DEF planificarPrioridades, Nada, Eleccion
<1>4. CASE Algoritmo = "CMN"
  <2>1. planificar = planificarColas
    BY <1>4 DEF planificar
  <2>. QED
    BY <2>1 DEF planificarColas, Nada, Eleccion
<1>. QED
  BY <1>1, <1>2, <1>3, <1>4

LEMMA CPUAire ==
    ASSUME ~interruptionExits, ciclo # "avisa", SinTrabas, CPU
    PROVE  ~interruptionExits' /\ ciclo' # "avisa" /\ SinTrabas'
<1> USE DEF SinTrabas, delPlan, cpu, cargado, handler, datos
<1>1. CASE Syscall
  BY <1>1 DEF Syscall
<1>2. CASE OtraInstruccion \/ FetchFalla \/ CheckInterrupt
  BY <1>2 DEF OtraInstruccion, FetchFalla, CheckInterrupt
<1>3. ~FinDeCiclo /\ ~executionProces
  BY DEF FinDeCiclo, executionProces
<1>. QED
  BY <1>1, <1>2, <1>3 DEF CPU

LEMMA PlanAire ==
    ASSUME ITipos, PorTurnos, ITurno, IEspera,
           ~interruptionExits, ciclo # "avisa", SinTrabas, Planner
    PROVE  ~interruptionExits' /\ ciclo' # "avisa" /\ SinTrabas'
<1> USE DEF SinTrabas, ajenoAlPlan, handler, datos, De, EnPlan, cpu, cargado, colas
<1>1. CASE VaciarExec
  BY <1>1 DEF VaciarExec
<1>2. CASE ElegirSiguiente
  <2>1. plan = "finElige" /\ Elige(planificar) /\ plan' \in {"envia", "atascado"}
        /\ UNCHANGED <<vivo, paso, ciclo, interruptionExits>>
    BY <1>2 DEF ElegirSiguiente
  <2>2. UNCHANGED tomados
    BY <2>1, EleccionSuelta DEF Elige
  <2>3. paso # "envia"
    BY <2>1 DEF ITurno, YaSalio, Quedo
  <2>. QED
    BY <2>1, <2>2, <2>3
<1>3. CASE Ejecutar
  BY <1>3 DEF Ejecutar, RecibirProceso
<1>4. CASE ElegirDesalojo
  <2>1. plan = "elige" /\ plan' = "compara" /\ UNCHANGED <<vivo, paso, ciclo, interruptionExits>>
        /\ \/ UNCHANGED tomados
           \/ Algoritmo # "FIFO" /\ Elige(planificar)
    BY <1>4 DEF ElegirDesalojo
  <2>2. UNCHANGED tomados
    BY <2>1, EleccionSuelta DEF Elige
  <2>. QED
    BY <2>1, <2>2
<1>5. CASE Comparar
  <2>1. SinDesalojo
    BY <1>5 DEF Comparar, SinDesalojo, ITurno, Quedo
  <2>. QED
    BY <1>5, <2>1 DEF Comparar
<1>. QED
  BY <1>1, <1>2, <1>3, <1>4, <1>5, PlanDelTurno

\* A handler that looks at cola_exec finds a thread there.
LEMMA HandlerAire ==
    ASSUME ITipos, IRutas, PorTurnos, ITurno,
           ~interruptionExits, ciclo # "avisa", SinTrabas, Handler
    PROVE  ~interruptionExits' /\ ciclo' # "avisa" /\ SinTrabas'
<1> USE DEF SinTrabas, ajenoAlHandler, delPlan, cargado, datos, En, Va, Responde
<1>1. paso \in {"elegir", "aExit", "memoria"} => plan # "atascado" /\ cola_exec # <<>>
  BY DEF ITurno, YaSalio, Quedo
<1>2. CASE Enviar
  <2>1. plan' \in {"fin", "elige"}
    BY <1>2, EnviarTurno
  <2>2. paso' # "envia" /\ ciclo' # "avisa"
        /\ UNCHANGED <<vivo, tomados, interruptionExits>>
    BY <1>2 DEF Enviar, TrasEnviar
  <2>. QED
    BY <1>2, <2>1, <2>2 DEF Enviar
<1>3. CASE ~Enviar
  <2>1. UNCHANGED <<vivo, tomados, plan, interruptionExits>> /\ ciclo' # "avisa"
        /\ (paso' = "envia" => paso \in {"memoria", "aExit"})
    BY <1>1, <1>3, PasosDelTurno DEF EntraThreadCreate, EntraProcessCreate, PasarAReady,
       SolicitarEspacioHilos, RegistrarPCB, EntraFinalizar, ElegirAlQueTermina, AvisarMemoria,
       FiltrarReady, FiltrarMultinivel, PasarAExit, NadaQueSoltar, SoltarSinPCB, SoltarMutex,
       PedirVerificacion, MutexCreate
  <2>. QED
    BY <1>1, <2>1
<1>. QED
  BY <1>2, <1>3

LEMMA NadieConTID ==
    ASSUME NEW tid
    PROVE  ConTID(<<>>, tid) = <<>>
<1>0. <<>> \in Seq({0})
  OBVIOUS
<1>1. PICK q \in Seq({0}) : q = <<>>
  BY <1>0
<1>2. PICK S : ConTID(q, tid) = Filtra(q, S)
  BY DEF ConTID
<1>3. PICK r \in Seq({0}) : r = Filtra(q, S) /\ Range(r) = Range(q) \cap S
  BY FiltraDa
<1>4. Range(q) = {}
  BY <1>1 DEF Range
<1>5. DOMAIN r = 1 .. Len(r) /\ Len(r) \in Nat
  BY <1>3
<1>6. Len(r) = 0
  <2>1. Range(r) = {}
    BY <1>3, <1>4
  <2>2. ~(1 \in DOMAIN r)
    BY <2>1 DEF Range
  <2>. QED
    BY <1>5, <2>2
<1>. QED
  BY <1>1, <1>2, <1>3, <1>6

LEMMA PasoAire ==
    ASSUME ITipos, IRutas, IVida, IAire, [Next]_vars
    PROVE  IAire'
<1> SUFFICES ASSUME PorTurnos' PROVE ~interruptionExits' /\ ciclo' # "avisa" /\ SinTrabas'
  BY DEF IAire
<1>1. /\ PorTurnos /\ ITurno /\ IEspera
      /\ ~interruptionExits /\ ciclo # "avisa" /\ SinTrabas
  BY PerfilFijo, MismoPerfil DEF IVida, IAire
<1>2. CASE UNCHANGED vars
  BY <1>1, <1>2 DEF SinTrabas, vars, delPlan, handler, cpu
<1>3. CASE Verificar
  <2>1. UNCHANGED <<vivo, plan, paso, interruptionExits, ciclo>>
    BY <1>3 DEF Verificar, delPlan, handler, cpu
  <2>2. cola_blocked = <<>> /\ \A tid : ConTID(<<>>, tid) = <<>>
    BY <1>1, NadieConTID DEF ITurno
  <2>3. UNCHANGED tomados
    BY <1>3, <2>2 DEF Verificar
  <2>. QED
    BY <1>1, <2>1, <2>3 DEF SinTrabas
<1>4. CASE CPU
  BY <1>1, <1>4, CPUAire
<1>5. CASE Planner
  BY <1>1, <1>5, PlanAire
<1>6. CASE Handler
  BY <1>1, <1>6, HandlerAire
<1>. QED
  BY <1>2, <1>3, <1>4, <1>5, <1>6 DEF Next

\* In those programs nobody interrupts the CPU and no mutex is left locked.
THEOREM AireEnPie == Spec => []IAire
<1>1. ITipos /\ IUrgencia /\ IVida /\ IAire /\ [Next]_vars => IAire'
  BY PasoAire DEF IUrgencia
<1>. QED
  BY <1>1, InicioAire, TiposEnPie, UrgenciaEnPie, VidaEnPie, PTL DEF Spec

\* In those programs the kernel is alive and nothing is stuck on the way to an answer: the
\* mutex that planificarFifo or a panicking handler would leave locked is not.
THEOREM SiempreSinTrabas == Spec => [](PorTurnos => SinTrabas)
<1>1. IAire => (PorTurnos => SinTrabas)
  BY DEF IAire
<1>. QED
  BY <1>1, AireEnPie, PTL

\* In those programs a thread that went to EXIT does not wait for the CPU again.
THEOREM SalidosPorTurnos == Spec => [](PorTurnos => ExitDefinitivo)
<1>1. IVida => (PorTurnos => ExitDefinitivo)
  BY DEF IVida, ILugar, Listos, Salidos, ExitDefinitivo
<1>. QED
  BY <1>1, VidaEnPie, PTL

=============================================================================
