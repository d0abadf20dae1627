-------------------------- MODULE EjecucionProofs --------------------------
(***************************************************************************)
(* Theorems about Ejecucion, for any programs, memory and registers: as    *)
(* long as the first thread is alone and has met none of Faltas, the CPU   *)
(* and memoria together are the sequential computer of Maquina; and        *)
(* always, whatever the planner does, each key of the CPU has the segment  *)
(* of its own process, and the types are right.                            *)
(***************************************************************************)
EXTENDS Ejecucion, SequenceTheorems, FiniteSetTheorems, TLAPS

-----------------------------------------------------------------------------
(***************************************************************************)
(* The inductive invariant: what the three services hold while the machine *)
(* sees the first thread run.                                              *)
(***************************************************************************)

R == Procesos[Primero].RegistroHilos

Propio == [Base : {0}, Limit : {caso.Size - 1}, RegistroHilos : RegistroHilos]

\* Its context has not reached the CPU.
Arranca ==
    /\ DOMAIN Procesos = {} /\ exec = Primero
    /\ Primero \in DOMAIN mapaRegistrosHilos /\ mapaRegistrosHilos[Primero] = EnCero
    /\ \/ ciclo = "apagado" /\ Clave = Ninguna /\ claveMutex = "libre"
       \/ ciclo = "arranque" /\ Clave = Primero /\ claveMutex = "recibir"

\* The instruction that Fetch returned is the one that PC names.
Pendiente ==
    /\ R["PC"] \in 0 .. Len(Programa) - 1
    /\ instruccion = Programa[R["PC"] + 1]

EnMarcha ==
    /\ Clave = Primero /\ claveMutex = "libre"
    /\ DOMAIN Procesos = {Primero} /\ Procesos[Primero] \in Propio
    /\ ciclo \in {"cabeza", "fetch", "decode", "execute", "volcando", "rechazado",
                  "actualizar", "sumar", "chequeo"}
    /\ ciclo \in {"decode", "execute", "volcando"} => Pendiente
    /\ ciclo = "execute" /\ Accede => direccion = Logica /\ DentroDelLimite
    /\ ciclo \notin {"volcando", "rechazado"} => exec = Primero
    /\ ciclo = "volcando" =>
           /\ instruccion.op = "DUMP_MEMORY"
           /\ volcado = [PID |-> 0, contenido |-> <<>>]

EnMemoria ==
    /\ DOMAIN rutas = {Primero}
    /\ 0 \in DOMAIN mapaContextosProcesos
    /\ mapaContextosProcesos[0] = [Base |-> 0, Limit |-> caso.Size - 1]
    /\ 0 \in DOMAIN mapaInstrucciones /\ mapaInstrucciones[0] = Programa
    /\ DOMAIN memoriaUsuario = 0 .. Memory_Size - 1
    /\ interruptionExits = FALSE
    /\ ciclo # "rechazado" => volcado.contenido = <<>>

Solo == EstadoVisto = "corre" => EnMemoria /\ (Arranca \/ EnMarcha)

ISolo == caso \in Casos /\ Solo

-----------------------------------------------------------------------------
(***************************************************************************)
(* What the machine sees.                                                  *)
(***************************************************************************)

LEMMA ElCaso ==
    ASSUME caso \in Casos
    PROVE  /\ caso.Size \in Nat /\ caso.Size \in 1 .. Memory_Size
           /\ Memory_Size \in Nat
           /\ Programa \in Seq(Instruccion)
           /\ Len(Programa) \in Nat
           /\ \A n \in 1 .. Len(Programa) : Programa[n] \in Instruccion
<1>1. /\ caso.Size \in 1 .. Memory_Size /\ Memory_Size \in Nat
      /\ caso.Programas \in Seq(Seq(Instruccion)) /\ caso.Programas # <<>>
  BY AjustesDeEjecucion
<1>2. Len(caso.Programas) \in Nat \ {0}
  BY <1>1, EmptySeq
<1>3. caso.Programas[1] \in Seq(Instruccion)
  <2>1. 1 \in 1 .. Len(caso.Programas)
    BY <1>2
  <2>. QED
    BY <1>1, <2>1, ElementOfSeq
<1>4. Programa \in Seq(Instruccion)
  BY <1>3 DEF Programa
<1>5. Len(Programa) \in Nat
  BY <1>4, LenProperties
<1>. QED
  BY <1>1, <1>4, <1>5, ElementOfSeq

\* The machine sees the thread run while it is alone and nothing was missed.
LEMMA Visto ==
    /\ EstadoVisto = "corre" <=> estado = "corre" /\ ~falta
    /\ EstadoVisto' = "corre" <=> estado' = "corre" /\ ~falta'
    /\ falta' => EstadoVisto' = "fuera"
    /\ ~falta' => EstadoVisto' = estado'
BY DEF EstadoVisto

LEMMA OtraClave == Primero # Ninguna
<1>1. Primero.PID = 0 /\ Ninguna.PID = -1
  BY DEF Primero, Ninguna
<1>. QED
  BY <1>1

\* The registers of the first thread, seen from the CPU and from outside.
LEMMA Vista ==
    ASSUME EnMarcha, EstadoVisto = "corre"
    PROVE  /\ Cargado /\ Actual = Procesos[Primero]
           /\ R \in [Registros -> Int]
           /\ Actual.Base = 0 /\ Actual.Limit = caso.Size - 1
           /\ \A r : ObtenerValorRegistro(r) = R[r]
           /\ RegistrosVistos = R
<1>1. Clave = Primero /\ DOMAIN Procesos = {Primero} /\ Procesos[Primero] \in Propio
  BY DEF EnMarcha
<1>2. Cargado /\ Actual = Procesos[Primero]
  BY <1>1 DEF Cargado, Actual
<1>3. /\ Procesos[Primero].Base = 0 /\ Procesos[Primero].Limit = caso.Size - 1
      /\ R \in [Registros -> Int]
  BY <1>1 DEF Propio, RegistroHilos, R
<1>4. \A r : ObtenerValorRegistro(r) = R[r]
  BY <1>2 DEF ObtenerValorRegistro, R
<1>5. RegistrosVistos = R
  BY <1>1 DEF RegistrosVistos, R
<1>. QED
  BY <1>2, <1>3, <1>4, <1>5

LEMMA VistaPrima ==
    ASSUME DOMAIN Procesos' = {Primero}
    PROVE  RegistrosVistos' = R'
BY DEF RegistrosVistos, R

\* A step that the machine does not see.
LEMMA Quieta ==
    ASSUME UNCHANGED <<caso, memoriaUsuario, volcado.contenido, EstadoVisto>>,
           UNCHANGED <<GeneralesVistos, PCVisto>>
    PROVE  [M!Next]_(M!vars)
<1>1. UNCHANGED <<Programa, caso.Size, GeneralesVistos, BytesVistos, volcado.contenido>>
  BY DEF Programa, BytesVistos
<1>. QED
  BY <1>1 DEF M!vars

\* The machine does not see the first thread run any more.
LEMMA Deja ==
    ASSUME EstadoVisto' # "corre", caso' = caso
    PROVE  /\ M!Termina(EstadoVisto')
           /\ Programa' = Programa /\ caso'.Size = caso.Size
           /\ Solo'
BY DEF M!Termina, Programa, Solo

\* Once it does not, it never does again.
LEMMA YaFuera ==
    ASSUME EstadoVisto # "corre", UNCHANGED <<EstadoVisto, caso>>
    PROVE  Solo' /\ [M!Next]_(M!vars)
<1>1. M!Fuera
  BY DEF M!Fuera, Programa
<1>2. Solo'
  BY DEF Solo
<1>. QED
  BY <1>1, <1>2 DEF M!Next

LEMMA Alcance ==
    Init => ISolo /\ M!Init
<1>1. SUFFICES ASSUME Init PROVE ISolo /\ M!Init
  OBVIOUS
<1>2. caso \in Casos /\ EstadoVisto = "corre" /\ ciclo = "apagado"
  BY <1>1, Visto DEF Init
<1>3. DOMAIN <<>> = {}
  OBVIOUS
<1>4. /\ mapaContextosProcesos = [q \in {0} |-> [Base |-> 0, Limit |-> caso.Size - 1]]
      /\ mapaRegistrosHilos = [q \in {Primero} |-> EnCero]
      /\ mapaInstrucciones = [q \in {0} |-> Programa]
      /\ DOMAIN rutas = {Primero}
  BY <1>1, <1>3 DEF Init, Con, Programa
<1>5. DOMAIN Procesos = {}
  BY <1>1, <1>3 DEF Init
<1>6. DOMAIN memoriaUsuario = 0 .. Memory_Size - 1 /\ volcado.contenido = <<>>
      /\ interruptionExits = FALSE
      /\ \A d \in 0 .. Memory_Size - 1 : memoriaUsuario[d] = 0
  BY <1>1 DEF Init
<1>7. EnMemoria
  BY <1>4, <1>6 DEF EnMemoria
<1>8. Arranca
  BY <1>1, <1>4, <1>5 DEF Arranca, Init
<1>9. ISolo
  BY <1>2, <1>7, <1>8 DEF ISolo, Solo
<1>10. RegistrosVistos = EnCero
  BY <1>5 DEF RegistrosVistos
<1>11. PCVisto = 0
  BY <1>2, <1>10 DEF PCVisto, EnCero, Registros
<1>12. GeneralesVistos = [r \in {"AX", "BX"} |-> 0]
  BY <1>10 DEF GeneralesVistos, EnCero, Registros
<1>13. BytesVistos = [d \in 0 .. caso.Size - 1 |-> 0]
  <2>1. 0 .. caso.Size - 1 \subseteq 0 .. Memory_Size - 1
    BY <1>2, ElCaso
  <2>. QED
    BY <1>6, <2>1 DEF BytesVistos
<1>14. Programa \in Seq(Instruccion)
  BY <1>2, ElCaso
<1>15. caso.Size \in Nat
  BY <1>2, ElCaso
<1>. QED
  BY <1>2, <1>6, <1>9, <1>11, <1>12, <1>13, <1>14, <1>15
  DEF M!Init, M!Cero, M!Generales, M!Limpia

-----------------------------------------------------------------------------
(***************************************************************************)
(* Each action, while the first thread is alone.                           *)
(***************************************************************************)

LEMMA CasoFijo ==
    ASSUME [Next]_vars
    PROVE  caso' = caso
<1>1. CASE CicloDeEjecucion
  BY <1>1 DEF CicloDeEjecucion, Cabeza, Fetch, Decode, ManejarSegmentationFault,
     ProcesoNoEncontrado, Execute, memoryDump, RechazarDump, Actualizar, SumarPC,
     CheckInterrupt
<1>2. CASE Recibe \/ Planifica \/ interrupccion
  BY <1>2 DEF Recibe, RecibirClave, RecibirContexto, Planifica, interrupccion
<1>3. CASE UNCHANGED vars
  BY <1>3 DEF vars
<1>. QED
  BY <1>1, <1>2, <1>3 DEF Next

\* The histories of the first thread do not change once it is not alone, and a
\* Falta is never forgotten.
NoRetrocede ==
    /\ falta => falta'
    /\ estado # "corre" => estado' = estado /\ (falta' <=> falta)

LEMMA NoVuelve ==
    ASSUME [Next]_vars
    PROVE  NoRetrocede
<1>1. CASE Cabeza \/ Decode \/ ProcesoNoEncontrado \/ memoryDump \/ Actualizar \/ SumarPC
           \/ CheckInterrupt
  BY <1>1 DEF Cabeza, Decode, ProcesoNoEncontrado, memoryDump, Actualizar, SumarPC,
     CheckInterrupt, historia, NoRetrocede
<1>2. CASE Fetch
  BY <1>2 DEF Fetch, Agota, NoRetrocede
<1>3. CASE ManejarSegmentationFault \/ RechazarDump
  BY <1>3 DEF ManejarSegmentationFault, RechazarDump, Queda, Falta, NoRetrocede
<1>4. CASE Execute
  <2>. SUFFICES ASSUME estado # "corre" PROVE estado' = estado
    BY <1>4 DEF Execute, Falta, NoRetrocede
  <2>1. CASE SET \/ SUM \/ SUB
    BY <2>1 DEF SET, SUM, SUB, AsignarValorRegistro
  <2>2. CASE WRITE_MEM \/ READ_MEM \/ THREAD_CANCEL \/ DUMP_MEMORY
    BY <2>2 DEF WRITE_MEM, READ_MEM, THREAD_CANCEL, DUMP_MEMORY
  <2>3. CASE LOG \/ JNZ \/ IO \/ MUTEX_LOCK \/ SinExec \/ MUTEX_CREATE
    BY <2>3 DEF LOG, JNZ, IO, MUTEX_LOCK, SinExec, MUTEX_CREATE, SinTocarNada
  <2>4. CASE MUTEX_UNLOCK \/ THREAD_JOIN \/ THREAD_EXIT \/ PROCESS_EXIT
    BY <2>4 DEF MUTEX_UNLOCK, THREAD_JOIN, THREAD_EXIT, PROCESS_EXIT, Queda
  <2>5. CASE THREAD_CREATE
    BY <2>5 DEF THREAD_CREATE, CrearHilo, Queda
  <2>6. CASE PROCESS_CREATE
    BY <2>6 DEF PROCESS_CREATE, CrearHilo, Queda, SinTocarNada
  <2>. QED
    BY <1>4, <2>1, <2>2, <2>3, <2>4, <2>5, <2>6 DEF Execute
<1>5. CASE Recibe \/ Planifica \/ interrupccion
  BY <1>5 DEF Recibe, RecibirClave, RecibirContexto, Planifica, interrupccion, historia,
     NoRetrocede
<1>6. CASE UNCHANGED vars
  BY <1>6 DEF vars, historia, NoRetrocede
<1>. QED
  BY <1>1, <1>2, <1>3, <1>4, <1>5, <1>6 DEF Next, CicloDeEjecucion

LEMMA NoSeVeMas ==
    ASSUME [Next]_vars, EstadoVisto # "corre"
    PROVE  EstadoVisto' = EstadoVisto
BY NoVuelve DEF NoRetrocede, EstadoVisto

LEMMA Memoria ==
    ASSUME EnMemoria, ciclo' # "rechazado" => volcado'.contenido = <<>>,
           DOMAIN memoriaUsuario' = DOMAIN memoriaUsuario,
           UNCHANGED <<caso, rutas, mapaContextosProcesos, mapaInstrucciones,
                       interruptionExits>>
    PROVE  EnMemoria'
BY DEF EnMemoria, Programa

\* Where the cycle is says that the context has come.
LEMMA YaEnMarcha ==
    ASSUME ISolo, EstadoVisto = "corre", ciclo \notin {"apagado", "arranque"}
    PROVE  EnMarcha /\ EnMemoria
BY DEF ISolo, Solo, Arranca

LEMMA PasoDeRecibir ==
    ASSUME ISolo, EstadoVisto = "corre", caso' = caso, Recibe
    PROVE  Solo' /\ [M!Next]_(M!vars)
<1>1. EnMemoria /\ ~Acompanado
  BY Visto DEF ISolo, Solo, Acompanado
<1>2. CASE RecibirClave
  <2>1. Arranca /\ Clave = Ninguna /\ ciclo = "apagado"
    BY <1>1, <1>2, OtraClave DEF ISolo, Solo, Arranca, EnMarcha, RecibirClave
  <2>2. /\ Clave' = Primero /\ claveMutex' = "recibir" /\ ciclo' = "arranque"
        /\ UNCHANGED <<mapaContextosProcesos, mapaRegistrosHilos, mapaInstrucciones,
                       memoriaUsuario, interruptionExits, Procesos, exec, rutas, volcado,
                       EstadoVisto>>
    BY <1>2, <2>1 DEF RecibirClave, Arranca, memoria, kernel, historia, EstadoVisto
  <2>3. EnMemoria'
    BY <1>1, <2>1, <2>2, Memoria DEF EnMemoria
  <2>4. Arranca'
    BY <2>1, <2>2 DEF Arranca
  <2>5. RegistrosVistos' = RegistrosVistos
    BY <2>2 DEF RegistrosVistos
  <2>6. PCVisto' = PCVisto
    BY <2>1, <2>2, <2>5 DEF PCVisto
  <2>. QED
    BY <2>2, <2>3, <2>4, <2>5, <2>6, Quieta DEF Solo, GeneralesVistos
<1>3. CASE RecibirContexto
  <2>1. Arranca /\ Clave = Primero /\ ciclo = "arranque"
    BY <1>1, <1>3, OtraClave DEF ISolo, Solo, Arranca, EnMarcha, RecibirContexto
  <2>2. /\ Procesos' = Con(Procesos, Primero, ContextoDe(Primero))
        /\ ciclo' = "cabeza" /\ claveMutex' = "libre"
        /\ UNCHANGED <<mapaContextosProcesos, mapaRegistrosHilos, mapaInstrucciones,
                       memoriaUsuario, interruptionExits, Clave, exec, rutas, volcado,
                       EstadoVisto>>
    BY <1>3, <2>1 DEF RecibirContexto, Arranca, memoria, kernel, historia, EstadoVisto
  <2>3. EnMemoria'
    BY <1>1, <2>1, <2>2, Memoria DEF EnMemoria
  <2>4. ContextoDe(Primero) =
            [Base |-> 0, Limit |-> caso.Size - 1, RegistroHilos |-> EnCero]
    <3>1. Primero.PID = 0
      BY DEF Primero
    <3>. QED
      BY <1>1, <2>1, <3>1 DEF ContextoDe, Arranca, EnMemoria
  <2>5. /\ DOMAIN Procesos' = {Primero}
        /\ Procesos'[Primero] = [Base |-> 0, Limit |-> caso.Size - 1,
                                 RegistroHilos |-> EnCero]
    BY <2>1, <2>2, <2>4 DEF Con, Arranca
  <2>6. EnCero \in RegistroHilos
    BY DEF EnCero, RegistroHilos
  <2>7. EnMarcha'
    <3>1. Procesos'[Primero] \in Propio'
      BY <2>5, <2>6 DEF Propio, RegistroHilos, Registros
    <3>. QED
      BY <2>1, <2>2, <2>5, <3>1 DEF EnMarcha, Arranca
  <2>8. RegistrosVistos' = EnCero /\ RegistrosVistos = EnCero
    <3>1. RegistrosVistos = EnCero
      BY <2>1 DEF RegistrosVistos, Arranca
    <3>2. RegistrosVistos' = R'
      BY <2>2, <2>5, VistaPrima
    <3>. QED
      BY <2>5, <3>1, <3>2 DEF R
  <2>9. PCVisto' = PCVisto
    BY <2>1, <2>2, <2>8 DEF PCVisto
  <2>. QED
    BY <2>2, <2>3, <2>7, <2>8, <2>9, Quieta DEF Solo, GeneralesVistos
<1>. QED
  BY <1>2, <1>3 DEF Recibe

\* The planner does not interfere.
LEMMA PasoAjeno ==
    ASSUME EstadoVisto = "corre", Planifica \/ interrupccion
    PROVE  FALSE
BY Visto DEF Planifica, interrupccion, Acompanado

\* A step of the cycle that moves no register.
LEMMA SinMover ==
    ASSUME ISolo, EstadoVisto = "corre", EnMarcha, EnMemoria,
           UNCHANGED <<caso, rutas, exec, mapaContextosProcesos, mapaInstrucciones,
                       memoriaUsuario, interruptionExits, Clave, claveMutex, Procesos,
                       volcado, EstadoVisto>>,
           EnMarcha',
           \/ ciclo \in {"actualizar", "sumar"} /\ ciclo' \in {"actualizar", "sumar"}
           \/ /\ ciclo \notin {"rechazado", "actualizar", "sumar", "sumar2"}
              /\ ciclo' \notin {"rechazado", "actualizar", "sumar", "sumar2"}
    PROVE  Solo' /\ [M!Next]_(M!vars)
<1>1. EnMemoria'
  BY Memoria DEF EnMemoria
<1>2. RegistrosVistos' = RegistrosVistos
  BY DEF RegistrosVistos
<1>3. PCVisto' = PCVisto
  BY <1>2 DEF PCVisto
<1>. QED
  BY <1>1, <1>2, <1>3, Quieta DEF Solo, GeneralesVistos

LEMMA PasosQuietos ==
    ASSUME ISolo, EstadoVisto = "corre",
           Cabeza \/ Decode \/ Actualizar \/ CheckInterrupt
    PROVE  Solo' /\ [M!Next]_(M!vars)
<1>1. EnMarcha /\ EnMemoria
  <2>1. ciclo \notin {"apagado", "arranque"}
    BY DEF Cabeza, Decode, Actualizar, CheckInterrupt, Va
  <2>. QED
    BY <2>1, YaEnMarcha
<1>2. /\ UNCHANGED <<caso, rutas, exec, mapaContextosProcesos, mapaInstrucciones,
                     memoriaUsuario, Clave, claveMutex, Procesos, volcado, EstadoVisto,
                     instruccion>>
  BY DEF Cabeza, Decode, Actualizar, CheckInterrupt, memoria, kernel, entrada, historia,
     EstadoVisto
<1>3. interruptionExits = FALSE
  BY <1>1 DEF EnMemoria
<1>4. UNCHANGED <<R, Propio, Programa>>
  BY <1>2 DEF R, Propio, Programa
<1>5. CASE Cabeza
  <2>1. ciclo = "cabeza" /\ ciclo' = "fetch" /\ UNCHANGED interruptionExits
    BY <1>3, <1>5 DEF Cabeza, Va, entrada
  <2>2. EnMarcha'
    BY <1>1, <1>2, <1>4, <2>1 DEF EnMarcha
  <2>. QED
    BY <1>1, <1>2, <2>1, <2>2, SinMover
<1>6. CASE Decode
  <2>1. ciclo = "decode" /\ ciclo' = "execute" /\ UNCHANGED interruptionExits
    BY <1>6 DEF Decode, Va, entrada
  <2>2. Accede' = Accede /\ Logica' = Logica /\ DentroDelLimite' = DentroDelLimite
    BY <1>2 DEF Accede, Logica, DentroDelLimite, ObtenerValorRegistro, Actual, Cargado
  <2>3. Accede => direccion' = Logica /\ DentroDelLimite
    <3>1. SUFFICES ASSUME Accede PROVE direccion' = Logica /\ DentroDelLimite
      OBVIOUS
    <3>2. direccion' = Actual.Base + Logica /\ DentroDelLimite
      BY <1>6, <3>1 DEF Decode
    <3>3. Actual.Base = 0
      BY <1>1, Vista
    <3>4. Logica \in Int
      <4>1. instruccion.r \in Registros /\ instruccion.s \in Registros
        <5>1. Pendiente
          BY <1>1, <2>1 DEF EnMarcha
        <5>2. R["PC"] + 1 \in 1 .. Len(Programa)
          BY <5>1, ElCaso DEF Pendiente, ISolo
        <5>3. instruccion \in Instruccion
          BY <5>1, <5>2, ElCaso DEF Pendiente, ISolo
        <5>. QED
          BY <5>3 DEF Instruccion
      <4>2. R \in [Registros -> Int] /\ \A r : ObtenerValorRegistro(r) = R[r]
        BY <1>1, Vista
      <4>. QED
        BY <4>1, <4>2 DEF Logica
    <3>. QED
      BY <3>2, <3>3, <3>4
  <2>4. Pendiente /\ Pendiente'
    BY <1>1, <1>2, <1>4, <2>1 DEF EnMarcha, Pendiente
  <2>5. EnMarcha'
    BY <1>1, <1>2, <1>4, <2>1, <2>2, <2>3, <2>4 DEF EnMarcha
  <2>. QED
    BY <1>1, <1>2, <2>1, <2>5, SinMover
<1>7. CASE Actualizar
  <2>1. ciclo = "actualizar" /\ ciclo' = "sumar" /\ UNCHANGED interruptionExits
    BY <1>7 DEF Actualizar, Va, entrada
  <2>2. EnMarcha'
    BY <1>1, <1>2, <1>4, <2>1 DEF EnMarcha
  <2>. QED
    BY <1>1, <1>2, <2>1, <2>2, SinMover
<1>8. CASE CheckInterrupt
  <2>1. ciclo = "chequeo" /\ ciclo' = "cabeza" /\ interruptionExits' = interruptionExits
    BY <1>3, <1>8 DEF CheckInterrupt, Va
  <2>2. EnMarcha'
    BY <1>1, <1>2, <1>4, <2>1 DEF EnMarcha
  <2>. QED
    BY <1>1, <1>2, <2>1, <2>2, SinMover
<1>. QED
  BY <1>5, <1>6, <1>7, <1>8

LEMMA PCFijo ==
    ASSUME EnMarcha, EstadoVisto = "corre"
    PROVE  /\ R["PC"] \in Int
           /\ ciclo \notin {"rechazado", "actualizar", "sumar"} => PCVisto = R["PC"]
           /\ ciclo \in {"rechazado", "actualizar", "sumar"} => PCVisto = R["PC"] + 1
<1>1. ciclo # "sumar2" /\ RegistrosVistos = R /\ R \in [Registros -> Int]
  BY Vista DEF EnMarcha
<1>2. R["PC"] \in Int
  BY <1>1 DEF Registros
<1>. QED
  BY <1>1, <1>2 DEF PCVisto

\* The address the MMU checks is the one the machine checks; the limits differ
\* in the last byte.
LEMMA Mira ==
    ASSUME ISolo, EstadoVisto = "corre", EnMarcha, Pendiente, PCVisto = R["PC"]
    PROVE  /\ M!EnPrograma /\ M!i = instruccion /\ instruccion \in Instruccion
           /\ \A r \in Registros : M!Valor(r) = R[r] /\ R[r] \in Int
           /\ Logica \in Int /\ M!Direccion = Logica
           /\ M!Accede <=> Accede
           /\ M!Permitida <=> Logica \in 0 .. caso.Size - 1
           /\ DentroDelLimite => M!Permitida
<1>1. /\ Programa \in Seq(Instruccion) /\ Len(Programa) \in Nat /\ caso.Size \in Nat
      /\ \A n \in 1 .. Len(Programa) : Programa[n] \in Instruccion
  BY ElCaso DEF ISolo
<1>2. M!EnPrograma /\ M!i = instruccion
  BY DEF Pendiente, M!EnPrograma, M!i
<1>3. instruccion \in Instruccion
  <2>1. R["PC"] + 1 \in 1 .. Len(Programa)
    BY <1>1 DEF Pendiente
  <2>. QED
    BY <1>1, <2>1 DEF Pendiente
<1>4. /\ R \in [Registros -> Int] /\ \A r : ObtenerValorRegistro(r) = R[r]
      /\ RegistrosVistos = R /\ Actual.Limit = caso.Size - 1
  BY Vista
<1>5. ASSUME NEW r \in Registros PROVE M!Valor(r) = R[r] /\ R[r] \in Int
  <2>1. R[r] \in Int
    BY <1>4
  <2>2. CASE r = "PC"
    BY <2>1, <2>2 DEF M!Valor
  <2>3. CASE r # "PC"
    <3>1. r \in {"AX", "BX"}
      BY <2>3 DEF Registros
    <3>2. GeneralesVistos[r] = R[r]
      BY <1>4, <3>1 DEF GeneralesVistos
    <3>. QED
      BY <2>1, <2>3, <3>2 DEF M!Valor
  <2>. QED
    BY <2>2, <2>3
<1>6. instruccion.r \in Registros /\ instruccion.s \in Registros
  BY <1>3 DEF Instruccion
<1>7. Logica \in Int /\ M!Direccion = Logica
  BY <1>2, <1>4, <1>5, <1>6 DEF Logica, M!Direccion
<1>8. M!Accede <=> Accede
  BY <1>2 DEF M!Accede, Accede
<1>9. M!Permitida <=> Logica \in 0 .. caso.Size - 1
  BY <1>7 DEF M!Permitida
<1>10. DentroDelLimite => M!Permitida
  BY <1>1, <1>4, <1>7, <1>9 DEF DentroDelLimite
<1>. QED
  BY <1>2, <1>3, <1>5, <1>7, <1>8, <1>9, <1>10

\* A program that is over, or that fails, is over on the machine too.
LEMMA Acaba ==
    ASSUME EstadoVisto = "corre", EstadoVisto' # "corre", caso' = caso,
           volcado'.contenido = volcado.contenido,
           \/ M!EnPrograma /\ M!Accede /\ ~M!Permitida /\ EstadoVisto' = "falla"
           \/ M!EnPrograma /\ M!i.op \in {"THREAD_EXIT", "PROCESS_EXIT"}
              /\ EstadoVisto' = "fin"
           \/ ~M!EnPrograma /\ EstadoVisto' = "agotado"
           \/ EstadoVisto' = "fuera"
    PROVE  Solo' /\ [M!Next]_(M!vars)
<1>1. /\ M!Termina(EstadoVisto') /\ Programa' = Programa /\ caso'.Size = caso.Size
      /\ Solo'
  BY Deja
<1>2. CASE M!EnPrograma /\ M!Accede /\ ~M!Permitida /\ EstadoVisto' = "falla"
  <2>1. M!Falla
    BY <1>1, <1>2 DEF M!Falla
  <2>. QED
    BY <1>1, <1>2, <2>1 DEF M!Next, M!Corre
<1>3. CASE M!EnPrograma /\ M!i.op \in {"THREAD_EXIT", "PROCESS_EXIT"} /\ EstadoVisto' = "fin"
  <2>1. M!Sale
    BY <1>1, <1>3 DEF M!Sale
  <2>. QED
    BY <1>1, <1>3, <2>1 DEF M!Next, M!Corre
<1>4. CASE ~M!EnPrograma /\ EstadoVisto' = "agotado"
  BY <1>1, <1>4 DEF M!Next, M!Corre
<1>5. CASE EstadoVisto' = "fuera"
  <2>1. M!Pierde
    BY <1>1, <1>5 DEF M!Pierde
  <2>. QED
    BY <1>1, <2>1 DEF M!Next, M!Corre
<1>. QED
  BY <1>2, <1>3, <1>4, <1>5

\* An instruction that the code does not carry out as its program counts on.
LEMMA Falto ==
    ASSUME EstadoVisto = "corre", falta', caso' = caso,
           volcado'.contenido = volcado.contenido
    PROVE  Solo' /\ [M!Next]_(M!vars)
BY Visto, Acaba

LEMMA PasoDeFetch ==
    ASSUME ISolo, EstadoVisto = "corre", Fetch
    PROVE  Solo' /\ [M!Next]_(M!vars)
<1>1. ciclo = "fetch" /\ EnMarcha /\ EnMemoria
  BY YaEnMarcha DEF Fetch
<1>2. Clave = Primero /\ Clave.TID = 0 /\ claveMutex = "libre"
  BY <1>1 DEF EnMarcha, Primero
<1>3. /\ UNCHANGED <<caso, rutas, exec, mapaContextosProcesos, mapaInstrucciones,
                     memoriaUsuario, interruptionExits, Clave, Procesos, volcado>>
  BY DEF Fetch, memoria, kernel
<1>4. /\ RegistrosVistos = R /\ ObtenerValorRegistro("PC") = R["PC"]
      /\ R \in [Registros -> Int]
  BY <1>1, Vista
<1>5. PCVisto = R["PC"]
  BY <1>1, PCFijo
<1>6. HayInstruccion(Clave.TID, ObtenerValorRegistro("PC"))
          <=> R["PC"] \in 0 .. Len(Programa) - 1
  BY <1>1, <1>2, <1>4 DEF HayInstruccion, EnMemoria
<1>7. CASE HayInstruccion(Clave.TID, ObtenerValorRegistro("PC"))
  <2>1. /\ instruccion' = mapaInstrucciones[Clave.TID][ObtenerValorRegistro("PC") + 1]
        /\ ciclo' = "decode" /\ UNCHANGED <<claveMutex, EstadoVisto>>
    BY <1>7 DEF Fetch, EstadoVisto
  <2>2. mapaInstrucciones[0] = Programa
    BY <1>1 DEF EnMemoria
  <2>3. instruccion' = Programa[R["PC"] + 1]
    BY <1>2, <1>4, <2>1, <2>2
  <2>4. UNCHANGED <<R, Propio, Programa>>
    BY <1>3 DEF R, Propio, Programa
  <2>5. Pendiente'
    BY <1>6, <1>7, <2>3, <2>4 DEF Pendiente
  <2>6. EnMarcha'
    BY <1>1, <1>2, <1>3, <2>1, <2>4, <2>5 DEF EnMarcha
  <2>. QED
    BY <1>1, <1>3, <2>1, <2>6, SinMover
<1>8. CASE ~HayInstruccion(Clave.TID, ObtenerValorRegistro("PC"))
  <2>1. EstadoVisto' = "agotado"
    BY <1>2, <1>8, Visto DEF Fetch, Agota
  <2>2. ~M!EnPrograma
    BY <1>5, <1>6, <1>8 DEF M!EnPrograma
  <2>. QED
    BY <1>3, <2>1, <2>2, Acaba
<1>. QED
  BY <1>7, <1>8

LEMMA PasoDeSegmentationFault ==
    ASSUME ISolo, EstadoVisto = "corre", ManejarSegmentationFault \/ ProcesoNoEncontrado
    PROVE  Solo' /\ [M!Next]_(M!vars)
<1>1. ciclo = "decode"
  BY DEF ManejarSegmentationFault, ProcesoNoEncontrado, Va
<1>2. EnMarcha /\ EnMemoria /\ Pendiente
  BY <1>1, YaEnMarcha DEF EnMarcha
<1>3. Cargado /\ RegistrosVistos = R
  BY <1>2, Vista
<1>4. /\ Accede /\ ~DentroDelLimite /\ estado' = "falla"
      /\ Falta(Logica \in 0 .. caso.Size - 1)
      /\ caso' = caso /\ volcado' = volcado
  BY <1>3, Visto DEF ManejarSegmentationFault, ProcesoNoEncontrado, Queda
<1>5. PCVisto = R["PC"]
  BY <1>1, <1>2, PCFijo
<1>6. M!EnPrograma /\ M!Accede /\ (M!Permitida <=> Logica \in 0 .. caso.Size - 1)
  BY <1>2, <1>4, <1>5, Mira
<1>7. falta' <=> Logica \in 0 .. caso.Size - 1
  BY <1>4, Visto DEF Falta
<1>8. CASE falta'
  BY <1>4, <1>8, Falto
<1>9. CASE ~falta'
  BY <1>4, <1>6, <1>7, <1>9, Visto, Acaba
<1>. QED
  BY <1>8, <1>9

\* The dump has the bytes the program wrote.
LEMMA PasoDeDump ==
    ASSUME ISolo, EstadoVisto = "corre", memoryDump
    PROVE  Solo' /\ [M!Next]_(M!vars)
<1>1. ciclo = "volcando"
  BY DEF memoryDump, Va
<1>2. /\ EnMarcha /\ EnMemoria /\ Pendiente /\ instruccion.op = "DUMP_MEMORY"
      /\ volcado = [PID |-> 0, contenido |-> <<>>]
  BY <1>1, YaEnMarcha DEF EnMarcha
<1>3. /\ ciclo' = "rechazado"
      /\ UNCHANGED <<caso, rutas, exec, mapaContextosProcesos, mapaInstrucciones,
                     memoriaUsuario, interruptionExits, Clave, claveMutex, Procesos,
                     EstadoVisto>>
      /\ volcado' = [volcado EXCEPT !.contenido = obtenerDump(volcado.PID)]
  BY DEF memoryDump, Va, memoria, entrada, kernel, historia, EstadoVisto
<1>4. volcado'.contenido = obtenerDump(0)
  BY <1>2, <1>3
<1>5. obtenerDump(0) = [d \in 0 .. caso.Size - 1 |-> memoriaUsuario[d]]
  <2>1. /\ mapaContextosProcesos[0].Base = 0
        /\ mapaContextosProcesos[0].Limit = caso.Size - 1
        /\ 0 \in DOMAIN mapaContextosProcesos
    BY <1>2 DEF EnMemoria
  <2>2. caso.Size - 1 \in Int /\ \A d \in 0 .. caso.Size - 1 : 0 + d = d
    BY ElCaso DEF ISolo
  <2>3. (caso.Size - 1) - 0 = caso.Size - 1
    BY <2>2
  <2>. QED
    BY <2>1, <2>2, <2>3 DEF obtenerDump
<1>6. volcado'.contenido = BytesVistos
  BY <1>4, <1>5 DEF BytesVistos
<1>7. PCVisto = R["PC"]
  BY <1>1, <1>2, PCFijo
<1>8. M!EnPrograma /\ M!i.op = "DUMP_MEMORY"
  BY <1>2, <1>7, Mira
<1>9. UNCHANGED <<R, Propio, Programa, RegistrosVistos, caso.Size>>
  BY <1>3 DEF R, Propio, Programa, RegistrosVistos
<1>10. EnMarcha'
  BY <1>2, <1>3, <1>9 DEF EnMarcha
<1>11. EnMemoria'
  BY <1>2, <1>3, Memoria
<1>12. UNCHANGED <<GeneralesVistos, BytesVistos>>
  BY <1>3, <1>9 DEF GeneralesVistos, BytesVistos
<1>13. PCVisto' = PCVisto + 1
  BY <1>2, <1>3, <1>7, <1>9, Vista DEF PCVisto
<1>14. M!Vuelca
  BY <1>3, <1>6, <1>8, <1>12, <1>13 DEF M!Vuelca
<1>. QED
  BY <1>8, <1>9, <1>10, <1>11, <1>14 DEF M!Next, M!Corre, Solo

LEMMA PasoDeRechazo ==
    ASSUME EstadoVisto = "corre", RechazarDump
    PROVE  Solo' /\ [M!Next]_(M!vars)
<1>1. caso' = caso /\ volcado' = volcado /\ falta'
  BY Visto DEF RechazarDump, Falta
<1>. QED
  BY <1>1, Falto

\* A register of a context is assigned.
LEMMA OtroRegistro ==
    ASSUME NEW l, NEW a \in [Base : {0}, Limit : {l}, RegistroHilos : [Registros -> Int]],
           NEW g \in [Registros -> Int]
    PROVE  /\ [a EXCEPT !.RegistroHilos = g]
                  \in [Base : {0}, Limit : {l}, RegistroHilos : [Registros -> Int]]
           /\ [a EXCEPT !.RegistroHilos = g].RegistroHilos = g
OBVIOUS

LEMMA PasoDeSumar ==
    ASSUME ISolo, EstadoVisto = "corre", SumarPC
    PROVE  Solo' /\ [M!Next]_(M!vars)
<1>1. ciclo = "sumar" /\ ciclo' = "chequeo"
  BY YaEnMarcha DEF SumarPC, Va, EnMarcha
<1>2. EnMarcha /\ EnMemoria
  BY <1>1, YaEnMarcha
<1>3. UNCHANGED <<caso, rutas, exec, mapaContextosProcesos, mapaInstrucciones,
                  memoriaUsuario, interruptionExits, Clave, claveMutex, volcado,
                  EstadoVisto>>
  BY DEF SumarPC, memoria, entrada, kernel, historia, EstadoVisto
<1>4. /\ Clave = Primero /\ DOMAIN Procesos = {Primero}
      /\ Procesos[Primero] \in [Base : {0}, Limit : {caso.Size - 1},
                                RegistroHilos : [Registros -> Int]]
  BY <1>2 DEF EnMarcha, Propio, RegistroHilos
<1>5. Cargado /\ Actual = Procesos[Primero] /\ R \in [Registros -> Int]
      /\ RegistrosVistos = R
  BY <1>2, Vista
<1> DEFINE g == [R EXCEPT !["PC"] = @ + 1]
           b == [Procesos[Primero] EXCEPT !.RegistroHilos = g]
<1>6. "PC" \in Registros /\ R["PC"] \in Int
  BY <1>2, PCFijo DEF Registros
<1>7. g \in [Registros -> Int] /\ g["PC"] = R["PC"] + 1
      /\ \A r \in {"AX", "BX"} : g[r] = R[r]
  BY <1>5, <1>6 DEF Registros
<1>8. Procesos' = [Procesos EXCEPT ![Primero] = b]
  BY <1>4, <1>5 DEF SumarPC, R
<1> HIDE DEF g
<1>9. b \in [Base : {0}, Limit : {caso.Size - 1}, RegistroHilos : [Registros -> Int]]
      /\ b.RegistroHilos = g
  BY <1>4, <1>7, OtroRegistro
<1> HIDE DEF b
<1>10. DOMAIN Procesos' = {Primero} /\ Procesos'[Primero] = b
  BY <1>4, <1>8
<1>11. R' = g /\ Procesos'[Primero] \in Propio'
  BY <1>3, <1>9, <1>10 DEF R, Propio, RegistroHilos
<1>12. EnMarcha'
  BY <1>1, <1>2, <1>3, <1>10, <1>11 DEF EnMarcha
<1>13. EnMemoria'
  BY <1>1, <1>2, <1>3, Memoria DEF EnMemoria
<1>14. RegistrosVistos' = g
  BY <1>2, <1>3, <1>10, <1>11, VistaPrima
<1>15. GeneralesVistos' = GeneralesVistos
  BY <1>5, <1>7, <1>14 DEF GeneralesVistos
<1>16. PCVisto' = PCVisto
  <2>1. PCVisto' = R["PC"] + 1
    BY <1>1, <1>6, <1>7, <1>14 DEF PCVisto
  <2>. QED
    BY <1>1, <1>2, <2>1, PCFijo
<1>. QED
  BY <1>3, <1>12, <1>13, <1>15, <1>16, Quieta DEF Solo

-----------------------------------------------------------------------------
(***************************************************************************)
(* Execute.                                                                *)
(***************************************************************************)

LEMMA Antes ==
    ASSUME ISolo, EstadoVisto = "corre", ciclo = "execute"
    PROVE  /\ EnMarcha /\ EnMemoria /\ Clave = Primero
           /\ exec = Primero /\ exec # Ninguna
           /\ PCVisto = R["PC"] /\ R["PC"] \in Int
           /\ R \in [Registros -> Int] /\ RegistrosVistos = R
           /\ \A r : ObtenerValorRegistro(r) = R[r]
           /\ M!EnPrograma /\ M!i = instruccion /\ instruccion \in Instruccion
           /\ \A r \in Registros : M!Valor(r) = R[r] /\ R[r] \in Int
           /\ M!Accede <=> Accede
           /\ Accede => M!Permitida /\ direccion = M!Direccion
           /\ M!Direccion \in Int
<1>1. EnMarcha /\ EnMemoria
  BY YaEnMarcha
<1>2. /\ Clave = Primero /\ exec = Primero /\ Pendiente
      /\ Accede => direccion = Logica /\ DentroDelLimite
  BY <1>1 DEF EnMarcha
<1>3. PCVisto = R["PC"] /\ R["PC"] \in Int
  BY <1>1, PCFijo
<1>4. R \in [Registros -> Int] /\ RegistrosVistos = R
      /\ \A r : ObtenerValorRegistro(r) = R[r]
  BY <1>1, Vista
<1>. QED
  BY <1>1, <1>2, <1>3, <1>4, Mira, OtraClave

\* The cycle goes on after an instruction, the thread still alone.
LEMMA Continua ==
    ASSUME ISolo, EstadoVisto = "corre", ciclo = "execute", ciclo' \in {"actualizar", "sumar"},
           UNCHANGED <<caso, rutas, exec, mapaContextosProcesos, mapaInstrucciones,
                       interruptionExits, Clave, claveMutex, volcado, EstadoVisto>>,
           DOMAIN memoriaUsuario' = DOMAIN memoriaUsuario,
           DOMAIN Procesos' = {Primero}, Procesos'[Primero] \in Propio
    PROVE  /\ Solo' /\ Programa' = Programa /\ RegistrosVistos' = R'
           /\ PCVisto' = R'["PC"] + 1
<1>1. EnMarcha /\ EnMemoria
  BY YaEnMarcha
<1>2. EnMemoria'
  BY <1>1, Memoria DEF EnMemoria
<1>3. Propio' = Propio /\ Programa' = Programa
  BY DEF Propio, Programa
<1>4. EnMarcha'
  BY <1>1, <1>3 DEF EnMarcha
<1>5. RegistrosVistos' = R'
  BY VistaPrima
<1>6. PCVisto' = R'["PC"] + 1
  BY <1>5 DEF PCVisto
<1>. QED
  BY <1>2, <1>3, <1>4, <1>5, <1>6 DEF Solo

\* An instruction that only moves the program counter.
LEMMA Seguido ==
    ASSUME ISolo, EstadoVisto = "corre", ciclo = "execute",
           UNCHANGED <<caso, rutas, exec, mapaContextosProcesos, mapaInstrucciones,
                       memoriaUsuario, interruptionExits, Clave, claveMutex, Procesos,
                       volcado, EstadoVisto>>,
           ciclo' \in {"actualizar", "sumar"}, instruccion.op \in M!SinEfecto
    PROVE  Solo' /\ [M!Next]_(M!vars)
<1>1. /\ DOMAIN Procesos = {Primero} /\ Procesos[Primero] \in Propio
  BY Antes DEF EnMarcha
<1>2. R' = R
  BY DEF R
<1>3. /\ Solo' /\ Programa' = Programa /\ RegistrosVistos' = R
      /\ PCVisto' = R["PC"] + 1
  <2>1. DOMAIN Procesos' = {Primero} /\ Procesos'[Primero] \in Propio
    BY <1>1
  <2>. QED
    BY <1>2, <2>1, Continua
<1>4. UNCHANGED <<GeneralesVistos, BytesVistos>>
  BY <1>3, Antes DEF GeneralesVistos, BytesVistos
<1>5. PCVisto = R["PC"] /\ M!EnPrograma /\ M!i = instruccion
  BY Antes
<1>6. M!Sigue
  BY <1>3, <1>4, <1>5 DEF M!Sigue
<1>. QED
  BY <1>3, <1>5, <1>6 DEF M!Next, M!Corre

\* An instruction that assigns a register.
LEMMA Asignado ==
    ASSUME ISolo, EstadoVisto = "corre", ciclo = "execute", ciclo' = "sumar",
           UNCHANGED <<caso, entrada, EstadoVisto>>,
           NEW x \in Int, AsignarValorRegistro(instruccion.r, x)
    PROVE  /\ Solo' /\ Programa' = Programa /\ caso'.Size = caso.Size
           /\ M!Asigna(x)
<1> DEFINE r == instruccion.r
           g == [R EXCEPT ![r] = x]
           b == [Procesos[Primero] EXCEPT !.RegistroHilos = g]
<1>1. /\ EnMarcha /\ Clave = Primero /\ PCVisto = R["PC"] /\ R["PC"] \in Int
      /\ R \in [Registros -> Int] /\ RegistrosVistos = R
      /\ M!i = instruccion /\ r \in Registros
  BY Antes DEF Instruccion
<1>2. /\ UNCHANGED <<rutas, exec, mapaContextosProcesos, mapaInstrucciones, mapaRegistrosHilos,
                     memoriaUsuario, interruptionExits, Clave, claveMutex, volcado>>
      /\ Procesos' = Con(Procesos, Primero, [Actual EXCEPT !.RegistroHilos =
                                                [Actual.RegistroHilos EXCEPT ![r] = x]])
  BY <1>1 DEF AsignarValorRegistro, memoria, entrada, kernel
<1>3. /\ DOMAIN Procesos = {Primero}
      /\ Procesos[Primero] \in [Base : {0}, Limit : {caso.Size - 1},
                                RegistroHilos : [Registros -> Int]]
      /\ Actual = Procesos[Primero]
  BY <1>1, Vista DEF EnMarcha, Propio, RegistroHilos
<1>4. g \in [Registros -> Int] /\ g[r] = x /\ \A q \in Registros : q # r => g[q] = R[q]
  BY <1>1
<1>5. Procesos' = Con(Procesos, Primero, b)
  BY <1>2, <1>3 DEF R
<1> HIDE DEF g
<1>6. b \in [Base : {0}, Limit : {caso.Size - 1}, RegistroHilos : [Registros -> Int]]
      /\ b.RegistroHilos = g
  BY <1>3, <1>4, OtroRegistro
<1> HIDE DEF b
<1>7. DOMAIN Procesos' = {Primero} /\ Procesos'[Primero] = b
  BY <1>3, <1>5 DEF Con
<1>8. R' = g /\ Procesos'[Primero] \in Propio
  BY <1>6, <1>7 DEF R, Propio, RegistroHilos
<1>9. /\ Solo' /\ Programa' = Programa /\ RegistrosVistos' = g
      /\ PCVisto' = g["PC"] + 1
  BY <1>2, <1>7, <1>8, Continua
<1>10. BytesVistos' = BytesVistos
  BY <1>2 DEF BytesVistos
<1>11. CASE r = "PC"
  <2>1. PCVisto' = x + 1
    BY <1>4, <1>9, <1>11
  <2>2. GeneralesVistos' = GeneralesVistos
    BY <1>1, <1>4, <1>9, <1>11 DEF GeneralesVistos, Registros
  <2>. QED
    BY <1>1, <1>2, <1>9, <1>10, <1>11, <2>1, <2>2 DEF M!Asigna
<1>12. CASE r # "PC"
  <2>1. PCVisto' = PCVisto + 1
    <3>1. "PC" \in Registros
      BY DEF Registros
    <3>. QED
      BY <1>1, <1>4, <1>9, <1>12, <3>1
  <2>2. GeneralesVistos' = [GeneralesVistos EXCEPT ![r] = x]
    <3>1. r \in {"AX", "BX"} /\ {"AX", "BX"} \subseteq Registros
      BY <1>1, <1>12 DEF Registros
    <3>2. GeneralesVistos' = [q \in {"AX", "BX"} |-> g[q]]
      BY <1>9 DEF GeneralesVistos
    <3>3. GeneralesVistos = [q \in {"AX", "BX"} |-> R[q]]
      BY <1>1 DEF GeneralesVistos
    <3>. QED
      BY <1>4, <3>1, <3>2, <3>3
  <2>. QED
    BY <1>1, <1>2, <1>9, <1>10, <1>12, <2>1, <2>2 DEF M!Asigna
<1>. QED
  BY <1>11, <1>12

\* A word is written, at the same bytes.
LEMMA Guardado ==
    ASSUME ISolo, EstadoVisto = "corre", WRITE_MEM, UNCHANGED <<caso, entrada, EstadoVisto>>
    PROVE  Solo' /\ [M!Next]_(M!vars)
<1>1. instruccion.op = "WRITE_MEM" /\ ciclo = "execute" /\ ciclo' = "sumar"
      /\ writeMem(direccion, ObtenerValorRegistro(instruccion.s))
      /\ UNCHANGED <<mapaContextosProcesos, mapaInstrucciones, Procesos, exec, rutas,
                     volcado, interruptionExits, Clave, claveMutex>>
  BY DEF WRITE_MEM, Ejecuta, Va, memoria, kernel, entrada
<1>2. Accede
  BY <1>1 DEF Accede
<1>3. /\ EnMarcha /\ EnMemoria /\ RegistrosVistos = R /\ PCVisto = R["PC"]
      /\ M!EnPrograma /\ M!i = instruccion /\ M!Permitida /\ direccion = M!Direccion
      /\ instruccion.s \in Registros
      /\ ObtenerValorRegistro(instruccion.s) = M!Valor(instruccion.s)
  BY <1>1, <1>2, Antes DEF Instruccion
<1>4. DOMAIN Procesos = {Primero} /\ Procesos[Primero] \in Propio
  BY <1>3 DEF EnMarcha
<1>5. /\ memoriaUsuario' = [a \in DOMAIN memoriaUsuario |->
                               IF a \in M!Direccion .. M!Direccion + 3
                               THEN EscribirEnMemoria(M!Valor(instruccion.s),
                                                      a - M!Direccion)
                               ELSE memoriaUsuario[a]]
  BY <1>1, <1>3 DEF writeMem
<1>6. DOMAIN memoriaUsuario' = DOMAIN memoriaUsuario
  BY <1>5
<1>7. R' = R
  BY <1>1 DEF R
<1>8. /\ Solo' /\ Programa' = Programa /\ RegistrosVistos' = R
      /\ PCVisto' = R["PC"] + 1
  <2>1. DOMAIN Procesos' = {Primero} /\ Procesos'[Primero] \in Propio
    BY <1>1, <1>4
  <2>. QED
    BY <1>1, <1>6, <1>7, <2>1, Continua
<1>9. GeneralesVistos' = GeneralesVistos
  BY <1>3, <1>8 DEF GeneralesVistos
<1>10. BytesVistos' =
          [d \in DOMAIN BytesVistos |->
              IF d \in M!Direccion .. M!Direccion + 3
              THEN (M!Valor(instruccion.s) \div (256 ^ (3 - (d - M!Direccion)))) % 256
              ELSE BytesVistos[d]]
  <2>1. 0 .. caso.Size - 1 \subseteq DOMAIN memoriaUsuario
    BY <1>3, ElCaso DEF EnMemoria, ISolo
  <2>2. BytesVistos = [d \in 0 .. caso.Size - 1 |-> memoriaUsuario[d]]
    BY DEF BytesVistos
  <2>3. BytesVistos' = [d \in 0 .. caso.Size - 1 |-> memoriaUsuario'[d]]
    BY <1>1 DEF BytesVistos
  <2>. QED
    BY <1>5, <2>1, <2>2, <2>3 DEF EscribirEnMemoria
<1>11. M!Guarda
  <2>1. M!i.op = "WRITE_MEM" /\ M!i.s = instruccion.s
    BY <1>1, <1>3
  <2>2. UNCHANGED <<GeneralesVistos, volcado.contenido, EstadoVisto>> /\ PCVisto' = PCVisto + 1
    BY <1>1, <1>3, <1>8, <1>9
  <2>. QED
    BY <1>3, <1>10, <2>1, <2>2 DEF M!Guarda
<1>. QED
  BY <1>3, <1>8, <1>11 DEF M!Next, M!Corre

\* SET, SUM and SUB.
LEMMA Calculado ==
    ASSUME ISolo, EstadoVisto = "corre", SET \/ SUM \/ SUB,
           UNCHANGED <<caso, entrada, EstadoVisto>>
    PROVE  Solo' /\ [M!Next]_(M!vars)
<1>1. ciclo = "execute" /\ ciclo' = "sumar"
  BY DEF SET, SUM, SUB, Ejecuta, Va
<1>2. /\ M!EnPrograma /\ M!i = instruccion
      /\ instruccion.r \in Registros /\ instruccion.s \in Registros
      /\ instruccion.v \in Int
      /\ \A r \in Registros : /\ M!Valor(r) = ObtenerValorRegistro(r)
                              /\ ObtenerValorRegistro(r) \in Int
  BY <1>1, Antes DEF Instruccion
<1>3. Solo' /\ Programa' = Programa /\ caso'.Size = caso.Size /\ M!Calcula
  <2>1. CASE SET
    <3>1. instruccion.op = "SET" /\ AsignarValorRegistro(instruccion.r, instruccion.v)
      BY <2>1 DEF SET, Ejecuta
    <3>2. /\ Solo' /\ Programa' = Programa /\ caso'.Size = caso.Size
          /\ M!Asigna(instruccion.v)
      BY <1>1, <1>2, <3>1, Asignado
    <3>. QED
      BY <1>2, <3>1, <3>2 DEF M!Calcula
  <2>2. CASE SUM
    <3> DEFINE x == ObtenerValorRegistro(instruccion.r)
                    + ObtenerValorRegistro(instruccion.s)
    <3>1. instruccion.op = "SUM" /\ AsignarValorRegistro(instruccion.r, x)
      BY <2>2 DEF SUM, Ejecuta
    <3>2. x \in Int /\ x = M!Valor(instruccion.r) + M!Valor(instruccion.s)
      BY <1>2
    <3> HIDE DEF x
    <3>3. /\ Solo' /\ Programa' = Programa /\ caso'.Size = caso.Size /\ M!Asigna(x)
      BY <1>1, <3>1, <3>2, Asignado
    <3>. QED
      BY <1>2, <3>1, <3>2, <3>3 DEF M!Calcula
  <2>3. CASE SUB
    <3> DEFINE x == ObtenerValorRegistro(instruccion.r)
                    - ObtenerValorRegistro(instruccion.s)
    <3>1. instruccion.op = "SUB" /\ AsignarValorRegistro(instruccion.r, x)
      BY <2>3 DEF SUB, Ejecuta
    <3>2. x \in Int /\ x = M!Valor(instruccion.r) - M!Valor(instruccion.s)
      BY <1>2
    <3> HIDE DEF x
    <3>3. /\ Solo' /\ Programa' = Programa /\ caso'.Size = caso.Size /\ M!Asigna(x)
      BY <1>1, <3>1, <3>2, Asignado
    <3>. QED
      BY <1>2, <3>1, <3>2, <3>3 DEF M!Calcula
  <2>. QED
    BY <2>1, <2>2, <2>3
<1>. QED
  BY <1>2, <1>3 DEF M!Next, M!Corre

LEMMA SinEfecto ==
    ASSUME ISolo, EstadoVisto = "corre", UNCHANGED <<caso, entrada, EstadoVisto>>,
           \/ LOG \/ IO \/ MUTEX_LOCK \/ MUTEX_CREATE \/ THREAD_CANCEL
           \/ PROCESS_CREATE /\ SinTocarNada
    PROVE  Solo' /\ [M!Next]_(M!vars)
<1>1. /\ ciclo = "execute"
      /\ UNCHANGED <<rutas, exec, mapaContextosProcesos, mapaInstrucciones,
                     memoriaUsuario, interruptionExits, Clave, claveMutex, Procesos,
                     volcado>>
  BY DEF LOG, IO, MUTEX_LOCK, MUTEX_CREATE, THREAD_CANCEL, PROCESS_CREATE, DeExecutando,
     Ejecuta, Va, SinTocarNada, memoria, kernel, entrada
<1>2. ciclo' \in {"actualizar", "sumar"} /\ instruccion.op \in M!SinEfecto
  BY DEF LOG, IO, MUTEX_LOCK, MUTEX_CREATE, THREAD_CANCEL, PROCESS_CREATE, DeExecutando,
     Ejecuta, Va, M!SinEfecto
<1>. QED
  BY <1>1, <1>2, Seguido

\* The thread ends, gets company or waits for another one.
LEMMA Terminado ==
    ASSUME ISolo, EstadoVisto = "corre", caso' = caso, EstadoVisto' = estado',
           \/ THREAD_EXIT \/ PROCESS_EXIT \/ THREAD_JOIN \/ THREAD_CREATE
           \/ PROCESS_CREATE /\ ~SinTocarNada
    PROVE  Solo' /\ [M!Next]_(M!vars)
<1>1. ciclo = "execute" /\ volcado' = volcado /\ estado = "corre"
  BY Visto DEF THREAD_EXIT, PROCESS_EXIT, THREAD_JOIN, THREAD_CREATE, PROCESS_CREATE,
     CrearHilo, DeExecutando, Ejecuta, Va, SinTocarNada
<1>2. M!EnPrograma /\ M!i = instruccion
  BY <1>1, Antes
<1>3. CASE THREAD_EXIT \/ PROCESS_EXIT
  BY <1>1, <1>2, <1>3, Acaba DEF THREAD_EXIT, PROCESS_EXIT, DeExecutando, Ejecuta, Queda
<1>4. CASE THREAD_JOIN \/ THREAD_CREATE
  BY <1>1, <1>4, Acaba DEF THREAD_JOIN, THREAD_CREATE, CrearHilo, Queda
<1>5. CASE PROCESS_CREATE /\ ~SinTocarNada
  BY <1>1, <1>5, Acaba DEF PROCESS_CREATE, CrearHilo, Queda
<1>. QED
  BY <1>3, <1>4, <1>5

\* DUMP_MEMORY leaves EXEC empty; the machine waits for the copy.
LEMMA PideDump ==
    ASSUME ISolo, EstadoVisto = "corre", DUMP_MEMORY,
           UNCHANGED <<caso, entrada, instruccion, EstadoVisto>>
    PROVE  Solo' /\ [M!Next]_(M!vars)
<1>1. /\ ciclo = "execute" /\ ciclo' = "volcando" /\ instruccion.op = "DUMP_MEMORY"
      /\ volcado' = [PID |-> exec.PID, contenido |-> <<>>]
      /\ UNCHANGED <<mapaContextosProcesos, mapaInstrucciones, memoriaUsuario, Procesos,
                     rutas, interruptionExits, Clave, claveMutex>>
  BY DEF DUMP_MEMORY, DeExecutando, Ejecuta, Va, memoria, entrada
<1>2. EnMarcha /\ EnMemoria /\ exec = Primero
  BY <1>1, Antes
<1>3. volcado' = [PID |-> 0, contenido |-> <<>>] /\ volcado'.contenido = volcado.contenido
  BY <1>1, <1>2 DEF Primero, EnMemoria
<1>4. EnMemoria'
  BY <1>1, <1>2, <1>3, Memoria DEF EnMemoria
<1>5. UNCHANGED <<R, Propio, Programa, RegistrosVistos>>
  BY <1>1 DEF R, Propio, Programa, RegistrosVistos
<1>6. Pendiente'
  BY <1>1, <1>2, <1>5 DEF EnMarcha, Pendiente
<1>7. EnMarcha'
  BY <1>1, <1>2, <1>3, <1>5, <1>6 DEF EnMarcha
<1>8. UNCHANGED <<GeneralesVistos, PCVisto>>
  BY <1>1, <1>5 DEF GeneralesVistos, PCVisto
<1>. QED
  BY <1>1, <1>3, <1>4, <1>7, <1>8, Quieta DEF Solo

LEMMA PasoDeExecute ==
    ASSUME ISolo, EstadoVisto = "corre", Execute
    PROVE  Solo' /\ [M!Next]_(M!vars)
<1>1. UNCHANGED <<caso, entrada, instruccion>> /\ (falta' <=> instruccion.op \in Faltas)
  BY Visto DEF Execute, Falta
<1>2. instruccion.op \notin Faltas => EstadoVisto' = estado'
  BY <1>1, Visto
<1>3. estado = "corre"
  BY Visto
<1>4. CASE SinExec
  <2>1. ciclo = "execute" /\ exec = Ninguna
    BY <1>4 DEF SinExec, Va
  <2>. QED
    BY <2>1, Antes
<1>5. CASE SET \/ SUM \/ SUB
  <2>1. EstadoVisto' = EstadoVisto
    BY <1>2, <1>3, <1>5 DEF SET, SUM, SUB, Ejecuta, AsignarValorRegistro, Faltas
  <2>. QED
    BY <1>1, <1>5, <2>1, Calculado
<1>6. CASE WRITE_MEM
  <2>1. EstadoVisto' = EstadoVisto
    BY <1>2, <1>3, <1>6 DEF WRITE_MEM, Ejecuta, Faltas
  <2>. QED
    BY <1>1, <1>6, <2>1, Guardado
<1>7. CASE \/ LOG \/ IO \/ MUTEX_LOCK \/ MUTEX_CREATE \/ THREAD_CANCEL
           \/ PROCESS_CREATE /\ SinTocarNada
  <2>1. EstadoVisto' = EstadoVisto
    BY <1>2, <1>3, <1>7 DEF LOG, IO, MUTEX_LOCK, MUTEX_CREATE, THREAD_CANCEL, PROCESS_CREATE,
       DeExecutando, Ejecuta, SinTocarNada, Faltas
  <2>. QED
    BY <1>1, <1>7, <2>1, SinEfecto
<1>8. CASE READ_MEM \/ JNZ \/ MUTEX_UNLOCK
  <2>1. falta' /\ volcado' = volcado
    BY <1>1, <1>8 DEF READ_MEM, JNZ, MUTEX_UNLOCK, Ejecuta, SinTocarNada, Faltas
  <2>. QED
    BY <1>1, <2>1, Falto
<1>9. CASE \/ THREAD_EXIT \/ PROCESS_EXIT \/ THREAD_JOIN \/ THREAD_CREATE
           \/ PROCESS_CREATE /\ ~SinTocarNada
  <2>1. EstadoVisto' = estado'
    BY <1>2, <1>9 DEF THREAD_EXIT, PROCESS_EXIT, THREAD_JOIN, THREAD_CREATE, PROCESS_CREATE,
       DeExecutando, Ejecuta, Faltas
  <2>. QED
    BY <1>1, <1>9, <2>1, Terminado
<1>10. CASE DUMP_MEMORY
  <2>1. EstadoVisto' = EstadoVisto
    BY <1>2, <1>3, <1>10 DEF DUMP_MEMORY, DeExecutando, Ejecuta, Faltas
  <2>. QED
    BY <1>1, <1>10, <2>1, PideDump
<1>. QED
  BY <1>4, <1>5, <1>6, <1>7, <1>8, <1>9, <1>10 DEF Execute

-----------------------------------------------------------------------------
(***************************************************************************)
(* The segments of the keys, with any number of threads and processes and  *)
(* any interference of the planner.                                        *)
(***************************************************************************)

LosPID == {t.PID : t \in DOMAIN rutas}

Segmento(p) == [Base |-> p.Base, Limit |-> p.Limit]

\* A PID that was not given is in no key, and the next one is not given yet.
Conocidas ==
    /\ \E k \in Nat : LosPID = 0 .. k - 1
    /\ exec \in DOMAIN rutas \cup {Ninguna} /\ Clave \in DOMAIN rutas \cup {Ninguna}
    /\ DOMAIN Procesos \subseteq DOMAIN rutas \cup {Ninguna}
    /\ \A c \in DOMAIN Procesos : {"Base", "Limit"} \subseteq DOMAIN Procesos[c]
    /\ \A p \in DOMAIN mapaContextosProcesos :
           mapaContextosProcesos[p] = Segmento(mapaContextosProcesos[p])

Permitidos(pid) == {mapaContextosProcesos[pid], [Base |-> 0, Limit |-> 0]}

ISegmentos == Conocidas /\ SegmentoPropio

LEMMA SegmentoPropioEs ==
    /\ SegmentoPropio <=>
           \A c \in DOMAIN Procesos : c.PID \in DOMAIN mapaContextosProcesos =>
               Segmento(Procesos[c]) \in Permitidos(c.PID)
    /\ SegmentoPropio' <=>
           \A c \in DOMAIN Procesos' : c.PID \in DOMAIN mapaContextosProcesos' =>
               Segmento(Procesos'[c]) \in Permitidos(c.PID)'
BY DEF SegmentoPropio, Segmento, Permitidos

\* A process may end, and EXEC may empty or get another thread.
LEMMA SinTocarClaves ==
    ASSUME ISegmentos, UNCHANGED <<Procesos, rutas>>,
           Clave' = Clave \/ Clave' = exec,
           exec' \in DOMAIN rutas \cup {Ninguna},
           \/ mapaContextosProcesos' = mapaContextosProcesos
           \/ \E p : FinalizarProceso(p)
    PROVE  ISegmentos'
<1>1. /\ DOMAIN mapaContextosProcesos' \subseteq DOMAIN mapaContextosProcesos
      /\ \A p \in DOMAIN mapaContextosProcesos' :
             mapaContextosProcesos'[p] = mapaContextosProcesos[p]
  BY DEF FinalizarProceso, Sin
<1>2. Conocidas'
  BY <1>1 DEF ISegmentos, Conocidas, LosPID, Segmento
<1>3. SegmentoPropio'
  BY <1>1 DEF ISegmentos, SegmentoPropio
<1>. QED
  BY <1>2, <1>3 DEF ISegmentos

\* An entry of Procesos is set, with an allowed segment.
LEMMA OtraEntrada ==
    ASSUME ISegmentos, NEW b, {"Base", "Limit"} \subseteq DOMAIN b,
           Clave.PID \in DOMAIN mapaContextosProcesos =>
               Segmento(b) \in Permitidos(Clave.PID),
           DOMAIN Procesos' \subseteq DOMAIN Procesos \cup {Clave},
           \A c \in DOMAIN Procesos' :
               Procesos'[c] = IF c = Clave THEN b ELSE Procesos[c],
           UNCHANGED <<mapaContextosProcesos, rutas, exec, Clave>>
    PROVE  ISegmentos'
<1>1. Conocidas'
  BY DEF ISegmentos, Conocidas, LosPID
<1>2. ASSUME NEW c \in DOMAIN Procesos', c.PID \in DOMAIN mapaContextosProcesos'
      PROVE  Segmento(Procesos'[c]) \in Permitidos(c.PID)'
  <2>1. Permitidos(c.PID)' = Permitidos(c.PID)
    BY DEF Permitidos
  <2>2. CASE c = Clave
    BY <1>2, <2>1, <2>2
  <2>3. CASE c # Clave
    <3>1. c \in DOMAIN Procesos /\ Procesos'[c] = Procesos[c]
      BY <2>3
    <3>2. Segmento(Procesos[c]) \in Permitidos(c.PID)
      BY <1>2, <3>1, SegmentoPropioEs DEF ISegmentos
    <3>. QED
      BY <2>1, <3>1, <3>2
  <2>. QED
    BY <2>2, <2>3
<1>. QED
  BY <1>1, <1>2, SegmentoPropioEs DEF ISegmentos

LEMMA ConRegistros ==
    ASSUME NEW a, NEW g, {"Base", "Limit"} \subseteq DOMAIN a
    PROVE  /\ {"Base", "Limit"} \subseteq DOMAIN [a EXCEPT !.RegistroHilos = g]
           /\ Segmento([a EXCEPT !.RegistroHilos = g]) = Segmento(a)
<1>1. "Base" # "RegistroHilos" /\ "Limit" # "RegistroHilos"
  OBVIOUS
<1>2. DOMAIN [a EXCEPT !.RegistroHilos = g] = DOMAIN a
  OBVIOUS
<1>3. /\ [a EXCEPT !.RegistroHilos = g].Base = a.Base
      /\ [a EXCEPT !.RegistroHilos = g].Limit = a.Limit
  BY <1>1
<1>. QED
  BY <1>2, <1>3 DEF Segmento

\* What the CPU holds under the key of this moment, or Go's zero value.
LEMMA ElActual ==
    ASSUME ISegmentos
    PROVE  /\ {"Base", "Limit"} \subseteq DOMAIN Actual
           /\ Clave.PID \in DOMAIN mapaContextosProcesos =>
                  Segmento(Actual) \in Permitidos(Clave.PID)
<1>1. CASE Cargado
  <2>1. Actual = Procesos[Clave] /\ Clave \in DOMAIN Procesos
    BY <1>1 DEF Actual, Cargado
  <2>. QED
    BY <2>1, SegmentoPropioEs DEF ISegmentos, Conocidas
<1>2. CASE ~Cargado
  <2>1. Actual = [Base |-> 0, Limit |-> 0, RegistroHilos |-> EnCero]
    BY <1>2 DEF Actual
  <2>2. Segmento(Actual) = [Base |-> 0, Limit |-> 0]
    BY <2>1 DEF Segmento
  <2>3. {"Base", "Limit"} \subseteq DOMAIN Actual
    BY <2>1
  <2>. QED
    BY <2>2, <2>3 DEF Permitidos
<1>. QED
  BY <1>1, <1>2

LEMMA AsignaEnSuSegmento ==
    ASSUME ISegmentos, NEW r, NEW x, AsignarValorRegistro(r, x), Clave' = Clave
    PROVE  ISegmentos'
<1> DEFINE b == [Actual EXCEPT !.RegistroHilos = [Actual.RegistroHilos EXCEPT ![r] = x]]
<1>1. {"Base", "Limit"} \subseteq DOMAIN b /\ Segmento(b) = Segmento(Actual)
  BY ElActual, ConRegistros
<1>2. Procesos' = Con(Procesos, Clave, b)
      /\ UNCHANGED <<mapaContextosProcesos, rutas, exec>>
  BY DEF AsignarValorRegistro, memoria, kernel
<1> HIDE DEF b
<1>3. /\ DOMAIN Procesos' \subseteq DOMAIN Procesos \cup {Clave}
      /\ \A c \in DOMAIN Procesos' : Procesos'[c] = IF c = Clave THEN b ELSE Procesos[c]
  BY <1>2 DEF Con
<1>. QED
  BY <1>1, <1>2, <1>3, ElActual, OtraEntrada

LEMMA SumaEnSuSegmento ==
    ASSUME ISegmentos, SumarPC
    PROVE  ISegmentos'
<1>1. UNCHANGED <<mapaContextosProcesos, rutas, exec, Clave>>
  BY DEF SumarPC, memoria, entrada, kernel
<1>2. CASE ~Cargado
  <2>1. Procesos' = Procesos
    BY <1>2 DEF SumarPC
  <2>. QED
    BY <1>1, <2>1, SinTocarClaves DEF ISegmentos, Conocidas
<1>3. CASE Cargado
  <2> DEFINE g == [Actual.RegistroHilos EXCEPT !["PC"] = @ + 1]
             b == [Actual EXCEPT !.RegistroHilos = g]
  <2>1. {"Base", "Limit"} \subseteq DOMAIN b /\ Segmento(b) = Segmento(Actual)
    BY ElActual, ConRegistros
  <2>2. Clave \in DOMAIN Procesos /\ Actual = Procesos[Clave]
    BY <1>3 DEF Cargado, Actual
  <2>3. Procesos' = [Procesos EXCEPT ![Clave] = b]
    BY <1>3, <2>2 DEF SumarPC
  <2> HIDE DEF b
  <2>4. /\ DOMAIN Procesos' \subseteq DOMAIN Procesos \cup {Clave}
        /\ \A c \in DOMAIN Procesos' : Procesos'[c] = IF c = Clave THEN b ELSE Procesos[c]
    BY <2>2, <2>3
  <2>. QED
    BY <1>1, <2>1, <2>4, ElActual, OtraEntrada
<1>. QED
  BY <1>2, <1>3

LEMMA RecibeSuSegmento ==
    ASSUME ISegmentos, RecibirContexto
    PROVE  ISegmentos'
<1>1. UNCHANGED <<mapaContextosProcesos, rutas, exec, Clave>>
  BY DEF RecibirContexto, memoria, kernel
<1>2. CASE Clave \notin DOMAIN mapaRegistrosHilos
  <2>1. Procesos' = Procesos
    BY <1>2 DEF RecibirContexto
  <2>. QED
    BY <1>1, <2>1, SinTocarClaves DEF ISegmentos, Conocidas
<1>3. CASE Clave \in DOMAIN mapaRegistrosHilos
  <2> DEFINE b == ContextoDe(Clave)
  <2>1. Procesos' = Con(Procesos, Clave, b)
    BY <1>3 DEF RecibirContexto
  <2>2. {"Base", "Limit"} \subseteq DOMAIN b
    BY DEF ContextoDe
  <2>3. Clave.PID \in DOMAIN mapaContextosProcesos =>
            Segmento(b) \in Permitidos(Clave.PID)
    <3>1. SUFFICES ASSUME Clave.PID \in DOMAIN mapaContextosProcesos
                   PROVE  Segmento(b) \in Permitidos(Clave.PID)
      OBVIOUS
    <3>2. Segmento(b) \in Permitidos(Clave.PID)
      <4> DEFINE m == mapaContextosProcesos[Clave.PID]
      <4>1. b = [Base |-> m.Base, Limit |-> m.Limit,
                 RegistroHilos |-> mapaRegistrosHilos[Clave]]
        BY <3>1 DEF ContextoDe
      <4>2. Segmento(b) = Segmento(m)
        BY <4>1 DEF Segmento
      <4>3. Segmento(m) = m
        BY <3>1 DEF ISegmentos, Conocidas
      <4>. QED
        BY <4>2, <4>3 DEF Permitidos
    <3>. QED
      BY <3>2
  <2> HIDE DEF b
  <2>4. /\ DOMAIN Procesos' \subseteq DOMAIN Procesos \cup {Clave}
        /\ \A c \in DOMAIN Procesos' : Procesos'[c] = IF c = Clave THEN b ELSE Procesos[c]
    BY <2>1 DEF Con
  <2>. QED
    BY <1>1, <2>2, <2>3, <2>4, OtraEntrada
<1>. QED
  BY <1>2, <1>3

LEMMA InicioSegmentos == Init => ISegmentos
<1>1. SUFFICES ASSUME Init PROVE ISegmentos
  OBVIOUS
<1>2. LosPID = 0 .. 1 - 1
  BY <1>1 DEF Init, Con, LosPID, Primero
<1>3. DOMAIN Procesos = {}
  BY <1>1 DEF Init
<1>4. exec \in DOMAIN rutas /\ Clave = Ninguna
  BY <1>1 DEF Init, Con
<1>5. \A p \in DOMAIN mapaContextosProcesos :
          mapaContextosProcesos[p] = Segmento(mapaContextosProcesos[p])
  BY <1>1 DEF Init, Con, Segmento
<1>6. Conocidas
  BY <1>2, <1>3, <1>4, <1>5 DEF Conocidas
<1>7. SegmentoPropio
  BY <1>3 DEF SegmentoPropio
<1>. QED
  BY <1>6, <1>7 DEF ISegmentos

\* A thread more, of a process that has some.
LEMMA HiloEnSuSegmento ==
    ASSUME ISegmentos, THREAD_CREATE, Clave' = Clave
    PROVE  ISegmentos'
<1> DEFINE t == [PID |-> exec.PID,
                 TID |-> Cardinality({u.TID : u \in {h \in DOMAIN rutas : h.PID = exec.PID}})]
<1>1. rutas' = Con(rutas, t, instruccion.ruta)
      /\ UNCHANGED <<mapaContextosProcesos, Procesos, exec>>
  BY DEF THREAD_CREATE, CrearHilo
<1>2. exec \in DOMAIN rutas
  BY DEF THREAD_CREATE, DeExecutando, ISegmentos, Conocidas
<1>3. t.PID = exec.PID
  OBVIOUS
<1> HIDE DEF t
<1>4. DOMAIN rutas' = DOMAIN rutas \cup {t}
  BY <1>1 DEF Con
<1>5. LosPID' = LosPID
  BY <1>2, <1>3, <1>4 DEF LosPID
<1>6. Conocidas'
  BY <1>1, <1>4, <1>5 DEF ISegmentos, Conocidas, Segmento
<1>7. SegmentoPropio'
  BY <1>1 DEF ISegmentos, SegmentoPropio
<1>. QED
  BY <1>6, <1>7 DEF ISegmentos

\* The PID of a new process is in no key.
LEMMA ProcesoEnSuSegmento ==
    ASSUME ISegmentos, PROCESS_CREATE, Clave' = Clave
    PROVE  ISegmentos'
<1>1. PICK k \in Nat : LosPID = 0 .. k - 1
  BY DEF ISegmentos, Conocidas
<1>2. Cardinality(LosPID) = k
  BY <1>1, FS_Interval
<1>3. CASE SinTocarNada
  <2>1. UNCHANGED <<Procesos, rutas, mapaContextosProcesos, exec>>
    BY <1>3 DEF SinTocarNada, memoria, kernel
  <2>. QED
    BY <2>1, SinTocarClaves DEF ISegmentos, Conocidas
<1>4. ASSUME NEW size, NEW b,
             mapaContextosProcesos' =
                 Con(mapaContextosProcesos, k, [Base |-> b, Limit |-> b + size - 1]),
             CrearHilo([PID |-> k, TID |-> 0], instruccion.ruta)
      PROVE  ISegmentos'
  <2> DEFINE t == [PID |-> k, TID |-> 0]
             m == [Base |-> b, Limit |-> b + size - 1]
  <2>1. DOMAIN rutas' = DOMAIN rutas \cup {t} /\ UNCHANGED <<Procesos, exec>>
    BY <1>4 DEF CrearHilo, Con
  <2>2. LosPID' = LosPID \cup {k}
    <3>1. t.PID = k
      OBVIOUS
    <3> HIDE DEF t
    <3>. QED
      BY <2>1, <3>1 DEF LosPID
  <2>3. LosPID' = 0 .. (k + 1) - 1
    BY <1>1, <2>2
  <2>4. m = Segmento(m)
    BY DEF Segmento
  <2> HIDE DEF m, t
  <2>5. \A p \in DOMAIN mapaContextosProcesos' :
            mapaContextosProcesos'[p] = IF p = k THEN m ELSE mapaContextosProcesos[p]
    BY <1>4 DEF Con, m
  <2>6. DOMAIN mapaContextosProcesos' = DOMAIN mapaContextosProcesos \cup {k}
    BY <1>4 DEF Con
  <2>7. Conocidas'
    <3>1. \E j \in Nat : LosPID' = 0 .. j - 1
      BY <2>3
    <3>2. \A p \in DOMAIN mapaContextosProcesos' :
              mapaContextosProcesos'[p] = Segmento(mapaContextosProcesos'[p])
      BY <2>4, <2>5, <2>6 DEF ISegmentos, Conocidas
    <3>. QED
      BY <2>1, <3>1, <3>2 DEF ISegmentos, Conocidas, Segmento
  <2>8. \A c \in DOMAIN Procesos : c.PID # k
    <3>1. \A c \in DOMAIN rutas : c.PID \in LosPID
      BY DEF LosPID
    <3>2. Ninguna.PID = -1
      BY DEF Ninguna
    <3>. QED
      BY <1>1, <3>1, <3>2 DEF ISegmentos, Conocidas
  <2>9. SegmentoPropio'
    BY <2>1, <2>5, <2>6, <2>8 DEF ISegmentos, SegmentoPropio
  <2>. QED
    BY <2>7, <2>9 DEF ISegmentos
<1>5. Cardinality({t.PID : t \in DOMAIN rutas}) = k
  BY <1>2 DEF LosPID
<1>. QED
  BY <1>3, <1>4, <1>5 DEF PROCESS_CREATE

LEMMA InstruccionEnSuSegmento ==
    ASSUME ISegmentos, Execute
    PROVE  ISegmentos'
<1>1. Clave' = Clave
  BY DEF Execute, entrada
<1>2. exec \in DOMAIN rutas \cup {Ninguna}
  BY DEF ISegmentos, Conocidas
<1>3. CASE SET \/ SUM \/ SUB
  BY <1>1, <1>3, AsignaEnSuSegmento DEF SET, SUM, SUB
<1>4. CASE THREAD_CREATE
  BY <1>1, <1>4, HiloEnSuSegmento
<1>5. CASE PROCESS_CREATE
  BY <1>1, <1>5, ProcesoEnSuSegmento
<1>6. CASE LOG \/ JNZ \/ IO \/ MUTEX_LOCK \/ MUTEX_CREATE \/ SinExec
           \/ WRITE_MEM \/ READ_MEM \/ MUTEX_UNLOCK
  <2>1. UNCHANGED <<Procesos, rutas, exec, mapaContextosProcesos>>
    BY <1>6 DEF LOG, JNZ, IO, MUTEX_LOCK, MUTEX_CREATE, SinExec, WRITE_MEM, READ_MEM,
       LeerDeMemoria, MUTEX_UNLOCK, SinTocarNada, memoria, kernel
  <2>. QED
    BY <1>1, <1>2, <2>1, SinTocarClaves
<1>7. CASE THREAD_JOIN \/ THREAD_CANCEL \/ THREAD_EXIT \/ DUMP_MEMORY
  <2>1. /\ UNCHANGED <<Procesos, rutas, mapaContextosProcesos>>
        /\ exec' \in {exec, Ninguna}
    BY <1>7 DEF THREAD_JOIN, THREAD_CANCEL, THREAD_EXIT, DUMP_MEMORY, memoria, kernel
  <2>. QED
    BY <1>1, <1>2, <2>1, SinTocarClaves
<1>8. CASE PROCESS_EXIT
  <2>1. /\ UNCHANGED <<Procesos, rutas>> /\ exec' = Ninguna
        /\ FinalizarProceso(exec.PID)
    BY <1>8 DEF PROCESS_EXIT
  <2>. QED
    BY <1>1, <2>1, SinTocarClaves
<1>. QED
  BY <1>3, <1>4, <1>5, <1>6, <1>7, <1>8 DEF Execute

LEMMA CadaPasoEnSuSegmento ==
    ASSUME ISegmentos, [Next]_vars
    PROVE  ISegmentos'
<1>1. exec \in DOMAIN rutas \cup {Ninguna}
  BY DEF ISegmentos, Conocidas
<1>2. CASE Execute
  BY <1>2, InstruccionEnSuSegmento
<1>3. CASE RecibirContexto
  BY <1>3, RecibeSuSegmento
<1>4. CASE SumarPC
  BY <1>4, SumaEnSuSegmento
<1>5. CASE RecibirClave
  <2>1. UNCHANGED <<Procesos, rutas, exec, mapaContextosProcesos>> /\ Clave' = exec
    BY <1>5 DEF RecibirClave, memoria, kernel
  <2>. QED
    BY <1>1, <2>1, SinTocarClaves
<1>6. CASE Cabeza \/ Fetch \/ Decode \/ ProcesoNoEncontrado \/ Actualizar
           \/ CheckInterrupt \/ memoryDump \/ interrupccion \/ UNCHANGED vars
  <2>1. UNCHANGED <<Procesos, rutas, exec, mapaContextosProcesos, Clave>>
    BY <1>6 DEF Cabeza, Fetch, Decode, ProcesoNoEncontrado, Actualizar, CheckInterrupt,
       memoryDump, interrupccion, vars, memoria, kernel, entrada
  <2>. QED
    BY <1>1, <2>1, SinTocarClaves
<1>7. CASE Planifica
  <2>1. UNCHANGED <<Procesos, rutas, mapaContextosProcesos, Clave>> /\ exec' \in DOMAIN rutas
    BY <1>7 DEF Planifica, memoria, entrada
  <2>. QED
    BY <2>1, SinTocarClaves
<1>8. CASE RechazarDump
  <2>1. /\ UNCHANGED <<Procesos, rutas, exec, Clave>>
        /\ FinalizarProceso(volcado.PID)
    BY <1>8 DEF RechazarDump, kernel, entrada
  <2>. QED
    BY <1>1, <2>1, SinTocarClaves
<1>9. CASE ManejarSegmentationFault
  <2>1. /\ UNCHANGED <<Procesos, rutas, Clave>> /\ exec' = Ninguna
        /\ \/ mapaContextosProcesos' = mapaContextosProcesos
           \/ FinalizarProceso(exec.PID)
    BY <1>9 DEF ManejarSegmentationFault, entrada
  <2>. QED
    BY <2>1, SinTocarClaves
<1>. QED
  BY <1>2, <1>3, <1>4, <1>5, <1>6, <1>7, <1>8, <1>9 DEF Next, CicloDeEjecucion, Recibe

-----------------------------------------------------------------------------
(***************************************************************************)
(* The theorems.                                                           *)
(***************************************************************************)

LEMMA CadaPasoDeMaquina ==
    ASSUME ISolo, [Next]_vars
    PROVE  ISolo' /\ [M!Next]_(M!vars)
<1>1. caso' = caso
  BY CasoFijo
<1>2. Solo' /\ [M!Next]_(M!vars)
  <2>1. CASE EstadoVisto # "corre"
    BY <1>1, <2>1, NoSeVeMas, YaFuera
  <2>2. CASE EstadoVisto = "corre" /\ CicloDeEjecucion
    BY <2>2, PasosQuietos, PasoDeFetch, PasoDeSegmentationFault, PasoDeExecute,
       PasoDeDump, PasoDeRechazo, PasoDeSumar DEF CicloDeEjecucion
  <2>3. CASE EstadoVisto = "corre" /\ (Recibe \/ Planifica \/ interrupccion)
    BY <1>1, <2>3, PasoDeRecibir, PasoAjeno
  <2>4. CASE EstadoVisto = "corre" /\ UNCHANGED vars
    <3>1. UNCHANGED <<caso, rutas, exec, mapaContextosProcesos, mapaRegistrosHilos,
                      mapaInstrucciones, memoriaUsuario, interruptionExits, Clave,
                      claveMutex, Procesos, volcado, EstadoVisto, ciclo, instruccion,
                      direccion>>
      BY <2>4 DEF vars, memoria, kernel, entrada, historia, EstadoVisto
    <3>2. UNCHANGED <<R, Propio, Programa, Accede, Logica, DentroDelLimite>>
      BY <3>1 DEF R, Propio, Programa, Accede, Logica, DentroDelLimite,
         ObtenerValorRegistro, Actual, Cargado
    <3>3. UNCHANGED <<GeneralesVistos, PCVisto>>
      BY <3>1 DEF GeneralesVistos, PCVisto, RegistrosVistos
    <3>4. EnMemoria => EnMemoria'
      BY <3>1, Memoria DEF EnMemoria
    <3>5. Arranca => Arranca'
      BY <3>1 DEF Arranca
    <3>6. Pendiente => Pendiente'
      BY <3>1, <3>2 DEF Pendiente
    <3>7. EnMarcha => EnMarcha'
      BY <3>1, <3>2, <3>6 DEF EnMarcha
    <3>8. Solo'
      BY <2>4, <3>1, <3>4, <3>5, <3>7 DEF ISolo, Solo
    <3>. QED
      BY <3>1, <3>3, <3>8, Quieta
  <2>. QED
    BY <2>1, <2>2, <2>3, <2>4 DEF Next
<1>. QED
  BY <1>1, <1>2 DEF ISolo

\* While the machine sees the first thread, what the CPU, memoria and the handlers
\* of the kernel keep for it is what a sequential machine would keep.
THEOREM SoloEnPie == Spec => []ISolo
<1>1. Init => ISolo
  BY Alcance
<1>2. ISolo /\ [Next]_vars => ISolo'
  BY CadaPasoDeMaquina
<1>. QED
  BY <1>1, <1>2, PTL DEF Spec

\* Whatever the program, each of its instructions has the effect it has on
\* Maquina, once and in order, until the thread has company or meets the first
\* of the instructions that the code does not carry out (cpu.go
\* CicloDeEjecucion, cpuUtils.go).
THEOREM SinFaltasEsUnaMaquina == Spec => CumpleSinFaltas
<1>1. Init => M!Init
  BY Alcance
<1>2. ISolo /\ [Next]_vars => [M!Next]_(M!vars)
  BY CadaPasoDeMaquina
<1>. QED
  BY <1>1, <1>2, SoloEnPie, PTL DEF Spec, CumpleSinFaltas, M!Spec

\* The CPU has keys only of processes that were created, and no segment but
\* theirs or none.
THEOREM SegmentosEnPie == Spec => []ISegmentos
<1>1. ISegmentos /\ [Next]_vars => ISegmentos'
  BY CadaPasoEnSuSegmento
<1>. QED
  BY <1>1, InicioSegmentos, PTL DEF Spec

\* However late a context arrives, and whatever the planner and the interrupts
\* do, the CPU never translates an address with the segment of another process.
THEOREM CadaClaveEnSuSegmento == Spec => []SegmentoPropio
<1>1. ISegmentos => SegmentoPropio
  BY DEF ISegmentos
<1>. QED
  BY <1>1, SegmentosEnPie, PTL

-----------------------------------------------------------------------------
(***************************************************************************)
(* Types.                                                                  *)
(***************************************************************************)

\* A dump has its two fields, and only before the first context is there no key.
ITipos ==
    /\ TypeOK
    /\ caso \in Casos
    /\ volcado = [PID |-> volcado.PID, contenido |-> volcado.contenido]
    /\ Clave = Ninguna => ciclo = "apagado"

\* What an instruction may change.
Estado ==
    /\ Parcial(mapaContextosProcesos, 0 .. MaxPid, Contexto)
    /\ Parcial(mapaRegistrosHilos, Hilos, RegistroHilos)
    /\ Parcial(mapaInstrucciones, 0 .. MaxTid, Seq(Instruccion))
    /\ memoriaUsuario \in [0 .. Memory_Size - 1 -> Bytes]
    /\ Parcial(Procesos, Hilos, CPU)
    /\ exec \in Hilos \cup {Ninguna} /\ Parcial(rutas, Hilos, Nat)
    /\ volcado.PID \in -1 .. MaxPid
    /\ Parcial(volcado.contenido, 0 .. Memory_Size - 1, Bytes)
    /\ volcado = [PID |-> volcado.PID, contenido |-> volcado.contenido]
    /\ estado \in {"corre", "fin", "falla", "fuera", "agotado"}

\* Adding and taking away an entry of a map.
LEMMA ParcialCon ==
    ASSUME NEW f, NEW D, NEW V, NEW k \in D, NEW x \in V, Parcial(f, D, V)
    PROVE  Parcial(Con(f, k, x), D, V)
BY DEF Parcial, Con

LEMMA ParcialSin ==
    ASSUME NEW f, NEW D, NEW V, NEW k, Parcial(f, D, V)
    PROVE  Parcial(Sin(f, k), D, V)
BY DEF Parcial, Sin

LEMMA SinNada ==
    ASSUME NEW D, NEW V PROVE Parcial(<<>>, D, V)
<1>1. DOMAIN <<>> = {}
  OBVIOUS
<1>. QED
  BY <1>1 DEF Parcial

\* Before the first Fetch too, the fields have values.
LEMMA CampoDeInstruccion ==
    ASSUME ITipos
    PROVE  /\ instruccion.r \in Registros /\ instruccion.s \in Registros
           /\ instruccion.v \in Int /\ instruccion.ruta \in Nat
<1>1. CASE instruccion \in Instruccion
  BY <1>1 DEF Instruccion
<1>2. CASE instruccion = SinInstruccion
  <2>1. /\ SinInstruccion.r = "AX" /\ SinInstruccion.s = "AX"
        /\ SinInstruccion.v = 0 /\ SinInstruccion.ruta = 0
    BY DEF SinInstruccion
  <2>. QED
    BY <1>2, <2>1 DEF Registros
<1>. QED
  BY <1>1, <1>2 DEF ITipos, TypeOK

\* A key without a context has the zero one.
LEMMA TipoActual ==
    ASSUME ITipos
    PROVE  /\ Actual \in CPU
           /\ Actual.RegistroHilos \in RegistroHilos
           /\ \A r \in Registros : ObtenerValorRegistro(r) \in Int
<1>1. Memory_Size \in Nat /\ Memory_Size > 0
  BY ElCaso DEF ITipos
<1>2. EnCero \in RegistroHilos
  BY DEF EnCero, RegistroHilos
<1>3. [Base |-> 0, Limit |-> 0, RegistroHilos |-> EnCero] \in CPU
  BY <1>1, <1>2 DEF CPU, Limites
<1>4. Actual \in CPU
  BY <1>3 DEF Actual, Cargado, ITipos, TypeOK, Parcial
<1>5. Actual.RegistroHilos \in RegistroHilos
  BY <1>4 DEF CPU
<1>6. \A r \in Registros : ObtenerValorRegistro(r) \in Int
  BY <1>5 DEF ObtenerValorRegistro, RegistroHilos
<1>. QED
  BY <1>4, <1>5, <1>6

\* What obtenerContextoEjecucion answers.
LEMMA TipoDeContexto ==
    ASSUME ITipos, NEW t \in DOMAIN mapaRegistrosHilos PROVE ContextoDe(t) \in CPU
<1> DEFINE c == IF t.PID \in DOMAIN mapaContextosProcesos
                THEN mapaContextosProcesos[t.PID] ELSE [Base |-> 0, Limit |-> 0]
<1>1. Memory_Size \in Nat /\ Memory_Size > 0
  BY ElCaso DEF ITipos
<1>2. [Base |-> 0, Limit |-> 0] \in Contexto
  BY <1>1 DEF Contexto, Limites
<1>3. c \in Contexto
  BY <1>2 DEF ITipos, TypeOK, Parcial
<1>4. mapaRegistrosHilos[t] \in RegistroHilos
  BY DEF ITipos, TypeOK, Parcial
<1>. QED
  BY <1>3, <1>4 DEF ContextoDe, CPU, Contexto

LEMMA TiposAlEmpezar == Init => ITipos
<1>1. SUFFICES ASSUME Init PROVE ITipos
  OBVIOUS
<1>2. caso \in Casos /\ caso.Size \in 1 .. Memory_Size /\ Memory_Size \in Nat
  BY <1>1, ElCaso DEF Init
<1>3. MaxPid \in Nat /\ MaxTid \in Nat
  BY AjustesDeEjecucion
<1>4. Primero \in Hilos /\ 0 \in 0 .. MaxPid /\ 0 \in 0 .. MaxTid
  BY <1>3 DEF Primero, Hilos
<1>5. [Base |-> 0, Limit |-> caso.Size - 1] \in Contexto
  BY <1>2 DEF Contexto, Limites
<1>6. caso.Programas[1] \in Seq(Instruccion)
  BY <1>2, ElCaso DEF Programa
<1>7. EnCero \in RegistroHilos
  BY DEF EnCero, RegistroHilos
<1>8. /\ Parcial(mapaContextosProcesos, 0 .. MaxPid, Contexto)
      /\ Parcial(mapaRegistrosHilos, Hilos, RegistroHilos)
      /\ Parcial(mapaInstrucciones, 0 .. MaxTid, Seq(Instruccion))
      /\ Parcial(rutas, Hilos, Nat) /\ Parcial(proxima, Hilos, Int)
      /\ Parcial(Procesos, Hilos, CPU)
  <2>1. /\ Parcial(Con(<<>>, 0, [Base |-> 0, Limit |-> caso.Size - 1]), 0 .. MaxPid, Contexto)
        /\ Parcial(Con(<<>>, 0, caso.Programas[1]), 0 .. MaxTid, Seq(Instruccion))
    BY <1>4, <1>5, <1>6, SinNada, ParcialCon
  <2>2. /\ Parcial(Con(<<>>, Primero, EnCero), Hilos, RegistroHilos)
        /\ Parcial(Con(<<>>, Primero, 1), Hilos, Nat)
        /\ Parcial(Con(<<>>, Primero, 0), Hilos, Int)
    <3>1. 1 \in Nat /\ 0 \in Int
      OBVIOUS
    <3>. QED
      BY <1>4, <1>7, <3>1, SinNada, ParcialCon, Zenon
  <2>3. Parcial(<<>>, Hilos, CPU)
    BY SinNada
  <2>. QED
    BY <1>1, <2>1, <2>2, <2>3 DEF Init
<1>9. DOMAIN rutas = DOMAIN proxima
  BY <1>1 DEF Init, Con
<1>10. /\ volcado = [PID |-> volcado.PID, contenido |-> volcado.contenido]
       /\ volcado.PID \in -1 .. MaxPid
       /\ Parcial(volcado.contenido, 0 .. Memory_Size - 1, Bytes)
  BY <1>1, <1>3, SinNada DEF Init
<1>11. memoriaUsuario \in [0 .. Memory_Size - 1 -> Bytes]
  BY <1>1 DEF Init, Bytes
<1>. QED
  BY <1>1, <1>2, <1>4, <1>8, <1>9, <1>10, <1>11 DEF Init, ITipos, TypeOK, Pasos

\* Where an instruction goes on.
LEMMA TipoSiguiente ==
    ASSUME ITipos, NEW t \in DOMAIN rutas PROVE Siguiente(t) \in Int
<1> DEFINE n == IF instruccion.op = "SET" /\ instruccion.r = "PC" THEN instruccion.v + 1
                ELSE proxima[t] + (IF instruccion.op = "JNZ" THEN 2 ELSE 1)
           fin == IF rutas[t] \in DOMAIN caso.Programas
                  THEN Len(caso.Programas[rutas[t]]) ELSE 0
<1>1. n \in Int
  BY CampoDeInstruccion DEF ITipos, TypeOK, Parcial
<1>2. fin \in Int
  <2>1. caso.Programas \in Seq(Seq(Instruccion))
    BY AjustesDeEjecucion DEF ITipos
  <2>2. ASSUME rutas[t] \in DOMAIN caso.Programas
        PROVE  caso.Programas[rutas[t]] \in Seq(Instruccion)
    BY <2>1, <2>2
  <2>. QED
    BY <2>2
<1>. QED
  BY <1>1, <1>2 DEF Siguiente

\* An instruction leaves the types right: what it changes is right, and so is
\* where each program goes on.
LEMMA TiposAlEjecutar ==
    ASSUME ITipos, Execute, Estado'
    PROVE  ITipos'
<1>1. /\ UNCHANGED <<caso, instruccion, direccion, entrada, turno>>
      /\ ciclo \in {"execute"} /\ ciclo' \in Pasos /\ ciclo' # "apagado"
  <2>1. UNCHANGED <<caso, instruccion, direccion, entrada, turno>>
    BY DEF Execute
  <2>2. ciclo = "execute" /\ ciclo' \in {"sumar", "sumar2", "actualizar", "volcando", "caido"}
    BY DEF Execute, SET, SUM, SUB, WRITE_MEM, READ_MEM, LOG, JNZ, IO, MUTEX_LOCK, MUTEX_UNLOCK,
       MUTEX_CREATE, SinExec, THREAD_CREATE, THREAD_JOIN, THREAD_CANCEL, THREAD_EXIT,
       PROCESS_CREATE, PROCESS_EXIT, DUMP_MEMORY, DeExecutando, Ejecuta, Va
  <2>. QED
    BY <2>1, <2>2 DEF Pasos
<1>2. Clave # Ninguna
  BY <1>1 DEF ITipos
<1>3. Parcial(proxima', Hilos, Int) /\ DOMAIN proxima' = DOMAIN rutas'
  <2>1. proxima' = [t \in DOMAIN rutas' |->
                       IF t \notin DOMAIN rutas THEN 0
                       ELSE IF t = turno THEN Siguiente(t) ELSE proxima[t]]
    BY DEF Execute
  <2>2. DOMAIN rutas' \subseteq Hilos
    BY DEF Estado, Parcial
  <2>3. ASSUME NEW t \in DOMAIN rutas PROVE Siguiente(t) \in Int /\ proxima[t] \in Int
    BY TipoSiguiente DEF ITipos, TypeOK, Parcial
  <2>. QED
    BY <2>1, <2>2, <2>3 DEF Parcial
<1>4. caso.Size \in 1 .. Memory_Size
  BY DEF ITipos, TypeOK
<1>5. falta' \in BOOLEAN
  BY DEF Execute, Falta
<1>. QED
  BY <1>1, <1>2, <1>3, <1>4, <1>5 DEF ITipos, TypeOK, Estado, entrada

\* An assignment to a register, of a key that may have no entry yet.
LEMMA TiposAlAsignar ==
    ASSUME ITipos, ciclo = "execute",
           NEW r \in Registros, NEW x \in Int, AsignarValorRegistro(r, x)
    PROVE  Estado'
<1> DEFINE g == [Actual.RegistroHilos EXCEPT ![r] = x]
<1>1. Clave \in Hilos
  BY DEF ITipos, TypeOK
<1>2. g \in RegistroHilos
  BY TipoActual DEF RegistroHilos
<1>3. [Actual EXCEPT !.RegistroHilos = g] \in CPU
  BY <1>2, TipoActual DEF CPU
<1>4. Parcial(Procesos', Hilos, CPU)
  BY <1>1, <1>3, ParcialCon DEF AsignarValorRegistro, ITipos, TypeOK
<1>. QED
  BY <1>4 DEF AsignarValorRegistro, ITipos, TypeOK, Estado, memoria, kernel

\* Instructions without effect on the state.
LEMMA TiposSinTocar ==
    ASSUME ITipos, SinTocarNada
    PROVE  Estado'
BY DEF SinTocarNada, ITipos, TypeOK, Estado, memoria, kernel

\* The bytes of a word.
LEMMA EsByte ==
    ASSUME NEW x \in Int, NEW k \in 0 .. 3
    PROVE  EscribirEnMemoria(x, k) \in Bytes
BY DEF EscribirEnMemoria, Bytes

\* A write that may go past the end of the memory.
LEMMA TiposAlEscribir ==
    ASSUME ITipos, NEW x \in Int, writeMem(direccion, x),
           UNCHANGED <<memoria, Procesos, kernel, volcado, estado>>
    PROVE  Estado'
<1>1. direccion \in Nat /\ memoriaUsuario \in [0 .. Memory_Size - 1 -> Bytes]
      /\ Memory_Size \in Nat
  BY ElCaso DEF ITipos, TypeOK
<1>2. ASSUME NEW a \in 0 .. Memory_Size - 1, a \in direccion .. direccion + 3
      PROVE  EscribirEnMemoria(x, a - direccion) \in Bytes
  <2>1. a - direccion \in 0 .. 3
    BY <1>1, <1>2
  <2>. QED
    BY <2>1, EsByte
<1>3. memoriaUsuario' \in [0 .. Memory_Size - 1 -> Bytes]
  BY <1>1, <1>2 DEF writeMem
<1>. QED
  BY <1>3 DEF ITipos, TypeOK, Estado, memoria, kernel

\* A new thread, with its program if it can be read.
LEMMA TiposAlCrearHilo ==
    ASSUME ITipos, NEW t, NEW ruta \in Nat, CrearHilo(t, ruta),
           Parcial(mapaContextosProcesos', 0 .. MaxPid, Contexto)
    PROVE  Estado'
<1>1. t \in Hilos /\ t.TID \in 0 .. MaxTid
  BY DEF CrearHilo, Hilos
<1>2. Parcial(rutas', Hilos, Nat)
  BY <1>1, ParcialCon DEF CrearHilo, ITipos, TypeOK
<1>3. /\ Parcial(mapaRegistrosHilos', Hilos, RegistroHilos)
      /\ Parcial(mapaInstrucciones', 0 .. MaxTid, Seq(Instruccion))
  <2>1. CASE ruta \in DOMAIN caso.Programas
    <3>1. caso.Programas \in Seq(Seq(Instruccion))
      BY AjustesDeEjecucion DEF ITipos
    <3>2. caso.Programas[ruta] \in Seq(Instruccion)
      BY <2>1, <3>1
    <3>3. EnCero \in RegistroHilos
      BY DEF EnCero, RegistroHilos
    <3>4. /\ mapaInstrucciones' = Con(mapaInstrucciones, t.TID, caso.Programas[ruta])
          /\ mapaRegistrosHilos' = Con(mapaRegistrosHilos, t, EnCero)
      BY <2>1 DEF CrearHilo
    <3>5. Parcial(mapaRegistrosHilos', Hilos, RegistroHilos)
      BY <1>1, <3>3, <3>4, ParcialCon DEF ITipos, TypeOK
    <3>6. Parcial(mapaInstrucciones', 0 .. MaxTid, Seq(Instruccion))
      BY <1>1, <3>2, <3>4, ParcialCon DEF ITipos, TypeOK
    <3>. QED
      BY <3>5, <3>6
  <2>2. CASE ruta \notin DOMAIN caso.Programas
    BY <2>2 DEF CrearHilo, ITipos, TypeOK
  <2>. QED
    BY <2>1, <2>2
<1>4. estado' \in {"corre", "fin", "falla", "fuera", "agotado"}
  BY DEF CrearHilo, Queda, ITipos, TypeOK
<1>. QED
  BY <1>2, <1>3, <1>4 DEF CrearHilo, ITipos, TypeOK, Estado

\* A new process lies within the memory.
LEMMA TiposAlCrearProceso ==
    ASSUME ITipos, PROCESS_CREATE
    PROVE  Estado'
<1> DEFINE pid == Cardinality({t.PID : t \in DOMAIN rutas})
<1>1. CASE SinTocarNada
  BY <1>1, TiposSinTocar
<1>2. ASSUME NEW size \in Tamanos, NEW b \in Lugares(size),
             mapaContextosProcesos' =
                 Con(mapaContextosProcesos, pid, [Base |-> b, Limit |-> b + size - 1]),
             CrearHilo([PID |-> pid, TID |-> 0], instruccion.ruta)
      PROVE  Estado'
  <2> HIDE DEF pid
  <2>1. [PID |-> pid, TID |-> 0] \in Hilos
    BY <1>2 DEF CrearHilo
  <2>2. pid \in 0 .. MaxPid
    BY <2>1 DEF Hilos
  <2>3. size \in Nat /\ Memory_Size \in Nat /\ b \in 0 .. Memory_Size - size
    BY AjustesDeEjecucion, ElCaso DEF Lugares, ITipos
  <2>4. [Base |-> b, Limit |-> b + size - 1] \in Contexto
    BY <2>3 DEF Contexto, Limites
  <2>5. Parcial(mapaContextosProcesos', 0 .. MaxPid, Contexto)
    BY <1>2, <2>2, <2>4, ParcialCon DEF ITipos, TypeOK
  <2>. QED
    BY <1>2, <2>5, CampoDeInstruccion, TiposAlCrearHilo
<1>. QED
  BY <1>1, <1>2 DEF PROCESS_CREATE

\* Every instruction.
LEMMA TiposDeInstruccion ==
    ASSUME ITipos, Execute
    PROVE  Estado'
<1>1. ciclo = "execute"
  BY DEF Execute, SET, SUM, SUB, WRITE_MEM, READ_MEM, LOG, JNZ, IO, MUTEX_LOCK, MUTEX_UNLOCK,
     MUTEX_CREATE, SinExec, THREAD_CREATE, THREAD_JOIN, THREAD_CANCEL, THREAD_EXIT,
     PROCESS_CREATE, PROCESS_EXIT, DUMP_MEMORY, DeExecutando, Ejecuta, Va
<1>2. CASE SET \/ SUM \/ SUB
  BY <1>1, <1>2, TipoActual, CampoDeInstruccion, TiposAlAsignar DEF SET, SUM, SUB
<1>3. CASE WRITE_MEM
  BY <1>3, TipoActual, CampoDeInstruccion, TiposAlEscribir DEF WRITE_MEM
<1>4. CASE READ_MEM
  BY <1>4 DEF READ_MEM, LeerDeMemoria, ITipos, TypeOK, Estado, memoria, kernel
<1>5. CASE LOG \/ JNZ \/ IO \/ MUTEX_LOCK \/ MUTEX_CREATE \/ SinExec
  BY <1>5, TiposSinTocar DEF LOG, JNZ, IO, MUTEX_LOCK, MUTEX_CREATE, SinExec
<1>6. CASE MUTEX_UNLOCK
  BY <1>6 DEF MUTEX_UNLOCK, Queda, ITipos, TypeOK, Estado, memoria, kernel
<1>7. CASE THREAD_CREATE
  <2>1. Parcial(mapaContextosProcesos', 0 .. MaxPid, Contexto)
    BY <1>7 DEF THREAD_CREATE, ITipos, TypeOK
  <2>. QED
    BY <1>7, <2>1, CampoDeInstruccion, TiposAlCrearHilo DEF THREAD_CREATE
<1>8. CASE THREAD_JOIN
  BY <1>8 DEF THREAD_JOIN, Queda, ITipos, TypeOK, Estado, memoria
<1>9. CASE THREAD_CANCEL \/ THREAD_EXIT
  <2>1. PICK t : mapaRegistrosHilos' = Sin(mapaRegistrosHilos, t)
    BY <1>9 DEF THREAD_CANCEL, THREAD_EXIT, endHilo
  <2>2. Parcial(mapaRegistrosHilos', Hilos, RegistroHilos)
    BY <2>1, ParcialSin DEF ITipos, TypeOK
  <2>. QED
    BY <1>9, <2>2 DEF THREAD_CANCEL, THREAD_EXIT, Queda, ITipos, TypeOK, Estado, kernel
<1>10. CASE PROCESS_CREATE
  BY <1>10, TiposAlCrearProceso
<1>11. CASE PROCESS_EXIT
  <2>1. Parcial(mapaContextosProcesos', 0 .. MaxPid, Contexto)
    BY <1>11, ParcialSin DEF PROCESS_EXIT, FinalizarProceso, ITipos, TypeOK
  <2>. QED
    BY <1>11, <2>1 DEF PROCESS_EXIT, Queda, ITipos, TypeOK, Estado
<1>12. CASE DUMP_MEMORY
  <2>1. exec \in Hilos
    BY <1>12 DEF DUMP_MEMORY, DeExecutando, ITipos, TypeOK
  <2>2. exec.PID \in -1 .. MaxPid
    BY <2>1, AjustesDeEjecucion DEF Hilos
  <2>3. Parcial(<<>>, 0 .. Memory_Size - 1, Bytes)
    BY SinNada
  <2>. QED
    BY <1>12, <2>2, <2>3 DEF DUMP_MEMORY, ITipos, TypeOK, Estado, memoria
<1>. QED
  BY <1>2, <1>3, <1>4, <1>5, <1>6, <1>7, <1>8, <1>9, <1>10, <1>11, <1>12 DEF Execute

\* Where the CPU is and the registers that memoria has.
LEMMA TiposAlActualizar ==
    ASSUME ITipos, ActualizarContextoEnMemoria
    PROVE  Parcial(mapaRegistrosHilos', Hilos, RegistroHilos)
BY TipoActual DEF ActualizarContextoEnMemoria, actualizarContextoEjecucion, ITipos, TypeOK, Parcial

\* The copy of a process reads bytes of the memory.
LEMMA TiposAlVolcar ==
    ASSUME ITipos, memoryDump
    PROVE  ITipos'
<1> DEFINE p == volcado.PID
           c == mapaContextosProcesos[p]
<1>1. Parcial(obtenerDump(p), 0 .. Memory_Size - 1, Bytes)
  <2>1. CASE p \in DOMAIN mapaContextosProcesos
    <3>1. c \in Contexto
      BY <2>1 DEF ITipos, TypeOK, Parcial
    <3>2. Memory_Size \in Nat /\ c.Base \in 0 .. Memory_Size /\ c.Limit \in -1 .. Memory_Size - 1
      BY <3>1, ElCaso DEF Contexto, Limites, ITipos
    <3>3. ASSUME NEW d \in 0 .. c.Limit - c.Base
          PROVE  d \in 0 .. Memory_Size - 1 /\ c.Base + d \in 0 .. Memory_Size - 1
      BY <3>2
    <3>4. obtenerDump(p) = [d \in 0 .. c.Limit - c.Base |-> memoriaUsuario[c.Base + d]]
      BY <2>1 DEF obtenerDump
    <3> HIDE DEF c
    <3>. QED
      BY <3>3, <3>4 DEF Parcial, ITipos, TypeOK
  <2>2. CASE p \notin DOMAIN mapaContextosProcesos
    BY <2>2, SinNada DEF obtenerDump
  <2>. QED
    BY <2>1, <2>2
<1>2. volcado' = [PID |-> p, contenido |-> obtenerDump(p)]
  BY DEF memoryDump, ITipos
<1>3. volcado'.PID = p /\ volcado'.contenido = obtenerDump(p)
      /\ volcado' = [PID |-> volcado'.PID, contenido |-> volcado'.contenido]
  BY <1>2
<1>. QED
  BY <1>1, <1>3 DEF memoryDump, Va, Pasos, ITipos, TypeOK, memoria, entrada, kernel, historia

LEMMA TiposAlRechazar ==
    ASSUME ITipos, RechazarDump
    PROVE  ITipos'
<1>1. Parcial(mapaContextosProcesos', 0 .. MaxPid, Contexto)
  BY ParcialSin DEF RechazarDump, FinalizarProceso, ITipos, TypeOK
<1>2. estado' \in {"corre", "fin", "falla", "fuera", "agotado"} /\ falta' \in BOOLEAN
  BY DEF RechazarDump, Queda, Falta, ITipos, TypeOK
<1>. QED
  BY <1>1, <1>2 DEF RechazarDump, Va, Pasos, ITipos, TypeOK, entrada, kernel

\* A context that comes from memoria.
LEMMA TiposAlRecibir ==
    ASSUME ITipos, Recibe
    PROVE  ITipos'
<1>1. CASE RecibirClave
  BY <1>1 DEF RecibirClave, ITipos, TypeOK, Pasos, memoria, kernel, historia
<1>2. CASE RecibirContexto
  <2>1. CASE Clave \in DOMAIN mapaRegistrosHilos
    <3>1. Clave \in Hilos
      BY <2>1 DEF ITipos, TypeOK, Parcial
    <3>2. Parcial(Procesos', Hilos, CPU)
      BY <1>2, <2>1, <3>1, TipoDeContexto, ParcialCon DEF RecibirContexto, ITipos, TypeOK
    <3>3. Clave' # Ninguna \/ ciclo' = "apagado"
      BY <1>2, <2>1 DEF RecibirContexto, ITipos
    <3>. QED
      BY <1>2, <2>1, <3>2, <3>3
      DEF RecibirContexto, ITipos, TypeOK, Pasos, memoria, kernel, historia
  <2>2. CASE Clave \notin DOMAIN mapaRegistrosHilos
    BY <1>2, <2>2 DEF RecibirContexto, ITipos, TypeOK, Pasos, memoria, kernel, historia
  <2>. QED
    BY <2>1, <2>2
<1>. QED
  BY <1>1, <1>2 DEF Recibe

\* Every step of the cycle.
LEMMA TiposDelCiclo ==
    ASSUME ITipos, CicloDeEjecucion
    PROVE  ITipos'
<1>1. CASE Cabeza \/ ProcesoNoEncontrado
  BY <1>1 DEF Cabeza, ProcesoNoEncontrado, Va, Pasos, ITipos, TypeOK, memoria, kernel, entrada,
     historia
<1>2. CASE Fetch
  <2> DEFINE p == ObtenerValorRegistro("PC")
  <2>1. Clave \in Hilos
    BY <1>2 DEF Fetch, ITipos, TypeOK
  <2>2. instruccion' \in Instruccion \cup {SinInstruccion}
    <3>1. CASE HayInstruccion(Clave.TID, p)
      <4>1. mapaInstrucciones[Clave.TID] \in Seq(Instruccion)
        BY <3>1 DEF HayInstruccion, ITipos, TypeOK, Parcial
      <4>2. p + 1 \in 1 .. Len(mapaInstrucciones[Clave.TID])
        BY <3>1, <4>1, LenProperties DEF HayInstruccion
      <4>3. instruccion' = mapaInstrucciones[Clave.TID][p + 1]
        BY <1>2, <3>1 DEF Fetch
      <4>. QED
        BY <4>1, <4>2, <4>3, ElementOfSeq
    <3>2. CASE ~HayInstruccion(Clave.TID, p)
      BY <1>2, <3>2 DEF Fetch, ITipos, TypeOK
    <3>. QED
      BY <3>1, <3>2
  <2>3. /\ ciclo' \in {"decode", "fin"} /\ turno' = Clave
        /\ claveMutex' \in {"libre", "ciclo"} /\ Clave' = Clave
        /\ UNCHANGED <<caso, memoria, memoriaUsuario, direccion, interruptionExits, Procesos,
                       kernel, volcado, falta, proxima>>
    BY <1>2 DEF Fetch
  <2>4. estado' \in {"corre", "fin", "falla", "fuera", "agotado"}
    BY <1>2 DEF Fetch, Agota, ITipos, TypeOK
  <2>5. Clave # Ninguna
    BY <1>2 DEF Fetch, ITipos
  <2>. QED
    BY <2>1, <2>2, <2>3, <2>4, <2>5 DEF Pasos, ITipos, TypeOK, memoria, kernel
<1>3. CASE Decode
  <2>1. direccion' \in Nat
    <3>1. CASE Accede
      <4>1. Actual.Base \in 0 .. Memory_Size /\ Logica \in Int /\ Logica >= 0
        BY <1>3, <3>1, TipoActual, CampoDeInstruccion DEF Decode, DentroDelLimite, Logica, CPU
      <4>. QED
        BY <1>3, <3>1, <4>1 DEF Decode
    <3>2. CASE ~Accede
      BY <1>3, <3>2 DEF Decode, ITipos, TypeOK
    <3>. QED
      BY <3>1, <3>2
  <2>. QED
    BY <1>3, <2>1 DEF Decode, Va, Pasos, ITipos, TypeOK, memoria, kernel, entrada, historia
<1>4. CASE ManejarSegmentationFault
  <2>1. Parcial(mapaRegistrosHilos', Hilos, RegistroHilos)
    BY <1>4, TiposAlActualizar DEF ManejarSegmentationFault
  <2>2. Parcial(mapaContextosProcesos', 0 .. MaxPid, Contexto)
    BY <1>4, ParcialSin DEF ManejarSegmentationFault, FinalizarProceso, ITipos, TypeOK
  <2>3. estado' \in {"corre", "fin", "falla", "fuera", "agotado"} /\ falta' \in BOOLEAN
    BY <1>4 DEF ManejarSegmentationFault, Queda, Falta, ITipos, TypeOK
  <2>. QED
    BY <1>4, <2>1, <2>2, <2>3
    DEF ManejarSegmentationFault, Va, Pasos, ITipos, TypeOK, entrada
<1>5. CASE Execute
  BY <1>5, TiposDeInstruccion, TiposAlEjecutar
<1>6. CASE memoryDump \/ RechazarDump
  BY <1>6, TiposAlVolcar, TiposAlRechazar
<1>7. CASE Actualizar
  <2>1. Parcial(mapaRegistrosHilos', Hilos, RegistroHilos)
    BY <1>7, TiposAlActualizar DEF Actualizar
  <2>. QED
    BY <1>7, <2>1 DEF Actualizar, Va, Pasos, ITipos, TypeOK, entrada, kernel, historia
<1>8. CASE SumarPC
  <2>1. Parcial(Procesos', Hilos, CPU)
    <3>1. CASE Cargado
      <4> DEFINE g == [Actual.RegistroHilos EXCEPT !["PC"] = @ + 1]
      <4>1. Actual = Procesos[Clave] /\ Clave \in DOMAIN Procesos
        BY <3>1 DEF Cargado, Actual
      <4>2. g \in RegistroHilos
        BY TipoActual DEF RegistroHilos, Registros
      <4>3. [Actual EXCEPT !.RegistroHilos = g] \in CPU
        BY <4>2, TipoActual DEF CPU
      <4>4. Procesos' = [Procesos EXCEPT ![Clave] = [Actual EXCEPT !.RegistroHilos = g]]
        BY <1>8, <3>1, <4>1 DEF SumarPC
      <4> HIDE DEF g
      <4>. QED
        BY <4>1, <4>3, <4>4 DEF Parcial, ITipos, TypeOK
    <3>2. CASE ~Cargado
      BY <1>8, <3>2 DEF SumarPC, ITipos, TypeOK
    <3>. QED
      BY <3>1, <3>2
  <2>. QED
    BY <1>8, <2>1 DEF SumarPC, Va, Pasos, ITipos, TypeOK, memoria, entrada, kernel, historia
<1>9. CASE CheckInterrupt
  <2>1. Parcial(mapaRegistrosHilos', Hilos, RegistroHilos)
    BY <1>9, TiposAlActualizar DEF CheckInterrupt, ITipos, TypeOK
  <2>. QED
    BY <1>9, <2>1 DEF CheckInterrupt, Va, Pasos, ITipos, TypeOK, kernel, historia
<1>. QED
  BY <1>1, <1>2, <1>3, <1>4, <1>5, <1>6, <1>7, <1>8, <1>9 DEF CicloDeEjecucion

\* Every step.
LEMMA TiposSePreservan == ITipos /\ [Next]_vars => ITipos'
<1>1. SUFFICES ASSUME ITipos, [Next]_vars PROVE ITipos'
  OBVIOUS
<1>2. CASE Planifica
  BY <1>1, <1>2 DEF Planifica, ITipos, TypeOK, Parcial, memoria, entrada, historia
<1>3. CASE interrupccion
  BY <1>1, <1>3 DEF interrupccion, ITipos, TypeOK, memoria, kernel, historia
<1>4. CASE UNCHANGED vars
  BY <1>1, <1>4 DEF vars, ITipos, TypeOK, memoria, kernel, entrada, historia
<1>. QED
  BY <1>1, <1>2, <1>3, <1>4, TiposDelCiclo, TiposAlRecibir DEF Next

\* Types, with any program and whatever the planner does: among them, that a
\* word is written byte by byte within a byte, that no context goes past the
\* memory, and that a dump reads only bytes of it (writeMem, obtenerDump).
THEOREM TiposDeEjecucion == Spec => []TypeOK
<1>1. ITipos => TypeOK
  BY DEF ITipos
<1>. QED
  BY <1>1, TiposAlEmpezar, TiposSePreservan, PTL DEF Spec
=============================================================================
