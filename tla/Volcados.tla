------------------------------ MODULE Volcados ------------------------------
(***************************************************************************)
(* The filesystem server (src/filesystem/filesystem.go): its only endpoint *)
(* stores a memory dump as one index block and as many data blocks as the  *)
(* dump needs.  Every request is served by a goroutine of its own and no   *)
(* mutex is taken; a step is one system call on bitmap.dat, bloques.dat or *)
(* the metadata file, with the local computation around it.                *)
(*                                                                         *)
(* Sizes are counted in words of four bytes, the width of a pointer.       *)
(***************************************************************************)
EXTENDS Integers, SequencesExt

CONSTANTS
    Pedidos,       \* the dump requests
    Nadie,         \* no request: the origin of words that are not dump data
    Casos,         \* what the clients may ask for, and of which build
    Block_Count,   \* config.Block_Count
    Block_Size,    \* config.Block_Size, in words
    MaxCaidas,     \* bound on the crashes of the server
    FallaElDisco   \* TRUE when a system call may return an error

\* A case: the fields "nombre" and "tamano" of each request, the length of its
\* "contenido", how many requests may be in progress at once, and whether the
\* Logger is nil, as in the committed build, where it is never assigned.
ASSUME PedidosValidos ==
    /\ Nadie \notin Pedidos /\ IsFiniteSet(Pedidos)
    /\ \A c \in Casos :
          /\ DOMAIN c.Nombre = Pedidos
          /\ c.Tamano \in [Pedidos -> Nat] /\ c.Largo \in [Pedidos -> Nat]
          /\ c.Simultaneos \in Nat /\ c.LoggerNil \in BOOLEAN
    /\ Block_Count \in Nat \ {0} /\ Block_Size \in Nat \ {0}
    /\ MaxCaidas \in Nat
    /\ FallaElDisco \in BOOLEAN

\* bitmap.dat has Block_Count / 8 bytes and every bit of them is looked at, so
\* that the bits are the blocks only when Block_Count fills its last byte.
ASSUME BitmapSinSobras == Block_Count % 8 = 0

VARIABLES
    caso,            \* the case of this behaviour
    bitmap,          \* bitmap.dat: the blocks marked as taken
    bloques,         \* bloques.dat: word address -> word
    metadata,        \* name -> what its metadata file says
    pc,              \* where the goroutine of each request is
    copia,           \* its copy of the bitmap
    indexBlock,      \* the block it took for the pointers
    bloquesDeDatos,  \* the blocks it took for the data
    i,               \* its loop counter
    respuesta,       \* what its client got
    caidas           \* crashes so far

disco == <<bitmap, bloques, metadata>>
locales == <<copia, indexBlock, bloquesDeDatos, i>>
vars == <<caso, disco, locales, pc, respuesta, caidas>>

Nombre      == caso.Nombre
Tamano      == caso.Tamano
Largo       == caso.Largo
Simultaneos == caso.Simultaneos
LoggerNil   == caso.LoggerNil

TodosLosBloques == 0 .. Block_Count - 1
Direcciones == 0 .. Block_Count * Block_Size - 1

\* A word of bloques.dat: word n of the dump of request de, or a pointer.
Palabra == [de : Pedidos \cup {Nadie}, n : Nat]
Puntero(b) == [de |-> Nadie, n |-> b]

\* What a metadata file says; os.Create leaves it empty for a moment.
Meta == [index_block : TodosLosBloques, size : Nat]
Vacio == [index_block |-> 0, size |-> -1]

Pcs == {"nuevo", "guardar", "crear", "anotar", "punteros", "datos", "fin"}

Respuestas == {"", "creado", "parametros", "sinEspacio", "error", "perdida"}

TypeOK ==
    /\ caso \in Casos
    /\ bitmap \subseteq TodosLosBloques
    /\ bloques \in [Direcciones -> Palabra]
    /\ \A n \in DOMAIN metadata : metadata[n] \in Meta \cup {Vacio}
    /\ pc \in [Pedidos -> Pcs]
    /\ \A p \in Pedidos : copia[p] \subseteq TodosLosBloques
    /\ indexBlock \in [Pedidos -> TodosLosBloques]
    /\ \A p \in Pedidos : bloquesDeDatos[p] \in Seq(TodosLosBloques)
    /\ i \in [Pedidos -> Nat]
    /\ respuesta \in [Pedidos -> Respuestas]
    /\ caidas \in 0 .. MaxCaidas

\* InitFileSystem on an empty mount directory.
Init ==
    /\ caso \in Casos
    /\ bitmap = {}
    /\ bloques = [d \in Direcciones |-> Puntero(0)]
    /\ metadata = <<>>
    /\ pc = [p \in Pedidos |-> "nuevo"]
    /\ copia = [p \in Pedidos |-> {}]
    /\ indexBlock = [p \in Pedidos |-> 0]
    /\ bloquesDeDatos = [p \in Pedidos |-> <<>>]
    /\ i = [p \in Pedidos |-> 1]
    /\ respuesta = [p \in Pedidos |-> ""]
    /\ caidas = 0

Va(p, de, a) == pc[p] = de /\ pc' = [pc EXCEPT ![p] = a]

Contesta(p, r) == respuesta' = [respuesta EXCEPT ![p] = r]

-----------------------------------------------------------------------------
(***************************************************************************)
(* crearArchivoDump: parameters, space and reservation.                    *)
(***************************************************************************)

enCurso == {p \in Pedidos : pc[p] \notin {"nuevo", "fin"}}

\* Mutant of Libres: the search goes one block past the end.
LibresDeMas(b) == (0 .. Block_Count) \ b

Libres(b) == TodosLosBloques \ b

\* The data block in excess of tamano / Block_Size depends on the length of
\* the content, not on tamano.
numBloquesNecesarios(p) ==
    Tamano[p] \div Block_Size + (IF Largo[p] % Block_Size > 0 THEN 1 ELSE 0)

verificarEspacioDisponible(b, n) == Cardinality(Libres(b)) >= n

\* The block that the k-th round of encontrarPrimerBloqueLibre takes from the
\* bitmap b, with those of the earlier rounds reserved.
BloqueLibre(b, k) ==
    CHOOSE x \in Libres(b) : Cardinality({y \in Libres(b) : y < x}) = k - 1

PrimerosLibres(b, n) == [k \in 1 .. n |-> BloqueLibre(b, k)]

Incompleto(p) == Nombre[p] = "" \/ Tamano[p] = 0

ParametrosIncompletos(p) ==
    /\ Va(p, "nuevo", "fin")
    /\ Incompleto(p)
    /\ Contesta(p, "parametros")
    /\ UNCHANGED <<caso, disco, locales, caidas>>

SinEspacio(p) ==
    /\ Va(p, "nuevo", "fin")
    /\ ~Incompleto(p)
    /\ ~verificarEspacioDisponible(bitmap, numBloquesNecesarios(p) + 1)
    /\ Contesta(p, "sinEspacio")
    /\ UNCHANGED <<caso, disco, locales, caidas>>

\* Logger.Info panics on a nil Logger once the index block is reserved in the
\* local bitmap: nothing is saved and the connection is dropped.
ReservarSinLogger(p) ==
    /\ LoggerNil
    /\ Va(p, "nuevo", "fin")
    /\ ~Incompleto(p)
    /\ verificarEspacioDisponible(bitmap, numBloquesNecesarios(p) + 1)
    /\ Contesta(p, "perdida")
    /\ UNCHANGED <<caso, disco, locales, caidas>>

\* Mutant of Reservar: the space check forgets the index block.
ReservarSinContarIndice(p) ==
    /\ ~LoggerNil
    /\ Cardinality(enCurso) < Simultaneos
    /\ Va(p, "nuevo", "guardar")
    /\ ~Incompleto(p)
    /\ verificarEspacioDisponible(bitmap, numBloquesNecesarios(p))
    /\ LET r == PrimerosLibres(bitmap, Min({numBloquesNecesarios(p) + 1,
                                           Cardinality(Libres(bitmap))}))
       IN  /\ indexBlock' = [indexBlock EXCEPT ![p] = r[1]]
           /\ bloquesDeDatos' = [bloquesDeDatos EXCEPT ![p] = Tail(r)]
           /\ copia' = [copia EXCEPT ![p] = bitmap \cup ToSet(r)]
    /\ UNCHANGED <<caso, disco, i, respuesta, caidas>>

Reservar(p) ==
    /\ ~LoggerNil
    /\ Cardinality(enCurso) < Simultaneos
    /\ Va(p, "nuevo", "guardar")
    /\ ~Incompleto(p)
    /\ verificarEspacioDisponible(bitmap, numBloquesNecesarios(p) + 1)
    /\ LET r == PrimerosLibres(bitmap, numBloquesNecesarios(p) + 1)
       IN  /\ indexBlock' = [indexBlock EXCEPT ![p] = r[1]]
           /\ bloquesDeDatos' = [bloquesDeDatos EXCEPT ![p] = Tail(r)]
           /\ copia' = [copia EXCEPT ![p] = bitmap \cup ToSet(r)]
    /\ UNCHANGED <<caso, disco, i, respuesta, caidas>>

-----------------------------------------------------------------------------
(***************************************************************************)
(* crearArchivoDump: the bitmap, the metadata, the pointers, the data.     *)
(***************************************************************************)

\* Mutant of guardarBitmap: the bitmap never reaches the disk.
guardarNada(p) ==
    /\ Va(p, "guardar", "crear")
    /\ UNCHANGED <<caso, disco, locales, respuesta, caidas>>

\* Mutant of guardarBitmap: it is saved before the data blocks are reserved.
guardarSoloIndice(p) ==
    /\ Va(p, "guardar", "crear")
    /\ bitmap' = bitmap \cup {indexBlock[p]}
    /\ UNCHANGED <<caso, bloques, metadata, locales, respuesta, caidas>>

\* The whole local copy is written over the file.
guardarBitmap(p) ==
    /\ Va(p, "guardar", "crear")
    /\ bitmap' = copia[p]
    /\ UNCHANGED <<caso, bloques, metadata, locales, respuesta, caidas>>

ConMeta(n, m) ==
    [x \in DOMAIN metadata \cup {n} |-> IF x = n THEN m ELSE metadata[x]]

\* os.Create truncates a file that was there.
crearMetadata(p) ==
    /\ Va(p, "crear", "anotar")
    /\ metadata' = ConMeta(Nombre[p], Vacio)
    /\ UNCHANGED <<caso, bitmap, bloques, locales, respuesta, caidas>>

AnotarMetadata(p) ==
    /\ Va(p, "anotar", "punteros")
    /\ metadata' = ConMeta(Nombre[p], [index_block |-> indexBlock[p], size |-> Largo[p]])
    /\ UNCHANGED <<caso, bitmap, bloques, locales, respuesta, caidas>>

quedanBloques(p) == i[p] <= Len(bloquesDeDatos[p])

\* Mutant of escribirPunterosEnIndice: the loop never advances.
escribirSinAvanzar(p) ==
    /\ pc[p] = "punteros"
    /\ quedanBloques(p)
    /\ bloques' = [bloques EXCEPT ![indexBlock[p] * Block_Size + i[p] - 1] =
                       Puntero(bloquesDeDatos[p][i[p]])]
    /\ UNCHANGED <<caso, bitmap, metadata, pc, locales, respuesta, caidas>>

\* Mutant of escribirPunterosEnIndice: the block number is taken as an address.
escribirSinEscala(p) ==
    /\ pc[p] = "punteros"
    /\ quedanBloques(p)
    /\ bloques' = [bloques EXCEPT ![indexBlock[p] + i[p] - 1] =
                       Puntero(bloquesDeDatos[p][i[p]])]
    /\ i' = [i EXCEPT ![p] = @ + 1]
    /\ UNCHANGED <<caso, bitmap, metadata, pc, copia, indexBlock, bloquesDeDatos,
                   respuesta, caidas>>

\* The pointers follow one another from the start of the index block, also
\* past its end.
escribirPunterosEnIndice(p) ==
    /\ pc[p] = "punteros"
    /\ quedanBloques(p)
    /\ bloques' = [bloques EXCEPT ![indexBlock[p] * Block_Size + i[p] - 1] =
                       Puntero(bloquesDeDatos[p][i[p]])]
    /\ i' = [i EXCEPT ![p] = @ + 1]
    /\ UNCHANGED <<caso, bitmap, metadata, pc, copia, indexBlock, bloquesDeDatos,
                   respuesta, caidas>>

FinPunteros(p) ==
    /\ Va(p, "punteros", "datos")
    /\ ~quedanBloques(p)
    /\ i' = [i EXCEPT ![p] = 1]
    /\ UNCHANGED <<caso, disco, copia, indexBlock, bloquesDeDatos, respuesta, caidas>>

desde(p) == (i[p] - 1) * Block_Size

\* Mutant of escribirDatosEnBloques: every block gets the first words.
escribirMismosDatos(p) ==
    /\ pc[p] = "datos"
    /\ quedanBloques(p)
    /\ desde(p) <= Largo[p]
    /\ bloques' = [d \in Direcciones |->
           LET n == d - bloquesDeDatos[p][i[p]] * Block_Size
           IN  IF n \in 0 .. Block_Size - 1 THEN [de |-> p, n |-> n] ELSE bloques[d]]
    /\ i' = [i EXCEPT ![p] = @ + 1]
    /\ UNCHANGED <<caso, bitmap, metadata, pc, copia, indexBlock, bloquesDeDatos,
                   respuesta, caidas>>

\* The content from desde(p), a whole block of it or what is left.
escribirDatosEnBloques(p) ==
    /\ pc[p] = "datos"
    /\ quedanBloques(p)
    /\ desde(p) <= Largo[p]
    /\ bloques' = [d \in Direcciones |->
           LET n == d - bloquesDeDatos[p][i[p]] * Block_Size
           IN  IF n \in 0 .. Block_Size - 1 /\ desde(p) + n < Largo[p]
               THEN [de |-> p, n |-> desde(p) + n] ELSE bloques[d]]
    /\ i' = [i EXCEPT ![p] = @ + 1]
    /\ UNCHANGED <<caso, bitmap, metadata, pc, copia, indexBlock, bloquesDeDatos,
                   respuesta, caidas>>

InicioFueraDeRango(p) ==
    /\ Va(p, "datos", "fin")
    /\ quedanBloques(p)
    /\ desde(p) > Largo[p]
    /\ Contesta(p, "error")
    /\ UNCHANGED <<caso, disco, locales, caidas>>

ArchivoCreado(p) ==
    /\ Va(p, "datos", "fin")
    /\ ~quedanBloques(p)
    /\ Contesta(p, "creado")
    /\ UNCHANGED <<caso, disco, locales, caidas>>

-----------------------------------------------------------------------------
(***************************************************************************)
(* Errors of a system call, and crashes.  Nothing already written is       *)
(* undone: what reached the files stays there.  InitFileSystem keeps files *)
(* that have the configured size, so a restart leaves the disk as it was.  *)
(***************************************************************************)

ErrorDeDisco(p) ==
    /\ FallaElDisco
    /\ pc[p] \in Pcs \ {"fin"}
    /\ pc[p] = "nuevo" => ~Incompleto(p)
    /\ pc[p] = "datos" => quedanBloques(p)
    /\ pc' = [pc EXCEPT ![p] = "fin"]
    /\ Contesta(p, "error")
    /\ UNCHANGED <<caso, disco, locales, caidas>>

Caida ==
    /\ caidas < MaxCaidas
    /\ enCurso # {}
    /\ caidas' = caidas + 1
    /\ pc' = [p \in Pedidos |-> IF p \in enCurso THEN "fin" ELSE pc[p]]
    /\ respuesta' = [p \in Pedidos |-> IF p \in enCurso THEN "perdida" ELSE respuesta[p]]
    /\ UNCHANGED <<caso, disco, locales>>

Paso(p) ==
    \/ ParametrosIncompletos(p)
    \/ SinEspacio(p)
    \/ ReservarSinLogger(p)
    \/ Reservar(p)
    \/ guardarBitmap(p)
    \/ crearMetadata(p)
    \/ AnotarMetadata(p)
    \/ escribirPunterosEnIndice(p)
    \/ FinPunteros(p)
    \/ escribirDatosEnBloques(p)
    \/ InicioFueraDeRango(p)
    \/ ArchivoCreado(p)

\* Every request has been answered.
Terminado == (\A p \in Pedidos : pc[p] = "fin") /\ UNCHANGED vars

Next ==
    \/ \E p \in Pedidos : Paso(p) \/ ErrorDeDisco(p)
    \/ Caida
    \/ Terminado

Spec == Init /\ [][Next]_vars

\* The Go scheduler runs every goroutine.
Equidad == \A p \in Pedidos : WF_vars(Paso(p))

SpecJusta == Spec /\ Equidad

-----------------------------------------------------------------------------
(***************************************************************************)
(* Properties.                                                             *)
(***************************************************************************)

\* One request at a time.  crearArchivoDump takes no mutex and writes its whole
\* copy of the bitmap back: two requests that overlap may take the same blocks,
\* so what the disk keeps is stated for clients that wait for each other, and
\* what each request does for any of them.
EnSerie == Simultaneos = 1

BloquesDe(p) == {indexBlock[p]} \cup ToSet(bloquesDeDatos[p])

\* The requests that hold blocks they count on.
Duenos == enCurso \cup {p \in Pedidos : respuesta[p] = "creado"}

\* A request that passed the space check of crearArchivoDump really finds an
\* index block and every data block it needs, all different: the two errors
\* "no se encontraron bloques libres" and "ya esta ocupado" cannot happen.
ReservaCompleta ==
    \A p \in enCurso :
        /\ Len(bloquesDeDatos[p]) = numBloquesNecesarios(p)
        /\ Cardinality(BloquesDe(p)) = numBloquesNecesarios(p) + 1

\* Two dumps never take the same block (reservarBloque, "el bloque %d ya esta
\* ocupado").
SinCompartir ==
    EnSerie =>
    \A p, q \in Duenos : p # q => BloquesDe(p) \cap BloquesDe(q) = {}

\* No word of a dump and no index block named by a metadata file lies in a
\* block that bitmap.dat calls free, whatever crash or error cut a request
\* short: crearArchivoDump saves the bitmap before anything that relies on it.
EscritoMarcado ==
    EnSerie =>
    /\ \A d \in Direcciones : bloques[d] # Puntero(0) => d \div Block_Size \in bitmap
    /\ \A n \in DOMAIN metadata :
           metadata[n] # Vacio => metadata[n].index_block \in bitmap

\* Where word k of the file n is, following its metadata and its pointers.
Ubicacion(n, k) ==
    bloques[metadata[n].index_block * Block_Size + k \div Block_Size].n * Block_Size
        + (k % Block_Size)

\* Whoever reads the file n from the disk gets the content of request p.
Guarda(n, p) ==
    /\ metadata[n].size = Largo[p] /\ Largo[p] > 0
    /\ \A k \in 0 .. Largo[p] - 1 :
           /\ metadata[n].index_block * Block_Size + k \div Block_Size \in Direcciones
           /\ Ubicacion(n, k) \in Direcciones
           /\ bloques[Ubicacion(n, k)] = [de |-> p, n |-> k]

ReescritoPor(q, p) ==
    q # p /\ Nombre[q] = Nombre[p] /\ pc[q] \notin {"nuevo", "guardar", "crear"}

\* A dump whose creation was answered can be read back whole, unless a later
\* dump took its name (crearArchivoDump, "Archivo DUMP creado exitosamente").
ArchivoIntegro ==
    EnSerie =>
    \A p \in Pedidos : respuesta[p] = "creado" =>
        Guarda(Nombre[p], p) \/ \E q \in Pedidos : ReescritoPor(q, p)

\* The files that one request writes.
DeUnoSolo ==
    {n \in DOMAIN metadata :
        EnSerie /\ \A p, q \in Pedidos : Nombre[p] = n /\ Nombre[q] = n => p = q}

\* Seen through the disk, the dumps that no other dump replaces, written one at
\* a time, appear whole, at once, and never change (module Almacen).
Promesa == INSTANCE Almacen WITH
    Nombres <- UNION {{c.Nombre[p] : p \in Pedidos} : c \in Casos},
    Contenidos <- Pedidos,
    guardados <- [n \in {m \in DeUnoSolo : \E p \in Pedidos : Guarda(m, p)} |->
                     CHOOSE p \in Pedidos : Guarda(n, p)]

CumplePromesa == Promesa!Spec

\* Every request is answered or dies with the server.
TodoPedidoTermina == \A p \in Pedidos : <>(pc[p] = "fin")
=============================================================================
