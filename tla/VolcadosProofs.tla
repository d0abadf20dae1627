--------------------------- MODULE VolcadosProofs ---------------------------
(***************************************************************************)
(* Theorems about Volcados, for any disk, any requests, any crashes and    *)
(* errors of the disk: every reservation is complete; requests that are    *)
(* served one at a time never share a block; and if the pointers of each   *)
(* fit in its index block, what was answered "creado" can be read back and *)
(* the disk implements Almacen.                                            *)
(***************************************************************************)
EXTENDS Volcados, SequenceTheorems, FiniteSetTheorems, TLAPS

-----------------------------------------------------------------------------
(***************************************************************************)
(* The search of free blocks.                                              *)
(***************************************************************************)

\* How many elements of S come before x.
Menores(S, x) == {y \in S : y < x}

\* In a finite set of naturals there is one element for each rank.
LEMMA UnoPorRango ==
    ASSUME NEW S \in SUBSET Nat, IsFiniteSet(S), NEW k \in 1 .. Cardinality(S)
    PROVE  \E x \in S : Cardinality(Menores(S, x)) = k - 1
<1> DEFINE n == Cardinality(S)
           T == 0 .. n - 1
           f == [x \in S |-> Cardinality(Menores(S, x))]
<1>1. n \in Nat
  BY FS_CardinalityType
<1>2. ASSUME NEW x \in S
      PROVE  /\ IsFiniteSet(Menores(S, x))
             /\ Cardinality(Menores(S, x)) \in T
  <2>1. IsFiniteSet(S \ {x}) /\ Cardinality(S \ {x}) = n - 1
    BY FS_RemoveElement
  <2>2. Menores(S, x) \subseteq S \ {x}
    BY DEF Menores
  <2>3. IsFiniteSet(Menores(S, x)) /\ Cardinality(Menores(S, x)) <= n - 1
    BY <2>1, <2>2, FS_Subset
  <2>. QED
    BY <1>1, <2>3, FS_CardinalityType
<1>3. ASSUME NEW x \in S, NEW y \in S, x < y
      PROVE  Cardinality(Menores(S, x)) < Cardinality(Menores(S, y))
  <2>1. \A z \in S : z \in Nat
    OBVIOUS
  <2>2. \A z \in S : z < x => z < y
    BY <1>3, <2>1
  <2>3. ~(x < x)
    BY <2>1
  <2>4. Menores(S, x) \subseteq Menores(S, y) /\ x \in Menores(S, y) /\ x \notin Menores(S, x)
    BY <1>3, <2>2, <2>3 DEF Menores
  <2>5. /\ Cardinality(Menores(S, x)) <= Cardinality(Menores(S, y))
        /\ Cardinality(Menores(S, y)) # Cardinality(Menores(S, x))
    BY <1>2, <2>4, FS_Subset
  <2>. QED
    BY <1>1, <1>2, <2>5
<1>4. f \in Injection(S, T)
  <2>1. f \in [S -> T]
    BY <1>2
  <2>2. ASSUME NEW x \in S, NEW y \in S, f[x] = f[y] PROVE x = y
    BY <1>1, <1>2, <1>3, <2>2
  <2>. QED
    BY <2>1, <2>2 DEF Injection, IsInjective
<1>5. IsFiniteSet(T) /\ Cardinality(T) = n
  <2>1. 0 \in Int /\ n - 1 \in Int
    BY <1>1
  <2>2. IsFiniteSet(T) /\ Cardinality(T) = IF 0 > n - 1 THEN 0 ELSE n - 1 - 0 + 1
    BY <2>1, FS_Interval
  <2>. QED
    BY <1>1, <2>2
<1>6. f \in Surjection(S, T)
  BY <1>4, <1>5, FS_Injection
<1>7. k - 1 \in T
  BY <1>1
<1>8. \E x \in S : f[x] = k - 1
  BY <1>6, <1>7 DEF Surjection
<1>. QED
  BY <1>8

LEMMA LibresFinitos ==
    ASSUME PedidosValidos, NEW b
    PROVE  /\ Libres(b) \in SUBSET Nat /\ Libres(b) \subseteq TodosLosBloques
           /\ IsFiniteSet(Libres(b)) /\ Cardinality(Libres(b)) \in Nat
<1>1. IsFiniteSet(TodosLosBloques)
  BY FS_Interval DEF PedidosValidos, TodosLosBloques
<1>2. Libres(b) \in SUBSET Nat /\ Libres(b) \in SUBSET TodosLosBloques
  BY DEF Libres, TodosLosBloques
<1>. QED
  BY <1>1, <1>2, FS_Subset, FS_CardinalityType

\* Every round of the search finds a block, and each a block of its own.
LEMMA BloqueLibreHallado ==
    ASSUME PedidosValidos, NEW b, NEW k \in 1 .. Cardinality(Libres(b))
    PROVE  /\ BloqueLibre(b, k) \in Libres(b)
           /\ Cardinality(Menores(Libres(b), BloqueLibre(b, k))) = k - 1
<1> DEFINE S == Libres(b)
<1>1. S \in SUBSET Nat /\ IsFiniteSet(S)
  BY LibresFinitos
<1>2. \E x \in S : Cardinality(Menores(S, x)) = k - 1
  BY <1>1, UnoPorRango
<1>. QED
  BY <1>2 DEF BloqueLibre, Menores

LEMMA PrimerosLibresDistintos ==
    ASSUME PedidosValidos, NEW b, NEW n \in Nat, Cardinality(Libres(b)) >= n
    PROVE  LET r == PrimerosLibres(b, n)
           IN  /\ r \in Seq(TodosLosBloques) /\ Len(r) = n
               /\ \A k \in 1 .. n : r[k] \in Libres(b)
               /\ \A j, k \in 1 .. n : r[j] = r[k] => j = k
<1> DEFINE r == PrimerosLibres(b, n)
<1>1. \A k \in 1 .. n : k \in 1 .. Cardinality(Libres(b))
  BY LibresFinitos
<1>2. ASSUME NEW k \in 1 .. n
      PROVE  /\ r[k] \in Libres(b) /\ r[k] \in TodosLosBloques
             /\ Cardinality(Menores(Libres(b), r[k])) = k - 1
  BY <1>1, LibresFinitos, BloqueLibreHallado DEF PrimerosLibres
<1>3. r \in Seq(TodosLosBloques) /\ Len(r) = n
  BY <1>2, IsASeq DEF PrimerosLibres
<1>4. ASSUME NEW j \in 1 .. n, NEW k \in 1 .. n, r[j] = r[k] PROVE j = k
  BY <1>2, <1>4
<1>. QED
  BY <1>2, <1>3, <1>4

-----------------------------------------------------------------------------
(***************************************************************************)
(* The types.                                                              *)
(***************************************************************************)

Tipos ==
    /\ TypeOK
    /\ copia \in [Pedidos -> SUBSET TodosLosBloques]
    /\ bloquesDeDatos \in [Pedidos -> Seq(TodosLosBloques)]
    /\ \A p \in Pedidos : i[p] >= 1

LEMMA NecesariosNatural ==
    ASSUME PedidosValidos, caso \in Casos, NEW p \in Pedidos
    PROVE  Largo[p] \in Nat /\ numBloquesNecesarios(p) \in Nat
<1>1. Tamano[p] \in Nat /\ Largo[p] \in Nat
  BY DEF PedidosValidos, Tamano, Largo
<1>2. Block_Size \in Nat /\ Block_Size > 0
  BY DEF PedidosValidos
<1>3. Tamano[p] \div Block_Size \in Nat
  BY <1>1, <1>2
<1>. QED
  BY <1>1, <1>3 DEF numBloquesNecesarios

LEMMA TiposAlEmpezar ==
    ASSUME PedidosValidos, Init
    PROVE  Tipos
<1>1. 0 \in TodosLosBloques /\ 0 \in Nat /\ 0 \in 0 .. MaxCaidas
  BY DEF PedidosValidos, TodosLosBloques
<1>2. bloques \in [Direcciones -> Palabra]
  BY DEF Init, Puntero, Palabra
<1>3. \A n \in DOMAIN metadata : metadata[n] \in Meta \cup {Vacio}
  <2>1. <<>> \in Seq(Nat) /\ Len(<<>>) = 0
    OBVIOUS
  <2>2. DOMAIN <<>> = 1 .. 0
    BY <2>1, LenProperties
  <2>3. metadata = <<>>
    BY DEF Init
  <2>4. DOMAIN metadata = {}
    BY <2>2, <2>3
  <2>. QED
    BY <2>4
<1>4. <<>> \in Seq(TodosLosBloques)
  OBVIOUS
<1>5. pc \in [Pedidos -> Pcs] /\ respuesta \in [Pedidos -> Respuestas]
  BY DEF Init, Pcs, Respuestas
<1>6. i \in [Pedidos -> Nat] /\ \A p \in Pedidos : i[p] >= 1
  <2>1. i = [p \in Pedidos |-> 1]
    BY DEF Init
  <2>. QED
    BY <2>1
<1>7. bloquesDeDatos \in [Pedidos -> Seq(TodosLosBloques)]
  BY <1>4 DEF Init
<1>8. copia \in [Pedidos -> SUBSET TodosLosBloques]
  BY DEF Init
<1>9. indexBlock \in [Pedidos -> TodosLosBloques]
  BY <1>1 DEF Init
<1>10. caso \in Casos /\ bitmap \subseteq TodosLosBloques /\ caidas \in 0 .. MaxCaidas
  BY <1>1 DEF Init
<1>. QED
  BY <1>2, <1>3, <1>5, <1>6, <1>7, <1>8, <1>9, <1>10 DEF Tipos, TypeOK

\* A write of a metadata file.
LEMMA TipoDeMetadata ==
    ASSUME \A n \in DOMAIN metadata : metadata[n] \in Meta \cup {Vacio},
           NEW x, NEW m \in Meta \cup {Vacio}, metadata' = ConMeta(x, m)
    PROVE  \A n \in DOMAIN metadata' : metadata'[n] \in Meta \cup {Vacio}
BY DEF ConMeta

\* A step that writes no file and takes no block.
LEMMA TipoSinEscribir ==
    ASSUME Tipos, UNCHANGED <<caso, disco, copia, indexBlock, bloquesDeDatos>>,
           pc' \in [Pedidos -> Pcs], respuesta' \in [Pedidos -> Respuestas],
           i' \in [Pedidos -> Nat], \A p \in Pedidos : i'[p] >= 1,
           caidas' \in 0 .. MaxCaidas
    PROVE  Tipos'
BY DEF Tipos, TypeOK, disco

LEMMA TipoAlReservar ==
    ASSUME PedidosValidos, Tipos, NEW p \in Pedidos, Reservar(p)
    PROVE  Tipos'
<1> DEFINE n == numBloquesNecesarios(p) + 1
           r == PrimerosLibres(bitmap, n)
<1>1. n \in Nat /\ n >= 1
  BY NecesariosNatural DEF Tipos, TypeOK
<1>2. Cardinality(Libres(bitmap)) >= n
  BY DEF Reservar, verificarEspacioDisponible
<1>3. r \in Seq(TodosLosBloques) /\ Len(r) = n
  BY <1>1, <1>2, PrimerosLibresDistintos
<1>4. /\ indexBlock' = [indexBlock EXCEPT ![p] = r[1]]
      /\ bloquesDeDatos' = [bloquesDeDatos EXCEPT ![p] = Tail(r)]
      /\ copia' = [copia EXCEPT ![p] = bitmap \cup ToSet(r)]
      /\ pc' = [pc EXCEPT ![p] = "guardar"]
      /\ UNCHANGED <<caso, disco, i, respuesta, caidas>>
  BY DEF Reservar, Va
<1> HIDE DEF n, r
<1>5. r # <<>> /\ r[1] \in TodosLosBloques
  BY <1>1, <1>3
<1>6. Tail(r) \in Seq(TodosLosBloques)
  BY <1>3, <1>5, HeadTailProperties
<1>7. ToSet(r) \subseteq TodosLosBloques
  BY <1>3 DEF ToSet
<1>8. bitmap \cup ToSet(r) \in SUBSET TodosLosBloques
  BY <1>7 DEF Tipos, TypeOK
<1>9. indexBlock' \in [Pedidos -> TodosLosBloques]
  BY <1>4, <1>5 DEF Tipos, TypeOK
<1>10. bloquesDeDatos' \in [Pedidos -> Seq(TodosLosBloques)]
  BY <1>4, <1>6 DEF Tipos, TypeOK
<1>11. copia' \in [Pedidos -> SUBSET TodosLosBloques]
  BY <1>4, <1>8 DEF Tipos
<1>12. pc' \in [Pedidos -> Pcs]
  BY <1>4 DEF Tipos, TypeOK, Pcs
<1>. QED
  BY <1>4, <1>9, <1>10, <1>11, <1>12 DEF Tipos, TypeOK, disco

LEMMA TipoAlEscribirPunteros ==
    ASSUME PedidosValidos, Tipos, NEW p \in Pedidos, escribirPunterosEnIndice(p)
    PROVE  Tipos'
<1>1. i[p] \in 1 .. Len(bloquesDeDatos[p])
  BY DEF escribirPunterosEnIndice, quedanBloques, Tipos, TypeOK
<1>2. bloquesDeDatos[p][i[p]] \in Nat
  BY <1>1 DEF Tipos, TodosLosBloques
<1>3. Puntero(bloquesDeDatos[p][i[p]]) \in Palabra
  BY <1>2 DEF Puntero, Palabra
<1>4. bloques' \in [Direcciones -> Palabra]
  BY <1>3 DEF escribirPunterosEnIndice, Tipos, TypeOK
<1>5. i' \in [Pedidos -> Nat] /\ \A q \in Pedidos : i'[q] >= 1
  BY DEF escribirPunterosEnIndice, Tipos, TypeOK
<1>. QED
  BY <1>4, <1>5 DEF escribirPunterosEnIndice, Tipos, TypeOK

LEMMA TipoAlEscribirDatos ==
    ASSUME PedidosValidos, Tipos, NEW p \in Pedidos, escribirDatosEnBloques(p)
    PROVE  Tipos'
<1>1. desde(p) \in Nat
  <2>1. i[p] - 1 \in Nat /\ Block_Size \in Nat
    BY DEF Tipos, TypeOK, PedidosValidos
  <2>. QED
    BY <2>1 DEF desde
<1>2. ASSUME NEW n \in Nat PROVE [de |-> p, n |-> desde(p) + n] \in Palabra
  BY <1>1 DEF Palabra
<1>3. \A n \in 0 .. Block_Size - 1 : n \in Nat
  BY DEF PedidosValidos
<1>4. bloques' \in [Direcciones -> Palabra]
  BY <1>2, <1>3 DEF escribirDatosEnBloques, Tipos, TypeOK
<1>5. i' \in [Pedidos -> Nat] /\ \A q \in Pedidos : i'[q] >= 1
  BY DEF escribirDatosEnBloques, Tipos, TypeOK
<1>. QED
  BY <1>4, <1>5 DEF escribirDatosEnBloques, Tipos, TypeOK

LEMMA TipoSePreserva ==
    ASSUME PedidosValidos, Tipos, [Next]_vars
    PROVE  Tipos'
<1>1. ASSUME NEW p \in Pedidos,
             ParametrosIncompletos(p) \/ SinEspacio(p) \/ ReservarSinLogger(p)
                \/ InicioFueraDeRango(p) \/ ArchivoCreado(p) \/ ErrorDeDisco(p)
      PROVE  Tipos'
  <2>1. /\ pc' = [pc EXCEPT ![p] = "fin"]
        /\ \E r \in Respuestas : respuesta' = [respuesta EXCEPT ![p] = r]
        /\ UNCHANGED <<caso, disco, locales, caidas>>
    BY <1>1 DEF ParametrosIncompletos, SinEspacio, ReservarSinLogger, InicioFueraDeRango,
                ArchivoCreado, ErrorDeDisco, Va, Contesta, Respuestas
  <2>2. pc' \in [Pedidos -> Pcs] /\ respuesta' \in [Pedidos -> Respuestas]
    BY <2>1 DEF Tipos, TypeOK, Pcs
  <2>. QED
    BY <2>1, <2>2, TipoSinEscribir DEF Tipos, TypeOK, locales
<1>2. ASSUME NEW p \in Pedidos, guardarBitmap(p) PROVE Tipos'
  <2>1. bitmap' \subseteq TodosLosBloques /\ pc' \in [Pedidos -> Pcs]
    BY <1>2 DEF guardarBitmap, Va, Tipos, TypeOK, Pcs
  <2>. QED
    BY <1>2, <2>1 DEF guardarBitmap, Tipos, TypeOK, locales
<1>3. ASSUME NEW p \in Pedidos, crearMetadata(p) \/ AnotarMetadata(p) PROVE Tipos'
  <2>1. [index_block |-> indexBlock[p], size |-> Largo[p]] \in Meta
    BY NecesariosNatural DEF Tipos, TypeOK, Meta
  <2>2. \A n \in DOMAIN metadata' : metadata'[n] \in Meta \cup {Vacio}
    BY <1>3, <2>1, TipoDeMetadata DEF crearMetadata, AnotarMetadata, Tipos, TypeOK
  <2>3. pc' \in [Pedidos -> Pcs]
    BY <1>3 DEF crearMetadata, AnotarMetadata, Va, Tipos, TypeOK, Pcs
  <2>4. UNCHANGED <<caso, bitmap, bloques, locales, respuesta, caidas>>
    BY <1>3 DEF crearMetadata, AnotarMetadata
  <2>. QED
    BY <2>2, <2>3, <2>4 DEF Tipos, TypeOK, locales
<1>4. ASSUME NEW p \in Pedidos, FinPunteros(p) PROVE Tipos'
  <2>1. i' \in [Pedidos -> Nat] /\ \A q \in Pedidos : i'[q] >= 1
    BY <1>4 DEF FinPunteros, Tipos, TypeOK
  <2>2. pc' \in [Pedidos -> Pcs]
    BY <1>4 DEF FinPunteros, Va, Tipos, TypeOK, Pcs
  <2>. QED
    BY <1>4, <2>1, <2>2, TipoSinEscribir DEF FinPunteros, Tipos, TypeOK
<1>5. CASE Caida
  <2>1. pc' \in [Pedidos -> Pcs] /\ respuesta' \in [Pedidos -> Respuestas]
    BY <1>5 DEF Caida, Tipos, TypeOK, Pcs, Respuestas
  <2>2. caidas' \in 0 .. MaxCaidas
    BY <1>5 DEF Caida, Tipos, TypeOK, PedidosValidos
  <2>. QED
    BY <1>5, <2>1, <2>2, TipoSinEscribir DEF Caida, Tipos, TypeOK, locales
<1>6. CASE UNCHANGED vars
  BY <1>6, TipoSinEscribir DEF vars, Tipos, TypeOK, locales
<1>. QED
  BY <1>1, <1>2, <1>3, <1>4, <1>5, <1>6, TipoAlReservar, TipoAlEscribirPunteros,
     TipoAlEscribirDatos DEF Next, Paso, Terminado

-----------------------------------------------------------------------------
(***************************************************************************)
(* The blocks that a request takes.                                        *)
(***************************************************************************)

LEMMA BloquesDeTipos ==
    ASSUME Tipos, NEW p \in Pedidos
    PROVE  /\ BloquesDe(p) \subseteq TodosLosBloques
           /\ indexBlock[p] \in BloquesDe(p)
           /\ \A k \in 1 .. Len(bloquesDeDatos[p]) : bloquesDeDatos[p][k] \in BloquesDe(p)
BY DEF Tipos, TypeOK, BloquesDe, ToSet

\* The first of a sequence and the rest are all of it.
LEMMA CabezaYCola ==
    ASSUME NEW S, NEW r \in Seq(S), Len(r) >= 1
    PROVE  /\ r[1] \in S /\ Tail(r) \in Seq(S) /\ Len(Tail(r)) = Len(r) - 1
           /\ {r[1]} \cup ToSet(Tail(r)) = {r[k] : k \in 1 .. Len(r)}
           /\ ToSet(r) = {r[k] : k \in 1 .. Len(r)}
<1>1. r # <<>> /\ Len(r) \in Nat /\ r[1] \in S
  OBVIOUS
<1>2. /\ Tail(r) \in Seq(S) /\ Len(Tail(r)) = Len(r) - 1
      /\ \A k \in 1 .. Len(Tail(r)) : Tail(r)[k] = r[k + 1]
  BY <1>1, HeadTailProperties
<1>3. ToSet(r) = {r[k] : k \in 1 .. Len(r)}
  BY DEF ToSet
<1>4. ToSet(Tail(r)) = {Tail(r)[k] : k \in 1 .. Len(r) - 1}
  <2>1. DOMAIN Tail(r) = 1 .. Len(r) - 1
    BY <1>2, LenProperties
  <2>. QED
    BY <2>1 DEF ToSet
<1>5. ASSUME NEW k \in 1 .. Len(r) PROVE r[k] \in {r[1]} \cup ToSet(Tail(r))
  <2>1. CASE k = 1
    BY <2>1
  <2>2. CASE k # 1
    <3>1. k - 1 \in 1 .. Len(r) - 1 /\ (k - 1) + 1 = k
      BY <1>1, <2>2
    <3>2. Tail(r)[k - 1] = r[k]
      BY <1>2, <3>1
    <3>. QED
      BY <1>4, <3>1, <3>2
  <2>. QED
    BY <2>1, <2>2
<1>6. ASSUME NEW x \in ToSet(Tail(r)) PROVE x \in {r[k] : k \in 1 .. Len(r)}
  <2>1. PICK k \in 1 .. Len(r) - 1 : x = Tail(r)[k]
    BY <1>4
  <2>2. k + 1 \in 1 .. Len(r) /\ x = r[k + 1]
    BY <1>1, <1>2, <2>1
  <2>. QED
    BY <2>2
<1>7. r[1] \in {r[k] : k \in 1 .. Len(r)}
  BY <1>1
<1>8. {r[1]} \cup ToSet(Tail(r)) = {r[k] : k \in 1 .. Len(r)}
  BY <1>5, <1>6, <1>7
<1>. QED
  BY <1>1, <1>2, <1>3, <1>8

\* Distinct blocks are as many as their places.
LEMMA TantosComoLugares ==
    ASSUME NEW n \in Nat, NEW S, NEW r \in Seq(S), Len(r) = n,
           \A j, k \in 1 .. n : r[j] = r[k] => j = k
    PROVE  Cardinality({r[k] : k \in 1 .. n}) = n
<1> DEFINE T == {r[k] : k \in 1 .. n}
           f == [k \in 1 .. n |-> r[k]]
<1>1. f \in Bijection(1 .. n, T)
  <2>1. f \in [1 .. n -> T]
    OBVIOUS
  <2>2. \A j, k \in 1 .. n : f[j] = f[k] => j = k
    OBVIOUS
  <2>3. \A t \in T : \E k \in 1 .. n : f[k] = t
    OBVIOUS
  <2>. QED
    BY <2>1, <2>2, <2>3 DEF Bijection, Injection, IsInjective, Surjection
<1>2. ExistsBijection(1 .. n, T)
  BY <1>1 DEF ExistsBijection
<1>3. IsFiniteSet(1 .. n) /\ Cardinality(1 .. n) = n
  <2>1. 1 \in Int /\ n \in Int
    OBVIOUS
  <2>2. IsFiniteSet(1 .. n) /\ Cardinality(1 .. n) = IF 1 > n THEN 0 ELSE n - 1 + 1
    BY <2>1, FS_Interval
  <2>. QED
    BY <2>2
<1>4. Cardinality(T) = Cardinality(1 .. n)
  BY <1>2, <1>3, FS_Bijection
<1>. QED
  BY <1>3, <1>4

\* What a request has once it is served.
LEMMA LoReservado ==
    ASSUME PedidosValidos, Tipos, NEW p \in Pedidos, Reservar(p)
    PROVE  /\ Len(bloquesDeDatos[p]') = numBloquesNecesarios(p)
           /\ Cardinality(BloquesDe(p)') = numBloquesNecesarios(p) + 1
           /\ BloquesDe(p)' \cap bitmap = {}
           /\ copia'[p] = bitmap \cup BloquesDe(p)'
           /\ \A q \in Pedidos \ {p} : /\ BloquesDe(q)' = BloquesDe(q)
                                       /\ bloquesDeDatos'[q] = bloquesDeDatos[q]
                                       /\ copia'[q] = copia[q]
<1> DEFINE n == numBloquesNecesarios(p) + 1
           r == PrimerosLibres(bitmap, n)
<1>1. numBloquesNecesarios(p) \in Nat /\ n \in Nat /\ n >= 1
  BY NecesariosNatural DEF Tipos, TypeOK
<1>2. Cardinality(Libres(bitmap)) >= n
  BY DEF Reservar, verificarEspacioDisponible
<1>3. /\ r \in Seq(TodosLosBloques) /\ Len(r) = n
      /\ \A k \in 1 .. n : r[k] \in Libres(bitmap)
      /\ \A j, k \in 1 .. n : r[j] = r[k] => j = k
  BY <1>1, <1>2, PrimerosLibresDistintos
<1>4. /\ indexBlock' = [indexBlock EXCEPT ![p] = r[1]]
      /\ bloquesDeDatos' = [bloquesDeDatos EXCEPT ![p] = Tail(r)]
      /\ copia' = [copia EXCEPT ![p] = bitmap \cup ToSet(r)]
  BY DEF Reservar
<1>5. numBloquesNecesarios(p) = n - 1
  BY <1>1
<1> HIDE DEF n, r
<1>6. /\ Len(Tail(r)) = n - 1
      /\ {r[1]} \cup ToSet(Tail(r)) = {r[k] : k \in 1 .. n}
      /\ ToSet(r) = {r[k] : k \in 1 .. n}
  BY <1>1, <1>3, CabezaYCola
<1>7. /\ indexBlock'[p] = r[1] /\ bloquesDeDatos'[p] = Tail(r)
      /\ copia'[p] = bitmap \cup ToSet(r)
  BY <1>4 DEF Tipos, TypeOK
<1>8. BloquesDe(p)' = {r[k] : k \in 1 .. n}
  BY <1>6, <1>7 DEF BloquesDe
<1>9. Cardinality({r[k] : k \in 1 .. n}) = n
  BY <1>1, <1>3, TantosComoLugares
<1>10. {r[k] : k \in 1 .. n} \cap bitmap = {}
  BY <1>3 DEF Libres
<1>11. ASSUME NEW q \in Pedidos \ {p}
       PROVE  /\ indexBlock'[q] = indexBlock[q]
              /\ bloquesDeDatos'[q] = bloquesDeDatos[q] /\ copia'[q] = copia[q]
  BY <1>4 DEF Tipos, TypeOK
<1>12. \A q \in Pedidos \ {p} : BloquesDe(q)' = BloquesDe(q)
  BY <1>11 DEF BloquesDe
<1>. QED
  BY <1>1, <1>5, <1>6, <1>7, <1>8, <1>9, <1>10, <1>11, <1>12

-----------------------------------------------------------------------------
(***************************************************************************)
(* The invariant.                                                          *)
(***************************************************************************)

\* Who was answered has ended.
Contestados == \A p \in Pedidos : respuesta[p] = "creado" => pc[p] = "fin"

\* One at a time, nobody reads a bitmap that another is about to replace.
DeAUno == EnSerie => \A p, q \in enCurso : p = q

\* What a request holds is in bitmap.dat, or its copy is bitmap.dat and that.
Marcados ==
    EnSerie =>
    \A p \in Duenos :
        /\ pc[p] = "guardar" => /\ copia[p] = bitmap \cup BloquesDe(p)
                                /\ BloquesDe(p) \cap bitmap = {}
        /\ pc[p] # "guardar" => BloquesDe(p) \subseteq bitmap

\* The pointers of every dump fit in its index block.
IndicesCaben == \A p \in Pedidos : numBloquesNecesarios(p) <= Block_Size

MarcadoSiCaben == IndicesCaben => EscritoMarcado

Reservas == DeAUno /\ Marcados /\ ReservaCompleta /\ SinCompartir

IVolcados == Tipos /\ Contestados /\ Reservas /\ MarcadoSiCaben

\* How a step that takes no block and does not save the bitmap moves q.
Avanza(q) ==
    \/ pc'[q] = pc[q] /\ respuesta'[q] = respuesta[q]
    \/ pc'[q] = "fin" /\ respuesta'[q] # "creado"
    \/ pc[q] = "datos" /\ pc'[q] = "fin"
    \/ /\ {pc[q], pc'[q]} \subseteq {"crear", "anotar", "punteros", "datos"}
       /\ respuesta'[q] = respuesta[q]

LEMMA ReservasAlAvanzar ==
    ASSUME Contestados, Reservas, \A q \in Pedidos : Avanza(q),
           UNCHANGED <<caso, bitmap, copia, indexBlock, bloquesDeDatos>>
    PROVE  Contestados' /\ Reservas'
<1>1. Contestados'
  BY DEF Contestados, Avanza
<1>2. enCurso' \subseteq enCurso
  BY DEF enCurso, Avanza
<1>3. Duenos' \subseteq Duenos
  BY DEF Duenos, enCurso, Avanza
<1>4. \A q \in Duenos' : pc'[q] = "guardar" <=> pc[q] = "guardar"
  BY DEF Duenos, enCurso, Avanza
<1>5. \A q : BloquesDe(q)' = BloquesDe(q)
  BY DEF BloquesDe
<1>6. \A q : numBloquesNecesarios(q)' = numBloquesNecesarios(q)
  BY DEF numBloquesNecesarios, Tamano, Largo
<1>7. EnSerie' <=> EnSerie
  BY DEF EnSerie, Simultaneos
<1>8. DeAUno'
  BY <1>2, <1>7 DEF Reservas, DeAUno
<1>9. Marcados'
  BY <1>3, <1>4, <1>5, <1>7 DEF Reservas, Marcados
<1>10. ReservaCompleta'
  BY <1>2, <1>5, <1>6 DEF Reservas, ReservaCompleta
<1>11. SinCompartir'
  BY <1>3, <1>5, <1>7 DEF Reservas, SinCompartir
<1>. QED
  BY <1>1, <1>8, <1>9, <1>10, <1>11 DEF Reservas

LEMMA ReservasAlReservar ==
    ASSUME PedidosValidos, Tipos, Contestados, Reservas, NEW p \in Pedidos, Reservar(p)
    PROVE  Contestados' /\ Reservas'
<1>1. /\ pc[p] = "nuevo" /\ pc' = [pc EXCEPT ![p] = "guardar"]
      /\ Cardinality(enCurso) < Simultaneos
      /\ UNCHANGED <<caso, disco, i, respuesta, caidas>>
  BY DEF Reservar, Va
<1>2. pc'[p] = "guardar" /\ \A q \in Pedidos \ {p} : pc'[q] = pc[q]
  BY <1>1 DEF Tipos, TypeOK
<1>3. enCurso' = enCurso \cup {p} /\ p \notin enCurso
  BY <1>1, <1>2 DEF enCurso
<1>4. Duenos' = Duenos \cup {p} /\ respuesta[p] # "creado" /\ p \notin Duenos
  BY <1>1, <1>3 DEF Duenos, Contestados
<1>5. bitmap' = bitmap /\ (EnSerie' <=> EnSerie)
  BY <1>1 DEF disco, EnSerie, Simultaneos
<1>6. \A q : numBloquesNecesarios(q)' = numBloquesNecesarios(q)
  BY <1>1 DEF numBloquesNecesarios, Tamano, Largo
<1>7. EnSerie => enCurso = {}
  <2>1. IsFiniteSet(enCurso)
    <3>1. enCurso \in SUBSET Pedidos /\ IsFiniteSet(Pedidos)
      BY DEF enCurso, PedidosValidos
    <3>. QED
      BY <3>1, FS_Subset
  <2>2. Cardinality(enCurso) \in Nat
    BY <2>1, FS_CardinalityType
  <2>3. EnSerie => Cardinality(enCurso) = 0
    BY <1>1, <2>2 DEF EnSerie
  <2>. QED
    BY <2>1, <2>3, FS_EmptySet
<1>8. Contestados'
  BY <1>1, <1>2 DEF Contestados
<1>9. DeAUno'
  BY <1>3, <1>5, <1>7 DEF DeAUno
<1>10. EnSerie => \A q \in Duenos : /\ q \in Pedidos \ {p} /\ pc'[q] # "guardar"
                                   /\ BloquesDe(q) \subseteq bitmap
                                   /\ BloquesDe(q)' = BloquesDe(q)
  <2>1. ASSUME EnSerie, NEW q \in Duenos
        PROVE  q \in Pedidos \ {p} /\ pc'[q] = "fin" /\ pc[q] = "fin"
    BY <1>2, <1>4, <1>7, <2>1 DEF Duenos, Contestados
  <2>. QED
    BY <2>1, LoReservado DEF Reservas, Marcados
<1>11. /\ BloquesDe(p)' \cap bitmap = {} /\ copia'[p] = bitmap \cup BloquesDe(p)'
  BY LoReservado
<1>12. Marcados'
  BY <1>2, <1>4, <1>5, <1>10, <1>11 DEF Marcados
<1>13. ReservaCompleta'
  <2>1. ASSUME NEW q \in enCurso'
        PROVE  /\ Len(bloquesDeDatos'[q]) = numBloquesNecesarios(q)
               /\ Cardinality(BloquesDe(q)') = numBloquesNecesarios(q) + 1
    <3>1. CASE q = p
      BY <3>1, LoReservado
    <3>2. CASE q # p
      <4>1. q \in enCurso /\ q \in Pedidos \ {p}
        BY <1>3, <3>2 DEF enCurso
      <4>. QED
        BY <4>1, LoReservado DEF Reservas, ReservaCompleta
    <3>. QED
      BY <3>1, <3>2
  <2>. QED
    BY <1>6, <2>1 DEF ReservaCompleta
<1>14. SinCompartir'
  BY <1>4, <1>5, <1>10, <1>11 DEF Reservas, SinCompartir
<1>. QED
  BY <1>8, <1>9, <1>12, <1>13, <1>14 DEF Reservas

LEMMA ReservasAlGuardar ==
    ASSUME Tipos, Contestados, Reservas, NEW p \in Pedidos, guardarBitmap(p)
    PROVE  /\ Contestados' /\ Reservas'
           /\ EnSerie => bitmap \subseteq bitmap'
<1>1. /\ pc[p] = "guardar" /\ pc' = [pc EXCEPT ![p] = "crear"]
      /\ bitmap' = copia[p]
      /\ UNCHANGED <<caso, bloques, metadata, locales, respuesta, caidas>>
  BY DEF guardarBitmap, Va
<1>2. pc'[p] = "crear" /\ \A q \in Pedidos \ {p} : pc'[q] = pc[q]
  BY <1>1 DEF Tipos, TypeOK
<1>3. enCurso' = enCurso /\ p \in enCurso
  BY <1>1, <1>2 DEF enCurso
<1>4. Duenos' = Duenos /\ p \in Duenos
  BY <1>1, <1>3 DEF Duenos
<1>5. EnSerie' <=> EnSerie
  BY <1>1 DEF EnSerie, Simultaneos
<1>6. \A q : BloquesDe(q)' = BloquesDe(q)
  BY <1>1 DEF BloquesDe, locales
<1>7. \A q : numBloquesNecesarios(q)' = numBloquesNecesarios(q)
  BY <1>1 DEF numBloquesNecesarios, Tamano, Largo
<1>8. EnSerie => bitmap' = bitmap \cup BloquesDe(p)
  BY <1>1, <1>4 DEF Reservas, Marcados
<1>9. Contestados'
  BY <1>1, <1>2 DEF Contestados
<1>10. ASSUME EnSerie, NEW q \in Duenos
       PROVE  pc'[q] # "guardar" /\ BloquesDe(q) \subseteq bitmap'
  <2>1. CASE q = p
    BY <1>2, <1>8, <1>10, <2>1
  <2>2. CASE q # p
    <3>1. q \in Pedidos \ {p} /\ q \notin enCurso
      BY <1>3, <1>10, <2>2 DEF Reservas, DeAUno, Duenos, enCurso
    <3>2. pc[q] = "fin" /\ pc'[q] = "fin"
      BY <1>2, <1>10, <3>1 DEF Duenos, Contestados
    <3>. QED
      BY <1>8, <1>10, <3>2 DEF Reservas, Marcados
  <2>. QED
    BY <2>1, <2>2
<1>11. Marcados'
  BY <1>4, <1>5, <1>6, <1>10 DEF Marcados
<1>12. DeAUno' /\ SinCompartir'
  BY <1>3, <1>4, <1>5, <1>6 DEF Reservas, DeAUno, SinCompartir
<1>13. ReservaCompleta'
  BY <1>1, <1>3, <1>6, <1>7 DEF Reservas, ReservaCompleta, locales
<1>. QED
  BY <1>8, <1>9, <1>11, <1>12, <1>13 DEF Reservas

-----------------------------------------------------------------------------
(***************************************************************************)
(* What is written lies in marked blocks.                                  *)
(***************************************************************************)

\* The block of an address.
LEMMA BloqueDeDireccion ==
    ASSUME NEW B \in Nat \ {0}, NEW b \in Nat, NEW k \in 0 .. B - 1
    PROVE  (b * B + k) \div B = b
<1> DEFINE x == b * B + k
           q == x \div B
<1>1. b * B \in Nat /\ k \in Nat /\ x \in Nat
  OBVIOUS
<1> HIDE DEF x
<1>2. q \in Int /\ B * q <= x /\ x < B * (q + 1)
  BY <1>1
<1>3. x = b * B + k
  BY DEF x
<1> HIDE DEF q
<1>4. ASSUME q < b PROVE FALSE
  <2>1. b - (q + 1) \in Nat
    BY <1>2, <1>4
  <2>2. B * (b - (q + 1)) >= 0
    BY <2>1
  <2>3. B * (q + 1) <= b * B
    BY <1>2, <2>2
  <2>. QED
    BY <1>1, <1>2, <1>3, <2>3
<1>5. ASSUME b < q PROVE FALSE
  <2>1. q - (b + 1) \in Nat
    BY <1>2, <1>5
  <2>2. B * (q - (b + 1)) >= 0
    BY <2>1
  <2>3. b * B + B <= B * q
    BY <1>2, <2>2
  <2>. QED
    BY <1>1, <1>2, <1>3, <2>3
<1>6. q = b
  BY <1>2, <1>4, <1>5
<1>. QED
  BY <1>6 DEF q, x

LEMMA Dispuestos ==
    ASSUME PedidosValidos, IVolcados, EnSerie, NEW p \in Pedidos,
           pc[p] \notin {"nuevo", "guardar", "fin"}
    PROVE  /\ Len(bloquesDeDatos[p]) = numBloquesNecesarios(p)
           /\ indexBlock[p] \in bitmap /\ indexBlock[p] \in Nat
           /\ \A k \in 1 .. Len(bloquesDeDatos[p]) :
                  bloquesDeDatos[p][k] \in bitmap /\ bloquesDeDatos[p][k] \in Nat
<1>1. p \in enCurso /\ p \in Duenos
  BY DEF enCurso, Duenos
<1>2. BloquesDe(p) \subseteq bitmap
  BY <1>1 DEF IVolcados, Reservas, Marcados
<1>3. \A x \in TodosLosBloques : x \in Nat
  BY DEF TodosLosBloques
<1>. QED
  BY <1>1, <1>2, <1>3, BloquesDeTipos DEF IVolcados, Reservas, ReservaCompleta

\* What a step writes in bloques.dat lies in a marked block.
EscribeEnMarcados ==
    EnSerie =>
    \A d \in Direcciones : bloques'[d] # bloques[d] => d \div Block_Size \in bitmap

\* So does the index block of what a step writes in a metadata file.
AnotaMarcados ==
    EnSerie =>
    \A n \in DOMAIN metadata' :
        \/ n \in DOMAIN metadata /\ metadata'[n] = metadata[n]
        \/ metadata'[n] = Vacio
        \/ metadata'[n].index_block \in bitmap

LEMMA PunterosEnSuBloque ==
    ASSUME PedidosValidos, IVolcados, IndicesCaben, NEW p \in Pedidos,
           escribirPunterosEnIndice(p)
    PROVE  EscribeEnMarcados
<1> DEFINE k == i[p] - 1
           e == indexBlock[p] * Block_Size + i[p] - 1
<1>1. SUFFICES ASSUME EnSerie, NEW d \in Direcciones, bloques'[d] # bloques[d]
               PROVE  d \div Block_Size \in bitmap
  BY DEF EscribeEnMarcados
<1>2. /\ Len(bloquesDeDatos[p]) = numBloquesNecesarios(p)
      /\ indexBlock[p] \in bitmap /\ indexBlock[p] \in Nat
  BY <1>1, Dispuestos DEF escribirPunterosEnIndice
<1>3. numBloquesNecesarios(p) \in Nat /\ numBloquesNecesarios(p) <= Block_Size
  BY NecesariosNatural DEF IndicesCaben, IVolcados, Tipos, TypeOK
<1>4. i[p] \in Nat /\ i[p] >= 1 /\ i[p] <= Len(bloquesDeDatos[p])
  BY DEF escribirPunterosEnIndice, quedanBloques, IVolcados, Tipos, TypeOK
<1>5. Block_Size \in Nat \ {0}
  BY DEF PedidosValidos
<1>6. k \in 0 .. Block_Size - 1
  BY <1>2, <1>3, <1>4, <1>5
<1>7. d = e
  BY <1>1 DEF escribirPunterosEnIndice, IVolcados, Tipos, TypeOK
<1>8. e = indexBlock[p] * Block_Size + k
  <2>1. indexBlock[p] * Block_Size \in Nat
    BY <1>2, <1>5
  <2>. QED
    BY <1>4, <2>1
<1>9. e \div Block_Size = indexBlock[p]
  BY <1>2, <1>5, <1>6, <1>8, BloqueDeDireccion
<1>. QED
  BY <1>2, <1>7, <1>9

LEMMA DatosEnSusBloques ==
    ASSUME PedidosValidos, IVolcados, NEW p \in Pedidos, escribirDatosEnBloques(p)
    PROVE  EscribeEnMarcados
<1> DEFINE b == bloquesDeDatos[p][i[p]]
<1>1. SUFFICES ASSUME EnSerie, NEW d \in Direcciones, bloques'[d] # bloques[d]
               PROVE  d \div Block_Size \in bitmap
  BY DEF EscribeEnMarcados
<1>2. i[p] \in 1 .. Len(bloquesDeDatos[p])
  BY DEF escribirDatosEnBloques, quedanBloques, IVolcados, Tipos, TypeOK
<1>3. b \in bitmap /\ b \in Nat
  BY <1>1, <1>2, Dispuestos DEF escribirDatosEnBloques
<1>4. d - b * Block_Size \in 0 .. Block_Size - 1
  BY <1>1 DEF escribirDatosEnBloques
<1>5. Block_Size \in Nat \ {0} /\ d \in Int
  BY DEF PedidosValidos, Direcciones
<1>6. d = b * Block_Size + (d - b * Block_Size)
  <2>1. b * Block_Size \in Nat
    BY <1>3, <1>5
  <2>. QED
    BY <1>5, <2>1
<1> HIDE DEF b
<1>7. d \div Block_Size = b
  BY <1>3, <1>4, <1>5, <1>6, BloqueDeDireccion
<1>. QED
  BY <1>3, <1>7

LEMMA MetadataMarcada ==
    ASSUME PedidosValidos, IVolcados, NEW p \in Pedidos,
           crearMetadata(p) \/ AnotarMetadata(p)
    PROVE  AnotaMarcados
<1>1. EnSerie => indexBlock[p] \in bitmap
  BY Dispuestos DEF crearMetadata, AnotarMetadata, Va
<1>2. CASE crearMetadata(p)
  BY <1>2 DEF crearMetadata, ConMeta, AnotaMarcados
<1>3. CASE AnotarMetadata(p)
  BY <1>1, <1>3 DEF AnotarMetadata, ConMeta, AnotaMarcados
<1>. QED
  BY <1>2, <1>3

LEMMA MarcadoSigue ==
    ASSUME MarcadoSiCaben, UNCHANGED caso, EnSerie => bitmap \subseteq bitmap',
           IndicesCaben => EscribeEnMarcados, AnotaMarcados
    PROVE  MarcadoSiCaben'
<1>1. SUFFICES ASSUME IndicesCaben', EnSerie' PROVE EscritoMarcado'
  BY DEF MarcadoSiCaben, EscritoMarcado
<1>2. IndicesCaben /\ EnSerie
  BY <1>1 DEF IndicesCaben, numBloquesNecesarios, Tamano, Largo, EnSerie, Simultaneos
<1>3. EscritoMarcado
  BY <1>2 DEF MarcadoSiCaben
<1>4. ASSUME NEW d \in Direcciones, bloques'[d] # Puntero(0)
      PROVE  d \div Block_Size \in bitmap'
  BY <1>2, <1>3, <1>4 DEF EscribeEnMarcados, EscritoMarcado
<1>5. ASSUME NEW n \in DOMAIN metadata', metadata'[n] # Vacio
      PROVE  metadata'[n].index_block \in bitmap'
  BY <1>2, <1>3, <1>5 DEF AnotaMarcados, EscritoMarcado
<1>. QED
  BY <1>4, <1>5 DEF EscritoMarcado

-----------------------------------------------------------------------------
(***************************************************************************)
(* The invariant is kept.                                                  *)
(***************************************************************************)

LEMMA IVolcadosAlEmpezar ==
    ASSUME PedidosValidos, Init
    PROVE  IVolcados
<1>1. Tipos
  BY TiposAlEmpezar
<1>2. enCurso = {} /\ Duenos = {}
  BY DEF Init, enCurso, Duenos
<1>3. Contestados
  BY DEF Init, Contestados
<1>4. Reservas
  BY <1>2 DEF Reservas, DeAUno, Marcados, ReservaCompleta, SinCompartir
<1>5. \A d \in Direcciones : bloques[d] = Puntero(0)
  BY DEF Init
<1>6. DOMAIN metadata = {}
  <2>1. <<>> \in Seq(Nat) /\ Len(<<>>) = 0
    OBVIOUS
  <2>2. DOMAIN <<>> = 1 .. 0
    BY <2>1, LenProperties
  <2>3. metadata = <<>>
    BY DEF Init
  <2>. QED
    BY <2>2, <2>3
<1>7. MarcadoSiCaben
  BY <1>5, <1>6 DEF MarcadoSiCaben, EscritoMarcado
<1>. QED
  BY <1>1, <1>3, <1>4, <1>7 DEF IVolcados

\* A step that writes no file.
LEMMA SinEscribir ==
    ASSUME UNCHANGED <<bloques, metadata>>
    PROVE  EscribeEnMarcados /\ AnotaMarcados
BY DEF EscribeEnMarcados, AnotaMarcados

LEMMA IVolcadosSePreserva ==
    ASSUME PedidosValidos, IVolcados, [Next]_vars
    PROVE  IVolcados'
<1> USE DEF IVolcados
<1>1. Tipos'
  BY TipoSePreserva
<1>2. ASSUME NEW p \in Pedidos,
             ParametrosIncompletos(p) \/ SinEspacio(p) \/ ReservarSinLogger(p)
                \/ InicioFueraDeRango(p) \/ ErrorDeDisco(p)
      PROVE  IVolcados'
  <2>1. /\ pc' = [pc EXCEPT ![p] = "fin"]
        /\ \E r \in Respuestas \ {"creado"} : respuesta' = [respuesta EXCEPT ![p] = r]
        /\ UNCHANGED <<caso, disco, locales, caidas>>
    BY <1>2 DEF ParametrosIncompletos, SinEspacio, ReservarSinLogger, InicioFueraDeRango,
                ErrorDeDisco, Va, Contesta, Respuestas
  <2>2. \A q \in Pedidos : Avanza(q)
    BY <2>1 DEF Tipos, TypeOK, Avanza
  <2>. QED
    BY <1>1, <2>1, <2>2, ReservasAlAvanzar, SinEscribir, MarcadoSigue DEF disco, locales
<1>3. ASSUME NEW p \in Pedidos, ArchivoCreado(p) PROVE IVolcados'
  <2>1. \A q \in Pedidos : Avanza(q)
    BY <1>3 DEF ArchivoCreado, Va, Contesta, Tipos, TypeOK, Avanza
  <2>. QED
    BY <1>1, <1>3, <2>1, ReservasAlAvanzar, SinEscribir, MarcadoSigue
       DEF ArchivoCreado, disco, locales
<1>4. ASSUME NEW p \in Pedidos, Reservar(p) PROVE IVolcados'
  <2>1. UNCHANGED <<caso, disco>>
    BY <1>4 DEF Reservar
  <2>. QED
    BY <1>1, <1>4, <2>1, ReservasAlReservar, SinEscribir, MarcadoSigue DEF disco
<1>5. ASSUME NEW p \in Pedidos, guardarBitmap(p) PROVE IVolcados'
  <2>1. UNCHANGED <<caso, bloques, metadata>>
    BY <1>5 DEF guardarBitmap
  <2>. QED
    BY <1>1, <1>5, <2>1, ReservasAlGuardar, SinEscribir, MarcadoSigue
<1>6. ASSUME NEW p \in Pedidos, crearMetadata(p) \/ AnotarMetadata(p) PROVE IVolcados'
  <2>1. /\ pc[p] \in {"crear", "anotar"}
        /\ \E a \in {"anotar", "punteros"} : pc' = [pc EXCEPT ![p] = a]
        /\ UNCHANGED <<caso, bitmap, bloques, locales, respuesta, caidas>>
    BY <1>6 DEF crearMetadata, AnotarMetadata, Va
  <2>2. \A q \in Pedidos : Avanza(q)
    BY <2>1 DEF Tipos, TypeOK, Avanza
  <2>3. AnotaMarcados
    BY <1>6, MetadataMarcada
  <2>4. EscribeEnMarcados
    BY <2>1 DEF EscribeEnMarcados
  <2>. QED
    BY <1>1, <2>1, <2>2, <2>3, <2>4, ReservasAlAvanzar, MarcadoSigue DEF locales
<1>7. ASSUME NEW p \in Pedidos, escribirPunterosEnIndice(p) \/ escribirDatosEnBloques(p)
      PROVE  IVolcados'
  <2>1. UNCHANGED <<caso, bitmap, metadata, pc, copia, indexBlock, bloquesDeDatos, respuesta>>
    BY <1>7 DEF escribirPunterosEnIndice, escribirDatosEnBloques
  <2>2. \A q \in Pedidos : Avanza(q)
    BY <2>1 DEF Avanza
  <2>3. IndicesCaben => EscribeEnMarcados
    BY <1>7, PunterosEnSuBloque, DatosEnSusBloques
  <2>4. AnotaMarcados
    BY <2>1 DEF AnotaMarcados
  <2>. QED
    BY <1>1, <2>1, <2>2, <2>3, <2>4, ReservasAlAvanzar, MarcadoSigue
<1>8. ASSUME NEW p \in Pedidos, FinPunteros(p) PROVE IVolcados'
  <2>1. \A q \in Pedidos : Avanza(q)
    BY <1>8 DEF FinPunteros, Va, Tipos, TypeOK, Avanza
  <2>. QED
    BY <1>1, <1>8, <2>1, ReservasAlAvanzar, SinEscribir, MarcadoSigue DEF FinPunteros, disco
<1>9. CASE Caida
  <2>1. \A q \in Pedidos : Avanza(q)
    BY <1>9 DEF Caida, Avanza
  <2>. QED
    BY <1>1, <1>9, <2>1, ReservasAlAvanzar, SinEscribir, MarcadoSigue
       DEF Caida, disco, locales
<1>10. CASE UNCHANGED vars
  <2>1. \A q \in Pedidos : Avanza(q)
    BY <1>10 DEF vars, Avanza
  <2>. QED
    BY <1>1, <1>10, <2>1, ReservasAlAvanzar, SinEscribir, MarcadoSigue
       DEF vars, disco, locales
<1>. QED
  BY <1>2, <1>3, <1>4, <1>5, <1>6, <1>7, <1>8, <1>9, <1>10 DEF Next, Paso, Terminado

-----------------------------------------------------------------------------
(***************************************************************************)
(* The theorems.                                                           *)
(***************************************************************************)

\* The invariant above holds in every reachable state of the filesystem.
THEOREM DiscoEnPie == Spec => []IVolcados
<1>1. Init => IVolcados
  BY IVolcadosAlEmpezar, PedidosValidos
<1>2. IVolcados /\ [Next]_vars => IVolcados'
  BY IVolcadosSePreserva, PedidosValidos
<1>. QED
  BY <1>1, <1>2, PTL DEF Spec

\* Files, blocks and the locals of every goroutine keep their types.
THEOREM TiposDelDisco == Spec => []TypeOK
<1>1. IVolcados => TypeOK
  BY DEF IVolcados, Tipos
<1>. QED
  BY <1>1, DiscoEnPie, PTL

\* crearArchivoDump: whoever passes the space check gets every block it needs,
\* all different, however many requests run at once.
THEOREM SiempreReservaCompleta == Spec => []ReservaCompleta
<1>1. IVolcados => ReservaCompleta
  BY DEF IVolcados, Reservas
<1>. QED
  BY <1>1, DiscoEnPie, PTL

\* reservarBloque: requests served one at a time never share a block, whatever
\* errors of the disk and crashes cut them short.
THEOREM CadaDumpEnSusBloques == Spec => []SinCompartir
<1>1. IVolcados => SinCompartir
  BY DEF IVolcados, Reservas
<1>. QED
  BY <1>1, DiscoEnPie, PTL

\* crearArchivoDump saves the bitmap before what relies on it: as long as the
\* pointers of a dump fit in its index block, nothing lies in a free block.
THEOREM NadaEnBloquesLibres == Spec => [](IndicesCaben => EscritoMarcado)
<1>1. IVolcados => (IndicesCaben => EscritoMarcado)
  BY DEF IVolcados, MarcadoSiCaben
<1>. QED
  BY <1>1, DiscoEnPie, PTL

-----------------------------------------------------------------------------
(***************************************************************************)
(* What the disk holds, for requests that are served one at a time.        *)
(***************************************************************************)

\* Address m of the block x, and word m of the j-th block of a dump.
Dir(x, m) == x * Block_Size + m
Pos(j, m) == (j - 1) * Block_Size + m

Lugares == 0 .. Block_Size - 1

MetaDe(p) == [index_block |-> indexBlock[p], size |-> Largo[p]]

\* The requests that wrote some word of their dump.
Escribio(p) == \E d \in Direcciones : bloques[d].de = p

\* No other request writes the file of p.
Solo(p) == \A q \in Pedidos : Nombre[q] = Nombre[p] => q = p

\* The requests whose reservation is known to have reached the disk: they count
\* on it, they wrote some word, or the file that only they write is there.
Firmes ==
    {p \in Pedidos : \/ p \in Duenos /\ pc[p] # "guardar"
                     \/ Escribio(p)
                     \/ Nombre[p] \in DOMAIN metadata /\ Solo(p)}

\* What a request took: as many blocks as it needs, all different; block 0,
\* which is what a pointer not written yet says, is never one for data.
LoTomado ==
    \A p \in Pedidos :
        LET r == bloquesDeDatos[p]
        IN  /\ Len(r) \in {0, numBloquesNecesarios(p)}
            /\ p \in Duenos => Len(r) = numBloquesNecesarios(p) /\ Tamano[p] > 0
            /\ \A j, k \in 1 .. Len(r) : r[j] = r[k] => j = k
            /\ \A j \in 1 .. Len(r) : r[j] # indexBlock[p] /\ r[j] # 0

\* No loop has begun yet.
PorEmpezar ==
    \A p \in Pedidos : pc[p] \in {"nuevo", "guardar", "crear", "anotar"} => i[p] = 1

\* Every metadata file was written by a request of its name.
Anotados ==
    \A n \in DOMAIN metadata :
        \E q \in Pedidos : /\ Nombre[q] = n /\ pc[q] \notin {"nuevo", "guardar", "crear"}
                           /\ metadata[n] \in {Vacio, MetaDe(q)}

\* What reached the disk is marked, and of one request only.
Tenencia ==
    \A p \in Firmes :
        /\ BloquesDe(p) \subseteq bitmap
        /\ \A q \in Firmes : p # q => BloquesDe(p) \cap BloquesDe(q) = {}

\* An index block holds pointers of its request, each in its place, and zeros.
Indices ==
    \A p \in Firmes : \A m \in Lugares :
        \/ bloques[Dir(indexBlock[p], m)] = Puntero(0)
        \/ /\ m + 1 <= Len(bloquesDeDatos[p])
           /\ bloques[Dir(indexBlock[p], m)] = Puntero(bloquesDeDatos[p][m + 1])

ConPunteros(p) == pc[p] = "datos" \/ respuesta[p] = "creado" \/ Escribio(p)

PunterosHechos ==
    \A p \in Pedidos : \A j \in 1 .. Len(bloquesDeDatos[p]) :
        ConPunteros(p) \/ (pc[p] = "punteros" /\ j < i[p]) =>
            bloques[Dir(indexBlock[p], j - 1)] = Puntero(bloquesDeDatos[p][j])

\* The j-th data block of p holds the words of its dump that go there.
EnSuLugar(p, j) ==
    \A m \in Lugares : Pos(j, m) < Largo[p] =>
        bloques[Dir(bloquesDeDatos[p][j], m)] = [de |-> p, n |-> Pos(j, m)]

DatosHechos ==
    \A p \in Pedidos : \A j \in 1 .. Len(bloquesDeDatos[p]) :
        respuesta[p] = "creado" \/ (pc[p] = "datos" /\ j < i[p]) => EnSuLugar(p, j)

\* A word of a dump is in a data block of its request, in its place.
DatosPropios ==
    \A d \in Direcciones : bloques[d].de \in Pedidos =>
        LET p == bloques[d].de
        IN  /\ pc[p] \in {"datos", "fin"}
            /\ \E j \in 1 .. Len(bloquesDeDatos[p]), m \in Lugares :
                  /\ d = Dir(bloquesDeDatos[p][j], m)
                  /\ bloques[d] = [de |-> p, n |-> Pos(j, m)]

MetaHecha ==
    \A p \in Pedidos : ConPunteros(p) \/ pc[p] = "punteros" =>
        \/ Nombre[p] \in DOMAIN metadata /\ metadata[Nombre[p]] = MetaDe(p)
        \/ \E q \in Pedidos : ReescritoPor(q, p)

Contenido ==
    /\ Anotados /\ Tenencia /\ Indices /\ PunterosHechos
    /\ DatosHechos /\ DatosPropios /\ MetaHecha

\* What the disk holds, for requests one at a time whose pointers fit.
IDisco == LoTomado /\ PorEmpezar /\ (EnSerie /\ IndicesCaben => Contenido)

-----------------------------------------------------------------------------
(***************************************************************************)
(* Addresses.                                                              *)
(***************************************************************************)

\* A word of a block is a word of the disk, and its block and its place in it
\* can be told from the address.
LEMMA DirEnRango ==
    ASSUME PedidosValidos, NEW x \in TodosLosBloques, NEW m \in Lugares
    PROVE  /\ Dir(x, m) \in Direcciones /\ Dir(x, m) \div Block_Size = x
           /\ Dir(x, m) - x * Block_Size = m
<1>1. /\ x \in Nat /\ x <= Block_Count - 1 /\ Block_Count \in Nat
      /\ Block_Size \in Nat \ {0} /\ m \in 0 .. Block_Size - 1
  BY DEF PedidosValidos, TodosLosBloques, Lugares
<1>2. (Block_Count - 1 - x) * Block_Size >= 0
  BY <1>1
<1>3. x * Block_Size + Block_Size <= Block_Count * Block_Size
  BY <1>1, <1>2
<1>4. x * Block_Size \in Nat /\ Block_Count * Block_Size \in Nat
  BY <1>1
<1>5. Dir(x, m) \in 0 .. Block_Count * Block_Size - 1
  BY <1>1, <1>3, <1>4 DEF Dir
<1>6. Dir(x, m) \div Block_Size = x
  BY <1>1, BloqueDeDireccion DEF Dir
<1>. QED
  BY <1>1, <1>4, <1>5, <1>6 DEF Direcciones, Dir

\* Two different words of the disk have different addresses.
LEMMA DirInyectiva ==
    ASSUME PedidosValidos, NEW x \in TodosLosBloques, NEW y \in TodosLosBloques,
           NEW m \in Lugares, NEW n \in Lugares, Dir(x, m) = Dir(y, n)
    PROVE  x = y /\ m = n
BY DirEnRango

\* Two different places of the data blocks of a dump hold different words of it.
LEMMA PosInyectiva ==
    ASSUME PedidosValidos, NEW j \in Nat \ {0}, NEW k \in Nat \ {0},
           NEW m \in Lugares, NEW n \in Lugares
    PROVE  /\ Pos(j, m) \in Nat
           /\ Pos(j, m) = Pos(k, n) => j = k /\ m = n
<1>1. /\ Block_Size \in Nat \ {0} /\ j - 1 \in Nat /\ k - 1 \in Nat
      /\ m \in 0 .. Block_Size - 1 /\ n \in 0 .. Block_Size - 1
  BY DEF PedidosValidos, Lugares
<1>2. Pos(j, m) \div Block_Size = j - 1 /\ Pos(k, n) \div Block_Size = k - 1
  BY <1>1, BloqueDeDireccion DEF Pos
<1>3. (j - 1) * Block_Size \in Nat /\ (k - 1) * Block_Size \in Nat
  BY <1>1
<1>4. Pos(j, m) \in Nat
  BY <1>1, <1>3 DEF Pos
<1>5. ASSUME Pos(j, m) = Pos(k, n) PROVE j = k /\ m = n
  <2>1. j = k
    BY <1>1, <1>2, <1>5
  <2>. QED
    BY <1>1, <1>3, <1>5, <2>1 DEF Pos
<1>. QED
  BY <1>4, <1>5

\* Every word of a dump has its place.
LEMMA PosDePalabra ==
    ASSUME PedidosValidos, NEW k \in Nat
    PROVE  /\ k \div Block_Size \in Nat /\ k % Block_Size \in Lugares
           /\ k = Pos(k \div Block_Size + 1, k % Block_Size)
<1> DEFINE q == k \div Block_Size
           m == k % Block_Size
<1>1. Block_Size \in Nat \ {0}
  BY DEF PedidosValidos
<1>2. m \in 0 .. Block_Size - 1 /\ q \in Nat
  BY <1>1
<1>3. k = Block_Size * q + m
  BY <1>1
<1> HIDE DEF q, m
<1>4. (q + 1 - 1) * Block_Size = Block_Size * q
  BY <1>1, <1>2
<1>5. k = Pos(q + 1, m)
  <2>1. Pos(q + 1, m) = Block_Size * q + m
    BY <1>1, <1>2, <1>4 DEF Pos
  <2>. QED
    BY <1>3, <2>1, Zenon
<1>6. m \in Lugares
  BY <1>2 DEF Lugares
<1>. QED
  BY <1>2, <1>5, <1>6 DEF q, m

\* The words of the first n blocks of a dump.
LEMMA PosEnBloques ==
    ASSUME PedidosValidos, NEW n \in Nat, NEW j \in 1 .. n, NEW m \in Lugares
    PROVE  Pos(j, m) < n * Block_Size
<1>1. Block_Size \in Nat \ {0} /\ n - j \in Nat /\ m \in Nat /\ m < Block_Size /\ j \in Nat
  BY DEF PedidosValidos, Lugares
<1>2. (n - j) * Block_Size >= 0
  BY <1>1
<1>3. (n - j) * Block_Size = n * Block_Size - j * Block_Size
      /\ (j - 1) * Block_Size = j * Block_Size - Block_Size
      /\ n * Block_Size \in Nat /\ j * Block_Size \in Nat
  BY <1>1
<1>. QED
  BY <1>1, <1>2, <1>3 DEF Pos

\* Word k of a dump is in one of the blocks it takes.
LEMMA BloqueDePalabra ==
    ASSUME PedidosValidos, NEW n \in Nat, NEW k \in Nat, k < n * Block_Size
    PROVE  k \div Block_Size + 1 \in 1 .. n
<1> DEFINE q == k \div Block_Size
<1>1. Block_Size \in Nat \ {0}
  BY DEF PedidosValidos
<1>2. q \in Nat /\ Block_Size * q <= k
  BY <1>1
<1> HIDE DEF q
<1>3. ASSUME n <= q PROVE FALSE
  <2>1. (q - n) * Block_Size >= 0 /\ (q - n) * Block_Size = Block_Size * q - n * Block_Size
    BY <1>1, <1>2, <1>3
  <2>. QED
    BY <1>1, <1>2, <2>1
<1>. QED
  BY <1>2, <1>3 DEF q

\* What the clients ask for never changes.
LEMMA CasoFijo ==
    ASSUME [Next]_vars
    PROVE  caso' = caso
BY DEF Next, Paso, ParametrosIncompletos, SinEspacio, Reservar, ReservarSinLogger,
   guardarBitmap, crearMetadata, AnotarMetadata, escribirPunterosEnIndice, FinPunteros,
   escribirDatosEnBloques, InicioFueraDeRango, ArchivoCreado, ErrorDeDisco, Caida, Terminado, vars

-----------------------------------------------------------------------------
(***************************************************************************)
(* What a write does.                                                      *)
(***************************************************************************)

\* The blocks of a request are blocks of the disk.
LEMMA SusBloques ==
    ASSUME Tipos, NEW p \in Pedidos
    PROVE  /\ indexBlock[p] \in TodosLosBloques /\ indexBlock[p] \in BloquesDe(p)
           /\ Len(bloquesDeDatos[p]) \in Nat
           /\ \A j \in 1 .. Len(bloquesDeDatos[p]) :
                 /\ bloquesDeDatos[p][j] \in TodosLosBloques
                 /\ bloquesDeDatos[p][j] \in BloquesDe(p)
<1>1. bloquesDeDatos[p] \in Seq(TodosLosBloques)
  BY DEF Tipos
<1>. QED
  BY <1>1, BloquesDeTipos DEF Tipos, TypeOK

\* A pointer goes to its place of the index block and nothing else changes.
LEMMA EfectoPunteros ==
    ASSUME PedidosValidos, Tipos, NEW p \in Pedidos, escribirPunterosEnIndice(p),
           Len(bloquesDeDatos[p]) <= Block_Size
    PROVE  /\ i[p] \in 1 .. Len(bloquesDeDatos[p]) /\ i[p] - 1 \in Lugares
           /\ bloques'[Dir(indexBlock[p], i[p] - 1)] = Puntero(bloquesDeDatos[p][i[p]])
           /\ \A d \in Direcciones : d # Dir(indexBlock[p], i[p] - 1) => bloques'[d] = bloques[d]
<1>1. i[p] \in 1 .. Len(bloquesDeDatos[p])
  BY DEF escribirPunterosEnIndice, quedanBloques, Tipos, TypeOK
<1>2. Block_Size \in Nat \ {0} /\ Len(bloquesDeDatos[p]) \in Nat
  BY SusBloques DEF PedidosValidos
<1>3. i[p] - 1 \in Lugares
  BY <1>1, <1>2 DEF Lugares
<1>4. Dir(indexBlock[p], i[p] - 1) \in Direcciones
  BY <1>3, SusBloques, DirEnRango
<1>5. indexBlock[p] * Block_Size + i[p] - 1 = Dir(indexBlock[p], i[p] - 1)
  <2>1. indexBlock[p] \in Nat
    BY SusBloques DEF TodosLosBloques
  <2>2. indexBlock[p] * Block_Size \in Nat
    BY <1>2, <2>1
  <2>. QED
    BY <1>1, <2>2 DEF Dir
<1>6. bloques' = [bloques EXCEPT ![Dir(indexBlock[p], i[p] - 1)] =
                     Puntero(bloquesDeDatos[p][i[p]])]
  BY <1>5 DEF escribirPunterosEnIndice
<1>. QED
  BY <1>1, <1>3, <1>4, <1>6 DEF Tipos, TypeOK

\* A data block gets the words of the dump that go there, nothing else changes.
LEMMA EfectoDatos ==
    ASSUME PedidosValidos, Tipos, NEW p \in Pedidos, escribirDatosEnBloques(p)
    PROVE  LET x == bloquesDeDatos[p][i[p]]
           IN  /\ i[p] \in 1 .. Len(bloquesDeDatos[p])
               /\ \A m \in Lugares :
                     bloques'[Dir(x, m)] = IF Pos(i[p], m) < Largo[p]
                                           THEN [de |-> p, n |-> Pos(i[p], m)]
                                           ELSE bloques[Dir(x, m)]
               /\ \A d \in Direcciones :
                     (\A m \in Lugares : d # Dir(x, m)) => bloques'[d] = bloques[d]
<1> DEFINE x == bloquesDeDatos[p][i[p]]
           W(d) == LET n == d - x * Block_Size
                   IN  IF n \in 0 .. Block_Size - 1 /\ desde(p) + n < Largo[p]
                       THEN [de |-> p, n |-> desde(p) + n] ELSE bloques[d]
<1>1. i[p] \in 1 .. Len(bloquesDeDatos[p])
  BY DEF escribirDatosEnBloques, quedanBloques, Tipos, TypeOK
<1>2. x \in TodosLosBloques
  BY <1>1, SusBloques
<1>3. \A d \in Direcciones : bloques'[d] = W(d)
  BY DEF escribirDatosEnBloques
<1>4. x \in Nat /\ Block_Size \in Nat \ {0} /\ x * Block_Size \in Nat
  <2>1. x \in Nat /\ Block_Size \in Nat \ {0}
    BY <1>2 DEF TodosLosBloques, PedidosValidos
  <2> HIDE DEF x
  <2>. QED
    BY <2>1
<1> HIDE DEF x
<1>5. ASSUME NEW m \in Lugares
      PROVE  bloques'[Dir(x, m)] = IF Pos(i[p], m) < Largo[p]
                                   THEN [de |-> p, n |-> Pos(i[p], m)]
                                   ELSE bloques[Dir(x, m)]
  <2>1. Dir(x, m) \in Direcciones /\ Dir(x, m) - x * Block_Size = m
    BY <1>2, DirEnRango
  <2>2. desde(p) + m = Pos(i[p], m)
    BY DEF desde, Pos
  <2>. QED
    BY <1>3, <2>1, <2>2 DEF Lugares
<1>6. ASSUME NEW d \in Direcciones, \A m \in Lugares : d # Dir(x, m)
      PROVE  bloques'[d] = bloques[d]
  <2>1. d \in Int
    BY DEF Direcciones
  <2>2. d = Dir(x, d - x * Block_Size)
    BY <1>4, <2>1 DEF Dir
  <2>3. d - x * Block_Size \notin 0 .. Block_Size - 1
    BY <1>6, <2>2 DEF Lugares
  <2>. QED
    BY <1>3, <2>3
<1>. QED
  BY <1>1, <1>5, <1>6 DEF x

-----------------------------------------------------------------------------
(***************************************************************************)
(* Who holds blocks.                                                       *)
(***************************************************************************)

\* Whoever went past guardarBitmap, and whoever wrote, has its blocks marked.
LEMMA EsFirme ==
    ASSUME Contestados, NEW p \in Pedidos,
           ConPunteros(p) \/ pc[p] \in {"crear", "anotar", "punteros", "datos"}
    PROVE  p \in Firmes
BY DEF Contestados, Firmes, Duenos, enCurso, ConPunteros

\* Two requests that hold blocks have no address in common.
LEMMA Ajenos ==
    ASSUME PedidosValidos, Tipos, Tenencia, NEW p \in Firmes, NEW q \in Firmes, p # q,
           NEW x \in BloquesDe(p), NEW y \in BloquesDe(q), NEW m \in Lugares, NEW n \in Lugares
    PROVE  Dir(x, m) # Dir(y, n)
<1>1. p \in Pedidos /\ q \in Pedidos
  BY DEF Firmes
<1>2. x \in TodosLosBloques /\ y \in TodosLosBloques
  BY <1>1, BloquesDeTipos
<1>3. x # y
  BY DEF Tenencia
<1>. QED
  BY <1>2, <1>3, DirInyectiva

\* Nor have two blocks of one request.
LEMMA Propios ==
    ASSUME PedidosValidos, Tipos, LoTomado, NEW p \in Pedidos,
           NEW j \in 1 .. Len(bloquesDeDatos[p]), NEW m \in Lugares, NEW n \in Lugares
    PROVE  /\ Dir(indexBlock[p], m) # Dir(bloquesDeDatos[p][j], n)
           /\ \A k \in 1 .. Len(bloquesDeDatos[p]) :
                 k # j => Dir(bloquesDeDatos[p][j], m) # Dir(bloquesDeDatos[p][k], n)
<1>1. /\ indexBlock[p] \in TodosLosBloques
      /\ \A k \in 1 .. Len(bloquesDeDatos[p]) : bloquesDeDatos[p][k] \in TodosLosBloques
  BY SusBloques
<1>2. /\ indexBlock[p] # bloquesDeDatos[p][j]
      /\ \A k \in 1 .. Len(bloquesDeDatos[p]) :
            k # j => bloquesDeDatos[p][j] # bloquesDeDatos[p][k]
  BY DEF LoTomado
<1>. QED
  BY <1>1, <1>2, DirInyectiva

\* A step that only advances makes no owner, and none that has its bitmap to save.
LEMMA DuenosAlAvanzar ==
    ASSUME Contestados, \A q \in Pedidos : Avanza(q)
    PROVE  /\ Duenos' \subseteq Duenos
           /\ \A q \in Duenos' : pc'[q] = "guardar" <=> pc[q] = "guardar"
<1>1. Duenos' \subseteq Duenos
  BY DEF Duenos, enCurso, Avanza
<1>2. \A q \in Duenos' : pc'[q] = "guardar" <=> pc[q] = "guardar"
  BY DEF Duenos, enCurso, Avanza
<1>. QED
  BY <1>1, <1>2

\* Whoever holds blocks after a step that saves no bitmap held them before it.
LEMMA FirmesDeAntes ==
    ASSUME Contestados, \A q \in Pedidos : Avanza(q), UNCHANGED caso,
           \A q \in Pedidos : Escribio(q)' => Escribio(q) \/ q \in Firmes,
           \A n \in DOMAIN metadata' :
              n \in DOMAIN metadata \/ \E r \in Firmes : Nombre[r] = n
    PROVE  Firmes' \subseteq Firmes
<1>1. SUFFICES ASSUME NEW q \in Pedidos, q \in Firmes' PROVE q \in Firmes
  BY DEF Firmes
<1>2. CASE q \in Duenos' /\ pc'[q] # "guardar"
  BY <1>2, DuenosAlAvanzar DEF Firmes
<1>3. CASE Escribio(q)'
  BY <1>3 DEF Firmes
<1>4. CASE Nombre'[q] \in DOMAIN metadata' /\ Solo(q)'
  <2>1. Nombre' = Nombre /\ (Solo(q)' <=> Solo(q))
    BY DEF Nombre, Solo
  <2>2. CASE Nombre[q] \in DOMAIN metadata
    BY <1>4, <2>1, <2>2 DEF Firmes
  <2>3. CASE \E r \in Firmes : Nombre[r] = Nombre[q]
    BY <1>4, <2>1, <2>3 DEF Firmes, Solo
  <2>. QED
    BY <1>4, <2>1, <2>2, <2>3
<1>. QED
  BY <1>1, <1>2, <1>3, <1>4 DEF Firmes

\* What reached the disk stays marked while the bitmap and what each took do.
LEMMA TenenciaSigue ==
    ASSUME Tenencia, Firmes' \subseteq Firmes,
           UNCHANGED <<bitmap, indexBlock, bloquesDeDatos>>
    PROVE  Tenencia'
BY DEF Tenencia, BloquesDe

-----------------------------------------------------------------------------
(***************************************************************************)
(* Steps that leave a file alone.                                          *)
(***************************************************************************)

\* Who wrote words is told by bloques.dat alone.
LEMMA EscribioIgual ==
    ASSUME UNCHANGED bloques, NEW p
    PROVE  Escribio(p)' <=> Escribio(p)
BY DEF Escribio

\* Steps that do not write bloques.dat: who has the pointers had them, or had
\* written them all; who has the data had it, or had written it all.
LEMMA BloquesQuietos ==
    ASSUME UNCHANGED <<caso, bloques, indexBlock, bloquesDeDatos>>,
           Firmes' \subseteq Firmes, Indices, PunterosHechos, DatosHechos, DatosPropios,
           \A q \in Pedidos :
              /\ pc[q] \in {"datos", "fin"} => pc'[q] \in {"datos", "fin"}
              /\ \A j \in 1 .. Len(bloquesDeDatos[q]) :
                    /\ \/ pc'[q] = "datos" \/ respuesta'[q] = "creado"
                       \/ pc'[q] = "punteros" /\ j < i'[q]
                       => ConPunteros(q) \/ (pc[q] = "punteros" /\ j < i[q])
                    /\ respuesta'[q] = "creado" \/ (pc'[q] = "datos" /\ j < i'[q])
                       => respuesta[q] = "creado" \/ (pc[q] = "datos" /\ j < i[q])
    PROVE  Indices' /\ PunterosHechos' /\ DatosHechos' /\ DatosPropios'
<1>1. \A q : Escribio(q)' <=> Escribio(q)
  BY EscribioIgual
<1>2. \A x, m : Dir(x, m)' = Dir(x, m)
  BY DEF Dir
<1>3. Indices'
  BY DEF Indices, Dir, Puntero
<1>4. PunterosHechos'
  <2>1. SUFFICES ASSUME NEW q \in Pedidos, NEW j \in 1 .. Len(bloquesDeDatos[q]),
                        ConPunteros(q)' \/ (pc'[q] = "punteros" /\ j < i'[q])
                 PROVE  bloques[Dir(indexBlock[q], j - 1)] = Puntero(bloquesDeDatos[q][j])
    BY DEF PunterosHechos, Dir, Puntero
  <2>2. ConPunteros(q) \/ (pc[q] = "punteros" /\ j < i[q])
    BY <1>1, <2>1 DEF ConPunteros
  <2>. QED
    BY <2>2 DEF PunterosHechos
<1>5. DatosHechos'
  <2>1. SUFFICES ASSUME NEW q \in Pedidos, NEW j \in 1 .. Len(bloquesDeDatos[q]),
                        respuesta'[q] = "creado" \/ (pc'[q] = "datos" /\ j < i'[q])
                 PROVE  EnSuLugar(q, j)'
    BY DEF DatosHechos
  <2>2. EnSuLugar(q, j)
    BY <2>1 DEF DatosHechos
  <2>. QED
    BY <2>2 DEF EnSuLugar, Dir, Pos, Largo
<1>6. DatosPropios'
  <2>1. SUFFICES ASSUME NEW d \in Direcciones, bloques[d].de \in Pedidos
                 PROVE  LET p == bloques[d].de
                        IN  /\ pc'[p] \in {"datos", "fin"}
                            /\ \E j \in 1 .. Len(bloquesDeDatos[p]), m \in Lugares :
                                  /\ d = Dir(bloquesDeDatos[p][j], m)
                                  /\ bloques[d] = [de |-> p, n |-> Pos(j, m)]
    BY DEF DatosPropios, Dir, Pos
  <2>. QED
    BY <2>1 DEF DatosPropios
<1>. QED
  BY <1>3, <1>4, <1>5, <1>6

Inicial == {"nuevo", "guardar", "crear"}

\* Steps that write no metadata file.
LEMMA MetadataQuieta ==
    ASSUME UNCHANGED <<caso, metadata, indexBlock>>, Anotados, MetaHecha,
           \A q \in Pedidos :
              /\ pc[q] \notin Inicial => pc'[q] \notin Inicial
              /\ ConPunteros(q)' \/ pc'[q] = "punteros" => ConPunteros(q) \/ pc[q] = "punteros"
    PROVE  Anotados' /\ MetaHecha'
<1>1. Nombre' = Nombre /\ \A p : MetaDe(p)' = MetaDe(p)
  BY DEF Nombre, MetaDe, Largo
<1>2. \A p, q \in Pedidos : ReescritoPor(q, p) => ReescritoPor(q, p)'
  BY <1>1 DEF ReescritoPor, Inicial
<1>3. Anotados'
  BY <1>1 DEF Anotados, Inicial, Vacio
<1>4. MetaHecha'
  BY <1>1, <1>2 DEF MetaHecha
<1>. QED
  BY <1>3, <1>4

-----------------------------------------------------------------------------
(***************************************************************************)
(* Each step keeps what the disk holds.                                    *)
(***************************************************************************)

\* An answer, an error or a crash ends requests and writes nothing.
LEMMA ContenidoAlTerminar ==
    ASSUME PedidosValidos, IVolcados, Contenido,
           UNCHANGED <<caso, disco, indexBlock, bloquesDeDatos, i>>,
           \A q \in Pedidos : \/ pc'[q] = pc[q] /\ respuesta'[q] = respuesta[q]
                              \/ pc'[q] = "fin" /\ respuesta'[q] # "creado"
    PROVE  Contenido'
<1>1. /\ UNCHANGED <<bitmap, bloques, metadata>>
      /\ \A q \in Pedidos : Avanza(q)
  BY DEF disco, Avanza
<1>2. Firmes' \subseteq Firmes
  BY <1>1, EscribioIgual, FirmesDeAntes DEF IVolcados
<1>3. Tenencia'
  BY <1>1, <1>2, TenenciaSigue DEF Contenido
<1>4. Indices' /\ PunterosHechos' /\ DatosHechos' /\ DatosPropios'
  BY <1>1, <1>2, BloquesQuietos DEF Contenido, ConPunteros
<1>5. Anotados' /\ MetaHecha'
  BY <1>1, EscribioIgual, MetadataQuieta DEF Contenido, ConPunteros, Inicial
<1>. QED
  BY <1>3, <1>4, <1>5 DEF Contenido

\* The answer "creado" comes after the last data block was written.
LEMMA ContenidoAlCrear ==
    ASSUME PedidosValidos, IVolcados, Contenido, NEW p \in Pedidos, ArchivoCreado(p)
    PROVE  Contenido'
<1>1. /\ pc[p] = "datos" /\ pc' = [pc EXCEPT ![p] = "fin"] /\ ~quedanBloques(p)
      /\ respuesta' = [respuesta EXCEPT ![p] = "creado"]
      /\ UNCHANGED <<caso, bitmap, bloques, metadata, copia, indexBlock, bloquesDeDatos, i>>
  BY DEF ArchivoCreado, Va, Contesta, disco, locales
<1>2. /\ pc'[p] = "fin" /\ respuesta'[p] = "creado"
      /\ \A q \in Pedidos \ {p} : pc'[q] = pc[q] /\ respuesta'[q] = respuesta[q]
  BY <1>1 DEF IVolcados, Tipos, TypeOK
<1>3. \A q \in Pedidos : Avanza(q)
  BY <1>1, <1>2 DEF Avanza
<1>4. Firmes' \subseteq Firmes
  BY <1>1, <1>3, EscribioIgual, FirmesDeAntes DEF IVolcados
<1>5. Tenencia'
  BY <1>1, <1>4, TenenciaSigue DEF Contenido
<1>6. \A j \in 1 .. Len(bloquesDeDatos[p]) : j < i[p]
  <2>1. Len(bloquesDeDatos[p]) \in Nat /\ i[p] \in Nat
    BY SusBloques DEF IVolcados, Tipos, TypeOK
  <2>. QED
    BY <1>1, <2>1 DEF quedanBloques
<1>7. Indices' /\ PunterosHechos' /\ DatosHechos' /\ DatosPropios'
  BY <1>1, <1>2, <1>4, <1>6, BloquesQuietos DEF Contenido, ConPunteros
<1>8. Anotados' /\ MetaHecha'
  BY <1>1, <1>2, EscribioIgual, MetadataQuieta DEF Contenido, ConPunteros, Inicial
<1>. QED
  BY <1>5, <1>7, <1>8 DEF Contenido

\* The loop of the pointers ends when each of them is in its place.
LEMMA ContenidoAlPasarADatos ==
    ASSUME PedidosValidos, IVolcados, Contenido, NEW p \in Pedidos, FinPunteros(p)
    PROVE  Contenido'
<1>1. /\ pc[p] = "punteros" /\ pc' = [pc EXCEPT ![p] = "datos"] /\ ~quedanBloques(p)
      /\ i' = [i EXCEPT ![p] = 1]
      /\ UNCHANGED <<caso, bitmap, bloques, metadata, copia, indexBlock, bloquesDeDatos, respuesta>>
  BY DEF FinPunteros, Va, disco
<1>2. /\ pc'[p] = "datos" /\ i'[p] = 1
      /\ \A q \in Pedidos \ {p} : pc'[q] = pc[q] /\ i'[q] = i[q]
  BY <1>1 DEF IVolcados, Tipos, TypeOK
<1>3. \A q \in Pedidos : Avanza(q)
  BY <1>1, <1>2 DEF Avanza
<1>4. Firmes' \subseteq Firmes
  BY <1>1, <1>3, EscribioIgual, FirmesDeAntes DEF IVolcados
<1>5. Tenencia'
  BY <1>1, <1>4, TenenciaSigue DEF Contenido
<1>6. \A j \in 1 .. Len(bloquesDeDatos[p]) : j < i[p] /\ ~(j < i'[p])
  <2>1. Len(bloquesDeDatos[p]) \in Nat /\ i[p] \in Nat
    BY SusBloques DEF IVolcados, Tipos, TypeOK
  <2>. QED
    BY <1>1, <1>2, <2>1 DEF quedanBloques
<1>7. Indices' /\ PunterosHechos' /\ DatosHechos' /\ DatosPropios'
  BY <1>1, <1>2, <1>4, <1>6, BloquesQuietos DEF Contenido, ConPunteros
<1>8. Anotados' /\ MetaHecha'
  BY <1>1, <1>2, EscribioIgual, MetadataQuieta DEF Contenido, ConPunteros, Inicial
<1>. QED
  BY <1>5, <1>7, <1>8 DEF Contenido

\* A request that has not begun to write its dump has no word of it on disk.
LEMMA NoEscribio ==
    ASSUME DatosPropios, NEW p \in Pedidos, pc[p] \notin {"datos", "fin"}
    PROVE  ~Escribio(p)
BY DEF DatosPropios, Escribio

\* The metadata file is truncated, then written: both only touch the file of a
\* request that no other request shares in series, unless it takes its name.
LEMMA ContenidoAlAnotar ==
    ASSUME PedidosValidos, IVolcados, PorEmpezar, Contenido, NEW p \in Pedidos,
           crearMetadata(p) \/ AnotarMetadata(p)
    PROVE  Contenido'
<1>1. /\ pc[p] \in {"crear", "anotar"}
      /\ UNCHANGED <<caso, bitmap, bloques, copia, indexBlock, bloquesDeDatos, i, respuesta>>
      /\ \/ /\ pc' = [pc EXCEPT ![p] = "anotar"]
            /\ metadata' = ConMeta(Nombre[p], Vacio)
         \/ /\ pc' = [pc EXCEPT ![p] = "punteros"]
            /\ metadata' = ConMeta(Nombre[p], MetaDe(p))
  BY DEF crearMetadata, AnotarMetadata, Va, locales, MetaDe
<1>2. /\ pc'[p] \in {"anotar", "punteros"}
      /\ \A q \in Pedidos \ {p} : pc'[q] = pc[q]
  BY <1>1 DEF IVolcados, Tipos, TypeOK
<1>3. \A q \in Pedidos : Avanza(q)
  BY <1>1, <1>2 DEF Avanza
<1>4. p \in Firmes
  BY <1>1, EsFirme DEF IVolcados
<1>5. /\ DOMAIN metadata' = DOMAIN metadata \cup {Nombre[p]}
      /\ \A n \in DOMAIN metadata \ {Nombre[p]} : metadata'[n] = metadata[n]
      /\ metadata'[Nombre[p]] \in {Vacio, MetaDe(p)}
      /\ pc'[p] = "punteros" => metadata'[Nombre[p]] = MetaDe(p)
  BY <1>1 DEF ConMeta, IVolcados, Tipos, TypeOK
<1>6. Firmes' \subseteq Firmes
  <2>1. \A n \in DOMAIN metadata' : n \in DOMAIN metadata \/ \E r \in Firmes : Nombre[r] = n
    BY <1>4, <1>5
  <2>2. \A q \in Pedidos : Escribio(q)' => Escribio(q) \/ q \in Firmes
    BY <1>1, EscribioIgual
  <2>. QED
    BY <1>1, <1>3, <2>1, <2>2, FirmesDeAntes DEF IVolcados
<1>7. Tenencia'
  BY <1>1, <1>6, TenenciaSigue DEF Contenido
<1>8. ~Escribio(p) /\ ~Escribio(p)' /\ respuesta[p] # "creado"
  BY <1>1, NoEscribio, EscribioIgual DEF Contenido, IVolcados, Contestados
<1>9. \A j \in 1 .. Len(bloquesDeDatos[p]) : ~(j < i[p])
  BY <1>1 DEF PorEmpezar
<1>10. Indices' /\ PunterosHechos' /\ DatosHechos' /\ DatosPropios'
  BY <1>1, <1>2, <1>6, <1>8, <1>9, BloquesQuietos DEF Contenido, ConPunteros
<1>11. /\ Nombre' = Nombre /\ Vacio' = Vacio
       /\ \A q : MetaDe(q)' = MetaDe(q)
  BY <1>1 DEF Nombre, MetaDe, Largo, Vacio
<1>12. Anotados'
  <2>1. SUFFICES ASSUME NEW n \in DOMAIN metadata'
                 PROVE  \E q \in Pedidos : /\ Nombre[q] = n
                                           /\ pc'[q] \notin {"nuevo", "guardar", "crear"}
                                           /\ metadata'[n] \in {Vacio, MetaDe(q)}
    BY <1>11 DEF Anotados
  <2>2. CASE n = Nombre[p]
    BY <1>2, <1>5, <2>2
  <2>3. CASE n # Nombre[p]
    BY <1>1, <1>2, <1>5, <2>3 DEF Contenido, Anotados
  <2>. QED
    BY <2>2, <2>3
<1>13. MetaHecha'
  <2>1. SUFFICES ASSUME NEW r \in Pedidos, ConPunteros(r)' \/ pc'[r] = "punteros"
                 PROVE  \/ Nombre[r] \in DOMAIN metadata' /\ metadata'[Nombre[r]] = MetaDe(r)
                        \/ \E q \in Pedidos : ReescritoPor(q, r)'
    BY <1>11 DEF MetaHecha
  <2>2. CASE r = p
    BY <1>1, <1>2, <1>5, <1>8, <2>1, <2>2 DEF ConPunteros
  <2>3. CASE r # p /\ Nombre[r] = Nombre[p]
    BY <1>2, <1>11, <2>3 DEF ReescritoPor
  <2>4. CASE r # p /\ Nombre[r] # Nombre[p]
    <3>1. ConPunteros(r) \/ pc[r] = "punteros"
      BY <1>1, <1>2, <2>1, <2>4, EscribioIgual DEF ConPunteros
    <3>2. \/ Nombre[r] \in DOMAIN metadata /\ metadata[Nombre[r]] = MetaDe(r)
          \/ \E q \in Pedidos : ReescritoPor(q, r)
      BY <3>1 DEF Contenido, MetaHecha
    <3>3. \A q \in Pedidos : ReescritoPor(q, r) => ReescritoPor(q, r)'
      BY <1>1, <1>2, <1>11 DEF ReescritoPor
    <3>. QED
      BY <1>5, <2>4, <3>2, <3>3
  <2>. QED
    BY <2>2, <2>3, <2>4
<1>. QED
  BY <1>7, <1>10, <1>12, <1>13 DEF Contenido

\* The bitmap reaches the disk: the blocks of p, which were free and so hold
\* nothing, are marked as its own.
LEMMA ContenidoAlGuardar ==
    ASSUME PedidosValidos, IVolcados, LoTomado, PorEmpezar, EnSerie, IndicesCaben, Contenido,
           NEW p \in Pedidos, guardarBitmap(p)
    PROVE  Contenido'
<1>1. /\ pc[p] = "guardar" /\ pc' = [pc EXCEPT ![p] = "crear"]
      /\ UNCHANGED <<caso, bloques, metadata, copia, indexBlock, bloquesDeDatos, i, respuesta>>
  BY DEF guardarBitmap, Va, locales
<1>2. pc'[p] = "crear" /\ \A q \in Pedidos \ {p} : pc'[q] = pc[q]
  BY <1>1 DEF IVolcados, Tipos, TypeOK
<1>3. p \in Duenos
  BY <1>1 DEF Duenos, enCurso
<1>4. /\ bitmap' = bitmap \cup BloquesDe(p)
      /\ BloquesDe(p) \cap bitmap = {}
  BY <1>1, <1>3 DEF guardarBitmap, IVolcados, Reservas, Marcados
<1>5. \A q : Escribio(q)' <=> Escribio(q)
  BY <1>1, EscribioIgual
<1>6. \A q \in Pedidos \ {p} : q \in Firmes' <=> q \in Firmes
  BY <1>1, <1>2, <1>5 DEF Firmes, Duenos, enCurso, Solo, Nombre
<1>7. \A q : BloquesDe(q)' = BloquesDe(q)
  BY <1>1 DEF BloquesDe
<1>8. Tenencia'
  <2>1. \A q \in Firmes' : q = p \/ q \in Firmes
    BY <1>6 DEF Firmes
  <2>2. \A q \in Firmes' : BloquesDe(q) \subseteq bitmap'
    BY <1>4, <2>1 DEF Contenido, Tenencia
  <2>3. ASSUME NEW q \in Firmes', NEW r \in Firmes', q # r
        PROVE  BloquesDe(q) \cap BloquesDe(r) = {}
    BY <1>4, <2>1, <2>3 DEF Contenido, Tenencia
  <2>. QED
    BY <1>7, <2>2, <2>3 DEF Tenencia
<1>9. Indices'
  <2>1. SUFFICES ASSUME NEW q \in Firmes', NEW m \in Lugares
                 PROVE  \/ bloques[Dir(indexBlock[q], m)] = Puntero(0)
                        \/ /\ m + 1 <= Len(bloquesDeDatos[q])
                           /\ bloques[Dir(indexBlock[q], m)] = Puntero(bloquesDeDatos[q][m + 1])
    BY <1>1 DEF Indices, Dir, Puntero
  <2>2. CASE q = p
    <3>1. indexBlock[p] \in TodosLosBloques /\ indexBlock[p] \notin bitmap
      BY <1>4, SusBloques DEF IVolcados
    <3>2. /\ Dir(indexBlock[p], m) \in Direcciones
          /\ Dir(indexBlock[p], m) \div Block_Size = indexBlock[p]
      BY <3>1, DirEnRango
    <3>. QED
      BY <2>2, <3>1, <3>2 DEF IVolcados, MarcadoSiCaben, EscritoMarcado
  <2>3. CASE q # p
    <3>1. q \in Firmes
      BY <1>6, <2>3 DEF Firmes
    <3>. QED
      BY <3>1 DEF Contenido, Indices
  <2>. QED
    BY <2>2, <2>3
<1>10. \A q \in Pedidos : Avanza(q) \/ q = p
  BY <1>1, <1>2 DEF Avanza
<1>11. PunterosHechos' /\ DatosHechos' /\ DatosPropios'
  <2>1. PunterosHechos'
    <3>1. SUFFICES ASSUME NEW q \in Pedidos, NEW j \in 1 .. Len(bloquesDeDatos[q]),
                          ConPunteros(q)' \/ (pc'[q] = "punteros" /\ j < i[q])
                   PROVE  bloques[Dir(indexBlock[q], j - 1)] = Puntero(bloquesDeDatos[q][j])
      BY <1>1 DEF PunterosHechos, Dir, Puntero
    <3>2. ConPunteros(q) \/ (pc[q] = "punteros" /\ j < i[q])
      BY <1>1, <1>2, <1>5, <3>1 DEF ConPunteros
    <3>. QED
      BY <3>2 DEF Contenido, PunterosHechos
  <2>2. DatosHechos'
    BY <1>1, <1>2 DEF Contenido, DatosHechos, EnSuLugar, Dir, Pos, Largo
  <2>3. DatosPropios'
    BY <1>1, <1>2 DEF Contenido, DatosPropios, Dir, Pos
  <2>. QED
    BY <2>1, <2>2, <2>3
<1>12. Anotados' /\ MetaHecha'
  BY <1>1, <1>2, <1>5, MetadataQuieta DEF Contenido, ConPunteros, Inicial
<1>. QED
  BY <1>8, <1>9, <1>11, <1>12 DEF Contenido

\* The request that takes blocks has written nothing, and nobody wrote a file
\* that only it writes.
LEMMA NoEsFirme ==
    ASSUME Contestados, Anotados, DatosPropios, NEW p \in Pedidos, pc[p] = "nuevo"
    PROVE  p \notin Firmes /\ ~ConPunteros(p) /\ ~Escribio(p)
<1>1. ~Escribio(p)
  BY NoEscribio
<1>2. respuesta[p] # "creado" /\ p \notin enCurso
  BY DEF Contestados, enCurso
<1>3. ~(Nombre[p] \in DOMAIN metadata /\ Solo(p))
  BY DEF Anotados, Solo
<1>. QED
  BY <1>1, <1>2, <1>3 DEF Firmes, Duenos, ConPunteros

\* A reservation changes what one request plans and nothing on the disk.
LEMMA ContenidoAlReservar ==
    ASSUME PedidosValidos, IVolcados, Contenido, NEW p \in Pedidos, Reservar(p)
    PROVE  Contenido'
<1>1. /\ pc[p] = "nuevo" /\ pc' = [pc EXCEPT ![p] = "guardar"]
      /\ UNCHANGED <<caso, bitmap, bloques, metadata, i, respuesta>>
      /\ \E x : indexBlock' = [indexBlock EXCEPT ![p] = x]
      /\ \E x : bloquesDeDatos' = [bloquesDeDatos EXCEPT ![p] = x]
  BY DEF Reservar, Va, disco
<1>2. /\ pc'[p] = "guardar"
      /\ \A q \in Pedidos \ {p} : /\ pc'[q] = pc[q]
                                  /\ indexBlock'[q] = indexBlock[q]
                                  /\ bloquesDeDatos'[q] = bloquesDeDatos[q]
  BY <1>1 DEF IVolcados, Tipos, TypeOK
<1>3. p \notin Firmes /\ ~ConPunteros(p) /\ ~Escribio(p)
  BY <1>1, NoEsFirme DEF Contenido, IVolcados
<1>4. \A q : Escribio(q)' <=> Escribio(q)
  BY <1>1, EscribioIgual
<1>5. Nombre' = Nombre /\ \A q : Solo(q)' <=> Solo(q)
  BY <1>1 DEF Nombre, Solo
<1>6. Firmes' = Firmes
  <2>1. p \notin Firmes'
    BY <1>1, <1>2, <1>3, <1>4, <1>5 DEF Firmes, Duenos, ConPunteros
  <2>2. \A q \in Pedidos \ {p} : q \in Firmes' <=> q \in Firmes
    BY <1>1, <1>2, <1>4, <1>5 DEF Firmes, Duenos, enCurso
  <2>. QED
    BY <1>3, <2>1, <2>2 DEF Firmes
<1>7. \A q \in Firmes : q \in Pedidos \ {p}
  BY <1>3 DEF Firmes
<1>8. Tenencia'
  <2>1. \A q \in Firmes : BloquesDe(q)' = BloquesDe(q)
    BY <1>2, <1>7 DEF BloquesDe
  <2>. QED
    BY <1>1, <1>6, <2>1 DEF Contenido, Tenencia
<1>9. Indices'
  BY <1>1, <1>2, <1>6, <1>7 DEF Contenido, Indices, Dir, Puntero
<1>10. \A q \in Pedidos : ConPunteros(q)' \/ pc'[q] \in {"punteros", "datos"} \/ respuesta'[q] = "creado"
                          => q # p /\ pc'[q] = pc[q] /\ (ConPunteros(q)' <=> ConPunteros(q))
  BY <1>1, <1>2, <1>3, <1>4 DEF ConPunteros
<1>11. PunterosHechos'
  BY <1>1, <1>2, <1>10 DEF Contenido, PunterosHechos, Dir, Puntero
<1>12. DatosHechos'
  BY <1>1, <1>2, <1>10 DEF Contenido, DatosHechos, EnSuLugar, Dir, Pos, Largo
<1>13. DatosPropios'
  <2>1. SUFFICES ASSUME NEW d \in Direcciones, bloques'[d].de \in Pedidos
                 PROVE  LET q == bloques'[d].de
                        IN  /\ pc'[q] \in {"datos", "fin"}
                            /\ \E j \in 1 .. Len(bloquesDeDatos'[q]), m \in Lugares :
                                  /\ d = Dir(bloquesDeDatos'[q][j], m)
                                  /\ bloques'[d] = [de |-> q, n |-> Pos(j, m)]
    BY DEF DatosPropios, Dir, Pos
  <2> DEFINE q == bloques[d].de
  <2>2. bloques'[d].de = q /\ q \in Pedidos /\ q # p
    BY <1>1, <1>3, <2>1 DEF Escribio
  <2>3. pc'[q] = pc[q] /\ bloquesDeDatos'[q] = bloquesDeDatos[q]
    BY <1>2, <2>2
  <2>4. /\ pc[q] \in {"datos", "fin"}
        /\ \E j \in 1 .. Len(bloquesDeDatos[q]), m \in Lugares :
              /\ d = Dir(bloquesDeDatos[q][j], m)
              /\ bloques[d] = [de |-> q, n |-> Pos(j, m)]
    BY <2>2 DEF Contenido, DatosPropios
  <2> HIDE DEF q
  <2>. QED
    BY <1>1, <2>2, <2>3, <2>4
<1>14. \A q \in Pedidos \ {p} : MetaDe(q)' = MetaDe(q)
  BY <1>1, <1>2 DEF MetaDe, Largo
<1>15. Anotados'
  BY <1>1, <1>2, <1>5, <1>14 DEF Contenido, Anotados, Vacio
<1>16. MetaHecha'
  <2>1. \A q, r \in Pedidos : ReescritoPor(q, r) => ReescritoPor(q, r)'
    BY <1>1, <1>2, <1>5 DEF ReescritoPor
  <2>. QED
    BY <1>1, <1>2, <1>5, <1>10, <1>14, <2>1 DEF Contenido, MetaHecha
<1>. QED
  BY <1>8, <1>9, <1>11, <1>12, <1>13, <1>15, <1>16 DEF Contenido

\* Steps that write bloques.dat and nothing else.
LEMMA EscribirNoMueve ==
    ASSUME IVolcados, Contenido,
           UNCHANGED <<caso, bitmap, metadata, pc, indexBlock, bloquesDeDatos, respuesta>>,
           \A q \in Pedidos : Escribio(q)' => ConPunteros(q)
    PROVE  /\ Firmes' \subseteq Firmes /\ Tenencia' /\ Anotados' /\ MetaHecha'
           /\ \A q \in Pedidos : ConPunteros(q)' => ConPunteros(q)
<1>1. \A q \in Pedidos : Avanza(q)
  BY DEF Avanza
<1>2. \A q \in Pedidos : ConPunteros(q) => q \in Firmes
  BY EsFirme DEF IVolcados
<1>3. Firmes' \subseteq Firmes
  BY <1>1, <1>2, FirmesDeAntes DEF IVolcados
<1>4. Tenencia'
  BY <1>3, TenenciaSigue DEF Contenido
<1>5. \A q \in Pedidos : ConPunteros(q)' => ConPunteros(q)
  BY DEF ConPunteros
<1>6. Anotados' /\ MetaHecha'
  BY <1>5, MetadataQuieta DEF Contenido, Inicial
<1>. QED
  BY <1>3, <1>4, <1>5, <1>6

\* A pointer is written in the index block of p, which no other request holds.
LEMMA ContenidoAlEscribirPunteros ==
    ASSUME PedidosValidos, IVolcados, LoTomado, EnSerie, IndicesCaben, Contenido,
           NEW p \in Pedidos, escribirPunterosEnIndice(p)
    PROVE  Contenido'
<1> DEFINE a == Dir(indexBlock[p], i[p] - 1)
<1>1. /\ pc[p] = "punteros" /\ i' = [i EXCEPT ![p] = @ + 1]
      /\ UNCHANGED <<caso, bitmap, metadata, pc, indexBlock, bloquesDeDatos, respuesta>>
  BY DEF escribirPunterosEnIndice
<1>2. i'[p] = i[p] + 1 /\ i[p] \in Nat /\ \A q \in Pedidos \ {p} : i'[q] = i[q]
  BY <1>1 DEF IVolcados, Tipos, TypeOK
<1>3. p \in Firmes
  BY <1>1, EsFirme DEF IVolcados
<1>4. Len(bloquesDeDatos[p]) <= Block_Size
  BY <1>1, Dispuestos DEF IndicesCaben
<1>5. /\ i[p] \in 1 .. Len(bloquesDeDatos[p]) /\ i[p] - 1 \in Lugares
      /\ bloques'[a] = Puntero(bloquesDeDatos[p][i[p]])
      /\ \A d \in Direcciones : d # a => bloques'[d] = bloques[d]
  BY <1>4, EfectoPunteros DEF IVolcados
<1>6. \A q \in Pedidos : indexBlock[q] \in BloquesDe(q) /\ indexBlock[q] \in TodosLosBloques
  BY SusBloques DEF IVolcados
<1>7. \A q \in Pedidos : \A j \in 1 .. Len(bloquesDeDatos[q]) :
          bloquesDeDatos[q][j] \in BloquesDe(q) /\ bloquesDeDatos[q][j] \in TodosLosBloques
  BY SusBloques DEF IVolcados
<1>8. \A q \in Firmes \ {p} : \A x \in BloquesDe(q), m \in Lugares : Dir(x, m) # a
  BY <1>3, <1>5, <1>6, Ajenos DEF IVolcados, Contenido, Firmes
<1>9. \A m \in Lugares : m # i[p] - 1 => Dir(indexBlock[p], m) # a
  BY <1>5, <1>6, DirInyectiva
<1>10. \A x \in TodosLosBloques, m \in Lugares : Dir(x, m) \in Direcciones
  BY DirEnRango
<1>11. \A d \in Direcciones : bloques'[d].de \in Pedidos => d # a /\ bloques'[d] = bloques[d]
  BY <1>5 DEF Puntero, PedidosValidos
<1>12. \A q \in Pedidos : Escribio(q)' => Escribio(q)
  BY <1>11 DEF Escribio
<1>13. /\ Firmes' \subseteq Firmes /\ Tenencia' /\ Anotados' /\ MetaHecha'
       /\ \A q \in Pedidos : ConPunteros(q)' => ConPunteros(q)
  BY <1>1, <1>12, EscribirNoMueve DEF ConPunteros
<1> HIDE DEF a
<1>14. Indices'
  <2>1. SUFFICES ASSUME NEW q \in Firmes, NEW m \in Lugares
                 PROVE  \/ bloques'[Dir(indexBlock[q], m)] = Puntero(0)
                        \/ /\ m + 1 <= Len(bloquesDeDatos[q])
                           /\ bloques'[Dir(indexBlock[q], m)] = Puntero(bloquesDeDatos[q][m + 1])
    BY <1>1, <1>13 DEF Indices, Dir, Puntero
  <2>2. CASE q = p /\ m = i[p] - 1
    BY <1>2, <1>5, <2>2 DEF a
  <2>3. CASE q # p \/ m # i[p] - 1
    <3>1. q \in Pedidos
      BY DEF Firmes
    <3>2. bloques'[Dir(indexBlock[q], m)] = bloques[Dir(indexBlock[q], m)]
      BY <1>5, <1>6, <1>8, <1>9, <1>10, <2>3, <3>1
    <3>. QED
      BY <3>2 DEF Contenido, Indices
  <2>. QED
    BY <2>2, <2>3
<1>15. PunterosHechos'
  <2>1. SUFFICES ASSUME NEW q \in Pedidos, NEW j \in 1 .. Len(bloquesDeDatos[q]),
                        ConPunteros(q)' \/ (pc[q] = "punteros" /\ j < i'[q])
                 PROVE  bloques'[Dir(indexBlock[q], j - 1)] = Puntero(bloquesDeDatos[q][j])
    BY <1>1 DEF PunterosHechos, Dir, Puntero
  <2>2. q \in Firmes
    BY <1>13, <2>1, EsFirme DEF IVolcados
  <2>3. CASE q = p /\ j = i[p]
    BY <1>5, <2>3 DEF a
  <2>4. CASE q # p \/ j # i[p]
    <3>1. ConPunteros(q) \/ (pc[q] = "punteros" /\ j < i[q])
      BY <1>2, <1>13, <2>1, <2>4
    <3>2. bloques[Dir(indexBlock[q], j - 1)] = Puntero(bloquesDeDatos[q][j])
      BY <3>1 DEF Contenido, PunterosHechos
    <3>3. j - 1 \in Lugares
      <4>1. Len(bloquesDeDatos[q]) \in Nat /\ Len(bloquesDeDatos[q]) <= Block_Size
        BY SusBloques, NecesariosNatural DEF LoTomado, IndicesCaben, IVolcados, Tipos, TypeOK,
           PedidosValidos
      <4>. QED
        BY <4>1 DEF Lugares, PedidosValidos
    <3>4. bloques'[Dir(indexBlock[q], j - 1)] = bloques[Dir(indexBlock[q], j - 1)]
      BY <1>2, <1>5, <1>6, <1>8, <1>9, <1>10, <2>2, <2>4, <3>3
    <3>. QED
      BY <3>2, <3>4
  <2>. QED
    BY <2>3, <2>4
<1>16. DatosHechos'
  <2>1. SUFFICES ASSUME NEW q \in Pedidos, NEW j \in 1 .. Len(bloquesDeDatos[q]),
                        respuesta[q] = "creado" \/ (pc[q] = "datos" /\ j < i'[q]),
                        NEW m \in Lugares, Pos(j, m) < Largo[q]
                 PROVE  bloques'[Dir(bloquesDeDatos[q][j], m)] = [de |-> q, n |-> Pos(j, m)]
    BY <1>1 DEF DatosHechos, EnSuLugar, Dir, Pos, Largo
  <2>2. q # p
    BY <1>1, <2>1 DEF IVolcados, Contestados
  <2>3. EnSuLugar(q, j)
    BY <1>2, <2>1, <2>2 DEF Contenido, DatosHechos
  <2>4. q \in Firmes
    BY <2>1, EsFirme DEF IVolcados, ConPunteros
  <2>. QED
    BY <1>5, <1>7, <1>8, <1>10, <2>1, <2>2, <2>3, <2>4 DEF EnSuLugar
<1>17. DatosPropios'
  <2>1. SUFFICES ASSUME NEW d \in Direcciones, bloques'[d].de \in Pedidos
                 PROVE  LET q == bloques'[d].de
                        IN  /\ pc'[q] \in {"datos", "fin"}
                            /\ \E j \in 1 .. Len(bloquesDeDatos'[q]), m \in Lugares :
                                  /\ d = Dir(bloquesDeDatos'[q][j], m)
                                  /\ bloques'[d] = [de |-> q, n |-> Pos(j, m)]
    BY DEF DatosPropios, Dir, Pos
  <2>2. bloques'[d] = bloques[d]
    BY <1>11, <2>1
  <2>. QED
    BY <1>1, <2>1, <2>2 DEF Contenido, DatosPropios
<1>. QED
  BY <1>13, <1>14, <1>15, <1>16, <1>17 DEF Contenido

\* A data block of p is written, which no other request holds and which is not
\* its index block.
LEMMA ContenidoAlEscribirDatos ==
    ASSUME PedidosValidos, IVolcados, LoTomado, EnSerie, IndicesCaben, Contenido,
           NEW p \in Pedidos, escribirDatosEnBloques(p)
    PROVE  Contenido'
<1> DEFINE k == i[p]
           x == bloquesDeDatos[p][k]
<1>1. /\ pc[p] = "datos" /\ i' = [i EXCEPT ![p] = @ + 1]
      /\ UNCHANGED <<caso, bitmap, metadata, pc, indexBlock, bloquesDeDatos, respuesta>>
  BY DEF escribirDatosEnBloques
<1>2. i'[p] = k + 1 /\ k \in Nat /\ \A q \in Pedidos \ {p} : i'[q] = i[q]
  BY <1>1 DEF IVolcados, Tipos, TypeOK
<1>3. p \in Firmes /\ ConPunteros(p)
  BY <1>1, EsFirme DEF IVolcados, ConPunteros
<1>4. /\ k \in 1 .. Len(bloquesDeDatos[p])
      /\ \A m \in Lugares :
            bloques'[Dir(x, m)] = IF Pos(k, m) < Largo[p] THEN [de |-> p, n |-> Pos(k, m)]
                                                          ELSE bloques[Dir(x, m)]
      /\ \A d \in Direcciones : (\A m \in Lugares : d # Dir(x, m)) => bloques'[d] = bloques[d]
  BY EfectoDatos DEF IVolcados
<1>5. \A q \in Pedidos :
          /\ indexBlock[q] \in BloquesDe(q) /\ indexBlock[q] \in TodosLosBloques
          /\ \A j \in 1 .. Len(bloquesDeDatos[q]) :
                bloquesDeDatos[q][j] \in BloquesDe(q) /\ bloquesDeDatos[q][j] \in TodosLosBloques
  BY SusBloques DEF IVolcados
<1>6. x \in BloquesDe(p)
  BY <1>4, <1>5
<1> HIDE DEF x, k
<1>7. \A y \in TodosLosBloques, m \in Lugares : Dir(y, m) \in Direcciones
  BY DirEnRango
\* What the write leaves alone.
<1>8. ASSUME NEW q \in Firmes \ {p}, NEW y \in BloquesDe(q), y \in TodosLosBloques,
             NEW m \in Lugares
      PROVE  bloques'[Dir(y, m)] = bloques[Dir(y, m)]
  <2>1. \A n \in Lugares : Dir(y, m) # Dir(x, n)
    BY <1>3, <1>6, Ajenos DEF IVolcados, Contenido
  <2>. QED
    BY <1>4, <1>7, <1>8, <2>1
<1>9. ASSUME NEW m \in Lugares
      PROVE  /\ bloques'[Dir(indexBlock[p], m)] = bloques[Dir(indexBlock[p], m)]
             /\ \A j \in 1 .. Len(bloquesDeDatos[p]) : j # k =>
                   bloques'[Dir(bloquesDeDatos[p][j], m)] = bloques[Dir(bloquesDeDatos[p][j], m)]
  <2>1. \A n \in Lugares : Dir(indexBlock[p], m) # Dir(x, n)
    BY <1>4, Propios DEF IVolcados, x
  <2>2. ASSUME NEW j \in 1 .. Len(bloquesDeDatos[p]), j # k
        PROVE  \A n \in Lugares : Dir(bloquesDeDatos[p][j], m) # Dir(x, n)
    BY <1>4, <2>2, Propios DEF IVolcados, x
  <2>. QED
    BY <1>4, <1>5, <1>7, <2>1, <2>2
\* What it changes.
<1>10. ASSUME NEW d \in Direcciones, bloques'[d] # bloques[d]
       PROVE  /\ bloques'[d].de = p
              /\ \E m \in Lugares : d = Dir(x, m) /\ bloques'[d] = [de |-> p, n |-> Pos(k, m)]
  <2>1. PICK m \in Lugares : d = Dir(x, m) /\ bloques'[d] = [de |-> p, n |-> Pos(k, m)]
    BY <1>4, <1>10
  <2>. QED
    BY <2>1
<1>11. \A q \in Pedidos : Escribio(q)' => Escribio(q) \/ q = p
  <2>1. SUFFICES ASSUME NEW q \in Pedidos, NEW d \in Direcciones, bloques'[d].de = q
                 PROVE  Escribio(q) \/ q = p
    BY DEF Escribio
  <2>. QED
    BY <1>10, <2>1 DEF Escribio
<1>12. \A q \in Pedidos : Escribio(q)' => ConPunteros(q)
  BY <1>3, <1>11 DEF ConPunteros
<1>13. /\ Firmes' \subseteq Firmes /\ Tenencia' /\ Anotados' /\ MetaHecha'
       /\ \A q \in Pedidos : ConPunteros(q)' => ConPunteros(q)
  BY <1>1, <1>12, EscribirNoMueve
<1>14. \A q \in Firmes, m \in Lugares :
           bloques'[Dir(indexBlock[q], m)] = bloques[Dir(indexBlock[q], m)]
  BY <1>5, <1>8, <1>9 DEF Firmes
<1>15. Indices'
  <2>1. SUFFICES ASSUME NEW q \in Firmes, NEW m \in Lugares
                 PROVE  \/ bloques'[Dir(indexBlock[q], m)] = Puntero(0)
                        \/ /\ m + 1 <= Len(bloquesDeDatos[q])
                           /\ bloques'[Dir(indexBlock[q], m)] = Puntero(bloquesDeDatos[q][m + 1])
    BY <1>1, <1>13 DEF Indices, Dir, Puntero
  <2>. QED
    BY <1>14 DEF Contenido, Indices
<1>16. PunterosHechos'
  <2>1. SUFFICES ASSUME NEW q \in Pedidos, NEW j \in 1 .. Len(bloquesDeDatos[q]),
                        ConPunteros(q)' \/ (pc[q] = "punteros" /\ j < i'[q])
                 PROVE  bloques'[Dir(indexBlock[q], j - 1)] = Puntero(bloquesDeDatos[q][j])
    BY <1>1 DEF PunterosHechos, Dir, Puntero
  <2>2. q \in Firmes
    BY <1>13, <2>1, EsFirme DEF IVolcados
  <2>3. bloques[Dir(indexBlock[q], j - 1)] = Puntero(bloquesDeDatos[q][j])
    BY <1>1, <1>2, <1>13, <2>1 DEF Contenido, PunterosHechos
  <2>4. j - 1 \in Lugares
    <3>1. Len(bloquesDeDatos[q]) \in Nat /\ Len(bloquesDeDatos[q]) <= Block_Size
      BY SusBloques, NecesariosNatural DEF LoTomado, IndicesCaben, IVolcados, Tipos, TypeOK,
         PedidosValidos
    <3>. QED
      BY <3>1 DEF Lugares, PedidosValidos
  <2>. QED
    BY <1>14, <2>2, <2>3, <2>4
<1>17. DatosHechos'
  <2>0. SUFFICES ASSUME NEW q \in Pedidos, NEW j \in 1 .. Len(bloquesDeDatos[q]),
                        respuesta[q] = "creado" \/ (pc[q] = "datos" /\ j < i'[q])
                 PROVE  EnSuLugar(q, j)'
    BY <1>1 DEF DatosHechos
  <2>1. SUFFICES ASSUME NEW m \in Lugares, Pos(j, m) < Largo[q]
                 PROVE  bloques'[Dir(bloquesDeDatos[q][j], m)] = [de |-> q, n |-> Pos(j, m)]
    BY <1>1 DEF EnSuLugar, Dir, Pos, Largo
  <2>2. CASE q # p
    <3>1. q \in Firmes
      BY <2>0, EsFirme DEF IVolcados, ConPunteros
    <3>2. EnSuLugar(q, j)
      BY <1>2, <2>0, <2>2 DEF Contenido, DatosHechos
    <3>. QED
      BY <1>5, <1>8, <2>1, <2>2, <3>1, <3>2 DEF EnSuLugar
  <2>3. CASE q = p /\ j = k
    BY <1>4, <2>1, <2>3 DEF x
  <2>4. CASE q = p /\ j # k
    <3>1. respuesta[q] = "creado" \/ (pc[q] = "datos" /\ j < i[q])
      BY <1>1, <1>2, <2>0, <2>4 DEF k
    <3>2. EnSuLugar(q, j)
      BY <3>1 DEF Contenido, DatosHechos
    <3>. QED
      BY <1>9, <2>1, <2>4, <3>2 DEF EnSuLugar
  <2>. QED
    BY <2>2, <2>3, <2>4
<1>18. DatosPropios'
  <2>1. SUFFICES ASSUME NEW d \in Direcciones, bloques'[d].de \in Pedidos
                 PROVE  LET q == bloques'[d].de
                        IN  /\ pc'[q] \in {"datos", "fin"}
                            /\ \E j \in 1 .. Len(bloquesDeDatos'[q]), m \in Lugares :
                                  /\ d = Dir(bloquesDeDatos'[q][j], m)
                                  /\ bloques'[d] = [de |-> q, n |-> Pos(j, m)]
    BY DEF DatosPropios, Dir, Pos
  <2>2. CASE bloques'[d] = bloques[d]
    <3> DEFINE q == bloques[d].de
    <3>1. /\ q \in Pedidos /\ pc[q] \in {"datos", "fin"}
          /\ \E j \in 1 .. Len(bloquesDeDatos[q]), m \in Lugares :
                /\ d = Dir(bloquesDeDatos[q][j], m)
                /\ bloques[d] = [de |-> q, n |-> Pos(j, m)]
      BY <2>1, <2>2 DEF Contenido, DatosPropios
    <3>2. bloques'[d].de = q
      BY <2>2
    <3> HIDE DEF q
    <3>. QED
      BY <1>1, <2>2, <3>1, <3>2
  <2>3. CASE bloques'[d] # bloques[d]
    <3>1. PICK m \in Lugares : d = Dir(x, m) /\ bloques'[d] = [de |-> p, n |-> Pos(k, m)]
      BY <1>10, <2>3
    <3>2. bloques'[d].de = p
      BY <3>1
    <3>. QED
      BY <1>1, <1>4, <3>1, <3>2 DEF x
  <2>. QED
    BY <2>2, <2>3
<1>. QED
  BY <1>13, <1>15, <1>16, <1>17, <1>18 DEF Contenido

-----------------------------------------------------------------------------
(***************************************************************************)
(* What the disk holds is an invariant.                                    *)
(***************************************************************************)

\* The first block of a search is the only one that may be block 0.
LEMMA ReservaDistinta ==
    ASSUME PedidosValidos, Tipos, NEW p \in Pedidos, Reservar(p)
    PROVE  LET r == bloquesDeDatos'[p]
           IN  /\ Len(r) = numBloquesNecesarios(p) /\ Tamano[p] > 0
               /\ \A j, k \in 1 .. Len(r) : r[j] = r[k] => j = k
               /\ \A j \in 1 .. Len(r) : r[j] # indexBlock'[p] /\ r[j] # 0
<1> DEFINE n == numBloquesNecesarios(p) + 1
           s == PrimerosLibres(bitmap, n)
<1>1. numBloquesNecesarios(p) \in Nat /\ n \in Nat /\ n >= 1 /\ numBloquesNecesarios(p) = n - 1
  BY NecesariosNatural DEF Tipos, TypeOK
<1>2. Cardinality(Libres(bitmap)) >= n
  BY DEF Reservar, verificarEspacioDisponible
<1>3. /\ s \in Seq(TodosLosBloques) /\ Len(s) = n
      /\ \A j, k \in 1 .. n : s[j] = s[k] => j = k
  BY <1>1, <1>2, PrimerosLibresDistintos
<1>4. /\ indexBlock' = [indexBlock EXCEPT ![p] = s[1]]
      /\ bloquesDeDatos' = [bloquesDeDatos EXCEPT ![p] = Tail(s)]
  BY DEF Reservar
<1>5. indexBlock'[p] = s[1] /\ bloquesDeDatos'[p] = Tail(s)
  BY <1>4 DEF Tipos, TypeOK
<1>6. ASSUME NEW k \in 1 .. n, s[k] = 0 PROVE k = 1
  <2>1. k \in 1 .. Cardinality(Libres(bitmap))
    BY <1>1, <1>2, LibresFinitos
  <2>2. Cardinality(Menores(Libres(bitmap), s[k])) = k - 1
    BY <2>1, BloqueLibreHallado DEF PrimerosLibres
  <2>3. Menores(Libres(bitmap), 0) = {}
    BY LibresFinitos DEF Menores
  <2>4. Cardinality(Menores(Libres(bitmap), s[k])) = 0
    BY <1>6, <2>3, FS_EmptySet
  <2>. QED
    BY <2>2, <2>4
<1> HIDE DEF n, s
<1>7. s # <<>>
  BY <1>1, <1>3
<1>8. /\ Len(Tail(s)) = n - 1
      /\ \A j \in 1 .. n - 1 : Tail(s)[j] = s[j + 1]
  BY <1>3, <1>7, HeadTailProperties
<1>9. \A j \in 1 .. n - 1 : j + 1 \in 1 .. n /\ j + 1 # 1
  BY <1>1
<1>10. \A j, k \in 1 .. n - 1 : Tail(s)[j] = Tail(s)[k] => j = k
  BY <1>3, <1>8, <1>9
<1>11. \A j \in 1 .. n - 1 : Tail(s)[j] # s[1] /\ Tail(s)[j] # 0
  BY <1>1, <1>3, <1>6, <1>8, <1>9
<1>12. Tamano[p] > 0
  <2>1. caso \in Casos
    BY DEF Tipos, TypeOK
  <2>2. Tamano[p] \in Nat
    BY <2>1 DEF PedidosValidos, Tamano
  <2>3. Tamano[p] # 0
    BY DEF Reservar, Incompleto
  <2>. QED
    BY <2>2, <2>3
<1>. QED
  BY <1>1, <1>5, <1>8, <1>10, <1>11, <1>12

\* What each request took is complete and without repetitions, step by step.
LEMMA LoTomadoSigue ==
    ASSUME PedidosValidos, IVolcados, LoTomado, [Next]_vars
    PROVE  LoTomado'
<1>1. ASSUME UNCHANGED <<caso, indexBlock, bloquesDeDatos>>, Duenos' \subseteq Duenos
      PROVE  LoTomado'
  <2>1. Tamano' = Tamano /\ \A q : numBloquesNecesarios(q)' = numBloquesNecesarios(q)
    BY <1>1 DEF numBloquesNecesarios, Tamano, Largo
  <2>. QED
    BY <1>1, <2>1 DEF LoTomado
<1>2. ASSUME UNCHANGED <<caso, indexBlock, bloquesDeDatos>>, \A q \in Pedidos : Avanza(q)
      PROVE  LoTomado'
  BY <1>1, <1>2, DuenosAlAvanzar DEF IVolcados
<1>3. ASSUME NEW p \in Pedidos, Reservar(p) PROVE LoTomado'
  <2>1. /\ pc' = [pc EXCEPT ![p] = "guardar"] /\ UNCHANGED <<caso, respuesta>>
        /\ \E x : indexBlock' = [indexBlock EXCEPT ![p] = x]
        /\ \E x : bloquesDeDatos' = [bloquesDeDatos EXCEPT ![p] = x]
    BY <1>3 DEF Reservar, Va
  <2>2. \A q \in Pedidos \ {p} : /\ pc'[q] = pc[q]
                                 /\ indexBlock'[q] = indexBlock[q]
                                 /\ bloquesDeDatos'[q] = bloquesDeDatos[q]
    BY <2>1 DEF IVolcados, Tipos, TypeOK
  <2>3. Tamano' = Tamano /\ \A q : numBloquesNecesarios(q)' = numBloquesNecesarios(q)
    BY <2>1 DEF numBloquesNecesarios, Tamano, Largo
  <2>4. SUFFICES ASSUME NEW q \in Pedidos
                 PROVE  LET r == bloquesDeDatos'[q]
                        IN  /\ Len(r) \in {0, numBloquesNecesarios(q)}
                            /\ q \in Duenos' => Len(r) = numBloquesNecesarios(q) /\ Tamano[q] > 0
                            /\ \A j, k \in 1 .. Len(r) : r[j] = r[k] => j = k
                            /\ \A j \in 1 .. Len(r) : r[j] # indexBlock'[q] /\ r[j] # 0
    BY <2>3 DEF LoTomado
  <2>5. CASE q = p
    BY <1>3, <2>5, ReservaDistinta DEF IVolcados
  <2>6. CASE q # p
    <3>1. q \in Duenos' => q \in Duenos
      BY <2>1, <2>2, <2>6 DEF Duenos, enCurso
    <3>2. indexBlock'[q] = indexBlock[q] /\ bloquesDeDatos'[q] = bloquesDeDatos[q]
      BY <2>2, <2>6
    <3>. QED
      BY <3>1, <3>2 DEF LoTomado
  <2>. QED
    BY <2>5, <2>6
<1>4. ASSUME NEW p \in Pedidos, guardarBitmap(p) PROVE LoTomado'
  <2>1. /\ pc[p] = "guardar" /\ pc' = [pc EXCEPT ![p] = "crear"]
        /\ UNCHANGED <<caso, indexBlock, bloquesDeDatos, respuesta>>
    BY <1>4 DEF guardarBitmap, Va, locales
  <2>2. enCurso' = enCurso
    BY <2>1 DEF enCurso, IVolcados, Tipos, TypeOK
  <2>. QED
    BY <1>1, <2>1, <2>2 DEF Duenos
<1>5. ASSUME NEW p \in Pedidos, ParametrosIncompletos(p) \/ SinEspacio(p) \/ ReservarSinLogger(p)
                \/ crearMetadata(p) \/ AnotarMetadata(p) \/ escribirPunterosEnIndice(p)
                \/ FinPunteros(p) \/ escribirDatosEnBloques(p) \/ InicioFueraDeRango(p)
                \/ ArchivoCreado(p) \/ ErrorDeDisco(p)
      PROVE  LoTomado'
  <2>1. UNCHANGED <<caso, indexBlock, bloquesDeDatos>>
    BY <1>5 DEF ParametrosIncompletos, SinEspacio, ReservarSinLogger, crearMetadata,
                AnotarMetadata, escribirPunterosEnIndice, FinPunteros, escribirDatosEnBloques,
                InicioFueraDeRango, ArchivoCreado, ErrorDeDisco, locales
  <2>2. \A q \in Pedidos : Avanza(q)
    BY <1>5 DEF ParametrosIncompletos, SinEspacio, ReservarSinLogger, crearMetadata,
                AnotarMetadata, escribirPunterosEnIndice, FinPunteros, escribirDatosEnBloques,
                InicioFueraDeRango, ArchivoCreado, ErrorDeDisco, Va, Contesta, Avanza,
                IVolcados, Tipos, TypeOK
  <2>. QED
    BY <1>2, <2>1, <2>2
<1>6. CASE Caida
  BY <1>2, <1>6 DEF Caida, locales, Avanza
<1>7. CASE UNCHANGED vars
  BY <1>2, <1>7 DEF vars, locales, Avanza
<1>. QED
  BY <1>3, <1>4, <1>5, <1>6, <1>7 DEF Next, Paso, Terminado

\* The loop counters are at their start until the pointers.
LEMMA PorEmpezarSigue ==
    ASSUME IVolcados, PorEmpezar, [Next]_vars
    PROVE  PorEmpezar'
<1> USE DEF PorEmpezar, IVolcados, Tipos, TypeOK
<1>1. ASSUME NEW p \in Pedidos, Paso(p) \/ ErrorDeDisco(p) PROVE PorEmpezar'
  BY <1>1 DEF Paso, ParametrosIncompletos, SinEspacio, ReservarSinLogger, Reservar, guardarBitmap,
              crearMetadata, AnotarMetadata, escribirPunterosEnIndice, FinPunteros,
              escribirDatosEnBloques, InicioFueraDeRango, ArchivoCreado, ErrorDeDisco,
              locales, Va
<1>2. CASE Caida \/ UNCHANGED vars
  BY <1>2 DEF Caida, vars, locales
<1>. QED
  BY <1>1, <1>2 DEF Next, Terminado

\* An empty disk holds what it should.
LEMMA IDiscoAlEmpezar ==
    ASSUME PedidosValidos, Init
    PROVE  IDisco
<1>1. /\ \A p \in Pedidos : pc[p] = "nuevo" /\ respuesta[p] = "" /\ i[p] = 1
                            /\ bloquesDeDatos[p] = <<>>
      /\ \A d \in Direcciones : bloques[d] = Puntero(0)
  BY DEF Init
<1>2. DOMAIN metadata = {}
  <2>1. <<>> \in Seq(Nat) /\ Len(<<>>) = 0
    OBVIOUS
  <2>2. DOMAIN <<>> = 1 .. 0
    BY <2>1, LenProperties
  <2>3. metadata = <<>>
    BY DEF Init
  <2>. QED
    BY <2>2, <2>3
<1>3. \A d \in Direcciones : bloques[d].de \notin Pedidos
  <2>1. Puntero(0).de \notin Pedidos
    BY DEF Puntero, PedidosValidos
  <2>. QED
    BY <1>1, <2>1
<1>4. Duenos = {} /\ Firmes = {} /\ \A p \in Pedidos : ~ConPunteros(p)
  BY <1>1, <1>2, <1>3 DEF Duenos, enCurso, Firmes, Escribio, ConPunteros
<1>5. LoTomado
  <2>1. Len(<<>>) = 0
    OBVIOUS
  <2>2. \A p \in Pedidos : Len(bloquesDeDatos[p]) = 0 /\ p \notin Duenos
    BY <1>1, <1>4, <2>1
  <2>. QED
    BY <2>2 DEF LoTomado
<1>6. PorEmpezar
  BY <1>1 DEF PorEmpezar
<1>7. Contenido
  BY <1>1, <1>2, <1>3, <1>4 DEF Contenido, Anotados, Tenencia, Indices, PunterosHechos,
     DatosHechos, DatosPropios, MetaHecha
<1>. QED
  BY <1>5, <1>6, <1>7 DEF IDisco

\* Every step keeps what the disk holds.
LEMMA IDiscoSePreserva ==
    ASSUME PedidosValidos, IVolcados, IDisco, [Next]_vars
    PROVE  IDisco'
<1>1. LoTomado' /\ PorEmpezar'
  BY LoTomadoSigue, PorEmpezarSigue DEF IDisco
<1>2. UNCHANGED caso
  BY CasoFijo
<1>3. (EnSerie' <=> EnSerie) /\ (IndicesCaben' <=> IndicesCaben)
  BY <1>2 DEF EnSerie, Simultaneos, IndicesCaben, numBloquesNecesarios, Tamano, Largo
<1>4. SUFFICES ASSUME EnSerie, IndicesCaben PROVE Contenido'
  BY <1>1, <1>3 DEF IDisco
<1> USE DEF IDisco
<1>5. ASSUME NEW p \in Pedidos,
             ParametrosIncompletos(p) \/ SinEspacio(p) \/ ReservarSinLogger(p)
                \/ InicioFueraDeRango(p) \/ ErrorDeDisco(p)
      PROVE  Contenido'
  <2>1. /\ pc' = [pc EXCEPT ![p] = "fin"]
        /\ \E r \in Respuestas \ {"creado"} : respuesta' = [respuesta EXCEPT ![p] = r]
        /\ UNCHANGED <<caso, disco, locales, caidas>>
    BY <1>5 DEF ParametrosIncompletos, SinEspacio, ReservarSinLogger, InicioFueraDeRango,
                ErrorDeDisco, Va, Contesta, Respuestas
  <2>2. \A q \in Pedidos : \/ pc'[q] = pc[q] /\ respuesta'[q] = respuesta[q]
                           \/ pc'[q] = "fin" /\ respuesta'[q] # "creado"
    BY <2>1 DEF IVolcados, Tipos, TypeOK
  <2>. QED
    BY <1>4, <2>1, <2>2, ContenidoAlTerminar DEF locales
<1>6. CASE Caida
  <2>1. \A q \in Pedidos : \/ pc'[q] = pc[q] /\ respuesta'[q] = respuesta[q]
                           \/ pc'[q] = "fin" /\ respuesta'[q] # "creado"
    BY <1>6 DEF Caida
  <2>. QED
    BY <1>4, <1>6, <2>1, ContenidoAlTerminar DEF Caida, locales
<1>7. CASE UNCHANGED vars
  BY <1>4, <1>7, ContenidoAlTerminar DEF vars, locales
<1>8. ASSUME NEW p \in Pedidos, Paso(p) PROVE Contenido'
  BY <1>4, <1>5, <1>8, ContenidoAlCrear, ContenidoAlPasarADatos, ContenidoAlAnotar,
     ContenidoAlGuardar, ContenidoAlReservar, ContenidoAlEscribirPunteros,
     ContenidoAlEscribirDatos DEF Paso
<1>. QED
  BY <1>5, <1>6, <1>7, <1>8 DEF Next, Terminado

\* What is proved of the blocks and of what they hold, together.
THEOREM DiscoConsistente == Spec => [](IVolcados /\ IDisco)
<1>1. Init => IVolcados /\ IDisco
  BY IVolcadosAlEmpezar, IDiscoAlEmpezar, PedidosValidos
<1>2. IVolcados /\ IDisco /\ [Next]_vars => IVolcados' /\ IDisco'
  BY IVolcadosSePreserva, IDiscoSePreserva, PedidosValidos
<1>. QED
  BY <1>1, <1>2, PTL DEF Spec

-----------------------------------------------------------------------------
(***************************************************************************)
(* Reading a dump back.                                                    *)
(***************************************************************************)

\* Every word of the dump of p is in its data blocks.
Completo(p) ==
    /\ 0 < Largo[p] /\ Largo[p] <= Len(bloquesDeDatos[p]) * Block_Size
    /\ \A j \in 1 .. Len(bloquesDeDatos[p]) : EnSuLugar(p, j)

\* The pointers of a request fit in its index block.
LEMMA IndiceAlcanza ==
    ASSUME PedidosValidos, IVolcados, LoTomado, IndicesCaben, NEW p \in Pedidos
    PROVE  Len(bloquesDeDatos[p]) \in Nat /\ Len(bloquesDeDatos[p]) <= Block_Size
BY SusBloques, NecesariosNatural DEF LoTomado, IndicesCaben, IVolcados, Tipos, TypeOK,
   PedidosValidos

\* Whoever follows the metadata and the pointers of p finds its dump.
LEMMA SeLee ==
    ASSUME PedidosValidos, IVolcados, LoTomado, IndicesCaben, NEW p \in Pedidos,
           metadata[Nombre[p]] = MetaDe(p), Completo(p),
           \A j \in 1 .. Len(bloquesDeDatos[p]) :
              bloques[Dir(indexBlock[p], j - 1)] = Puntero(bloquesDeDatos[p][j])
    PROVE  Guarda(Nombre[p], p)
<1>1. /\ metadata[Nombre[p]].size = Largo[p] /\ Largo[p] > 0
      /\ metadata[Nombre[p]].index_block = indexBlock[p]
  BY DEF MetaDe, Completo
<1>2. Largo[p] \in Nat /\ Len(bloquesDeDatos[p]) \in Nat
  BY NecesariosNatural, IndiceAlcanza DEF IVolcados, Tipos, TypeOK
<1>3. SUFFICES ASSUME NEW k \in 0 .. Largo[p] - 1
               PROVE  /\ indexBlock[p] * Block_Size + k \div Block_Size \in Direcciones
                      /\ Ubicacion(Nombre[p], k) \in Direcciones
                      /\ bloques[Ubicacion(Nombre[p], k)] = [de |-> p, n |-> k]
  BY <1>1 DEF Guarda
<1> DEFINE q == k \div Block_Size
           m == k % Block_Size
           j == q + 1
           n == Len(bloquesDeDatos[p])
<1>4. k \in Nat /\ k < n * Block_Size
  <2>1. n * Block_Size \in Nat
    BY <1>2 DEF PedidosValidos
  <2>. QED
    BY <1>2, <2>1 DEF Completo
<1>5. j \in 1 .. n
  BY <1>2, <1>4, BloqueDePalabra
<1>6. q \in Nat /\ m \in Lugares /\ k = Pos(j, m)
  BY <1>4, PosDePalabra
<1>7. indexBlock[p] * Block_Size + q = Dir(indexBlock[p], j - 1)
  BY <1>6 DEF Dir
<1>8. Ubicacion(Nombre[p], k) =
          bloques[indexBlock[p] * Block_Size + q].n * Block_Size + m
  BY <1>1 DEF Ubicacion
<1> HIDE DEF q, m, j
<1>9. j - 1 \in Lugares
  BY <1>5, IndiceAlcanza DEF Lugares, PedidosValidos
<1>10. /\ indexBlock[p] \in TodosLosBloques /\ bloquesDeDatos[p][j] \in TodosLosBloques
  BY <1>5, SusBloques DEF IVolcados
<1>11. Ubicacion(Nombre[p], k) = Dir(bloquesDeDatos[p][j], m)
  <2>1. bloques[indexBlock[p] * Block_Size + q] = Puntero(bloquesDeDatos[p][j])
    BY <1>5, <1>7
  <2>2. bloques[indexBlock[p] * Block_Size + q].n = bloquesDeDatos[p][j]
    BY <2>1 DEF Puntero
  <2>. QED
    BY <1>8, <2>2, Zenon DEF Dir
<1>12. bloques[Dir(bloquesDeDatos[p][j], m)] = [de |-> p, n |-> k]
  BY <1>2, <1>5, <1>6 DEF Completo, EnSuLugar
<1>13. Dir(indexBlock[p], j - 1) \in Direcciones /\ Dir(bloquesDeDatos[p][j], m) \in Direcciones
  BY <1>6, <1>9, <1>10, DirEnRango
<1>. QED
  BY <1>7, <1>11, <1>12, <1>13 DEF q

\* The first word of a dump that fits in the blocks r.
LEMMA PrimeraPalabra ==
    ASSUME PedidosValidos, NEW l \in Nat, NEW r \in Seq(TodosLosBloques),
           0 < l, l <= Len(r) * Block_Size
    PROVE  /\ 1 \in 1 .. Len(r) /\ 0 \in Lugares /\ Pos(1, 0) = 0
           /\ Dir(r[1], 0) \in Direcciones
<1>1. Block_Size \in Nat \ {0} /\ Len(r) \in Nat
  BY DEF PedidosValidos
<1>2. 1 \in 1 .. Len(r)
  <2>1. Len(r) # 0
    BY <1>1
  <2>. QED
    BY <1>1, <2>1
<1>3. 0 \in Lugares /\ Pos(1, 0) = 0
  BY <1>1 DEF Lugares, Pos
<1>4. r[1] \in TodosLosBloques
  BY <1>2
<1>. QED
  BY <1>2, <1>3, <1>4, DirEnRango

\* Who wrote a whole dump wrote some word.
LEMMA CompletoEscribio ==
    ASSUME PedidosValidos, IVolcados, NEW p \in Pedidos, Completo(p)
    PROVE  Escribio(p)
<1> DEFINE r == bloquesDeDatos[p]
<1>1. Largo[p] \in Nat /\ r \in Seq(TodosLosBloques)
  BY NecesariosNatural DEF IVolcados, Tipos, TypeOK
<1>2. 1 \in 1 .. Len(r) /\ 0 \in Lugares /\ Pos(1, 0) = 0 /\ Dir(r[1], 0) \in Direcciones
  BY <1>1, PrimeraPalabra DEF Completo
<1>3. bloques[Dir(r[1], 0)] = [de |-> p, n |-> 0]
  BY <1>2 DEF Completo, EnSuLugar
<1>. QED
  BY <1>2, <1>3 DEF Escribio

\* The blocks of a request hold as many words as it declared, or more.
LEMMA BloquesAlcanzan ==
    ASSUME PedidosValidos, caso \in Casos, NEW p \in Pedidos, Largo[p] <= Tamano[p]
    PROVE  Largo[p] <= numBloquesNecesarios(p) * Block_Size
<1> DEFINE B == Block_Size
           L == Largo[p]
           T == Tamano[p]
           q == L \div B
           t == T \div B
           m == L % B
<1>1. B \in Nat \ {0} /\ L \in Nat /\ T \in Nat
  BY DEF PedidosValidos, Tamano, Largo
<1>2. numBloquesNecesarios(p) = t + (IF m > 0 THEN 1 ELSE 0) /\ L <= T
  BY DEF numBloquesNecesarios
<1>3. SUFFICES L <= numBloquesNecesarios(p) * B
  OBVIOUS
<1> HIDE DEF B, L, T
<1>4. /\ q \in Nat /\ t \in Nat /\ m \in 0 .. B - 1
      /\ L = B * q + m
      /\ T < B * (t + 1)
  <2>1. q \in Nat /\ m \in 0 .. B - 1 /\ L = B * q + m
    BY <1>1
  <2>2. t \in Nat /\ T < B * (t + 1)
    BY <1>1
  <2>. QED
    BY <2>1, <2>2
<1> HIDE DEF q, t, m
<1>5. q <= t
  <2>1. SUFFICES ASSUME t + 1 <= q PROVE FALSE
    BY <1>4
  <2>2. B * (q - (t + 1)) >= 0 /\ B * (q - (t + 1)) = B * q - B * (t + 1)
    BY <1>1, <1>4, <2>1
  <2>. QED
    BY <1>1, <1>4, <1>2, <2>2
<1>6. B * (t - q) >= 0 /\ B * (t - q) = B * t - B * q /\ B * t \in Nat /\ B * q \in Nat
  BY <1>1, <1>4, <1>5
<1>7. CASE m > 0
  <2>1. (t + 1) * B = B * t + B
    BY <1>1, <1>4
  <2>. QED
    BY <1>1, <1>4, <1>2, <1>6, <1>7, <2>1
<1>8. CASE ~(m > 0)
  <2>1. m = 0 /\ (t + 0) * B = B * t
    BY <1>1, <1>4, <1>8
  <2>. QED
    BY <1>1, <1>4, <1>2, <1>6, <1>8, <2>1
<1>. QED
  BY <1>7, <1>8

\* Every request carries something, and no more than it declares; those that
\* declare nothing are refused.
BienDeclarados == \A p \in Pedidos : Tamano[p] > 0 => Largo[p] \in 1 .. Tamano[p]

\* What was answered "creado" is whole on the disk, pointers and metadata included.
LEMMA LoCreadoSeLee ==
    ASSUME PedidosValidos, IVolcados, IDisco, IndicesCaben, BienDeclarados
    PROVE  ArchivoIntegro
<1>1. SUFFICES ASSUME EnSerie, NEW p \in Pedidos, respuesta[p] = "creado",
                      ~(\E q \in Pedidos : ReescritoPor(q, p))
               PROVE  Guarda(Nombre[p], p)
  BY DEF ArchivoIntegro
<1>2. Contenido /\ LoTomado
  BY <1>1 DEF IDisco
<1>3. p \in Duenos /\ ConPunteros(p)
  BY <1>1 DEF Duenos, ConPunteros
<1>4. Len(bloquesDeDatos[p]) = numBloquesNecesarios(p) /\ Tamano[p] > 0
  BY <1>2, <1>3 DEF LoTomado
<1>5. Largo[p] \in 1 .. Tamano[p] /\ Tamano[p] \in Nat
  BY <1>4 DEF BienDeclarados, PedidosValidos, Tamano, IVolcados, Tipos, TypeOK
<1>6. Largo[p] <= Len(bloquesDeDatos[p]) * Block_Size
  BY <1>4, <1>5, BloquesAlcanzan DEF IVolcados, Tipos, TypeOK
<1>7. Completo(p)
  BY <1>1, <1>2, <1>5, <1>6 DEF Completo, Contenido, DatosHechos
<1>8. metadata[Nombre[p]] = MetaDe(p)
  BY <1>1, <1>2, <1>3 DEF Contenido, MetaHecha
<1>9. \A j \in 1 .. Len(bloquesDeDatos[p]) :
          bloques[Dir(indexBlock[p], j - 1)] = Puntero(bloquesDeDatos[p][j])
  BY <1>2, <1>3 DEF Contenido, PunterosHechos
<1>. QED
  BY <1>2, <1>7, <1>8, <1>9, SeLee

\* A dump whose creation was answered can be read back whole (crearArchivoDump):
\* for requests one at a time, if the pointers of each fit in its index block
\* and none carries more than it declares.
THEOREM LoCreadoQueda == Spec => [](IndicesCaben /\ BienDeclarados => ArchivoIntegro)
<1>1. IVolcados /\ IDisco => (IndicesCaben /\ BienDeclarados => ArchivoIntegro)
  BY LoCreadoSeLee, PedidosValidos
<1>. QED
  BY <1>1, DiscoConsistente, PTL

-----------------------------------------------------------------------------
(***************************************************************************)
(* The disk implements Almacen.                                            *)
(***************************************************************************)

\* What makes the disk one that can be reasoned about in series.
Supuestos == IVolcados /\ IDisco /\ EnSerie /\ IndicesCaben

\* Whoever can be read under a name that no other dump takes wrote it there.
LEMMA LoQueSeLeeEsSuyo ==
    ASSUME PedidosValidos, Supuestos, NEW n \in DeUnoSolo, NEW p \in Pedidos, Guarda(n, p)
    PROVE  Nombre[p] = n /\ Completo(p)
<1>1. /\ IVolcados /\ LoTomado /\ Contenido /\ EnSerie /\ IndicesCaben
      /\ Tipos /\ Contestados
  BY DEF Supuestos, IDisco, IVolcados
<1>2. Block_Size \in Nat \ {0} /\ Largo[p] \in Nat /\ Largo[p] > 0 /\ metadata[n].size = Largo[p]
  BY <1>1, NecesariosNatural DEF PedidosValidos, Tipos, TypeOK, Guarda
<1>3. PICK q \in Pedidos : Nombre[q] = n /\ metadata[n] = MetaDe(q)
  <2>1. PICK q \in Pedidos : Nombre[q] = n /\ metadata[n] \in {Vacio, MetaDe(q)}
    BY <1>1 DEF Contenido, Anotados, DeUnoSolo
  <2>2. metadata[n] # Vacio
    BY <1>2 DEF Vacio
  <2>. QED
    BY <2>1, <2>2
<1>4. Solo(q) /\ q \in Firmes
  BY <1>3 DEF DeUnoSolo, Solo, Firmes
<1>5. metadata[n].index_block = indexBlock[q]
  BY <1>3 DEF MetaDe
\* Where each word of p is.
<1>6. ASSUME NEW k \in 0 .. Largo[p] - 1
      PROVE  \E j \in 1 .. Len(bloquesDeDatos[p]), m \in Lugares :
                /\ Ubicacion(n, k) = Dir(bloquesDeDatos[p][j], m)
                /\ k = Pos(j, m)
                /\ bloques[Dir(bloquesDeDatos[p][j], m)] = [de |-> p, n |-> k]
  <2>1. Ubicacion(n, k) \in Direcciones /\ bloques[Ubicacion(n, k)] = [de |-> p, n |-> k]
    BY DEF Guarda
  <2>2. bloques[Ubicacion(n, k)].de = p /\ bloques[Ubicacion(n, k)].n = k
    BY <2>1
  <2>3. PICK j \in 1 .. Len(bloquesDeDatos[p]), m \in Lugares :
            /\ Ubicacion(n, k) = Dir(bloquesDeDatos[p][j], m)
            /\ bloques[Ubicacion(n, k)] = [de |-> p, n |-> Pos(j, m)]
    <3> DEFINE d == Ubicacion(n, k)
    <3>1. DatosPropios /\ d \in Direcciones /\ bloques[d].de = p
      BY <1>1, <2>1, <2>2 DEF Contenido
    <3> HIDE DEF d
    <3>2. \E j \in 1 .. Len(bloquesDeDatos[p]), m \in Lugares :
            d = Dir(bloquesDeDatos[p][j], m) /\ bloques[d] = [de |-> p, n |-> Pos(j, m)]
      BY <3>1 DEF DatosPropios
    <3>. QED
      BY <3>2 DEF d
  <2>4. k = Pos(j, m)
    BY <2>2, <2>3
  <2>. QED
    BY <2>1, <2>3, <2>4
<1>7. /\ p \in Firmes
      /\ \E j \in 1 .. Len(bloquesDeDatos[p]), m \in Lugares :
            Ubicacion(n, 0) = Dir(bloquesDeDatos[p][j], m)
  <2>1. 0 \in 0 .. Largo[p] - 1
    BY <1>2
  <2>2. Ubicacion(n, 0) \in Direcciones /\ bloques[Ubicacion(n, 0)] = [de |-> p, n |-> 0]
    BY <2>1 DEF Guarda
  <2>3. bloques[Ubicacion(n, 0)].de = p
    BY <2>2
  <2>4. p \in Firmes
    BY <2>2, <2>3 DEF Firmes, Escribio
  <2>5. \E j \in 1 .. Len(bloquesDeDatos[p]), m \in Lugares :
            Ubicacion(n, 0) = Dir(bloquesDeDatos[p][j], m)
    <3> DEFINE d == Ubicacion(n, 0)
    <3>1. DatosPropios /\ d \in Direcciones /\ bloques[d].de = p
      BY <1>1, <2>2, <2>3 DEF Contenido
    <3> HIDE DEF d
    <3>2. PICK j \in 1 .. Len(bloquesDeDatos[p]), m \in Lugares :
            d = Dir(bloquesDeDatos[p][j], m) /\ bloques[d] = [de |-> p, n |-> Pos(j, m)]
      BY <3>1 DEF DatosPropios
    <3>. QED
      BY <3>2 DEF d
  <2>. QED
    BY <2>4, <2>5
\* The first pointer of q leads to a block of p, so it is one of q too.
<1>8. p = q
  <2> DEFINE w == bloques[Dir(indexBlock[q], 0)]
  <2>1. 0 \in Lugares /\ 0 \div Block_Size = 0 /\ 0 % Block_Size = 0
    BY <1>2 DEF Lugares
  <2>2. PICK j \in 1 .. Len(bloquesDeDatos[p]), m \in Lugares :
            Ubicacion(n, 0) = Dir(bloquesDeDatos[p][j], m)
    BY <1>7
  <2>3. Ubicacion(n, 0) = Dir(w.n, 0)
    BY <1>5, <2>1 DEF Ubicacion, Dir
  <2>4. \/ w = Puntero(0)
        \/ 0 + 1 <= Len(bloquesDeDatos[q]) /\ w = Puntero(bloquesDeDatos[q][0 + 1])
    BY <1>1, <1>4, <2>1 DEF Contenido, Indices
  <2> HIDE DEF w
  <2>5. \/ w.n = 0
        \/ 1 \in 1 .. Len(bloquesDeDatos[q]) /\ w.n = bloquesDeDatos[q][1]
    <3>1. Len(bloquesDeDatos[q]) \in Nat
      BY <1>1, SusBloques
    <3>. QED
      BY <2>4, <3>1 DEF Puntero
  <2>6. w.n \in TodosLosBloques
    <3>1. 0 \in TodosLosBloques
      BY DEF TodosLosBloques, PedidosValidos
    <3>. QED
      BY <1>1, <2>5, <3>1, SusBloques
  <2>7. bloquesDeDatos[p][j] \in TodosLosBloques /\ bloquesDeDatos[p][j] \in BloquesDe(p)
    BY <1>1, SusBloques
  <2>8. w.n = bloquesDeDatos[p][j]
    BY <2>1, <2>2, <2>3, <2>6, <2>7, DirInyectiva
  <2>9. bloquesDeDatos[p][j] # 0
    BY <1>1 DEF LoTomado
  <2>10. bloquesDeDatos[p][j] \in BloquesDe(q)
    BY <1>1, <2>5, <2>8, <2>9, SusBloques
  <2>. QED
    BY <1>1, <1>4, <1>7, <2>7, <2>10 DEF Contenido, Tenencia
<1>9. ASSUME NEW j \in 1 .. Len(bloquesDeDatos[p]) PROVE EnSuLugar(p, j)
  <2>1. SUFFICES ASSUME NEW m \in Lugares, Pos(j, m) < Largo[p]
                 PROVE  bloques[Dir(bloquesDeDatos[p][j], m)] = [de |-> p, n |-> Pos(j, m)]
    BY DEF EnSuLugar
  <2>2. Len(bloquesDeDatos[p]) \in Nat
    BY <1>1, SusBloques
  <2>3. Pos(j, m) \in 0 .. Largo[p] - 1
    BY <1>2, <2>1, <2>2, PosInyectiva
  <2>4. PICK h \in 1 .. Len(bloquesDeDatos[p]), l \in Lugares :
            /\ Pos(j, m) = Pos(h, l)
            /\ bloques[Dir(bloquesDeDatos[p][h], l)] = [de |-> p, n |-> Pos(j, m)]
    BY <1>6, <2>3
  <2>5. j = h /\ m = l
    BY <2>2, <2>4, PosInyectiva
  <2>. QED
    BY <2>4, <2>5
<1>10. Largo[p] <= Len(bloquesDeDatos[p]) * Block_Size
  <2>1. Largo[p] - 1 \in 0 .. Largo[p] - 1
    BY <1>2
  <2>2. PICK j \in 1 .. Len(bloquesDeDatos[p]), m \in Lugares : Largo[p] - 1 = Pos(j, m)
    BY <1>6, <2>1
  <2>3. Len(bloquesDeDatos[p]) \in Nat
    BY <1>1, SusBloques
  <2>4. Pos(j, m) < Len(bloquesDeDatos[p]) * Block_Size
    BY <2>3, PosEnBloques
  <2>5. Len(bloquesDeDatos[p]) * Block_Size \in Nat
    BY <1>2, <2>3
  <2>. QED
    BY <1>2, <2>2, <2>4, <2>5
<1>. QED
  BY <1>2, <1>3, <1>8, <1>9, <1>10 DEF Completo

\* A whole dump of which there is no other with its name can be read.
LEMMA LoCompletoSeLee ==
    ASSUME PedidosValidos, Supuestos, NEW p \in Pedidos, Solo(p), Completo(p)
    PROVE  Nombre[p] \in DeUnoSolo /\ Guarda(Nombre[p], p)
<1>1. IVolcados /\ LoTomado /\ Contenido /\ EnSerie /\ IndicesCaben
  BY DEF Supuestos, IDisco
<1>2. ConPunteros(p)
  BY <1>1, CompletoEscribio DEF ConPunteros
<1>3. Nombre[p] \in DOMAIN metadata /\ metadata[Nombre[p]] = MetaDe(p)
  BY <1>1, <1>2 DEF Contenido, MetaHecha, ReescritoPor, Solo
<1>4. Guarda(Nombre[p], p)
  BY <1>1, <1>2, <1>3, SeLee DEF Contenido, PunterosHechos
<1>5. Nombre[p] \in DeUnoSolo
  BY <1>1, <1>3 DEF DeUnoSolo, Solo
<1>. QED
  BY <1>4, <1>5

\* Whoever writes bloques.dat writes in its own blocks.
LEMMA EscribeEnLoSuyo ==
    ASSUME PedidosValidos, Supuestos, NEW q \in Pedidos,
           escribirPunterosEnIndice(q) \/ escribirDatosEnBloques(q),
           NEW p \in Firmes, p # q, NEW x \in BloquesDe(p), NEW m \in Lugares
    PROVE  bloques'[Dir(x, m)] = bloques[Dir(x, m)]
<1>1. IVolcados /\ Tipos /\ Contestados /\ LoTomado /\ Contenido /\ EnSerie /\ IndicesCaben
  BY DEF Supuestos, IDisco, IVolcados
<1>2. q \in Firmes
  BY <1>1, EsFirme DEF escribirPunterosEnIndice, escribirDatosEnBloques
<1>3. Dir(x, m) \in Direcciones
  <2>1. x \in TodosLosBloques
    BY <1>1, BloquesDeTipos DEF Firmes
  <2>. QED
    BY <2>1, DirEnRango
<1>4. \A y \in BloquesDe(q), n \in Lugares : Dir(x, m) # Dir(y, n)
  BY <1>1, <1>2, Ajenos DEF Contenido
<1>5. CASE escribirPunterosEnIndice(q)
  <2>1. Len(bloquesDeDatos[q]) <= Block_Size
    BY <1>1, IndiceAlcanza
  <2>2. i[q] - 1 \in Lugares /\ indexBlock[q] \in BloquesDe(q)
    BY <1>1, <1>5, <2>1, EfectoPunteros, SusBloques
  <2>. QED
    BY <1>1, <1>3, <1>4, <1>5, <2>1, <2>2, EfectoPunteros
<1>6. CASE escribirDatosEnBloques(q)
  <2>1. i[q] \in 1 .. Len(bloquesDeDatos[q])
    BY <1>1, <1>6, EfectoDatos
  <2>2. bloquesDeDatos[q][i[q]] \in BloquesDe(q)
    BY <1>1, <2>1, SusBloques
  <2>. QED
    BY <1>1, <1>3, <1>4, <1>6, <2>2, EfectoDatos
<1>. QED
  BY <1>5, <1>6

\* The words that appear in bloques.dat are of the request that writes data.
LEMMA EscribeLoPropio ==
    ASSUME PedidosValidos, IVolcados, IndicesCaben, LoTomado, NEW q \in Pedidos,
           escribirPunterosEnIndice(q) \/ escribirDatosEnBloques(q),
           NEW p \in Pedidos, p # q \/ pc[q] = "punteros", ~Escribio(p)
    PROVE  ~Escribio(p)'
<1>1. SUFFICES ASSUME NEW d \in Direcciones, bloques'[d].de = p PROVE FALSE
  BY DEF Escribio
<1>2. bloques[d].de # p /\ bloques'[d] # bloques[d]
  BY <1>1 DEF Escribio
<1>3. CASE escribirPunterosEnIndice(q)
  <2>1. bloques'[d] = Puntero(bloquesDeDatos[q][i[q]])
    BY <1>2, <1>3, IndiceAlcanza, EfectoPunteros DEF IVolcados
  <2>2. bloques'[d].de = Nadie
    BY <2>1 DEF Puntero
  <2>. QED
    BY <1>1, <2>2 DEF PedidosValidos
<1>4. CASE escribirDatosEnBloques(q)
  <2>1. PICK m \in Lugares : bloques'[d] = [de |-> q, n |-> Pos(i[q], m)]
    BY <1>2, <1>4, EfectoDatos DEF IVolcados
  <2>2. bloques'[d].de = q /\ pc[q] = "datos"
    BY <1>4, <2>1 DEF escribirDatosEnBloques
  <2>. QED
    BY <1>1, <2>2
<1>. QED
  BY <1>3, <1>4

\* A step either completes the dump of the request that writes data, or leaves
\* every dump as complete as it was.
LEMMA SoloSeCompletaEscribiendo ==
    ASSUME PedidosValidos, Supuestos, Supuestos', [Next]_vars, NEW p \in Pedidos
    PROVE  /\ Completo(p) => Completo(p)'
           /\ Completo(p)' => Completo(p) \/ escribirDatosEnBloques(p)
<1>1. IVolcados /\ Tipos /\ Contestados /\ LoTomado /\ Contenido /\ EnSerie /\ IndicesCaben
  BY DEF Supuestos, IDisco, IVolcados
<1>2. (Completo(p) => Escribio(p)) /\ (Completo(p)' => Escribio(p)')
  <2>1. Completo(p) => Escribio(p)
    BY <1>1, CompletoEscribio
  <2> DEFINE r == bloquesDeDatos'[p]
  <2>2. caso' \in Casos /\ r \in Seq(TodosLosBloques)
    BY DEF Supuestos, IVolcados, Tipos, TypeOK
  <2>3. Largo'[p] \in Nat
    BY <2>2 DEF PedidosValidos, Largo
  <2>4. ASSUME Completo(p)' PROVE Escribio(p)'
    <3>1. 0 < Largo'[p] /\ Largo'[p] <= Len(r) * Block_Size
          /\ \A j \in 1 .. Len(r) : EnSuLugar(p, j)'
      BY <2>4 DEF Completo
    <3>2. 1 \in 1 .. Len(r) /\ 0 \in Lugares /\ Pos(1, 0) = 0 /\ Dir(r[1], 0) \in Direcciones
      BY <2>2, <2>3, <3>1, PrimeraPalabra
    <3>3. \A m \in Lugares : Pos(1, m) < Largo'[p] =>
              bloques'[Dir(r[1], m)] = [de |-> p, n |-> Pos(1, m)]
      BY <3>1, <3>2 DEF EnSuLugar, Dir, Pos
    <3>4. bloques'[Dir(r[1], 0)] = [de |-> p, n |-> 0]
      BY <3>1, <3>2, <3>3
    <3>. QED
      BY <3>2, <3>4 DEF Escribio
  <2>. QED
    BY <2>1, <2>4
<1>3. \A j \in 1 .. Len(bloquesDeDatos[p]) : bloquesDeDatos[p][j] \in BloquesDe(p)
  BY <1>1, SusBloques
\* The words of p stay as they are.
<1>4. ASSUME UNCHANGED <<caso, bloquesDeDatos>>,
             \A j \in 1 .. Len(bloquesDeDatos[p]), m \in Lugares :
                bloques'[Dir(bloquesDeDatos[p][j], m)] = bloques[Dir(bloquesDeDatos[p][j], m)]
      PROVE  Completo(p)' <=> Completo(p)
  <2>1. Largo' = Largo /\ bloquesDeDatos' = bloquesDeDatos
    BY <1>4 DEF Largo
  <2>2. ASSUME NEW j \in 1 .. Len(bloquesDeDatos[p])
        PROVE  EnSuLugar(p, j)' <=> EnSuLugar(p, j)
    BY <1>4, <2>1 DEF EnSuLugar, Dir, Pos
  <2>. QED
    BY <2>1, <2>2 DEF Completo
<1>5. ASSUME UNCHANGED <<caso, bloques, bloquesDeDatos>> PROVE Completo(p)' <=> Completo(p)
  BY <1>4, <1>5
<1>6. ASSUME NEW q \in Pedidos, Reservar(q) PROVE Completo(p)' <=> Completo(p)
  <2>1. /\ pc[q] = "nuevo" /\ UNCHANGED <<caso, bloques>>
        /\ \E x : bloquesDeDatos' = [bloquesDeDatos EXCEPT ![q] = x]
    BY <1>6 DEF Reservar, Va, disco
  <2>2. CASE p = q
    <3>1. ~Escribio(p) /\ ~Escribio(p)'
      BY <1>1, <2>1, <2>2, NoEscribio, EscribioIgual DEF Contenido
    <3>. QED
      BY <1>2, <3>1
  <2>3. CASE p # q
    <3>1. bloquesDeDatos'[p] = bloquesDeDatos[p] /\ Largo' = Largo
      BY <1>1, <2>1, <2>3 DEF Tipos, Largo
    <3>2. \A j : EnSuLugar(p, j)' <=> EnSuLugar(p, j)
      BY <2>1, <3>1 DEF EnSuLugar, Dir, Pos
    <3>. QED
      BY <3>1, <3>2 DEF Completo
  <2>. QED
    BY <2>2, <2>3
<1>7. ASSUME NEW q \in Pedidos, q # p, escribirPunterosEnIndice(q) \/ escribirDatosEnBloques(q)
      PROVE  Completo(p)' <=> Completo(p)
  <2>1. UNCHANGED <<caso, bloquesDeDatos>>
    BY <1>7 DEF escribirPunterosEnIndice, escribirDatosEnBloques
  <2>2. CASE p \in Firmes
    <3>1. \A j \in 1 .. Len(bloquesDeDatos[p]), m \in Lugares :
              bloques'[Dir(bloquesDeDatos[p][j], m)] = bloques[Dir(bloquesDeDatos[p][j], m)]
      BY <1>3, <1>7, <2>2, EscribeEnLoSuyo
    <3>. QED
      BY <1>4, <2>1, <3>1
  <2>3. CASE p \notin Firmes
    <3>1. ~Escribio(p)
      BY <2>3 DEF Firmes
    <3>2. ~Escribio(p)'
      BY <1>1, <1>7, <3>1, EscribeLoPropio
    <3>. QED
      BY <1>2, <3>1, <3>2
  <2>. QED
    BY <2>2, <2>3
<1>8. CASE escribirPunterosEnIndice(p)
  <2>1. pc[p] = "punteros"
    BY <1>8 DEF escribirPunterosEnIndice
  <2>2. ~Escribio(p)
    BY <1>1, <2>1, NoEscribio DEF Contenido
  <2>3. ~Escribio(p)'
    BY <1>1, <1>8, <2>2, EscribeLoPropio DEF escribirPunterosEnIndice
  <2>. QED
    BY <1>2, <2>2, <2>3
<1>9. CASE escribirDatosEnBloques(p)
  <2>1. SUFFICES ASSUME Completo(p) PROVE Completo(p)'
    BY <1>9
  <2>2. UNCHANGED <<caso, bloquesDeDatos>>
    BY <1>9 DEF escribirDatosEnBloques
  <2>3. i[p] \in 1 .. Len(bloquesDeDatos[p])
    BY <1>1, <1>9, EfectoDatos
  <2>4. ASSUME NEW j \in 1 .. Len(bloquesDeDatos[p]), NEW m \in Lugares
        PROVE  bloques'[Dir(bloquesDeDatos[p][j], m)] = bloques[Dir(bloquesDeDatos[p][j], m)]
    <3>1. Dir(bloquesDeDatos[p][j], m) \in Direcciones
      BY <1>1, SusBloques, DirEnRango
    <3>2. CASE j = i[p]
      <4>1. bloques'[Dir(bloquesDeDatos[p][j], m)] =
                IF Pos(j, m) < Largo[p] THEN [de |-> p, n |-> Pos(j, m)]
                                        ELSE bloques[Dir(bloquesDeDatos[p][j], m)]
        BY <1>1, <1>9, <3>2, EfectoDatos
      <4>2. EnSuLugar(p, j)
        BY <2>1 DEF Completo
      <4>. QED
        BY <4>1, <4>2 DEF EnSuLugar
    <3>3. CASE j # i[p]
      <4>1. \A l \in Lugares : Dir(bloquesDeDatos[p][j], m) # Dir(bloquesDeDatos[p][i[p]], l)
        BY <1>1, <2>3, <3>3, Propios
      <4>. QED
        BY <1>1, <1>9, <3>1, <4>1, EfectoDatos
    <3>. QED
      BY <3>2, <3>3
  <2>. QED
    BY <1>4, <2>1, <2>2, <2>4
<1>10. ASSUME NEW q \in Pedidos,
              ParametrosIncompletos(q) \/ SinEspacio(q) \/ ReservarSinLogger(q)
                 \/ guardarBitmap(q) \/ crearMetadata(q) \/ AnotarMetadata(q) \/ FinPunteros(q)
                 \/ InicioFueraDeRango(q) \/ ArchivoCreado(q) \/ ErrorDeDisco(q)
       PROVE  UNCHANGED <<caso, bloques, bloquesDeDatos>>
  BY <1>10 DEF ParametrosIncompletos, SinEspacio, ReservarSinLogger, guardarBitmap, crearMetadata,
     AnotarMetadata, FinPunteros, InicioFueraDeRango, ArchivoCreado, ErrorDeDisco, disco, locales
<1>11. Caida \/ UNCHANGED vars => UNCHANGED <<caso, bloques, bloquesDeDatos>>
  BY DEF Caida, vars, disco, locales
<1>. QED
  BY <1>5, <1>6, <1>7, <1>8, <1>9, <1>10, <1>11 DEF Next, Paso, Terminado

\* What the disk shows, as Promesa sees it, and as the requests wrote it.
Vista == [n \in {m \in DeUnoSolo : \E p \in Pedidos : Guarda(m, p)} |->
             CHOOSE p \in Pedidos : Guarda(n, p)]

Vistos == {p \in Pedidos : EnSerie /\ Solo(p) /\ Completo(p)}

VistaDe(s) == [n \in {Nombre[p] : p \in s} |-> CHOOSE p \in s : Nombre[p] = n]

\* What can be read is what was written whole.
SeVeLoEscrito == Vista = VistaDe(Vistos)

\* What the disk shows is what some request wrote whole under a name of its own.
LEMMA LoEscritoSeVe ==
    ASSUME PedidosValidos, IVolcados, IDisco, IndicesCaben
    PROVE  SeVeLoEscrito
<1> DEFINE D == {m \in DeUnoSolo : \E p \in Pedidos : Guarda(m, p)}
<1>1. ASSUME NEW n \in DeUnoSolo, NEW p \in Pedidos, Guarda(n, p)
      PROVE  p \in Vistos /\ Nombre[p] = n
  <2>1. EnSerie
    BY DEF DeUnoSolo
  <2>2. Nombre[p] = n /\ Completo(p)
    BY <1>1, <2>1, LoQueSeLeeEsSuyo DEF Supuestos
  <2>3. Solo(p)
    BY <2>2 DEF DeUnoSolo, Solo
  <2>. QED
    BY <2>1, <2>2, <2>3 DEF Vistos
<1>2. ASSUME NEW p \in Vistos PROVE Nombre[p] \in DeUnoSolo /\ Guarda(Nombre[p], p)
  BY LoCompletoSeLee DEF Vistos, Supuestos
<1>3. D = {Nombre[p] : p \in Vistos}
  BY <1>1, <1>2 DEF Vistos
<1>4. ASSUME NEW n \in D
      PROVE  (CHOOSE p \in Pedidos : Guarda(n, p)) = (CHOOSE p \in Vistos : Nombre[p] = n)
  <2>1. \A p : (p \in Pedidos /\ Guarda(n, p)) <=> (p \in Vistos /\ Nombre[p] = n)
    BY <1>1, <1>2 DEF Vistos
  <2>. QED
    BY <2>1
<1>. QED
  BY <1>3, <1>4 DEF SeVeLoEscrito, Vista, VistaDe

\* One request takes the step.
LEMMA EscribeUnoSolo ==
    ASSUME PedidosValidos, IVolcados, NEW p \in Pedidos, NEW q \in Pedidos,
           escribirDatosEnBloques(p), escribirDatosEnBloques(q)
    PROVE  p = q
<1>1. i \in [Pedidos -> Nat]
  BY DEF IVolcados, Tipos, TypeOK
<1>2. i'[p] = i[p] + 1 /\ (p # q => i'[p] = i[p])
  BY <1>1 DEF escribirDatosEnBloques
<1>. QED
  BY <1>1, <1>2

\* A step shows nothing new, or one more dump.
LEMMA PasoVisto ==
    ASSUME PedidosValidos, IVolcados, IVolcados', IDisco, IDisco', IndicesCaben, IndicesCaben',
           SeVeLoEscrito, SeVeLoEscrito', [Next]_vars
    PROVE  Vista' = Vista \/ \E n \in UNION {{c.Nombre[p] : p \in Pedidos} : c \in Casos},
                               p \in Pedidos :
                /\ n \notin DOMAIN Vista
                /\ Vista' = [m \in DOMAIN Vista \cup {n} |-> IF m = n THEN p ELSE Vista[m]]
<1>1. caso' = caso /\ caso \in Casos
  BY CasoFijo DEF IVolcados, Tipos, TypeOK
<1>2. Nombre' = Nombre /\ (EnSerie' <=> EnSerie) /\ \A p : Solo(p)' <=> Solo(p)
  BY <1>1 DEF Nombre, EnSerie, Simultaneos, Solo
<1>3. \A s : VistaDe(s)' = VistaDe(s)
  BY <1>2 DEF VistaDe
<1>4. Vista = VistaDe(Vistos) /\ Vista' = VistaDe(Vistos')
  BY <1>2 DEF SeVeLoEscrito, VistaDe
<1>5. CASE Vistos' = Vistos
  BY <1>4, <1>5
<1>6. CASE Vistos' # Vistos
  <2>1. EnSerie
    BY <1>2, <1>6 DEF Vistos
  <2>2. Supuestos /\ Supuestos'
    BY <1>2, <2>1 DEF Supuestos
  <2>3. ASSUME NEW p \in Pedidos
        PROVE  /\ p \in Vistos => p \in Vistos'
               /\ p \in Vistos' => p \in Vistos \/ escribirDatosEnBloques(p)
    BY <1>2, <2>2, SoloSeCompletaEscribiendo DEF Vistos
  <2>4. Vistos \subseteq Pedidos /\ Vistos' \subseteq Pedidos
    BY DEF Vistos
  <2>5. PICK p \in Pedidos : p \in Vistos' /\ p \notin Vistos
    BY <1>6, <2>3, <2>4
  <2>6. escribirDatosEnBloques(p) /\ Solo(p)
    BY <1>2, <2>3, <2>5 DEF Vistos
  <2>7. Vistos' = Vistos \cup {p}
    BY <2>3, <2>4, <2>5, <2>6, EscribeUnoSolo
  <2>8. \A q \in Vistos : Nombre[q] # Nombre[p]
    BY <2>4, <2>5, <2>6 DEF Solo
  <2>9. DOMAIN Vista = {Nombre[q] : q \in Vistos}
    BY <1>4 DEF VistaDe
  <2>10. Nombre[p] \notin DOMAIN Vista
    BY <2>8, <2>9
  <2>11. Nombre[p] \in UNION {{c.Nombre[q] : q \in Pedidos} : c \in Casos}
    BY <1>1 DEF Nombre
  <2>12. ASSUME NEW m \in {Nombre[q] : q \in Vistos'}
         PROVE  (CHOOSE q \in Vistos' : Nombre[q] = m) =
                    (IF m = Nombre[p] THEN p ELSE CHOOSE q \in Vistos : Nombre[q] = m)
    <3>1. CASE m = Nombre[p]
      <4>1. \A q \in Vistos' : Nombre[q] = m <=> q = p
        BY <2>7, <2>8, <3>1
      <4>. QED
        BY <2>5, <3>1, <4>1
    <3>2. CASE m # Nombre[p]
      <4>1. \A q : (q \in Vistos' /\ Nombre[q] = m) <=> (q \in Vistos /\ Nombre[q] = m)
        BY <2>7, <3>2
      <4>. QED
        BY <3>2, <4>1
    <3>. QED
      BY <3>1, <3>2
  <2>13. {Nombre[q] : q \in Vistos'} = DOMAIN Vista \cup {Nombre[p]}
    BY <2>7, <2>9
  <2>14. Vista' = [m \in DOMAIN Vista \cup {Nombre[p]} |->
                      IF m = Nombre[p] THEN p ELSE Vista[m]]
    <3>1. Vista' = [m \in DOMAIN Vista \cup {Nombre[p]} |-> CHOOSE q \in Vistos' : Nombre[q] = m]
      BY <1>4, <2>13 DEF VistaDe
    <3>2. ASSUME NEW m \in DOMAIN Vista PROVE Vista[m] = CHOOSE q \in Vistos : Nombre[q] = m
      BY <1>4, <2>9 DEF VistaDe
    <3>3. ASSUME NEW m \in DOMAIN Vista \cup {Nombre[p]}
          PROVE  (CHOOSE q \in Vistos' : Nombre[q] = m) =
                     (IF m = Nombre[p] THEN p ELSE Vista[m])
      <4>1. m \in {Nombre[q] : q \in Vistos'}
        BY <2>13
      <4>2. (CHOOSE q \in Vistos' : Nombre[q] = m) =
                (IF m = Nombre[p] THEN p ELSE CHOOSE q \in Vistos : Nombre[q] = m)
        BY <2>12, <4>1
      <4>3. m # Nombre[p] => Vista[m] = CHOOSE q \in Vistos : Nombre[q] = m
        BY <3>2
      <4>. QED
        BY <4>2, <4>3
    <3>. QED
      BY <3>1, <3>3
  <2>. QED
    BY <2>5, <2>10, <2>11, <2>14
<1>. QED
  BY <1>5, <1>6

\* Dumps written one at a time, whose pointers fit in their index block, appear
\* whole, at once, and never change: crearArchivoDump implements Almacen.
THEOREM DiscoCumple == Spec /\ IndicesCaben => CumplePromesa
<1>1. Init => Promesa!Init
  <2>1. SUFFICES ASSUME Init PROVE Vista = <<>>
    BY DEF Promesa!Init, Vista
  <2>2. <<>> \in Seq(Nat) /\ Len(<<>>) = 0
    OBVIOUS
  <2>3. DOMAIN <<>> = {}
    BY <2>2, LenProperties
  <2>4. metadata = <<>>
    BY <2>1 DEF Init
  <2>5. DeUnoSolo = {}
    BY <2>3, <2>4 DEF DeUnoSolo
  <2>. QED
    BY <2>3, <2>5 DEF Vista
<1>2. IndicesCaben /\ [Next]_vars => IndicesCaben'
  <2>1. SUFFICES ASSUME IndicesCaben, [Next]_vars PROVE IndicesCaben'
    OBVIOUS
  <2>2. caso' = caso
    BY <2>1, CasoFijo
  <2>. QED
    BY <2>1, <2>2 DEF IndicesCaben, numBloquesNecesarios, Tamano, Largo
<1>3. IVolcados /\ IDisco /\ IndicesCaben => SeVeLoEscrito
  BY LoEscritoSeVe, PedidosValidos
<1>4. /\ IVolcados /\ IVolcados' /\ IDisco /\ IDisco' /\ IndicesCaben /\ IndicesCaben'
      /\ SeVeLoEscrito /\ SeVeLoEscrito' /\ [Next]_vars
      => [Promesa!Next]_Vista
  BY PasoVisto, PedidosValidos DEF Promesa!Next, Promesa!Guardar, Vista
<1>5. Vista = [n \in {m \in DeUnoSolo : \E p \in Pedidos : Guarda(m, p)} |->
             CHOOSE p \in Pedidos : Guarda(n, p)]
  BY DEF Vista
<1>. QED
  BY <1>1, <1>2, <1>3, <1>4, DiscoConsistente, PTL DEF CumplePromesa, Promesa!Spec, Spec, Vista
=============================================================================
