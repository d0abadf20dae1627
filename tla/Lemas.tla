------------------------------- MODULE Lemas -------------------------------
(***************************************************************************)
(* Facts about numbers, sequences and sums that the proofs of several      *)
(* modules cite.                                                           *)
(***************************************************************************)
EXTENDS Integers, SequencesExt, SequenceTheorems, FiniteSetTheorems,
        WellFoundedInduction, TLAPS

\* Every nonempty set of naturals has a least element: the form in which the
\* proofs use induction ("consider the least counterexample").
LEMMA MinimoNatural ==
    ASSUME NEW T, T \subseteq Nat, T # {}
    PROVE  \E x \in T : \A y \in T : x <= y
<1> DEFINE R == {ss \in Nat \X Nat : ss[1] < ss[2]}
<1>1. IsWellFoundedOn(R, Nat)
  BY NatLessThanWellFounded DEF OpToRel
<1>2. \A y, x \in Nat : y < x => <<y, x>> \in R
  OBVIOUS
<1> HIDE DEF R
<1>3. PICK x \in T : \A y \in T : ~(<<y, x>> \in R)
  BY <1>1, WFMin
<1>4. ASSUME NEW y \in T PROVE x <= y
  <2>1. x \in Nat /\ y \in Nat
    OBVIOUS
  <2>2. ~(y < x)
    BY <1>2, <1>3, <2>1, Zenon
  <2>. QED
    BY <2>1, <2>2
<1>. QED
  BY <1>4

\* A function on an interval that no step decreases is monotonic.
LEMMA CrecienteMonotona ==
    ASSUME NEW n \in Nat, NEW f \in [1 .. n + 1 -> Int],
           \A i \in 1 .. n : f[i] <= f[i + 1]
    PROVE  \A i, j \in 1 .. n + 1 : i <= j => f[i] <= f[j]
<1>1. SUFFICES ASSUME NEW a \in 1 .. n + 1
               PROVE  \A j \in 1 .. n + 1 : a <= j => f[a] <= f[j]
  OBVIOUS
<1> DEFINE Malos == {j \in 1 .. n + 1 : a <= j /\ ~(f[a] <= f[j])}
<1>2. SUFFICES ASSUME Malos # {} PROVE FALSE
  OBVIOUS
<1>3. Malos \subseteq Nat
  OBVIOUS
<1>4. PICK j \in Malos : \A m \in Malos : j <= m
  <2> HIDE DEF Malos
  <2>. QED
    BY <1>2, <1>3, MinimoNatural
<1>5. j \in 1 .. n + 1 /\ a < j /\ ~(f[a] <= f[j])
  BY <1>4
<1>6. j - 1 \in 1 .. n /\ a <= j - 1 /\ j - 1 \notin Malos
  BY <1>4, <1>5
<1>7. f[a] <= f[j - 1]
  BY <1>6
<1>8. f[j - 1] <= f[j - 1 + 1] /\ j - 1 + 1 = j
  BY <1>5, <1>6
<1>. QED
  BY <1>5, <1>6, <1>7, <1>8

\* t is s with e inserted before position i.
EsInsercion(S, t, s, i, e) ==
    /\ t \in Seq(S)
    /\ Len(t) = Len(s) + 1
    /\ t[i] = e
    /\ \A j \in 1 .. Len(s) : j < i => t[j] = s[j]
    /\ \A j \in 1 .. Len(s) : j >= i => t[j + 1] = s[j]

\* What InsertAt returns, position by position.
LEMMA InsertAtPropiedades ==
    ASSUME NEW S, NEW s \in Seq(S), NEW e \in S, NEW i \in 1 .. Len(s) + 1
    PROVE  EsInsercion(S, InsertAt(s, i, e), s, i, e)
<1> DEFINE a == SubSeq(s, 1, i - 1)
           b == SubSeq(s, i, Len(s))
<1>1. a \in Seq(S) /\ Len(a) = i - 1 /\ \A j \in 1 .. i - 1 : a[j] = s[j]
  BY LenProperties, SubSeqProperties
<1>2. b \in Seq(S) /\ Len(b) = Len(s) - i + 1
      /\ \A j \in 1 .. Len(s) - i + 1 : b[j] = s[i + j - 1]
  BY LenProperties, SubSeqProperties
<1>3. <<e>> \in Seq(S) /\ Len(<<e>>) = 1 /\ <<e>>[1] = e
  OBVIOUS
<1> HIDE DEF a, b
<1> DEFINE ae == a \o <<e>>
<1>4. ae \in Seq(S) /\ Len(ae) = i
      /\ \A j \in 1 .. i : ae[j] = IF j < i THEN s[j] ELSE e
  BY <1>1, <1>3, ConcatProperties
<1>5. InsertAt(s, i, e) = ae \o b
  BY DEF InsertAt, a, b
<1> HIDE DEF ae
<1>6. ae \o b \in Seq(S) /\ Len(ae \o b) = Len(ae) + Len(b)
      /\ \A j \in 1 .. Len(ae) + Len(b) :
            (ae \o b)[j] = IF j <= Len(ae) THEN ae[j] ELSE b[j - Len(ae)]
  BY <1>2, <1>4, ConcatProperties
<1>7. \A j \in 1 .. Len(s) : j >= i => b[j + 1 - i] = s[j]
  BY <1>2
<1>8. Len(s) \in Nat /\ i \in Nat /\ Len(ae) + Len(b) = Len(s) + 1
  BY <1>2, <1>4, LenProperties
<1>9. (ae \o b)[i] = e
  BY <1>4, <1>6, <1>8
<1>10. ASSUME NEW j \in 1 .. Len(s), j < i PROVE (ae \o b)[j] = s[j]
  BY <1>4, <1>6, <1>8, <1>10
<1>11. ASSUME NEW j \in 1 .. Len(s), j >= i PROVE (ae \o b)[j + 1] = s[j]
  <2>1. j + 1 \in 1 .. Len(s) + 1 /\ ~(j + 1 <= Len(ae)) /\ j + 1 - Len(ae) = j + 1 - i
    BY <1>4, <1>8, <1>11
  <2>. QED
    BY <1>6, <1>7, <1>8, <1>11, <2>1
<1>. QED
  BY <1>5, <1>6, <1>8, <1>9, <1>10, <1>11 DEF EsInsercion

\* t is s without its i-th element.
EsExtraccion(S, t, s, i) ==
    /\ t \in Seq(S)
    /\ Len(t) = Len(s) - 1
    /\ \A j \in 1 .. Len(s) : j < i => t[j] = s[j]
    /\ \A j \in 1 .. Len(s) : j > i => t[j - 1] = s[j]

\* What RemoveAt returns, position by position.
LEMMA RemoveAtPropiedades ==
    ASSUME NEW S, NEW s \in Seq(S), NEW i \in 1 .. Len(s)
    PROVE  EsExtraccion(S, RemoveAt(s, i), s, i)
<1> DEFINE a == SubSeq(s, 1, i - 1)
           b == SubSeq(s, i + 1, Len(s))
<1>1. a \in Seq(S) /\ Len(a) = i - 1 /\ \A j \in 1 .. i - 1 : a[j] = s[j]
  BY LenProperties, SubSeqProperties
<1>2. b \in Seq(S) /\ Len(b) = Len(s) - i
      /\ \A j \in 1 .. Len(s) - i : b[j] = s[i + j]
  BY LenProperties, SubSeqProperties
<1>3. RemoveAt(s, i) = a \o b
  BY DEF RemoveAt
<1> HIDE DEF a, b
<1>4. a \o b \in Seq(S) /\ Len(a \o b) = Len(a) + Len(b)
      /\ \A j \in 1 .. Len(a) + Len(b) :
            (a \o b)[j] = IF j <= Len(a) THEN a[j] ELSE b[j - Len(a)]
  BY <1>1, <1>2, ConcatProperties
<1>5. Len(s) \in Nat /\ i \in Nat /\ Len(a) + Len(b) = Len(s) - 1 /\ Len(a) = i - 1
  BY <1>1, <1>2, LenProperties
<1>6. ASSUME NEW j \in 1 .. Len(s), j < i PROVE (a \o b)[j] = s[j]
  BY <1>1, <1>4, <1>5, <1>6
<1>7. ASSUME NEW j \in 1 .. Len(s), j > i PROVE (a \o b)[j - 1] = s[j]
  <2>1. j - 1 \in 1 .. Len(s) - 1 /\ ~(j - 1 <= Len(a)) /\ j - 1 - Len(a) = j - i
    BY <1>5, <1>7
  <2>2. b[j - i] = s[i + (j - i)] /\ i + (j - i) = j
    BY <1>2, <1>5, <1>7
  <2>. QED
    BY <1>4, <1>5, <2>1, <2>2
<1>. QED
  BY <1>3, <1>4, <1>5, <1>6, <1>7 DEF EsExtraccion
-----------------------------------------------------------------------------
(***************************************************************************)
(* Sums.  MapThenSumSet adds the elements of a set in an order that CHOOSE *)
(* decides; for a set of indices, what it returns is what their values add *)
(* up to one after the other.                                              *)
(***************************************************************************)

\* P has the partial sums of the first n values of g.
Acumula(n, g, P) ==
    /\ P \in [0 .. n -> Nat]
    /\ P[0] = 0
    /\ \A j \in 1 .. n : P[j] = P[j - 1] + g[j]

\* The first n values of g add up to v.
Suman(n, g, v) == \E P : Acumula(n, g, P) /\ P[n] = v

\* One value more.
LEMMA SumanCrece ==
    ASSUME NEW m \in Nat, NEW g, g[m + 1] \in Nat, NEW v, Suman(m, g, v)
    PROVE  Suman(m + 1, g, v + g[m + 1])
<1>1. PICK P : Acumula(m, g, P) /\ P[m] = v
  BY DEF Suman
<1> DEFINE Q == [j \in 0 .. m + 1 |-> IF j = m + 1 THEN P[m] + g[m + 1] ELSE P[j]]
<1>2. P[m] \in Nat
  BY <1>1 DEF Acumula
<1>3. Q \in [0 .. m + 1 -> Nat]
  BY <1>1, <1>2 DEF Acumula
<1>4. Q[0] = 0 /\ \A j \in 1 .. m + 1 : Q[j] = Q[j - 1] + g[j]
  BY <1>1 DEF Acumula
<1>5. Q[m + 1] = v + g[m + 1]
  BY <1>1
<1> HIDE DEF Q
<1>. QED
  BY <1>3, <1>4, <1>5 DEF Acumula, Suman

\* None.
LEMMA SumanNinguno ==
    ASSUME NEW g, NEW v
    PROVE  Suman(0, g, v) <=> v = 0
<1>1. Suman(0, g, v) => v = 0
  BY DEF Suman, Acumula
<1>2. Suman(0, g, 0)
  <2>1. Acumula(0, g, [j \in 0 .. 0 |-> 0]) /\ [j \in 0 .. 0 |-> 0][0] = 0
    BY DEF Acumula
  <2>. QED
    BY <2>1 DEF Suman
<1>. QED
  BY <1>1, <1>2

LEMMA SumanAlgo ==
    ASSUME NEW n \in Nat, NEW g \in [1 .. n -> Nat]
    PROVE  /\ \E v \in Nat : Suman(n, g, v)
           /\ \A v : Suman(n, g, v) => v \in Nat
<1> DEFINE Malos == {m \in 0 .. n : ~(\E v : Suman(m, g, v))}
<1>1. \A v : Suman(n, g, v) => v \in Nat
  BY DEF Suman, Acumula
<1>2. SUFFICES ASSUME Malos # {} PROVE FALSE
  <2>1. n \in 0 .. n
    OBVIOUS
  <2>. QED
    BY <1>1, <2>1
<1>3. Malos \subseteq Nat
  OBVIOUS
<1>4. PICK m \in Malos : \A x \in Malos : m <= x
  <2> HIDE DEF Malos
  <2>. QED
    BY <1>2, <1>3, MinimoNatural
<1>5. Suman(0, g, 0)
  BY SumanNinguno
<1>6. /\ m \in 1 .. n /\ ~(\E v : Suman(m, g, v)) /\ m - 1 \in 0 .. n
      /\ m - 1 \in Nat /\ (m - 1) + 1 = m /\ ~(m <= m - 1)
  BY <1>4, <1>5
<1>7. PICK v : Suman(m - 1, g, v)
  BY <1>4, <1>6
<1>8. g[(m - 1) + 1] \in Nat
  BY <1>6
<1>9. Suman((m - 1) + 1, g, v + g[(m - 1) + 1])
  <2> HIDE DEF Malos
  <2>. QED
    BY <1>6, <1>7, <1>8, SumanCrece
<1>. QED
  BY <1>6, <1>9

\* Two functions that differ in one place, and what they add up to.
LEMMA SumanSinUno ==
    ASSUME NEW n \in Nat, NEW g \in [1 .. n -> Nat], NEW h \in [1 .. n -> Nat],
           NEW x \in 1 .. n, NEW v, NEW w,
           h = [g EXCEPT ![x] = 0], Suman(n, g, v), Suman(n, h, w)
    PROVE  v = w + g[x]
<1>1. PICK P : Acumula(n, g, P) /\ P[n] = v
  BY DEF Suman
<1>2. PICK Q : Acumula(n, h, Q) /\ Q[n] = w
  BY DEF Suman
<1> DEFINE Bien(m) == P[m] = Q[m] + (IF x <= m THEN g[x] ELSE 0)
           Malos == {m \in 0 .. n : ~Bien(m)}
<1>3. SUFFICES ASSUME Malos # {} PROVE FALSE
  <2>1. n \in 0 .. n /\ x <= n
    OBVIOUS
  <2>. QED
    BY <1>1, <1>2, <2>1
<1>4. PICK m \in Malos : \A y \in Malos : m <= y
  <2>1. Malos \subseteq Nat
    OBVIOUS
  <2> HIDE DEF Malos
  <2>. QED
    BY <1>3, <2>1, MinimoNatural
<1>5. Bien(0)
  BY <1>1, <1>2 DEF Acumula
<1>6. m \in 1 .. n /\ m - 1 \in 0 .. n /\ ~(m <= m - 1)
  BY <1>4, <1>5
<1>7. Bien(m - 1)
  BY <1>4, <1>6
<1>8. P[m] = P[m - 1] + g[m] /\ Q[m] = Q[m - 1] + h[m]
  BY <1>1, <1>2, <1>6 DEF Acumula
<1>9. /\ P[m - 1] \in Nat /\ Q[m - 1] \in Nat /\ g[m] \in Nat /\ h[m] \in Nat
      /\ g[x] \in Nat
  BY <1>1, <1>2, <1>6 DEF Acumula
<1>10. h[m] = IF m = x THEN 0 ELSE g[m]
  BY <1>6
<1>11. Bien(m)
  <2>1. CASE m = x
    <3>1. ~(x <= m - 1) /\ x <= m
      BY <1>6, <2>1
    <3>. QED
      BY <1>7, <1>8, <1>9, <1>10, <2>1, <3>1
  <2>2. CASE m # x
    <3>1. x <= m - 1 <=> x <= m
      BY <1>6, <2>2
    <3>. QED
      BY <1>7, <1>8, <1>9, <1>10, <2>2, <3>1
  <2>. QED
    BY <2>1, <2>2
<1>. QED
  BY <1>4, <1>11

\* Nothing adds up to zero.
LEMMA SumanNada ==
    ASSUME NEW n \in Nat, NEW g, \A j \in 1 .. n : g[j] = 0, NEW v, Suman(n, g, v)
    PROVE  v = 0
<1>1. PICK P : Acumula(n, g, P) /\ P[n] = v
  BY DEF Suman
<1> DEFINE Malos == {m \in 0 .. n : P[m] # 0}
<1>2. SUFFICES ASSUME Malos # {} PROVE FALSE
  BY <1>1
<1>3. PICK m \in Malos : \A y \in Malos : m <= y
  <2>1. Malos \subseteq Nat
    OBVIOUS
  <2> HIDE DEF Malos
  <2>. QED
    BY <1>2, <2>1, MinimoNatural
<1>4. m \in 1 .. n /\ m - 1 \in 0 .. n /\ ~(m <= m - 1)
  BY <1>1, <1>3 DEF Acumula
<1>5. P[m - 1] = 0 /\ P[m] = P[m - 1] + g[m] /\ g[m] = 0
  BY <1>1, <1>3, <1>4 DEF Acumula
<1>. QED
  BY <1>3, <1>5

\* The values of g on s, and nothing elsewhere.
Restringida(g, s) == [j \in DOMAIN g |-> IF j \in s THEN g[j] ELSE 0]

Elegido(s) == CHOOSE x \in s : TRUE

\* F is the recursive function that MapThenSumSet defines for g.
EsSuma(n, g, F) ==
    F = [s \in SUBSET (1 .. n) |->
            IF s = {} THEN 0 ELSE g[Elegido(s)] + F[s \ {Elegido(s)}]]

\* What s adds up to, with and without one of its elements.
LEMMA SumanSinElegido ==
    ASSUME NEW n \in Nat, NEW g \in [1 .. n -> Nat],
           NEW s \in SUBSET (1 .. n), s # {},
           NEW v, Suman(n, Restringida(g, s), v),
           NEW w, Suman(n, Restringida(g, s \ {Elegido(s)}), w)
    PROVE  v = g[Elegido(s)] + w
<1> DEFINE x == Elegido(s)
           a == Restringida(g, s)
           b == Restringida(g, s \ {x})
<1>0. Suman(n, a, v) /\ Suman(n, b, w)
  OBVIOUS
<1>1. x \in s /\ x \in 1 .. n
  BY DEF Elegido
<1> HIDE DEF x
<1>2. /\ a \in [1 .. n -> Nat] /\ b \in [1 .. n -> Nat] /\ a[x] = g[x]
      /\ b = [a EXCEPT ![x] = 0]
  BY <1>1 DEF Restringida
<1>3. v \in Nat /\ w \in Nat /\ g[x] \in Nat /\ a[x] \in Nat
  BY <1>0, <1>1, <1>2, SumanAlgo
<1> HIDE DEF a, b
<1>4. \A y \in 1 .. n, h \in [1 .. n -> Nat] :
          h = [a EXCEPT ![y] = 0] /\ Suman(n, h, w) => v = w + a[y]
  BY <1>0, <1>2, SumanSinUno
<1>5. v = w + a[x]
  BY <1>0, <1>1, <1>2, <1>4
<1>. QED
  BY <1>2, <1>3, <1>5 DEF x

LEMMA HaySuma ==
    ASSUME NEW n \in Nat, NEW g \in [1 .. n -> Nat]
    PROVE  \E F : EsSuma(n, g, F)
<1> DEFINE V == SUBSET (1 .. n)
           A(s) == CHOOSE v : Suman(n, Restringida(g, s), v)
           F == [s \in V |-> A(s)]
<1>1. ASSUME NEW s \in V PROVE Suman(n, Restringida(g, s), A(s))
  <2>1. Restringida(g, s) \in [1 .. n -> Nat]
    BY DEF Restringida
  <2>2. \E v : Suman(n, Restringida(g, s), v)
    BY <2>1, SumanAlgo
  <2>. QED
    BY <2>2
<1> HIDE DEF A
<1>2. ASSUME NEW s \in V
      PROVE  F[s] = IF s = {} THEN 0 ELSE g[Elegido(s)] + F[s \ {Elegido(s)}]
  <2>1. CASE s = {}
    <3>1. \A j \in 1 .. n : Restringida(g, s)[j] = 0
      BY <2>1 DEF Restringida
    <3>. QED
      BY <1>1, <2>1, <3>1, SumanNada
  <2>2. CASE s # {}
    <3>1. s \ {Elegido(s)} \in V
      OBVIOUS
    <3>2. A(s) = g[Elegido(s)] + A(s \ {Elegido(s)})
      BY <1>1, <2>2, <3>1, SumanSinElegido
    <3>. QED
      BY <2>2, <3>1, <3>2
  <2>. QED
    BY <2>1, <2>2
<1>3. F = [s \in V |-> IF s = {} THEN 0 ELSE g[Elegido(s)] + F[s \ {Elegido(s)}]]
  <2>1. F = [s \in V |-> F[s]]
    OBVIOUS
  <2> HIDE DEF F
  <2>. QED
    BY <1>2, <2>1
<1> HIDE DEF F
<1>. QED
  BY <1>3 DEF EsSuma

LEMMA EsLoQueSuman ==
    ASSUME NEW n \in Nat, NEW g \in [1 .. n -> Nat], NEW F, EsSuma(n, g, F),
           NEW s \in SUBSET (1 .. n), NEW v, Suman(n, Restringida(g, s), v)
    PROVE  F[s] = v
<1> DEFINE V == SUBSET (1 .. n)
           Bien(t) == \A w : Suman(n, Restringida(g, t), w) => F[t] = w
           Malos == {c \in Nat : \E t \in V : Cardinality(t) = c /\ ~Bien(t)}
<1>0. \A t \in V : IsFiniteSet(t) /\ Cardinality(t) \in Nat
  <2>1. IsFiniteSet(1 .. n)
    BY FS_Interval
  <2>. QED
    BY <2>1, FS_Subset, FS_CardinalityType
<1>1. SUFFICES ASSUME Malos # {} PROVE FALSE
  BY <1>0
<1>2. PICK c \in Malos : \A y \in Malos : c <= y
  <2>1. Malos \subseteq Nat
    OBVIOUS
  <2> HIDE DEF Malos
  <2>. QED
    BY <1>1, <2>1, MinimoNatural
<1>3. PICK t \in V : Cardinality(t) = c /\ ~Bien(t)
  BY <1>2
<1>4. PICK w : Suman(n, Restringida(g, t), w) /\ F[t] # w
  BY <1>3
<1>5. F[t] = IF t = {} THEN 0 ELSE g[Elegido(t)] + F[t \ {Elegido(t)}]
  BY Zenon DEF EsSuma
<1>6. CASE t = {}
  <2>1. \A j \in 1 .. n : Restringida(g, t)[j] = 0
    BY <1>6 DEF Restringida
  <2>. QED
    BY <1>4, <1>5, <1>6, <2>1, SumanNada
<1>7. CASE t # {}
  <2> DEFINE u == t \ {Elegido(t)}
  <2>1. u \in V /\ Elegido(t) \in t
    BY <1>7 DEF Elegido
  <2>2. Cardinality(u) = c - 1 /\ c \in Nat /\ Cardinality(u) \in Nat
    BY <1>0, <1>3, <2>1, FS_RemoveElement
  <2>3. Cardinality(u) \notin Malos
    <3>1. ~(c <= Cardinality(u))
      BY <2>2
    <3> HIDE DEF Malos, u
    <3>. QED
      BY <1>2, <3>1
  <2>4. Bien(u)
    BY <2>1, <2>2, <2>3
  <2>5. PICK z : Suman(n, Restringida(g, u), z)
    <3>1. Restringida(g, u) \in [1 .. n -> Nat]
      BY DEF Restringida
    <3>. QED
      BY <3>1, SumanAlgo
  <2>6. F[u] = z
    BY <2>4, <2>5
  <2>7. w = g[Elegido(t)] + z
    BY <1>4, <1>7, <2>5, SumanSinElegido
  <2>. QED
    BY <1>4, <1>5, <1>7, <2>6, <2>7
<1>. QED
  BY <1>6, <1>7
-----------------------------------------------------------------------------
(***************************************************************************)
(* FoldLeft defines a recursive function on the sets of indices, and what  *)
(* is known of such a function starts with a proof that there is one.      *)
(***************************************************************************)

\* F goes through each set of indices in order, starting with b, and P says what
\* is made of the value so far and an index.
EsRecorrido(V, P, b, m, F) ==
    /\ F \in [SUBSET (1 .. m) -> V]
    /\ \A s \in SUBSET (1 .. m) :
          F[s] = IF s = {} THEN b ELSE P[<<F[s \ {Max(s)}], Max(s)>>]

\* The maximum of a set of indices that holds the last one.
LEMMA MaximoDeIntervalo ==
    ASSUME NEW m \in Nat, NEW s \in SUBSET (1 .. m + 1), m + 1 \in s
    PROVE  Max(s) = m + 1
<1>1. \A x \in s : (\A y \in s : x >= y) => x = m + 1
  OBVIOUS
<1>2. \A y \in s : m + 1 >= y
  OBVIOUS
<1>. QED
  BY <1>1, <1>2 DEF Max

LEMMA RecorridoCrece ==
    ASSUME NEW V, NEW b \in V, NEW P, \A v \in V : \A i \in Nat : P[<<v, i>>] \in V,
           NEW m \in Nat, NEW F, EsRecorrido(V, P, b, m, F)
    PROVE  \E G : EsRecorrido(V, P, b, m + 1, G)
<1> DEFINE U == SUBSET (1 .. m)
           W == SUBSET (1 .. m + 1)
           G == [s \in W |-> IF m + 1 \in s THEN P[<<F[s \ {m + 1}], m + 1>>] ELSE F[s]]
<1>1. \A s \in W : m + 1 \notin s => s \in U
  OBVIOUS
<1>2. \A s \in W : s \ {m + 1} \in U
  OBVIOUS
<1>3. \A s \in U : m + 1 \notin s /\ s \in W
  OBVIOUS
<1>4. /\ F \in [U -> V]
      /\ \A s \in U : F[s] = IF s = {} THEN b ELSE P[<<F[s \ {Max(s)}], Max(s)>>]
  BY DEF EsRecorrido
<1>5. \A s \in W : m + 1 \in s => Max(s) = m + 1
  BY MaximoDeIntervalo
<1>6. \A x : \A s \in U : s \ {x} \in U
  OBVIOUS
<1>7. m + 1 \in Nat
  OBVIOUS
<1> HIDE DEF U, W
<1>8. \A s \in U : G[s] = F[s]
  BY <1>3
<1>9. ASSUME NEW s \in W
      PROVE  G[s] = IF s = {} THEN b ELSE P[<<G[s \ {Max(s)}], Max(s)>>]
  <2>1. CASE m + 1 \in s
    <3>1. G[s] = P[<<F[s \ {m + 1}], m + 1>>]
      BY <2>1
    <3>2. G[s \ {m + 1}] = F[s \ {m + 1}]
      BY <1>2, <1>8
    <3>3. Max(s) = m + 1 /\ s # {}
      BY <1>5, <2>1
    <3> HIDE DEF G
    <3>. QED
      BY <3>1, <3>2, <3>3, Zenon
  <2>2. CASE m + 1 \notin s
    <3>1. s \in U
      BY <1>1, <2>2
    <3>2. G[s] = F[s] /\ G[s \ {Max(s)}] = F[s \ {Max(s)}]
      BY <1>6, <1>8, <3>1
    <3> HIDE DEF G
    <3>. QED
      BY <1>4, <3>1, <3>2, Zenon
  <2>. QED
    BY <2>1, <2>2
<1>10. G \in [W -> V]
  <2>1. ASSUME NEW s \in W PROVE (IF m + 1 \in s THEN P[<<F[s \ {m + 1}], m + 1>>] ELSE F[s]) \in V
    BY <1>1, <1>2, <1>4, <1>7
  <2>. QED
    BY <2>1
<1> HIDE DEF G
<1>. QED
  BY <1>9, <1>10 DEF EsRecorrido, W

\* There is such a function for every prefix: consider the first without one.
LEMMA HayRecorrido ==
    ASSUME NEW V, NEW b \in V, NEW P, \A v \in V : \A i \in Nat : P[<<v, i>>] \in V,
           NEW n \in Nat
    PROVE  \E F : EsRecorrido(V, P, b, n, F)
<1> DEFINE Malos == {m \in Nat : ~(\E F : EsRecorrido(V, P, b, m, F))}
<1>1. SUFFICES ASSUME Malos # {} PROVE FALSE
  OBVIOUS
<1>2. Malos \subseteq Nat
  OBVIOUS
<1>3. PICK m \in Malos : \A x \in Malos : m <= x
  <2> HIDE DEF Malos
  <2>. QED
    BY <1>1, <1>2, MinimoNatural
<1>4. \E F : EsRecorrido(V, P, b, 0, F)
  <2> DEFINE F == [s \in SUBSET (1 .. 0) |-> b]
  <2>1. \A s \in SUBSET (1 .. 0) : s = {}
    OBVIOUS
  <2>2. EsRecorrido(V, P, b, 0, F)
    BY <2>1 DEF EsRecorrido
  <2>. QED
    BY <2>2
<1>5. m \in Nat /\ m # 0 /\ ~(\E F : EsRecorrido(V, P, b, m, F))
  BY <1>3, <1>4
<1>6. m - 1 \in Nat /\ ~(m <= m - 1)
  BY <1>5
<1>7. m - 1 \notin Malos
  BY <1>3, <1>6
<1>8. PICK F : EsRecorrido(V, P, b, m - 1, F)
  BY <1>6, <1>7
<1>9. \E G : EsRecorrido(V, P, b, m - 1 + 1, G)
  <2> HIDE DEF Malos
  <2>. QED
    BY <1>6, <1>8, RecorridoCrece
<1>10. m - 1 + 1 = m
  BY <1>5
<1>. QED
  BY <1>5, <1>9, <1>10

\* The set of the first n indices.
LEMMA Prefijo ==
    ASSUME NEW m \in Nat, NEW n \in 1 .. m
    PROVE  /\ 1 .. n \in SUBSET (1 .. m) /\ 1 .. n # {} /\ Max(1 .. n) = n
           /\ (1 .. n) \ {n} = 1 .. n - 1 /\ 1 .. n - 1 \in SUBSET (1 .. m)
<1>1. n \in 1 .. n /\ n - 1 \in Nat /\ n - 1 + 1 = n
  OBVIOUS
<1>2. 1 .. n \in SUBSET (1 .. m) /\ 1 .. n - 1 \in SUBSET (1 .. m)
  OBVIOUS
<1>3. (1 .. n) \ {n} = 1 .. n - 1
  OBVIOUS
<1>4. Max(1 .. n) = n
  BY <1>1, MaximoDeIntervalo
<1>. QED
  BY <1>1, <1>2, <1>3, <1>4

\* The values of a recursive function of one number, one after another.
EsSerie(V, P, b, n, f) ==
    /\ f \in [0 .. n -> V] /\ f[0] = b
    /\ \A i \in 1 .. n : f[i] = P[<<f[i - 1], i>>]

LEMMA HaySerie ==
    ASSUME NEW V, NEW b \in V, NEW P, \A v \in V : \A i \in Nat : P[<<v, i>>] \in V,
           NEW n \in Nat
    PROVE  \E f : EsSerie(V, P, b, n, f)
<1>1. PICK F : EsRecorrido(V, P, b, n, F)
  BY HayRecorrido
<1> DEFINE f == [i \in 0 .. n |-> F[1 .. i]]
<1>2. \A i \in 0 .. n : 1 .. i \in SUBSET (1 .. n)
  OBVIOUS
<1>3. f \in [0 .. n -> V]
  BY <1>1, <1>2 DEF EsRecorrido
<1>4. f[0] = b
  <2>1. 1 .. 0 = {} /\ f[0] = F[1 .. 0] /\ {} \in SUBSET (1 .. n)
    OBVIOUS
  <2>. QED
    BY <1>1, <2>1 DEF EsRecorrido
<1>5. ASSUME NEW i \in 1 .. n PROVE f[i] = P[<<f[i - 1], i>>]
  <2>1. /\ 1 .. i \in SUBSET (1 .. n) /\ 1 .. i # {} /\ Max(1 .. i) = i
        /\ (1 .. i) \ {i} = 1 .. i - 1
    BY Prefijo
  <2>2. f[i] = F[1 .. i] /\ f[i - 1] = F[1 .. i - 1]
    OBVIOUS
  <2> HIDE DEF f
  <2>3. F[1 .. i] = P[<<F[(1 .. i) \ {Max(1 .. i)}], Max(1 .. i)>>]
    BY <1>1, <2>1, Zenon DEF EsRecorrido
  <2>. QED
    BY <2>1, <2>2, <2>3, Zenon
<1> HIDE DEF f
<1>. QED
  BY <1>3, <1>4, <1>5 DEF EsSerie
\* Each of the values is within what they add up to.
LEMMA SumanCubre ==
    ASSUME NEW n \in Nat, NEW g \in [1 .. n -> Nat], NEW v, Suman(n, g, v), NEW k \in 1 .. n
    PROVE  g[k] <= v
<1>1. PICK P : Acumula(n, g, P) /\ P[n] = v
  BY DEF Suman
<1>2. /\ P \in [0 .. n -> Nat] /\ P[0] = 0
      /\ \A j \in 1 .. n : P[j] = P[j - 1] + g[j]
  BY <1>1 DEF Acumula
<1> DEFINE Malos == {m \in k .. n : ~(g[k] <= P[m])}
<1>3. SUFFICES ASSUME Malos # {} PROVE FALSE
  BY <1>1
<1>4. PICK m \in Malos : \A y \in Malos : m <= y
  <2>1. Malos \subseteq Nat
    OBVIOUS
  <2> HIDE DEF Malos
  <2>. QED
    BY <1>3, <2>1, MinimoNatural
<1>5. m \in 1 .. n /\ m - 1 \in 0 .. n /\ ~(m <= m - 1) /\ ~(g[k] <= P[m])
  BY <1>4
<1>6. P[m] = P[m - 1] + g[m] /\ P[m - 1] \in Nat /\ g[m] \in Nat
  BY <1>2, <1>5
<1>7. m # k
  BY <1>5, <1>6
<1>8. m - 1 \in k .. n /\ m - 1 \notin Malos
  BY <1>4, <1>5, <1>7
<1>9. g[k] <= P[m - 1] /\ g[k] \in Nat
  BY <1>8
<1>. QED
  BY <1>5, <1>6, <1>9
=============================================================================
