-------------------------- MODULE FontTableProofs --------------------------
(***************************************************************************)
(* The scan of find_system_fonts.py ends with the largest table of names,  *)
(* in every image.  The reference of FontTable speaks of the image as a    *)
(* whole; the invariant speaks of the items read so far, of which the scan *)
(* holds one table that may still grow and the largest of all of them.     *)
(***************************************************************************)
EXTENDS FontTable, NaturalLemmas, FunctionTheorems, FiniteSetTheorems, TLAPS

-----------------------------------------------------------------------------
(* Tables among any set of items.                                          *)

Near(i, j) == j <= i + 3 /\ i <= j + 3

IsTable(t, S) ==
  /\ t # {} /\ t \subseteq S
  /\ \A i \in t, j \in S : Near(i, j) => j \in t
  /\ \A i, j \in t : i < j => \E k \in t : i < k /\ k <= i + 3

\* A non-empty bounded set of naturals has a greatest element.
LEMMA GreatestNat ==
  ASSUME NEW S, S \subseteq Nat, S # {}, NEW b \in Nat, \A x \in S : x <= b
  PROVE  \E m \in S : \A k \in S : k <= m
<1> DEFINE D == { b - z : z \in S }
<1>1. D \subseteq Nat /\ D # {}
  <2>1. \A z \in S : b - z \in Nat
    OBVIOUS
  <2> QED BY <2>1
<1> HIDE DEF D
<1>2. PICK d \in D : \A e \in D : d <= e
  BY <1>1, LeastNat
<1>3. PICK m \in S : d = b - m
  BY <1>2 DEF D
<1>4. ASSUME NEW k \in S PROVE k <= m
  <2>1. b - k \in D        BY DEF D
  <2>2. b - m <= b - k     BY <1>2, <1>3, <2>1
  <2> QED                  BY <2>2
<1> QED BY <1>4

\* Two tables that share an item are one: neither has an item the other lacks.
LEMMA SharedWithin ==
  ASSUME NEW S, S \subseteq Nat, NEW t, NEW u, IsTable(t, S), IsTable(u, S),
         NEW x \in t, x \in u
  PROVE  t \subseteq u
<1> t \subseteq Nat /\ u \subseteq Nat
  BY DEF IsTable
<1>1. ASSUME NEW y \in t, y \notin u, x < y PROVE FALSE
  <2> DEFINE Missing == { z \in t : z \notin u /\ x < z }
  <2>1. Missing \subseteq Nat /\ Missing # {}
    BY <1>1
  <2>2. PICK m \in Missing : \A k \in Missing : m <= k
    BY <2>1, LeastNat
  <2> DEFINE Below == { z \in t : z < m }
  <2>3. Below \subseteq Nat /\ x \in Below /\ (\A z \in Below : z <= m) /\ m \in Nat
    <3>1. m \in t /\ m \in Nat /\ x < m  OBVIOUS
    <3>2. Below \subseteq t               OBVIOUS
    <3>3. \A z \in Below : z < m          OBVIOUS
    <3>4. x \in Below                     BY <3>1
    <3> HIDE DEF Below, Missing
    <3>5. Below \subseteq Nat             BY <3>2
    <3>6. \A z \in Below : z <= m         BY <3>1, <3>3, <3>5
    <3> QED BY <3>1, <3>4, <3>5, <3>6
  <2>4. PICK g \in Below : \A k \in Below : k <= g
    <3> HIDE DEF Below, Missing
    <3> QED BY <2>3, GreatestNat
  <2>5. g \in t /\ g < m /\ x <= g
    BY <2>3, <2>4
  <2>6. g \in u
    <3>1. g \notin Missing     BY <2>2, <2>5
    <3> QED                    BY <2>5, <3>1
  <2>7. PICK k \in t : g < k /\ k <= g + 3
    BY <2>5 DEF IsTable
  <2>8. m <= k
    BY <2>4, <2>7
  <2>9. Near(g, m)
    BY <2>5, <2>7, <2>8 DEF Near
  <2>10. m \in u
    BY <2>6, <2>9 DEF IsTable
  <2> QED BY <2>10
<1>2. ASSUME NEW y \in t, y \notin u, y < x PROVE FALSE
  <2> DEFINE Missing == { z \in t : z \notin u /\ z < x }
  <2>1. Missing \subseteq Nat /\ Missing # {} /\ (\A z \in Missing : z <= x) /\ x \in Nat
    <3>1. y \in Missing                   BY <1>2
    <3>2. Missing \subseteq t             OBVIOUS
    <3>3. \A z \in Missing : z < x        OBVIOUS
    <3> HIDE DEF Missing
    <3>4. Missing \subseteq Nat           BY <3>2
    <3>5. \A z \in Missing : z <= x       BY <3>3, <3>4
    <3> QED BY <3>1, <3>4, <3>5
  <2>2. PICK m \in Missing : \A k \in Missing : k <= m
    <3> HIDE DEF Missing
    <3> QED BY <2>1, GreatestNat
  <2>3. PICK k \in t : m < k /\ k <= m + 3
    BY DEF IsTable
  <2>4. CASE x < k
    <3>1. Near(x, m)           BY <2>3, <2>4 DEF Near
    <3>2. m \in u              BY <3>1 DEF IsTable
    <3> QED                    BY <3>2
  <2>5. CASE k <= x
    <3>1. k \in u              BY <2>2, <2>3, <2>5
    <3>2. Near(k, m)           BY <2>3 DEF Near
    <3>3. m \in u              BY <3>1, <3>2 DEF IsTable
    <3> QED                    BY <3>3
  <2> QED BY <2>4, <2>5
<1> QED BY <1>1, <1>2

LEMMA SharedEqual ==
  ASSUME NEW S, S \subseteq Nat, NEW t, NEW u, IsTable(t, S), IsTable(u, S),
         NEW x \in t, x \in u
  PROVE  t = u
<1>1. t \subseteq u  BY SharedWithin
<1>2. u \subseteq t  BY SharedWithin
<1> QED BY <1>1, <1>2

\* The table of the last item lies behind all others.
LEMMA LastBehind ==
  ASSUME NEW S, S \subseteq Nat, NEW t, NEW u, IsTable(t, S), IsTable(u, S), t # u,
         NEW g \in u, \A i \in S : i <= g,
         NEW i \in t, NEW j \in u
  PROVE  i < j
<1> t \subseteq S /\ u \subseteq S /\ t \subseteq Nat /\ u \subseteq Nat
  BY DEF IsTable
<1>1. i \notin u
  BY SharedEqual
<1> SUFFICES ASSUME j <= i PROVE FALSE
  OBVIOUS
<1> DEFINE Below == { z \in u : z <= i }
<1>2. Below \subseteq Nat /\ Below # {} /\ (\A z \in Below : z <= i) /\ i \in Nat
  OBVIOUS
<1>3. PICK a \in Below : \A k \in Below : k <= a
  <2> HIDE DEF Below
  <2> QED BY <1>2, GreatestNat
<1>4. a \in u /\ a < i /\ i <= g
  BY <1>1, <1>3
<1>5. PICK k \in u : a < k /\ k <= a + 3
  BY <1>4 DEF IsTable
<1>6. i < k
  BY <1>3, <1>5
<1>7. Near(a, i)
  BY <1>4, <1>5, <1>6 DEF Near
<1>8. i \in u
  BY <1>4, <1>7 DEF IsTable
<1> QED BY <1>1, <1>8

-----------------------------------------------------------------------------
(* One more item.                                                          *)

\* An item at most three words behind the last one belongs to its table, and
\* changes no other.
LEMMA GrowNear ==
  ASSUME NEW S, S \subseteq Nat, NEW c, IsTable(c, S),
         NEW g \in c, \A i \in S : i <= g,
         NEW p \in Nat, g < p, p <= g + 3
  PROVE  /\ IsTable(c \union {p}, S \union {p})
         /\ \A t : IsTable(t, S) /\ t # c => IsTable(t, S \union {p})
         /\ \A t : IsTable(t, S \union {p}) /\ t # c \union {p} => IsTable(t, S) /\ t # c
<1> c \subseteq S /\ c \subseteq Nat
  BY DEF IsTable
<1> DEFINE SS == S \union {p}
           cc == c \union {p}
<1>1. IsTable(cc, SS)
  <2>1. cc # {} /\ cc \subseteq SS
    OBVIOUS
  <2>2. ASSUME NEW i \in cc, NEW j \in SS, Near(i, j) PROVE j \in cc
    <3>1. CASE j = p  BY <3>1
    <3>2. CASE i \in c /\ j \in S  BY <2>2, <3>2 DEF IsTable
    <3>3. CASE i = p /\ j \in S
      <4>1. Near(g, j)        BY <2>2, <3>3 DEF Near
      <4> QED                 BY <3>3, <4>1 DEF IsTable
    <3> QED BY <3>1, <3>2, <3>3
  <2>3. ASSUME NEW i \in cc, NEW j \in cc, i < j PROVE \E k \in cc : i < k /\ k <= i + 3
    <3>1. CASE i = g  BY <3>1
    <3>2. i \in c     BY <2>3
    <3>3. CASE i # g
      <4>1. i < g             BY <3>2, <3>3
      <4>2. \E k \in c : i < k /\ k <= i + 3
        BY <3>2, <4>1 DEF IsTable
      <4> QED                 BY <4>2
    <3> QED BY <3>1, <3>3
  <2> HIDE DEF cc, SS
  <2> QED BY <2>1, <2>2, <2>3 DEF IsTable
<1>2. ASSUME NEW t, IsTable(t, S), t # c PROVE IsTable(t, SS)
  <2>0. t # {} /\ t \subseteq SS /\ t \subseteq Nat
    BY <1>2 DEF IsTable
  <2>1. g \notin t
    BY <1>2, SharedEqual
  <2>2. ASSUME NEW i \in t, NEW j \in SS, Near(i, j) PROVE j \in t
    <3>1. CASE j \in S  BY <1>2, <2>2, <3>1 DEF IsTable
    <3>2. CASE j = p
      <4>1. i \in S /\ i <= g  BY <1>2 DEF IsTable
      <4>2. Near(i, g)         BY <2>0, <2>2, <3>2, <4>1 DEF Near
      <4>3. g \in t            BY <1>2, <4>2 DEF IsTable
      <4> QED                  BY <2>1, <4>3
    <3> QED BY <3>1, <3>2
  <2>3. \A i, j \in t : i < j => \E k \in t : i < k /\ k <= i + 3
    BY <1>2 DEF IsTable
  <2> HIDE DEF SS
  <2> QED BY <2>0, <2>2, <2>3 DEF IsTable
<1>3. ASSUME NEW t, IsTable(t, SS), t # cc PROVE IsTable(t, S) /\ t # c
  <2>1. p \notin t
    <3>1. SS \subseteq Nat /\ p \in cc  OBVIOUS
    <3> HIDE DEF SS, cc
    <3> QED BY <1>1, <1>3, <3>1, SharedEqual
  <2>2. t # c
    <3>1. Near(g, p)           BY DEF Near
    <3> QED                    BY <1>3, <2>1, <3>1 DEF IsTable
  <2>3. IsTable(t, S)
    BY <1>3, <2>1 DEF IsTable
  <2> QED BY <2>2, <2>3
<1> QED BY <1>1, <1>2, <1>3

\* An item further behind begins a table of its own.
LEMMA GrowFar ==
  ASSUME NEW S, S \subseteq Nat, NEW p \in Nat, \A i \in S : i + 3 < p
  PROVE  /\ IsTable({p}, S \union {p})
         /\ \A t : IsTable(t, S) => IsTable(t, S \union {p})
         /\ \A t : IsTable(t, S \union {p}) /\ t # {p} => IsTable(t, S)
<1> DEFINE SS == S \union {p}
<1>1. IsTable({p}, SS)
  <2>1. ASSUME NEW j \in SS, Near(p, j) PROVE j = p
    BY <2>1 DEF Near
  <2>2. \A i, j \in {p} : ~(i < j)
    OBVIOUS
  <2>3. {p} \subseteq SS
    OBVIOUS
  <2> HIDE DEF SS
  <2> QED BY <2>1, <2>2, <2>3 DEF IsTable
<1>2. ASSUME NEW t, IsTable(t, S) PROVE IsTable(t, SS)
  <2>1. ASSUME NEW i \in t, NEW j \in SS, Near(i, j) PROVE j \in t
    <3>1. i \in S /\ j # p     BY <1>2, <2>1 DEF IsTable, Near
    <3> QED                    BY <1>2, <2>1, <3>1 DEF IsTable
  <2>2. /\ t # {} /\ t \subseteq SS
        /\ \A i, j \in t : i < j => \E k \in t : i < k /\ k <= i + 3
    BY <1>2 DEF IsTable
  <2> HIDE DEF SS
  <2> QED BY <2>1, <2>2 DEF IsTable
<1>3. ASSUME NEW t, IsTable(t, SS), t # {p} PROVE IsTable(t, S)
  <2>1. p \notin t
    <3>1. SS \subseteq Nat /\ p \in {p}  OBVIOUS
    <3> HIDE DEF SS
    <3> QED BY <1>1, <1>3, <3>1, SharedEqual
  <2> QED BY <1>3, <2>1 DEF IsTable
<1> QED BY <1>1, <1>2, <1>3

-----------------------------------------------------------------------------
(* Dictionaries.                                                           *)

\* The last of the items with a name.
IsLast(w, t, n, i) ==
  i \in t /\ w[i - 1].name = n /\ \A j \in t : w[j - 1].name = n => j <= i

LEMMA LastItemIs ==
  ASSUME NEW w, NEW t, t \subseteq Nat, NEW n, NEW i, IsLast(w, t, n, i)
  PROVE  LastItem(w, t, n) = i
<1>1. \A k : IsLast(w, t, n, k) => k = i
  <2> SUFFICES ASSUME NEW k, IsLast(w, t, n, k) PROVE k = i
    OBVIOUS
  <2>1. i <= k /\ k <= i        BY DEF IsLast
  <2>2. i \in Nat /\ k \in Nat  BY DEF IsLast
  <2> QED BY <2>1, <2>2
<1>2. i \in t
  BY DEF IsLast
<1> DEFINE P(k) == w[k - 1].name = n /\ \A j \in t : w[j - 1].name = n => j <= k
<1>3. \A k : IsLast(w, t, n, k) <=> k \in t /\ P(k)
  BY DEF IsLast
<1>4. LastItem(w, t, n) = CHOOSE k \in t : P(k)
  BY DEF LastItem
<1> HIDE DEF P
<1> QED BY <1>1, <1>2, <1>3, <1>4

LEMMA LastItemExists ==
  ASSUME NEW w, NEW b \in Nat, NEW t, t \subseteq Nat, \A i \in t : i <= b,
         NEW n \in Names(w, t)
  PROVE  \E i \in t : IsLast(w, t, n, i)
<1> DEFINE A == { i \in t : w[i - 1].name = n }
<1>1. A \subseteq Nat /\ A # {} /\ \A i \in A : i <= b
  BY DEF Names
<1>2. \A i : i \in A <=> i \in t /\ w[i - 1].name = n
  OBVIOUS
<1> HIDE DEF A
<1>3. PICK m \in A : \A k \in A : k <= m
  BY <1>1, GreatestNat
<1> QED BY <1>2, <1>3 DEF IsLast

\* A new item behind the others is put into the dictionary.
LEMMA DictionaryGrows ==
  ASSUME NEW w, NEW t, t \subseteq Nat, NEW p \in Nat, \A i \in t : i < p
  PROVE  /\ Names(w, t \union {p}) = Names(w, t) \union {w[p - 1].name}
         /\ Dictionary(w, t \union {p}) = put(Dictionary(w, t), w[p - 1].name, w[p].id)
<1> DEFINE tt == t \union {p}
           n0 == w[p - 1].name
           d == Dictionary(w, t)
<1>1. Names(w, tt) = Names(w, t) \union {n0}
  BY DEF Names
<1>2. LastItem(w, tt, n0) = p
  <2>1. tt \subseteq Nat /\ p \in tt /\ \A j \in tt : j <= p
    OBVIOUS
  <2>2. IsLast(w, tt, n0, p)
    BY <2>1 DEF IsLast
  <2> QED BY <2>1, <2>2, LastItemIs
<1>3. ASSUME NEW n \in Names(w, t), n # n0 PROVE LastItem(w, tt, n) = LastItem(w, t, n)
  <2>1. \A i \in t : i <= p
    OBVIOUS
  <2>2. PICK i \in t : IsLast(w, t, n, i)
    BY <2>1, LastItemExists
  <2>3. LastItem(w, t, n) = i
    BY <2>2, LastItemIs
  <2>4. IsLast(w, tt, n, i) /\ tt \subseteq Nat
    BY <1>3, <2>2 DEF IsLast
  <2>5. LastItem(w, tt, n) = i
    BY <2>4, LastItemIs
  <2> QED BY <2>3, <2>5
<1>4. Dictionary(w, tt) = [n \in Names(w, tt) |-> w[LastItem(w, tt, n)].id]
  BY DEF Dictionary
<1>5. DOMAIN d = Names(w, t) /\ \A n \in Names(w, t) : d[n] = w[LastItem(w, t, n)].id
  BY DEF Dictionary
<1>6. put(d, n0, w[p].id) = [n \in Names(w, t) \union {n0} |-> IF n = n0 THEN w[p].id ELSE d[n]]
  BY <1>5 DEF put
<1>7. ASSUME NEW n \in Names(w, t) \union {n0}
      PROVE  w[LastItem(w, tt, n)].id = IF n = n0 THEN w[p].id ELSE d[n]
  BY <1>2, <1>3, <1>5
<1> HIDE DEF d, tt, n0
<1>8. Dictionary(w, tt) = put(d, n0, w[p].id)
  BY <1>1, <1>4, <1>6, <1>7
<1> QED BY <1>1, <1>8 DEF d, tt, n0

LEMMA DictionaryEmpty ==
  ASSUME NEW w
  PROVE  Names(w, {}) = {} /\ Dictionary(w, {}) = NoTable
<1>1. Names(w, {}) = {}
  BY DEF Names
<1>2. Dictionary(w, {}) = [n \in {} |-> w[LastItem(w, {}, n)].id]
  BY <1>1 DEF Dictionary
<1>3. NoTable = [i \in 1 .. 0 |-> i] /\ 1 .. 0 = {}
  BY DEF NoTable
<1> QED BY <1>1, <1>2, <1>3

LEMMA SizeOfDictionary ==
  ASSUME NEW w, NEW t
  PROVE  Size(Dictionary(w, t)) = Cardinality(Names(w, t))
BY DEF Size, Dictionary

\* The number of names is a number, positive, and does not fall with a new item.
LEMMA NamesFinite ==
  ASSUME NEW w, NEW b \in Nat, NEW t, t \subseteq Nat, \A i \in t : i <= b
  PROVE  /\ IsFiniteSet(Names(w, t)) /\ Cardinality(Names(w, t)) \in Nat
         /\ t # {} => Cardinality(Names(w, t)) >= 1
<1> DEFINE N == Names(w, t)
           f == [i \in t |-> w[i - 1].name]
<1>1. IsFiniteSet(t)
  BY FS_BoundedSetOfNaturals
<1>2. f \in Surjection(t, N)
  <2>1. f \in [t -> N]                  BY DEF Names
  <2>2. \A n \in N : \E i \in t : f[i] = n  BY DEF Names
  <2> HIDE DEF f, N
  <2> QED BY <2>1, <2>2, Fun_IsSurj
<1>3. t # {} => N # {}
  BY DEF Names
<1> HIDE DEF f, N
<1>4. IsFiniteSet(N)
  BY <1>1, <1>2, FS_Surjection
<1>5. Cardinality(N) \in Nat
  BY <1>4, FS_CardinalityType
<1>6. t # {} => Cardinality(N) # 0
  BY <1>3, <1>4, FS_EmptySet
<1> QED BY <1>4, <1>5, <1>6 DEF N

LEMMA NamesGrow ==
  ASSUME NEW w, NEW t, t \subseteq Nat, NEW p \in Nat, \A i \in t : i < p
  PROVE  /\ Cardinality(Names(w, t)) \in Nat
         /\ Cardinality(Names(w, t \union {p})) \in Nat
         /\ Cardinality(Names(w, t)) <= Cardinality(Names(w, t \union {p}))
<1>1. \A i \in t : i <= p
  OBVIOUS
<1>2. IsFiniteSet(Names(w, t)) /\ Cardinality(Names(w, t)) \in Nat
  BY <1>1, NamesFinite
<1>3. Names(w, t \union {p}) = Names(w, t) \union {w[p - 1].name}
  BY DictionaryGrows
<1> DEFINE k == Cardinality(Names(w, t))
           kk == Cardinality(Names(w, t \union {p}))
<1>4. kk = IF w[p - 1].name \in Names(w, t) THEN k ELSE k + 1
  BY <1>2, <1>3, FS_AddElement
<1>5. k \in Nat
  BY <1>2
<1> HIDE DEF k, kk
<1>6. kk \in Nat /\ k <= kk
  BY <1>4, <1>5
<1> QED BY <1>5, <1>6 DEF k, kk

-----------------------------------------------------------------------------
(* The largest of the tables read so far.                                  *)

NameCount(w, t) == Cardinality(Names(w, t))

\* u is not to be preferred to f.
NotBetter(w, u, f) ==
  \/ NameCount(w, u) < NameCount(w, f)
  \/ NameCount(w, u) = NameCount(w, f) /\ \A i \in f, j \in u : i < j

IsLargestOf(w, f, S) ==
  /\ IsTable(f, S)
  /\ \A u \in SUBSET S : IsTable(u, S) /\ u # f => NotBetter(w, u, f)

LEMMA TableCount ==
  ASSUME NEW w, NEW S, S \subseteq Nat, NEW p \in Nat, \A i \in S : i < p,
         NEW t, IsTable(t, S)
  PROVE  NameCount(w, t) \in Nat /\ NameCount(w, t) >= 1
<1>1. t \subseteq Nat /\ t # {} /\ \A i \in t : i <= p
  BY DEF IsTable
<1> QED BY <1>1, NamesFinite DEF NameCount

LEMMA NotBetterCount ==
  ASSUME NEW w, NEW u, NEW f, NameCount(w, u) \in Nat, NameCount(w, f) \in Nat, NotBetter(w, u, f)
  PROVE  NameCount(w, u) <= NameCount(w, f)
BY DEF NotBetter

\* The table that grows becomes or stays the largest.
LEMMA GrownLargest ==
  ASSUME NEW w, NEW S, S \subseteq Nat, NEW c, IsTable(c, S),
         NEW g \in c, \A i \in S : i <= g,
         NEW p \in Nat, g < p, p <= g + 3,
         NEW f, IsLargestOf(w, f, S),
         f = c \/ NameCount(w, f) < NameCount(w, c \union {p})
  PROVE  IsLargestOf(w, c \union {p}, S \union {p})
<1> DEFINE cc == c \union {p}
           SS == S \union {p}
<1>1. /\ IsTable(cc, SS)
      /\ \A t : IsTable(t, SS) /\ t # cc => IsTable(t, S) /\ t # c
  BY GrowNear
<1>2. c \subseteq S /\ c \subseteq Nat /\ g \in Nat /\ \A i \in S : i < p
  BY DEF IsTable
<1>3. NameCount(w, c) \in Nat /\ NameCount(w, cc) \in Nat /\ NameCount(w, c) <= NameCount(w, cc)
  <2>1. \A i \in c : i < p  BY <1>2
  <2> QED BY <1>2, <2>1, NamesGrow DEF NameCount
<1>4. IsTable(f, S)
  BY DEF IsLargestOf
<1>5. NameCount(w, f) \in Nat
  BY <1>2, <1>4, TableCount
<1>6. ASSUME NEW u \in SUBSET SS, IsTable(u, SS), u # cc PROVE NotBetter(w, u, cc)
  <2>1. IsTable(u, S) /\ u # c /\ u \in SUBSET S
    BY <1>1, <1>6 DEF IsTable
  <2>2. NameCount(w, u) \in Nat
    BY <1>2, <2>1, TableCount
  <2>3. CASE f = c
    <3>1. NotBetter(w, u, c)
      BY <2>1, <2>3 DEF IsLargestOf
    <3>2. PICK j \in u : TRUE
      BY <2>1 DEF IsTable
    <3>3. j \in Nat /\ ~(g < j)
      BY <1>2, <2>1
    <3>4. NameCount(w, u) < NameCount(w, c)
      BY <3>1, <3>3 DEF NotBetter
    <3> QED BY <1>3, <2>2, <3>4 DEF NotBetter
  <2>4. CASE NameCount(w, f) < NameCount(w, cc)
    <3>1. u = f \/ NotBetter(w, u, f)
      BY <2>1 DEF IsLargestOf
    <3>2. NameCount(w, u) <= NameCount(w, f)
      BY <1>5, <2>2, <3>1, NotBetterCount
    <3> QED BY <1>3, <1>5, <2>2, <2>4, <3>2 DEF NotBetter
  <2> QED BY <2>3, <2>4
<1> HIDE DEF cc, SS
<1>7. IsLargestOf(w, cc, SS)
  BY <1>1, <1>6 DEF IsLargestOf
<1> QED BY <1>7 DEF cc, SS

\* An earlier table stays the largest until the one that grows has more names.
LEMMA KeptLargest ==
  ASSUME NEW w, NEW S, S \subseteq Nat, NEW c, IsTable(c, S),
         NEW g \in c, \A i \in S : i <= g,
         NEW p \in Nat, g < p, p <= g + 3,
         NEW f, IsLargestOf(w, f, S), f # c,
         NameCount(w, c \union {p}) <= NameCount(w, f)
  PROVE  IsLargestOf(w, f, S \union {p}) /\ f # c \union {p}
<1> DEFINE cc == c \union {p}
           SS == S \union {p}
<1>1. /\ IsTable(cc, SS)
      /\ \A t : IsTable(t, S) /\ t # c => IsTable(t, SS)
      /\ \A t : IsTable(t, SS) /\ t # cc => IsTable(t, S) /\ t # c
  BY GrowNear
<1>2. c \subseteq S /\ c \subseteq Nat /\ g \in Nat /\ \A i \in S : i < p
  BY DEF IsTable
<1>3. IsTable(f, S) /\ f \subseteq S
  BY DEF IsLargestOf, IsTable
<1>4. NameCount(w, f) \in Nat /\ NameCount(w, cc) \in Nat
  <2>1. \A i \in c : i < p  BY <1>2
  <2>2. NameCount(w, cc) \in Nat
    BY <1>2, <2>1, NamesGrow DEF NameCount
  <2> QED BY <1>2, <1>3, <2>2, TableCount
<1>5. p \notin f
  BY <1>2, <1>3
<1>6. NotBetter(w, cc, f)
  <2>1. ASSUME NEW i \in f, NEW j \in cc PROVE i < j
    <3>1. CASE j = p   BY <1>2, <1>3, <3>1
    <3>2. CASE j \in c BY <1>3, <3>2, LastBehind
    <3> QED BY <3>1, <3>2
  <2> HIDE DEF cc
  <2>2. NameCount(w, cc) <= NameCount(w, f)  BY DEF cc
  <2> QED BY <1>4, <2>1, <2>2 DEF NotBetter
<1>7. ASSUME NEW u \in SUBSET SS, IsTable(u, SS), u # f PROVE NotBetter(w, u, f)
  <2>1. CASE u = cc  BY <1>6, <2>1
  <2>2. CASE u # cc
    <3>1. IsTable(u, S) /\ u \in SUBSET S
      BY <1>1, <1>7, <2>2 DEF IsTable
    <3> QED BY <1>7, <3>1 DEF IsLargestOf
  <2> QED BY <2>1, <2>2
<1>8. IsTable(f, SS)
  BY <1>1, <1>3
<1>9. f # cc
  BY <1>5
<1> HIDE DEF cc, SS
<1>10. IsLargestOf(w, f, SS)
  BY <1>7, <1>8 DEF IsLargestOf
<1> QED BY <1>9, <1>10 DEF cc, SS

\* A table that begins is the largest only if it is the first.
LEMMA FarLargest ==
  ASSUME NEW w, NEW S, S \subseteq Nat, NEW p \in Nat, \A i \in S : i + 3 < p
  PROVE  /\ NameCount(w, {p}) = 1
         /\ S = {} => IsLargestOf(w, {p}, S \union {p})
         /\ \A f : IsLargestOf(w, f, S) =>
              IsLargestOf(w, f, S \union {p}) /\ f # {p} /\ NameCount(w, f) >= 1 /\ NameCount(w, f) \in Nat
<1> DEFINE SS == S \union {p}
<1>1. /\ IsTable({p}, SS)
      /\ \A t : IsTable(t, S) => IsTable(t, SS)
      /\ \A t : IsTable(t, SS) /\ t # {p} => IsTable(t, S)
  BY GrowFar
<1>2. NameCount(w, {p}) = 1
  <2>1. Names(w, {p}) = {w[p - 1].name}  BY DEF Names
  <2> QED BY <2>1, FS_Singleton DEF NameCount
<1>3. S = {} => IsLargestOf(w, {p}, SS)
  <2>1. S = {} => ~ \E t : IsTable(t, S)  BY DEF IsTable
  <2> HIDE DEF SS
  <2> QED BY <1>1, <2>1 DEF IsLargestOf
<1>4. ASSUME NEW f, IsLargestOf(w, f, S)
      PROVE  IsLargestOf(w, f, SS) /\ f # {p} /\ NameCount(w, f) >= 1 /\ NameCount(w, f) \in Nat
  <2>1. IsTable(f, S) /\ f \subseteq S
    BY <1>4 DEF IsLargestOf, IsTable
  <2>2. \A i \in S : i < p
    OBVIOUS
  <2>3. f # {p} /\ \A i \in f, j \in {p} : i < j
    BY <2>1, <2>2
  <2>4. NameCount(w, f) \in Nat /\ NameCount(w, f) >= 1
    BY <2>1, <2>2, TableCount
  <2>5. NotBetter(w, {p}, f)
    BY <1>2, <2>3, <2>4 DEF NotBetter
  <2>6. ASSUME NEW u \in SUBSET SS, IsTable(u, SS), u # f PROVE NotBetter(w, u, f)
    <3>1. CASE u = {p}  BY <2>5, <3>1
    <3>2. CASE u # {p}
      <4>1. IsTable(u, S) /\ u \in SUBSET S
        BY <1>1, <2>6, <3>2 DEF IsTable
      <4> QED BY <1>4, <2>6, <4>1 DEF IsLargestOf
    <3> QED BY <3>1, <3>2
  <2>7. IsTable(f, SS)
    BY <1>1, <2>1
  <2> HIDE DEF SS
  <2> QED BY <2>3, <2>4, <2>6, <2>7 DEF IsLargestOf
<1> QED BY <1>2, <1>3, <1>4

-----------------------------------------------------------------------------
(* The invariant of the loop.                                              *)

ItemsTo(w, n) == { i \in Items(w) : i <= n }
ItemsRead == ItemsTo(words, scanned)

ScanTypes ==
  /\ words \in Images
  /\ scanned \in 0 .. Len(words) /\ since_last \in 0 .. 3 /\ same_table \in BOOLEAN

KeepsLargest(f) ==
  IsLargestOf(words, f, ItemsRead) /\ final_table = Dictionary(words, f)

\* The last table cannot grow any more, or there was none yet.
OutsideTable ==
  /\ work_table = NoTable /\ ~same_table
  /\ \A i \in ItemsRead : i + 3 <= scanned
  /\ ItemsRead # {} => since_last = 3
  /\ \/ ItemsRead = {} /\ final_table = NoTable
     \/ \E f \in SUBSET ItemsRead : KeepsLargest(f)

\* The last item read is of table c.
InTable(c) ==
  /\ IsTable(c, ItemsRead) /\ work_table = Dictionary(words, c)
  /\ since_last <= 2 /\ scanned - since_last \in c
  /\ \A i \in ItemsRead : i <= scanned - since_last

InsideTable ==
  \E c, f \in SUBSET ItemsRead :
    InTable(c) /\ KeepsLargest(f) /\ (same_table <=> f = c)

ScanInv == ScanTypes /\ (OutsideTable \/ InsideTable)

LEMMA ImageIsSequence ==
  ASSUME NEW w \in Images
  PROVE  Len(w) \in Nat /\ Items(w) \subseteq Nat
<1>1. w \in Seq({w[i] : i \in DOMAIN w})
  BY ImagesAssumption
<1>2. Len(w) \in Nat
  <2> DEFINE R == {w[i] : i \in DOMAIN w}
  <2> HIDE DEF R
  <2>1. w \in Seq(R)  BY <1>1 DEF R
  <2> QED BY <2>1
<1> QED BY <1>2 DEF Items

LEMMA InitScanInv ==
  ASSUME TableInit
  PROVE  ScanInv
<1>1. Len(words) \in Nat
  BY ImageIsSequence DEF TableInit
<1>2. ScanTypes
  <2>1. 0 \in 0 .. Len(words) /\ 0 \in 0 .. 3
    BY <1>1
  <2> QED BY <2>1 DEF TableInit, ScanTypes
<1>3. ItemsRead = {}
  BY <1>1 DEF TableInit, ItemsRead, ItemsTo, Items
<1> QED BY <1>2, <1>3 DEF TableInit, ScanInv, OutsideTable

\* What a turn of the loop adds to the items read.
LEMMA OneMoreWord ==
  ASSUME ScanTypes, scanned < Len(words)
  PROVE  /\ ItemsRead \subseteq Nat /\ \A i \in ItemsRead : i <= scanned
         /\ is_item => ItemsTo(words, scanned + 1) = ItemsRead \union {scanned + 1}
         /\ ~is_item => ItemsTo(words, scanned + 1) = ItemsRead
<1>1. Len(words) \in Nat /\ scanned \in Nat /\ Items(words) \subseteq Nat
  BY ImageIsSequence DEF ScanTypes
<1>2. \A i : i \in Items(words) <=> i \in 2 .. Len(words) /\ words[i - 1].name # NoName
  BY DEF Items
<1>3. is_item <=> scanned + 1 \in Items(words)
  <2>1. CASE scanned = 0
    <3>1. last_word.name = NoName            BY <2>1 DEF last_word
    <3>2. scanned + 1 \notin 2 .. Len(words)  BY <2>1
    <3> QED BY <1>2, <3>1, <3>2 DEF is_item
  <2>2. CASE scanned # 0
    <3>1. last_word = words[scanned]         BY <2>2 DEF last_word
    <3>2. scanned + 1 \in 2 .. Len(words) /\ (scanned + 1) - 1 = scanned  BY <1>1, <2>2
    <3> QED BY <1>2, <3>1, <3>2 DEF is_item
  <2> QED BY <2>1, <2>2
<1>4. \A i \in Nat : i <= scanned + 1 <=> i <= scanned \/ i = scanned + 1
  BY <1>1
<1>5. \A i, n : i \in ItemsTo(words, n) <=> i \in Items(words) /\ i <= n
  BY DEF ItemsTo
<1>6. ItemsRead \subseteq Nat /\ \A i \in ItemsRead : i <= scanned
  BY <1>1, <1>5 DEF ItemsRead
<1>7. ASSUME NEW i PROVE i \in ItemsTo(words, scanned + 1) <=>
                          i \in ItemsRead \/ (i = scanned + 1 /\ is_item)
  BY <1>1, <1>3, <1>4, <1>5 DEF ItemsRead
<1> QED BY <1>6, <1>7

LEMMA ScanTypesStep ==
  ASSUME ScanTypes, ScanWord
  PROVE  ScanTypes'
<1>1. Len(words) \in Nat
  BY ImageIsSequence DEF ScanTypes
<1>2. words' = words /\ scanned' = scanned + 1 /\ since_last' = since /\ scanned < Len(words)
  BY DEF ScanWord
<1>3. since \in 0 .. 3
  BY DEF since, ScanTypes
<1>4. same_table' \in BOOLEAN
  BY DEF ScanWord, LeaveTable, BestTable, OtherTable, ScanTypes
<1>5. scanned + 1 \in 0 .. Len(words)
  BY <1>1, <1>2 DEF ScanTypes
<1> QED BY <1>2, <1>3, <1>4, <1>5 DEF ScanTypes

\* A word that is no item.
LEMMA SkipWord ==
  ASSUME ScanInv, ScanWord, ~is_item
  PROVE  OutsideTable' \/ InsideTable'
<1>1. words' = words /\ scanned' = scanned + 1 /\ since_last' = since /\ scanned < Len(words)
  BY DEF ScanWord
<1>2. ScanTypes /\ scanned \in Nat /\ since_last \in 0 .. 3
  BY ImageIsSequence DEF ScanInv, ScanTypes
<1>3. ItemsRead \subseteq Nat /\ \A i \in ItemsRead : i <= scanned
  BY <1>1, <1>2, OneMoreWord
<1>4. ItemsRead' = ItemsRead
  BY <1>1, <1>2, OneMoreWord DEF ItemsRead
<1>5. work = work_table /\ since = IF since_last < 3 THEN since_last + 1 ELSE 3
  BY DEF work, since
<1>6. CASE OutsideTable
  <2>1. final = final_table /\ work = NoTable /\ ~same_table
    BY <1>5, <1>6 DEF OutsideTable, final
  <2>2. work_table' = NoTable /\ final_table' = final_table /\ ~same_table'
    <3>1. CASE LeaveTable
      BY <2>1, <3>1 DEF LeaveTable
    <3>2. CASE OtherTable
      BY <2>1, <3>2 DEF OtherTable
    <3>3. CASE BestTable
      <4>1. ItemsRead = {}
        BY <1>2, <1>5, <1>6, <3>3 DEF OutsideTable, BestTable, left_table
      <4>2. final_table = NoTable
        BY <1>6, <4>1 DEF OutsideTable, KeepsLargest, IsLargestOf, IsTable
      <4>3. Size(NoTable) = 0
        <5>1. DOMAIN NoTable = {}  BY DEF NoTable
        <5> QED BY <5>1, FS_EmptySet DEF Size
      <4> QED BY <2>1, <3>3, <4>2, <4>3 DEF BestTable
    <3> QED BY <3>1, <3>2, <3>3 DEF ScanWord
  <2>3. \A i \in ItemsRead : i + 3 <= scanned + 1
    BY <1>2, <1>3, <1>6 DEF OutsideTable
  <2>4. ItemsRead # {} => since_last' = 3
    BY <1>1, <1>5, <1>6 DEF OutsideTable
  <2>5. \/ ItemsRead = {} /\ final_table' = NoTable
        \/ \E f \in SUBSET ItemsRead : KeepsLargest(f)'
    BY <1>1, <1>4, <1>6, <2>2 DEF OutsideTable, KeepsLargest
  <2> QED BY <1>1, <1>4, <2>2, <2>3, <2>4, <2>5 DEF OutsideTable
<1>7. CASE InsideTable
  <2>1. PICK c, f \in SUBSET ItemsRead :
          InTable(c) /\ KeepsLargest(f) /\ (same_table <=> f = c)
    BY <1>7 DEF InsideTable
  <2>2. work = Dictionary(words, c) /\ final = Dictionary(words, f)
    BY <1>5, <2>1 DEF InTable, KeepsLargest, final
  <2>3. IsTable(c, ItemsRead) /\ IsTable(f, ItemsRead)
    BY <2>1 DEF InTable, KeepsLargest, IsLargestOf
  <2>4. ~BestTable
    <3>1. \A i \in ItemsRead : i < scanned + 1
      BY <1>2, <1>3
    <3>2. NameCount(words, c) \in Nat /\ NameCount(words, f) \in Nat
      <4>1. scanned + 1 \in Nat  BY <1>2
      <4> QED BY <1>3, <2>3, <3>1, <4>1, TableCount
    <3>3. c = f \/ NotBetter(words, c, f)
      BY <2>1, <2>3 DEF KeepsLargest, IsLargestOf
    <3>4. NameCount(words, c) <= NameCount(words, f)
      BY <3>2, <3>3, NotBetterCount
    <3>5. Size(work) <= Size(final) /\ Size(work) \in Nat /\ Size(final) \in Nat
      BY <2>2, <3>2, <3>4, SizeOfDictionary DEF NameCount
    <3> QED BY <3>5 DEF BestTable
  <2>5. since = since_last + 1 /\ since_last <= 2
    BY <1>2, <1>5, <2>1 DEF InTable
  <2>6. CASE LeaveTable
    <3>1. since = 3 /\ since_last = 2
      BY <1>2, <2>5, <2>6 DEF LeaveTable, left_table
    <3>2. work_table' = NoTable /\ ~same_table' /\ final_table' = Dictionary(words, f)
      BY <2>2, <2>6 DEF LeaveTable
    <3>3. KeepsLargest(f)'
      BY <1>1, <1>4, <2>1, <3>2 DEF KeepsLargest
    <3>4. \A i \in ItemsRead : i + 3 <= scanned + 1
      BY <1>2, <1>3, <2>1, <3>1 DEF InTable
    <3>5. OutsideTable'
      BY <1>1, <1>4, <3>1, <3>2, <3>3, <3>4 DEF OutsideTable
    <3> QED BY <3>5
  <2>7. CASE OtherTable
    <3>1. since <= 2
      BY <1>2, <2>5, <2>7 DEF OtherTable, left_table
    <3>2. /\ work_table' = Dictionary(words, c) /\ final_table' = Dictionary(words, f)
          /\ same_table' = same_table
      BY <2>2, <2>7 DEF OtherTable
    <3>3. KeepsLargest(f)'
      BY <1>1, <1>4, <2>1, <3>2 DEF KeepsLargest
    <3>4. (scanned + 1) - since = scanned - since_last
      BY <1>2, <2>5
    <3>5. InTable(c)'
      BY <1>1, <1>4, <2>1, <3>1, <3>2, <3>4 DEF InTable
    <3>6. InsideTable'
      BY <1>4, <2>1, <3>2, <3>3, <3>5 DEF InsideTable
    <3> QED BY <3>6
  <2> QED BY <2>4, <2>6, <2>7 DEF ScanWord
<1> QED BY <1>6, <1>7 DEF ScanInv

\* An item.
LEMMA TakeItem ==
  ASSUME ScanInv, ScanWord, is_item
  PROVE  InsideTable'
<1> DEFINE p == scanned + 1
           R == ItemsRead
<1>1. words' = words /\ scanned' = p /\ since_last' = since /\ scanned < Len(words)
  BY DEF ScanWord
<1>2. ScanTypes /\ scanned \in Nat /\ since_last \in 0 .. 3 /\ p \in Nat
  BY ImageIsSequence DEF ScanInv, ScanTypes
<1>3. R \subseteq Nat /\ \A i \in R : i <= scanned
  BY <1>1, <1>2, OneMoreWord
<1>4. ItemsRead' = R \union {p}
  BY <1>1, <1>2, OneMoreWord DEF ItemsRead
<1>5. since = 0 /\ ~left_table
  BY DEF since, left_table
<1>6. work = put(work_table, words[p - 1].name, words[p].id)
  <2>1. scanned # 0
    BY DEF is_item, last_word
  <2>2. last_word = words[p - 1] /\ word = words[p]
    BY <1>2, <2>1 DEF last_word, word
  <2> QED BY <2>2 DEF work
<1>7. \A i \in R : i < p
  BY <1>2, <1>3
\* What remains is to name the table that grows and the one that is kept.
<1>8. ASSUME NEW c, IsTable(c, R \union {p}), p \in c, work_table' = Dictionary(words, c),
             NEW f, IsLargestOf(words, f, R \union {p}), final_table' = Dictionary(words, f),
             same_table' <=> f = c
      PROVE  InsideTable'
  <2>1. c \in SUBSET (R \union {p}) /\ f \in SUBSET (R \union {p})
    BY <1>8 DEF IsLargestOf, IsTable
  <2>2. KeepsLargest(f)'
    BY <1>1, <1>4, <1>8 DEF KeepsLargest
  <2>3. p - 0 = p /\ \A i \in R \union {p} : i <= p
    <3> HIDE DEF p, R
    <3>1. \A i \in R : i <= p  BY <1>2, <1>3, <1>7
    <3> QED BY <1>2, <3>1
  <2>4. InTable(c)'
    BY <1>1, <1>4, <1>5, <1>8, <2>3 DEF InTable
  <2> QED BY <1>4, <1>8, <2>1, <2>2, <2>4 DEF InsideTable
<1>9. CASE OutsideTable
  <2>1. final = final_table /\ ~same_table /\ work_table = NoTable
    BY <1>9 DEF OutsideTable, final
  <2>2. \A i \in R : i + 3 < p
    BY <1>2, <1>3, <1>9 DEF OutsideTable
  <2>3. work = Dictionary(words, {p})
    <3>1. Dictionary(words, {} \union {p}) =
            put(Dictionary(words, {}), words[p - 1].name, words[p].id)
      BY <1>2, DictionaryGrows
    <3>2. {} \union {p} = {p}  OBVIOUS
    <3> QED BY <1>6, <2>1, <3>1, <3>2, DictionaryEmpty
  <2>4. IsTable({p}, R \union {p}) /\ NameCount(words, {p}) = 1
    BY <1>2, <1>3, <2>2, GrowFar, FarLargest
  <2>5. Size(work) = 1
    BY <2>3, <2>4, SizeOfDictionary DEF NameCount
  <2>6. CASE R = {} /\ final_table = NoTable
    <3>1. Size(final) = 0
      <4>1. DOMAIN NoTable = {}  BY DEF NoTable
      <4> QED BY <2>1, <2>6, <4>1, FS_EmptySet DEF Size
    <3>2. BestTable
      BY <1>5, <2>5, <3>1 DEF ScanWord, LeaveTable, OtherTable
    <3>3. /\ work_table' = Dictionary(words, {p}) /\ final_table' = Dictionary(words, {p})
          /\ same_table'
      BY <2>3, <3>2 DEF BestTable
    <3>4. IsLargestOf(words, {p}, R \union {p})
      BY <1>2, <1>3, <2>2, <2>6, FarLargest
    <3> QED BY <1>8, <2>4, <3>3, <3>4
  <2>7. ASSUME NEW f \in SUBSET R, KeepsLargest(f) PROVE InsideTable'
    <3>1. IsLargestOf(words, f, R) /\ final_table = Dictionary(words, f)
      BY <2>7 DEF KeepsLargest
    <3>2. /\ IsLargestOf(words, f, R \union {p}) /\ f # {p}
          /\ NameCount(words, f) >= 1 /\ NameCount(words, f) \in Nat
      BY <1>2, <1>3, <2>2, <3>1, FarLargest
    <3>3. Size(final) >= 1 /\ Size(final) \in Nat
      BY <2>1, <3>1, <3>2, SizeOfDictionary DEF NameCount
    <3>4. OtherTable
      BY <1>5, <2>5, <3>3 DEF ScanWord, LeaveTable, BestTable
    <3>5. /\ work_table' = Dictionary(words, {p}) /\ final_table' = Dictionary(words, f)
          /\ ~same_table'
      BY <2>1, <2>3, <3>1, <3>4 DEF OtherTable
    <3> QED BY <1>8, <2>4, <3>2, <3>5
  <2> QED BY <1>9, <2>6, <2>7 DEF OutsideTable
<1>10. CASE InsideTable
  <2>1. PICK c, f \in SUBSET R : InTable(c) /\ KeepsLargest(f) /\ (same_table <=> f = c)
    BY <1>10 DEF InsideTable
  <2> DEFINE g == scanned - since_last
             cc == c \union {p}
  <2>2. /\ IsTable(c, R) /\ IsLargestOf(words, f, R)
        /\ g \in c /\ (\A i \in R : i <= g) /\ g < p /\ p <= g + 3
    BY <1>2, <2>1 DEF InTable, KeepsLargest
  <2>3. IsTable(cc, R \union {p})
    BY <1>2, <1>3, <2>2, GrowNear
  <2>4. c \subseteq Nat /\ \A i \in c : i < p
    BY <1>3, <1>7
  <2>5. work = Dictionary(words, cc)
    BY <1>2, <1>6, <2>1, <2>4, DictionaryGrows DEF InTable
  <2>6. Size(work) = NameCount(words, cc) /\ NameCount(words, cc) \in Nat
    BY <1>2, <2>4, <2>5, SizeOfDictionary, NamesGrow DEF NameCount
  <2>7. NameCount(words, f) \in Nat
    <3>1. IsTable(f, R)  BY <2>2 DEF IsLargestOf
    <3> QED BY <1>2, <1>3, <1>7, <3>1, TableCount
  <2>8. CASE same_table
    <3>1. f = c /\ final = work
      BY <2>1, <2>8 DEF final
    <3>2. OtherTable
      BY <1>5, <2>6, <3>1 DEF ScanWord, LeaveTable, BestTable
    <3>3. /\ work_table' = Dictionary(words, cc) /\ final_table' = Dictionary(words, cc)
          /\ same_table'
      BY <2>5, <2>8, <3>1, <3>2 DEF OtherTable
    <3>4. IsLargestOf(words, cc, R \union {p})
      BY <1>2, <1>3, <2>2, <3>1, GrownLargest
    <3> QED BY <1>8, <2>3, <3>3, <3>4
  <2>9. CASE ~same_table
    <3>1. f # c /\ final = Dictionary(words, f)
      BY <2>1, <2>9 DEF final, KeepsLargest
    <3>2. Size(final) = NameCount(words, f)
      BY <3>1, SizeOfDictionary DEF NameCount
    <3>3. CASE BestTable
      <4>1. /\ work_table' = Dictionary(words, cc) /\ final_table' = Dictionary(words, cc)
            /\ same_table'
        BY <2>5, <3>3 DEF BestTable
      <4>2. NameCount(words, f) < NameCount(words, cc)
        BY <2>6, <2>7, <3>2, <3>3 DEF BestTable
      <4>3. IsLargestOf(words, cc, R \union {p})
        BY <1>2, <1>3, <2>2, <4>2, GrownLargest
      <4> QED BY <1>8, <2>3, <4>1, <4>3
    <3>4. CASE OtherTable
      <4>1. /\ work_table' = Dictionary(words, cc) /\ final_table' = Dictionary(words, f)
            /\ ~same_table'
        BY <2>5, <2>9, <3>1, <3>4 DEF OtherTable
      <4>2. NameCount(words, cc) <= NameCount(words, f)
        BY <2>6, <2>7, <3>2, <3>4 DEF OtherTable
      <4>3. IsLargestOf(words, f, R \union {p}) /\ f # cc
        BY <1>2, <1>3, <2>2, <3>1, <4>2, KeptLargest
      <4> QED BY <1>8, <2>3, <4>1, <4>3
    <3> QED BY <1>5, <3>3, <3>4 DEF ScanWord, LeaveTable
  <2> QED BY <2>8, <2>9
<1> QED BY <1>9, <1>10 DEF ScanInv

-----------------------------------------------------------------------------
\* After the last word, the largest of the tables read is the largest of all.
LEMMA ScanInvLargest ==
  ASSUME ScanInv
  PROVE  LargestTable
<1> SUFFICES ASSUME words # << >>, scanned = Len(words)
             PROVE  IF Tables(words) = {} THEN final_table = NoTable
                    ELSE \E t \in Tables(words) :
                           IsLargest(words, t) /\ final_table = Dictionary(words, t)
  BY DEF LargestTable
<1>1. Len(words) \in Nat /\ Items(words) \subseteq Nat
  BY ImageIsSequence DEF ScanInv, ScanTypes
<1>2. ItemsRead = Items(words)
  BY <1>1 DEF ItemsRead, ItemsTo, Items
<1>3. ASSUME NEW t PROVE t \in Tables(words) <=> IsTable(t, Items(words))
  <2>1. \A i, j \in Nat : (j - i \in -3 .. 3) <=> Near(i, j)
    BY DEF Near
  <2>2. \A i, k \in Nat : (k - i \in 1 .. 3) <=> i < k /\ k <= i + 3
    OBVIOUS
  <2>3. t \in Tables(words) <=>
          /\ t \subseteq Items(words) /\ t # {}
          /\ \A i \in t : \A j \in Items(words) : (j - i \in -3 .. 3) => j \in t
          /\ \A i, j \in t : i < j => \E k \in t : k - i \in 1 .. 3
    BY DEF Tables
  <2> QED BY <1>1, <2>1, <2>2, <2>3 DEF IsTable
<1>4. ASSUME NEW f, KeepsLargest(f)
      PROVE  f \in Tables(words) /\ IsLargest(words, f) /\ final_table = Dictionary(words, f)
  <2>1. IsLargestOf(words, f, Items(words)) /\ final_table = Dictionary(words, f)
    BY <1>2, <1>4 DEF KeepsLargest
  <2>2. f \in Tables(words)
    BY <1>3, <2>1 DEF IsLargestOf
  <2>3. ASSUME NEW u \in Tables(words) \ {f} PROVE NotBetter(words, u, f)
    <3>1. IsTable(u, Items(words)) /\ u # f
      BY <1>3
    <3>2. u \in SUBSET Items(words)
      BY <3>1 DEF IsTable
    <3> QED BY <2>1, <3>1, <3>2 DEF IsLargestOf
  <2>4. IsLargest(words, f)
    BY <2>2, <2>3 DEF IsLargest, NotBetter, NameCount
  <2> QED BY <2>1, <2>2, <2>4
<1>5. CASE \E f : KeepsLargest(f)
  BY <1>4, <1>5
<1>6. CASE ItemsRead = {} /\ final_table = NoTable
  <2>1. Tables(words) = {}
    BY <1>2, <1>3, <1>6 DEF IsTable
  <2> QED BY <1>6, <2>1
<1> QED BY <1>5, <1>6 DEF ScanInv, OutsideTable, InsideTable

\* The scan of extract_system_font_resource_ids returns the largest table of the
\* image, complete, and the first of these if there are several, whatever the
\* image: although tables of other strings precede and follow it, and although
\* the dictionary it keeps may be the one it goes on filling.
THEOREM LargestAlwaysFound == TableSpec => []LargestTable
<1>1. TableInit => ScanInv
  BY InitScanInv
<1>2. ScanInv /\ [ScanWord]_table_vars => ScanInv'
  <2> SUFFICES ASSUME ScanInv, [ScanWord]_table_vars PROVE ScanInv'
    OBVIOUS
  <2>1. CASE ScanWord
    <3>1. ScanTypes'
      BY <2>1, ScanTypesStep DEF ScanInv
    <3>2. CASE is_item
      BY <2>1, <3>1, <3>2, TakeItem DEF ScanInv
    <3>3. CASE ~is_item
      BY <2>1, <3>1, <3>3, SkipWord DEF ScanInv
    <3> QED BY <3>2, <3>3
  <2>2. CASE UNCHANGED table_vars
    BY <2>2 DEF table_vars, ScanInv, ScanTypes, OutsideTable, InsideTable, InTable,
                KeepsLargest, ItemsRead
  <2> QED BY <2>1, <2>2
<1>3. ScanInv => LargestTable
  BY ScanInvLargest
<1> QED BY <1>1, <1>2, <1>3, PTL DEF TableSpec

=============================================================================
