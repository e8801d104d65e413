-------------------------- MODULE FeedAgreementProofs --------------------------
(***************************************************************************)
(* NotificationFeed keeps its types and FeedAgrees, for every value of the  *)
(* constants.                                                               *)
(*                                                                          *)
(*   lists    the newest window of a set of notifications, what prepending, *)
(*            removing and marking do to one, and what the badge counts     *)
(*   TypeOK   action by action                                              *)
(*   Order    what holds of the service and the links whatever goes wrong   *)
(*   Synced   while drift is "none": the tab shows the View, the rows less  *)
(*            the news it has yet to hear, plus what the user has done in   *)
(*            it and the service has yet to do; or a refresh is under way,  *)
(*            and what it has read of the rows is still so                  *)
(*                                                                          *)
(* Nothing on its way, the View is the rows: Synced implies FeedAgrees.     *)
(***************************************************************************)
EXTENDS NotificationFeedProofs, FiniteSetTheorems

-----------------------------------------------------------------------------
(* Counting, and sets of numbers in order. *)

LEMMA SameCount ==
  ASSUME NEW S, NEW T, IsFiniteSet(S), NEW g \in [S -> T],
         \A x, y \in S : g[x] = g[y] => x = y,
         \A t \in T : \E x \in S : g[x] = t
  PROVE  IsFiniteSet(T) /\ Cardinality(T) = Cardinality(S)
<1>1. g \in Injection(S, T)
  BY DEF Injection, IsInjective
<1>2. g \in Surjection(S, T)
  BY DEF Surjection
<1>3. ExistsBijection(S, T)
  BY <1>1, <1>2 DEF ExistsBijection, Bijection
<1> QED BY <1>3, FS_Bijection

LEMMA CountTo ==
  ASSUME NEW k \in Nat, NEW T, NEW g \in [1 .. k -> T],
         \A i, j \in 1 .. k : g[i] = g[j] => i = j,
         \A t \in T : \E i \in 1 .. k : g[i] = t
  PROVE  IsFiniteSet(T) /\ Cardinality(T) = k
<1>1. IsFiniteSet(1 .. k) /\ Cardinality(1 .. k) = k
  BY FS_Interval
<1>2. IsFiniteSet(T) /\ Cardinality(T) = Cardinality(1 .. k)
  BY <1>1, SameCount
<1> QED BY <1>1, <1>2

LEMMA OntoByCount ==
  ASSUME NEW S, NEW T, IsFiniteSet(T), NEW g \in [S -> T],
         \A x, y \in S : g[x] = g[y] => x = y,
         Cardinality(S) = Cardinality(T)
  PROVE  \A t \in T : \E x \in S : g[x] = t
<1>1. g \in Injection(S, T)
  BY DEF Injection, IsInjective
<1>2. g \in Surjection(S, T)
  BY <1>1, FS_Injection
<1> QED BY <1>2 DEF Surjection

UpTo(S, n) == {m \in S : m <= n}

LEMMA UpToCounts ==
  ASSUME NEW S \in SUBSET Nat, IsFiniteSet(S), NEW n \in S
  PROVE  /\ Cardinality(UpTo(S, n)) \in 1 .. Cardinality(S)
         /\ \A m \in S : m < n => Cardinality(UpTo(S, m)) < Cardinality(UpTo(S, n))
<1>0. \A m \in S : m \in Int
  OBVIOUS
<1>1. IsFiniteSet(UpTo(S, n)) /\ Cardinality(UpTo(S, n)) \in Nat /\ Cardinality(UpTo(S, n)) <= Cardinality(S)
  BY FS_Subset, FS_CardinalityType DEF UpTo
<1>2. Cardinality(UpTo(S, n)) # 0
  <2>1. n \in UpTo(S, n)
    BY DEF UpTo
  <2> QED BY <1>1, <2>1, FS_EmptySet
<1>3. ASSUME NEW m \in S, m < n
      PROVE  Cardinality(UpTo(S, m)) < Cardinality(UpTo(S, n))
  <2>0. m \in Int /\ n \in Int
    BY <1>0
  <2>a. n \in UpTo(S, n) /\ n \notin UpTo(S, m)
    BY <1>3, <2>0 DEF UpTo
  <2>b. ASSUME NEW x \in UpTo(S, m) PROVE x \in UpTo(S, n)
    <3>1. x \in S /\ x <= m
      BY DEF UpTo
    <3>2. x \in Int
      BY <1>0, <3>1
    <3>3. x <= n
      BY <1>3, <2>0, <3>1, <3>2
    <3> QED BY <3>1, <3>3 DEF UpTo
  <2>1. UpTo(S, m) \in SUBSET UpTo(S, n) /\ n \in UpTo(S, n) /\ n \notin UpTo(S, m)
    BY <2>a, <2>b
  <2>2. Cardinality(UpTo(S, m)) <= Cardinality(UpTo(S, n)) /\ Cardinality(UpTo(S, m)) # Cardinality(UpTo(S, n))
    BY <1>1, <2>1, FS_Subset
  <2>3. IsFiniteSet(UpTo(S, m)) /\ Cardinality(UpTo(S, m)) \in Nat
    BY <1>1, <2>1, FS_Subset, FS_CardinalityType
  <2> QED BY <1>1, <2>2, <2>3
<1> QED
  <2>1. Cardinality(S) \in Nat
    BY FS_CardinalityType
  <2> QED BY <1>1, <1>2, <1>3, <2>1

(* A finite set of numbers has an increasing enumeration. *)
LEMMA OrderedExists ==
  ASSUME NEW S \in SUBSET Nat, IsFiniteSet(S)
  PROVE  /\ Cardinality(S) \in Nat
         /\ InOrder(S) \in [1 .. Cardinality(S) -> S]
         /\ \A i, j \in 1 .. Cardinality(S) : i < j => InOrder(S)[i] < InOrder(S)[j]
<1> DEFINE k == Cardinality(S)
<1>2. PICK r \in [S -> 1 .. k] : \A m, n \in S : m < n => r[m] < r[n]
  <2> DEFINE up == [n \in S |-> Cardinality(UpTo(S, n))]
  <2>1. up \in [S -> 1 .. k] /\ \A m, n \in S : m < n => up[m] < up[n]
    BY UpToCounts
  <2> QED BY <2>1
<1> DEFINE q == [i \in 1 .. k |-> CHOOSE n \in S : r[n] = i]
<1>0. \A m \in S : m \in Int
  OBVIOUS
<1>1. k \in Nat /\ IsFiniteSet(1 .. k) /\ Cardinality(1 .. k) = k
  BY FS_CardinalityType, FS_Interval
<1>3. \A m, n \in S : r[m] = r[n] => m = n
  <2> HIDE DEF k
  <2> SUFFICES ASSUME NEW m \in S, NEW n \in S, r[m] = r[n], m # n PROVE FALSE
    OBVIOUS
  <2>1. m < n \/ n < m
    BY <1>0
  <2>2. r[m] \in Int /\ r[n] \in Int
    BY <1>1, <1>2
  <2> QED BY <1>2, <2>1, <2>2
<1>4. \A i \in 1 .. k : \E n \in S : r[n] = i
  <2> DEFINE T == 1 .. k
  <2>1. Cardinality(S) = Cardinality(T) /\ IsFiniteSet(T) /\ r \in [S -> T]
    BY <1>1, <1>2
  <2>2. \A i \in T : \E n \in S : r[n] = i
    <3> HIDE DEF T
    <3>1. r \in Injection(S, T)
      BY <1>3, <2>1 DEF Injection, IsInjective
    <3>2. r \in Surjection(S, T)
      BY <2>1, <3>1, FS_Injection
    <3> QED BY <3>2 DEF Surjection
  <2> QED BY <2>2
<1>5. q \in [1 .. k -> S] /\ \A i \in 1 .. k : r[q[i]] = i
  <2> HIDE DEF k
  <2> QED BY <1>4
<1>6. \A i, j \in 1 .. k : i < j => q[i] < q[j]
  <2> HIDE DEF k, q
  <2> SUFFICES ASSUME NEW i \in 1 .. k, NEW j \in 1 .. k, i < j, ~(q[i] < q[j]) PROVE FALSE
    OBVIOUS
  <2>1. q[i] \in S /\ q[j] \in S /\ r[q[i]] = i /\ r[q[j]] = j /\ i \in Int /\ j \in Int
    BY <1>1, <1>5
  <2>a. q[i] \in Int /\ q[j] \in Int
    BY <1>0, <2>1
  <2>2. q[i] = q[j] \/ q[j] < q[i]
    BY <2>a, <2>1
  <2>3. q[i] # q[j]
    BY <2>1
  <2>4. r[q[j]] < r[q[i]]
    BY <1>2, <2>1, <2>2, <2>3
  <2> QED BY <2>1, <2>4
<1> HIDE DEF q
<1> QED BY <1>1, <1>5, <1>6 DEF InOrder

(* It has no other, and leaves none out. *)
LEMMA OrderedOnto ==
  ASSUME NEW S \in SUBSET Nat, IsFiniteSet(S),
         NEW q \in [1 .. Cardinality(S) -> S],
         \A i, j \in 1 .. Cardinality(S) : i < j => q[i] < q[j]
  PROVE  /\ \A i, j \in 1 .. Cardinality(S) : q[i] <= q[j] => i <= j
         /\ \A n \in S : \E i \in 1 .. Cardinality(S) : q[i] = n
         /\ \A i \in 1 .. Cardinality(S) : Cardinality(UpTo(S, q[i])) = i
<1> DEFINE k == Cardinality(S)
<1>0. \A m \in S : m \in Int
  OBVIOUS
<1>1. k \in Nat /\ IsFiniteSet(1 .. k) /\ Cardinality(1 .. k) = k
  BY FS_CardinalityType, FS_Interval
<1>a. \A i \in 1 .. k : q[i] \in S /\ q[i] \in Int
  BY <1>0
<1>2. \A i, j \in 1 .. k : q[i] <= q[j] => i <= j
  <2> SUFFICES ASSUME NEW i \in 1 .. k, NEW j \in 1 .. k, q[i] <= q[j], ~(i <= j) PROVE FALSE
    OBVIOUS
  <2>1. i \in Int /\ j \in Int /\ q[i] \in Int /\ q[j] \in Int
    BY <1>1, <1>a
  <2>2. q[j] < q[i]
    BY <2>1
  <2> QED BY <2>1, <2>2
<1>3. \A i, j \in 1 .. k : q[i] = q[j] => i = j
  <2> SUFFICES ASSUME NEW i \in 1 .. k, NEW j \in 1 .. k, q[i] = q[j] PROVE i = j
    OBVIOUS
  <2>1. i \in Int /\ j \in Int /\ q[i] \in Int /\ q[j] \in Int
    BY <1>1, <1>a
  <2> QED BY <1>2, <2>1
<1>4. \A n \in S : \E i \in 1 .. k : q[i] = n
  <2> HIDE DEF k
  <2>1. q \in [1 .. k -> S] /\ Cardinality(1 .. k) = Cardinality(S)
    BY <1>1 DEF k
  <2> QED BY <1>1, <1>3, <2>1, OntoByCount
<1>5. ASSUME NEW i \in 1 .. k PROVE Cardinality(UpTo(S, q[i])) = i
  <2> DEFINE g == [j \in 1 .. i |-> q[j]]
  <2>0. i \in Nat /\ \A j \in 1 .. i : j \in 1 .. k
    BY <1>1
  <2>1. g \in [1 .. i -> UpTo(S, q[i])]
    <3> SUFFICES ASSUME NEW j \in 1 .. i PROVE q[j] \in S /\ q[j] <= q[i]
      BY DEF UpTo
    <3>1. j \in 1 .. k /\ j \in Int /\ i \in Int
      BY <2>0
    <3>2. q[j] \in S /\ q[i] \in S /\ q[j] \in Int /\ q[i] \in Int
      BY <3>1, <1>a
    <3>3. j = i \/ j < i
      BY <3>1
    <3> QED BY <3>1, <3>2, <3>3
  <2>2. \A a, b \in 1 .. i : g[a] = g[b] => a = b
    BY <1>3, <2>0
  <2>3. \A n \in UpTo(S, q[i]) : \E j \in 1 .. i : g[j] = n
    <3> SUFFICES ASSUME NEW n \in S, n <= q[i] PROVE \E j \in 1 .. i : g[j] = n
      BY DEF UpTo
    <3>1. PICK j \in 1 .. k : q[j] = n
      BY <1>4
    <3>2. j <= i
      BY <1>2, <3>1
    <3>3. j \in 1 .. i
      BY <2>0, <3>2, <1>1
    <3> QED BY <3>1, <3>3
  <2> HIDE DEF g
  <2> QED BY <2>0, <2>1, <2>2, <2>3, CountTo
<1> QED BY <1>2, <1>4, <1>5

LEMMA OrderedUnique ==
  ASSUME NEW S \in SUBSET Nat, IsFiniteSet(S),
         NEW q \in [1 .. Cardinality(S) -> S],
         \A i, j \in 1 .. Cardinality(S) : i < j => q[i] < q[j]
  PROVE  q = InOrder(S)
<1> DEFINE k == Cardinality(S)  r == InOrder(S)
<1>0. \A m \in S : m \in Int
  OBVIOUS
<1>1. k \in Nat /\ r \in [1 .. k -> S] /\ \A i, j \in 1 .. k : i < j => r[i] < r[j]
  BY OrderedExists
<1>2. ASSUME NEW i \in 1 .. k PROVE q[i] = r[i]
  <2>1. Cardinality(UpTo(S, q[i])) = i
    BY OrderedOnto
  <2>2. Cardinality(UpTo(S, r[i])) = i
    <3> HIDE DEF r
    <3> QED BY <1>1, OrderedOnto
  <2>3. q[i] \in S /\ r[i] \in S
    BY <1>1
  <2>a. q[i] \in Int /\ r[i] \in Int
    BY <1>0, <2>3
  <2>4. q[i] < r[i] \/ r[i] < q[i] \/ q[i] = r[i]
    BY <2>a
  <2>5. i \in Int
    BY <1>1
  <2>6. \A m, n \in S : m < n => Cardinality(UpTo(S, m)) < Cardinality(UpTo(S, n))
    BY UpToCounts
  <2> HIDE DEF r
  <2>7. q[i] < r[i] => i < i
    BY <2>1, <2>2, <2>3, <2>6
  <2>8. r[i] < q[i] => i < i
    BY <2>1, <2>2, <2>3, <2>6
  <2> QED BY <2>4, <2>5, <2>7, <2>8
<1> QED BY <1>1, <1>2

-----------------------------------------------------------------------------
(* The newest window of a set of notifications. *)

(* How many are as new as n. *)
Place(S, n) == Cardinality({m \in S : m >= n})
Least(m, n) == IF m < n THEN m ELSE n

(* q shows the newest window of S, in order; and each item as v has it. *)
Lists(q, S) ==
  /\ Len(q) = Least(Cardinality(S), Window)
  /\ \A i \in 1 .. Len(q) : q[i].note \in S /\ Place(S, q[i].note) = i
Marks(q, v) == \A i \in 1 .. Len(q) : q[i].read = (v[q[i].note] = "read")

LEMMA NotesAreNumbers ==
  /\ Window \in Nat /\ Window >= 1 /\ MaxNotes \in Nat
  /\ \A n \in Notes : n \in Nat
  /\ \A S \in SUBSET Notes : S \in SUBSET Nat /\ IsFiniteSet(S) /\ Cardinality(S) \in Nat
<1>1. Window \in Nat /\ Window >= 1 /\ MaxNotes \in Nat
  BY FeedAssumption
<1>2. \A n \in Notes : n \in Nat
  BY <1>1 DEF Notes
<1>3. IsFiniteSet(Notes)
  BY <1>1, FS_Interval DEF Notes
<1>4. \A S \in SUBSET Notes : S \in SUBSET Nat /\ IsFiniteSet(S) /\ Cardinality(S) \in Nat
  BY <1>2, <1>3, FS_Subset, FS_CardinalityType
<1> QED BY <1>1, <1>2, <1>4

LEMMA Fewer ==
  ASSUME NEW T, IsFiniteSet(T), NEW S \in SUBSET T, NEW x \in T, x \notin S
  PROVE  Cardinality(S) \in Nat /\ Cardinality(T) \in Nat /\ Cardinality(S) < Cardinality(T)
<1>1. IsFiniteSet(S) /\ Cardinality(S) <= Cardinality(T) /\ Cardinality(S) # Cardinality(T)
  BY FS_Subset
<1>2. Cardinality(S) \in Nat /\ Cardinality(T) \in Nat
  BY <1>1, FS_CardinalityType
<1> QED BY <1>1, <1>2

LEMMA PlaceCounts ==
  ASSUME NEW S \in SUBSET Notes, NEW n \in S
  PROVE  /\ Place(S, n) \in 1 .. Cardinality(S)
         /\ \A m \in S : m < n => Place(S, n) < Place(S, m)
<1> DEFINE P(x) == {m \in S : m >= x}
<1>0. IsFiniteSet(S) /\ \A m \in S : m \in Int
  BY NotesAreNumbers
<1>1. \A x \in S : IsFiniteSet(P(x)) /\ Cardinality(P(x)) \in Nat /\ Cardinality(P(x)) <= Cardinality(S)
  BY <1>0, FS_Subset, FS_CardinalityType
<1>2. n \in P(n)
  BY <1>0
<1>3. Cardinality(P(n)) # 0
  BY <1>1, <1>2, FS_EmptySet
<1>4. ASSUME NEW m \in S, m < n PROVE Cardinality(P(n)) < Cardinality(P(m))
  <2>0. m \in Int /\ n \in Int
    BY <1>0
  <2>1. m \in P(m) /\ m \notin P(n)
    BY <1>4, <2>0
  <2>2. P(n) \in SUBSET P(m)
    <3> SUFFICES ASSUME NEW x \in S, x >= n PROVE x >= m
      OBVIOUS
    <3>1. x \in Int
      BY <1>0
    <3> QED BY <1>4, <2>0, <3>1
  <2> HIDE DEF P
  <2> QED BY <1>1, <2>1, <2>2, Fewer
<1>5. Cardinality(S) \in Nat
  BY <1>0, FS_CardinalityType
<1> QED BY <1>1, <1>3, <1>4, <1>5 DEF Place

LEMMA PlaceOnce ==
  ASSUME NEW S \in SUBSET Notes, NEW m \in S, NEW n \in S
  PROVE  /\ Place(S, m) = Place(S, n) => m = n
         /\ Place(S, m) <= Place(S, n) => m >= n
<1>1. m \in Int /\ n \in Int
  BY NotesAreNumbers
<1>2. Place(S, m) \in Int /\ Place(S, n) \in Int
  <2>1. Cardinality(S) \in Nat
    BY NotesAreNumbers
  <2> QED BY <2>1, PlaceCounts
<1>3. (m < n => Place(S, n) < Place(S, m)) /\ (n < m => Place(S, m) < Place(S, n))
  BY PlaceCounts
<1> QED BY <1>1, <1>2, <1>3

(* The next one to arrive is the first. *)
LEMMA PlaceFirst ==
  ASSUME NEW S \in SUBSET Notes, NEW n \in Notes, \A m \in S : m < n
  PROVE  /\ n \notin S /\ Cardinality(S \cup {n}) = Cardinality(S) + 1
         /\ Place(S \cup {n}, n) = 1
         /\ \A m \in S : Place(S \cup {n}, m) = Place(S, m) + 1
<1>0. n \in Int /\ (\A m \in S : m \in Int) /\ IsFiniteSet(S)
  BY NotesAreNumbers
<1>1. n \notin S
  BY <1>0
<1>2. Cardinality(S \cup {n}) = Cardinality(S) + 1
  BY <1>0, <1>1, FS_AddElement
<1>3. Place(S \cup {n}, n) = 1
  <2>a. \A m \in S : ~(m >= n)
    BY <1>0
  <2>1. {m \in S \cup {n} : m >= n} = {n}
    <3>1. n >= n
      BY <1>0
    <3>2. n \in {m \in S \cup {n} : m >= n}
      BY <3>1
    <3>3. ASSUME NEW x \in S, x >= n PROVE FALSE
      BY <2>a, <3>3
    <3> QED BY <3>2, <3>3
  <2> QED BY <2>1, FS_Singleton DEF Place
<1>4. ASSUME NEW m \in S PROVE Place(S \cup {n}, m) = Place(S, m) + 1
  <2> DEFINE P == {x \in S : x >= m}
  <2>1. m < n /\ m \in Int
    BY <1>0
  <2>2. {x \in S \cup {n} : x >= m} = P \cup {n}
    BY <1>0, <2>1
  <2>3. IsFiniteSet(P) /\ n \notin P
    BY <1>0, <1>1, FS_Subset
  <2>4. Cardinality(P \cup {n}) = Cardinality(P) + 1
    BY <2>3, FS_AddElement
  <2> QED BY <2>2, <2>4 DEF Place
<1> QED BY <1>1, <1>2, <1>3, <1>4

(* The server's list: the sorted rows, reversed. *)
LEMMA NewestFirst ==
  ASSUME NEW S \in SUBSET Notes
  PROVE  /\ Len(Reverse(InOrder(S))) = Cardinality(S)
         /\ \A i \in 1 .. Cardinality(S) :
              /\ Reverse(InOrder(S))[i] \in S
              /\ Place(S, Reverse(InOrder(S))[i]) = i
<1> DEFINE k == Cardinality(S)  q == InOrder(S)  r == Reverse(q)
<1>0. /\ k \in Nat /\ q \in [1 .. k -> S] /\ \A i, j \in 1 .. k : i < j => q[i] < q[j]
      /\ S \in SUBSET Nat /\ IsFiniteSet(S)
  BY NotesAreNumbers, OrderedExists
<1>1. Len(q) = k /\ q \in Seq(S)
  BY <1>0
<1>2. /\ \A i, j \in 1 .. k : q[i] <= q[j] => i <= j
      /\ \A n \in S : \E i \in 1 .. k : q[i] = n
  <2> HIDE DEF q
  <2> QED BY <1>0, OrderedOnto
<1> HIDE DEF k, q
<1>3. r = [i \in 1 .. k |-> q[(k - i) + 1]] /\ Len(r) = k
  BY <1>0, <1>1 DEF Reverse
<1>4. ASSUME NEW i \in 1 .. k PROVE r[i] \in S /\ Place(S, r[i]) = i
  <2> DEFINE P == {m \in S : m >= r[i]}
             g == [j \in 1 .. i |-> r[j]]
  <2>0. /\ i \in Nat /\ \A j \in 1 .. k : j \in Nat /\ (k - j) + 1 \in 1 .. k /\ r[j] = q[(k - j) + 1] /\ r[j] \in S /\ r[j] \in Int
    <3>1. \A j \in 1 .. k : j \in Nat /\ (k - j) + 1 \in 1 .. k /\ r[j] = q[(k - j) + 1]
      BY <1>0, <1>3
    <3>2. \A j \in 1 .. k : q[j] \in S
      BY <1>0
    <3>3. \A m \in S : m \in Int
      BY NotesAreNumbers
    <3>4. \A j \in 1 .. k : q[j] \in Int
      BY <3>2, <3>3
    <3> QED BY <3>1, <3>2, <3>4, <1>0
  <2>1. \A j \in 1 .. i : j \in 1 .. k
    BY <1>0
  <2> HIDE DEF r
  <2>2. ASSUME NEW j \in 1 .. i PROVE r[j] >= r[i]
    <3>1. j \in 1 .. k /\ j <= i
      BY <2>1
    <3>2. (k - j) + 1 \in 1 .. k /\ (k - i) + 1 \in 1 .. k /\ (k - i) + 1 <= (k - j) + 1
      BY <1>0, <2>0, <3>1
    <3>3. (k - i) + 1 = (k - j) + 1 \/ (k - i) + 1 < (k - j) + 1
      BY <1>0, <2>0, <3>1, <3>2
    <3>4. r[j] = q[(k - j) + 1] /\ r[i] = q[(k - i) + 1] /\ r[j] \in Int /\ r[i] \in Int
      BY <2>0, <3>1
    <3>5. q[(k - i) + 1] = q[(k - j) + 1] \/ q[(k - i) + 1] < q[(k - j) + 1]
      BY <1>0, <3>2, <3>3
    <3> QED BY <3>4, <3>5
  <2>3. g \in [1 .. i -> P]
    BY <2>0, <2>1, <2>2
  <2>4. \A a, b \in 1 .. k : r[a] <= r[b] => b <= a
    <3> SUFFICES ASSUME NEW a \in 1 .. k, NEW b \in 1 .. k, r[a] <= r[b] PROVE b <= a
      OBVIOUS
    <3>1. (k - a) + 1 \in 1 .. k /\ (k - b) + 1 \in 1 .. k /\ q[(k - a) + 1] <= q[(k - b) + 1]
      BY <2>0
    <3>2. (k - a) + 1 <= (k - b) + 1
      BY <1>2, <3>1
    <3> QED BY <1>0, <2>0, <3>2
  <2>5. \A a, b \in 1 .. i : g[a] = g[b] => a = b
    <3> SUFFICES ASSUME NEW a \in 1 .. i, NEW b \in 1 .. i, r[a] = r[b] PROVE a = b
      OBVIOUS
    <3>1. a \in 1 .. k /\ b \in 1 .. k /\ a \in Nat /\ b \in Nat /\ r[a] \in Int
      BY <2>0, <2>1
    <3>2. r[a] <= r[b] /\ r[b] <= r[a]
      BY <3>1
    <3>3. a <= b /\ b <= a
      BY <2>4, <3>1, <3>2
    <3> QED BY <3>1, <3>3
  <2>6. \A n \in P : \E j \in 1 .. i : g[j] = n
    <3> SUFFICES ASSUME NEW n \in S, n >= r[i] PROVE \E j \in 1 .. i : r[j] = n
      OBVIOUS
    <3>1. PICK a \in 1 .. k : q[a] = n
      BY <1>2
    <3> DEFINE j == (k - a) + 1
    <3>2. j \in 1 .. k /\ (k - j) + 1 = a
      BY <1>0
    <3>3. r[j] = n
      BY <2>0, <3>1, <3>2
    <3>4. n \in Int /\ r[i] \in Int /\ r[i] <= r[j]
      BY <2>0, <3>2, <3>3
    <3>5. j <= i
      BY <2>4, <3>2, <3>4
    <3> HIDE DEF j
    <3>6. j \in 1 .. i
      BY <1>0, <2>0, <3>2, <3>5
    <3> QED BY <3>3, <3>6
  <2>7. Cardinality(P) = i
    <3> HIDE DEF g, P
    <3> QED BY <2>0, <2>3, <2>5, <2>6, CountTo
  <2> QED BY <2>0, <2>7 DEF Place
<1> QED BY <1>3, <1>4 DEF k, q

LEMMA ListOfLength ==
  ASSUME NEW X, NEW k \in Nat, NEW q \in [1 .. k -> X]
  PROVE  q \in Seq(X) /\ Len(q) = k
OBVIOUS

(* One in front, and the list cut. *)
Pushed(x, q) == FirstOf(<<x>> \o q)

LEMMA InFront ==
  ASSUME NEW q \in Seq(Items), NEW x \in Items
  PROVE  /\ Pushed(x, q) \in Seq(Items)
         /\ Len(Pushed(x, q)) = Least(Len(q) + 1, Window)
         /\ \A i \in 1 .. Len(Pushed(x, q)) :
              \/ i = 1 /\ Pushed(x, q)[i] = x
              \/ i - 1 \in 1 .. Len(q) /\ Pushed(x, q)[i] = q[i - 1]
<1> DEFINE all == <<x>> \o q  r == Pushed(x, q)
<1>1. all \in Seq(Items) /\ Len(all) = Len(q) + 1 /\ Len(q) \in Nat /\ Window \in Nat
  BY NotesAreNumbers
<1>2. ASSUME NEW i \in 1 .. Len(q) + 1
      PROVE  \/ i = 1 /\ all[i] = x
             \/ i - 1 \in 1 .. Len(q) /\ all[i] = q[i - 1]
  OBVIOUS
<1> HIDE DEF all
<1>3. r = IF Len(all) > Window THEN SubSeq(all, 1, Window) ELSE all
  BY DEF FirstOf, Pushed, all
<1> HIDE DEF r
<1>4. CASE Len(all) > Window
  <2>1. r = SubSeq(all, 1, Window) /\ Window <= Len(all)
    BY <1>1, <1>3, <1>4
  <2>2. r \in Seq(Items) /\ Len(r) = Window /\ \A i \in 1 .. Window : r[i] = all[i] /\ i \in 1 .. Len(q) + 1
    BY <1>1, <2>1
  <2>3. Least(Len(q) + 1, Window) = Window
    BY <1>1, <1>4 DEF Least
  <2> QED BY <1>2, <2>2, <2>3 DEF all, r
<1>5. CASE ~(Len(all) > Window)
  <2>1. r = all /\ Least(Len(q) + 1, Window) = Len(q) + 1
    BY <1>1, <1>3, <1>5 DEF Least
  <2> QED BY <1>1, <1>2, <2>1 DEF all, r
<1> QED BY <1>4, <1>5

LEMMA WindowBounds ==
  ASSUME NEW S \in SUBSET Notes
  PROVE  /\ Least(Cardinality(S), Window) \in Nat
         /\ Least(Cardinality(S), Window) <= Window
         /\ Least(Cardinality(S), Window) <= Cardinality(S)
         /\ 1 .. Least(Cardinality(S), Window) \subseteq 1 .. Cardinality(S)
<1>1. Cardinality(S) \in Nat /\ Window \in Nat
  BY NotesAreNumbers
<1> QED BY <1>1 DEF Least

(* A window of a set of notifications, with a mark for each. *)
LEMMA WindowOf ==
  ASSUME NEW S \in SUBSET Notes, NEW v,
         NEW q, q = [i \in 1 .. Least(Cardinality(S), Window) |->
                       [note |-> Reverse(InOrder(S))[i], read |-> v[Reverse(InOrder(S))[i]] = "read"]]
  PROVE  q \in Seq(Items) /\ Len(q) <= Window /\ Lists(q, S) /\ Marks(q, v)
<1> DEFINE k == Least(Cardinality(S), Window)  r == Reverse(InOrder(S))
<1>1. /\ k \in Nat /\ k <= Window
      /\ \A i \in 1 .. k : r[i] \in S /\ r[i] \in Notes /\ Place(S, r[i]) = i
  BY NewestFirst, WindowBounds
<1> HIDE DEF k, r
<1>2. q = [i \in 1 .. k |-> [note |-> r[i], read |-> v[r[i]] = "read"]]
  BY DEF k, r
<1>a. \A i \in 1 .. k : [note |-> r[i], read |-> v[r[i]] = "read"] \in Items
  BY <1>1 DEF Items
<1>b. q \in [1 .. k -> Items]
  BY <1>2, <1>a
<1>3. Len(q) = k /\ q \in Seq(Items)
  BY <1>1, <1>b, ListOfLength
<1> QED BY <1>1, <1>2, <1>3 DEF Lists, Marks, k

LEMMA ServerListIs ==
  ASSUME row \in [Notes -> {"none", "unread", "read", "gone"}]
  PROVE  ServerList \in Seq(Items) /\ Len(ServerList) <= Window /\ Lists(ServerList, Rows) /\ Marks(ServerList, row)
<1>1. Rows \in SUBSET Notes
  BY DEF Rows
<1>2. Len(Reverse(InOrder(Rows))) = Cardinality(Rows)
  BY <1>1, NewestFirst
<1>3. ServerList = [i \in 1 .. Least(Cardinality(Rows), Window) |->
                      [note |-> Reverse(InOrder(Rows))[i], read |-> row[Reverse(InOrder(Rows))[i]] = "read"]]
  BY <1>2 DEF ServerList, Least
<1> QED BY <1>1, <1>3, WindowOf

LEMMA OneWindow ==
  ASSUME NEW S \in SUBSET Notes, NEW v, NEW q \in Seq(Items), NEW r \in Seq(Items),
         Lists(q, S), Marks(q, v), Lists(r, S), Marks(r, v)
  PROVE  q = r
<1>1. Len(q) = Len(r) /\ Len(q) \in Nat
  BY DEF Lists
<1>2. ASSUME NEW i \in 1 .. Len(q) PROVE q[i] = r[i]
  <2>1. q[i] \in Items /\ r[i] \in Items
    BY <1>1
  <2>2. q[i].note = r[i].note
    BY <1>1, PlaceOnce DEF Lists
  <2>3. q[i].read = r[i].read
    BY <1>1, <2>2 DEF Marks
  <2> QED BY <2>1, <2>2, <2>3 DEF Items
<1> QED BY <1>1, <1>2

(* What is in the window, and where. *)
LEMMA InWindow ==
  ASSUME NEW S \in SUBSET Notes, NEW q \in Seq(Items), Lists(q, S), NEW n \in S, Place(S, n) <= Len(q)
  PROVE  Place(S, n) \in 1 .. Len(q) /\ q[Place(S, n)].note = n
<1>1. Place(S, n) \in 1 .. Len(q)
  <2>1. Cardinality(S) \in Nat /\ Len(q) \in Nat
    BY NotesAreNumbers
  <2> QED BY <2>1, PlaceCounts
<1>2. q[Place(S, n)].note \in S /\ Place(S, q[Place(S, n)].note) = Place(S, n)
  BY <1>1 DEF Lists
<1> QED BY <1>1, <1>2, PlaceOnce

LEMMA WholeWindow ==
  ASSUME NEW S \in SUBSET Notes, NEW q \in Seq(Items), Lists(q, S), Cardinality(S) <= Window
  PROVE  Len(q) = Cardinality(S) /\ \A n \in S : Place(S, n) \in 1 .. Len(q) /\ q[Place(S, n)].note = n
<1>1. Len(q) = Cardinality(S) /\ Cardinality(S) \in Nat
  BY NotesAreNumbers DEF Lists, Least
<1>2. ASSUME NEW n \in S PROVE Place(S, n) <= Len(q)
  BY <1>1, PlaceCounts
<1> QED BY <1>1, <1>2, InWindow

-----------------------------------------------------------------------------
(* What the store does to the dropdown. *)

KeptAt(ns) == {i \in DOMAIN recent : recent[i].note \notin ns}

LEMMA KeptAtIs ==
  ASSUME recent \in Seq(Items), NEW ns
  PROVE  /\ KeptAt(ns) \in SUBSET Nat /\ IsFiniteSet(KeptAt(ns)) /\ Cardinality(KeptAt(ns)) \in Nat
         /\ Cardinality(KeptAt(ns)) <= Len(recent)
         /\ KeptAt(ns) \subseteq 1 .. Len(recent)
         /\ InOrder(KeptAt(ns)) \in [1 .. Cardinality(KeptAt(ns)) -> KeptAt(ns)]
         /\ \A i, j \in 1 .. Cardinality(KeptAt(ns)) : i < j => InOrder(KeptAt(ns))[i] < InOrder(KeptAt(ns))[j]
         /\ Without(ns) = [i \in 1 .. Cardinality(KeptAt(ns)) |-> recent[InOrder(KeptAt(ns))[i]]]
<1>a. Len(recent) \in Nat
  OBVIOUS
<1>1. IsFiniteSet(1 .. Len(recent)) /\ Cardinality(1 .. Len(recent)) = Len(recent) /\ Len(recent) \in Nat
  BY <1>a, FS_Interval
<1>2. KeptAt(ns) \in SUBSET (1 .. Len(recent))
  BY DEF KeptAt
<1>3. /\ KeptAt(ns) \in SUBSET Nat /\ IsFiniteSet(KeptAt(ns)) /\ Cardinality(KeptAt(ns)) \in Nat
      /\ Cardinality(KeptAt(ns)) <= Len(recent)
  BY <1>1, <1>2, FS_Subset, FS_CardinalityType
<1>4. /\ InOrder(KeptAt(ns)) \in [1 .. Cardinality(KeptAt(ns)) -> KeptAt(ns)]
      /\ \A i, j \in 1 .. Cardinality(KeptAt(ns)) : i < j => InOrder(KeptAt(ns))[i] < InOrder(KeptAt(ns))[j]
  BY <1>3, OrderedExists
<1>5. Without(ns) = [i \in 1 .. Cardinality(KeptAt(ns)) |-> recent[InOrder(KeptAt(ns))[i]]]
  <2>1. DOMAIN InOrder(KeptAt(ns)) = 1 .. Cardinality(KeptAt(ns))
    BY <1>4
  <2> QED BY <2>1 DEF Without, KeptAt
<1> QED BY <1>2, <1>3, <1>4, <1>5

LEMMA WithoutType ==
  ASSUME recent \in Seq(Items), NEW ns
  PROVE  /\ Without(ns) \in Seq(Items) /\ Len(Without(ns)) <= Len(recent)
         /\ Len(Without(ns)) = Cardinality(KeptAt(ns))
<1> DEFINE k == Cardinality(KeptAt(ns))  q == InOrder(KeptAt(ns))
<1>1. k \in Nat /\ k <= Len(recent) /\ KeptAt(ns) \subseteq 1 .. Len(recent) /\ q \in [1 .. k -> KeptAt(ns)]
  BY KeptAtIs
<1>2. Without(ns) = [i \in 1 .. k |-> recent[q[i]]]
  BY KeptAtIs
<1> HIDE DEF k, q
<1>3. \A i \in 1 .. k : recent[q[i]] \in Items
  BY <1>1
<1>4. Without(ns) \in Seq(Items) /\ Len(Without(ns)) = k
  BY <1>1, <1>2, <1>3
<1> QED BY <1>1, <1>4 DEF k

LEMMA WithoutAbsent ==
  ASSUME recent \in Seq(Items), NEW ns, \A i \in DOMAIN recent : recent[i].note \notin ns
  PROVE  Without(ns) = recent
<1> DEFINE k == Len(recent)  id == [i \in 1 .. k |-> i]
<1>1. KeptAt(ns) = 1 .. k /\ k \in Nat
  BY DEF KeptAt
<1>2. Cardinality(KeptAt(ns)) = k
  BY <1>1, FS_Interval
<1>3. KeptAt(ns) \in SUBSET Nat /\ IsFiniteSet(KeptAt(ns))
  BY KeptAtIs
<1>4. /\ id \in [1 .. Cardinality(KeptAt(ns)) -> KeptAt(ns)]
      /\ \A i, j \in 1 .. Cardinality(KeptAt(ns)) : i < j => id[i] < id[j]
  BY <1>1, <1>2
<1>5. id = InOrder(KeptAt(ns))
  <2> HIDE DEF id
  <2> QED BY <1>3, <1>4, OrderedUnique
<1>6. Without(ns) = [i \in 1 .. k |-> recent[id[i]]]
  BY <1>2, <1>5, KeptAtIs
<1> QED BY <1>6

(* A new one, in front of the others; the last leaves a full window. *)
LEMMA FirstInWindow ==
  ASSUME recent \in Seq(Items), NEW S \in SUBSET Notes, NEW n \in Notes, \A m \in S : m < n, Lists(recent, S),
         NEW q, q = Pushed([note |-> n, read |-> FALSE], Without({n}))
  PROVE  /\ Lists(q, S \cup {n})
         /\ \A v, w : /\ Marks(recent, v) /\ w[n] # "read" /\ \A m \in S : w[m] = v[m]
                      => Marks(q, w)
<1> DEFINE k == Cardinality(S)  l == Len(recent)  first == [note |-> n, read |-> FALSE]
<1>0. /\ k \in Nat /\ Window \in Nat /\ Window >= 1 /\ l \in Nat /\ l = Least(k, Window)
      /\ \A i \in 1 .. l : recent[i] \in Items /\ recent[i].note \in S /\ Place(S, recent[i].note) = i
  BY NotesAreNumbers DEF Lists
<1>1. /\ n \notin S /\ Cardinality(S \cup {n}) = k + 1
      /\ Place(S \cup {n}, n) = 1
      /\ \A m \in S : Place(S \cup {n}, m) = Place(S, m) + 1
  BY PlaceFirst
<1>2. Without({n}) = recent
  <2>1. \A i \in DOMAIN recent : recent[i].note \notin {n}
    BY <1>0, <1>1
  <2> QED BY <2>1, WithoutAbsent
<1>3. first \in Items
  BY DEF Items
<1>4. q = Pushed(first, recent)
  BY <1>2
<1>5. /\ Len(q) = Least(k + 1, Window) /\ Len(q) \in Nat
      /\ \A i \in 1 .. Len(q) :
           \/ i = 1 /\ q[i] = first
           \/ i - 1 \in 1 .. l /\ q[i] = recent[i - 1]
  <2>1. Least(l + 1, Window) = Least(k + 1, Window) /\ Least(k + 1, Window) \in Nat
    BY <1>0 DEF Least
  <2> HIDE DEF first
  <2>2. Len(q) = Least(l + 1, Window)
    BY <1>3, <1>4, InFront
  <2>3. \A i \in 1 .. Len(Pushed(first, recent)) :
           \/ i = 1 /\ Pushed(first, recent)[i] = first
           \/ i - 1 \in 1 .. l /\ Pushed(first, recent)[i] = recent[i - 1]
    BY <1>3, InFront
  <2> QED BY <1>4, <2>1, <2>2, <2>3
<1>6. ASSUME NEW i \in 1 .. Len(q)
      PROVE  \/ i = 1 /\ q[i].note = n /\ q[i].read = FALSE
             \/ i \in Nat /\ i - 1 \in 1 .. l /\ q[i] = recent[i - 1]
  <2>1. i \in Nat
    BY <1>5
  <2>2. \/ i = 1 /\ q[i] = first
        \/ i - 1 \in 1 .. l /\ q[i] = recent[i - 1]
    <3> HIDE DEF first
    <3> QED BY <1>5
  <2>3. first.note = n /\ first.read = FALSE
    OBVIOUS
  <2> HIDE DEF first
  <2> QED BY <2>1, <2>2, <2>3
<1>8. ASSUME NEW i \in 1 .. Len(q)
      PROVE  q[i].note \in S \cup {n} /\ Place(S \cup {n}, q[i].note) = i
  <2>1. CASE i = 1 /\ q[i].note = n
    BY <1>1, <2>1
  <2>2. CASE i \in Nat /\ i - 1 \in 1 .. l /\ q[i] = recent[i - 1]
    <3>1. recent[i - 1].note \in S /\ Place(S, recent[i - 1].note) = i - 1
      BY <1>0, <2>2
    <3>2. Place(S \cup {n}, recent[i - 1].note) = (i - 1) + 1
      BY <1>1, <3>1
    <3>3. (i - 1) + 1 = i
      BY <2>2
    <3> QED BY <2>2, <3>1, <3>2, <3>3
  <2> QED BY <1>6, <2>1, <2>2
<1>9. Lists(q, S \cup {n})
  BY <1>1, <1>5, <1>8 DEF Lists
<1>10. ASSUME NEW v, NEW w, Marks(recent, v), w[n] # "read", \A m \in S : w[m] = v[m]
       PROVE  Marks(q, w)
  <2> SUFFICES ASSUME NEW i \in 1 .. Len(q) PROVE q[i].read = (w[q[i].note] = "read")
    BY DEF Marks
  <2>1. CASE q[i].note = n /\ q[i].read = FALSE
    BY <1>10, <2>1
  <2>2. CASE i - 1 \in 1 .. l /\ q[i] = recent[i - 1]
    <3>1. recent[i - 1].note \in S /\ recent[i - 1].read = (v[recent[i - 1].note] = "read")
      BY <1>0, <1>10, <2>2 DEF Marks
    <3> QED BY <1>10, <2>2, <3>1
  <2> QED BY <1>6, <2>1, <2>2
<1> QED BY <1>9, <1>10

(* Some are taken out of a window that shows everything. *)
LEMMA WithoutWindow ==
  ASSUME recent \in Seq(Items), NEW S \in SUBSET Notes, Lists(recent, S), Cardinality(S) <= Window, NEW ns
  PROVE  /\ Lists(Without(ns), S \ ns)
         /\ \A v, w : Marks(recent, v) /\ (\A m \in S \ ns : w[m] = v[m]) => Marks(Without(ns), w)
<1> DEFINE K == KeptAt(ns)  k == Cardinality(K)  o == InOrder(K)  q == Without(ns)  R == S \ ns
<1>1. /\ K \in SUBSET Nat /\ IsFiniteSet(K) /\ k \in Nat /\ K \subseteq 1 .. Len(recent)
      /\ o \in [1 .. k -> K] /\ \A i, j \in 1 .. k : i < j => o[i] < o[j]
      /\ q = [i \in 1 .. k |-> recent[o[i]]]
  BY KeptAtIs
<1>2. \A i \in 1 .. k : Cardinality(UpTo(K, o[i])) = i
  <2> HIDE DEF o, K
  <2> QED BY <1>1, OrderedOnto
<1>3. \A i \in K : i \in Nat /\ i \in 1 .. Len(recent) /\ recent[i] \in Items /\ recent[i].note \in R
  BY <1>1 DEF KeptAt, Lists
<1>4. /\ \A i \in 1 .. Len(recent) : recent[i].note \in S /\ Place(S, recent[i].note) = i
      /\ \A m \in S : Place(S, m) \in 1 .. Len(recent) /\ recent[Place(S, m)].note = m
  BY WholeWindow DEF Lists
<1>5. \A m \in R : Place(S, m) \in K /\ recent[Place(S, m)].note = m
  BY <1>4 DEF KeptAt
<1>6. \A i, j \in K : recent[i].note = recent[j].note => i = j
  BY <1>3, <1>4
<1> HIDE DEF K, k, o, q
<1>7. Cardinality(R) = k
  <2> DEFINE f == [i \in K |-> recent[i].note]
  <2>1. f \in [K -> R] /\ \A i, j \in K : f[i] = f[j] => i = j
    BY <1>3, <1>6
  <2>2. \A m \in R : \E i \in K : f[i] = m
    BY <1>5
  <2> HIDE DEF f, R
  <2> QED BY <1>1, <2>1, <2>2, SameCount DEF k
<1>8. Len(q) = k /\ Least(k, Window) = k
  <2>1. k <= Cardinality(S) /\ Cardinality(S) \in Nat /\ Window \in Nat
    BY <1>7, NotesAreNumbers, FS_Subset
  <2> QED BY <1>1, <2>1 DEF Least
<1>9. ASSUME NEW i \in 1 .. k PROVE q[i].note \in R /\ Place(R, q[i].note) = i
  <2> DEFINE n == recent[o[i]].note
             U == UpTo(K, o[i])
             P == {m \in R : m >= n}
             g == [j \in U |-> recent[j].note]
  <2>1. q[i].note = n /\ o[i] \in K /\ n \in R /\ n \in S /\ Place(S, n) = o[i] /\ o[i] \in Nat
    BY <1>1, <1>3, <1>4
  <2> HIDE DEF n
  <2>2. IsFiniteSet(U) /\ Cardinality(U) = i
    BY <1>1, <1>2, FS_Subset DEF UpTo
  <2>3. ASSUME NEW j \in U PROVE recent[j].note \in P
    <3>1. j \in K /\ j <= o[i]
      BY DEF UpTo
    <3>2. recent[j].note \in S /\ recent[j].note \in R /\ Place(S, recent[j].note) = j
      BY <1>3, <1>4, <3>1
    <3>3. recent[j].note >= n
      BY <2>1, <3>1, <3>2, PlaceOnce
    <3> QED BY <3>2, <3>3
  <2>4. \A a, b \in U : g[a] = g[b] => a = b
    BY <1>6 DEF UpTo
  <2>5. ASSUME NEW m \in R, m >= n PROVE \E j \in U : g[j] = m
    <3>1. m \in S /\ Place(S, m) \in K /\ recent[Place(S, m)].note = m
      BY <1>5
    <3>2. Place(S, m) \in Nat /\ o[i] \in Nat /\ m \in Nat /\ n \in Nat
      BY <1>3, <2>1, <3>1, NotesAreNumbers
    <3>3. Place(S, m) <= o[i]
      <4> SUFFICES ASSUME Place(S, n) < Place(S, m) PROVE FALSE
        BY <2>1, <3>2
      <4>1. n >= m
        BY <2>1, <3>1, <3>2, PlaceOnce
      <4>2. n = m
        BY <2>5, <3>2, <4>1
      <4> QED BY <3>2, <4>2
    <3>4. Place(S, m) \in U
      BY <3>1, <3>3 DEF UpTo
    <3> QED BY <3>1, <3>4
  <2>6. Cardinality(P) = i
    <3>1. g \in [U -> P] /\ \A m \in P : \E j \in U : g[j] = m
      BY <2>3, <2>5
    <3> HIDE DEF g, P, U
    <3> QED BY <2>2, <2>4, <3>1, SameCount
  <2> QED BY <2>1, <2>6 DEF Place
<1>10. Lists(q, R)
  BY <1>7, <1>8, <1>9 DEF Lists
<1>11. ASSUME NEW v, NEW w, Marks(recent, v), \A m \in R : w[m] = v[m] PROVE Marks(q, w)
  <2> SUFFICES ASSUME NEW i \in 1 .. k PROVE q[i].read = (w[q[i].note] = "read")
    BY <1>8 DEF Marks
  <2>1. q[i] = recent[o[i]] /\ o[i] \in 1 .. Len(recent) /\ recent[o[i]].note \in R
    BY <1>1, <1>3
  <2> QED BY <1>11, <2>1 DEF Marks
<1> QED BY <1>10, <1>11 DEF q

LEMMA ReadInIs ==
  ASSUME recent \in Seq(Items), NEW ns
  PROVE  /\ ReadIn(ns) \in Seq(Items) /\ Len(ReadIn(ns)) = Len(recent)
         /\ \A i \in 1 .. Len(recent) : /\ ReadIn(ns)[i].note = recent[i].note
                                        /\ ReadIn(ns)[i].read = (recent[i].read \/ recent[i].note \in ns)
<1> DEFINE k == Len(recent)
<1>1. k \in Nat /\ DOMAIN recent = 1 .. k /\ \A i \in 1 .. k : recent[i] \in Items
  OBVIOUS
<1>2. ReadIn(ns) = [i \in 1 .. k |-> [recent[i] EXCEPT !.read = @ \/ recent[i].note \in ns]]
  BY <1>1 DEF ReadIn
<1> HIDE DEF k
<1>3. ASSUME NEW i \in 1 .. k
      PROVE  /\ ReadIn(ns)[i] \in Items
             /\ ReadIn(ns)[i].note = recent[i].note
             /\ ReadIn(ns)[i].read = (recent[i].read \/ recent[i].note \in ns)
  <2>1. recent[i] \in Items
    BY <1>1
  <2>2. ReadIn(ns)[i] = [recent[i] EXCEPT !.read = @ \/ recent[i].note \in ns]
    BY <1>2
  <2>3. (recent[i].read \/ recent[i].note \in ns) \in BOOLEAN
    OBVIOUS
  <2> QED BY <2>1, <2>2, <2>3 DEF Items
<1>4. ReadIn(ns) \in [1 .. k -> Items]
  BY <1>2, <1>3
<1>5. ReadIn(ns) \in Seq(Items) /\ Len(ReadIn(ns)) = k
  BY <1>1, <1>4, ListOfLength
<1> QED BY <1>3, <1>5 DEF k

LEMMA ReadWindow ==
  ASSUME recent \in Seq(Items), NEW S \in SUBSET Notes, Lists(recent, S), NEW ns
  PROVE  /\ Lists(ReadIn(ns), S)
         /\ \A v, w : Marks(recent, v) /\ (\A m \in S : (w[m] = "read") = (v[m] = "read" \/ m \in ns))
                      => Marks(ReadIn(ns), w)
         /\ \A w : S \subseteq ns /\ (\A m \in S : w[m] = "read") => Marks(ReadIn(ns), w)
<1>1. Lists(ReadIn(ns), S)
  BY ReadInIs DEF Lists
<1>2. ASSUME NEW i \in 1 .. Len(recent)
      PROVE  /\ recent[i].note \in S /\ recent[i].read \in BOOLEAN
             /\ ReadIn(ns)[i].note = recent[i].note
             /\ ReadIn(ns)[i].read = (recent[i].read \/ recent[i].note \in ns)
  <2>1. recent[i] \in Items
    OBVIOUS
  <2> QED BY <2>1, ReadInIs DEF Lists, Items
<1>3. ASSUME NEW v, NEW w, Marks(recent, v), \A m \in S : (w[m] = "read") = (v[m] = "read" \/ m \in ns)
      PROVE  Marks(ReadIn(ns), w)
  <2> SUFFICES ASSUME NEW i \in 1 .. Len(recent) PROVE ReadIn(ns)[i].read = (w[ReadIn(ns)[i].note] = "read")
    BY ReadInIs DEF Marks
  <2>1. recent[i].read = (v[recent[i].note] = "read")
    BY <1>3 DEF Marks
  <2> QED BY <1>2, <1>3, <2>1
<1>4. ASSUME NEW w, S \subseteq ns, \A m \in S : w[m] = "read"
      PROVE  Marks(ReadIn(ns), w)
  <2> SUFFICES ASSUME NEW i \in 1 .. Len(recent) PROVE ReadIn(ns)[i].read = (w[ReadIn(ns)[i].note] = "read")
    BY ReadInIs DEF Marks
  <2> QED BY <1>2, <1>4
<1> QED BY <1>1, <1>3, <1>4

-----------------------------------------------------------------------------
(* The badge. *)

UnreadOf(v) == Cardinality({n \in Notes : v[n] = "unread"})

LEMMA UnreadIsShown ==
  ASSUME recent \in Seq(Items), NEW S \in SUBSET Notes, Lists(recent, S), NEW v, Marks(recent, v),
         \A m \in S : v[m] \in {"unread", "read"}, NEW n, UnreadInRecent(n)
  PROVE  n \in S /\ v[n] = "unread"
<1>0. DOMAIN recent = 1 .. Len(recent)
  OBVIOUS
<1>1. PICK i \in 1 .. Len(recent) : recent[i] = [note |-> n, read |-> FALSE]
  BY <1>0 DEF UnreadInRecent
<1>2. recent[i].note = n /\ recent[i].read = FALSE
  BY <1>1
<1>3. n \in S /\ v[n] # "read"
  BY <1>2 DEF Lists, Marks
<1> QED BY <1>3

LEMMA LessIs ==
  ASSUME unread \in Nat, NEW ns \in SUBSET Notes
  PROVE  Less(ns) \in Nat
<1> DEFINE k == Cardinality({n \in ns : UnreadInRecent(n)})
<1>1. k \in Nat
  <2>1. {n \in ns : UnreadInRecent(n)} \in SUBSET Notes
    OBVIOUS
  <2> QED BY <2>1, NotesAreNumbers
<1>2. Less(ns) = IF unread > k THEN unread - k ELSE 0
  BY DEF Less
<1> HIDE DEF k
<1> QED BY <1>1, <1>2

LEMMA LessCounts ==
  ASSUME NEW ns \in SUBSET Notes, NEW v, NEW w, unread = UnreadOf(v),
         \A n \in ns : UnreadInRecent(n) <=> v[n] = "unread",
         \A n \in Notes : w[n] = "unread" <=> v[n] = "unread" /\ n \notin ns
  PROVE  Less(ns) = UnreadOf(w)
<1> DEFINE U == {n \in Notes : v[n] = "unread"}
           k == Cardinality({n \in ns : UnreadInRecent(n)})
<1>1. {n \in ns : UnreadInRecent(n)} = U \cap ns /\ {n \in Notes : w[n] = "unread"} = U \ ns
  OBVIOUS
<1>2. U \in SUBSET Notes /\ U \cap ns \in SUBSET Notes /\ U \ ns \in SUBSET Notes
  OBVIOUS
<1>3. IsFiniteSet(U) /\ Cardinality(U) \in Nat /\ Cardinality(U \cap ns) \in Nat /\ Cardinality(U \ ns) \in Nat
  BY <1>2, NotesAreNumbers
<1>4. Cardinality(U \ ns) = Cardinality(U) - Cardinality(U \cap ns)
  BY <1>3, FS_Difference
<1>5. Less(ns) = IF unread > k THEN unread - k ELSE 0
  BY DEF Less
<1>6. k = Cardinality(U \cap ns) /\ UnreadOf(w) = Cardinality(U \ ns) /\ unread = Cardinality(U)
  BY <1>1 DEF UnreadOf
<1> HIDE DEF U, k
<1> QED BY <1>3, <1>4, <1>5, <1>6

LEMMA OneMoreUnread ==
  ASSUME NEW n \in Notes, NEW v, NEW w, v[n] # "unread", w[n] = "unread",
         \A m \in Notes : m # n => w[m] = v[m]
  PROVE  UnreadOf(w) = UnreadOf(v) + 1
<1> DEFINE U == {m \in Notes : v[m] = "unread"}
<1>1. U \in SUBSET Notes /\ n \notin U /\ {m \in Notes : w[m] = "unread"} = U \cup {n}
  OBVIOUS
<1>2. Cardinality(U \cup {n}) = Cardinality(U) + 1
  BY <1>1, NotesAreNumbers, FS_AddElement
<1> QED BY <1>1, <1>2 DEF UnreadOf

LEMMA ServerUnreadIs == ServerUnread \in Nat /\ ServerUnread = UnreadOf(row)
<1>1. {n \in Notes : row[n] = "unread"} \in SUBSET Notes
  OBVIOUS
<1> QED BY <1>1, NotesAreNumbers DEF ServerUnread, UnreadOf

-----------------------------------------------------------------------------
(* Types.  Those of the socket's variables are SocketTypeCorrect.           *)

LEMMA DriftType ==
  ASSUME drift \in Causes \cup {"none"}, NEW causes \in SUBSET Causes, DriftBy(causes)
  PROVE  drift' \in Causes \cup {"none"}
<1>1. CASE drift # "none"
  BY <1>1 DEF DriftBy
<1>2. CASE drift = "none" /\ causes # {}
  <2>1. drift' = CHOOSE c \in causes : TRUE
    BY <1>2 DEF DriftBy
  <2>2. (CHOOSE c \in causes : TRUE) \in causes
    BY <1>2
  <2> QED BY <2>1, <2>2
<1>3. CASE drift = "none" /\ causes = {}
  BY <1>3 DEF DriftBy, Causes
<1> QED BY <1>1, <1>2, <1>3

LEMMA DriftNone ==
  ASSUME NEW causes \in SUBSET Causes, DriftBy(causes), drift' = "none"
  PROVE  drift = "none" /\ causes = {} /\ ~Crossing'
<1>1. drift = "none"
  BY DEF DriftBy
<1>2. causes = {}
  <2> SUFFICES ASSUME causes # {} PROVE FALSE
    OBVIOUS
  <2>1. drift' = CHOOSE c \in causes : TRUE
    BY <1>1 DEF DriftBy
  <2>2. (CHOOSE c \in causes : TRUE) \in causes
    OBVIOUS
  <2> QED BY <2>1, <2>2 DEF Causes
<1> QED BY <1>1, <1>2 DEF DriftBy

LEMMA RefreshEffect ==
  ASSUME fetch \in [Fetches -> [count : Answers, list : Answers]], Refresh
  PROVE  \E f \in Fetches :
           /\ fetch[f] = NoFetch
           /\ fetch' = [fetch EXCEPT ![f] = [count |-> Asked, list |-> Asked]]
BY DEF Refresh

LEMMA AskedType ==
  /\ Idle \in Answers /\ Asked \in Answers /\ Failed \in Answers
  /\ NoFetch \in [count : Answers, list : Answers]
  /\ [count |-> Asked, list |-> Asked] \in [count : Answers, list : Answers]
  /\ Idle.list = <<>> /\ Asked.list = <<>> /\ Failed.list = <<>>
<1>1. Idle \in Answers /\ Asked \in Answers /\ Failed \in Answers
  BY DEF Idle, Asked, Failed, Answers
<1> QED BY <1>1 DEF NoFetch, Idle, Asked, Failed

(* What the links are after a step of the socket. *)
LEMMA LinksType ==
  ASSUME TypeOK, LinksFollow
  PROVE  /\ hub' \in [Sockets -> {"off", "queued", "on"}]
         /\ counted' \subseteq Sockets
         /\ chan' \in [Sockets -> Seq(Messages)]
<1>1. chan \in [Sockets -> Seq(Messages)] /\ hub \in [Sockets -> {"off", "queued", "on"}] /\ counted \subseteq Sockets
  BY DEF TypeOK
<1>2. <<>> \in Seq(Messages)
  OBVIOUS
<1> QED BY <1>1, <1>2 DEF LinksFollow

FetchTypeOK ==
  /\ fetch \in [Fetches -> [count : Answers, list : Answers]]
  /\ \A f \in Fetches : Len(fetch[f].list.list) <= Window
ServerTypeOK == row \in [Notes -> {"none", "unread", "read", "gone"}] /\ told \subseteq Notes
LinkTypeOK ==
  /\ hub \in [Sockets -> {"off", "queued", "on"}]
  /\ counted \subseteq Sockets
  /\ chan \in [Sockets -> Seq(Messages)]
TabTypeOK ==
  /\ unread \in Nat /\ initialized \in BOOLEAN
  /\ recent \in Seq(Items) /\ Len(recent) <= Window
LedgerTypeOK ==
  /\ asks \subseteq Requests
  /\ acts \in 0 .. MaxActs /\ faults \in 0 .. MaxFaults
DriftTypeOK == drift \in Causes \cup {"none"}

LEMMA TypeParts ==
  TypeOK <=> /\ SocketTypeOK /\ ServerTypeOK /\ LinkTypeOK /\ TabTypeOK
             /\ FetchTypeOK /\ LedgerTypeOK /\ DriftTypeOK
BY DEF TypeOK, ServerTypeOK, LinkTypeOK, TabTypeOK, FetchTypeOK, LedgerTypeOK, DriftTypeOK

LEMMA TypePartsNext ==
  SocketTypeOK' /\ ServerTypeOK' /\ LinkTypeOK' /\ TabTypeOK' /\ FetchTypeOK' /\ LedgerTypeOK' /\ DriftTypeOK' => TypeOK'
BY DEF TypeOK, ServerTypeOK, LinkTypeOK, TabTypeOK, FetchTypeOK, LedgerTypeOK, DriftTypeOK

LEMMA RefreshType ==
  ASSUME FetchTypeOK, Refresh PROVE FetchTypeOK'
<1>1. PICK f \in Fetches : fetch' = [fetch EXCEPT ![f] = [count |-> Asked, list |-> Asked]]
  BY DEF Refresh
<1>2. [count |-> Asked, list |-> Asked].list.list = <<>> /\ Len(<<>>) <= Window
  BY AskedType, NotesAreNumbers
<1> QED BY <1>1, <1>2, AskedType DEF FetchTypeOK

LEMMA PartType ==
  ASSUME FetchTypeOK, NEW f \in Fetches, NEW part \in {"count", "list"}, NEW answer \in Answers, Len(answer.list) <= Window,
         fetch' = [fetch EXCEPT ![f][part] = answer]
  PROVE  FetchTypeOK'
<1>1. fetch[f] \in [count : Answers, list : Answers]
  BY DEF FetchTypeOK
<1>2. fetch' = [fetch EXCEPT ![f] = [fetch[f] EXCEPT ![part] = answer]]
  OBVIOUS
<1>3. /\ [fetch[f] EXCEPT ![part] = answer] \in [count : Answers, list : Answers]
      /\ Len([fetch[f] EXCEPT ![part] = answer].list.list) <= Window
  <2>1. CASE part = "count"
    <3>1. [fetch[f] EXCEPT ![part] = answer] = [count |-> answer, list |-> fetch[f].list]
      BY <1>1, <2>1
    <3> QED BY <1>1, <3>1 DEF FetchTypeOK
  <2>2. CASE part = "list"
    <3>1. [fetch[f] EXCEPT ![part] = answer] = [count |-> fetch[f].count, list |-> answer]
      BY <1>1, <2>2
    <3> QED BY <1>1, <3>1 DEF FetchTypeOK
  <2> QED BY <2>1, <2>2
<1> QED BY <1>2, <1>3 DEF FetchTypeOK

LEMMA SnapshotType ==
  ASSUME ServerTypeOK, NEW part \in {"count", "list"}
  PROVE  Snapshot(part) \in Answers /\ Len(Snapshot(part).list) <= Window
<1>1. ServerUnread \in Nat
  BY ServerUnreadIs
<1>2. ServerList \in Seq(Items) /\ Len(ServerList) <= Window
  BY ServerListIs DEF ServerTypeOK
<1>3. <<>> \in Seq(Items) /\ Len(<<>>) <= Window
  BY NotesAreNumbers
<1> QED BY <1>1, <1>2, <1>3 DEF Snapshot, Answers

LEMMA StoreType ==
  ASSUME TabTypeOK
  PROVE  /\ \A n \in Notes : AddNotification(n) /\ UNCHANGED initialized => TabTypeOK'
         /\ \A ns \in SUBSET Notes : /\ Without(ns) \in Seq(Items) /\ Len(Without(ns)) <= Window
                                     /\ ReadIn(ns) \in Seq(Items) /\ Len(ReadIn(ns)) <= Window
                                     /\ Less(ns) \in Nat
<1> USE DEF TabTypeOK
<1>1. ASSUME NEW n \in Notes, AddNotification(n), UNCHANGED initialized PROVE TabTypeOK'
  <2> DEFINE first == [note |-> n, read |-> FALSE]
  <2>1. first \in Items
    BY DEF Items
  <2>2. Without({n}) \in Seq(Items)
    BY WithoutType
  <2>3. recent' = Pushed(first, Without({n})) /\ unread' \in Nat
    BY <1>1 DEF AddNotification, Pushed
  <2> HIDE DEF first
  <2>4. recent' \in Seq(Items) /\ Len(recent') = Least(Len(Without({n})) + 1, Window) /\ Len(Without({n})) \in Nat
    BY <2>1, <2>2, <2>3, InFront
  <2>5. Len(recent') <= Window
    BY <2>4, NotesAreNumbers DEF Least
  <2> QED BY <1>1, <2>3, <2>4, <2>5
<1>2. ASSUME NEW ns \in SUBSET Notes
      PROVE  /\ Without(ns) \in Seq(Items) /\ Len(Without(ns)) <= Window
             /\ ReadIn(ns) \in Seq(Items) /\ Len(ReadIn(ns)) <= Window
             /\ Less(ns) \in Nat
  <2>1. Without(ns) \in Seq(Items) /\ Len(Without(ns)) <= Len(recent) /\ Len(Without(ns)) \in Nat /\ Len(recent) \in Nat
    BY WithoutType
  <2>2. ReadIn(ns) \in Seq(Items) /\ Len(ReadIn(ns)) = Len(recent)
    BY ReadInIs
  <2> QED BY <2>1, <2>2, LessIs, NotesAreNumbers
<1> QED BY <1>1, <1>2

LEMMA SpentType ==
  /\ acts \in 0 .. MaxActs /\ Act => acts' \in 0 .. MaxActs
  /\ faults \in 0 .. MaxFaults /\ Fault => faults' \in 0 .. MaxFaults
BY FeedAssumption DEF Act, Fault

LEMMA AskType ==
  ASSUME asks \subseteq Requests, NEW kind \in {"read", "all", "delete"}, NEW ns \in SUBSET Notes, Ask(kind, ns)
  PROVE  asks' \subseteq Requests
<1>1. [kind |-> kind, notes |-> ns, done |-> FALSE] \in Requests
  BY DEF Requests
<1> QED BY <1>1 DEF Ask

LEMMA AppendType ==
  ASSUME NEW q \in Seq(Messages), NEW n \in Notes, NEW times \in Nat
  PROVE  q \o [i \in 1 .. times |-> [kind |-> "new", arg |-> n]] \in Seq(Messages)
<1>1. [kind |-> "new", arg |-> n] \in Messages
  BY DEF Messages
<1>2. [i \in 1 .. times |-> [kind |-> "new", arg |-> n]] \in [1 .. times -> Messages]
  BY <1>1
<1>3. [i \in 1 .. times |-> [kind |-> "new", arg |-> n]] \in Seq(Messages)
  BY <1>2, ListOfLength
<1> QED BY <1>3

LEMMA ServerTypes ==
  ASSUME TypeOK, ServerStep PROVE TypeOK'
<1> USE TypeParts, TypePartsNext
<1>1. SocketTypeOK'
  <2>1. UNCHANGED socketVars
    BY DEF ServerStep, Insert, DispatchOnce, DispatchLost, DispatchTwice, Dispatch, Elsewhere, HubAdds, SendCount
  <2> QED BY <2>1 DEF SocketTypeOK, socketVars, storeVars, refVars, timerVars, mountVars
<1>2. ASSUME NEW n \in Notes, Insert(n) PROVE TypeOK'
  <2>1. ServerTypeOK'
    BY <1>2 DEF Insert, ServerTypeOK
  <2>2. DriftTypeOK'
    BY <1>2, DriftType DEF Insert, DriftTypeOK
  <2> QED BY <1>1, <1>2, <2>1, <2>2
          DEF Insert, linkVars, tabVars, LinkTypeOK, TabTypeOK, FetchTypeOK, LedgerTypeOK
<1>3. ASSUME NEW n \in Notes, NEW times \in Nat, Dispatch(n, times), faults' \in 0 .. MaxFaults PROVE TypeOK'
  <2>1. ServerTypeOK'
    BY <1>3 DEF Dispatch, ServerTypeOK
  <2>2. DriftTypeOK'
    BY <1>3, DriftType DEF Dispatch, DriftTypeOK, Causes
  <2>3. chan' \in [Sockets -> Seq(Messages)]
    BY <1>3, AppendType DEF Dispatch, LinkTypeOK
  <2>4. acts' \in 0 .. MaxActs /\ asks' \subseteq Requests
    BY <1>3 DEF Dispatch, LedgerTypeOK
  <2> QED BY <1>1, <1>3, <2>1, <2>2, <2>3, <2>4
          DEF Dispatch, tabVars, LinkTypeOK, TabTypeOK, FetchTypeOK, LedgerTypeOK
<1>4. ASSUME NEW n \in Notes, DispatchOnce(n) \/ DispatchLost(n) \/ DispatchTwice(n) PROVE TypeOK'
  <2>1. faults' \in 0 .. MaxFaults
    BY <1>4, SpentType DEF DispatchOnce, DispatchLost, DispatchTwice, LedgerTypeOK
  <2> QED BY <1>3, <1>4, <2>1 DEF DispatchOnce, DispatchLost, DispatchTwice
<1>5. ASSUME NEW n \in Notes, NEW fate \in {"read", "gone"}, Elsewhere(n, fate) PROVE TypeOK'
  <2>1. ServerTypeOK'
    BY <1>5 DEF Elsewhere, ServerTypeOK
  <2>2. DriftTypeOK'
    BY <1>5, DriftType DEF Elsewhere, DriftTypeOK, Causes
  <2>3. faults' \in 0 .. MaxFaults
    BY <1>5, SpentType DEF Elsewhere, LedgerTypeOK
  <2>4. acts' \in 0 .. MaxActs /\ asks' \subseteq Requests
    BY <1>5 DEF Elsewhere, LedgerTypeOK
  <2> QED BY <1>1, <1>5, <2>1, <2>2, <2>3, <2>4
          DEF Elsewhere, linkVars, tabVars, LinkTypeOK, TabTypeOK, FetchTypeOK, LedgerTypeOK
<1>6. ASSUME NEW s \in Sockets, HubAdds(s) PROVE TypeOK'
  <2>1. LinkTypeOK'
    BY <1>6 DEF HubAdds, LinkTypeOK
  <2>2. DriftTypeOK'
    BY <1>6, DriftType DEF HubAdds, DriftTypeOK
  <2> QED BY <1>1, <1>6, <2>1, <2>2
          DEF HubAdds, serverVars, tabVars, ServerTypeOK, TabTypeOK, FetchTypeOK, LedgerTypeOK
<1>7. ASSUME NEW s \in Sockets, SendCount(s) PROVE TypeOK'
  <2>1. [kind |-> "count", arg |-> ServerUnread] \in Messages
    BY ServerUnreadIs DEF Messages
  <2>2. LinkTypeOK'
    BY <1>7, <2>1 DEF SendCount, LinkTypeOK
  <2>3. DriftTypeOK'
    BY <1>7, DriftType DEF SendCount, DriftTypeOK
  <2> QED BY <1>1, <1>7, <2>2, <2>3
          DEF SendCount, serverVars, tabVars, ServerTypeOK, TabTypeOK, FetchTypeOK, LedgerTypeOK
<1> QED BY <1>2, <1>4, <1>5, <1>6, <1>7 DEF ServerStep

LEMMA FetchTypes ==
  ASSUME TypeOK, FetchStep PROVE TypeOK'
<1> USE TypeParts, TypePartsNext
<1>1. SocketTypeOK' /\ ServerTypeOK' /\ LinkTypeOK' /\ asks' \subseteq Requests /\ acts' \in 0 .. MaxActs
  <2>1. UNCHANGED <<socketVars, serverVars, linkVars, asks, acts>>
    BY DEF FetchStep, Settle, Serve, ServeFails
  <2>2. SocketTypeOK'
    BY <2>1 DEF SocketTypeOK, socketVars, storeVars, refVars, timerVars, mountVars
  <2> QED BY <2>1, <2>2 DEF serverVars, linkVars, ServerTypeOK, LinkTypeOK, LedgerTypeOK
<1>2. ASSUME NEW f \in Fetches, Settle(f) PROVE TypeOK'
  <2>1. fetch[f] \in [count : Answers, list : Answers] /\ Len(fetch[f].list.list) <= Window
    BY DEF FetchTypeOK
  <2>2. fetch[f].count.count \in Nat /\ fetch[f].list.list \in Seq(Items)
    BY <2>1 DEF Answers
  <2>3. TabTypeOK'
    BY <1>2, <2>1, <2>2 DEF Settle, TabTypeOK
  <2>4. FetchTypeOK'
    <3>1. NoFetch.list.list = <<>> /\ Len(<<>>) <= Window
      BY AskedType, NotesAreNumbers DEF NoFetch
    <3> QED BY <1>2, <3>1, AskedType DEF Settle, FetchTypeOK
  <2>5. DriftTypeOK'
    BY <1>2, DriftType DEF Settle, DriftTypeOK
  <2>6. UNCHANGED faults
    BY <1>2 DEF Settle
  <2> QED BY <1>1, <2>3, <2>4, <2>5, <2>6 DEF LedgerTypeOK
<1>3. ASSUME NEW f \in Fetches, NEW part \in {"count", "list"}, Serve(f, part) PROVE TypeOK'
  <2>1. FetchTypeOK'
    BY <1>3, SnapshotType, PartType DEF Serve
  <2>2. DriftTypeOK'
    BY <1>3, DriftType DEF Serve, DriftTypeOK
  <2>3. UNCHANGED <<tabVars, faults>>
    BY <1>3 DEF Serve
  <2> QED BY <1>1, <2>1, <2>2, <2>3 DEF tabVars, TabTypeOK, LedgerTypeOK
<1>4. ASSUME NEW f \in Fetches, NEW part \in {"count", "list"}, ServeFails(f, part) PROVE TypeOK'
  <2>1. FetchTypeOK'
    <3>1. Failed \in Answers /\ Len(Failed.list) <= Window
      BY AskedType, NotesAreNumbers
    <3> QED BY <1>4, <3>1, PartType DEF ServeFails
  <2>2. DriftTypeOK'
    BY <1>4, DriftType DEF ServeFails, DriftTypeOK, Causes
  <2>3. faults' \in 0 .. MaxFaults
    BY <1>4, SpentType DEF ServeFails, LedgerTypeOK
  <2>4. UNCHANGED tabVars
    BY <1>4 DEF ServeFails
  <2> QED BY <1>1, <2>1, <2>2, <2>3, <2>4 DEF tabVars, TabTypeOK, LedgerTypeOK
<1> QED BY <1>2, <1>3, <1>4 DEF FetchStep

LEMMA UserTypes ==
  ASSUME TypeOK, UserStep PROVE TypeOK'
<1> USE TypeParts, TypePartsNext
<1>1. SocketTypeOK' /\ LinkTypeOK' /\ FetchTypeOK' /\ told' \subseteq Notes
  <2>1. UNCHANGED <<socketVars, linkVars, fetch, told>>
    BY DEF UserStep, UserReads, UserDeletes, UserReadsAll, ServeAsk, AllAnswered, AskFails, serverVars
  <2>2. SocketTypeOK'
    BY <2>1 DEF SocketTypeOK, socketVars, storeVars, refVars, timerVars, mountVars
  <2> QED BY <2>1, <2>2 DEF linkVars, LinkTypeOK, FetchTypeOK, ServerTypeOK
<1>2. ASSUME NEW n \in Notes, UserReads(n) PROVE TypeOK'
  <2>1. TabTypeOK'
    BY <1>2, StoreType DEF UserReads, MarkAsRead, TabTypeOK
  <2>2. LedgerTypeOK'
    BY <1>2, SpentType, AskType DEF UserReads, LedgerTypeOK
  <2>3. DriftTypeOK'
    BY <1>2, DriftType DEF UserReads, BeyondWindow, DriftTypeOK, Causes
  <2> QED BY <1>1, <1>2, <2>1, <2>2, <2>3 DEF UserReads, serverVars, ServerTypeOK
<1>3. ASSUME NEW ns \in SUBSET Notes, UserDeletes(ns) PROVE TypeOK'
  <2>1. TabTypeOK'
    BY <1>3, StoreType DEF UserDeletes, DeleteNotifications, TabTypeOK
  <2>2. LedgerTypeOK'
    BY <1>3, SpentType, AskType DEF UserDeletes, LedgerTypeOK
  <2>3. DriftTypeOK'
    BY <1>3, DriftType DEF UserDeletes, BeyondWindow, DriftTypeOK, Causes
  <2> QED BY <1>1, <1>3, <2>1, <2>2, <2>3 DEF UserDeletes, serverVars, ServerTypeOK
<1>4. CASE UserReadsAll
  <2>1. LedgerTypeOK'
    BY <1>4, SpentType, AskType DEF UserReadsAll, LedgerTypeOK
  <2>2. DriftTypeOK'
    BY <1>4, DriftType DEF UserReadsAll, DriftTypeOK
  <2> QED BY <1>1, <1>4, <2>1, <2>2 DEF UserReadsAll, serverVars, tabVars, ServerTypeOK, TabTypeOK
<1>5. ASSUME NEW a \in asks, ServeAsk(a) PROVE TypeOK'
  <2>1. a \in Requests /\ [a EXCEPT !.done = TRUE] \in Requests
    BY DEF LedgerTypeOK, Requests
  <2>2. LedgerTypeOK'
    BY <1>5, <2>1 DEF ServeAsk, LedgerTypeOK
  <2>3. ServerTypeOK'
    BY <1>1, <1>5 DEF ServeAsk, After, ServerTypeOK
  <2>4. DriftTypeOK'
    BY <1>5, DriftType DEF ServeAsk, DriftTypeOK
  <2> QED BY <1>1, <1>5, <2>2, <2>3, <2>4 DEF ServeAsk, tabVars, TabTypeOK
<1>6. ASSUME NEW a \in asks, AllAnswered(a) PROVE TypeOK'
  <2>1. TabTypeOK'
    BY <1>6, StoreType DEF AllAnswered, MarkAllAsRead, TabTypeOK
  <2>2. LedgerTypeOK'
    BY <1>6 DEF AllAnswered, LedgerTypeOK
  <2>3. DriftTypeOK'
    BY <1>6, DriftType DEF AllAnswered, DriftTypeOK
  <2> QED BY <1>1, <1>6, <2>1, <2>2, <2>3 DEF AllAnswered, serverVars, ServerTypeOK
<1>7. ASSUME NEW a \in asks, AskFails(a) PROVE TypeOK'
  <2>1. LedgerTypeOK'
    BY <1>7, SpentType DEF AskFails, LedgerTypeOK
  <2>2. DriftTypeOK'
    BY <1>7, DriftType DEF AskFails, DriftTypeOK, Causes
  <2> QED BY <1>1, <1>7, <2>1, <2>2 DEF AskFails, serverVars, tabVars, ServerTypeOK, TabTypeOK
<1> QED BY <1>2, <1>3, <1>4, <1>5, <1>6, <1>7 DEF UserStep

LEMMA SocketTypes ==
  ASSUME TypeOK, SocketTypeOK', SocketStep PROVE TypeOK'
<1> USE TypeParts, TypePartsNext
<1>1. ServerTypeOK' /\ asks' \subseteq Requests /\ acts' \in 0 .. MaxActs
  <2>1. UNCHANGED <<serverVars, asks, acts>>
    BY DEF SocketStep, Enter, Leave, Press, Redial, CloseDone, Break, Quietly, OpenedFirst, Backfill, Deliver
  <2> QED BY <2>1 DEF serverVars, ServerTypeOK, LedgerTypeOK
<1>2. ASSUME LinksFollow PROVE LinkTypeOK'
  BY <1>2, LinksType DEF LinkTypeOK
<1>3. ASSUME UNCHANGED tabVars PROVE TabTypeOK'
  BY <1>3 DEF tabVars, TabTypeOK
<1>4. CASE Enter
  <2>1. FetchTypeOK'
    BY <1>4, RefreshType DEF Enter, FetchTypeOK
  <2>2. DriftTypeOK'
    BY <1>4, DriftType DEF Enter, DriftTypeOK
  <2> QED BY <1>1, <1>2, <1>3, <1>4, <2>1, <2>2 DEF Enter, LedgerTypeOK
<1>5. ASSUME NEW s \in Sockets, OpenedFirst(s) PROVE TypeOK'
  <2>1. DriftTypeOK'
    BY <1>5, DriftType DEF OpenedFirst, DriftTypeOK
  <2> QED BY <1>1, <1>2, <1>3, <1>5, <2>1 DEF OpenedFirst, FetchTypeOK, LedgerTypeOK
<1>6. ASSUME NEW s \in Sockets, Backfill(s) PROVE TypeOK'
  <2>1. FetchTypeOK'
    BY <1>6, RefreshType DEF Backfill
  <2>2. DriftTypeOK'
    BY <1>6 DEF Backfill, DriftTypeOK, Causes
  <2> QED BY <1>1, <1>2, <1>3, <1>6, <2>1, <2>2 DEF Backfill, LedgerTypeOK
<1>7. ASSUME LinksFollow, UNCHANGED <<tabVars, fetch>>, faults' \in 0 .. MaxFaults, DriftBy(Cut) PROVE TypeOK'
  <2>1. DriftTypeOK'
    BY <1>7, DriftType DEF Cut, DriftTypeOK, Causes
  <2> QED BY <1>1, <1>2, <1>3, <1>7, <2>1 DEF FetchTypeOK, LedgerTypeOK
<1>8. ASSUME Leave \/ Press \/ Redial \/ \E s \in Sockets : CloseDone(s) \/ \E e \in BOOLEAN : Break(s, e) PROVE TypeOK'
  <2>1. LinksFollow /\ UNCHANGED <<tabVars, fetch>> /\ DriftBy(Cut)
    BY <1>8 DEF Leave, Press, Redial, CloseDone, Break, Quietly
  <2>2. faults' \in 0 .. MaxFaults
    BY <1>8, SpentType DEF Leave, Press, Redial, CloseDone, Break, LedgerTypeOK
  <2> QED BY <1>7, <2>1, <2>2
<1>9. ASSUME NEW s \in Sockets, Deliver(s) PROVE TypeOK'
  <2>1. chan[s] \in Seq(Messages) /\ chan[s] # <<>>
    BY <1>9 DEF Deliver, LinkTypeOK
  <2>2. Head(chan[s]) \in Messages /\ Tail(chan[s]) \in Seq(Messages)
    BY <2>1
  <2>3. LinkTypeOK'
    BY <1>9, <2>2 DEF Deliver, LinkTypeOK
  <2>4. TabTypeOK'
    <3>1. CASE Head(chan[s]).kind = "new" /\ AddNotification(Head(chan[s]).arg)
      <4>1. Head(chan[s]).arg \in Notes
        BY <2>2, <3>1 DEF Messages
      <4> QED BY <1>9, <3>1, <4>1, StoreType DEF Deliver
    <3>2. CASE Head(chan[s]).kind = "count" /\ unread' = Head(chan[s]).arg /\ UNCHANGED recent
      <4>1. Head(chan[s]).arg \in Nat
        BY <2>2, <3>2 DEF Messages
      <4> QED BY <1>9, <3>2, <4>1 DEF Deliver, TabTypeOK
    <3> QED BY <1>9, <3>1, <3>2 DEF Deliver
  <2>5. DriftTypeOK'
    BY <1>9, DriftType DEF Deliver, DriftTypeOK
  <2> QED BY <1>1, <1>9, <2>3, <2>4, <2>5 DEF Deliver, FetchTypeOK, LedgerTypeOK
<1> QED BY <1>4, <1>5, <1>6, <1>8, <1>9 DEF SocketStep

LEMMA InitTypes == FeedInit /\ SocketTypeOK => TypeOK
<1> SUFFICES ASSUME FeedInit, SocketTypeOK PROVE TypeOK
  OBVIOUS
<1>1. ServerTypeOK
  <2>1. OldNotes <= MaxNotes /\ OldNotes \in Nat /\ MaxNotes \in Nat
    BY FeedAssumption
  <2> QED BY <2>1 DEF FeedInit, ServerTypeOK, Notes
<1>2. LinkTypeOK
  <2>1. <<>> \in Seq(Messages)
    OBVIOUS
  <2> QED BY <2>1 DEF FeedInit, LinkTypeOK
<1>3. TabTypeOK
  <2>1. <<>> \in Seq(Items) /\ Len(<<>>) <= Window
    BY NotesAreNumbers
  <2> QED BY <2>1 DEF FeedInit, TabTypeOK
<1>4. FetchTypeOK
  <2>1. PICK f \in Fetches : fetch = [g \in Fetches |-> IF g = f THEN [count |-> Asked, list |-> Asked] ELSE NoFetch]
    BY DEF FeedInit
  <2>2. Len(<<>>) <= Window /\ [count |-> Asked, list |-> Asked].list.list = <<>> /\ NoFetch.list.list = <<>>
    BY AskedType, NotesAreNumbers DEF NoFetch
  <2> QED BY <2>1, <2>2, AskedType DEF FetchTypeOK
<1>5. LedgerTypeOK /\ DriftTypeOK
  BY FeedAssumption DEF FeedInit, LedgerTypeOK, DriftTypeOK
<1> QED BY <1>1, <1>2, <1>3, <1>4, <1>5, TypeParts

LEMMA TypeStep ==
  TypeOK /\ SocketTypeOK' /\ [Next]_vars => TypeOK'
<1> SUFFICES ASSUME TypeOK, SocketTypeOK', [Next]_vars PROVE TypeOK'
  OBVIOUS
<1>1. CASE UNCHANGED vars
  BY <1>1 DEF vars, feedVars, serverVars, linkVars, tabVars, TypeOK
<1> QED BY <1>1, ServerTypes, FetchTypes, UserTypes, SocketTypes DEF Next

(* Every variable of the feed keeps its type, for any number of             *)
(* notifications, sockets, refreshes, actions and faults: the dropdown       *)
(* never outgrows its window (addNotification and refreshFromServer cut it,  *)
(* the others only shorten it), and the badge is never negative.             *)
THEOREM FeedTypeCorrect == Spec => []TypeOK
<1>1. Spec => []SocketTypeOK
  BY FeedImplementsSocket, SocketTypeCorrect, PTL
<1>2. FeedInit /\ SocketTypeOK => TypeOK
  BY InitTypes
<1> QED BY <1>1, <1>2, TypeStep, PTL DEF Spec

-----------------------------------------------------------------------------
(* What holds of the service and the links whatever has gone wrong.         *)

RowsInOrder == \A m, n \in Notes : m < n /\ row[n] # "none" => row[m] # "none"
ToldExist == \A n \in told : row[n] # "none"
SentIsTold == \A s \in Sockets : \A i \in DOMAIN chan[s] : chan[s][i].kind = "new" => chan[s][i].arg \in told
NewsIsHeard == \A s \in Sockets : NewsIn(s) => hub[s] = "on"
ClosedIsCut == \A s \in Sockets : sock[s] # "open" => chan[s] = <<>> /\ hub[s] = "off"
AsksExist ==
  \A a \in asks : IF a.kind = "all" THEN a.notes = Notes
                  ELSE ~a.done /\ \A n \in a.notes : row[n] # "none"
Order == RowsInOrder /\ ToldExist /\ SentIsTold /\ NewsIsHeard /\ ClosedIsCut /\ AsksExist

(* Messages are put at the end of a channel and taken from its head. *)
Sent(q, m, times) == q \o [i \in 1 .. times |-> m]

LEMMA SentIs ==
  ASSUME NEW q \in Seq(Messages), NEW m \in Messages, NEW times \in Nat
  PROVE  /\ DOMAIN q \subseteq DOMAIN Sent(q, m, times)
         /\ \A i \in DOMAIN q : Sent(q, m, times)[i] = q[i]
         /\ \A i \in DOMAIN Sent(q, m, times) \ DOMAIN q : Sent(q, m, times)[i] = m /\ \A j \in DOMAIN q : j < i
         /\ times = 1 => \A i, j \in DOMAIN Sent(q, m, times) \ DOMAIN q : i = j
         /\ times = 1 => \E i \in DOMAIN Sent(q, m, times) : Sent(q, m, times)[i] = m
<1> DEFINE r == [i \in 1 .. times |-> m]  all == q \o r
<1>1. Len(q) \in Nat /\ DOMAIN q = 1 .. Len(q)
  OBVIOUS
<1>2. r \in Seq(Messages) /\ Len(r) = times
  <2>1. r \in [1 .. times -> Messages]
    OBVIOUS
  <2> QED BY <2>1, ListOfLength
<1>3. \A i \in 1 .. times : r[i] = m
  OBVIOUS
<1> HIDE DEF r
<1>4. DOMAIN all = 1 .. Len(q) + times /\ \A i \in 1 .. Len(q) : all[i] = q[i]
  BY <1>1, <1>2
<1>5. ASSUME NEW i \in 1 .. Len(q) + times, i \notin 1 .. Len(q)
      PROVE  all[i] = m /\ i > Len(q)
  <2>1. i - Len(q) \in 1 .. times /\ i > Len(q)
    BY <1>1, <1>5
  <2>2. all[i] = r[i - Len(q)]
    BY <1>1, <1>2, <2>1
  <2> QED BY <1>3, <2>1, <2>2
<1> HIDE DEF all
<1>6. Sent(q, m, times) = all
  BY DEF Sent, all, r
<1>7. ASSUME times = 1
      PROVE  /\ \A i, j \in DOMAIN all \ DOMAIN q : i = j
             /\ \E i \in DOMAIN all : all[i] = m
  <2>1. Len(q) + 1 \in 1 .. Len(q) + times /\ Len(q) + 1 \notin 1 .. Len(q)
    BY <1>1, <1>7
  <2>2. all[Len(q) + 1] = m
    BY <1>5, <2>1
  <2> QED BY <1>1, <1>4, <1>7, <2>1, <2>2
<1>8. \A i \in DOMAIN all \ DOMAIN q : all[i] = m /\ \A j \in DOMAIN q : j < i
  BY <1>1, <1>4, <1>5
<1> QED BY <1>1, <1>4, <1>6, <1>7, <1>8

LEMMA CountSent ==
  ASSUME NEW q \in Seq(Messages), NEW m \in Messages
  PROVE  Append(q, m) = Sent(q, m, 1)
<1> DEFINE r == [i \in 1 .. 1 |-> m]
<1>1. r = <<m>>
  OBVIOUS
<1>2. Append(q, m) = q \o <<m>>
  OBVIOUS
<1> QED BY <1>1, <1>2 DEF Sent

LEMMA TailIs ==
  ASSUME NEW q \in Seq(Messages), q # <<>>
  PROVE  /\ Head(q) = q[1] /\ 1 \in DOMAIN q /\ Head(q) \in Messages
         /\ \A i \in DOMAIN q : i \in Nat /\ i >= 1 /\ q[i] \in Messages
         /\ \A i \in DOMAIN Tail(q) : i \in Nat /\ i >= 1 /\ i + 1 \in DOMAIN q /\ Tail(q)[i] = q[i + 1]
         /\ \A i \in DOMAIN q : i # 1 => i - 1 \in DOMAIN Tail(q) /\ Tail(q)[i - 1] = q[i]
<1>1. Len(q) \in Nat /\ Len(q) >= 1 /\ DOMAIN q = 1 .. Len(q)
  OBVIOUS
<1>2. Tail(q) \in Seq(Messages) /\ Len(Tail(q)) = Len(q) - 1 /\ DOMAIN Tail(q) = 1 .. Len(q) - 1
  BY <1>1
<1>3. \A i \in 1 .. Len(q) - 1 : Tail(q)[i] = q[i + 1]
  BY <1>1
<1>4. Head(q) = q[1] /\ \A i \in 1 .. Len(q) : q[i] \in Messages
  OBVIOUS
<1>5. \A i \in 1 .. Len(q) : i # 1 => i - 1 \in 1 .. Len(q) - 1 /\ (i - 1) + 1 = i
  BY <1>1
<1> QED BY <1>1, <1>2, <1>3, <1>4, <1>5

(* News of a row, as a message. *)
LEMMA NewsMessage ==
  ASSUME TypeOK, NEW s \in Sockets, NEW i \in DOMAIN chan[s]
  PROVE  /\ chan[s][i].kind \in {"new", "count"}
         /\ chan[s][i].kind = "new" => chan[s][i].arg \in Notes
         /\ i \in Nat
<1>1. chan[s] \in Seq(Messages)
  BY DEF TypeOK
<1>2. chan[s][i] \in Messages /\ i \in Nat
  BY <1>1
<1> QED BY <1>2 DEF Messages

LEMMA InitOrder == FeedInit => Order
<1> SUFFICES ASSUME FeedInit PROVE Order
  OBVIOUS
<1>0. MaxNotes \in Nat /\ OldNotes \in Nat /\ OldNotes <= MaxNotes
  BY FeedAssumption
<1>1. row = [n \in Notes |-> IF n <= OldNotes THEN "unread" ELSE "none"] /\ told = 1 .. OldNotes
  BY DEF FeedInit
<1>2. RowsInOrder /\ ToldExist
  BY <1>0, <1>1 DEF Notes, RowsInOrder, ToldExist
<1>3. \A s \in Sockets : chan[s] = <<>> /\ hub[s] = "off"
  BY DEF FeedInit
<1>4. SentIsTold /\ NewsIsHeard /\ ClosedIsCut
  BY <1>3 DEF SentIsTold, NewsIsHeard, NewsIn, ClosedIsCut
<1>5. AsksExist
  BY DEF FeedInit, AsksExist
<1> QED BY <1>2, <1>4, <1>5 DEF Order

LEMMA ServerOrder ==
  ASSUME TypeOK, Order, ServerStep PROVE Order'
<1> USE DEF Order
<1>0. row \in [Notes -> {"none", "unread", "read", "gone"}] /\ told \subseteq Notes /\ chan \in [Sockets -> Seq(Messages)]
      /\ hub \in [Sockets -> {"off", "queued", "on"}] /\ asks \subseteq Requests
  BY DEF TypeOK
<1>1. ASSUME NEW n \in Notes, Insert(n) PROVE Order'
  <2>1. /\ row' = [row EXCEPT ![n] = "unread"] /\ \A m \in Notes : m < n => row[m] # "none"
        /\ UNCHANGED <<told, chan, hub, sock, asks>>
    BY <1>1 DEF Insert, linkVars, socketVars
  <2>2. \A m \in Notes : row'[m] # "none" <=> m = n \/ row[m] # "none"
    BY <1>0, <2>1
  <2>3. RowsInOrder' /\ ToldExist'
    BY <1>0, <2>1, <2>2 DEF RowsInOrder, ToldExist
  <2>4. SentIsTold' /\ NewsIsHeard' /\ ClosedIsCut'
    BY <2>1 DEF SentIsTold, NewsIsHeard, NewsIn, ClosedIsCut
  <2>5. AsksExist'
    BY <1>0, <2>1, <2>2 DEF AsksExist, Requests
  <2> QED BY <2>3, <2>4, <2>5
<1>2. ASSUME NEW n \in Notes, NEW fate \in {"read", "gone"}, Elsewhere(n, fate) PROVE Order'
  <2>1. /\ row' = [row EXCEPT ![n] = fate] /\ row[n] # "none"
        /\ UNCHANGED <<told, chan, hub, sock, asks>>
    BY <1>2 DEF Elsewhere, linkVars, socketVars
  <2>2. \A m \in Notes : row'[m] # "none" <=> row[m] # "none"
    BY <1>0, <2>1
  <2>3. RowsInOrder' /\ ToldExist'
    BY <1>0, <2>1, <2>2 DEF RowsInOrder, ToldExist
  <2>4. SentIsTold' /\ NewsIsHeard' /\ ClosedIsCut'
    BY <2>1 DEF SentIsTold, NewsIsHeard, NewsIn, ClosedIsCut
  <2>5. AsksExist'
    BY <1>0, <2>1, <2>2 DEF AsksExist, Requests
  <2> QED BY <2>3, <2>4, <2>5
<1>3. ASSUME NEW n \in Notes, NEW times \in Nat, Dispatch(n, times) PROVE Order'
  <2> DEFINE m == [kind |-> "new", arg |-> n]
  <2>1. /\ told' = told \cup {n} /\ row[n] # "none"
        /\ UNCHANGED <<row, hub, sock, asks>>
    BY <1>3 DEF Dispatch, socketVars
  <2>2. chan' = [s \in Sockets |-> IF s \in Listening THEN Sent(chan[s], m, times) ELSE chan[s]]
    BY <1>3 DEF Dispatch, Sent
  <2>3. m \in Messages /\ m.kind = "new" /\ m.arg = n
    BY DEF Messages
  <2> HIDE DEF m
  <2>4. ASSUME NEW s \in Sockets, NEW i \in DOMAIN chan'[s]
        PROVE  \/ i \in DOMAIN chan[s] /\ chan'[s][i] = chan[s][i]
               \/ chan'[s][i] = m /\ s \in Listening
    <3>1. CASE s \in Listening
      <4>1. chan'[s] = Sent(chan[s], m, times) /\ chan[s] \in Seq(Messages)
        BY <1>0, <2>2, <3>1
      <4> QED BY <2>3, <3>1, <4>1, SentIs
    <3>2. CASE s \notin Listening
      BY <2>2, <3>2
    <3> QED BY <3>1, <3>2
  <2>5. RowsInOrder' /\ ToldExist'
    BY <2>1 DEF RowsInOrder, ToldExist
  <2>6. SentIsTold'
    BY <2>1, <2>3, <2>4 DEF SentIsTold
  <2>7. NewsIsHeard'
    BY <2>1, <2>4 DEF NewsIsHeard, NewsIn, Listening
  <2>8. ClosedIsCut'
    BY <1>0, <2>1, <2>2 DEF ClosedIsCut, Listening
  <2>9. AsksExist'
    BY <2>1 DEF AsksExist
  <2> QED BY <2>5, <2>6, <2>7, <2>8, <2>9
<1>4. ASSUME NEW s \in Sockets, HubAdds(s) PROVE Order'
  <2>1. /\ hub[s] = "queued" /\ hub' = [hub EXCEPT ![s] = "on"]
        /\ UNCHANGED <<row, told, chan, sock, asks>>
    BY <1>4 DEF HubAdds, serverVars, socketVars
  <2>2. NewsIsHeard' /\ ClosedIsCut'
    BY <1>0, <2>1 DEF NewsIsHeard, NewsIn, ClosedIsCut
  <2> QED BY <2>1, <2>2 DEF RowsInOrder, ToldExist, SentIsTold, AsksExist
<1>5. ASSUME NEW s \in Sockets, SendCount(s) PROVE Order'
  <2> DEFINE m == [kind |-> "count", arg |-> ServerUnread]
  <2>1. /\ hub[s] # "off" /\ chan' = [chan EXCEPT ![s] = Append(chan[s], m)]
        /\ UNCHANGED <<row, told, hub, sock, asks>>
    BY <1>5 DEF SendCount, serverVars, socketVars
  <2>2. m \in Messages /\ m.kind = "count"
    BY ServerUnreadIs DEF Messages
  <2> HIDE DEF m
  <2>3. chan' = [chan EXCEPT ![s] = Sent(chan[s], m, 1)]
    BY <1>0, <2>1, <2>2, CountSent
  <2>4. ASSUME NEW t \in Sockets, NEW i \in DOMAIN chan'[t], chan'[t][i].kind = "new"
        PROVE  i \in DOMAIN chan[t] /\ chan'[t][i] = chan[t][i]
    <3>1. CASE t = s
      <4>1. chan'[t] = Sent(chan[s], m, 1) /\ chan[s] \in Seq(Messages)
        BY <1>0, <2>3, <3>1
      <4>2. i \notin DOMAIN chan[s] => chan'[t][i] = m
        BY <2>2, <4>1, SentIs
      <4>3. i \in DOMAIN chan[s] => chan'[t][i] = chan[s][i]
        BY <2>2, <4>1, SentIs
      <4> QED BY <2>2, <2>4, <3>1, <4>2, <4>3
    <3>2. CASE t # s
      BY <1>0, <2>3, <3>2
    <3> QED BY <3>1, <3>2
  <2>5. SentIsTold' /\ NewsIsHeard'
    BY <2>1, <2>4 DEF SentIsTold, NewsIsHeard, NewsIn
  <2>6. ClosedIsCut'
    BY <1>0, <2>1 DEF ClosedIsCut
  <2> QED BY <2>1, <2>5, <2>6 DEF RowsInOrder, ToldExist, AsksExist
<1>6. ASSUME NEW n \in Notes, DispatchOnce(n) \/ DispatchLost(n) \/ DispatchTwice(n) PROVE Order'
  BY <1>3, <1>6 DEF DispatchOnce, DispatchLost, DispatchTwice
<1> QED BY <1>1, <1>2, <1>4, <1>5, <1>6 DEF ServerStep

LEMMA UserOrder ==
  ASSUME TypeOK, Order, UserStep PROVE Order'
<1> USE DEF Order
<1>0. row \in [Notes -> {"none", "unread", "read", "gone"}] /\ told \subseteq Notes /\ asks \subseteq Requests
  BY DEF TypeOK
<1>1. UNCHANGED <<sock, told, hub, chan>>
  BY DEF UserStep, UserReads, UserDeletes, UserReadsAll, ServeAsk, AllAnswered, AskFails, socketVars, serverVars, linkVars
<1>2. SentIsTold' /\ NewsIsHeard' /\ ClosedIsCut'
  BY <1>1 DEF SentIsTold, NewsIsHeard, NewsIn, ClosedIsCut
<1>3. ASSUME \A n \in Notes : row'[n] # "none" <=> row[n] # "none" PROVE RowsInOrder' /\ ToldExist'
  BY <1>0, <1>1, <1>3 DEF RowsInOrder, ToldExist
<1>4. ASSUME NEW n \in Notes, UserReads(n) PROVE Order'
  <2>1. UNCHANGED row /\ asks' = asks \cup {[kind |-> "read", notes |-> {n}, done |-> FALSE]} /\ row[n] # "none"
    BY <1>4 DEF UserReads, serverVars, Ask
  <2>2. AsksExist'
    BY <2>1 DEF AsksExist
  <2> QED BY <1>2, <1>3, <2>1, <2>2
<1>5. ASSUME NEW ns \in SUBSET Notes, UserDeletes(ns) PROVE Order'
  <2>1. UNCHANGED row /\ asks' = asks \cup {[kind |-> "delete", notes |-> ns, done |-> FALSE]} /\ \A n \in ns : row[n] # "none"
    BY <1>5 DEF UserDeletes, serverVars, Ask, Rows
  <2>2. AsksExist'
    BY <2>1 DEF AsksExist
  <2> QED BY <1>2, <1>3, <2>1, <2>2
<1>6. CASE UserReadsAll
  <2>1. UNCHANGED row /\ asks' = asks \cup {[kind |-> "all", notes |-> Notes, done |-> FALSE]}
    BY <1>6 DEF UserReadsAll, serverVars, Ask
  <2>2. AsksExist'
    BY <2>1 DEF AsksExist
  <2> QED BY <1>2, <1>3, <2>1, <2>2
<1>7. ASSUME NEW a \in asks, ServeAsk(a) PROVE Order'
  <2>0. a \in Requests /\ a.notes \subseteq Notes
    BY <1>0 DEF Requests
  <2>1. row' = After(a) /\ asks' \subseteq asks \cup (IF a.kind = "all" THEN {[a EXCEPT !.done = TRUE]} ELSE {})
    BY <1>7 DEF ServeAsk
  <2>2. \A n \in Notes : row'[n] # "none" <=> row[n] # "none"
    BY <1>0, <2>1 DEF After, AsksExist
  <2>3. [a EXCEPT !.done = TRUE].kind = a.kind /\ [a EXCEPT !.done = TRUE].notes = a.notes
    BY <2>0 DEF Requests
  <2>4. AsksExist'
    <3> SUFFICES ASSUME NEW b \in asks'
                 PROVE  IF b.kind = "all" THEN b.notes = Notes ELSE ~b.done /\ \A n \in b.notes : row'[n] # "none"
      BY DEF AsksExist
    <3>1. CASE b \in asks
      <4>1. b.notes \subseteq Notes
        BY <1>0, <3>1 DEF Requests
      <4> QED BY <2>2, <3>1, <4>1 DEF AsksExist
    <3>2. CASE b \notin asks
      <4>1. a.kind = "all" /\ b = [a EXCEPT !.done = TRUE]
        BY <2>1, <3>2
      <4> QED BY <2>3, <4>1 DEF AsksExist
    <3> QED BY <3>1, <3>2
  <2> QED BY <1>2, <1>3, <2>2, <2>4
<1>8. ASSUME NEW a \in asks, AllAnswered(a) \/ AskFails(a) PROVE Order'
  <2>1. UNCHANGED row /\ asks' = asks \ {a}
    BY <1>8 DEF AllAnswered, AskFails, serverVars
  <2>2. AsksExist'
    BY <2>1 DEF AsksExist
  <2> QED BY <1>2, <1>3, <2>1, <2>2
<1> QED BY <1>4, <1>5, <1>6, <1>7, <1>8 DEF UserStep

LEMMA OtherOrder ==
  ASSUME TypeOK, Order, FetchStep \/ SocketStep \/ UNCHANGED vars PROVE Order'
<1> USE DEF Order
<1>0. chan \in [Sockets -> Seq(Messages)]
      /\ hub \in [Sockets -> {"off", "queued", "on"}]
  BY DEF TypeOK
<1>1. ASSUME UNCHANGED <<row, told, asks>> PROVE RowsInOrder' /\ ToldExist' /\ AsksExist'
  BY <1>1 DEF RowsInOrder, ToldExist, AsksExist
<1>2. ASSUME UNCHANGED <<row, told, asks, sock, hub, chan>> PROVE Order'
  BY <1>1, <1>2 DEF SentIsTold, NewsIsHeard, NewsIn, ClosedIsCut
<1>3. CASE FetchStep
  <2>1. UNCHANGED <<row, told, asks, sock, hub, chan>>
    BY <1>3 DEF FetchStep, Settle, Serve, ServeFails, socketVars, serverVars, linkVars
  <2> QED BY <1>2, <2>1
<1>4. CASE UNCHANGED vars
  <2>1. UNCHANGED <<row, told, asks, sock, hub, chan>>
    BY <1>4 DEF vars, feedVars, socketVars, serverVars, linkVars
  <2> QED BY <1>2, <2>1
<1>5. ASSUME UNCHANGED <<row, told, asks>>, LinksFollow PROVE Order'
  <2>1. \A s \in Sockets : /\ hub'[s] = IF sock'[s] # "open" THEN "off" ELSE IF sock[s] = "open" THEN hub[s] ELSE "queued"
                           /\ chan'[s] = IF sock'[s] = "open" THEN chan[s] ELSE <<>>
    BY <1>5 DEF LinksFollow
  <2>2. SentIsTold'
    BY <1>5, <2>1 DEF SentIsTold
  <2>3. ClosedIsCut'
    BY <2>1 DEF ClosedIsCut
  <2>4. NewsIsHeard'
    <3> SUFFICES ASSUME NEW s \in Sockets, NewsIn(s)' PROVE hub'[s] = "on"
      BY DEF NewsIsHeard
    <3>1. sock'[s] = "open" /\ chan'[s] = chan[s] /\ \E i \in DOMAIN chan[s] : chan[s][i].kind = "new"
      BY <2>1 DEF NewsIn
    <3>2. sock[s] = "open"
      BY <3>1 DEF ClosedIsCut
    <3> QED BY <2>1, <3>1, <3>2 DEF NewsIsHeard, NewsIn
  <2> QED BY <1>1, <1>5, <2>2, <2>3, <2>4
<1>6. ASSUME NEW s \in Sockets, Deliver(s) PROVE Order'
  <2>1. /\ sock[s] = "open" /\ chan[s] # <<>> /\ chan' = [chan EXCEPT ![s] = Tail(chan[s])]
        /\ UNCHANGED <<row, told, asks, sock, hub>>
    BY <1>6 DEF Deliver, socketVars, serverVars
  <2>2. ASSUME NEW t \in Sockets, NEW i \in DOMAIN chan'[t]
        PROVE  \E j \in DOMAIN chan[t] : chan'[t][i] = chan[t][j]
    <3>1. CASE t = s
      <4>1. chan'[t] = Tail(chan[s]) /\ chan[s] \in Seq(Messages)
        BY <1>0, <2>1, <3>1
      <4> QED BY <2>1, <3>1, <4>1, TailIs
    <3>2. CASE t # s
      BY <1>0, <2>1, <3>2
    <3> QED BY <3>1, <3>2
  <2>3. SentIsTold' /\ NewsIsHeard'
    BY <2>1, <2>2 DEF SentIsTold, NewsIsHeard, NewsIn
  <2>4. ClosedIsCut'
    BY <1>0, <2>1 DEF ClosedIsCut
  <2> QED BY <1>1, <2>1, <2>3, <2>4
<1>7. CASE SocketStep
  <2>1. \/ UNCHANGED <<row, told, asks>> /\ LinksFollow
        \/ \E s \in Sockets : Deliver(s)
    BY <1>7 DEF SocketStep, Enter, Leave, Press, Redial, CloseDone, Break, Quietly, OpenedFirst, Backfill, serverVars
  <2> QED BY <1>5, <1>6, <2>1
<1> QED BY <1>3, <1>4, <1>7

LEMMA OrderStep ==
  TypeOK /\ Order /\ [Next]_vars => Order'
BY ServerOrder, UserOrder, OtherOrder DEF Next

-----------------------------------------------------------------------------
(* What the tab shows, while nothing has set it apart from the rows.        *)

Holds(s, n) == \E i \in DOMAIN chan[s] : chan[s][i].kind = "new" /\ chan[s][i].arg = n

(* The tab has yet to hear of the row. *)
Pending(n) == row[n] # "none" /\ (n \notin told \/ \E s \in Sockets : sock[s] = "open" /\ Holds(s, n))
Wanted(n, kind) == \E a \in asks : a.kind = kind /\ n \in a.notes

(* The rows as the tab should show them: without what is pending, and with  *)
(* what the user has done in the tab.                                       *)
View == [n \in Notes |-> IF Pending(n) THEN "none"
                         ELSE IF row[n] # "none" /\ Wanted(n, "delete") THEN "gone"
                         ELSE IF row[n] = "unread" /\ Wanted(n, "read") THEN "read"
                         ELSE row[n]]
Held(v) == {n \in Notes : v[n] \in {"unread", "read"}}
ReadAll == \E a \in asks : a.kind = "all" /\ a.done

(* News arrives in the order of the rows, on one socket, and the user acts  *)
(* on what has arrived.                                                     *)
PendingUnread == \A n \in Notes : Pending(n) => row[n] = "unread"
PendingLast == \A m, n \in Notes : Pending(n) /\ row[m] # "none" /\ ~Pending(m) => m < n
ToldFirst == \A m \in told, n \in Notes \ told : row[n] # "none" => m < n
OneChannel == \A s, t \in Sockets : NewsIn(s) /\ NewsIn(t) => s = t
ChannelInTurn ==
  \A s \in Sockets : \A i, j \in DOMAIN chan[s] :
    i < j /\ chan[s][i].kind = "new" /\ chan[s][j].kind = "new" => chan[s][i].arg < chan[s][j].arg
AsksKnown == \A a \in asks : a.kind # "all" => \A n \in a.notes : ~Pending(n)
InTurn == PendingUnread /\ PendingLast /\ ToldFirst /\ OneChannel /\ ChannelInTurn /\ AsksKnown

(* What was read of the rows is still so. *)
FetchedNow ==
  \A f \in Fetches :
    /\ fetch[f].count.at # "failed" /\ fetch[f].list.at # "failed"
    /\ fetch[f].count.at = "answered" => fetch[f].count.count = ServerUnread
    /\ fetch[f].list.at = "answered" => fetch[f].list.list = ServerList
CountsNow ==
  \A s \in Sockets : \A i \in DOMAIN chan[s] : chan[s][i].kind = "count" => chan[s][i].arg = ServerUnread
Snapshots == FetchedNow /\ CountsNow

Fetching == \E f \in Fetches : fetch[f] # NoFetch
Showing ==
  /\ Lists(recent, Held(View))
  /\ IF ReadAll THEN \A n \in Notes : row[n] # "unread"
     ELSE Marks(recent, View) /\ unread = UnreadOf(View)
Shown == Fetching \/ Showing

Synced == drift = "none" => ~Crossing /\ InTurn /\ Snapshots /\ Shown

(* News on an open socket is of a row that is pending. *)
LEMMA NewsIsPending ==
  ASSUME TypeOK, Order
  PROVE  /\ \A s \in Sockets : NewsIn(s) <=> sock[s] = "open" /\ \E n \in Notes : Holds(s, n)
         /\ \A s \in Sockets, n \in Notes : sock[s] = "open" /\ Holds(s, n) => Pending(n)
         /\ News <=> \E n \in Notes : Pending(n)
<1>1. \A s \in Sockets : NewsIn(s) <=> sock[s] = "open" /\ \E n \in Notes : Holds(s, n)
  <2>1. \A s \in Sockets : \A i \in DOMAIN chan[s] : chan[s][i].kind = "new" => chan[s][i].arg \in Notes
    BY NewsMessage
  <2> QED BY <2>1 DEF NewsIn, Holds
<1>2. ASSUME NEW s \in Sockets, NEW n \in Notes, sock[s] = "open", Holds(s, n) PROVE Pending(n)
  <2>1. n \in told
    BY <1>2 DEF Holds, Order, SentIsTold
  <2>2. row[n] # "none"
    BY <2>1 DEF Order, ToldExist
  <2> QED BY <1>2, <2>2 DEF Pending
<1>3. News <=> \E n \in Notes : Pending(n)
  <2>1. ASSUME News PROVE \E n \in Notes : Pending(n)
    BY <1>1, <1>2, <2>1 DEF News, Pending
  <2>2. ASSUME NEW n \in Notes, Pending(n) PROVE News
    BY <1>1, <2>2 DEF News, Pending
  <2> QED BY <2>1, <2>2
<1> QED BY <1>1, <1>2, <1>3

LEMMA NewsIsPendingNext ==
  ASSUME TypeOK', Order'
  PROVE  /\ \A s \in Sockets : NewsIn(s)' <=> sock'[s] = "open" /\ \E n \in Notes : Holds(s, n)'
         /\ News' <=> \E n \in Notes : Pending(n)'
<1>1. (TypeOK /\ Order => /\ \A s \in Sockets : NewsIn(s) <=> sock[s] = "open" /\ \E n \in Notes : Holds(s, n)
                          /\ News <=> \E n \in Notes : Pending(n))'
  BY NewsIsPending, PTL
<1> QED BY <1>1

-----------------------------------------------------------------------------
(* The view, from what is pending and asked for. *)

LEMMA ViewIs ==
  /\ DOMAIN View = Notes
  /\ \A n \in Notes : View[n] = IF Pending(n) THEN "none"
                                ELSE IF row[n] # "none" /\ Wanted(n, "delete") THEN "gone"
                                ELSE IF row[n] = "unread" /\ Wanted(n, "read") THEN "read"
                                ELSE row[n]
BY DEF View

LEMMA ViewIsNext ==
  /\ DOMAIN View' = Notes
  /\ \A n \in Notes : View'[n] = IF Pending(n)' THEN "none"
                                 ELSE IF row'[n] # "none" /\ Wanted(n, "delete")' THEN "gone"
                                 ELSE IF row'[n] = "unread" /\ Wanted(n, "read")' THEN "read"
                                 ELSE row'[n]
BY DEF View

LEMMA SameView ==
  ASSUME \A n \in Notes : View'[n] = View[n] PROVE View' = View
<1>1. View = [n \in Notes |-> View[n]]
  BY DEF View
<1>2. View' = [n \in Notes |-> View'[n]]
  BY DEF View
<1> HIDE DEF View
<1> QED BY <1>1, <1>2

(* Nothing is pending and nothing asked for: the view is the rows. *)
LEMMA CalmView ==
  ASSUME TypeOK, Order, ~News, asks = {}
  PROVE  /\ InTurn
         /\ ~ReadAll
         /\ \A n \in Notes : View[n] = row[n]
         /\ Held(View) = Rows /\ UnreadOf(View) = ServerUnread
<1>1. \A n \in Notes : ~Pending(n)
  BY NewsIsPending
<1>2. \A n \in Notes : row[n] # "none" => n \in told
  BY DEF News
<1>3. \A s \in Sockets : ~NewsIn(s)
  BY DEF News
<1>4. PendingUnread /\ PendingLast /\ ToldFirst /\ OneChannel /\ AsksKnown
  BY <1>1, <1>2, <1>3 DEF PendingUnread, PendingLast, ToldFirst, OneChannel, AsksKnown
<1>5. ChannelInTurn
  <2> SUFFICES ASSUME NEW s \in Sockets, NEW i \in DOMAIN chan[s], chan[s][i].kind = "new" PROVE FALSE
    BY DEF ChannelInTurn
  <2>1. CASE sock[s] = "open"
    BY <1>3, <2>1 DEF NewsIn
  <2>2. CASE sock[s] # "open"
    BY <2>2 DEF Order, ClosedIsCut
  <2> QED BY <2>1, <2>2
<1>6. \A n \in Notes : View[n] = row[n]
  BY <1>1, ViewIs DEF Wanted
<1>7. Held(View) = Rows /\ UnreadOf(View) = UnreadOf(row)
  BY <1>6 DEF Held, Rows, UnreadOf
<1> QED BY <1>4, <1>5, <1>6, <1>7, ServerUnreadIs DEF InTurn, ReadAll

LEMMA CalmViewNext ==
  ASSUME TypeOK', Order', ~News', asks' = {}
  PROVE  /\ InTurn'
         /\ ~ReadAll'
         /\ \A n \in Notes : View'[n] = row'[n]
         /\ Held(View') = Rows' /\ UnreadOf(View') = ServerUnread'
<1>1. (TypeOK /\ Order /\ ~News /\ asks = {}
         => /\ InTurn
            /\ ~ReadAll
            /\ \A n \in Notes : View[n] = row[n]
            /\ Held(View) = Rows /\ UnreadOf(View) = ServerUnread)'
  BY CalmView, PTL
<1> QED BY <1>1 DEF Held, UnreadOf

(* No snapshot is taken or on its way. *)
LEMMA NoSnapshot ==
  ASSUME Order, ~Syncing PROVE Snapshots /\ ~Fetching
<1>1. ~Fetching
  BY DEF Syncing, Fetching
<1>2. FetchedNow
  BY <1>1 DEF Fetching, FetchedNow, NoFetch, Idle
<1>3. CountsNow
  BY DEF Syncing, CountsNow, Order, ClosedIsCut
<1> QED BY <1>1, <1>2, <1>3 DEF Snapshots

LEMMA NoSnapshotNext ==
  ASSUME Order', ~Syncing' PROVE Snapshots' /\ ~Fetching'
<1>1. (Order /\ ~Syncing => Snapshots /\ ~Fetching)'
  BY NoSnapshot, PTL
<1> QED BY <1>1

LEMMA SameServer ==
  ASSUME UNCHANGED row PROVE ServerUnread' = ServerUnread /\ ServerList' = ServerList /\ Rows' = Rows
BY DEF ServerUnread, ServerList, Rows

(* The tab is left alone, and should be. *)
LEMMA ShownStays ==
  ASSUME Shown, UNCHANGED <<recent, unread, fetch>>, View' = View, ReadAll' <=> ReadAll,
         ReadAll => \A n \in Notes : row'[n] = "unread" => row[n] = "unread"
  PROVE  Shown'
<1>1. CASE Fetching
  BY <1>1 DEF Shown, Fetching
<1>2. CASE ~Fetching
  <2>1. Showing
    BY <1>2 DEF Shown
  <2>2. Held(View') = Held(View) /\ UnreadOf(View') = UnreadOf(View)
    OBVIOUS
  <2>3. Showing'
    BY <2>1, <2>2 DEF Showing
  <2> QED BY <2>3 DEF Shown
<1> QED BY <1>1, <1>2

(* Messages on open sockets stay news of the same rows. *)
LEMMA SamePending ==
  ASSUME UNCHANGED <<row, told>>,
         \A s \in Sockets, n \in Notes : sock'[s] = "open" /\ Holds(s, n)' <=> sock[s] = "open" /\ Holds(s, n)
  PROVE  \A n \in Notes : Pending(n)' <=> Pending(n)
BY DEF Pending

LEMMA SameAsks ==
  ASSUME UNCHANGED <<row, asks>>, \A n \in Notes : Pending(n)' <=> Pending(n)
  PROVE  View' = View /\ (ReadAll' <=> ReadAll)
<1>1. \A n \in Notes : /\ Wanted(n, "delete")' <=> Wanted(n, "delete")
                       /\ Wanted(n, "read")' <=> Wanted(n, "read")
  BY DEF Wanted
<1>2. \A n \in Notes : View'[n] = View[n]
  BY <1>1, ViewIs, ViewIsNext
<1> QED BY <1>2, SameView DEF ReadAll

(* Nothing but the hub and the budgets has moved. *)
LEMMA Unmoved ==
  ASSUME TypeOK, Synced, drift = "none", ~Crossing',
         UNCHANGED <<row, told, sock, chan, counted, asks, fetch, unread, recent>>
  PROVE  Synced'
<1>1. \A n \in Notes : Pending(n)' <=> Pending(n)
  <2>1. \A s \in Sockets, n \in Notes : Holds(s, n)' <=> Holds(s, n)
    BY DEF Holds
  <2> QED BY <2>1, SamePending
<1>2. InTurn /\ Snapshots /\ Shown
  BY DEF Synced
<1>3. InTurn'
  <2>1. PendingUnread' /\ PendingLast' /\ AsksKnown'
    <3>1. asks \subseteq Requests
      BY DEF TypeOK
    <3>2. \A a \in asks : a.notes \subseteq Notes
      BY <3>1 DEF Requests
    <3> QED BY <1>1, <1>2, <3>2 DEF InTurn, PendingUnread, PendingLast, AsksKnown
  <2>2. ToldFirst' /\ OneChannel' /\ ChannelInTurn'
    BY <1>2 DEF InTurn, ToldFirst, OneChannel, ChannelInTurn, NewsIn
  <2> QED BY <2>1, <2>2 DEF InTurn
<1>4. Snapshots'
  BY <1>2, SameServer DEF Snapshots, FetchedNow, CountsNow
<1>5. View' = View /\ (ReadAll' <=> ReadAll)
  BY <1>1, SameAsks
<1>6. Shown'
  BY <1>2, <1>5, ShownStays
<1> QED BY <1>3, <1>4, <1>6 DEF Synced
-----------------------------------------------------------------------------
(* Each action keeps the tab in step, or gives the cause of its drift.      *)

(* What is known on both sides of a step that leaves no drift. *)
LEMMA NoDrift ==
  ASSUME Synced, NEW causes \in SUBSET Causes, DriftBy(causes), drift' = "none"
  PROVE  drift = "none" /\ causes = {} /\ ~Crossing /\ ~Crossing' /\ InTurn /\ Snapshots /\ Shown
BY DriftNone DEF Synced

LEMMA InsertSynced ==
  ASSUME TypeOK, TypeOK', Order, Order', Synced, NEW n \in Notes, Insert(n) PROVE Synced'
<1> SUFFICES ASSUME drift' = "none" PROVE ~Crossing' /\ InTurn' /\ Snapshots' /\ Shown'
  BY DEF Synced
<1>0. /\ row \in [Notes -> {"none", "unread", "read", "gone"}] /\ told \subseteq Notes
      /\ \A a \in asks : a.notes \subseteq Notes
  BY DEF TypeOK, Requests
<1>1. ~Crossing /\ ~Crossing' /\ InTurn /\ Shown
  BY NoDrift DEF Insert
<1>2. /\ row[n] = "none" /\ row' = [row EXCEPT ![n] = "unread"]
      /\ UNCHANGED <<told, sock, chan, counted, asks, fetch, unread, recent>>
  BY DEF Insert, socketVars, linkVars, tabVars
<1>3. n \notin told /\ row'[n] = "unread" /\ \A m \in Notes : m # n => row'[m] = row[m]
  BY <1>0, <1>2 DEF Order, ToldExist
<1>5. Pending(n)' /\ ~Pending(n) /\ \A m \in Notes : m # n => (Pending(m)' <=> Pending(m))
  BY <1>2, <1>3 DEF Pending, Holds
<1>6. News'
  BY <1>2, <1>3 DEF News
<1>7. ~Syncing' /\ \A a \in asks' : a.kind # "all"
  BY <1>1, <1>6 DEF Crossing
<1>8. Snapshots'
  BY <1>7, NoSnapshotNext
<1>9. PendingUnread' /\ AsksKnown'
  <2>1. \A a \in asks : a.kind # "all" => n \notin a.notes
    BY <1>2 DEF Order, AsksExist
  <2> QED BY <1>0, <1>1, <1>2, <1>3, <1>5, <2>1 DEF InTurn, PendingUnread, AsksKnown
<1>10. PendingLast' /\ ToldFirst'
  <2>1. \A m \in Notes : row[m] # "none" => m < n
    <3> SUFFICES ASSUME NEW m \in Notes, row[m] # "none", ~(m < n) PROVE FALSE
      OBVIOUS
    <3>1. m # n /\ m \in Nat /\ n \in Nat
      BY <1>2, NotesAreNumbers
    <3>2. n < m
      BY <3>1
    <3> QED BY <1>2, <3>2 DEF Order, RowsInOrder
  <2>2. \A m \in told : row[m] # "none"
    BY DEF Order, ToldExist
  <2> QED BY <1>0, <1>1, <1>2, <1>3, <1>5, <2>1, <2>2 DEF InTurn, PendingLast, ToldFirst
<1>11. OneChannel' /\ ChannelInTurn'
  BY <1>1, <1>2 DEF InTurn, OneChannel, ChannelInTurn, NewsIn
<1>12. View' = View
  <2>1. \A m \in Notes : /\ Wanted(m, "delete")' <=> Wanted(m, "delete")
                         /\ Wanted(m, "read")' <=> Wanted(m, "read")
    BY <1>2 DEF Wanted
  <2>2. \A m \in Notes : View'[m] = View[m]
    BY <1>2, <1>3, <1>5, <2>1, ViewIs, ViewIsNext
  <2> QED BY <2>2, SameView
<1>13. ~ReadAll /\ ~ReadAll'
  BY <1>2, <1>7 DEF ReadAll
<1>14. Shown'
  BY <1>1, <1>2, <1>12, <1>13, ShownStays
<1> QED BY <1>1, <1>8, <1>9, <1>10, <1>11, <1>14 DEF InTurn

(* A dispatch reaches one socket, once, in the order of the rows. *)
LEMMA DispatchSynced ==
  ASSUME TypeOK, TypeOK', Order, Order', Synced, NEW n \in Notes, NEW times \in 0 .. 2, Dispatch(n, times) PROVE Synced'
<1> SUFFICES ASSUME drift' = "none" PROVE ~Crossing' /\ InTurn' /\ Snapshots' /\ Shown'
  BY DEF Synced
<1> DEFINE m == [kind |-> "new", arg |-> n]
<1>0. /\ row \in [Notes -> {"none", "unread", "read", "gone"}] /\ told \subseteq Notes
      /\ chan \in [Sockets -> Seq(Messages)] /\ \A a \in asks : a.notes \subseteq Notes
  BY DEF TypeOK, Requests
<1>1. /\ ~Crossing /\ ~Crossing' /\ InTurn /\ Shown
      /\ Listening # {} /\ times = 1
      /\ \A s, t \in Listening : s = t
      /\ \A k \in Notes \ told : row[k] # "none" => ~(k < n)
  <2> DEFINE c1 == IF Listening = {} \/ times = 0 THEN {"missed"} ELSE {}
             c2 == IF (\E s, t \in Listening : s # t) \/ times > 1 THEN {"repeated"} ELSE {}
             c3 == IF \E k \in Notes \ told : k < n /\ row[k] # "none" THEN {"raced"} ELSE {}
  <2>1. DriftBy(c1 \cup c2 \cup c3)
    BY DEF Dispatch
  <2>2. c1 \cup c2 \cup c3 \in SUBSET Causes
    BY DEF Causes
  <2> HIDE DEF c1, c2, c3
  <2>3. c1 \cup c2 \cup c3 = {} /\ ~Crossing /\ ~Crossing' /\ InTurn /\ Shown
    BY <2>1, <2>2, NoDrift
  <2>4. c1 = {} /\ c2 = {} /\ c3 = {}
    BY <2>3
  <2>5. Listening # {} /\ times # 0
    BY <2>4 DEF c1
  <2>6. ~(\E s, t \in Listening : s # t) /\ ~(times > 1)
    BY <2>4 DEF c2
  <2>7. ~(\E k \in Notes \ told : k < n /\ row[k] # "none")
    BY <2>4 DEF c3
  <2> QED BY <2>3, <2>5, <2>6, <2>7
<1>2. /\ row[n] # "none" /\ n \notin told /\ told' = told \cup {n}
      /\ UNCHANGED <<row, sock, counted, asks, fetch, unread, recent>>
  BY DEF Dispatch, socketVars, tabVars
<1>3. PICK s0 \in Listening : \A s \in Listening : s = s0
  BY <1>1
<1>4. s0 \in Sockets /\ sock[s0] = "open"
  BY DEF Listening
<1>5. m \in Messages /\ m.kind = "new" /\ m.arg = n
  BY DEF Messages
<1>6. chan' = [s \in Sockets |-> IF s \in Listening THEN Sent(chan[s], m, 1) ELSE chan[s]]
  BY <1>1 DEF Dispatch, Sent
<1> HIDE DEF m
<1>7. chan'[s0] = Sent(chan[s0], m, 1) /\ \A s \in Sockets : s # s0 => chan'[s] = chan[s]
  BY <1>3, <1>4, <1>6
<1>8. /\ DOMAIN chan[s0] \subseteq DOMAIN chan'[s0]
      /\ \A i \in DOMAIN chan[s0] : chan'[s0][i] = chan[s0][i]
      /\ \A i \in DOMAIN chan'[s0] \ DOMAIN chan[s0] : chan'[s0][i] = m /\ \A j \in DOMAIN chan[s0] : j < i
      /\ \A i, j \in DOMAIN chan'[s0] \ DOMAIN chan[s0] : i = j
      /\ \E i \in DOMAIN chan'[s0] : chan'[s0][i] = m
  BY <1>0, <1>4, <1>5, <1>7, SentIs
<1>9. Holds(s0, n)' /\ \A s \in Sockets, k \in Notes : k # n => (Holds(s, k)' <=> Holds(s, k))
  <2>1. Holds(s0, n)'
    BY <1>5, <1>8 DEF Holds
  <2>2. ASSUME NEW k \in Notes, k # n PROVE Holds(s0, k)' <=> Holds(s0, k)
    BY <1>5, <1>8, <2>2 DEF Holds
  <2>3. ASSUME NEW s \in Sockets, s # s0, NEW k \in Notes PROVE Holds(s, k)' <=> Holds(s, k)
    BY <1>7, <2>3 DEF Holds
  <2> QED BY <2>1, <2>2, <2>3
<1>10. Pending(n) /\ \A k \in Notes : Pending(k)' <=> Pending(k)
  BY <1>2, <1>4, <1>9 DEF Pending
<1>11. News /\ News'
  BY <1>2, <1>10, NewsIsPendingNext DEF News
<1>12. ~Syncing' /\ \A a \in asks : a.kind # "all"
  BY <1>1, <1>11 DEF Crossing
<1>13. Snapshots'
  BY <1>12, NoSnapshotNext
<1>14. PendingUnread' /\ PendingLast' /\ AsksKnown'
  BY <1>0, <1>1, <1>2, <1>10 DEF InTurn, PendingUnread, PendingLast, AsksKnown
<1>15. ToldFirst'
  <2> SUFFICES ASSUME NEW j \in told', NEW k \in Notes \ told', row'[k] # "none" PROVE j < k
    BY DEF ToldFirst
  <2>1. CASE j = n
    <3>1. k # n /\ k \in Notes \ told /\ row[k] # "none"
      BY <1>2
    <3>2. ~(k < n) /\ k \in Nat /\ n \in Nat
      BY <1>1, <3>1, NotesAreNumbers
    <3> QED BY <2>1, <3>1, <3>2
  <2>2. CASE j # n
    BY <1>1, <1>2, <2>2 DEF InTurn, ToldFirst
  <2> QED BY <2>1, <2>2
<1>16. OneChannel'
  <2>1. ASSUME NEW s \in Sockets, NewsIn(s)' PROVE s = s0
    <3> SUFFICES ASSUME s # s0 PROVE FALSE
      OBVIOUS
    <3>1. NewsIn(s)
      BY <1>2, <1>7, <2>1 DEF NewsIn
    <3>2. s \in Listening
      BY <3>1 DEF Order, NewsIsHeard, NewsIn, Listening
    <3> QED BY <1>3, <3>2
  <2> QED BY <2>1 DEF OneChannel
<1>17. ChannelInTurn'
  <2> SUFFICES ASSUME NEW s \in Sockets, NEW i \in DOMAIN chan'[s], NEW j \in DOMAIN chan'[s], i < j,
                      chan'[s][i].kind = "new", chan'[s][j].kind = "new"
               PROVE  chan'[s][i].arg < chan'[s][j].arg
    BY DEF ChannelInTurn
  <2>1. CASE s # s0
    BY <1>1, <1>7, <2>1 DEF InTurn, ChannelInTurn
  <2>2. CASE s = s0
    <3>1. ChannelInTurn /\ ToldFirst
      BY <1>1 DEF InTurn
    <3>2. CASE i \in DOMAIN chan[s0] /\ j \in DOMAIN chan[s0]
      BY <1>4, <1>8, <2>2, <3>1, <3>2 DEF ChannelInTurn
    <3>3. CASE i \in DOMAIN chan[s0] /\ j \notin DOMAIN chan[s0]
      <4>1. chan'[s][i] = chan[s0][i] /\ chan'[s][j].arg = n
        BY <1>5, <1>8, <2>2, <3>3
      <4>2. chan[s0][i].arg \in told
        BY <1>4, <3>3, <4>1 DEF Order, SentIsTold
      <4> QED BY <1>2, <3>1, <4>1, <4>2 DEF ToldFirst
    <3>4. CASE i \notin DOMAIN chan[s0] /\ j \in DOMAIN chan[s0]
      <4>1. j < i
        BY <1>8, <2>2, <3>4
      <4>2. i \in Nat /\ j \in Nat
        <5>1. chan'[s] \in Seq(Messages)
          BY DEF TypeOK
        <5> QED BY <5>1
      <4> QED BY <4>1, <4>2
    <3>5. CASE i \notin DOMAIN chan[s0] /\ j \notin DOMAIN chan[s0]
      <4>1. i = j
        BY <1>8, <2>2, <3>5
      <4>2. i \in Nat /\ j \in Nat
        <5>1. chan'[s] \in Seq(Messages)
          BY DEF TypeOK
        <5> QED BY <5>1
      <4> QED BY <4>1, <4>2
    <3> QED BY <3>2, <3>3, <3>4, <3>5
  <2> QED BY <2>1, <2>2
<1>18. View' = View /\ (ReadAll' <=> ReadAll)
  BY <1>2, <1>10, SameAsks
<1>19. Shown'
  BY <1>1, <1>2, <1>18, ShownStays
<1> QED BY <1>1, <1>13, <1>14, <1>15, <1>16, <1>17, <1>19 DEF InTurn

LEMMA SendCountSynced ==
  ASSUME TypeOK, TypeOK', Order, Order', Synced, NEW s \in Sockets, SendCount(s) PROVE Synced'
<1> SUFFICES ASSUME drift' = "none" PROVE ~Crossing' /\ InTurn' /\ Snapshots' /\ Shown'
  BY DEF Synced
<1> DEFINE m == [kind |-> "count", arg |-> ServerUnread]
<1>0. chan \in [Sockets -> Seq(Messages)]
  BY DEF TypeOK
<1>1. ~Crossing /\ ~Crossing' /\ InTurn /\ Snapshots /\ Shown
  BY NoDrift DEF SendCount
<1>2. /\ hub[s] # "off" /\ s \notin counted
      /\ chan' = [chan EXCEPT ![s] = Append(chan[s], m)]
      /\ UNCHANGED <<row, told, sock, asks, fetch, unread, recent>>
  BY DEF SendCount, socketVars, serverVars, tabVars
<1>3. m \in Messages /\ m.kind = "count" /\ m.arg = ServerUnread
  BY ServerUnreadIs DEF Messages
<1> HIDE DEF m
<1>4. chan'[s] = Sent(chan[s], m, 1) /\ \A t \in Sockets : t # s => chan'[t] = chan[t]
  BY <1>0, <1>2, <1>3, CountSent
<1>5. sock[s] = "open"
  BY <1>2 DEF Order, ClosedIsCut
<1>6. ~News /\ asks = {}
  <2>1. Syncing
    BY <1>2, <1>5 DEF Syncing
  <2> QED BY <1>1, <2>1 DEF Crossing
<1>7. \A i \in DOMAIN chan'[s] : (i \in DOMAIN chan[s] /\ chan'[s][i] = chan[s][i]) \/ chan'[s][i] = m
  BY <1>0, <1>3, <1>4, SentIs
<1>8. ~News'
  <2>1. \A t \in Sockets : ~NewsIn(t)'
    BY <1>2, <1>3, <1>4, <1>6, <1>7 DEF News, NewsIn
  <2> QED BY <1>2, <1>6, <2>1 DEF News
<1>9. InTurn' /\ ~ReadAll' /\ \A n \in Notes : View'[n] = row'[n]
  BY <1>2, <1>6, <1>8, CalmViewNext
<1>10. ~ReadAll /\ View' = View
  BY <1>2, <1>6, <1>9, CalmView, SameView
<1>11. Snapshots'
  <2>1. CountsNow'
    BY <1>1, <1>2, <1>3, <1>4, <1>7, SameServer DEF Snapshots, CountsNow
  <2> QED BY <1>1, <1>2, <2>1, SameServer DEF Snapshots, FetchedNow
<1>12. Shown'
  BY <1>1, <1>2, <1>9, <1>10, ShownStays
<1> QED BY <1>1, <1>9, <1>11, <1>12

LEMMA ServerSynced ==
  ASSUME TypeOK, TypeOK', Order, Order', Synced, ServerStep PROVE Synced'
<1>1. ASSUME NEW n \in Notes, DispatchOnce(n) \/ DispatchLost(n) \/ DispatchTwice(n) PROVE Synced'
  BY <1>1, DispatchSynced DEF DispatchOnce, DispatchLost, DispatchTwice
<1>2. ASSUME NEW n \in Notes, NEW fate \in {"read", "gone"}, Elsewhere(n, fate) PROVE Synced'
  BY <1>2, NoDrift DEF Elsewhere, Causes, Synced
<1>3. ASSUME NEW s \in Sockets, HubAdds(s) PROVE Synced'
  <2> SUFFICES ASSUME drift' = "none" PROVE Synced'
    BY DEF Synced
  <2>1. drift = "none" /\ ~Crossing'
    BY <1>3, NoDrift DEF HubAdds
  <2>2. UNCHANGED <<row, told, sock, chan, counted, asks, fetch, unread, recent>>
    BY <1>3 DEF HubAdds, socketVars, serverVars, tabVars
  <2> QED BY <2>1, <2>2, Unmoved
<1> QED BY <1>1, <1>2, <1>3, InsertSynced, SendCountSynced DEF ServerStep
LEMMA ServeSynced ==
  ASSUME TypeOK, TypeOK', Order, Order', Synced, NEW f \in Fetches, NEW part \in {"count", "list"}, Serve(f, part) PROVE Synced'
<1> SUFFICES ASSUME drift' = "none" PROVE ~Crossing' /\ InTurn' /\ Snapshots' /\ Shown'
  BY DEF Synced
<1>0. fetch \in [Fetches -> [count : Answers, list : Answers]]
  BY DEF TypeOK
<1>1. ~Crossing /\ ~Crossing' /\ Snapshots
  BY NoDrift DEF Serve
<1>2. /\ fetch[f][part] = Asked /\ fetch' = [fetch EXCEPT ![f][part] = Snapshot(part)]
      /\ UNCHANGED <<row, told, sock, chan, asks>>
  BY DEF Serve, socketVars, serverVars, linkVars
<1>3. ~News /\ asks = {}
  <2>1. fetch[f] # NoFetch
    BY <1>2 DEF NoFetch, Asked, Idle
  <2> QED BY <1>1, <2>1 DEF Crossing, Syncing
<1>4. ~News'
  BY <1>2, <1>3 DEF News, NewsIn
<1>5. InTurn'
  BY <1>2, <1>3, <1>4, CalmViewNext
<1>6. /\ Snapshot(part).at = "answered"
      /\ part = "count" => Snapshot(part).count = ServerUnread
      /\ part = "list" => Snapshot(part).list = ServerList
  BY DEF Snapshot
<1>7. \A g \in Fetches : g # f => fetch'[g] = fetch[g]
  BY <1>0, <1>2
<1>8. fetch'[f][part] = Snapshot(part) /\ \A p \in {"count", "list"} : p # part => fetch'[f][p] = fetch[f][p]
  <2>1. fetch[f] \in [count : Answers, list : Answers] /\ fetch'[f] = [fetch[f] EXCEPT ![part] = Snapshot(part)]
    BY <1>0, <1>2
  <2> QED BY <2>1
<1>9. FetchedNow'
  <2>1. ASSUME NEW g \in Fetches, g # f
        PROVE  /\ fetch'[g].count.at # "failed" /\ fetch'[g].list.at # "failed"
               /\ fetch'[g].count.at = "answered" => fetch'[g].count.count = ServerUnread'
               /\ fetch'[g].list.at = "answered" => fetch'[g].list.list = ServerList'
    BY <1>1, <1>2, <1>7, <2>1, SameServer DEF Snapshots, FetchedNow
  <2>2. /\ fetch'[f].count.at # "failed" /\ fetch'[f].list.at # "failed"
        /\ fetch'[f].count.at = "answered" => fetch'[f].count.count = ServerUnread'
        /\ fetch'[f].list.at = "answered" => fetch'[f].list.list = ServerList'
    BY <1>1, <1>2, <1>6, <1>8, SameServer DEF Snapshots, FetchedNow
  <2> QED BY <2>1, <2>2 DEF FetchedNow
<1>10. CountsNow'
  BY <1>1, <1>2, SameServer DEF Snapshots, CountsNow
<1>11. Fetching'
  BY <1>6, <1>8 DEF Fetching, NoFetch, Idle
<1> QED BY <1>1, <1>5, <1>9, <1>10, <1>11 DEF Snapshots, Shown

LEMMA SettleSynced ==
  ASSUME TypeOK, TypeOK', Order, Order', Synced, NEW f \in Fetches, Settle(f) PROVE Synced'
<1> SUFFICES ASSUME drift' = "none" PROVE ~Crossing' /\ InTurn' /\ Snapshots' /\ Shown'
  BY DEF Synced
<1>0. row \in [Notes -> {"none", "unread", "read", "gone"}] /\ fetch \in [Fetches -> [count : Answers, list : Answers]]
  BY DEF TypeOK
<1>1. ~Crossing /\ ~Crossing' /\ Snapshots
  BY NoDrift DEF Settle
<1>2. /\ fetch[f].count.at \in {"answered", "failed"} /\ fetch[f].list.at \in {"answered", "failed"}
      /\ unread' = IF fetch[f].count.at = "answered" THEN fetch[f].count.count ELSE unread
      /\ recent' = IF fetch[f].list.at = "answered" THEN fetch[f].list.list ELSE recent
      /\ fetch' = [fetch EXCEPT ![f] = NoFetch]
      /\ UNCHANGED <<row, told, sock, chan, asks>>
  BY DEF Settle, socketVars, serverVars, linkVars
<1>3. ~News /\ asks = {}
  <2>1. fetch[f] # NoFetch
    BY <1>2 DEF NoFetch, Idle
  <2> QED BY <1>1, <2>1 DEF Crossing, Syncing
<1>4. ~News'
  BY <1>2, <1>3 DEF News, NewsIn
<1>5. /\ InTurn' /\ ~ReadAll' /\ \A n \in Notes : View'[n] = row'[n]
      /\ Held(View') = Rows' /\ UnreadOf(View') = ServerUnread'
  BY <1>2, <1>3, <1>4, CalmViewNext
<1>6. unread' = ServerUnread' /\ recent' = ServerList'
  BY <1>1, <1>2, SameServer DEF Snapshots, FetchedNow
<1>7. Lists(ServerList', Rows') /\ Marks(ServerList', row')
  BY <1>0, <1>2, SameServer, ServerListIs
<1>8. Marks(recent', View')
  <2>1. \A i \in 1 .. Len(recent') : recent'[i].note \in Notes
    BY <1>6, <1>7 DEF Lists, Rows
  <2> QED BY <1>5, <1>6, <1>7, <2>1 DEF Marks
<1>9. Showing'
  BY <1>5, <1>6, <1>7, <1>8 DEF Showing
<1>10. Snapshots'
  <2>1. FetchedNow'
    BY <1>0, <1>1, <1>2, SameServer DEF Snapshots, FetchedNow, NoFetch, Idle
  <2>2. CountsNow'
    BY <1>1, <1>2, SameServer DEF Snapshots, CountsNow
  <2> QED BY <2>1, <2>2 DEF Snapshots
<1> QED BY <1>1, <1>5, <1>9, <1>10 DEF Shown

LEMMA FetchSynced ==
  ASSUME TypeOK, TypeOK', Order, Order', Synced, FetchStep PROVE Synced'
<1>1. ASSUME NEW f \in Fetches, NEW part \in {"count", "list"}, ServeFails(f, part) PROVE Synced'
  BY <1>1, NoDrift DEF ServeFails, Causes, Synced
<1> QED BY <1>1, ServeSynced, SettleSynced DEF FetchStep

-----------------------------------------------------------------------------
(* A message at the tab. *)

LEMMA NewsSynced ==
  ASSUME TypeOK, TypeOK', Order, Order', Synced, NEW s \in Sockets, Deliver(s), Head(chan[s]).kind = "new" PROVE Synced'
<1> SUFFICES ASSUME drift' = "none" PROVE ~Crossing' /\ InTurn' /\ Snapshots' /\ Shown'
  BY DEF Synced
<1>n. PICK n : n = Head(chan[s]).arg
  OBVIOUS
<1>0. /\ row \in [Notes -> {"none", "unread", "read", "gone"}] /\ told \subseteq Notes
      /\ chan \in [Sockets -> Seq(Messages)] /\ chan[s] \in Seq(Messages)
      /\ recent \in Seq(Items) /\ \A a \in asks : a.notes \subseteq Notes
  BY DEF TypeOK, Requests
<1>1. ~Crossing /\ ~Crossing' /\ InTurn /\ Shown
  BY NoDrift DEF Deliver
<1>2. /\ sock[s] = "open" /\ chan[s] # <<>> /\ chan' = [chan EXCEPT ![s] = Tail(chan[s])]
      /\ AddNotification(n)
      /\ UNCHANGED <<row, told, sock, counted, asks, fetch>>
  BY <1>n DEF Deliver, socketVars, serverVars
<1>3. /\ Head(chan[s]) = chan[s][1] /\ 1 \in DOMAIN chan[s]
      /\ \A i \in DOMAIN chan[s] : i \in Nat /\ i >= 1
      /\ \A i \in DOMAIN Tail(chan[s]) : i \in Nat /\ i >= 1 /\ i + 1 \in DOMAIN chan[s] /\ Tail(chan[s])[i] = chan[s][i + 1]
      /\ \A i \in DOMAIN chan[s] : i # 1 => i - 1 \in DOMAIN Tail(chan[s]) /\ Tail(chan[s])[i - 1] = chan[s][i]
  BY <1>0, <1>2, TailIs
<1>4. chan'[s] = Tail(chan[s]) /\ \A t \in Sockets : t # s => chan'[t] = chan[t]
  BY <1>0, <1>2
<1>5. n \in Notes /\ n \in Nat /\ n \in told /\ row[n] # "none" /\ NewsIn(s) /\ Holds(s, n)
  <2>1. n \in Notes
    BY <1>n, <1>3, NewsMessage
  <2>2. n \in told
    BY <1>n, <1>3 DEF Order, SentIsTold
  <2> QED BY <1>n, <1>2, <1>3, <2>1, <2>2, NotesAreNumbers DEF NewsIn, Holds, Order, ToldExist
<1>6. \A t \in Sockets : sock[t] = "open" /\ t # s => ~NewsIn(t)
  BY <1>1, <1>5 DEF InTurn, OneChannel
<1>7. ~Syncing /\ (\A a \in asks : a.kind # "all") /\ Showing /\ ~ReadAll
  <2>1. ~Syncing /\ \A a \in asks : a.kind # "all"
    BY <1>1, <1>5 DEF Crossing, News
  <2>2. ~Fetching
    BY <2>1, NoSnapshot
  <2> QED BY <1>1, <2>1, <2>2 DEF Shown, ReadAll
<1>8. \A i \in DOMAIN Tail(chan[s]) : Tail(chan[s])[i].kind = "new" => n < Tail(chan[s])[i].arg
  <2> SUFFICES ASSUME NEW i \in DOMAIN Tail(chan[s]), Tail(chan[s])[i].kind = "new" PROVE n < Tail(chan[s])[i].arg
    OBVIOUS
  <2>1. i + 1 \in DOMAIN chan[s] /\ Tail(chan[s])[i] = chan[s][i + 1] /\ 1 < i + 1
    BY <1>3
  <2>2. ChannelInTurn /\ chan[s][1].kind = "new" /\ n = chan[s][1].arg
    BY <1>n, <1>1, <1>3 DEF InTurn
  <2> QED BY <1>3, <2>1, <2>2 DEF ChannelInTurn
<1>9. \A k \in Notes : Holds(s, k)' <=> Holds(s, k) /\ k # n
  <2> SUFFICES ASSUME NEW k \in Notes PROVE Holds(s, k)' <=> Holds(s, k) /\ k # n
    OBVIOUS
  <2>1. ASSUME Holds(s, k)' PROVE Holds(s, k) /\ k # n
    <3>1. PICK i \in DOMAIN Tail(chan[s]) : Tail(chan[s])[i].kind = "new" /\ Tail(chan[s])[i].arg = k
      BY <1>4, <2>1 DEF Holds
    <3>2. n < k
      BY <1>8, <3>1
    <3> QED BY <1>3, <1>5, <3>1, <3>2 DEF Holds
  <2>2. ASSUME Holds(s, k), k # n PROVE Holds(s, k)'
    <3>1. PICK i \in DOMAIN chan[s] : chan[s][i].kind = "new" /\ chan[s][i].arg = k
      BY <2>2 DEF Holds
    <3>2. i # 1
      BY <1>n, <1>3, <2>2, <3>1
    <3>3. i - 1 \in DOMAIN chan'[s] /\ chan'[s][i - 1] = chan[s][i]
      BY <1>3, <1>4, <3>2
    <3> QED BY <3>1, <3>3 DEF Holds
  <2> QED BY <2>1, <2>2
<1>10. \A t \in Sockets, k \in Notes : t # s => (Holds(t, k)' <=> Holds(t, k)) /\ (sock[t] = "open" => ~Holds(t, k))
  BY <1>4, <1>6 DEF Holds, NewsIn
<1>11. Pending(n) /\ ~Pending(n)' /\ \A k \in Notes : k # n => (Pending(k)' <=> Pending(k))
  <2>1. Pending(n)
    BY <1>2, <1>5 DEF Pending
  <2>2. ~Pending(n)'
    <3>1. \A t \in Sockets : sock[t] = "open" => ~Holds(t, n)'
      BY <1>5, <1>9, <1>10
    <3> QED BY <1>2, <1>5, <3>1 DEF Pending
  <2>3. ASSUME NEW k \in Notes, k # n PROVE Pending(k)' <=> Pending(k)
    <3>1. \A t \in Sockets : Holds(t, k)' <=> Holds(t, k)
      BY <1>9, <1>10, <2>3
    <3> QED BY <1>2, <3>1 DEF Pending
  <2> QED BY <2>1, <2>2, <2>3
<1>12. Snapshots'
  <2>1. ~Syncing'
    <3>1. \A t \in Sockets : sock'[t] = "open" => t \in counted' /\ \A i \in DOMAIN chan'[t] : chan'[t][i].kind # "count"
      <4> SUFFICES ASSUME NEW t \in Sockets, sock'[t] = "open"
                   PROVE  t \in counted' /\ \A i \in DOMAIN chan'[t] : chan'[t][i].kind # "count"
        OBVIOUS
      <4>1. t \in counted /\ \A i \in DOMAIN chan[t] : chan[t][i].kind # "count"
        BY <1>2, <1>7 DEF Syncing
      <4>2. CASE t = s
        BY <1>2, <1>3, <1>4, <4>1, <4>2
      <4>3. CASE t # s
        BY <1>2, <1>4, <4>1, <4>3
      <4> QED BY <4>2, <4>3
    <3> QED BY <1>2, <1>7, <3>1 DEF Syncing
  <2> QED BY <2>1, NoSnapshotNext
<1>13. PendingUnread' /\ AsksKnown'
  BY <1>0, <1>1, <1>2, <1>11 DEF InTurn, PendingUnread, AsksKnown
<1>14. \A k \in Notes : Pending(k)' => n < k
  <2> SUFFICES ASSUME NEW k \in Notes, Pending(k)' PROVE n < k
    OBVIOUS
  <2>1. CASE k \notin told
    BY <1>1, <1>2, <1>5, <2>1 DEF InTurn, ToldFirst, Pending
  <2>2. CASE k \in told
    <3>1. Holds(s, k)'
      BY <1>2, <1>10, <2>2 DEF Pending
    <3> QED BY <1>4, <1>8, <3>1 DEF Holds
  <2> QED BY <2>1, <2>2
<1>15. PendingLast' /\ ToldFirst'
  BY <1>0, <1>1, <1>2, <1>11, <1>14 DEF InTurn, PendingLast, ToldFirst
<1>16. OneChannel'
  <2>1. \A t \in Sockets : t # s => ~NewsIn(t)'
    BY <1>2, <1>4, <1>6 DEF NewsIn
  <2> QED BY <2>1 DEF OneChannel
<1>17. ChannelInTurn'
  <2> SUFFICES ASSUME NEW t \in Sockets, NEW i \in DOMAIN chan'[t], NEW j \in DOMAIN chan'[t], i < j,
                      chan'[t][i].kind = "new", chan'[t][j].kind = "new"
               PROVE  chan'[t][i].arg < chan'[t][j].arg
    BY DEF ChannelInTurn
  <2>1. ChannelInTurn
    BY <1>1 DEF InTurn
  <2>2. CASE t = s
    <3>1. /\ i + 1 \in DOMAIN chan[s] /\ chan'[t][i] = chan[s][i + 1]
          /\ j + 1 \in DOMAIN chan[s] /\ chan'[t][j] = chan[s][j + 1]
          /\ i \in Nat /\ j \in Nat
      BY <1>3, <1>4, <2>2
    <3>2. i + 1 < j + 1
      BY <3>1
    <3> QED BY <2>1, <2>2, <3>1, <3>2 DEF ChannelInTurn
  <2>3. CASE t # s
    BY <1>4, <2>1, <2>3 DEF ChannelInTurn
  <2> QED BY <2>2, <2>3
<1>18. View[n] = "none" /\ View'[n] = "unread" /\ \A k \in Notes : k # n => View'[k] = View[k]
  <2>1. \A k \in Notes : /\ Wanted(k, "delete")' <=> Wanted(k, "delete")
                         /\ Wanted(k, "read")' <=> Wanted(k, "read")
    BY <1>2 DEF Wanted
  <2>2. ~Wanted(n, "delete") /\ ~Wanted(n, "read") /\ row[n] = "unread"
    BY <1>1, <1>5, <1>11 DEF InTurn, AsksKnown, PendingUnread, Wanted
  <2>3. View[n] = "none"
    BY <1>5, <1>11, ViewIs
  <2>4. View'[n] = "unread"
    BY <1>2, <1>5, <1>11, <2>1, <2>2, ViewIsNext
  <2>5. \A k \in Notes : k # n => View'[k] = View[k]
    BY <1>2, <1>11, <2>1, ViewIs, ViewIsNext
  <2> QED BY <2>3, <2>4, <2>5
<1>19. ~ReadAll'
  BY <1>2, <1>7 DEF ReadAll
<1>20. Held(View') = Held(View) \cup {n} /\ \A k \in Held(View) : k < n
  <2>1. \A k \in Held(View) : k < n
    <3>1. \A k \in Held(View) : k \in Notes /\ ~Pending(k) /\ row[k] # "none"
      BY ViewIs DEF Held
    <3> QED BY <1>1, <1>5, <1>11, <3>1 DEF InTurn, PendingLast
  <2> QED BY <1>5, <1>18, <2>1 DEF Held
<1>21. Lists(recent', Held(View')) /\ Marks(recent', View')
  <2>1. recent' = Pushed([note |-> n, read |-> FALSE], Without({n}))
    BY <1>2 DEF AddNotification, Pushed
  <2>2. Lists(recent, Held(View)) /\ Marks(recent, View) /\ Held(View) \in SUBSET Notes
    BY <1>7 DEF Showing, Held
  <2>3. View'[n] # "read" /\ \A k \in Held(View) : View'[k] = View[k]
    BY <1>18, <1>20, <2>2, NotesAreNumbers
  <2>S. PICK S, q : S = Held(View) /\ q = recent'
    OBVIOUS
  <2>4. S \in SUBSET Notes /\ (\A k \in S : k < n) /\ Lists(recent, S) /\ q = Pushed([note |-> n, read |-> FALSE], Without({n}))
    BY <1>20, <2>1, <2>2, <2>S
  <2>5. Lists(q, S \cup {n})
    BY <1>0, <1>5, <2>4, FirstInWindow
  <2>6. PICK v, w : v = View /\ w = View'
    OBVIOUS
  <2>7. Marks(recent, v) /\ w[n] # "read" /\ \A m \in S : w[m] = v[m]
    BY <2>2, <2>3, <2>6, <2>S
  <2>8. recent \in Seq(Items) /\ n \in Notes
    BY <1>0, <1>5
  <2>9. Marks(q, w)
    BY <2>4, <2>5, <2>7, <2>8, FirstInWindow
  <2> QED BY <1>20, <2>5, <2>6, <2>9, <2>S
<1>22. unread' = UnreadOf(View')
  <2>1. UnreadOf(View') = UnreadOf(View) + 1
    BY <1>5, <1>18, OneMoreUnread
  <2>2. unread' = unread + 1 /\ unread = UnreadOf(View)
    BY <1>2, <1>7 DEF AddNotification, Showing
  <2> QED BY <2>1, <2>2
<1>23. Shown'
  BY <1>19, <1>21, <1>22 DEF Shown, Showing
<1> QED BY <1>1, <1>12, <1>13, <1>15, <1>16, <1>17, <1>23 DEF InTurn

LEMMA CountSynced ==
  ASSUME TypeOK, TypeOK', Order, Order', Synced, NEW s \in Sockets, Deliver(s), Head(chan[s]).kind # "new" PROVE Synced'
<1> SUFFICES ASSUME drift' = "none" PROVE ~Crossing' /\ InTurn' /\ Snapshots' /\ Shown'
  BY DEF Synced
<1>0. chan \in [Sockets -> Seq(Messages)] /\ chan[s] \in Seq(Messages) /\ recent \in Seq(Items)
  BY DEF TypeOK
<1>1. ~Crossing /\ ~Crossing' /\ Snapshots /\ Shown
  BY NoDrift DEF Deliver
<1>2. /\ sock[s] = "open" /\ chan[s] # <<>> /\ chan' = [chan EXCEPT ![s] = Tail(chan[s])]
      /\ Head(chan[s]).kind = "count" /\ unread' = Head(chan[s]).arg
      /\ UNCHANGED <<row, told, sock, asks, fetch, recent>>
  BY DEF Deliver, socketVars, serverVars
<1>3. /\ Head(chan[s]) = chan[s][1] /\ 1 \in DOMAIN chan[s]
      /\ \A i \in DOMAIN Tail(chan[s]) : i + 1 \in DOMAIN chan[s] /\ Tail(chan[s])[i] = chan[s][i + 1]
  BY <1>0, <1>2, TailIs
<1>4. chan'[s] = Tail(chan[s]) /\ \A t \in Sockets : t # s => chan'[t] = chan[t]
  BY <1>0, <1>2
<1>5. ~News /\ asks = {}
  <2>1. Syncing
    BY <1>2, <1>3 DEF Syncing
  <2> QED BY <1>1, <2>1 DEF Crossing
<1>6. ~News'
  <2>1. \A t \in Sockets : ~NewsIn(t)'
    BY <1>2, <1>3, <1>4, <1>5 DEF News, NewsIn
  <2> QED BY <1>2, <1>5, <2>1 DEF News
<1>7. /\ InTurn' /\ ~ReadAll' /\ \A n \in Notes : View'[n] = row'[n]
      /\ UnreadOf(View') = ServerUnread'
  BY <1>2, <1>5, <1>6, CalmViewNext
<1>8. ~ReadAll /\ View' = View
  BY <1>2, <1>5, <1>7, CalmView, SameView
<1>9. Snapshots' /\ unread' = ServerUnread'
  <2>1. CountsNow' /\ unread' = ServerUnread'
    BY <1>1, <1>2, <1>3, <1>4, SameServer DEF Snapshots, CountsNow
  <2> QED BY <1>1, <1>2, <2>1, SameServer DEF Snapshots, FetchedNow
<1>10. Shown'
  <2>1. CASE Fetching
    BY <1>2, <2>1 DEF Shown, Fetching
  <2>2. CASE Showing
    <3>1. Lists(recent', Held(View')) /\ Marks(recent', View')
      BY <1>2, <1>8, <2>2 DEF Showing
    <3> QED BY <1>7, <1>9, <3>1 DEF Shown, Showing
  <2> QED BY <1>1, <2>1, <2>2 DEF Shown
<1> QED BY <1>1, <1>7, <1>9, <1>10
-----------------------------------------------------------------------------
(* What the user does. *)

(* No snapshot is on its way before or after, so the tab shows the view. *)
LEMMA UserKnows ==
  ASSUME TypeOK, TypeOK', Order, Order', Synced, NEW causes \in SUBSET Causes, DriftBy(causes), drift' = "none",
         UNCHANGED <<told, sock, chan, counted, fetch>>, asks # {} \/ asks' # {}
  PROVE  /\ causes = {} /\ ~Crossing /\ ~Crossing' /\ InTurn /\ Showing /\ Snapshots'
         /\ OneChannel' /\ ChannelInTurn'
         /\ \A s \in Sockets, n \in Notes : Holds(s, n)' <=> Holds(s, n)
<1>1. causes = {} /\ ~Crossing /\ ~Crossing' /\ InTurn /\ Shown
  BY NoDrift
<1>2. Syncing' <=> Syncing
  BY DEF Syncing
<1>3. ~Syncing /\ ~Syncing'
  BY <1>1, <1>2 DEF Crossing
<1>4. Snapshots'
  BY <1>3, NoSnapshotNext
<1>5. Showing
  BY <1>1, <1>3, NoSnapshot DEF Shown
<1>6. OneChannel' /\ ChannelInTurn'
  BY <1>1 DEF InTurn, OneChannel, ChannelInTurn, NewsIn
<1>7. \A s \in Sockets, n \in Notes : Holds(s, n)' <=> Holds(s, n)
  BY DEF Holds
<1> QED BY <1>1, <1>4, <1>5, <1>6, <1>7

(* An ask for what the tab has heard of. *)
LEMMA AskInTurn ==
  ASSUME TypeOK, InTurn, OneChannel', ChannelInTurn', UNCHANGED <<row, told>>,
         \A n \in Notes : Pending(n)' <=> Pending(n),
         \A a \in asks' : a \in asks \/ a.kind = "all" \/ a.notes \subseteq {n \in Notes : ~Pending(n)}
  PROVE  InTurn'
<1>1. told \subseteq Notes /\ \A a \in asks : a.notes \subseteq Notes
  BY DEF TypeOK, Requests
<1>2. PendingUnread' /\ PendingLast' /\ ToldFirst'
  BY <1>1 DEF InTurn, PendingUnread, PendingLast, ToldFirst
<1>3. AsksKnown'
  BY <1>1 DEF InTurn, AsksKnown
<1> QED BY <1>2, <1>3 DEF InTurn

(* The tab has heard of what the dropdown shows. *)
LEMMA ShownIsKnown ==
  ASSUME TypeOK, PendingUnread, Showing, NEW ns \in SUBSET Notes, \A n \in ns : row[n] = "unread" => UnreadInRecent(n)
  PROVE  \A n \in ns : ~Pending(n)
<1> SUFFICES ASSUME NEW n \in ns, Pending(n) PROVE FALSE
  OBVIOUS
<1>0. n \in Notes /\ DOMAIN recent = 1 .. Len(recent)
  BY DEF TypeOK
<1>1. UnreadInRecent(n)
  BY <1>0 DEF PendingUnread
<1>2. PICK i \in 1 .. Len(recent) : recent[i] = [note |-> n, read |-> FALSE]
  BY <1>0, <1>1 DEF UnreadInRecent
<1>3. recent[i].note = n
  BY <1>2
<1>4. n \in Held(View)
  BY <1>2, <1>3 DEF Showing, Lists
<1> QED BY <1>0, <1>4, ViewIs DEF Held

LEMMA ReadsSynced ==
  ASSUME TypeOK, TypeOK', Order, Order', Synced, NEW n \in Notes, UserReads(n) PROVE Synced'
<1> SUFFICES ASSUME drift' = "none" PROVE ~Crossing' /\ InTurn' /\ Snapshots' /\ Shown'
  BY DEF Synced
<1> DEFINE b == [kind |-> "read", notes |-> {n}, done |-> FALSE]
<1>0. row \in [Notes -> {"none", "unread", "read", "gone"}] /\ recent \in Seq(Items) /\ unread \in Nat
  BY DEF TypeOK
<1>1. /\ row[n] \in {"unread", "read"}
      /\ recent' = ReadIn({n}) /\ unread' = Less({n}) /\ asks' = asks \cup {b}
      /\ UNCHANGED <<row, told, sock, chan, counted, fetch>>
  BY DEF UserReads, MarkAsRead, Ask, socketVars, serverVars, linkVars
<1>2. b.kind = "read" /\ b.notes = {n} /\ ~b.done
  OBVIOUS
<1> HIDE DEF b
<1>3. BeyondWindow("read", {n}) \in SUBSET Causes /\ DriftBy(BeyondWindow("read", {n})) /\ asks' # {}
  BY <1>1 DEF BeyondWindow, Causes, UserReads
<1>4. /\ BeyondWindow("read", {n}) = {} /\ ~Crossing /\ ~Crossing' /\ InTurn /\ Showing /\ Snapshots'
      /\ OneChannel' /\ ChannelInTurn'
      /\ \A s \in Sockets, m \in Notes : Holds(s, m)' <=> Holds(s, m)
  BY <1>1, <1>3, UserKnows
<1>5. \A m \in {n} : row[m] = "unread" => UnreadInRecent(m)
  BY <1>4 DEF BeyondWindow
<1>6. ~Pending(n)
  BY <1>4, <1>5, ShownIsKnown DEF InTurn
<1>7. \A m \in Notes : Pending(m)' <=> Pending(m)
  BY <1>1, <1>4 DEF Pending
<1>8. InTurn'
  <2>1. \A a \in asks' : a \in asks \/ a.kind = "all" \/ a.notes \subseteq {m \in Notes : ~Pending(m)}
    BY <1>1, <1>2, <1>6
  <2> QED BY <1>1, <1>4, <1>7, <2>1, AskInTurn
<1>9. ReadAll' <=> ReadAll
  BY <1>1, <1>2 DEF ReadAll
<1>10. /\ \A m \in Notes : m # n => View'[m] = View[m]
       /\ View[n] = "gone" => View'[n] = "gone"
       /\ View[n] # "gone" => View'[n] = "read" /\ View[n] \in {"unread", "read"}
       /\ View[n] = "unread" => row[n] = "unread"
  <2>1. \A m \in Notes : /\ Wanted(m, "delete")' <=> Wanted(m, "delete")
                         /\ Wanted(m, "read")' <=> Wanted(m, "read") \/ m = n
    BY <1>1, <1>2 DEF Wanted
  <2>2. \A m \in Notes : m # n => View'[m] = View[m]
    BY <1>1, <1>7, <2>1, ViewIs, ViewIsNext
  <2>3. View[n] = IF Wanted(n, "delete") THEN "gone" ELSE IF row[n] = "unread" /\ Wanted(n, "read") THEN "read" ELSE row[n]
    BY <1>1, <1>6, ViewIs
  <2>4. View'[n] = IF Wanted(n, "delete") THEN "gone" ELSE IF row[n] = "unread" THEN "read" ELSE row[n]
    BY <1>1, <1>6, <1>7, <2>1, ViewIsNext
  <2> QED BY <1>1, <2>2, <2>3, <2>4
<1>11. PICK v, w : v = View /\ w = View'
  OBVIOUS
<1>12. PICK S : S = Held(View)
  OBVIOUS
<1>13. S \in SUBSET Notes /\ Held(View') = S /\ Lists(recent, S) /\ \A m \in S : v[m] \in {"unread", "read"}
  BY <1>4, <1>10, <1>11, <1>12 DEF Held, Showing
<1>14. Lists(recent', Held(View'))
  BY <1>0, <1>1, <1>13, ReadWindow
<1>15. ASSUME ~ReadAll PROVE Marks(recent', View') /\ unread' = UnreadOf(View')
  <2>1. Marks(recent, v) /\ unread = UnreadOf(v)
    BY <1>4, <1>11, <1>15 DEF Showing
  <2>2. \A m \in S : (w[m] = "read") = (v[m] = "read" \/ m \in {n})
    <3>1. \A m \in S : m # n => w[m] = v[m]
      BY <1>10, <1>11, <1>13
    <3>2. n \in S => w[n] = "read"
      BY <1>10, <1>11, <1>13
    <3> QED BY <3>1, <3>2
  <2>3. Lists(ReadIn({n}), S)
    BY <1>0, <1>13, ReadWindow
  <2>4. Marks(ReadIn({n}), w)
    BY <1>0, <1>13, <2>1, <2>2, <2>3, ReadWindow
  <2>5. \A m \in {n} : UnreadInRecent(m) <=> v[m] = "unread"
    BY <1>0, <1>5, <1>10, <1>11, <1>13, <2>1, UnreadIsShown
  <2>6. \A m \in Notes : w[m] = "unread" <=> v[m] = "unread" /\ m \notin {n}
    BY <1>10, <1>11
  <2>7. Less({n}) = UnreadOf(w)
    BY <2>1, <2>5, <2>6, LessCounts
  <2> QED BY <1>1, <1>11, <2>4, <2>7
<1>16. Shown'
  BY <1>1, <1>4, <1>9, <1>14, <1>15 DEF Shown, Showing
<1> QED BY <1>4, <1>8, <1>16

LEMMA DeletesSynced ==
  ASSUME TypeOK, TypeOK', Order, Order', Synced, NEW ns \in SUBSET Notes, UserDeletes(ns) PROVE Synced'
<1> SUFFICES ASSUME drift' = "none" PROVE ~Crossing' /\ InTurn' /\ Snapshots' /\ Shown'
  BY DEF Synced
<1> DEFINE b == [kind |-> "delete", notes |-> ns, done |-> FALSE]
<1>0. row \in [Notes -> {"none", "unread", "read", "gone"}] /\ recent \in Seq(Items) /\ unread \in Nat
  BY DEF TypeOK
<1>1. /\ ns \subseteq Rows
      /\ recent' = Without(ns) /\ unread' = Less(ns) /\ asks' = asks \cup {b}
      /\ UNCHANGED <<row, told, sock, chan, counted, fetch>>
  BY DEF UserDeletes, DeleteNotifications, Ask, socketVars, serverVars, linkVars
<1>2. b.kind = "delete" /\ b.notes = ns /\ ~b.done
  OBVIOUS
<1> HIDE DEF b
<1>3. BeyondWindow("delete", ns) \in SUBSET Causes /\ DriftBy(BeyondWindow("delete", ns)) /\ asks' # {}
  BY <1>1 DEF BeyondWindow, Causes, UserDeletes
<1>4. /\ BeyondWindow("delete", ns) = {} /\ ~Crossing /\ ~Crossing' /\ InTurn /\ Showing /\ Snapshots'
      /\ OneChannel' /\ ChannelInTurn'
      /\ \A s \in Sockets, m \in Notes : Holds(s, m)' <=> Holds(s, m)
  BY <1>1, <1>3, UserKnows
<1>5. (\A m \in ns : row[m] = "unread" => UnreadInRecent(m)) /\ ~(Cardinality(Rows) > Window)
  BY <1>4 DEF BeyondWindow
<1>6. \A m \in ns : m \in Notes /\ ~Pending(m) /\ row[m] # "none"
  BY <1>1, <1>4, <1>5, ShownIsKnown DEF InTurn, Rows
<1>7. \A m \in Notes : Pending(m)' <=> Pending(m)
  BY <1>1, <1>4 DEF Pending
<1>8. InTurn'
  <2>1. \A a \in asks' : a \in asks \/ a.kind = "all" \/ a.notes \subseteq {m \in Notes : ~Pending(m)}
    BY <1>1, <1>2, <1>6
  <2> QED BY <1>1, <1>4, <1>7, <2>1, AskInTurn
<1>9. ReadAll' <=> ReadAll
  BY <1>1, <1>2 DEF ReadAll
<1>10. /\ \A m \in Notes \ ns : View'[m] = View[m]
       /\ \A m \in ns : View'[m] = "gone"
       /\ \A m \in Notes : View[m] = "unread" => row[m] = "unread"
  <2>1. \A m \in Notes : /\ Wanted(m, "delete")' <=> Wanted(m, "delete") \/ m \in ns
                         /\ Wanted(m, "read")' <=> Wanted(m, "read")
    BY <1>1, <1>2 DEF Wanted
  <2>2. \A m \in Notes \ ns : View'[m] = View[m]
    BY <1>1, <1>7, <2>1, ViewIs, ViewIsNext
  <2>3. \A m \in ns : View'[m] = "gone"
    BY <1>1, <1>6, <1>7, <2>1, ViewIsNext
  <2>4. \A m \in Notes : View[m] = "unread" => row[m] = "unread"
    BY ViewIs
  <2> QED BY <2>2, <2>3, <2>4
<1>11. PICK v, w : v = View /\ w = View'
  OBVIOUS
<1>12. PICK S : S = Held(View)
  OBVIOUS
<1>13. S \in SUBSET Notes /\ Held(View') = S \ ns /\ Lists(recent, S) /\ \A m \in S : v[m] \in {"unread", "read"}
  BY <1>4, <1>10, <1>11, <1>12 DEF Held, Showing
<1>14. Cardinality(S) <= Window
  <2>1. S \subseteq Rows
    BY <1>12, ViewIs DEF Held, Rows
  <2>2. Rows \in SUBSET Notes
    BY DEF Rows
  <2>3. IsFiniteSet(Rows) /\ Cardinality(Rows) \in Nat /\ Cardinality(S) \in Nat
    BY <1>13, <2>2, NotesAreNumbers
  <2>4. Cardinality(S) <= Cardinality(Rows)
    BY <2>1, <2>3, FS_Subset
  <2> QED BY <1>5, <2>3, <2>4, NotesAreNumbers
<1>15. Lists(Without(ns), S \ ns)
  BY <1>0, <1>13, <1>14, WithoutWindow
<1>16. ASSUME ~ReadAll PROVE Marks(recent', View') /\ unread' = UnreadOf(View')
  <2>1. Marks(recent, v) /\ unread = UnreadOf(v)
    BY <1>4, <1>11, <1>16 DEF Showing
  <2>2. \A m \in S \ ns : w[m] = v[m]
    BY <1>10, <1>11, <1>13
  <2>3. Marks(Without(ns), w)
    BY <1>0, <1>13, <1>14, <1>15, <2>1, <2>2, WithoutWindow
  <2>4. \A m \in ns : UnreadInRecent(m) <=> v[m] = "unread"
    BY <1>0, <1>5, <1>6, <1>10, <1>11, <1>13, <2>1, UnreadIsShown
  <2>5. \A m \in Notes : w[m] = "unread" <=> v[m] = "unread" /\ m \notin ns
    BY <1>10, <1>11
  <2>6. Less(ns) = UnreadOf(w)
    BY <2>1, <2>4, <2>5, LessCounts
  <2> QED BY <1>1, <1>11, <2>3, <2>6
<1>17. Shown'
  BY <1>1, <1>4, <1>9, <1>13, <1>15, <1>16 DEF Shown, Showing
<1> QED BY <1>4, <1>8, <1>17

LEMMA ReadsAllSynced ==
  ASSUME TypeOK, TypeOK', Order, Order', Synced, UserReadsAll PROVE Synced'
<1> SUFFICES ASSUME drift' = "none" PROVE ~Crossing' /\ InTurn' /\ Snapshots' /\ Shown'
  BY DEF Synced
<1> DEFINE b == [kind |-> "all", notes |-> Notes, done |-> FALSE]
<1>1. /\ asks' = asks \cup {b}
      /\ UNCHANGED <<row, told, sock, chan, counted, fetch, unread, recent>>
  BY DEF UserReadsAll, Ask, socketVars, serverVars, linkVars, tabVars
<1>2. b.kind = "all" /\ ~b.done
  OBVIOUS
<1> HIDE DEF b
<1>3. DriftBy({}) /\ asks' # {}
  BY <1>1 DEF UserReadsAll
<1>4. /\ ~Crossing /\ ~Crossing' /\ InTurn /\ Showing /\ Snapshots'
      /\ OneChannel' /\ ChannelInTurn'
      /\ \A s \in Sockets, m \in Notes : Holds(s, m)' <=> Holds(s, m)
  BY <1>1, <1>3, UserKnows
<1>5. \A m \in Notes : Pending(m)' <=> Pending(m)
  BY <1>1, <1>4 DEF Pending
<1>6. InTurn'
  <2>1. \A a \in asks' : a \in asks \/ a.kind = "all"
    BY <1>1, <1>2
  <2> QED BY <1>1, <1>4, <1>5, <2>1, AskInTurn
<1>7. ReadAll' <=> ReadAll
  BY <1>1, <1>2 DEF ReadAll
<1>8. View' = View
  <2>1. \A m \in Notes : /\ Wanted(m, "delete")' <=> Wanted(m, "delete")
                         /\ Wanted(m, "read")' <=> Wanted(m, "read")
    BY <1>1, <1>2 DEF Wanted
  <2>2. \A m \in Notes : View'[m] = View[m]
    BY <1>1, <1>5, <2>1, ViewIs, ViewIsNext
  <2> QED BY <2>2, SameView
<1>9. Shown'
  BY <1>1, <1>4, <1>7, <1>8, ShownStays DEF Shown
<1> QED BY <1>4, <1>6, <1>9
LEMMA ServeAskSynced ==
  ASSUME TypeOK, TypeOK', Order, Order', Synced, NEW a \in asks, ServeAsk(a) PROVE Synced'
<1> SUFFICES ASSUME drift' = "none" PROVE ~Crossing' /\ InTurn' /\ Snapshots' /\ Shown'
  BY DEF Synced
<1> DEFINE more == IF a.kind = "all" THEN {[a EXCEPT !.done = TRUE]} ELSE {}
<1>0. /\ row \in [Notes -> {"none", "unread", "read", "gone"}] /\ told \subseteq Notes
      /\ \A b \in asks : b \in Requests /\ b.notes \subseteq Notes
  BY DEF TypeOK, Requests
<1>1. /\ ~a.done /\ row' = After(a) /\ asks' = (asks \ {a}) \cup more
      /\ UNCHANGED <<told, sock, chan, counted, fetch, unread, recent>>
  BY DEF ServeAsk, socketVars, linkVars, tabVars
<1>2. DriftBy({}) /\ asks # {}
  BY DEF ServeAsk
<1>3. /\ ~Crossing /\ ~Crossing' /\ InTurn /\ Showing /\ Snapshots'
      /\ OneChannel' /\ ChannelInTurn'
      /\ \A s \in Sockets, n \in Notes : Holds(s, n)' <=> Holds(s, n)
  BY <1>1, <1>2, UserKnows
<1>4. /\ a.kind \in {"read", "all", "delete"}
      /\ a.kind = "all" => a.notes = Notes
      /\ \A n \in a.notes : a.kind = "all" \/ row[n] # "none"
  BY <1>0 DEF Order, AsksExist, Requests
<1>5. \A b \in more : b.kind = "all" /\ a.kind = "all" /\ b.done
  BY <1>0 DEF Requests
<1>6. a.kind = "all" => \E b \in asks' : b.kind = "all" /\ b.done
  BY <1>1, <1>5
<1> HIDE DEF more
<1>7. \A n \in Notes : row'[n] = IF a.kind = "delete" THEN IF n \in a.notes THEN "gone" ELSE row[n]
                                 ELSE IF n \in a.notes /\ row[n] = "unread" THEN "read" ELSE row[n]
  BY <1>1 DEF After
<1>8. \A n \in Notes : row'[n] # "none" <=> row[n] # "none"
  BY <1>4, <1>7
<1>9. \A n \in Notes : Pending(n)' <=> Pending(n)
  BY <1>1, <1>3, <1>8 DEF Pending
<1>10. \A n \in Notes : Pending(n) => a.kind # "all" /\ n \notin a.notes /\ row'[n] = row[n]
  <2> SUFFICES ASSUME NEW n \in Notes, Pending(n) PROVE a.kind # "all" /\ n \notin a.notes /\ row'[n] = row[n]
    OBVIOUS
  <2>1. News
    BY NewsIsPending
  <2>2. a.kind # "all"
    BY <1>3, <2>1 DEF Crossing
  <2>3. n \notin a.notes
    BY <1>3, <2>2 DEF InTurn, AsksKnown
  <2> QED BY <1>7, <2>2, <2>3
<1>11. InTurn'
  <2>1. PendingUnread' /\ PendingLast'
    BY <1>3, <1>8, <1>9, <1>10 DEF InTurn, PendingUnread, PendingLast
  <2>2. ToldFirst'
    BY <1>1, <1>3, <1>8 DEF InTurn, ToldFirst
  <2>3. AsksKnown'
    BY <1>0, <1>1, <1>3, <1>5, <1>9 DEF InTurn, AsksKnown
  <2> QED BY <1>3, <2>1, <2>2, <2>3 DEF InTurn
<1>12. \A n \in Notes, kind \in {"read", "delete"} :
         Wanted(n, kind) <=> Wanted(n, kind)' \/ (a.kind = kind /\ n \in a.notes)
  BY <1>1, <1>5 DEF Wanted
<1>13. a.kind # "all" => View' = View
  <2> SUFFICES ASSUME a.kind # "all", NEW n \in Notes PROVE View'[n] = View[n]
    BY SameView
  <2>1. CASE n \notin a.notes
    <3>1. row'[n] = row[n] /\ (Wanted(n, "delete")' <=> Wanted(n, "delete")) /\ (Wanted(n, "read")' <=> Wanted(n, "read"))
      BY <1>7, <1>12, <2>1
    <3> QED BY <1>9, <3>1, ViewIs, ViewIsNext
  <2>2. CASE n \in a.notes /\ a.kind = "delete"
    <3>1. row'[n] = "gone" /\ Wanted(n, "delete") /\ row[n] # "none" /\ ~Pending(n)
      BY <1>4, <1>7, <1>10, <1>12, <2>2
    <3>2. View[n] = "gone"
      BY <3>1, ViewIs
    <3>3. View'[n] = "gone"
      BY <1>9, <3>1, ViewIsNext
    <3> QED BY <3>2, <3>3
  <2>3. CASE n \in a.notes /\ a.kind = "read"
    <3>1. /\ row'[n] = IF row[n] = "unread" THEN "read" ELSE row[n]
          /\ Wanted(n, "read") /\ row[n] # "none" /\ ~Pending(n)
          /\ Wanted(n, "delete")' <=> Wanted(n, "delete")
      BY <1>4, <1>7, <1>10, <1>12, <2>3
    <3>2. View[n] = IF Wanted(n, "delete") THEN "gone" ELSE IF row[n] = "unread" THEN "read" ELSE row[n]
      BY <3>1, ViewIs
    <3>3. View'[n] = IF Wanted(n, "delete") THEN "gone" ELSE IF row[n] = "unread" THEN "read" ELSE row[n]
      <4>1. ~Pending(n)' /\ row'[n] # "none" /\ row'[n] # "unread"
        BY <1>8, <1>9, <3>1
      <4> QED BY <3>1, <4>1, ViewIsNext
    <3> QED BY <3>2, <3>3
  <2> QED BY <1>4, <2>1, <2>2, <2>3
<1>14. CASE a.kind # "all"
  <2>1. ReadAll' <=> ReadAll
    BY <1>1, <1>5, <1>14 DEF ReadAll
  <2>2. \A n \in Notes : row'[n] = "unread" => row[n] = "unread"
    BY <1>7
  <2>3. Shown'
    BY <1>1, <1>3, <1>13, <1>14, <2>1, <2>2, ShownStays DEF Shown
  <2> QED BY <1>3, <1>11, <2>3
<1>15. CASE a.kind = "all"
  <2>1. ReadAll'
    BY <1>6, <1>15 DEF ReadAll
  <2>2. \A n \in Notes : row'[n] # "unread"
    BY <1>4, <1>7, <1>15
  <2>3. Held(View') = Held(View)
    <3> SUFFICES ASSUME NEW n \in Notes PROVE View'[n] \in {"unread", "read"} <=> View[n] \in {"unread", "read"}
      BY DEF Held
    <3>1. /\ ~Pending(n) /\ ~Pending(n)' /\ (Wanted(n, "delete")' <=> Wanted(n, "delete"))
          /\ row'[n] = IF row[n] = "unread" THEN "read" ELSE row[n]
      BY <1>4, <1>7, <1>9, <1>10, <1>12, <1>15
    <3>2. View[n] \in {"unread", "read"} <=> ~(row[n] # "none" /\ Wanted(n, "delete")) /\ row[n] \in {"unread", "read"}
      BY <3>1, ViewIs
    <3>3. View'[n] \in {"unread", "read"} <=> ~(row'[n] # "none" /\ Wanted(n, "delete")') /\ row'[n] \in {"unread", "read"}
      BY <3>1, ViewIsNext
    <3> QED BY <3>1, <3>2, <3>3
  <2>4. Showing'
    BY <1>1, <1>3, <2>1, <2>2, <2>3 DEF Showing
  <2> QED BY <1>3, <1>11, <2>4 DEF Shown
<1> QED BY <1>14, <1>15

LEMMA AnsweredSynced ==
  ASSUME TypeOK, TypeOK', Order, Order', Synced, NEW a \in asks, AllAnswered(a) PROVE Synced'
<1> SUFFICES ASSUME drift' = "none" PROVE ~Crossing' /\ InTurn' /\ Snapshots' /\ Shown'
  BY DEF Synced
<1>0. row \in [Notes -> {"none", "unread", "read", "gone"}] /\ recent \in Seq(Items)
  BY DEF TypeOK
<1>1. /\ a.done /\ recent' = ReadIn(Notes) /\ unread' = 0 /\ asks' = asks \ {a}
      /\ UNCHANGED <<row, told, sock, chan, counted, fetch>>
  BY DEF AllAnswered, MarkAllAsRead, socketVars, serverVars, linkVars
<1>2. DriftBy({}) /\ asks # {}
  BY DEF AllAnswered
<1>3. /\ ~Crossing /\ ~Crossing' /\ InTurn /\ Showing /\ Snapshots'
      /\ OneChannel' /\ ChannelInTurn'
      /\ \A s \in Sockets, n \in Notes : Holds(s, n)' <=> Holds(s, n)
  BY <1>1, <1>2, UserKnows
<1>4. a.kind = "all" /\ ReadAll
  BY <1>1 DEF Order, AsksExist, ReadAll
<1>5. \A n \in Notes : row[n] # "unread"
  BY <1>3, <1>4 DEF Showing
<1>6. \A n \in Notes : Pending(n)' <=> Pending(n)
  BY <1>1, <1>3 DEF Pending
<1>7. InTurn'
  <2>1. \A b \in asks' : b \in asks
    BY <1>1
  <2> QED BY <1>1, <1>3, <1>6, <2>1, AskInTurn
<1>8. View' = View
  <2>1. \A n \in Notes : /\ Wanted(n, "delete")' <=> Wanted(n, "delete")
                         /\ Wanted(n, "read")' <=> Wanted(n, "read")
    BY <1>1, <1>4 DEF Wanted
  <2>2. \A n \in Notes : View'[n] = View[n]
    BY <1>1, <1>6, <2>1, ViewIs, ViewIsNext
  <2> QED BY <2>2, SameView
<1>9. \A n \in Notes : View[n] # "unread"
  BY <1>5, ViewIs
<1>10. PICK S, v : S = Held(View) /\ v = View
  OBVIOUS
<1>11. S \in SUBSET Notes /\ Lists(recent, S) /\ \A n \in S : v[n] = "read"
  BY <1>3, <1>9, <1>10 DEF Showing, Held
<1>12. Lists(ReadIn(Notes), S)
  BY <1>0, <1>11, ReadWindow
<1>13. Marks(ReadIn(Notes), v)
  BY <1>0, <1>11, <1>12, ReadWindow
<1>14. UnreadOf(View) = 0
  <2>1. {n \in Notes : View[n] = "unread"} = {}
    BY <1>9
  <2> QED BY <2>1, FS_EmptySet DEF UnreadOf
<1>15. Lists(recent', Held(View')) /\ Marks(recent', View') /\ unread' = UnreadOf(View')
  BY <1>1, <1>8, <1>10, <1>12, <1>13, <1>14
<1>16. Shown'
  BY <1>1, <1>5, <1>15 DEF Shown, Showing
<1> QED BY <1>3, <1>7, <1>16

LEMMA UserSynced ==
  ASSUME TypeOK, TypeOK', Order, Order', Synced, UserStep PROVE Synced'
<1>1. ASSUME NEW a \in asks, AskFails(a) PROVE Synced'
  BY <1>1, NoDrift DEF AskFails, Causes, Synced
<1> QED BY <1>1, ReadsSynced, DeletesSynced, ReadsAllSynced, ServeAskSynced, AnsweredSynced DEF UserStep

-----------------------------------------------------------------------------
(* The socket's steps. *)

(* No news is cut off: the links keep what is pending. *)
LEMMA LinksKeep ==
  ASSUME TypeOK, Order, LinksFollow, UNCHANGED <<serverVars, asks>>, \A s \in Sockets : NewsIn(s) => sock'[s] = "open"
  PROVE  /\ \A n \in Notes : Pending(n)' <=> Pending(n)
         /\ News' <=> News
         /\ InTurn => InTurn'
         /\ CountsNow => CountsNow'
         /\ View' = View /\ (ReadAll' <=> ReadAll)
<1>0. UNCHANGED <<row, told, asks>>
  BY DEF serverVars
<1>1. \A s \in Sockets : chan'[s] = IF sock'[s] = "open" THEN chan[s] ELSE <<>>
  BY DEF LinksFollow
<1>2. \A s \in Sockets : sock[s] # "open" => chan[s] = <<>>
  BY DEF Order, ClosedIsCut
<1>3. \A s \in Sockets, n \in Notes : sock'[s] = "open" /\ Holds(s, n)' <=> sock[s] = "open" /\ Holds(s, n)
  <2> SUFFICES ASSUME NEW s \in Sockets, NEW n \in Notes
               PROVE  sock'[s] = "open" /\ Holds(s, n)' <=> sock[s] = "open" /\ Holds(s, n)
    OBVIOUS
  <2>1. ASSUME sock'[s] = "open", Holds(s, n)' PROVE sock[s] = "open" /\ Holds(s, n)
    <3>1. chan'[s] = chan[s]
      BY <1>1, <2>1
    <3>2. Holds(s, n)
      BY <2>1, <3>1 DEF Holds
    <3>3. sock[s] = "open"
      BY <1>2, <3>2 DEF Holds
    <3> QED BY <3>2, <3>3
  <2>2. ASSUME sock[s] = "open", Holds(s, n) PROVE sock'[s] = "open" /\ Holds(s, n)'
    <3>1. sock'[s] = "open"
      BY <2>2 DEF NewsIn, Holds
    <3> QED BY <1>1, <2>2, <3>1 DEF Holds
  <2> QED BY <2>1, <2>2
<1>4. \A n \in Notes : Pending(n)' <=> Pending(n)
  BY <1>0, <1>3, SamePending
<1>5. \A s \in Sockets : NewsIn(s)' <=> NewsIn(s)
  <2> SUFFICES ASSUME NEW s \in Sockets PROVE NewsIn(s)' <=> NewsIn(s)
    OBVIOUS
  <2>1. ASSUME NewsIn(s)' PROVE NewsIn(s)
    <3>1. sock'[s] = "open" /\ chan'[s] = chan[s]
      BY <1>1, <2>1 DEF NewsIn
    <3>2. \E i \in DOMAIN chan[s] : chan[s][i].kind = "new"
      BY <2>1, <3>1 DEF NewsIn
    <3>3. sock[s] = "open"
      BY <1>2, <3>2
    <3> QED BY <3>2, <3>3 DEF NewsIn
  <2>2. ASSUME NewsIn(s) PROVE NewsIn(s)'
    <3>1. sock'[s] = "open"
      BY <2>2
    <3> QED BY <1>1, <2>2, <3>1 DEF NewsIn
  <2> QED BY <2>1, <2>2
<1>6. News' <=> News
  BY <1>0, <1>5 DEF News
<1>7. ASSUME InTurn PROVE InTurn'
  <2>0. \A a \in asks : a.notes \subseteq Notes
    BY DEF TypeOK, Requests
  <2>1. PendingUnread' /\ PendingLast' /\ AsksKnown'
    BY <1>0, <1>4, <1>7, <2>0 DEF InTurn, PendingUnread, PendingLast, AsksKnown
  <2>2. ToldFirst'
    BY <1>0, <1>7 DEF InTurn, ToldFirst
  <2>3. OneChannel'
    BY <1>5, <1>7 DEF InTurn, OneChannel
  <2>4. ChannelInTurn'
    BY <1>1, <1>7 DEF InTurn, ChannelInTurn
  <2> QED BY <2>1, <2>2, <2>3, <2>4 DEF InTurn
<1>8. ASSUME CountsNow PROVE CountsNow'
  BY <1>0, <1>1, <1>8, SameServer DEF CountsNow
<1>9. View' = View /\ (ReadAll' <=> ReadAll)
  BY <1>0, <1>4, SameAsks
<1> QED BY <1>4, <1>6, <1>7, <1>8, <1>9

(* A refresh under way, or the ones there were. *)
LEMMA RefreshKeeps ==
  ASSUME TypeOK, UNCHANGED row, Refresh, FetchedNow PROVE FetchedNow' /\ Fetching'
<1>0. fetch \in [Fetches -> [count : Answers, list : Answers]]
  BY DEF TypeOK
<1>1. PICK f \in Fetches : fetch' = [fetch EXCEPT ![f] = [count |-> Asked, list |-> Asked]]
  BY <1>0, RefreshEffect
<1>2. fetch'[f] = [count |-> Asked, list |-> Asked] /\ \A g \in Fetches : g # f => fetch'[g] = fetch[g]
  BY <1>0, <1>1
<1>3. Fetching'
  BY <1>2 DEF Fetching, NoFetch, Asked, Idle
<1>4. FetchedNow'
  BY <1>2, SameServer DEF FetchedNow, Asked
<1> QED BY <1>3, <1>4

LEMMA LinkedSynced ==
  ASSUME TypeOK, Order, Synced, NEW causes \in SUBSET Causes, DriftBy(causes),
         LinksFollow, UNCHANGED <<serverVars, tabVars, asks>>, UNCHANGED fetch \/ Refresh,
         causes = {} => \A s \in Sockets : NewsIn(s) => sock'[s] = "open"
  PROVE  Synced'
<1> SUFFICES ASSUME drift' = "none" PROVE ~Crossing' /\ InTurn' /\ Snapshots' /\ Shown'
  BY DEF Synced
<1>1. causes = {} /\ ~Crossing' /\ InTurn /\ Snapshots /\ Shown
  BY NoDrift
<1>2. InTurn' /\ CountsNow' /\ View' = View /\ (ReadAll' <=> ReadAll)
  BY <1>1, LinksKeep DEF Snapshots
<1>3. UNCHANGED <<row, recent, unread>>
  BY DEF serverVars, tabVars
<1>4. CASE Refresh
  BY <1>1, <1>2, <1>3, <1>4, RefreshKeeps DEF Snapshots, Shown
<1>5. CASE UNCHANGED fetch
  <2>1. FetchedNow'
    BY <1>1, <1>3, <1>5, SameServer DEF Snapshots, FetchedNow
  <2>2. Shown'
    BY <1>1, <1>2, <1>3, <1>5, ShownStays
  <2> QED BY <1>1, <1>2, <2>1, <2>2 DEF Snapshots
<1> QED BY <1>4, <1>5

(* A backfill makes good whatever was amiss. *)
LEMMA BackfillSynced ==
  ASSUME TypeOK, TypeOK', Order, Order', NEW s \in Sockets, Backfill(s) PROVE Synced'
<1> SUFFICES ASSUME drift' = "none" PROVE ~Crossing' /\ InTurn' /\ Snapshots' /\ Shown'
  BY DEF Synced
<1>0. sock \in [Sockets -> SocketStates]
  BY DEF TypeOK, SocketTypeOK
<1>1. /\ ~News /\ asks = {} /\ ~Syncing
      /\ LinksFollow /\ Refresh /\ UNCHANGED <<serverVars, asks>> /\ sock' = [sock EXCEPT ![s] = "open"]
  BY DEF Backfill, Opened
<1>2. \A t \in Sockets : NewsIn(t) => sock'[t] = "open"
  BY <1>0, <1>1 DEF NewsIn
<1>3. CountsNow' /\ ~News'
  BY <1>1, <1>2, LinksKeep, NoSnapshot DEF Snapshots
<1>4. FetchedNow' /\ Fetching'
  BY <1>1, NoSnapshot, RefreshKeeps DEF Snapshots, serverVars
<1>5. InTurn'
  BY <1>1, <1>3, CalmViewNext
<1>6. ~Crossing'
  BY <1>1, <1>3 DEF Crossing
<1> QED BY <1>3, <1>4, <1>5, <1>6 DEF Snapshots, Shown

LEMMA SocketSynced ==
  ASSUME TypeOK, TypeOK', Order, Order', Synced, SocketStep PROVE Synced'
<1>0. sock \in [Sockets -> SocketStates]
  BY DEF TypeOK, SocketTypeOK
<1>1. CASE Enter
  <2>1. \A s \in Sockets : sock[s] = "open" => sock'[s] = "open"
    BY <1>0, <1>1 DEF Enter, Mount, Dial
  <2>2. DriftBy({}) /\ LinksFollow /\ UNCHANGED <<serverVars, tabVars, asks>> /\ (UNCHANGED fetch \/ Refresh)
    BY <1>1 DEF Enter
  <2> QED BY <2>1, <2>2, LinkedSynced DEF NewsIn
<1>2. ASSUME NEW s \in Sockets, OpenedFirst(s) PROVE Synced'
  <2>1. \A t \in Sockets : sock[t] = "open" => sock'[t] = "open"
    BY <1>0, <1>2 DEF OpenedFirst, Opened
  <2>2. DriftBy({}) /\ LinksFollow /\ UNCHANGED <<serverVars, tabVars, asks, fetch>>
    BY <1>2 DEF OpenedFirst
  <2> QED BY <2>1, <2>2, LinkedSynced DEF NewsIn
<1>3. ASSUME Leave \/ Press \/ Redial \/ \E s \in Sockets : CloseDone(s) \/ \E e \in BOOLEAN : Break(s, e) PROVE Synced'
  <2>1. LinksFollow /\ UNCHANGED <<serverVars, tabVars, asks, fetch>> /\ DriftBy(Cut)
    BY <1>3 DEF Leave, Press, Redial, CloseDone, Break, Quietly
  <2>2. Cut \in SUBSET Causes /\ (Cut = {} => \A s \in Sockets : NewsIn(s) => sock'[s] = "open")
    BY DEF Cut, Causes
  <2> QED BY <2>1, <2>2, LinkedSynced
<1>4. ASSUME NEW s \in Sockets, Deliver(s) PROVE Synced'
  BY <1>4, NewsSynced, CountSynced
<1> QED BY <1>1, <1>2, <1>3, <1>4, BackfillSynced DEF SocketStep

-----------------------------------------------------------------------------
LEMMA InitSynced == FeedInit /\ TypeOK /\ Order => Synced
<1> SUFFICES ASSUME FeedInit, TypeOK, Order PROVE ~Crossing /\ InTurn /\ Snapshots /\ Shown
  BY DEF Synced
<1>1. /\ row = [n \in Notes |-> IF n <= OldNotes THEN "unread" ELSE "none"] /\ told = 1 .. OldNotes
      /\ asks = {} /\ \A s \in Sockets : chan[s] = <<>>
  BY DEF FeedInit
<1>2. PICK f \in Fetches : fetch = [g \in Fetches |-> IF g = f THEN [count |-> Asked, list |-> Asked] ELSE NoFetch]
  BY DEF FeedInit
<1>3. ~News
  <2>1. \A n \in Notes : row[n] # "none" => n \in told
    <3>1. \A n \in Notes : n \in Nat /\ n >= 1
      BY FeedAssumption DEF Notes
    <3>2. OldNotes \in Nat
      BY FeedAssumption
    <3> QED BY <1>1, <3>1, <3>2
  <2>2. \A s \in Sockets : ~NewsIn(s)
    BY <1>1 DEF NewsIn
  <2> QED BY <2>1, <2>2 DEF News
<1>4. InTurn
  BY <1>1, <1>3, CalmView
<1>5. Snapshots
  <2>1. FetchedNow
    BY <1>2 DEF FetchedNow, Asked, NoFetch, Idle
  <2>2. CountsNow
    BY <1>1 DEF CountsNow
  <2> QED BY <2>1, <2>2 DEF Snapshots
<1>6. Fetching
  <2>1. fetch[f] = [count |-> Asked, list |-> Asked]
    BY <1>2
  <2> QED BY <2>1 DEF Fetching, NoFetch, Asked, Idle
<1> QED BY <1>1, <1>3, <1>4, <1>5, <1>6 DEF Crossing, Shown

LEMMA SyncedStep ==
  TypeOK /\ TypeOK' /\ Order /\ Order' /\ Synced /\ [Next]_vars => Synced'
<1>1. ASSUME TypeOK, Synced, UNCHANGED vars PROVE Synced'
  <2> SUFFICES ASSUME drift' = "none" PROVE Synced'
    BY DEF Synced
  <2>1. /\ UNCHANGED <<row, told, sock, chan, counted, asks, fetch, unread, recent>>
        /\ drift = "none"
    BY <1>1 DEF vars, feedVars, socketVars, serverVars, linkVars, tabVars
  <2>2. ~Crossing
    BY <1>1, <2>1 DEF Synced
  <2>3. ~Crossing'
    BY <2>1, <2>2 DEF Crossing, Syncing, News, NewsIn
  <2> QED BY <1>1, <2>1, <2>3, Unmoved
<1> QED BY <1>1, ServerSynced, FetchSynced, UserSynced, SocketSynced DEF Next

LEMMA SyncedAgrees == TypeOK /\ Order /\ Synced => FeedAgrees
<1> SUFFICES ASSUME TypeOK, Order, Synced, Quiet, drift = "none" PROVE unread = ServerUnread /\ recent = ServerList
  BY DEF FeedAgrees
<1>0. row \in [Notes -> {"none", "unread", "read", "gone"}] /\ recent \in Seq(Items)
  BY DEF TypeOK
<1>1. Showing
  BY NoSnapshot DEF Quiet, Synced, Shown
<1>2. ~ReadAll /\ (\A n \in Notes : View[n] = row[n]) /\ Held(View) = Rows /\ UnreadOf(View) = ServerUnread
  BY CalmView DEF Quiet
<1>3. Lists(recent, Rows) /\ Marks(recent, View) /\ unread = ServerUnread
  BY <1>1, <1>2 DEF Showing
<1>4. View = row
  <2>1. View = [n \in Notes |-> View[n]]
    BY DEF View
  <2> HIDE DEF View
  <2> QED BY <1>0, <1>2, <2>1
<1>5. ServerList \in Seq(Items) /\ Lists(ServerList, Rows) /\ Marks(ServerList, row)
  BY <1>0, ServerListIs
<1>6. Rows \in SUBSET Notes
  BY DEF Rows
<1> QED BY <1>0, <1>3, <1>4, <1>5, <1>6, OneWindow

(* When nothing is on its way the badge is the number of unread rows and    *)
(* the dropdown their newest window, unless one of the causes that drift    *)
(* names has happened since the last reconciliation, for any number of      *)
(* notifications, sockets, refreshes, requests and failures and any length  *)
(* of the dropdown (notification-store.ts, use-notification-actions.ts).    *)
THEOREM FeedAgreesAlways == Spec => []FeedAgrees
<1>1. FeedInit => Order
  BY InitOrder
<1>2. Spec => []Order
  BY <1>1, FeedTypeCorrect, OrderStep, PTL DEF Spec
<1>3. FeedInit /\ TypeOK /\ Order => Synced
  BY InitSynced
<1>4. Spec => []Synced
  BY <1>2, <1>3, FeedTypeCorrect, SyncedStep, PTL DEF Spec
<1> QED BY <1>2, <1>4, FeedTypeCorrect, SyncedAgrees, PTL
=============================================================================
