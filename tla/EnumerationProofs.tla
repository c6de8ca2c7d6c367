-------------------------- MODULE EnumerationProofs --------------------------
(* What Enumerated and Part return, over any finite set and any strict total *)
(* order on it, and the least element of a set of naturals, on which proofs  *)
(* by induction rest elsewhere.                                              *)
EXTENDS Enumerations, FiniteSetTheorems, WellFoundedInduction, TLAPS

(* Every set of naturals has a least element: of the intervals 0 .. n - 1,   *)
(* one is minimal under inclusion.                                           *)
LEMMA Least ==
    ASSUME NEW T, T \subseteq Nat, T # {}
    PROVE  \E x \in T : \A y \in T : x <= y
<1> DEFINE F == {0 .. (n - 1) : n \in T}
<1>1. F \subseteq FiniteSubsetsOf(Nat)
  <2> SUFFICES ASSUME NEW n \in T PROVE 0 .. (n - 1) \in FiniteSubsetsOf(Nat)
    OBVIOUS
  <2>1. IsFiniteSet(0 .. (n - 1))
    BY FS_Interval
  <2> QED
    BY <2>1 DEF FiniteSubsetsOf
<1>2. F # {}
  OBVIOUS
<1>3. IsWellFoundedOn(StrictSubsetOrdering(Nat), FiniteSubsetsOf(Nat))
  BY FS_StrictSubsetOrderingWellFounded
<1> HIDE DEF F
<1>4. \E x \in F : \A y \in F : ~ (<<y, x>> \in StrictSubsetOrdering(Nat))
  BY <1>1, <1>2, <1>3, WFMin
<1>5. PICK n \in T : \A y \in F : ~ (<<y, 0 .. (n - 1)>> \in StrictSubsetOrdering(Nat))
  BY <1>4 DEF F
<1>6. ASSUME NEW m \in T PROVE n <= m
  <2> SUFFICES ASSUME m < n PROVE FALSE
    OBVIOUS
  <2>1. 0 .. (m - 1) \in F
    BY DEF F
  <2>2. /\ 0 .. (m - 1) \subseteq 0 .. (n - 1)
        /\ m \in 0 .. (n - 1)
        /\ m \notin 0 .. (m - 1)
    OBVIOUS
  <2>3. 0 .. (m - 1) \in SUBSET Nat /\ 0 .. (n - 1) \in SUBSET Nat
    OBVIOUS
  <2>4. <<0 .. (m - 1), 0 .. (n - 1)>> \in StrictSubsetOrdering(Nat)
    BY <2>2, <2>3 DEF StrictSubsetOrdering
  <2> QED
    BY <1>5, <2>1, <2>4
<1> QED
  BY <1>6
-----------------------------------------------------------------------------
Orders(R, S) ==
    /\ \A i \in S : <<i, i>> \notin R
    /\ \A i, j, k \in S : <<i, j>> \in R /\ <<j, k>> \in R => <<i, k>> \in R
    /\ \A i, j \in S : i # j => <<i, j>> \in R \/ <<j, i>> \in R

(* The elements of a finite set have the ranks 0 .. n - 1, each has one and  *)
(* the order of the ranks is theirs.                                         *)
LEMMA Ranks ==
    ASSUME NEW S, NEW R, IsFiniteSet(S), Orders(R, S)
    PROVE  /\ Cardinality(S) \in Nat
           /\ \A i \in S : Cardinality(Before(S, R, i)) \in 0 .. (Cardinality(S) - 1)
           /\ \A i, j \in S : <<i, j>> \in R <=>
                  Cardinality(Before(S, R, i)) < Cardinality(Before(S, R, j))
           /\ \A i, j \in S :
                  Cardinality(Before(S, R, i)) = Cardinality(Before(S, R, j)) => i = j
           /\ \A k \in 0 .. (Cardinality(S) - 1) :
                  \E i \in S : Cardinality(Before(S, R, i)) = k
<1> DEFINE n == Cardinality(S)
           rank == [i \in S |-> Cardinality(Before(S, R, i))]
<1>1. n \in Nat
  BY FS_CardinalityType
<1>2. ASSUME NEW i \in S
      PROVE  IsFiniteSet(Before(S, R, i)) /\ Cardinality(Before(S, R, i)) \in 0 .. (n - 1)
  <2>1. Before(S, R, i) \in SUBSET S /\ i \notin Before(S, R, i)
    BY DEF Before, Orders
  <2>2. /\ IsFiniteSet(Before(S, R, i))
        /\ Cardinality(Before(S, R, i)) <= n
        /\ Cardinality(S) = Cardinality(Before(S, R, i)) => S = Before(S, R, i)
    BY <2>1, FS_Subset
  <2>3. Cardinality(Before(S, R, i)) \in Nat
    BY <2>2, FS_CardinalityType
  <2> QED
    BY <1>1, <2>1, <2>2, <2>3
<1>3. ASSUME NEW i \in S, NEW j \in S, <<i, j>> \in R
      PROVE  Cardinality(Before(S, R, i)) < Cardinality(Before(S, R, j))
  <2>1. /\ Before(S, R, i) \in SUBSET Before(S, R, j)
        /\ i \in Before(S, R, j) /\ i \notin Before(S, R, i)
    BY <1>3 DEF Before, Orders
  <2>2. /\ Cardinality(Before(S, R, i)) <= Cardinality(Before(S, R, j))
        /\ Cardinality(Before(S, R, j)) = Cardinality(Before(S, R, i)) =>
               Before(S, R, j) = Before(S, R, i)
    BY <2>1, <1>2, FS_Subset
  <2> QED
    BY <2>1, <2>2, <1>1, <1>2
<1>4. \A i, j \in S :
          Cardinality(Before(S, R, i)) = Cardinality(Before(S, R, j)) => i = j
  <2> SUFFICES ASSUME NEW i \in S, NEW j \in S, i # j
               PROVE  Cardinality(Before(S, R, i)) # Cardinality(Before(S, R, j))
    OBVIOUS
  <2>1. <<i, j>> \in R \/ <<j, i>> \in R
    BY DEF Orders
  <2>2. Cardinality(Before(S, R, i)) \in Int /\ Cardinality(Before(S, R, j)) \in Int
    BY <1>1, <1>2
  <2>3. CASE <<i, j>> \in R
    <3>1. Cardinality(Before(S, R, i)) < Cardinality(Before(S, R, j))
      BY <1>3, <2>3
    <3> QED
      BY <3>1, <2>2
  <2>4. CASE <<j, i>> \in R
    <3>1. Cardinality(Before(S, R, j)) < Cardinality(Before(S, R, i))
      BY <1>3, <2>4
    <3> QED
      BY <3>1, <2>2
  <2> QED
    BY <2>1, <2>3, <2>4
<1>5. \A i, j \in S : <<i, j>> \in R <=>
          Cardinality(Before(S, R, i)) < Cardinality(Before(S, R, j))
  <2> SUFFICES ASSUME NEW i \in S, NEW j \in S,
                      Cardinality(Before(S, R, i)) < Cardinality(Before(S, R, j))
               PROVE  <<i, j>> \in R
    BY <1>3
  <2>1. Cardinality(Before(S, R, i)) \in Int /\ Cardinality(Before(S, R, j)) \in Int
    BY <1>1, <1>2
  <2>2. i # j
    BY <2>1
  <2>3. <<j, i>> \notin R
    <3> SUFFICES ASSUME <<j, i>> \in R PROVE FALSE
      OBVIOUS
    <3>1. Cardinality(Before(S, R, j)) < Cardinality(Before(S, R, i))
      BY <1>3
    <3> QED
      BY <3>1, <2>1
  <2> QED
    BY <2>2, <2>3 DEF Orders
<1>6. \A k \in 0 .. (n - 1) : \E i \in S : Cardinality(Before(S, R, i)) = k
  <2>1. rank \in Injection(S, 0 .. (n - 1))
    BY <1>2, <1>4 DEF Injection, IsInjective
  <2>2. IsFiniteSet(0 .. (n - 1)) /\ Cardinality(0 .. (n - 1)) = n
    BY <1>1, FS_Interval, SMTT(30)
  <2>3. rank \in Surjection(S, 0 .. (n - 1))
    BY <2>1, <2>2, FS_Injection
  <2> QED
    BY <2>3 DEF Surjection
<1> QED
  BY <1>1, <1>2, <1>4, <1>5, <1>6

(* Enumerated lists every element once, in the order of the relation.        *)
LEMMA EnumeratedIs ==
    ASSUME NEW S, NEW R, IsFiniteSet(S), Orders(R, S)
    PROVE  LET at == Enumerated(S, R) IN
           /\ Cardinality(S) \in Nat
           /\ at \in [1 .. Cardinality(S) -> S]
           /\ \A i \in S : \E k \in DOMAIN at : at[k] = i
           /\ \A k, l \in DOMAIN at : <<at[k], at[l]>> \in R <=> k < l
           /\ \A k \in DOMAIN at : \A i \in S :
                  at[k] = i <=> Cardinality(Before(S, R, i)) = k - 1
<1> DEFINE at == Enumerated(S, R)
           n == Cardinality(S)
           rank(i) == Cardinality(Before(S, R, i))
<1>1. /\ n \in Nat
      /\ \A i \in S : rank(i) \in 0 .. (n - 1)
      /\ \A i, j \in S : <<i, j>> \in R <=> rank(i) < rank(j)
      /\ \A i, j \in S : rank(i) = rank(j) => i = j
      /\ \A k \in 0 .. (n - 1) : \E i \in S : rank(i) = k
  BY Ranks
<1>2. at = [k \in 1 .. n |-> CHOOSE i \in S : rank(i) = k - 1]
  BY DEF Enumerated
<1> HIDE DEF at, n, rank
<1>3. \A k \in 1 .. n : at[k] \in S /\ rank(at[k]) = k - 1
  BY <1>1, <1>2
<1>4. \A k \in 1 .. n : \A i \in S : at[k] = i <=> rank(i) = k - 1
  BY <1>1, <1>3
<1>5. \A i \in S : \E k \in 1 .. n : at[k] = i
  <2> TAKE i \in S
  <2>1. rank(i) + 1 \in 1 .. n /\ rank(i) = (rank(i) + 1) - 1
    BY <1>1
  <2> QED
    BY <2>1, <1>4
<1>6. \A k, l \in 1 .. n : <<at[k], at[l]>> \in R <=> k < l
  <2> TAKE k, l \in 1 .. n
  <2>1. at[k] \in S /\ at[l] \in S /\ rank(at[k]) = k - 1 /\ rank(at[l]) = l - 1
    BY <1>3
  <2>2. <<at[k], at[l]>> \in R <=> k - 1 < l - 1
    BY <2>1, <1>1
  <2> QED
    BY <2>2, <1>1
<1>7. at \in [1 .. n -> S] /\ DOMAIN at = 1 .. n
  BY <1>2, <1>3
<1> QED
  BY <1>1, <1>4, <1>5, <1>6, <1>7 DEF at, n, rank

(* A renaming that keeps the order keeps the enumeration.                    *)
LEMMA EnumeratedRenamed ==
    ASSUME NEW S, NEW R, IsFiniteSet(S), Orders(R, S),
           NEW T, NEW Q, NEW b \in Bijection(S, T),
           \A i, j \in S : <<i, j>> \in R <=> <<b[i], b[j]>> \in Q
    PROVE  /\ Cardinality(T) = Cardinality(S)
           /\ \A k \in 1 .. Cardinality(S) :
                  Enumerated(T, Q)[k] = b[Enumerated(S, R)[k]]
<1>1. b \in [S -> T] /\ (\A t \in T : \E s \in S : b[s] = t)
      /\ \A i, j \in S : b[i] = b[j] => i = j
  BY DEF Bijection, Injection, Surjection, IsInjective
<1>2. IsFiniteSet(T) /\ Cardinality(T) = Cardinality(S)
  BY FS_Bijection DEF ExistsBijection
<1>3. Orders(Q, T)
  <2>1. \A i \in T : <<i, i>> \notin Q
    BY <1>1 DEF Orders
  <2>2. \A i, j, k \in T : <<i, j>> \in Q /\ <<j, k>> \in Q => <<i, k>> \in Q
    <3> TAKE i, j, k \in T
    <3>1. PICK x \in S, y \in S, z \in S : b[x] = i /\ b[y] = j /\ b[z] = k
      BY <1>1
    <3> QED
      BY <3>1 DEF Orders
  <2>3. \A i, j \in T : i # j => <<i, j>> \in Q \/ <<j, i>> \in Q
    <3> TAKE i, j \in T
    <3>1. PICK x \in S, y \in S : b[x] = i /\ b[y] = j
      BY <1>1
    <3> QED
      BY <3>1 DEF Orders
  <2> QED
    BY <2>1, <2>2, <2>3 DEF Orders
<1>4. ASSUME NEW i \in S
      PROVE  Cardinality(Before(T, Q, b[i])) = Cardinality(Before(S, R, i))
  <2> DEFINE B == Before(S, R, i)
             C == Before(T, Q, b[i])
             c == [s \in B |-> b[s]]
  <2>1. IsFiniteSet(B)
    BY FS_Subset DEF Before
  <2>2. c \in [B -> C]
    BY <1>1 DEF Before
  <2>3. \A x, y \in B : c[x] = c[y] => x = y
    BY <1>1 DEF Before
  <2>4. \A t \in C : \E s \in B : c[s] = t
    BY <1>1 DEF Before
  <2>5. c \in Bijection(B, C)
    BY <2>2, <2>3, <2>4 DEF Bijection, Injection, Surjection, IsInjective
  <2> QED
    BY <2>1, <2>5, FS_Bijection DEF ExistsBijection
<1>5. ASSUME NEW k \in 1 .. Cardinality(S)
      PROVE  Enumerated(T, Q)[k] = b[Enumerated(S, R)[k]]
  <2> DEFINE a == Enumerated(S, R)[k]
  <2>1. a \in S /\ Cardinality(Before(S, R, a)) = k - 1
    BY EnumeratedIs
  <2>2. b[a] \in T /\ Cardinality(Before(T, Q, b[a])) = k - 1
    BY <1>1, <1>4, <2>1
  <2> HIDE DEF a
  <2>3. Enumerated(T, Q)[k] = b[a]
    BY <1>2, <1>3, <2>2, EnumeratedIs
  <2> QED
    BY <2>3 DEF a
<1> QED
  BY <1>2, <1>5
-----------------------------------------------------------------------------
LEMMA AscendingOrders ==
    ASSUME NEW P, P \subseteq Int
    PROVE  Orders(Ascending(P), P) /\ \A i, j \in P : <<i, j>> \in Ascending(P) <=> i < j
<1>1. \A i, j \in P : <<i, j>> \in Ascending(P) <=> i < j
  BY DEF Ascending
<1> QED
  BY <1>1 DEF Orders

(* Part keeps the elements at some positions of a sequence, in their order.  *)
LEMMA PartIs ==
    ASSUME NEW A, NEW s \in Seq(A), NEW P \in SUBSET (DOMAIN s)
    PROVE  \E at \in [1 .. Len(Part(s, P)) -> P] :
               /\ Part(s, P) \in Seq(A)
               /\ \A k \in DOMAIN Part(s, P) : Part(s, P)[k] = s[at[k]]
               /\ \A k, l \in DOMAIN Part(s, P) : k < l <=> at[k] < at[l]
               /\ \A i \in P : \E k \in DOMAIN Part(s, P) : at[k] = i
<1> DEFINE at == Enumerated(P, Ascending(P))
           n == Cardinality(P)
<1>1. IsFiniteSet(P) /\ P \subseteq Int
  BY FS_Interval, FS_Subset
<1>2. /\ n \in Nat
      /\ at \in [1 .. n -> P]
      /\ \A i \in P : \E k \in DOMAIN at : at[k] = i
      /\ \A k, l \in DOMAIN at : <<at[k], at[l]>> \in Ascending(P) <=> k < l
  BY <1>1, AscendingOrders, EnumeratedIs
<1>3. \A i, j \in P : <<i, j>> \in Ascending(P) <=> i < j
  BY <1>1, AscendingOrders
<1>4. Part(s, P) = [k \in DOMAIN at |-> s[at[k]]]
  BY DEF Part
<1> HIDE DEF at, n
<1>5. DOMAIN at = 1 .. n
  BY <1>2
<1>6. Part(s, P) \in Seq(A) /\ Len(Part(s, P)) = n /\ DOMAIN Part(s, P) = 1 .. n
  BY <1>2, <1>4, <1>5
<1>7. \A k, l \in 1 .. n : k < l <=> at[k] < at[l]
  BY <1>2, <1>3, <1>5
<1> QED
  BY <1>2, <1>4, <1>5, <1>6, <1>7
=============================================================================
