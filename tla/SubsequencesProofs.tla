------------------------- MODULE SubsequencesProofs -------------------------
(***************************************************************************)
(* What Retain returns, for any sequence and set.  Numbering the places is *)
(* one-to-one and onto, by counting, so each number has a place, and the   *)
(* places increase with the numbers.                                       *)
(***************************************************************************)
EXTENDS Subsequences, Functions, FiniteSetTheorems, TLAPS

(* There are finitely many places, and each has its number.                *)
LEMMA PlacesFinite ==
  ASSUME NEW T, NEW s \in Seq(T), NEW S
  PROVE  /\ IsFiniteSet(Places(s, S)) /\ Cardinality(Places(s, S)) \in Nat
         /\ Places(s, S) \subseteq 1 .. Len(s)
         /\ \A i \in Places(s, S) : UpTo(s, S, i) \in 1 .. Cardinality(Places(s, S))
<1> DEFINE P == Places(s, S)
<1>1. P \subseteq 1 .. Len(s) /\ Len(s) \in Nat
  BY DEF Places
<1>2. IsFiniteSet(P) /\ Cardinality(P) \in Nat
  <2>1. IsFiniteSet(1 .. Len(s))
    BY <1>1, FS_Interval
  <2>2. IsFiniteSet(P)
    BY <1>1, <2>1, FS_Subset
  <2>3. QED
    BY <2>2, FS_CardinalityType
<1> HIDE DEF P
<1>3. ASSUME NEW i \in P
      PROVE  UpTo(s, S, i) \in 1 .. Cardinality(P)
  <2> DEFINE Q == P \cap 1 .. i
  <2>1. IsFiniteSet(Q) /\ Cardinality(Q) \in Nat /\ Cardinality(Q) <= Cardinality(P)
    BY <1>2, FS_Subset, FS_CardinalityType
  <2>2. i \in Q
    BY <1>1
  <2>3. Cardinality(Q) # 0
    BY <2>1, <2>2, FS_EmptySet
  <2> HIDE DEF Q
  <2>4. Cardinality(Q) \in 1 .. Cardinality(P)
    BY <1>2, <2>1, <2>3
  <2>5. QED
    BY <2>4 DEF UpTo, P, Q
<1>4. QED
  BY <1>1, <1>2, <1>3 DEF P

(* A later place has a greater number.                                     *)
LEMMA PlacesOrdered ==
  ASSUME NEW T, NEW s \in Seq(T), NEW S, NEW i \in Places(s, S), NEW j \in Places(s, S), i < j
  PROVE  UpTo(s, S, i) < UpTo(s, S, j)
<1> DEFINE Q == Places(s, S) \cap 1 .. i
           R == Places(s, S) \cap 1 .. j
<1>1. IsFiniteSet(R) /\ IsFiniteSet(Q)
  BY PlacesFinite, FS_Intersection
<1>2. Cardinality(R) \in Nat /\ Cardinality(Q) \in Nat
  BY <1>1, FS_CardinalityType
<1>3. Q \subseteq R /\ j \in R /\ j \notin Q
  BY PlacesFinite
<1> HIDE DEF Q, R
<1>4. Cardinality(Q) <= Cardinality(R) /\ Cardinality(R) # Cardinality(Q)
  BY <1>1, <1>3, FS_Subset
<1>5. QED
  BY <1>2, <1>4 DEF UpTo, Q, R

(* What is retained stood at increasing places, all there are.             *)
LEMMA RetainPlaces ==
  ASSUME NEW T, NEW s \in Seq(T), NEW S
  PROVE  \E place \in [1 .. Len(Retain(s, S)) -> Places(s, S)] :
           /\ \A k \in 1 .. Len(Retain(s, S)) : Retain(s, S)[k] = s[place[k]]
           /\ \A j, k \in 1 .. Len(Retain(s, S)) : j < k => place[j] < place[k]
           /\ \A i \in Places(s, S) : \E k \in 1 .. Len(Retain(s, S)) : place[k] = i
<1> DEFINE P == Places(s, S)
           n == Cardinality(P)
           rank == [i \in P |-> UpTo(s, S, i)]
           place == [k \in 1 .. n |-> CHOOSE i \in P : UpTo(s, S, i) = k]
<1>0. IsFiniteSet(P) /\ n \in Nat /\ P \subseteq 1 .. Len(s) /\ Len(s) \in Nat
  BY PlacesFinite
<1>1. Len(Retain(s, S)) = n /\ \A k \in 1 .. n : Retain(s, S)[k] = s[place[k]]
  BY <1>0 DEF Retain
<1>2. rank \in Injection(P, 1 .. n)
  <2>1. rank \in [P -> 1 .. n]
    BY PlacesFinite
  <2>2. ASSUME NEW i \in P, NEW j \in P, i # j PROVE rank[i] # rank[j]
    <3>1. i < j \/ j < i
      BY <1>0, <2>2
    <3>2. UpTo(s, S, i) \in Nat /\ UpTo(s, S, j) \in Nat
      BY <1>0, PlacesFinite
    <3>3. UpTo(s, S, i) # UpTo(s, S, j)
      BY <3>1, <3>2, PlacesOrdered
    <3>4. QED
      BY <3>3
  <2>3. QED
    BY <2>1, <2>2 DEF Injection, IsInjective
<1>3. rank \in Surjection(P, 1 .. n)
  <2>1. IsFiniteSet(1 .. n) /\ Cardinality(1 .. n) = n
    BY <1>0, FS_Interval
  <2>2. QED
    BY <1>2, <2>1, FS_Injection
<1>4. \A k \in 1 .. n : \E i \in P : UpTo(s, S, i) = k
  BY <1>3 DEF Surjection
<1>5. \A k \in 1 .. n : place[k] \in P /\ UpTo(s, S, place[k]) = k
  BY <1>4
<1> HIDE DEF place
<1>6. \A j, k \in 1 .. n : j < k => place[j] < place[k]
  <2> SUFFICES ASSUME NEW j \in 1 .. n, NEW k \in 1 .. n, j < k PROVE place[j] < place[k]
    OBVIOUS
  <2>1. place[j] \in P /\ place[k] \in P /\ place[j] \in Nat /\ place[k] \in Nat
    BY <1>0, <1>5
  <2>2. place[j] # place[k]
    BY <1>5
  <2>3. ~(place[k] < place[j])
    BY <1>5, <2>1, PlacesOrdered
  <2>4. QED
    BY <2>1, <2>2, <2>3
<1>7. \A i \in P : \E k \in 1 .. n : place[k] = i
  <2> SUFFICES ASSUME NEW i \in P PROVE \E k \in 1 .. n : place[k] = i
    OBVIOUS
  <2> DEFINE k == UpTo(s, S, i)
  <2>1. k \in 1 .. n
    BY PlacesFinite
  <2>2. place[k] \in P /\ UpTo(s, S, place[k]) = k
    BY <1>5, <2>1
  <2>3. place[k] = i
    <3>1. place[k] \in Nat /\ i \in Nat
      BY <1>0, <2>2
    <3>2. ~(place[k] < i) /\ ~(i < place[k])
      BY <2>1, <2>2, PlacesOrdered
    <3>3. QED
      BY <3>1, <3>2
  <2>4. QED
    BY <2>1, <2>3
<1>8. place \in [1 .. n -> P]
  BY <1>5 DEF place
<1> HIDE DEF n, P
<1>9. QED
  BY <1>1, <1>6, <1>7, <1>8 DEF P

(* It is a sequence of elements of the set, and misses none that was       *)
(* there.                                                                  *)
LEMMA RetainType ==
  ASSUME NEW T, NEW s \in Seq(T), NEW S
  PROVE  /\ Retain(s, S) \in Seq(T)
         /\ \A k \in 1 .. Len(Retain(s, S)) : Retain(s, S)[k] \in S
         /\ \A i \in 1 .. Len(s) :
              s[i] \in S => \E k \in 1 .. Len(Retain(s, S)) : Retain(s, S)[k] = s[i]
<1> DEFINE t == Retain(s, S)
<1>1. PICK place \in [1 .. Len(t) -> Places(s, S)] :
        /\ \A k \in 1 .. Len(t) : t[k] = s[place[k]]
        /\ \A i \in Places(s, S) : \E k \in 1 .. Len(t) : place[k] = i
  BY RetainPlaces
<1>2. \A k \in 1 .. Len(t) : t[k] \in T /\ t[k] \in S
  BY <1>1, PlacesFinite DEF Places
<1>3. t = [k \in 1 .. Len(t) |-> t[k]] /\ Len(t) \in Nat
  BY PlacesFinite DEF Retain
<1>4. \A i \in 1 .. Len(s) : s[i] \in S => \E k \in 1 .. Len(t) : t[k] = s[i]
  BY <1>1 DEF Places
<1> HIDE DEF t
<1>5. t \in Seq(T)
  BY <1>2, <1>3
<1>6. QED
  BY <1>2, <1>4, <1>5 DEF t

(* If no element stood twice, none is retained twice.                      *)
LEMMA RetainOnce ==
  ASSUME NEW T, NEW s \in Seq(T), NEW S,
         \A i, j \in 1 .. Len(s) : s[i] = s[j] => i = j
  PROVE  \A j, k \in 1 .. Len(Retain(s, S)) : Retain(s, S)[j] = Retain(s, S)[k] => j = k
<1> DEFINE t == Retain(s, S)
<1>1. PICK place \in [1 .. Len(t) -> Places(s, S)] :
        /\ \A k \in 1 .. Len(t) : t[k] = s[place[k]]
        /\ \A j, k \in 1 .. Len(t) : j < k => place[j] < place[k]
  BY RetainPlaces
<1>2. Len(t) \in Nat
  BY PlacesFinite DEF Retain
<1> HIDE DEF t
<1>3. SUFFICES ASSUME NEW j \in 1 .. Len(t), NEW k \in 1 .. Len(t), t[j] = t[k] PROVE j = k
  BY DEF t
<1>4. place[j] = place[k] /\ place[j] \in Nat
  BY <1>1, <1>3, PlacesFinite
<1>5. QED
  BY <1>1, <1>2, <1>4
=============================================================================
