----------------------------- MODULE LaneProofs -----------------------------
(***************************************************************************)
(* Theorems about Lane, for any members, tasks, requests and moves.        *)
(***************************************************************************)
EXTENDS Lane, FiniteSetTheorems, SequenceTheorems, TLAPS

(* The rank of an element counts it and those below; ranks are 1..|P|, so  *)
(* the k-th smallest element exists.                                       *)
LEMMA NthMember ==
  ASSUME NEW n \in Nat, NEW P \in SUBSET (1..n), NEW k \in 1..Cardinality(P)
  PROVE  /\ Nth(P, k) \in P
         /\ Cardinality({ j \in P : j <= Nth(P, k) }) = k
<1> DEFINE Below(i) == { j \in P : j <= i }
           rank == [i \in P |-> Cardinality(Below(i))]
<1>1. IsFiniteSet(P) /\ Cardinality(P) \in Nat
  <2>1. IsFiniteSet(1..n)
    BY FS_Interval
  <2> QED
    BY <2>1, FS_Subset, FS_CardinalityType
<1>2. \A i \in P : IsFiniteSet(Below(i)) /\ Cardinality(Below(i)) \in 1..Cardinality(P)
  <2> TAKE i \in P
  <2>1. Below(i) \in SUBSET P
    OBVIOUS
  <2>2. IsFiniteSet(Below(i)) /\ Cardinality(Below(i)) <= Cardinality(P)
    BY <1>1, <2>1, FS_Subset
  <2>3. i \in Below(i)
    OBVIOUS
  <2>4. Cardinality(Below(i)) \in Nat /\ Cardinality(Below(i)) # 0
    BY <2>2, <2>3, FS_CardinalityType, FS_EmptySet
  <2> QED
    BY <1>1, <2>2, <2>4
<1>3. ASSUME NEW i \in P, NEW j \in P, i < j
      PROVE  Cardinality(Below(i)) # Cardinality(Below(j))
  <2>1. Below(i) \in SUBSET Below(j)
    <3> SUFFICES ASSUME NEW m \in P, m <= i
                 PROVE  m <= j
      OBVIOUS
    <3>1. m \in Int /\ i \in Int /\ j \in Int
      OBVIOUS
    <3> QED
      BY <1>3, <3>1
  <2>2. j \in Below(j) /\ j \notin Below(i)
    BY <1>3
  <2> QED
    BY <1>2, <2>1, <2>2, FS_Subset
<1>4. rank \in Injection(P, 1..Cardinality(P))
  <2>1. rank \in [P -> 1..Cardinality(P)]
    BY <1>2
  <2>2. \A i, j \in P : rank[i] = rank[j] => i = j
    <3> SUFFICES ASSUME NEW i \in P, NEW j \in P, i # j
                 PROVE  rank[i] # rank[j]
      OBVIOUS
    <3>1. CASE i < j
      BY <1>3, <3>1
    <3>2. CASE j < i
      BY <1>3, <3>2
    <3> QED
      BY <3>1, <3>2
  <2> QED
    BY <2>1, <2>2 DEF Injection, IsInjective
<1>5. rank \in Surjection(P, 1..Cardinality(P))
  <2>1. IsFiniteSet(1..Cardinality(P)) /\ Cardinality(1..Cardinality(P)) = Cardinality(P)
    BY <1>1, FS_Interval
  <2> QED
    BY <1>4, <2>1, FS_Injection
<1>6. \E i \in P : Cardinality(Below(i)) = k
  BY <1>5 DEF Surjection
<1> QED
  BY <1>6 DEF Nth

(* Later elements of the enumeration are larger, and every element of P is *)
(* in it.                                                                  *)
LEMMA NthEnumerates ==
  ASSUME NEW n \in Nat, NEW P \in SUBSET (1..n)
  PROVE  /\ Cardinality(P) \in Nat
         /\ \A k \in 1..Cardinality(P) : Nth(P, k) \in P
         /\ \A k, m \in 1..Cardinality(P) : Nth(P, k) = Nth(P, m) => k = m
         /\ \A i \in P : \E k \in 1..Cardinality(P) : Nth(P, k) = i
<1>1. IsFiniteSet(P) /\ Cardinality(P) \in Nat
  <2>1. IsFiniteSet(1..n)
    BY FS_Interval
  <2> QED
    BY <2>1, FS_Subset, FS_CardinalityType
<1>2. \A k \in 1..Cardinality(P) : Nth(P, k) \in P
  BY NthMember
<1>3. \A k, m \in 1..Cardinality(P) : Nth(P, k) = Nth(P, m) => k = m
  <2> SUFFICES ASSUME NEW k \in 1..Cardinality(P), NEW m \in 1..Cardinality(P),
                      Nth(P, k) = Nth(P, m)
               PROVE  k = m
    OBVIOUS
  <2>1. Cardinality({ j \in P : j <= Nth(P, k) }) = k
    BY NthMember
  <2>2. Cardinality({ j \in P : j <= Nth(P, m) }) = m
    BY NthMember
  <2> QED
    BY <2>1, <2>2
<1>4. \A i \in P : \E k \in 1..Cardinality(P) : Nth(P, k) = i
  <2> DEFINE nth == [k \in 1..Cardinality(P) |-> Nth(P, k)]
  <2>1. nth \in Injection(1..Cardinality(P), P)
    <3>1. nth \in [1..Cardinality(P) -> P]
      BY <1>2
    <3>2. \A k, m \in 1..Cardinality(P) : nth[k] = nth[m] => k = m
      BY <1>3
    <3> QED
      BY <3>1, <3>2 DEF Injection, IsInjective
  <2>2. Cardinality(1..Cardinality(P)) = Cardinality(P)
    BY <1>1, FS_Interval
  <2>3. nth \in Surjection(1..Cardinality(P), P)
    BY <1>1, <2>1, <2>2, FS_Injection
  <2> QED
    BY <2>3 DEF Surjection
<1> QED
  BY <1>1, <1>2, <1>3, <1>4

(* Later elements of the enumeration are larger.                           *)
LEMMA NthRises ==
  ASSUME NEW n \in Nat, NEW P \in SUBSET (1..n),
         NEW k \in 1..Cardinality(P), NEW m \in 1..Cardinality(P), k < m
  PROVE  Nth(P, k) < Nth(P, m)
<1> DEFINE a == Nth(P, k)
           b == Nth(P, m)
           A == { j \in P : j <= a }
           B == { j \in P : j <= b }
<1>1. a \in P /\ b \in P /\ Cardinality(A) = k /\ Cardinality(B) = m
  BY NthMember
<1>2. IsFiniteSet(A)
  <2>1. IsFiniteSet(1..n)
    BY FS_Interval
  <2>2. A \subseteq 1..n
    OBVIOUS
  <2> QED BY <2>1, <2>2, FS_Subset
<1> SUFFICES ASSUME ~(a < b) PROVE FALSE
  OBVIOUS
<1>3. B \subseteq A
  <2> SUFFICES ASSUME NEW j \in P, j <= b PROVE j <= a
    OBVIOUS
  <2>1. \A i \in P : i \in Int
    OBVIOUS
  <2>2. a \in P /\ b \in P
    BY <1>1
  <2> HIDE DEF a, b
  <2>3. j \in Int /\ a \in Int /\ b \in Int
    BY <2>1, <2>2
  <2> QED BY <2>3
<1> HIDE DEF a, b, A, B
<1>4. Cardinality(B) <= Cardinality(A)
  BY <1>2, <1>3, FS_Subset
<1>5. Cardinality(P) \in Nat
  BY NthEnumerates
<1> QED BY <1>1, <1>4, <1>5

(* What is picked from a sequence: what it holds at those places, in its   *)
(* order.                                                                  *)
LEMMA PickedProperties ==
  ASSUME NEW S, NEW s \in Seq(S), NEW P \in SUBSET (1..Len(s))
  PROVE  /\ Picked(s, P) \in Seq(S) /\ Cardinality(P) \in Nat
         /\ Len(Picked(s, P)) = Cardinality(P) /\ DOMAIN Picked(s, P) = 1..Cardinality(P)
         /\ \A k \in 1..Cardinality(P) : Nth(P, k) \in P /\ Picked(s, P)[k] = s[Nth(P, k)]
         /\ \A k, m \in 1..Cardinality(P) : k < m => Nth(P, k) < Nth(P, m)
         /\ ToSet(Picked(s, P)) = { s[i] : i \in P }
<1> DEFINE p == Picked(s, P)
<1>1. Len(s) \in Nat /\ DOMAIN s = 1..Len(s)
  BY LenProperties
<1>2. /\ Cardinality(P) \in Nat
      /\ \A k \in 1..Cardinality(P) : Nth(P, k) \in P
      /\ \A i \in P : \E k \in 1..Cardinality(P) : Nth(P, k) = i
  BY <1>1, NthEnumerates
<1>3. p = [k \in 1..Cardinality(P) |-> s[Nth(P, k)]]
  BY DEF Picked
<1> HIDE DEF p
<1>4. \A i \in P : s[i] \in S
  BY ElementOfSeq
<1>5. p \in [1..Cardinality(P) -> S]
  BY <1>2, <1>3, <1>4
<1>6. p \in Seq(S)
  BY <1>2, <1>5, SeqDef
<1>7. Len(p) = Cardinality(P) /\ DOMAIN p = 1..Cardinality(P)
  <2>1. DOMAIN p = 1..Cardinality(P) /\ DOMAIN p = 1..Len(p) /\ Len(p) \in Nat
    BY <1>5, <1>6, LenProperties
  <2> QED BY <1>2, <2>1
<1>8. \A k \in 1..Cardinality(P) : p[k] = s[Nth(P, k)]
  BY <1>3
<1>9. \A k, m \in 1..Cardinality(P) : k < m => Nth(P, k) < Nth(P, m)
  BY <1>1, NthRises
<1>10. ToSet(p) = { s[i] : i \in P }
  <2>1. ASSUME NEW x \in ToSet(p) PROVE x \in { s[i] : i \in P }
    <3>1. PICK k \in 1..Cardinality(P) : x = p[k]
      BY <1>7 DEF ToSet
    <3> QED BY <1>2, <1>8, <3>1
  <2>2. ASSUME NEW i \in P PROVE s[i] \in ToSet(p)
    <3>1. PICK k \in 1..Cardinality(P) : Nth(P, k) = i
      BY <1>2
    <3> QED BY <1>7, <1>8, <3>1 DEF ToSet
  <2> QED BY <2>1, <2>2
<1> QED BY <1>2, <1>6, <1>7, <1>8, <1>9, <1>10 DEF p

-----------------------------------------------------------------------------
(* Logs.                                                                   *)
NoTwice(s) == \A i, j \in DOMAIN s : s[i] = s[j] => i = j

UpTo(s, i) == { s[j] : j \in 1..i }

LEMMA SeqFacts ==
  ASSUME NEW S, NEW s \in Seq(S)
  PROVE  /\ Len(s) \in Nat /\ DOMAIN s = 1..Len(s)
         /\ \A i \in 1..Len(s) : s[i] \in S /\ s[i] \in ToSet(s)
         /\ \A x \in ToSet(s) : x \in S /\ \E i \in 1..Len(s) : s[i] = x
         /\ s # << >> => Len(s) \in 1..Len(s)
<1>1. Len(s) \in Nat /\ DOMAIN s = 1..Len(s)
  BY LenProperties
<1>2. \A i \in 1..Len(s) : s[i] \in S
  BY ElementOfSeq
<1>3. s # << >> => Len(s) \in Nat \ {0}
  BY EmptySeq
<1> QED BY <1>1, <1>2, <1>3 DEF ToSet

(* A stretch of a log.                                                     *)
LEMMA StretchFacts ==
  ASSUME NEW S, NEW s \in Seq(S), NEW k \in Nat, NEW l \in Nat, k <= l, l <= Len(s)
  PROVE  /\ SubSeq(s, k + 1, l) \in Seq(S) /\ Len(SubSeq(s, k + 1, l)) = l - k
         /\ DOMAIN SubSeq(s, k + 1, l) = 1..(l - k)
         /\ \A i \in 1..(l - k) : SubSeq(s, k + 1, l)[i] = s[k + i]
         /\ ToSet(SubSeq(s, k + 1, l)) = { s[i] : i \in (k + 1)..l }
<1>1. Len(s) \in Nat /\ \A i \in (k + 1)..l : s[i] \in S
  BY SeqFacts
<1> DEFINE b == SubSeq(s, k + 1, l)
<1>2. /\ b \in Seq(S) /\ Len(b) = IF k + 1 <= l THEN l - (k + 1) + 1 ELSE 0
      /\ \A i \in 1..(l - (k + 1) + 1) : b[i] = s[(k + 1) + i - 1]
  <2>1. k + 1 \in Int /\ l \in Int
    OBVIOUS
  <2> HIDE DEF b
  <2> QED BY <1>1, <2>1, SubSeqProperties DEF b
<1> HIDE DEF b
<1>3. Len(b) = l - k
  BY <1>2
<1>4. DOMAIN b = 1..(l - k)
  BY <1>2, <1>3, LenProperties
<1>5. ASSUME NEW i \in 1..(l - k) PROVE b[i] = s[k + i]
  <2>1. i \in 1..(l - (k + 1) + 1) /\ (k + 1) + i - 1 = k + i
    OBVIOUS
  <2> QED BY <1>2, <2>1
<1>6. ToSet(b) = { s[i] : i \in (k + 1)..l }
  <2>1. ASSUME NEW x \in ToSet(b) PROVE x \in { s[i] : i \in (k + 1)..l }
    <3>1. PICK i \in 1..(l - k) : x = b[i]
      BY <1>4 DEF ToSet
    <3>2. k + i \in (k + 1)..l
      OBVIOUS
    <3> QED BY <1>5, <3>1, <3>2
  <2>2. ASSUME NEW i \in (k + 1)..l PROVE s[i] \in ToSet(b)
    <3>1. i - k \in 1..(l - k) /\ k + (i - k) = i
      OBVIOUS
    <3>2. b[i - k] = s[i]
      BY <1>5, <3>1
    <3> QED BY <1>4, <3>1, <3>2 DEF ToSet
  <2> QED BY <2>1, <2>2
<1> QED BY <1>2, <1>3, <1>4, <1>5, <1>6 DEF b

LEMMA PrefixFacts ==
  ASSUME NEW S, NEW s \in Seq(S), NEW l \in 0..Len(s)
  PROVE  /\ SubSeq(s, 1, l) \in Seq(S) /\ Len(SubSeq(s, 1, l)) = l /\ DOMAIN SubSeq(s, 1, l) = 1..l
         /\ \A i \in 1..l : SubSeq(s, 1, l)[i] = s[i]
         /\ ToSet(SubSeq(s, 1, l)) = UpTo(s, l)
<1>1. Len(s) \in Nat /\ l \in Nat /\ l <= Len(s) /\ 0 \in Nat /\ 0 <= l /\ 0 + 1 = 1 /\ l - 0 = l
  BY SeqFacts
<1>1a. \A k \in Nat : k <= l =>
         /\ SubSeq(s, k + 1, l) \in Seq(S) /\ Len(SubSeq(s, k + 1, l)) = l - k
         /\ DOMAIN SubSeq(s, k + 1, l) = 1..(l - k)
         /\ \A i \in 1..(l - k) : SubSeq(s, k + 1, l)[i] = s[k + i]
         /\ ToSet(SubSeq(s, k + 1, l)) = { s[i] : i \in (k + 1)..l }
  BY <1>1, StretchFacts
<1> DEFINE b == SubSeq(s, 0 + 1, l)
<1>2. /\ b \in Seq(S) /\ Len(b) = l - 0 /\ DOMAIN b = 1..(l - 0)
      /\ \A i \in 1..(l - 0) : b[i] = s[0 + i]
      /\ ToSet(b) = { s[i] : i \in (0 + 1)..l }
  BY <1>1, <1>1a, Zenon
<1>3. SubSeq(s, 1, l) = b
  BY <1>1
<1> HIDE DEF b
<1>4. \A i \in 1..l : 0 + i = i
  OBVIOUS
<1> QED BY <1>1, <1>2, <1>3, <1>4 DEF UpTo

(* A log and what is put behind it.                                        *)
LEMMA BehindFacts ==
  ASSUME NEW S, NEW s \in Seq(S), NEW t \in Seq(S)
  PROVE  /\ s \o t \in Seq(S) /\ Len(s \o t) = Len(s) + Len(t)
         /\ DOMAIN (s \o t) = 1..(Len(s) + Len(t))
         /\ \A i \in 1..Len(s) : (s \o t)[i] = s[i]
         /\ \A i \in 1..Len(t) : (s \o t)[Len(s) + i] = t[i]
         /\ \A i \in 1..(Len(s) + Len(t)) :
              i \in 1..Len(s) \/ \E j \in 1..Len(t) : i = Len(s) + j
         /\ ToSet(s \o t) = ToSet(s) \cup ToSet(t)
<1> DEFINE u == s \o t
           m == Len(s)
           n == Len(t)
<1>1. m \in Nat /\ n \in Nat /\ u \in Seq(S) /\ Len(u) = m + n /\ DOMAIN u = 1..(m + n)
  BY ConcatProperties, LenProperties
<1>2. \A i \in 1..(m + n) : u[i] = IF i <= m THEN s[i] ELSE t[i - m]
  BY ConcatProperties
<1>2a. DOMAIN s = 1..m /\ DOMAIN t = 1..n
  BY LenProperties
<1> HIDE DEF u, m, n
<1>3. \A i \in 1..m : u[i] = s[i]
  BY <1>1, <1>2
<1>4. \A i \in 1..n : u[m + i] = t[i]
  <2> TAKE i \in 1..n
  <2>1. m + i \in 1..(m + n) /\ ~(m + i <= m) /\ (m + i) - m = i
    BY <1>1
  <2> QED BY <1>2, <2>1
<1>5. ASSUME NEW i \in 1..(m + n), i \notin 1..m PROVE \E j \in 1..n : i = m + j
  <2>1. i - m \in 1..n /\ i = m + (i - m)
    BY <1>1, <1>5
  <2> QED BY <2>1
<1>6. ToSet(u) = ToSet(s) \cup ToSet(t)
  <2>1. ASSUME NEW x \in ToSet(u) PROVE x \in ToSet(s) \cup ToSet(t)
    <3>1. PICK i \in 1..(m + n) : x = u[i]
      BY <1>1 DEF ToSet
    <3>2. CASE i \in 1..m
      BY <1>2a, <1>3, <3>1, <3>2 DEF ToSet
    <3>3. CASE i \notin 1..m
      BY <1>2a, <1>4, <1>5, <3>1, <3>3 DEF ToSet
    <3> QED BY <3>2, <3>3
  <2>2. ASSUME NEW i \in 1..m PROVE s[i] \in ToSet(u)
    <3>1. i \in 1..(m + n)
      BY <1>1
    <3> QED BY <1>1, <1>3, <3>1 DEF ToSet
  <2>3. ASSUME NEW i \in 1..n PROVE t[i] \in ToSet(u)
    <3>1. m + i \in 1..(m + n)
      BY <1>1
    <3> QED BY <1>1, <1>4, <3>1 DEF ToSet
  <2> QED BY <1>2a, <2>1, <2>2, <2>3 DEF ToSet
<1> QED BY <1>1, <1>3, <1>4, <1>5, <1>6 DEF u, m, n

(* INSERT OR IGNORE of events that are told apart.                         *)
LEMMA FreshProperties ==
  ASSUME NEW S, NEW log \in Seq(S), NEW b \in Seq(S), NoTwice(b)
  PROVE  /\ Fresh(log, b) \in Seq(S)
         /\ ToSet(Fresh(log, b)) = ToSet(b) \ ToSet(log)
         /\ NoTwice(Fresh(log, b))
         /\ \A k, m \in DOMAIN Fresh(log, b) : k < m =>
              \E i, j \in DOMAIN b : i < j /\ b[i] = Fresh(log, b)[k] /\ b[j] = Fresh(log, b)[m]
<1> DEFINE P == { i \in DOMAIN b : b[i] \notin ToSet(log) /\ \A j \in 1..(i - 1) : b[j] # b[i] }
           f == Fresh(log, b)
<1>1. Len(b) \in Nat /\ DOMAIN b = 1..Len(b)
  BY SeqFacts
<1>2. P = { i \in 1..Len(b) : b[i] \notin ToSet(log) }
  <2>1. ASSUME NEW i \in 1..Len(b), NEW j \in 1..(i - 1) PROVE b[j] # b[i]
    <3>1. j \in 1..Len(b) /\ i # j
      BY <1>1
    <3> QED BY <1>1, <3>1 DEF NoTwice
  <2> QED BY <1>1, <2>1
<1>3. f = Picked(b, P)
  BY DEF Fresh
<1> HIDE DEF P, f
<1>4. P \in SUBSET (1..Len(b))
  BY <1>2
<1>5. /\ f \in Seq(S) /\ DOMAIN f = 1..Cardinality(P) /\ Cardinality(P) \in Nat
      /\ \A k \in 1..Cardinality(P) : Nth(P, k) \in P /\ f[k] = b[Nth(P, k)]
      /\ \A k, m \in 1..Cardinality(P) : k < m => Nth(P, k) < Nth(P, m)
      /\ ToSet(f) = { b[i] : i \in P }
  BY <1>3, <1>4, PickedProperties
<1>6. ToSet(f) = ToSet(b) \ ToSet(log)
  <2>1. ASSUME NEW x \in ToSet(f) PROVE x \in ToSet(b) \ ToSet(log)
    <3>1. PICK i \in P : x = b[i]
      BY <1>5
    <3> QED BY <1>1, <1>2, <3>1 DEF ToSet
  <2>2. ASSUME NEW x \in ToSet(b), x \notin ToSet(log) PROVE x \in ToSet(f)
    <3>1. PICK i \in 1..Len(b) : x = b[i]
      BY <1>1 DEF ToSet
    <3>2. i \in P
      BY <1>2, <2>2, <3>1
    <3> QED BY <1>5, <3>1, <3>2
  <2> QED BY <2>1, <2>2
<1>7. NoTwice(f)
  <2> SUFFICES ASSUME NEW k \in 1..Cardinality(P), NEW m \in 1..Cardinality(P), f[k] = f[m], k < m
               PROVE FALSE
    BY <1>5 DEF NoTwice
  <2>1. Nth(P, k) \in 1..Len(b) /\ Nth(P, m) \in 1..Len(b)
    BY <1>4, <1>5
  <2>2. b[Nth(P, k)] = b[Nth(P, m)] /\ Nth(P, k) < Nth(P, m)
    BY <1>5
  <2>3. Nth(P, k) = Nth(P, m)
    BY <1>1, <2>1, <2>2 DEF NoTwice
  <2> QED BY <2>1, <2>2, <2>3
<1>8. ASSUME NEW k \in DOMAIN f, NEW m \in DOMAIN f, k < m
      PROVE \E i, j \in DOMAIN b : i < j /\ b[i] = f[k] /\ b[j] = f[m]
  <2>1. k \in 1..Cardinality(P) /\ m \in 1..Cardinality(P)
    BY <1>5
  <2>2. Nth(P, k) \in DOMAIN b /\ Nth(P, m) \in DOMAIN b
    BY <1>1, <1>4, <1>5, <2>1
  <2> QED BY <1>5, <1>8, <2>1, <2>2
<1> QED BY <1>5, <1>6, <1>7, <1>8 DEF f

(* What of a log was appended here.                                        *)
LEMMA OwnedProperties ==
  ASSUME NEW S, NEW s \in Seq(S), NoTwice(s)
  PROVE  /\ Owned(s) \in Seq(S) /\ ToSet(Owned(s)) = ToSet(s) \cap own
         /\ NoTwice(Owned(s))
<1> DEFINE P == { i \in DOMAIN s : s[i] \in own }
           f == Owned(s)
<1>1. Len(s) \in Nat /\ DOMAIN s = 1..Len(s)
  BY SeqFacts
<1>2. P \in SUBSET (1..Len(s)) /\ f = Picked(s, P)
  BY <1>1 DEF Owned
<1>2a. \A i \in 1..Len(s) : i \in P <=> s[i] \in own
  BY <1>1
<1> HIDE DEF P, f
<1>3. /\ f \in Seq(S) /\ DOMAIN f = 1..Cardinality(P) /\ Cardinality(P) \in Nat
      /\ \A k \in 1..Cardinality(P) : Nth(P, k) \in P /\ f[k] = s[Nth(P, k)]
      /\ \A k, m \in 1..Cardinality(P) : k < m => Nth(P, k) < Nth(P, m)
      /\ ToSet(f) = { s[i] : i \in P }
  BY <1>2, PickedProperties
<1>4. ToSet(f) = ToSet(s) \cap own
  <2>1. ASSUME NEW x \in ToSet(f) PROVE x \in ToSet(s) \cap own
    <3>1. PICK i \in P : x = s[i]
      BY <1>3
    <3> QED BY <1>1, <1>2, <1>2a, <3>1 DEF ToSet
  <2>2. ASSUME NEW x \in ToSet(s), x \in own PROVE x \in ToSet(f)
    <3>1. PICK i \in 1..Len(s) : x = s[i]
      BY <1>1 DEF ToSet
    <3>2. i \in P
      BY <1>2a, <2>2, <3>1
    <3> QED BY <1>3, <3>1, <3>2
  <2> QED BY <2>1, <2>2
<1>5. NoTwice(f)
  <2> SUFFICES ASSUME NEW k \in 1..Cardinality(P), NEW m \in 1..Cardinality(P), f[k] = f[m], k < m
               PROVE FALSE
    BY <1>3 DEF NoTwice
  <2>1. Nth(P, k) \in 1..Len(s) /\ Nth(P, m) \in 1..Len(s)
    BY <1>2, <1>3
  <2>2. s[Nth(P, k)] = s[Nth(P, m)] /\ Nth(P, k) < Nth(P, m)
    BY <1>3
  <2>3. Nth(P, k) = Nth(P, m)
    BY <1>1, <2>1, <2>2 DEF NoTwice
  <2> QED BY <2>1, <2>2, <2>3
<1> QED BY <1>3, <1>4, <1>5 DEF f

(* What follows a watermark, or everything.                                *)
LEMMA AfterProperties ==
  ASSUME NEW S, NEW log \in Seq(S), NoTwice(log), NEW w
  PROVE  \E k \in 0..Len(log) :
           /\ After(log, w) = SubSeq(log, k + 1, Len(log))
           /\ w \notin ToSet(log) => k = 0
           /\ w \in ToSet(log) => k \in 1..Len(log) /\ log[k] = w
<1>1. Len(log) \in Nat /\ DOMAIN log = 1..Len(log)
  BY SeqFacts
<1>2. CASE w \notin ToSet(log)
  <2>1. After(log, w) = SubSeq(log, 1, Len(log))
    BY <1>2, SubSeqFull DEF After
  <2>2. 0 \in 0..Len(log) /\ 0 + 1 = 1
    BY <1>1
  <2> QED BY <1>2, <2>1, <2>2
<1>3. CASE w \in ToSet(log)
  <2>1. PICK k \in 1..Len(log) : log[k] = w
    BY <1>3, SeqFacts
  <2>2. { i \in DOMAIN log : log[i] = w } = {k}
    BY <1>1, <2>1 DEF NoTwice
  <2>3. Max({k}) = k
    <3>1. \E x \in {k} : \A y \in {k} : x >= y
      BY <2>1
    <3> QED BY <3>1 DEF Max
  <2>4. After(log, w) = SubSeq(log, 1 + k, Len(log))
    BY <1>3, <2>2, <2>3 DEF After
  <2>5. 1 + k = k + 1 /\ k \in 0..Len(log)
    BY <1>1, <2>1
  <2> QED BY <1>3, <2>1, <2>4, <2>5
<1> QED BY <1>2, <1>3

-----------------------------------------------------------------------------
(* The task events of a log: the moves 1..n, in this order.                *)
Ordered(log) ==
  /\ \A i \in TaskPlaces(log) : log[i].n \in DOMAIN Moved /\ log[i] = Move(log[i].n)
  /\ \A i, j \in TaskPlaces(log) : i < j => log[i].n < log[j].n
  /\ \A i \in TaskPlaces(log) : \A n \in 1..log[i].n : \E j \in TaskPlaces(log) : log[j].n = n

Held(log) == Cardinality(TaskPlaces(log))

LEMMA MoveFacts ==
  /\ Len(Moved) \in Nat /\ DOMAIN Moved = 1..Len(Moved)
  /\ \A n \in DOMAIN Moved :
       /\ Move(n) \in Event /\ Move(n).type = "task" /\ Move(n).n = n
       /\ Move(n).by = Moved[n].by /\ Move(n).task = Moved[n].task /\ Move(n).starts = Moved[n].starts
       /\ Moved[n].by \in Members /\ Moved[n].task \in Tasks /\ Moved[n].starts \in BOOLEAN
<1>1. Moved \in Seq([by : Members, task : Tasks, starts : BOOLEAN])
  BY LaneAssumption
<1>2. Len(Moved) \in Nat /\ DOMAIN Moved = 1..Len(Moved)
        /\ \A n \in 1..Len(Moved) : Moved[n] \in [by : Members, task : Tasks, starts : BOOLEAN]
  BY <1>1, SeqFacts
<1> QED BY <1>2 DEF Move, Event

LEMMA PlacesFacts ==
  ASSUME NEW log \in Seq(Event)
  PROVE  /\ TaskPlaces(log) \in SUBSET (1..Len(log)) /\ IsFiniteSet(TaskPlaces(log))
         /\ Held(log) \in Nat /\ Len(log) \in Nat
         /\ \A i \in TaskPlaces(log) : log[i] \in Event /\ log[i].n \in Nat
<1>1. Len(log) \in Nat /\ DOMAIN log = 1..Len(log) /\ \A i \in 1..Len(log) : log[i] \in Event
  BY SeqFacts
<1>2. TaskPlaces(log) \in SUBSET (1..Len(log))
  BY <1>1 DEF TaskPlaces
<1>3. IsFiniteSet(TaskPlaces(log))
  <2>1. IsFiniteSet(1..Len(log))
    BY <1>1, FS_Interval
  <2> QED BY <1>2, <2>1, FS_Subset
<1>4. \A e \in Event : e.n \in Nat
  BY DEF Event
<1> QED BY <1>1, <1>2, <1>3, <1>4, FS_CardinalityType DEF Held

(* The k-th task event of a log is the k-th move.                          *)
LEMMA Ranked ==
  ASSUME NEW log \in Seq(Event), Ordered(log), NEW i \in TaskPlaces(log)
  PROVE  Cardinality({ j \in TaskPlaces(log) : j <= i }) = log[i].n
<1> DEFINE P == TaskPlaces(log)
           B == { j \in P : j <= i }
           n == log[i].n
           f == [j \in B |-> log[j].n]
<1>1. P \in SUBSET (1..Len(log)) /\ IsFiniteSet(P) /\ \A j \in P : j \in Int /\ log[j].n \in Nat
  BY PlacesFacts
<1>2. n \in 1..Len(Moved) /\ n \in Nat
  BY MoveFacts DEF Ordered
<1>3. \A j, k \in P : j < k => log[j].n < log[k].n
  BY DEF Ordered
<1>4. \A m \in 1..n : \E j \in P : log[j].n = m
  BY DEF Ordered
<1>4a. \A j \in P : log[j].n \in 1..Len(Moved)
  BY MoveFacts DEF Ordered
<1> HIDE DEF P, n
<1>5. i \in P /\ log[i].n = n
  BY DEF P, n
<1>6. \A j \in B : log[j].n \in 1..n
  <2> TAKE j \in B
  <2>1. j = i \/ j < i
    BY <1>1, <1>5
  <2> QED BY <1>1, <1>2, <1>3, <1>4a, <1>5, <2>1
<1>7. \A j, k \in B : f[j] = f[k] => j = k
  <2> SUFFICES ASSUME NEW j \in B, NEW k \in B, j # k PROVE log[j].n # log[k].n
    OBVIOUS
  <2>1. j < k \/ k < j
    BY <1>1
  <2> QED BY <1>1, <1>3, <2>1
<1>8. \A m \in 1..n : \E j \in B : f[j] = m
  <2> TAKE m \in 1..n
  <2>1. PICK j \in P : log[j].n = m
    BY <1>4
  <2>2. ~(i < j)
    BY <1>1, <1>2, <1>3, <1>5, <2>1
  <2>3. j \in B
    BY <1>1, <1>5, <2>2
  <2> QED BY <2>1, <2>3
<1>9. f \in Bijection(B, 1..n)
  <2>1. f \in [B -> 1..n]
    BY <1>6
  <2> HIDE DEF f
  <2> QED BY <1>7, <1>8, <2>1 DEF Bijection, Injection, IsInjective, Surjection
<1>10. IsFiniteSet(1..n) /\ Cardinality(1..n) = n
  BY <1>2, FS_Interval
<1>11. IsFiniteSet(B)
  BY <1>1, FS_Subset
<1>12. Cardinality(B) = Cardinality(1..n)
  <2>1. ExistsBijection(B, 1..n)
    BY <1>9 DEF ExistsBijection
  <2> HIDE DEF B, f
  <2> QED BY <1>11, <2>1, FS_Bijection
<1> QED BY <1>10, <1>12 DEF P, n

(* An ordered log holds the moves 1..Held(log).                            *)
LEMMA HeldMoves ==
  ASSUME NEW log \in Seq(Event), Ordered(log)
  PROVE  /\ \A i \in TaskPlaces(log) : log[i].n \in 1..Held(log)
         /\ \A n \in 1..Held(log) : \E i \in TaskPlaces(log) : log[i].n = n
         /\ Held(log) <= Len(Moved)
<1> DEFINE P == TaskPlaces(log)
           c == Held(log)
<1>1. P \in SUBSET (1..Len(log)) /\ IsFiniteSet(P) /\ c \in Nat /\ c = Cardinality(P) /\ Len(log) \in Nat
        /\ \A j \in P : j \in Int /\ log[j].n \in Nat
  BY PlacesFacts DEF Held
<1>2. \A i \in P : log[i].n \in 1..c
  <2> TAKE i \in P
  <2> DEFINE B == { j \in P : j <= i }
  <2>1. Cardinality(B) = log[i].n
    BY Ranked
  <2>2. Cardinality(B) <= Cardinality(P)
    <3>1. B \subseteq P
      OBVIOUS
    <3> HIDE DEF B, P
    <3> QED BY <1>1, <3>1, FS_Subset
  <2>3. log[i].n \in 1..Len(Moved)
    BY MoveFacts DEF Ordered
  <2> HIDE DEF B, P, c
  <2> QED BY <1>1, <2>1, <2>2, <2>3
<1>3. CASE c = 0
  <2>1. P = {}
    <3> HIDE DEF P, c
    <3> QED BY <1>1, <1>3, FS_EmptySet
  <2> QED BY <1>3, <2>1, MoveFacts
<1>4. CASE c # 0
  <2>1. c \in 1..Cardinality(P)
    BY <1>1, <1>4
  <2> DEFINE i == Nth(P, c)
  <2>2. i \in P /\ Cardinality({ j \in P : j <= i }) = c
    BY <1>1, <2>1, NthMember
  <2>3. log[i].n = c
    BY <2>2, Ranked
  <2>4. log[i].n \in DOMAIN Moved /\ \A n \in 1..log[i].n : \E j \in P : log[j].n = n
    BY <2>2 DEF Ordered
  <2> HIDE DEF i, P, c
  <2>5. c <= Len(Moved)
    BY <2>3, <2>4, MoveFacts
  <2> QED BY <1>2, <2>3, <2>4, <2>5 DEF P, c
<1> QED BY <1>3, <1>4, <1>2

(* Logs that hold the same moves have them in the same order.              *)
LEMMA OrderedEvents ==
  ASSUME NEW log \in Seq(Event), Ordered(log)
  PROVE  /\ TaskEvents(log) \in Seq(Event) /\ Len(TaskEvents(log)) = Held(log)
         /\ \A k \in 1..Held(log) : TaskEvents(log)[k] = Move(k)
<1> DEFINE P == TaskPlaces(log)
<1>1. P \in SUBSET (1..Len(log)) /\ Len(log) \in Nat
  BY PlacesFacts
<1>2. /\ TaskEvents(log) \in Seq(Event) /\ Len(TaskEvents(log)) = Cardinality(P)
      /\ \A k \in 1..Cardinality(P) : Nth(P, k) \in P /\ TaskEvents(log)[k] = log[Nth(P, k)]
  BY <1>1, PickedProperties DEF TaskEvents
<1>3. ASSUME NEW k \in 1..Cardinality(P) PROVE TaskEvents(log)[k] = Move(k)
  <2>1. Nth(P, k) \in P /\ Cardinality({ j \in P : j <= Nth(P, k) }) = k
    BY <1>1, NthMember
  <2>2. log[Nth(P, k)].n = k
    BY <2>1, Ranked
  <2>3. log[Nth(P, k)] = Move(k)
    BY <2>1, <2>2 DEF Ordered
  <2> QED BY <1>2, <2>3
<1> QED BY <1>2, <1>3 DEF Held

LEMMA SameOrder ==
  ASSUME NEW a \in Seq(Event), NEW b \in Seq(Event), Ordered(a), Ordered(b), Held(a) <= Held(b)
  PROVE  IsPrefix(TaskEvents(a), TaskEvents(b))
<1> DEFINE s == TaskEvents(a)
           t == TaskEvents(b)
           n == Len(s)
<1>1. s \in Seq(Event) /\ t \in Seq(Event) /\ n = Held(a) /\ Len(t) = Held(b) /\ n \in Nat /\ Len(t) \in Nat
  BY OrderedEvents, PlacesFacts
<1>2. \A k \in 1..n : s[k] = t[k]
  <2> TAKE k \in 1..n
  <2>1. k \in 1..Held(a) /\ k \in 1..Held(b)
    BY <1>1
  <2> QED BY <2>1, OrderedEvents
<1> HIDE DEF s, t, n
<1>3. n \in 0..Len(s) /\ n \in 0..Len(t) /\ Len(s) = n
  BY <1>1 DEF n
<1>4. SubSeq(s, 1, n) \in Seq(Event) /\ Len(SubSeq(s, 1, n)) = n /\ \A k \in 1..n : SubSeq(s, 1, n)[k] = s[k]
  BY <1>1, <1>3, PrefixFacts
<1>5. SubSeq(t, 1, n) \in Seq(Event) /\ Len(SubSeq(t, 1, n)) = n /\ \A k \in 1..n : SubSeq(t, 1, n)[k] = t[k]
  BY <1>1, <1>3, PrefixFacts
<1>6. SubSeq(s, 1, n) = SubSeq(t, 1, n)
  BY <1>2, <1>4, <1>5, SeqEqual
<1> QED BY <1>1, <1>3, <1>6 DEF IsPrefix, s, t, n

(* A log whose moves another log holds too holds no more of them.          *)
LEMMA HeldWithin ==
  ASSUME NEW a \in Seq(Event), NEW b \in Seq(Event), Ordered(a), Ordered(b),
         \A i \in TaskPlaces(a) : a[i] \in ToSet(b)
  PROVE  Held(a) <= Held(b)
<1>1. Held(a) \in Nat /\ Held(b) \in Nat
  BY PlacesFacts
<1>2. CASE Held(a) = 0
  BY <1>1, <1>2
<1>3. CASE Held(a) # 0
  <2>1. PICK i \in TaskPlaces(a) : a[i].n = Held(a)
    <3>1. Held(a) \in 1..Held(a)
      BY <1>1, <1>3
    <3> QED BY <3>1, HeldMoves
  <2>2. PICK j \in DOMAIN b : b[j] = a[i]
    BY <2>1 DEF ToSet
  <2>3. j \in TaskPlaces(b)
    BY <2>1, <2>2 DEF TaskPlaces
  <2>4. b[j].n \in 1..Held(b)
    BY <2>3, HeldMoves
  <2> QED BY <1>1, <2>1, <2>2, <2>4
<1> QED BY <1>2, <1>3

(* Other events behind an ordered log change nothing of its order.         *)
LEMMA OrderedBehind ==
  ASSUME NEW log \in Seq(Event), Ordered(log), NEW b \in Seq(Event),
         \A e \in ToSet(b) : e.type # "task"
  PROVE  Ordered(log \o b) /\ TaskPlaces(log \o b) = TaskPlaces(log)
<1> DEFINE u == log \o b
<1>1. /\ DOMAIN u = 1..(Len(log) + Len(b)) /\ Len(log) \in Nat /\ Len(b) \in Nat
      /\ \A i \in 1..Len(log) : u[i] = log[i]
      /\ \A i \in 1..Len(b) : u[Len(log) + i] = b[i]
      /\ \A i \in 1..(Len(log) + Len(b)) : i \in 1..Len(log) \/ \E j \in 1..Len(b) : i = Len(log) + j
  BY BehindFacts, SeqFacts
<1>2. DOMAIN log = 1..Len(log) /\ \A i \in 1..Len(b) : b[i].type # "task"
  BY SeqFacts
<1> HIDE DEF u
<1>3. TaskPlaces(u) = TaskPlaces(log)
  <2>1. ASSUME NEW i \in TaskPlaces(u) PROVE i \in TaskPlaces(log)
    <3>1. i \in 1..(Len(log) + Len(b)) /\ u[i].type = "task"
      BY <1>1, <2>1 DEF TaskPlaces
    <3>2. i \in 1..Len(log)
      BY <1>1, <1>2, <3>1
    <3> QED BY <1>1, <1>2, <3>1, <3>2 DEF TaskPlaces
  <2>2. ASSUME NEW i \in TaskPlaces(log) PROVE i \in TaskPlaces(u)
    <3>1. i \in 1..Len(log) /\ log[i].type = "task"
      BY <1>2 DEF TaskPlaces
    <3>2. i \in DOMAIN u
      BY <1>1, <3>1
    <3> QED BY <1>1, <3>1, <3>2 DEF TaskPlaces
  <2> QED BY <2>1, <2>2
<1>4. \A i \in TaskPlaces(log) : u[i] = log[i]
  BY <1>1, <1>2 DEF TaskPlaces
<1>5. Ordered(u)
  BY <1>3, <1>4 DEF Ordered
<1> QED BY <1>3, <1>5 DEF u

(* The next move behind an ordered log.                                    *)
LEMMA OrderedMove ==
  ASSUME NEW log \in Seq(Event), Ordered(log), Held(log) < Len(Moved)
  PROVE  Ordered(Append(log, Move(Held(log) + 1)))
<1> DEFINE c == Held(log)
           e == Move(c + 1)
           u == Append(log, e)
           l == Len(log)
<1>1. c \in Nat /\ c + 1 \in DOMAIN Moved /\ e \in Event /\ e.type = "task" /\ e.n = c + 1
  BY PlacesFacts, MoveFacts
<1>2. \A i \in TaskPlaces(log) : log[i].n \in 1..c
  BY HeldMoves
<1>3. \A n \in 1..c : \E i \in TaskPlaces(log) : log[i].n = n
  BY HeldMoves
<1>4. TaskPlaces(log) \in SUBSET (1..l) /\ l \in Nat
  BY PlacesFacts
<1> HIDE DEF e
<1>5. /\ u \in Seq(Event) /\ Len(u) = l + 1 /\ u[l + 1] = e /\ \A i \in 1..l : u[i] = log[i]
  BY <1>1, AppendProperties
<1>6. DOMAIN u = 1..(l + 1) /\ DOMAIN log = 1..l
  BY <1>5, LenProperties
<1> HIDE DEF u, l
<1>7. TaskPlaces(u) = TaskPlaces(log) \cup {l + 1}
  <2>1. ASSUME NEW i \in TaskPlaces(u) PROVE i \in TaskPlaces(log) \cup {l + 1}
    <3>1. i \in 1..(l + 1) /\ u[i].type = "task"
      BY <1>6, <2>1 DEF TaskPlaces
    <3>2. i = l + 1 \/ i \in 1..l
      BY <1>4, <3>1
    <3> QED BY <1>5, <1>6, <3>1, <3>2 DEF TaskPlaces
  <2>2. ASSUME NEW i \in TaskPlaces(log) PROVE i \in TaskPlaces(u)
    <3>1. i \in 1..l /\ log[i].type = "task" /\ i \in 1..(l + 1)
      BY <1>4 DEF TaskPlaces
    <3> QED BY <1>5, <1>6, <3>1 DEF TaskPlaces
  <2>3. l + 1 \in TaskPlaces(u)
    BY <1>1, <1>4, <1>5, <1>6 DEF TaskPlaces
  <2> QED BY <2>1, <2>2, <2>3
<1>8. \A i \in TaskPlaces(log) : u[i] = log[i] /\ i \in Int /\ i < l + 1 /\ log[i].n \in 1..c
  BY <1>2, <1>4, <1>5
<1>9. \A i \in TaskPlaces(u) : u[i].n \in DOMAIN Moved /\ u[i] = Move(u[i].n)
  <2> TAKE i \in TaskPlaces(u)
  <2>1. CASE i = l + 1
    BY <1>1, <1>5, <2>1 DEF e
  <2>2. CASE i \in TaskPlaces(log)
    BY <1>8, <2>2 DEF Ordered
  <2> QED BY <1>7, <2>1, <2>2
<1> HIDE DEF c
<1>10. \A i, j \in TaskPlaces(u) : i < j => u[i].n < u[j].n
  <2> SUFFICES ASSUME NEW i \in TaskPlaces(u), NEW j \in TaskPlaces(u), i < j PROVE u[i].n < u[j].n
    OBVIOUS
  <2>1. i \in TaskPlaces(log)
    BY <1>4, <1>7, <1>8
  <2>2. CASE j = l + 1
    BY <1>1, <1>5, <1>8, <2>1, <2>2
  <2>3. CASE j \in TaskPlaces(log)
    BY <1>8, <2>1, <2>3 DEF Ordered
  <2> QED BY <1>7, <2>2, <2>3
<1>11. \A i \in TaskPlaces(u) : \A n \in 1..u[i].n : \E j \in TaskPlaces(u) : u[j].n = n
  <2> SUFFICES ASSUME NEW i \in TaskPlaces(u), NEW n \in 1..u[i].n
               PROVE \E j \in TaskPlaces(u) : u[j].n = n
    OBVIOUS
  <2>1. n \in 1..(c + 1)
    <3>1. u[i].n \in 1..(c + 1)
      BY <1>1, <1>5, <1>7, <1>8
    <3> QED BY <1>1, <3>1
  <2>2. CASE n = c + 1
    BY <1>1, <1>5, <1>7, <2>2
  <2>3. CASE n \in 1..c
    <3>1. PICK j \in TaskPlaces(log) : log[j].n = n
      BY <1>3, <2>3
    <3> QED BY <1>7, <1>8, <3>1
  <2> QED BY <1>1, <2>1, <2>2, <2>3
<1> QED BY <1>9, <1>10, <1>11 DEF Ordered, u, e, c

(* A prefix of an ordered log is ordered.                                  *)
LEMMA OrderedPrefix ==
  ASSUME NEW log \in Seq(Event), Ordered(log), NEW l \in 0..Len(log)
  PROVE  Ordered(SubSeq(log, 1, l))
<1> DEFINE u == SubSeq(log, 1, l)
<1>1. DOMAIN u = 1..l /\ \A i \in 1..l : u[i] = log[i]
  BY PrefixFacts
<1>2. Len(log) \in Nat /\ DOMAIN log = 1..Len(log)
  BY SeqFacts
<1> HIDE DEF u
<1>3. TaskPlaces(u) = { i \in TaskPlaces(log) : i <= l }
  BY <1>1, <1>2 DEF TaskPlaces
<1>4. \A i \in TaskPlaces(u) : i \in TaskPlaces(log) /\ u[i] = log[i] /\ i \in Int /\ i <= l
  BY <1>1, <1>2, <1>3 DEF TaskPlaces
<1>5. \A i \in TaskPlaces(log) : i \in Int /\ log[i].n \in Nat
  BY PlacesFacts
<1>6. ASSUME NEW i \in TaskPlaces(u), NEW n \in 1..u[i].n PROVE \E j \in TaskPlaces(u) : u[j].n = n
  <2>1. i \in TaskPlaces(log) /\ u[i] = log[i] /\ i <= l
    BY <1>4
  <2>2. PICK j \in TaskPlaces(log) : log[j].n = n
    BY <2>1 DEF Ordered
  <2>3. ~(i < j)
    <3> SUFFICES ASSUME i < j PROVE FALSE
      OBVIOUS
    <3>1. log[i].n < log[j].n
      BY <2>1 DEF Ordered
    <3> QED BY <1>5, <2>1, <2>2, <3>1
  <2>4. j <= l
    BY <1>5, <2>1, <2>3
  <2> QED BY <1>3, <1>4, <2>2, <2>4
<1>7. Ordered(u)
  BY <1>4, <1>6 DEF Ordered
<1> QED BY <1>7 DEF u

(* The largest and the smallest of some places.                            *)
LEMMA Extremes ==
  ASSUME NEW n \in Nat, NEW P \in SUBSET (1..n), P # {}
  PROVE  /\ Max(P) \in P /\ \A i \in P : i <= Max(P)
         /\ Min(P) \in P /\ \A i \in P : Min(P) <= i
<1> DEFINE c == Cardinality(P)
<1>1. /\ c \in Nat /\ \A k \in 1..c : Nth(P, k) \in P
      /\ \A i \in P : \E k \in 1..c : Nth(P, k) = i
  BY NthEnumerates
<1>2. \A i \in P : i \in Int
  OBVIOUS
<1>3. \A k, m \in 1..c : k < m => Nth(P, k) < Nth(P, m)
  BY NthRises
<1> HIDE DEF c
<1>4. 1 \in 1..c /\ c \in 1..c
  <2>1. PICK i \in P : TRUE
    OBVIOUS
  <2>2. PICK k \in 1..c : Nth(P, k) = i
    BY <1>1
  <2>3. c \in Nat
    BY <1>1
  <2>4. k \in Nat /\ 1 <= k /\ k <= c
    BY <2>2, <2>3
  <2> QED BY <2>3, <2>4
<1>5. \A i \in P : i <= Nth(P, c) /\ Nth(P, 1) <= i
  <2> TAKE i \in P
  <2>1. PICK k \in 1..c : Nth(P, k) = i
    BY <1>1
  <2>2. k = c \/ k < c
    BY <1>1
  <2>3. k = 1 \/ 1 < k
    BY <1>1
  <2>0. i \in Int /\ Nth(P, c) \in Int /\ Nth(P, 1) \in Int
    BY <1>1, <1>2, <1>4
  <2>4. i <= Nth(P, c)
    <3>1. CASE k = c
      BY <2>0, <2>1, <3>1
    <3>2. CASE k < c
      <4>1. Nth(P, k) < Nth(P, c)
        BY <1>3, <1>4, <3>2
      <4> QED BY <2>0, <2>1, <4>1
    <3> QED BY <2>2, <3>1, <3>2
  <2>5. Nth(P, 1) <= i
    <3>1. CASE k = 1
      BY <2>0, <2>1, <3>1
    <3>2. CASE 1 < k
      <4>1. Nth(P, 1) < Nth(P, k)
        BY <1>3, <1>4, <3>2
      <4> QED BY <2>0, <2>1, <4>1
    <3> QED BY <2>3, <3>1, <3>2
  <2> QED BY <2>4, <2>5
<1>6. Max(P) \in P /\ \A i \in P : Max(P) >= i
  <2>1. \E x \in P : \A y \in P : x >= y
    BY <1>1, <1>2, <1>4, <1>5
  <2> QED BY <2>1 DEF Max
<1>7. Min(P) \in P /\ \A i \in P : Min(P) <= i
  <2>1. \E x \in P : \A y \in P : x <= y
    BY <1>1, <1>4, <1>5
  <2> QED BY <2>1 DEF Min
<1> QED BY <1>2, <1>6, <1>7

(* Places that correspond, in order.                                       *)
InOrder(f, P, Q) ==
  /\ f \in [P -> Q] /\ \A i, j \in P : i < j => f[i] < f[j]
  /\ \A q \in Q : \E i \in P : f[i] = q

LEMMA SameShape ==
  ASSUME NEW m \in Nat, NEW P \in SUBSET (1..m), NEW c \in Nat, NEW Q \in SUBSET (1..c),
         NEW f, InOrder(f, P, Q)
  PROVE  /\ Cardinality(P) = Cardinality(Q)
         /\ P = {} <=> Q = {}
         /\ P # {} => Max(P) \in P /\ f[Max(P)] = Max(Q) /\ Min(P) \in P /\ f[Min(P)] = Min(Q)
<1>0. /\ f \in [P -> Q] /\ \A i, j \in P : i < j => f[i] < f[j]
      /\ \A q \in Q : \E i \in P : f[i] = q
  BY DEF InOrder
<1>1. (\A i \in P : i \in Int) /\ (\A q \in Q : q \in Int)
  OBVIOUS
<1>2. P = {} <=> Q = {}
  BY <1>0
<1>3. Cardinality(P) = Cardinality(Q)
  <2>1. IsFiniteSet(1..m)
    BY FS_Interval
  <2>2. IsFiniteSet(P)
    BY <2>1, FS_Subset
  <2>3. \A i, j \in P : f[i] = f[j] => i = j
    <3> SUFFICES ASSUME NEW i \in P, NEW j \in P, i # j PROVE f[i] # f[j]
      OBVIOUS
    <3>1. i < j \/ j < i
      BY <1>1
    <3>2. f[i] \in Int /\ f[j] \in Int
      BY <1>0, <1>1
    <3> QED BY <1>0, <3>1, <3>2
  <2>4. f \in Bijection(P, Q)
    BY <1>0, <2>3 DEF Bijection, Injection, IsInjective, Surjection
  <2>5. ExistsBijection(P, Q)
    BY <2>4 DEF ExistsBijection
  <2> QED BY <2>2, <2>5, FS_Bijection
<1>4. ASSUME P # {}
      PROVE Max(P) \in P /\ f[Max(P)] = Max(Q) /\ Min(P) \in P /\ f[Min(P)] = Min(Q)
  <2>1. /\ Max(P) \in P /\ \A i \in P : i <= Max(P)
        /\ Min(P) \in P /\ \A i \in P : Min(P) <= i
    BY <1>4, Extremes
  <2>2. /\ Max(Q) \in Q /\ \A i \in Q : i <= Max(Q)
        /\ Min(Q) \in Q /\ \A i \in Q : Min(Q) <= i
    BY <1>2, <1>4, Extremes
  <2>3. PICK i \in P : f[i] = Max(Q)
    BY <1>0, <2>2
  <2>4. PICK j \in P : f[j] = Min(Q)
    BY <1>0, <2>2
  <2>5. f[Max(P)] <= Max(Q) /\ Min(Q) <= f[Min(P)] /\ f[Max(P)] \in Int /\ f[Min(P)] \in Int
    BY <1>0, <1>1, <2>1, <2>2
  <2>0. i \in Int /\ j \in Int /\ Max(P) \in Int /\ Min(P) \in Int /\ Max(Q) \in Int /\ Min(Q) \in Int
    BY <1>1, <2>1, <2>2
  <2>8. f[Max(P)] = Max(Q)
    <3>1. i <= Max(P)
      BY <2>1
    <3>2. CASE i = Max(P)
      BY <2>3, <3>2
    <3>3. CASE i < Max(P)
      <4>1. f[i] < f[Max(P)]
        BY <1>0, <2>1, <3>3
      <4> QED BY <2>0, <2>3, <2>5, <4>1
    <3> QED BY <2>0, <3>1, <3>2, <3>3
  <2>9. f[Min(P)] = Min(Q)
    <3>1. Min(P) <= j
      BY <2>1
    <3>2. CASE j = Min(P)
      BY <2>4, <3>2
    <3>3. CASE Min(P) < j
      <4>1. f[Min(P)] < f[j]
        BY <1>0, <2>1, <3>3
      <4> QED BY <2>0, <2>4, <2>5, <4>1
    <3> QED BY <2>0, <3>1, <3>2, <3>3
  <2> QED BY <2>1, <2>8, <2>9
<1> QED BY <1>2, <1>3, <1>4

(* What of the first c moves a card tells.                                 *)
Seen(c, t) == { n \in 1..c : Moved[n].task = t }
Begun(c, t) == { n \in Seen(c, t) : Moved[n].starts }

LEMMA SeenFacts ==
  ASSUME NEW c \in Nat, NEW t
  PROVE  /\ Seen(c, t) \in SUBSET (1..c) /\ Begun(c, t) \in SUBSET (1..c)
         /\ IsFiniteSet(Seen(c, t)) /\ Cardinality(Seen(c, t)) \in Nat
<1>1. Seen(c, t) \in SUBSET (1..c) /\ Begun(c, t) \in SUBSET (1..c)
  BY DEF Seen, Begun
<1>2. IsFiniteSet(1..c)
  BY FS_Interval
<1> QED BY <1>1, <1>2, FS_Subset, FS_CardinalityType

(* More moves tell more, and the same first start.                         *)
LEMMA SeenMore ==
  ASSUME NEW c \in Nat, NEW d \in Nat, c <= d, NEW t
  PROVE  /\ Cardinality(Seen(c, t)) <= Cardinality(Seen(d, t))
         /\ Begun(c, t) \subseteq Begun(d, t)
         /\ Begun(c, t) # {} => Min(Begun(d, t)) = Min(Begun(c, t))
<1>1. Seen(c, t) \subseteq Seen(d, t) /\ Begun(c, t) \subseteq Begun(d, t)
      /\ \A n \in Begun(d, t) : n <= c => n \in Begun(c, t)
  BY DEF Seen, Begun
<1>2. Cardinality(Seen(c, t)) <= Cardinality(Seen(d, t))
  BY <1>1, SeenFacts, FS_Subset
<1>3. ASSUME Begun(c, t) # {} PROVE Min(Begun(d, t)) = Min(Begun(c, t))
  <2>1. Begun(c, t) \in SUBSET (1..c) /\ Begun(d, t) \in SUBSET (1..d) /\ Begun(d, t) # {}
    BY <1>1, <1>3, SeenFacts
  <2>2. Min(Begun(c, t)) \in Begun(c, t) /\ \A i \in Begun(c, t) : Min(Begun(c, t)) <= i
    BY <1>3, <2>1, Extremes
  <2>3. Min(Begun(d, t)) \in Begun(d, t) /\ \A i \in Begun(d, t) : Min(Begun(d, t)) <= i
    BY <2>1, Extremes
  <2>4. (\A i \in Begun(c, t) : i \in Int /\ i <= c) /\ \A i \in Begun(d, t) : i \in Int
    BY <2>1
  <2>5. Min(Begun(d, t)) <= Min(Begun(c, t))
    BY <1>1, <2>2, <2>3
  <2>6. Min(Begun(d, t)) <= c
    BY <2>2, <2>3, <2>4, <2>5
  <2>7. Min(Begun(c, t)) <= Min(Begun(d, t))
    BY <1>1, <2>2, <2>3, <2>6
  <2> QED BY <2>2, <2>3, <2>4, <2>5, <2>7
<1> QED BY <1>1, <1>2, <1>3

Untasked(log) == \A i \in DOMAIN log : log[i].type = "task" \/ log[i].task = None

(* What an ordered log tells of a task is what its moves tell.             *)
LEMMA Views ==
  ASSUME NEW log \in Seq(Event), Ordered(log), Untasked(log), NEW t \in Tasks
  PROVE  /\ Cardinality(TaskMoves(log, t)) = Cardinality(Seen(Held(log), t))
         /\ Mover(log, t) = IF Seen(Held(log), t) = {} THEN None ELSE Moved[Max(Seen(Held(log), t))].by
         /\ Started(log, t) = IF Begun(Held(log), t) = {} THEN None ELSE Min(Begun(Held(log), t))
         /\ TaskStarts(log, t) = {} <=> Begun(Held(log), t) = {}
<1> DEFINE c == Held(log)
           P == TaskMoves(log, t)
           B == TaskStarts(log, t)
           f == [i \in P |-> log[i].n]
           g == [i \in B |-> log[i].n]
<1>1. Len(log) \in Nat /\ c \in Nat /\ DOMAIN log = 1..Len(log)
  BY PlacesFacts, SeqFacts
<1>2. t # None
  BY LaneAssumption
<1>3. P = { i \in TaskPlaces(log) : log[i].task = t } /\ P \in SUBSET (1..Len(log))
  BY <1>1, <1>2 DEF TaskMoves, TaskPlaces, Untasked
<1>4. B = { i \in P : log[i].starts } /\ B \in SUBSET (1..Len(log))
  BY <1>3 DEF TaskStarts
<1>5. \A i \in TaskPlaces(log) :
        /\ log[i].n \in 1..c /\ log[i].n \in DOMAIN Moved
        /\ log[i].task = Moved[log[i].n].task /\ log[i].starts = Moved[log[i].n].starts
        /\ log[i].by = Moved[log[i].n].by
  BY HeldMoves, MoveFacts DEF Ordered
<1>6. \A n \in 1..c : \E i \in TaskPlaces(log) : log[i].n = n
  BY HeldMoves
<1>7. \A i, j \in TaskPlaces(log) : i < j => log[i].n < log[j].n
  BY DEF Ordered
<1> HIDE DEF P, B, c
<1>8. f \in [P -> Seen(c, t)]
  BY <1>3, <1>5 DEF Seen
<1>9. g \in [B -> Begun(c, t)]
  BY <1>3, <1>4, <1>5 DEF Seen, Begun
<1>10. \A n \in Seen(c, t) : \E i \in P : f[i] = n
  <2> TAKE n \in Seen(c, t)
  <2>1. n \in 1..c /\ Moved[n].task = t
    BY DEF Seen
  <2>2. PICK i \in TaskPlaces(log) : log[i].n = n
    BY <1>6, <2>1
  <2>3. i \in P
    BY <1>3, <1>5, <2>1, <2>2
  <2> QED BY <2>2, <2>3
<1>11. \A n \in Begun(c, t) : \E i \in B : g[i] = n
  BY <1>3, <1>4, <1>5, <1>6 DEF Seen, Begun
<1>12. (\A i, j \in P : i < j => f[i] < f[j]) /\ (\A i, j \in B : i < j => g[i] < g[j])
  BY <1>3, <1>4, <1>7
<1>13. Seen(c, t) \in SUBSET (1..c) /\ Begun(c, t) \in SUBSET (1..c)
  BY <1>1, SeenFacts
<1>14. (\A i \in P : f[i] = log[i].n) /\ (\A i \in B : g[i] = log[i].n)
  OBVIOUS
<1> HIDE DEF f, g
<1>15. /\ Cardinality(P) = Cardinality(Seen(c, t)) /\ (P = {} <=> Seen(c, t) = {})
       /\ P # {} => Max(P) \in P /\ f[Max(P)] = Max(Seen(c, t))
  <2> DEFINE Q == Seen(c, t)
  <2>1. Q \in SUBSET (1..c) /\ P \in SUBSET (1..Len(log))
    BY <1>3, <1>13
  <2>2. InOrder(f, P, Q)
    BY <1>8, <1>10, <1>12 DEF InOrder
  <2> HIDE DEF Q
  <2>4. /\ Cardinality(P) = Cardinality(Q) /\ (P = {} <=> Q = {})
        /\ P # {} => Max(P) \in P /\ f[Max(P)] = Max(Q)
    BY <1>1, <2>1, <2>2, SameShape
  <2> QED BY <2>4 DEF Q
<1>16. /\ B = {} <=> Begun(c, t) = {}
       /\ B # {} => Min(B) \in B /\ g[Min(B)] = Min(Begun(c, t))
  <2> DEFINE Q == Begun(c, t)
  <2>1. Q \in SUBSET (1..c) /\ B \in SUBSET (1..Len(log))
    BY <1>4, <1>13
  <2>2. InOrder(g, B, Q)
    BY <1>9, <1>11, <1>12 DEF InOrder
  <2> HIDE DEF Q
  <2>4. (B = {} <=> Q = {}) /\ (B # {} => Min(B) \in B /\ g[Min(B)] = Min(Q))
    BY <1>1, <2>1, <2>2, SameShape
  <2> QED BY <2>4 DEF Q
<1>17. Mover(log, t) = IF Seen(c, t) = {} THEN None ELSE Moved[Max(Seen(c, t))].by
  <2>1. CASE P = {}
    BY <1>15, <2>1 DEF Mover, P
  <2>2. CASE P # {}
    <3>1. Mover(log, t) = log[Max(P)].by
      BY <2>2 DEF Mover, P
    <3>2. log[Max(P)].by = Moved[log[Max(P)].n].by
      BY <1>3, <1>5, <1>15, <2>2
    <3>3. log[Max(P)].n = Max(Seen(c, t))
      BY <1>14, <1>15, <2>2
    <3> QED BY <1>15, <2>2, <3>1, <3>2, <3>3
  <2> QED BY <2>1, <2>2
<1>18. Started(log, t) = IF Begun(c, t) = {} THEN None ELSE Min(Begun(c, t))
  <2>1. CASE B = {}
    BY <1>16, <2>1 DEF Started, B
  <2>2. CASE B # {}
    <3>1. Started(log, t) = log[Min(B)].n
      BY <2>2 DEF Started, B
    <3> QED BY <1>14, <1>16, <2>2, <3>1
  <2> QED BY <2>1, <2>2
<1> QED BY <1>15, <1>16, <1>17, <1>18 DEF P, B, c

-----------------------------------------------------------------------------
(* A log that only grew.                                                   *)
Grown(a, b) ==
  /\ a \in Seq(Event) /\ b \in Seq(Event)
  /\ Len(a) <= Len(b) /\ \A i \in 1..Len(a) : b[i] = a[i]

LEMMA UpToFacts ==
  ASSUME NEW s \in Seq(Event)
  PROVE  /\ \A i \in 0..Len(s) : UpTo(s, i) \subseteq ToSet(s)
         /\ \A i, j \in 0..Len(s) : i <= j => UpTo(s, i) \subseteq UpTo(s, j)
         /\ UpTo(s, Len(s)) = ToSet(s)
<1>1. Len(s) \in Nat /\ DOMAIN s = 1..Len(s)
  BY SeqFacts
<1>2. UpTo(s, Len(s)) = ToSet(s)
  BY <1>1 DEF UpTo, ToSet
<1>3. \A i \in 0..Len(s) : \A j \in 1..i : j \in DOMAIN s
  BY <1>1
<1>4. ASSUME NEW i \in 0..Len(s), NEW j \in 0..Len(s), i <= j PROVE UpTo(s, i) \subseteq UpTo(s, j)
  <2>1. \A x \in 1..i : x \in 1..j
    BY <1>1, <1>4
  <2> QED BY <2>1 DEF UpTo
<1> QED BY <1>2, <1>3, <1>4 DEF UpTo, ToSet

LEMMA GrownFacts ==
  ASSUME NEW a, NEW b, Grown(a, b)
  PROVE  /\ \A i \in 0..Len(a) : UpTo(b, i) = UpTo(a, i)
         /\ ToSet(a) \subseteq ToSet(b)
         /\ Len(a) \in Nat /\ Len(b) \in Nat
         /\ \A i \in 0..Len(a) : i \in 0..Len(b)
         /\ TaskPlaces(a) = { i \in TaskPlaces(b) : i <= Len(a) }
<1>1. /\ a \in Seq(Event) /\ b \in Seq(Event) /\ Len(a) \in Nat /\ Len(b) \in Nat
      /\ DOMAIN a = 1..Len(a) /\ DOMAIN b = 1..Len(b) /\ Len(a) <= Len(b)
      /\ \A i \in 1..Len(a) : b[i] = a[i]
  BY SeqFacts DEF Grown
<1>2. ASSUME NEW i \in 0..Len(a) PROVE UpTo(b, i) = UpTo(a, i)
  <2>1. \A j \in 1..i : j \in 1..Len(a)
    BY <1>1
  <2> QED BY <1>1, <2>1 DEF UpTo
<1>3. \A i \in 1..Len(a) : i \in 1..Len(b)
  BY <1>1
<1>4. ToSet(a) \subseteq ToSet(b)
  BY <1>1, <1>3 DEF ToSet
<1>5. \A i \in 0..Len(a) : i \in 0..Len(b)
  BY <1>1
<1>6. TaskPlaces(a) = { i \in TaskPlaces(b) : i <= Len(a) }
  BY <1>1, <1>3 DEF TaskPlaces
<1> QED BY <1>1, <1>2, <1>4, <1>5, <1>6

LEMMA GrownSame == ASSUME NEW s \in Seq(Event) PROVE Grown(s, s)
BY SeqFacts DEF Grown

(* Others that are not in it yet, behind a log.                            *)
LEMMA GrownBehind ==
  ASSUME NEW s \in Seq(Event), NEW f \in Seq(Event)
  PROVE  /\ Grown(s, s \o f) /\ ToSet(s \o f) = ToSet(s) \cup ToSet(f)
         /\ NoTwice(s) /\ NoTwice(f) /\ ToSet(s) \cap ToSet(f) = {} => NoTwice(s \o f)
<1> DEFINE u == s \o f
<1>1. /\ u \in Seq(Event) /\ Len(u) = Len(s) + Len(f) /\ Len(s) \in Nat /\ Len(f) \in Nat
      /\ DOMAIN u = 1..(Len(s) + Len(f)) /\ DOMAIN s = 1..Len(s) /\ DOMAIN f = 1..Len(f)
      /\ \A i \in 1..Len(s) : u[i] = s[i]
      /\ \A i \in 1..Len(f) : u[Len(s) + i] = f[i]
      /\ \A i \in 1..(Len(s) + Len(f)) : i \in 1..Len(s) \/ \E j \in 1..Len(f) : i = Len(s) + j
      /\ ToSet(u) = ToSet(s) \cup ToSet(f)
  BY BehindFacts, SeqFacts
<1> HIDE DEF u
<1>2. Grown(s, u)
  <2>1. Len(s) <= Len(u)
    BY <1>1
  <2> QED BY <1>1, <2>1 DEF Grown
<1>3. ASSUME NoTwice(s), NoTwice(f), ToSet(s) \cap ToSet(f) = {} PROVE NoTwice(u)
  <2> SUFFICES ASSUME NEW i \in DOMAIN u, NEW j \in DOMAIN u, u[i] = u[j] PROVE i = j
    BY DEF NoTwice
  <2>0. (\A x \in 1..Len(s) : u[x] \in ToSet(s)) /\ (\A x \in 1..Len(f) : u[Len(s) + x] \in ToSet(f))
    BY <1>1 DEF ToSet
  <2>1. CASE i \in 1..Len(s) /\ j \in 1..Len(s)
    BY <1>1, <1>3, <2>1 DEF NoTwice
  <2>2. CASE i \in 1..Len(s) /\ j \notin 1..Len(s)
    BY <1>1, <1>3, <2>0, <2>2
  <2>3. CASE i \notin 1..Len(s) /\ j \in 1..Len(s)
    BY <1>1, <1>3, <2>0, <2>3
  <2>4. CASE i \notin 1..Len(s) /\ j \notin 1..Len(s)
    <3>1. PICK x \in 1..Len(f) : i = Len(s) + x
      BY <1>1, <2>4
    <3>2. PICK y \in 1..Len(f) : j = Len(s) + y
      BY <1>1, <2>4
    <3>3. f[x] = f[y]
      BY <1>1, <3>1, <3>2
    <3>4. x = y
      BY <1>1, <1>3, <3>3 DEF NoTwice
    <3> QED BY <3>1, <3>2, <3>4
  <2> QED BY <2>1, <2>2, <2>3, <2>4
<1> QED BY <1>1, <1>2, <1>3 DEF u

LEMMA OneBehind ==
  ASSUME NEW s \in Seq(Event), NEW e \in Event
  PROVE  /\ Append(s, e) = s \o <<e>> /\ <<e>> \in Seq(Event) /\ ToSet(<<e>>) = {e} /\ NoTwice(<<e>>)
         /\ Grown(s, Append(s, e)) /\ ToSet(Append(s, e)) = ToSet(s) \cup {e}
         /\ NoTwice(s) /\ e \notin ToSet(s) => NoTwice(Append(s, e))
<1>1. <<e>> \in Seq(Event) /\ ToSet(<<e>>) = {e} /\ NoTwice(<<e>>)
  BY DEF ToSet, NoTwice
<1>2. Append(s, e) = s \o <<e>>
  BY AppendIsConcat
<1>3. ToSet(s) \cap {e} = {} <=> e \notin ToSet(s)
  OBVIOUS
<1> DEFINE f == <<e>>
<1> HIDE DEF f
<1>4. /\ Grown(s, s \o f) /\ ToSet(s \o f) = ToSet(s) \cup ToSet(f)
      /\ NoTwice(s) /\ NoTwice(f) /\ ToSet(s) \cap ToSet(f) = {} => NoTwice(s \o f)
  BY <1>1, GrownBehind DEF f
<1> QED BY <1>1, <1>2, <1>3, <1>4 DEF f

LEMMA LenOfSet ==
  ASSUME NEW S, NEW s \in Seq(S), NoTwice(s)
  PROVE  Cardinality(ToSet(s)) = Len(s)
<1>1. Len(s) \in Nat /\ DOMAIN s = 1..Len(s) /\ s \in [1..Len(s) -> ToSet(s)]
  BY SeqFacts DEF ToSet
<1>2. s \in Bijection(1..Len(s), ToSet(s))
  BY <1>1 DEF NoTwice, Bijection, Injection, IsInjective, Surjection, ToSet
<1>3. ExistsBijection(1..Len(s), ToSet(s))
  BY <1>2 DEF ExistsBijection
<1>4. IsFiniteSet(1..Len(s)) /\ Cardinality(1..Len(s)) = Len(s)
  BY <1>1, FS_Interval
<1> QED BY <1>3, <1>4, FS_Bijection

(* What a pull brings follows on a stretch of the other log the lane holds *)
(* already, so inserting what is new keeps the order and leaves no gap.    *)
LEMMA OrderedInsert ==
  ASSUME NEW l \in Seq(Event), Ordered(l), NEW h \in Seq(Event), Ordered(h),
         NEW b \in Seq(Event), NoTwice(b), NEW k \in 0..Len(h), NEW m \in 0..Len(h), k <= m,
         Len(b) = m - k, \A i \in 1..(m - k) : b[i] = h[k + i], UpTo(h, k) \subseteq ToSet(l)
  PROVE  Ordered(l \o Fresh(l, b))
<1> DEFINE f == Fresh(l, b)
           u == l \o f
           c == Held(l)
<1>1. /\ f \in Seq(Event) /\ ToSet(f) = ToSet(b) \ ToSet(l)
      /\ \A x, y \in DOMAIN f : x < y => \E i, j \in DOMAIN b : i < j /\ b[i] = f[x] /\ b[j] = f[y]
  BY FreshProperties
<1>2. /\ Len(l) \in Nat /\ Len(h) \in Nat /\ DOMAIN l = 1..Len(l) /\ DOMAIN h = 1..Len(h)
      /\ DOMAIN b = 1..(m - k) /\ k \in Nat /\ m \in Nat
      /\ DOMAIN f = 1..Len(f) /\ Len(f) \in Nat
  BY <1>1, SeqFacts
<1> HIDE DEF f
<1>3. /\ u \in Seq(Event) /\ DOMAIN u = 1..(Len(l) + Len(f))
      /\ \A i \in 1..Len(l) : u[i] = l[i]
      /\ \A i \in 1..Len(f) : u[Len(l) + i] = f[i]
      /\ \A i \in 1..(Len(l) + Len(f)) : i \in 1..Len(l) \/ \E j \in 1..Len(f) : i = Len(l) + j
      /\ ToSet(u) = ToSet(l) \cup ToSet(f)
  BY <1>1, BehindFacts
<1> HIDE DEF u
<1>4. c \in Nat /\ (\A i \in TaskPlaces(l) : l[i].n \in 1..c) /\ \A n \in 1..c : \E i \in TaskPlaces(l) : l[i].n = n
  BY PlacesFacts, HeldMoves
<1> HIDE DEF c
<1>5. \A n \in 1..c : Move(n) \in ToSet(l)
  <2> TAKE n \in 1..c
  <2>1. PICK i \in TaskPlaces(l) : l[i].n = n
    BY <1>4
  <2>2. l[i] = Move(n) /\ i \in DOMAIN l
    BY <2>1 DEF Ordered, TaskPlaces
  <2> QED BY <2>2 DEF ToSet
(* Where an event of the stretch is in the other log.                      *)
<1>6. \A i \in DOMAIN b : k + i \in DOMAIN h /\ h[k + i] = b[i]
  BY <1>2
<1>7. ASSUME NEW e \in ToSet(f), e.type = "task"
      PROVE  e.n \in DOMAIN Moved /\ e = Move(e.n) /\ e.n \in Nat /\ c < e.n
  <2>1. PICK i \in DOMAIN b : e = b[i]
    BY <1>1 DEF ToSet
  <2>2. k + i \in TaskPlaces(h) /\ h[k + i] = e
    BY <1>6, <1>7, <2>1 DEF TaskPlaces
  <2>3. e.n \in DOMAIN Moved /\ e = Move(e.n)
    BY <2>2 DEF Ordered
  <2>4. e.n \in Nat /\ 1 <= e.n
    BY <2>3, MoveFacts
  <2>5. e.n \notin 1..c
    BY <1>1, <1>5, <2>3
  <2> QED BY <1>4, <2>3, <2>4, <2>5
<1>8. \A i \in TaskPlaces(u) : \/ i \in TaskPlaces(l) /\ u[i] = l[i] /\ i \in 1..Len(l)
                               \/ \E j \in DOMAIN f : i = Len(l) + j /\ u[i] = f[j] /\ f[j] \in ToSet(f)
                                                      /\ f[j].type = "task"
  <2> TAKE i \in TaskPlaces(u)
  <2>1. i \in 1..(Len(l) + Len(f)) /\ u[i].type = "task"
    BY <1>3 DEF TaskPlaces
  <2>2. CASE i \in 1..Len(l)
    BY <1>2, <1>3, <2>1, <2>2 DEF TaskPlaces
  <2>3. CASE i \notin 1..Len(l)
    <3>1. PICK j \in 1..Len(f) : i = Len(l) + j
      BY <1>3, <2>1, <2>3
    <3> QED BY <1>2, <1>3, <2>1, <3>1 DEF ToSet
  <2> QED BY <2>2, <2>3
<1>9. \A i \in TaskPlaces(u) : u[i].n \in DOMAIN Moved /\ u[i] = Move(u[i].n)
  <2> TAKE i \in TaskPlaces(u)
  <2>1. CASE i \in TaskPlaces(l) /\ u[i] = l[i]
    BY <2>1 DEF Ordered
  <2>2. CASE u[i] \in ToSet(f) /\ u[i].type = "task"
    BY <1>7, <2>2
  <2> QED BY <1>8, <2>1, <2>2
<1>10. ASSUME NEW i \in TaskPlaces(u), NEW j \in TaskPlaces(u), i < j PROVE u[i].n < u[j].n
  <2>1. CASE i \in TaskPlaces(l) /\ u[i] = l[i] /\ j \in TaskPlaces(l) /\ u[j] = l[j]
    BY <1>10, <2>1 DEF Ordered
  <2>2. CASE i \in TaskPlaces(l) /\ u[i] = l[i] /\ u[j] \in ToSet(f) /\ u[j].type = "task"
    <3>1. u[i].n \in 1..c
      BY <1>4, <2>2
    <3>2. u[j].n \in Nat /\ c < u[j].n
      BY <1>7, <2>2
    <3> QED BY <1>4, <3>1, <3>2
  <2>3. ASSUME NEW x \in DOMAIN f, i = Len(l) + x, NEW y \in DOMAIN f, j = Len(l) + y,
               u[i] = f[x], u[j] = f[y], f[x].type = "task", f[y].type = "task"
        PROVE  u[i].n < u[j].n
    <3>1. x < y
      BY <1>2, <1>10, <2>3
    <3>2. PICK v, w \in DOMAIN b : v < w /\ b[v] = f[x] /\ b[w] = f[y]
      BY <1>1, <3>1
    <3>3. k + v \in TaskPlaces(h) /\ k + w \in TaskPlaces(h) /\ k + v < k + w
      BY <1>2, <1>6, <2>3, <3>2 DEF TaskPlaces
    <3>4. h[k + v].n < h[k + w].n
      BY <3>3 DEF Ordered
    <3> QED BY <1>6, <2>3, <3>2, <3>4
  <2>4. ASSUME NEW x \in DOMAIN f, i = Len(l) + x, j \in 1..Len(l) PROVE FALSE
    BY <1>2, <1>10, <2>4
  <2> QED BY <1>8, <2>1, <2>2, <2>3, <2>4
<1>11. \A e \in ToSet(u) : e.type = "task" => \E i \in TaskPlaces(u) : u[i] = e
  BY DEF ToSet, TaskPlaces
<1>12. ASSUME NEW i \in TaskPlaces(u), NEW n \in 1..u[i].n PROVE \E j \in TaskPlaces(u) : u[j].n = n
  <2>1. CASE i \in TaskPlaces(l) /\ u[i] = l[i]
    <3>1. PICK j \in TaskPlaces(l) : l[j].n = n
      BY <1>12, <2>1 DEF Ordered
    <3>2. l[j] \in ToSet(u) /\ l[j].type = "task"
      BY <1>3 DEF TaskPlaces, ToSet
    <3> QED BY <1>11, <3>1, <3>2
  <2>2. CASE u[i] \in ToSet(f) /\ u[i].type = "task"
    <3>0. u[i] \in ToSet(b)
      BY <1>1, <2>2
    <3>1. PICK x \in DOMAIN b : u[i] = b[x]
      BY <3>0 DEF ToSet
    <3>2. k + x \in TaskPlaces(h) /\ h[k + x] = u[i]
      BY <1>6, <2>2, <3>1 DEF TaskPlaces
    <3>3. PICK j \in TaskPlaces(h) : h[j].n = n
      BY <1>12, <3>2 DEF Ordered
    <3>4. j \in 1..Len(h) /\ h[j].type = "task" /\ h[j].n \in Nat /\ h[k + x].n \in Nat
      BY <1>2, <3>2, <3>3, PlacesFacts DEF TaskPlaces
    <3>5. ~(k + x < j)
      <4> SUFFICES ASSUME k + x < j PROVE FALSE
        OBVIOUS
      <4>1. h[k + x].n < h[j].n
        BY <3>2, <3>3 DEF Ordered
      <4>2. n <= h[k + x].n /\ n \in Int
        BY <1>12, <3>2, <3>4
      <4> QED BY <3>3, <3>4, <4>1, <4>2
    <3>6. h[j] \in ToSet(u)
      <4>1. CASE j <= k
        <5>1. j \in 1..k
          BY <1>2, <3>4, <4>1
        <5> QED BY <1>3, <5>1 DEF UpTo
      <4>2. CASE ~(j <= k)
        <5>1. j - k \in 1..(m - k) /\ k + (j - k) = j
          BY <1>2, <3>1, <3>4, <3>5, <4>2
        <5>2. b[j - k] = h[j] /\ j - k \in DOMAIN b
          BY <1>2, <5>1
        <5>3. h[j] \in ToSet(b)
          BY <5>2 DEF ToSet
        <5> QED BY <1>1, <1>3, <5>3
      <4> QED BY <4>1, <4>2
    <3> QED BY <1>11, <3>3, <3>4, <3>6
  <2> QED BY <1>8, <2>1, <2>2
<1> QED BY <1>9, <1>10, <1>12 DEF Ordered, u, f

-----------------------------------------------------------------------------
(* The inductive invariant. Its parts are about a log h at the relay, the  *)
(* lane l and what was appended here o, so that they can be stated of the  *)
(* state before a step and of the one after.                               *)
Logs(h, l, o) ==
  /\ h \in Seq(Event) /\ NoTwice(h) /\ Ordered(h)
  /\ l \in Seq(Event) /\ NoTwice(l) /\ Ordered(l)
  /\ o \subseteq ToSet(l)
  /\ \A e \in o : e.type \in {"memory", "genesis"} /\ e.task = None
  /\ \A e \in ToSet(h) : e.type = "task" \/ e \in o
  /\ \A e \in ToSet(l) : e \in ToSet(h) \/ e \in o \/ e = Anchor

(* A sync file's watermarks cover what precedes them.                      *)
PulledOK(h, l, w) == \E i \in 1..Len(h) : h[i] = w /\ UpTo(h, i) \subseteq ToSet(l)
PushedOK(h, l, o, w) == \E i \in 1..Len(l) : l[i] = w /\ UpTo(l, i) \cap o \subseteq ToSet(h)
Covers(h, l, o, f) ==
  /\ f \in Sync
  /\ f.pulled # None => PulledOK(h, l, f.pulled)
  /\ f.pushed # None => PushedOK(h, l, o, f.pushed)
FileOK(h, l, o, f) == f # None => Covers(h, l, o, f)

(* What a pull brings follows on what the lane holds, and reaches beyond   *)
(* what the log held when the board was asked for.                         *)
Fetched(h, l, r) ==
  \E k, m \in 0..Len(h) :
    /\ k <= m /\ Len(r.batch) = m - k /\ \A i \in 1..(m - k) : r.batch[i] = h[k + i]
    /\ r.began <= m /\ UpTo(h, k) \subseteq ToSet(l)

Inserted(h, l, r) ==
  \E m \in 0..Len(h) :
    /\ r.began <= m /\ UpTo(h, m) \subseteq ToSet(l)
    /\ r.batch # << >> => m # 0 /\ Last(r.batch) = h[m]

(* A card is that of the first c moves, which reach beyond what the log    *)
(* held when the board was asked for; only the count may be later.         *)
Tells(c, t, card) ==
  /\ card \in Card
  /\ card.moves >= Cardinality(Seen(c, t))
  /\ card.member = IF Seen(c, t) = {} THEN None ELSE Moved[Max(Seen(c, t))].by
  /\ card.started = IF Begun(c, t) = {} THEN None ELSE Min(Begun(c, t))

Shown(h, r) ==
  \E c \in 0..Held(h) :
    /\ \A i \in TaskPlaces(h) : i <= r.began => h[i].n <= c
    /\ \A t \in Tasks : Tells(c, t, r.cards[t])

ReadOK(h, l, r) ==
  /\ r.at = "insert" => Fetched(h, l, r)
  /\ r.at = "settle" /\ r.by = None => Inserted(h, l, r)
  /\ r.at = "read" => UpTo(h, r.began) \subseteq ToSet(l)
  /\ r.at = "project" => r.read <= Len(l) /\ UpTo(h, r.began) \subseteq UpTo(l, r.read)
  /\ r.at = "shown" => Shown(h, r)

(* What a push sends, with what is at the relay, is all that was appended  *)
(* here up to some place of the lane.                                      *)
Sent(h, l, o, r) ==
  /\ ToSet(r.batch) \subseteq o /\ NoTwice(r.batch)
  /\ Memory(r) \in ToSet(h) \cup ToSet(r.batch)
  /\ \E m \in 0..Len(l) : /\ ToSet(r.batch) \subseteq UpTo(l, m)
                          /\ UpTo(l, m) \cap o \subseteq ToSet(h) \cup ToSet(r.batch)

Stored(h, l, o, r) ==
  /\ Memory(r) \in ToSet(h)
  /\ \E m \in 0..Len(l) : ToSet(r.batch) \subseteq UpTo(l, m) /\ UpTo(l, m) \cap o \subseteq ToSet(h)

AuthorOK(h, l, o, r) ==
  /\ r.by # None /\ r.at \notin {"genesis", "append"} => Memory(r) \in o
  /\ r.at = "arrive" => Sent(h, l, o, r)
  /\ r.at = "settle" /\ r.by # None => Stored(h, l, o, r)
  /\ r.at = "told" => Memory(r) \in ToSet(h)

RequestOK(h, l, o, r) ==
  r.began <= Len(h) /\ FileOK(h, l, o, r.file) /\ ReadOK(h, l, r) /\ AuthorOK(h, l, o, r)

(* Who does what, and what an author has not appended yet.                 *)
Fits(o, a, r) ==
  /\ r.n <= a
  /\ r.at \in {"genesis", "append", "push", "arrive", "told"} => r.by # None
  /\ r.at \in {"idle", "ensure", "anchor", "pull", "insert", "read", "project", "shown"} => r.by = None
  /\ r.at = "genesis" => \A e \in o : e.n # r.n
  /\ r.at = "append" => \A e \in o : e.n = r.n => e.type = "genesis"

Apart == \A s, q \in Slots : s # q /\ req[s].by # None /\ req[q].by # None => req[s].n # req[q].n

IInv ==
  /\ req \in [Slots -> Request] /\ asked \in 0..MaxRequests /\ opened \in BOOLEAN
  /\ Logs(hub, lane, own) /\ \A e \in own : e.n <= asked
  /\ FileOK(hub, lane, own, sync)
  /\ \A s \in Slots : RequestOK(hub, lane, own, req[s]) /\ Fits(own, asked, req[s])
  /\ Apart

-----------------------------------------------------------------------------
(* What a request relies on stays so when the logs grow.                   *)
LEMMA FileStays ==
  ASSUME NEW h, NEW h2, NEW l, NEW l2, NEW o, NEW o2,
         Grown(h, h2), Grown(l, l2), o2 \cap ToSet(l) \subseteq o, NEW f, FileOK(h, l, o, f)
  PROVE  FileOK(h2, l2, o2, f)
<1>1. /\ \A i \in 0..Len(h) : UpTo(h2, i) = UpTo(h, i) /\ i \in 0..Len(h2)
      /\ \A i \in 0..Len(l) : UpTo(l2, i) = UpTo(l, i) /\ i \in 0..Len(l2)
      /\ ToSet(h) \subseteq ToSet(h2) /\ ToSet(l) \subseteq ToSet(l2)
      /\ Len(h) \in Nat /\ Len(l) \in Nat /\ Len(h2) \in Nat /\ Len(l2) \in Nat
  BY GrownFacts
<1>2. (\A i \in 1..Len(h) : h2[i] = h[i]) /\ \A i \in 1..Len(l) : l2[i] = l[i]
  BY DEF Grown
<1>3. \A i \in 0..Len(l) : UpTo(l, i) \subseteq ToSet(l)
  BY UpToFacts DEF Grown
<1>4. ASSUME NEW w, PulledOK(h, l, w) PROVE PulledOK(h2, l2, w)
  <2>1. PICK i \in 1..Len(h) : h[i] = w /\ UpTo(h, i) \subseteq ToSet(l)
    BY <1>4 DEF PulledOK
  <2>2. i \in 0..Len(h) /\ i \in 1..Len(h2)
    BY <1>1, <2>1
  <2> QED BY <1>1, <1>2, <2>1, <2>2 DEF PulledOK
<1>5. ASSUME NEW w, PushedOK(h, l, o, w) PROVE PushedOK(h2, l2, o2, w)
  <2>1. PICK i \in 1..Len(l) : l[i] = w /\ UpTo(l, i) \cap o \subseteq ToSet(h)
    BY <1>5 DEF PushedOK
  <2>2. i \in 0..Len(l) /\ i \in 1..Len(l2)
    BY <1>1, <2>1
  <2>3. UpTo(l2, i) \cap o2 \subseteq ToSet(h2)
    BY <1>1, <1>3, <2>1, <2>2
  <2> QED BY <1>2, <2>1, <2>2, <2>3 DEF PushedOK
<1> QED BY <1>4, <1>5 DEF FileOK, Covers

LEMMA ReadStays ==
  ASSUME NEW h, NEW h2, NEW l, NEW l2, Grown(h, h2), Grown(l, l2),
         Ordered(h), Ordered(h2), NEW r \in Request, r.began <= Len(h), ReadOK(h, l, r)
  PROVE  ReadOK(h2, l2, r) /\ r.began <= Len(h2)
<1>1. /\ \A i \in 0..Len(h) : UpTo(h2, i) = UpTo(h, i) /\ i \in 0..Len(h2)
      /\ \A i \in 0..Len(l) : UpTo(l2, i) = UpTo(l, i) /\ i \in 0..Len(l2)
      /\ ToSet(h) \subseteq ToSet(h2) /\ ToSet(l) \subseteq ToSet(l2)
      /\ Len(h) \in Nat /\ Len(l) \in Nat /\ Len(h2) \in Nat /\ Len(l2) \in Nat
      /\ TaskPlaces(h) = { i \in TaskPlaces(h2) : i <= Len(h) }
  BY GrownFacts
<1>2. /\ \A i \in 1..Len(h) : h2[i] = h[i]
      /\ h \in Seq(Event) /\ h2 \in Seq(Event) /\ Len(h) <= Len(h2) /\ Len(l) <= Len(l2)
  BY DEF Grown
<1>3. r.began \in 0..Len(h) /\ r.read \in Nat
  BY <1>1 DEF Request
<1>4. r.began <= Len(h2)
  BY <1>1, <1>2, <1>3
<1>5. ASSUME r.at = "insert" PROVE Fetched(h2, l2, r)
  <2>1. PICK k, m \in 0..Len(h) :
          /\ k <= m /\ Len(r.batch) = m - k /\ \A i \in 1..(m - k) : r.batch[i] = h[k + i]
          /\ r.began <= m /\ UpTo(h, k) \subseteq ToSet(l)
    BY <1>5 DEF ReadOK, Fetched
  <2>2. k \in 0..Len(h2) /\ m \in 0..Len(h2) /\ UpTo(h2, k) \subseteq ToSet(l2)
    BY <1>1, <2>1
  <2>3. \A i \in 1..(m - k) : r.batch[i] = h2[k + i]
    <3> TAKE i \in 1..(m - k)
    <3>1. k + i \in 1..Len(h)
      BY <1>1, <2>1
    <3> QED BY <1>2, <2>1, <3>1
  <2> QED BY <2>1, <2>2, <2>3 DEF Fetched
<1>6. ASSUME r.at = "settle" /\ r.by = None PROVE Inserted(h2, l2, r)
  <2>1. PICK m \in 0..Len(h) : /\ r.began <= m /\ UpTo(h, m) \subseteq ToSet(l)
                               /\ r.batch # << >> => m # 0 /\ Last(r.batch) = h[m]
    BY <1>6 DEF ReadOK, Inserted
  <2>2. m \in 0..Len(h2) /\ UpTo(h2, m) \subseteq ToSet(l2)
    BY <1>1, <2>1
  <2>3. m # 0 => h2[m] = h[m]
    BY <1>1, <1>2, <2>1
  <2> QED BY <2>1, <2>2, <2>3 DEF Inserted
<1>7. ASSUME r.at = "read" PROVE UpTo(h2, r.began) \subseteq ToSet(l2)
  BY <1>1, <1>3, <1>7 DEF ReadOK
<1>8. ASSUME r.at = "project" PROVE r.read <= Len(l2) /\ UpTo(h2, r.began) \subseteq UpTo(l2, r.read)
  <2>1. r.read <= Len(l) /\ UpTo(h, r.began) \subseteq UpTo(l, r.read)
    BY <1>8 DEF ReadOK
  <2>2. r.read \in 0..Len(l) /\ r.read <= Len(l2)
    BY <1>1, <1>2, <1>3, <2>1
  <2> QED BY <1>1, <1>3, <2>1, <2>2
<1>9. ASSUME r.at = "shown" PROVE Shown(h2, r)
  <2>1. PICK c \in 0..Held(h) : /\ \A i \in TaskPlaces(h) : i <= r.began => h[i].n <= c
                                /\ \A t \in Tasks : Tells(c, t, r.cards[t])
    BY <1>9 DEF ReadOK, Shown
  <2>2. Held(h) <= Held(h2) /\ Held(h) \in Nat /\ Held(h2) \in Nat
    <3>1. \A i \in TaskPlaces(h) : h[i] \in ToSet(h2)
      <4>1. \A i \in TaskPlaces(h) : h[i] \in ToSet(h)
        BY DEF TaskPlaces, ToSet
      <4> QED BY <1>1, <4>1
    <3> QED BY <1>2, <3>1, HeldWithin, PlacesFacts
  <2>3. c \in 0..Held(h2)
    BY <2>2
  <2>4. ASSUME NEW i \in TaskPlaces(h2), i <= r.began PROVE h2[i].n <= c
    <3>1. i \in Nat /\ 1 <= i
      BY <1>2, SeqFacts DEF TaskPlaces
    <3>2. i \in TaskPlaces(h) /\ i \in 1..Len(h)
      BY <1>1, <1>3, <2>4, <3>1
    <3> QED BY <1>2, <2>1, <2>4, <3>2
  <2> QED BY <2>1, <2>3, <2>4 DEF Shown
<1> QED BY <1>4, <1>5, <1>6, <1>7, <1>8, <1>9 DEF ReadOK

LEMMA AuthorStays ==
  ASSUME NEW h, NEW h2, NEW l, NEW l2, NEW o, NEW o2,
         Grown(h, h2), Grown(l, l2), o \subseteq o2, o2 \cap ToSet(l) \subseteq o,
         NEW r, AuthorOK(h, l, o, r)
  PROVE  AuthorOK(h2, l2, o2, r)
<1>1. /\ \A i \in 0..Len(l) : UpTo(l2, i) = UpTo(l, i) /\ i \in 0..Len(l2)
      /\ ToSet(h) \subseteq ToSet(h2)
  BY GrownFacts
<1>2. \A i \in 0..Len(l) : UpTo(l, i) \subseteq ToSet(l)
  BY UpToFacts DEF Grown
<1>3. ASSUME Sent(h, l, o, r) PROVE Sent(h2, l2, o2, r)
  <2>1. /\ ToSet(r.batch) \subseteq o /\ NoTwice(r.batch)
        /\ Memory(r) \in ToSet(h) \cup ToSet(r.batch)
    BY <1>3 DEF Sent
  <2>2. PICK m \in 0..Len(l) : /\ ToSet(r.batch) \subseteq UpTo(l, m)
                               /\ UpTo(l, m) \cap o \subseteq ToSet(h) \cup ToSet(r.batch)
    BY <1>3 DEF Sent
  <2>3. /\ m \in 0..Len(l2) /\ ToSet(r.batch) \subseteq UpTo(l2, m)
        /\ UpTo(l2, m) \cap o2 \subseteq ToSet(h2) \cup ToSet(r.batch)
    BY <1>1, <1>2, <2>2
  <2> QED BY <1>1, <2>1, <2>3 DEF Sent
<1>4. ASSUME Stored(h, l, o, r) PROVE Stored(h2, l2, o2, r)
  <2>1. PICK m \in 0..Len(l) : ToSet(r.batch) \subseteq UpTo(l, m) /\ UpTo(l, m) \cap o \subseteq ToSet(h)
    BY <1>4 DEF Stored
  <2>2. m \in 0..Len(l2) /\ ToSet(r.batch) \subseteq UpTo(l2, m) /\ UpTo(l2, m) \cap o2 \subseteq ToSet(h2)
    BY <1>1, <1>2, <2>1
  <2> QED BY <1>1, <1>4, <2>2 DEF Stored
<1> QED BY <1>1, <1>3, <1>4 DEF AuthorOK

LEMMA RequestStays ==
  ASSUME NEW h, NEW h2, NEW l, NEW l2, NEW o, NEW o2,
         Grown(h, h2), Grown(l, l2), o \subseteq o2, o2 \cap ToSet(l) \subseteq o,
         Ordered(h), Ordered(h2), NEW r \in Request, RequestOK(h, l, o, r)
  PROVE  RequestOK(h2, l2, o2, r)
<1>1. FileOK(h2, l2, o2, r.file)
  BY FileStays DEF RequestOK
<1>2. ReadOK(h2, l2, r) /\ r.began <= Len(h2)
  BY ReadStays DEF RequestOK
<1>3. AuthorOK(h2, l2, o2, r)
  BY AuthorStays DEF RequestOK
<1> QED BY <1>1, <1>2, <1>3 DEF RequestOK

-----------------------------------------------------------------------------
(* Every way in which a log grows keeps the logs in order.                 *)
LEMMA TakesIn ==
  ASSUME NEW s \in Seq(Event), NoTwice(s), NEW b \in Seq(Event), NoTwice(b)
  PROVE  /\ s \o Fresh(s, b) \in Seq(Event) /\ NoTwice(s \o Fresh(s, b))
         /\ Grown(s, s \o Fresh(s, b)) /\ ToSet(s \o Fresh(s, b)) = ToSet(s) \cup ToSet(b)
         /\ Fresh(s, b) \in Seq(Event) /\ ToSet(Fresh(s, b)) = ToSet(b) \ ToSet(s)
<1> DEFINE f == Fresh(s, b)
<1>1. f \in Seq(Event) /\ ToSet(f) = ToSet(b) \ ToSet(s) /\ NoTwice(f)
  BY FreshProperties
<1> HIDE DEF f
<1>2. /\ Grown(s, s \o f) /\ ToSet(s \o f) = ToSet(s) \cup ToSet(f)
      /\ NoTwice(s) /\ NoTwice(f) /\ ToSet(s) \cap ToSet(f) = {} => NoTwice(s \o f)
  BY <1>1, GrownBehind
<1>3. ToSet(s) \cap ToSet(f) = {} /\ ToSet(s) \cup ToSet(f) = ToSet(s) \cup ToSet(b)
  BY <1>1
<1>4. s \o f \in Seq(Event)
  BY <1>2 DEF Grown
<1> QED BY <1>1, <1>2, <1>3, <1>4 DEF f

LEMMA LogsMove ==
  ASSUME NEW h, NEW l, NEW o, Logs(h, l, o), Held(h) < Len(Moved)
  PROVE  /\ Logs(Append(h, Move(Held(h) + 1)), l, o)
         /\ Grown(h, Append(h, Move(Held(h) + 1)))
<1> DEFINE e == Move(Held(h) + 1)
           h2 == Append(h, e)
<1>1. /\ h \in Seq(Event) /\ NoTwice(h) /\ Ordered(h)
      /\ l \in Seq(Event) /\ NoTwice(l) /\ Ordered(l) /\ o \subseteq ToSet(l)
      /\ \A x \in o : x.type \in {"memory", "genesis"} /\ x.task = None
      /\ \A x \in ToSet(h) : x.type = "task" \/ x \in o
      /\ \A x \in ToSet(l) : x \in ToSet(h) \/ x \in o \/ x = Anchor
  BY DEF Logs
<1>2. Held(h) + 1 \in DOMAIN Moved /\ Held(h) \in Nat
  BY <1>1, PlacesFacts, MoveFacts
<1>3. e \in Event /\ e.type = "task" /\ e.n = Held(h) + 1
  BY <1>2, MoveFacts
<1>4. Ordered(h2)
  BY <1>1, OrderedMove
<1> HIDE DEF e
<1>5. e \notin ToSet(h)
  <2> SUFFICES ASSUME e \in ToSet(h) PROVE FALSE
    OBVIOUS
  <2>1. PICK i \in TaskPlaces(h) : h[i] = e
    BY <1>3 DEF ToSet, TaskPlaces
  <2>2. h[i].n \in 1..Held(h)
    BY <1>1, HeldMoves
  <2> QED BY <1>2, <1>3, <2>1, <2>2
<1>6. Grown(h, h2) /\ ToSet(h2) = ToSet(h) \cup {e} /\ NoTwice(h2)
  BY <1>1, <1>3, <1>5, OneBehind
<1>7. h2 \in Seq(Event)
  BY <1>6 DEF Grown
<1> HIDE DEF h2
<1>8. Logs(h2, l, o)
  BY <1>1, <1>3, <1>4, <1>6, <1>7 DEF Logs
<1> QED BY <1>6, <1>8 DEF h2, e

LEMMA LogsAppend ==
  ASSUME NEW h, NEW l, NEW o, Logs(h, l, o),
         NEW e \in Event, e.type \in {"memory", "genesis"}, e.task = None, e \notin o
  PROVE  /\ Logs(h, Append(l, e), o \cup {e}) /\ Grown(l, Append(l, e)) /\ e \notin ToSet(l)
         /\ Grown(h, h)
<1> DEFINE l2 == Append(l, e)
<1>1. /\ h \in Seq(Event) /\ NoTwice(h) /\ Ordered(h)
      /\ l \in Seq(Event) /\ NoTwice(l) /\ Ordered(l) /\ o \subseteq ToSet(l)
      /\ \A x \in o : x.type \in {"memory", "genesis"} /\ x.task = None
      /\ \A x \in ToSet(h) : x.type = "task" \/ x \in o
      /\ \A x \in ToSet(l) : x \in ToSet(h) \/ x \in o \/ x = Anchor
  BY DEF Logs
<1>2. e \notin ToSet(l)
  <2>1. e # Anchor
    BY DEF Anchor
  <2> QED BY <1>1, <2>1
<1>3. /\ l2 = l \o <<e>> /\ <<e>> \in Seq(Event) /\ ToSet(<<e>>) = {e}
      /\ Grown(l, l2) /\ ToSet(l2) = ToSet(l) \cup {e} /\ NoTwice(l2)
  BY <1>1, <1>2, OneBehind
<1>4. Ordered(l2)
  <2> DEFINE b == <<e>>
  <2>1. b \in Seq(Event) /\ l2 = l \o b /\ \A x \in ToSet(b) : x.type # "task"
    BY <1>3
  <2> HIDE DEF b, l2
  <2>2. Ordered(l \o b)
    BY <1>1, <2>1, OrderedBehind
  <2> QED BY <2>1, <2>2
<1>5. l2 \in Seq(Event)
  BY <1>3 DEF Grown
<1>6. Grown(h, h)
  BY <1>1, GrownSame
<1> HIDE DEF l2
<1>7. Logs(h, l2, o \cup {e})
  BY <1>1, <1>3, <1>4, <1>5 DEF Logs
<1> QED BY <1>2, <1>3, <1>6, <1>7 DEF l2

LEMMA LogsInsert ==
  ASSUME NEW h, NEW l, NEW o, Logs(h, l, o), NEW b \in Seq(Event), NoTwice(b),
         Ordered(l \o Fresh(l, b)), \A e \in ToSet(b) : e \in ToSet(h) \/ e = Anchor
  PROVE  /\ Logs(h, l \o Fresh(l, b), o) /\ Grown(l, l \o Fresh(l, b)) /\ Grown(h, h)
         /\ ToSet(l \o Fresh(l, b)) = ToSet(l) \cup ToSet(b)
<1>1. l \in Seq(Event) /\ NoTwice(l) /\ h \in Seq(Event)
  BY DEF Logs
<1> DEFINE u == l \o Fresh(l, b)
<1>2. u \in Seq(Event) /\ NoTwice(u) /\ Grown(l, u) /\ ToSet(u) = ToSet(l) \cup ToSet(b)
  BY <1>1, TakesIn
<1>3. Ordered(u)
  OBVIOUS
<1>4. Grown(h, h)
  BY <1>1, GrownSame
<1> HIDE DEF u
<1>5. Logs(h, u, o)
  BY <1>2, <1>3 DEF Logs
<1> QED BY <1>2, <1>4, <1>5 DEF u

LEMMA LogsArrive ==
  ASSUME NEW h, NEW l, NEW o, Logs(h, l, o), NEW b \in Seq(Event), NoTwice(b), ToSet(b) \subseteq o
  PROVE  /\ Logs(h \o Fresh(h, b), l, o) /\ Grown(h, h \o Fresh(h, b)) /\ Grown(l, l)
         /\ ToSet(h \o Fresh(h, b)) = ToSet(h) \cup ToSet(b)
         /\ Fresh(h, b) \in Seq(Event) /\ ToSet(Fresh(h, b)) \subseteq ToSet(b)
<1>1. /\ h \in Seq(Event) /\ NoTwice(h) /\ Ordered(h) /\ l \in Seq(Event)
      /\ \A x \in o : x.type \in {"memory", "genesis"}
  BY DEF Logs
<1> DEFINE f == Fresh(h, b)
           u == h \o f
<1>2. /\ u \in Seq(Event) /\ NoTwice(u) /\ Grown(h, u) /\ ToSet(u) = ToSet(h) \cup ToSet(b)
      /\ f \in Seq(Event) /\ ToSet(f) = ToSet(b) \ ToSet(h)
  BY <1>1, TakesIn
<1>3. \A x \in ToSet(f) : x.type # "task"
  BY <1>1, <1>2
<1> HIDE DEF f
<1>4. Ordered(u)
  BY <1>1, <1>2, <1>3, OrderedBehind
<1>5. Grown(l, l)
  BY <1>1, GrownSame
<1> HIDE DEF u
<1>6. Logs(u, l, o)
  BY <1>2, <1>4 DEF Logs
<1> QED BY <1>2, <1>5, <1>6 DEF u, f

-----------------------------------------------------------------------------
(* A step of the request in slot s, which becomes r.                       *)
LEMMA StepKeeps ==
  ASSUME IInv, NEW s \in Slots, NEW r \in Request, req' = [req EXCEPT ![s] = r],
         asked' \in asked..MaxRequests, opened' \in BOOLEAN,
         Logs(hub', lane', own'), Grown(hub, hub'), Grown(lane, lane'),
         own \subseteq own', own' \cap ToSet(lane) \subseteq own,
         \A e \in own' : e \in own \/ (e.n = req[s].n /\ req[s].by # None),
         FileOK(hub', lane', own', sync'),
         RequestOK(hub', lane', own', r), Fits(own', asked', r),
         r.by # None => \/ r.n = req[s].n /\ req[s].by # None
                        \/ r.n = asked + 1
  PROVE  IInv'
<1>1. /\ req \in [Slots -> Request] /\ asked \in Nat /\ MaxRequests \in Nat /\ asked' \in Nat
      /\ asked <= asked'
  BY LaneAssumption DEF IInv
<1>2. /\ \A q \in Slots : req[q] \in Request /\ req'[q] = IF q = s THEN r ELSE req[q]
      /\ req' \in [Slots -> Request]
  BY <1>1
<1>3. /\ \A q \in Slots : RequestOK(hub, lane, own, req[q]) /\ Fits(own, asked, req[q])
      /\ \A e \in own : e.n <= asked
      /\ Logs(hub, lane, own) /\ Apart
  BY DEF IInv
<1>3a. (\A q \in Slots : req[q].n \in Nat /\ req[q].n <= asked) /\ r.n \in Nat
  BY <1>2, <1>3 DEF Fits, Request
<1>4. ASSUME NEW q \in Slots PROVE RequestOK(hub', lane', own', req'[q])
  <2>1. CASE q = s
    BY <1>2, <2>1
  <2>2. CASE q # s
    <3>1. Ordered(hub) /\ Ordered(hub')
      BY <1>3 DEF Logs
    <3>2. RequestOK(hub', lane', own', req[q])
      BY <1>2, <1>3, <3>1, RequestStays
    <3> QED BY <1>2, <2>2, <3>2
  <2> QED BY <2>1, <2>2
<1>5. \A e \in own' : e.n <= asked'
  <2> TAKE e \in own'
  <2>1. CASE e \in own
    <3>1. e \in Event
      BY <1>3, <2>1, SeqFacts DEF Logs
    <3>2. e.n \in Nat
      BY <3>1 DEF Event
    <3> QED BY <1>1, <1>3, <2>1, <3>2
  <2>2. CASE e.n = req[s].n
    BY <1>1, <1>3a, <2>2
  <2> QED BY <2>1, <2>2
<1>6. ASSUME NEW q \in Slots, q # s, req[q].by # None, req[s].by # None PROVE req[q].n # req[s].n
  BY <1>3, <1>6 DEF Apart
<1>7. ASSUME NEW q \in Slots PROVE Fits(own', asked', req'[q])
  <2>1. CASE q = s
    BY <1>2, <2>1
  <2>2. CASE q # s
    <3>1. Fits(own, asked, req[q]) /\ req'[q] = req[q]
      BY <1>2, <1>3, <2>2
    <3>2. req[q].n <= asked'
      BY <1>1, <1>3a
    <3>3. req[q].by # None => \A e \in own' : e \in own \/ e.n # req[q].n
      BY <1>6, <2>2
    <3> QED BY <3>1, <3>2, <3>3 DEF Fits
  <2> QED BY <2>1, <2>2
<1>8. Apart'
  <2> SUFFICES ASSUME NEW p \in Slots, NEW q \in Slots, p # q, req'[p].by # None, req'[q].by # None
               PROVE req'[p].n # req'[q].n
    BY DEF Apart
  <2>1. CASE p # s /\ q # s
    BY <1>2, <1>3, <2>1 DEF Apart
  <2>2. ASSUME NEW x \in Slots, x # s, req[x].by # None, r.by # None PROVE req[x].n # r.n
    <3>1. CASE r.n = req[s].n /\ req[s].by # None
      BY <1>6, <2>2, <3>1
    <3>2. CASE r.n = asked + 1
      BY <1>1, <1>3a, <3>2
    <3> QED BY <2>2, <3>1, <3>2
  <2>3. CASE p = s
    BY <1>2, <2>2, <2>3
  <2>4. CASE q = s
    BY <1>2, <2>2, <2>4
  <2> QED BY <2>1, <2>3, <2>4
<1>9. asked' \in 0..MaxRequests
  BY <1>1
<1> QED BY <1>2, <1>4, <1>5, <1>7, <1>8, <1>9 DEF IInv

LEMMA QuietKeeps ==
  ASSUME IInv, NEW s \in Slots, NEW r \in Request, req' = [req EXCEPT ![s] = r],
         UNCHANGED <<hub, lane, own, asked>>, opened' \in BOOLEAN,
         FileOK(hub, lane, own, sync'),
         RequestOK(hub, lane, own, r), Fits(own, asked, r),
         r.by # None => r.n = req[s].n /\ req[s].by # None
  PROVE  IInv'
<1>1. /\ asked' \in asked..MaxRequests /\ hub' = hub /\ lane' = lane /\ own' = own /\ asked' = asked
  BY LaneAssumption DEF IInv
<1>2. Logs(hub', lane', own') /\ Grown(hub, hub') /\ Grown(lane, lane')
  <2>1. Logs(hub, lane, own) /\ hub \in Seq(Event) /\ lane \in Seq(Event)
    BY DEF IInv, Logs
  <2> QED BY <1>1, <2>1, GrownSame
<1>3. /\ own \subseteq own' /\ own' \cap ToSet(lane) \subseteq own
      /\ \A e \in own' : e \in own \/ (e.n = req[s].n /\ req[s].by # None)
  BY <1>1
<1>4. FileOK(hub', lane', own', sync') /\ RequestOK(hub', lane', own', r) /\ Fits(own', asked', r)
  BY <1>1
<1> QED BY <1>1, <1>2, <1>3, <1>4, StepKeeps

LEMMA Here ==
  ASSUME IInv, NEW s \in Slots
  PROVE  /\ req[s] \in Request /\ RequestOK(hub, lane, own, req[s]) /\ Fits(own, asked, req[s])
         /\ FileOK(hub, lane, own, req[s].file) /\ ReadOK(hub, lane, req[s])
         /\ AuthorOK(hub, lane, own, req[s]) /\ req[s].began <= Len(hub)
         /\ Logs(hub, lane, own) /\ FileOK(hub, lane, own, sync)
         /\ hub \in Seq(Event) /\ lane \in Seq(Event) /\ NoTwice(hub) /\ NoTwice(lane)
         /\ Ordered(hub) /\ Ordered(lane) /\ opened \in BOOLEAN
         /\ asked \in Nat /\ MaxRequests \in Nat /\ asked <= MaxRequests
BY LaneAssumption DEF IInv, RequestOK, Logs

(* What a request becomes.                                                 *)
Ats == {"idle"} \cup Reads \cup Writes
Same(r, q) == r.n = q.n /\ r.by = q.by /\ r.began = q.began

LEMMA BecomesAt ==
  ASSUME NEW q \in Request, NEW a \in Ats
  PROVE  LET r == [q EXCEPT !.at = a]
         IN  r \in Request /\ r.at = a /\ Same(r, q) /\ r.file = q.file /\ r.batch = q.batch /\ r.read = q.read
BY DEF Request, Same, Ats

WithFile(q, a, f) == [q EXCEPT !.at = a, !.file = f]

LEMMA BecomesFile ==
  ASSUME NEW q \in Request, NEW a \in Ats, NEW f \in Sync \cup {None}
  PROVE  LET r == WithFile(q, a, f)
         IN  r \in Request /\ r.at = a /\ Same(r, q) /\ r.file = f /\ r.batch = q.batch /\ r.read = q.read
BY DEF WithFile, Request, Same, Ats

WithBatch(q, a, b) == [q EXCEPT !.at = a, !.batch = b]

LEMMA BecomesBatch ==
  ASSUME NEW q \in Request, NEW a \in Ats, NEW b \in Seq(Event)
  PROVE  LET r == WithBatch(q, a, b)
         IN  r \in Request /\ r.at = a /\ Same(r, q) /\ r.file = q.file /\ r.batch = b /\ r.read = q.read
BY DEF WithBatch, Request, Same, Ats

WithRead(q, a, n) == [q EXCEPT !.at = a, !.read = n]

LEMMA BecomesRead ==
  ASSUME NEW q \in Request, NEW a \in Ats, NEW n \in Nat
  PROVE  LET r == WithRead(q, a, n)
         IN  r \in Request /\ r.at = a /\ Same(r, q) /\ r.file = q.file /\ r.batch = q.batch /\ r.read = n
BY DEF WithRead, Request, Same, Ats

WithCards(q, c) == [q EXCEPT !.at = "shown", !.read = 0, !.cards = c]

LEMMA BecomesShown ==
  ASSUME NEW q \in Request, NEW c \in [Tasks -> Card]
  PROVE  LET r == WithCards(q, c)
         IN  r \in Request /\ r.at = "shown" /\ Same(r, q) /\ r.file = q.file /\ r.cards = c
BY DEF WithCards, Request, Same, Ats, Reads

LEMMA IdleFacts ==
  /\ Idle \in Request /\ Idle.at = "idle" /\ Idle.n = 0 /\ Idle.by = None /\ Idle.file = None /\ Idle.began = 0
<1>1. << >> \in Seq(Event)
  OBVIOUS
<1> QED BY <1>1 DEF Idle, Request

(* Steps of reads and authors alike.                                       *)
LEMMA EndKeeps == ASSUME IInv, NEW s \in Slots, End(s) PROVE IInv'
<1>1. req' = [req EXCEPT ![s] = Idle] /\ UNCHANGED <<hub, lane, own, opened, sync, asked>>
  BY DEF End, Goes
<1>2. RequestOK(hub, lane, own, Idle)
  <2>1. Len(hub) \in Nat
    BY Here, SeqFacts
  <2> QED BY <2>1, IdleFacts DEF RequestOK, FileOK, ReadOK, AuthorOK
<1>3. Fits(own, asked, Idle)
  BY Here, IdleFacts DEF Fits
<1> QED BY <1>1, <1>2, <1>3, IdleFacts, Here, QuietKeeps

LEMMA AskTasksKeeps == ASSUME IInv, NEW s \in Slots, AskTasks(s) PROVE IInv'
<1> DEFINE r == [Idle EXCEPT !.at = "bind", !.began = Len(hub)]
<1>1. /\ req' = [req EXCEPT ![s] = r] /\ UNCHANGED <<hub, lane, own, opened, sync>>
      /\ asked' = asked + 1 /\ asked < MaxRequests
  BY DEF AskTasks, Goes
<1>2. Len(hub) \in Nat
  BY Here, SeqFacts
<1>3. /\ r \in Request /\ r.at = "bind" /\ r.n = 0 /\ r.by = None /\ r.file = None
      /\ r.began = Len(hub)
  BY <1>2, IdleFacts DEF Request, Reads
<1> HIDE DEF r
<1>4. RequestOK(hub, lane, own, r)
  BY <1>2, <1>3 DEF RequestOK, FileOK, ReadOK, AuthorOK
<1>5. Fits(own, asked', r) /\ asked' \in asked..MaxRequests
  BY <1>1, <1>3, Here DEF Fits
<1>6. Grown(hub, hub) /\ Grown(lane, lane)
  BY Here, GrownSame
<1>7. hub' = hub /\ lane' = lane /\ own' = own /\ sync' = sync /\ opened' = opened
  BY <1>1
<1> QED BY <1>1, <1>3, <1>4, <1>5, <1>6, <1>7, Here, StepKeeps

LEMMA AskAuthorKeeps == ASSUME IInv, NEW s \in Slots, NEW m \in Authors, AskAuthor(s, m) PROVE IInv'
<1> DEFINE r == [Idle EXCEPT !.at = IF opened THEN "append" ELSE "genesis", !.n = asked + 1, !.by = m]
<1>1. /\ req' = [req EXCEPT ![s] = r] /\ UNCHANGED <<hub, lane, own, opened, sync>>
      /\ asked' = asked + 1 /\ asked < MaxRequests
  BY DEF AskAuthor, Goes
<1>2. Len(hub) \in Nat /\ m \in Members /\ m # None
  BY Here, SeqFacts, LaneAssumption
<1>3. /\ r \in Request /\ r.at \in {"append", "genesis"} /\ r.n = asked + 1 /\ r.by = m /\ r.file = None
      /\ r.began = 0
  <2>1. PICK a \in {"append", "genesis"} : a = IF opened THEN "append" ELSE "genesis"
    OBVIOUS
  <2>2. PICK n \in Nat : n = asked + 1
    BY Here
  <2>3. r = [Idle EXCEPT !.at = a, !.n = n, !.by = m]
    BY <2>1, <2>2
  <2>4. /\ [Idle EXCEPT !.at = a, !.n = n, !.by = m] \in Request
        /\ [Idle EXCEPT !.at = a, !.n = n, !.by = m].at = a
        /\ [Idle EXCEPT !.at = a, !.n = n, !.by = m].n = n
        /\ [Idle EXCEPT !.at = a, !.n = n, !.by = m].by = m
        /\ [Idle EXCEPT !.at = a, !.n = n, !.by = m].file = None
        /\ [Idle EXCEPT !.at = a, !.n = n, !.by = m].began = 0
    BY <1>2, IdleFacts DEF Request, Writes
  <2> QED BY <2>1, <2>2, <2>3, <2>4
<1> HIDE DEF r
<1>4. RequestOK(hub, lane, own, r)
  BY <1>2, <1>3 DEF RequestOK, FileOK, ReadOK, AuthorOK
<1>5. Fits(own, asked', r) /\ asked' \in asked..MaxRequests
  <2>1. asked \in Nat
    BY Here
  <2>2. \A e \in own : e.n # r.n
    <3> TAKE e \in own
    <3>1. e.n <= asked /\ e \in Event
      BY SeqFacts DEF IInv, Logs
    <3>2. e.n \in Nat
      BY <3>1 DEF Event
    <3> QED BY <1>3, <2>1, <3>1, <3>2
  <2> QED BY <1>1, <1>2, <1>3, <2>1, <2>2, Here DEF Fits
<1>6. Grown(hub, hub) /\ Grown(lane, lane)
  BY Here, GrownSame
<1>7. hub' = hub /\ lane' = lane /\ own' = own /\ sync' = sync /\ opened' = opened
  BY <1>1
<1> QED BY <1>1, <1>3, <1>4, <1>5, <1>6, <1>7, Here, StepKeeps

LEMMA FileHere ==
  ASSUME IInv PROVE File \in Sync /\ Covers(hub, lane, own, File) /\ FileOK(hub, lane, own, File)
<1>1. Unbound \in Sync /\ Unbound.pulled = None /\ Unbound.pushed = None
  BY DEF Unbound, Sync, Watermark
<1>2. FileOK(hub, lane, own, sync)
  BY DEF IInv
<1>3. CASE sync = None
  BY <1>1, <1>3 DEF File, FileOK, Covers
<1>4. CASE sync # None
  BY <1>2, <1>4 DEF File, FileOK, Covers
<1> QED BY <1>3, <1>4

LEMMA BindReadKeeps == ASSUME IInv, NEW s \in Slots, BindRead(s) PROVE IInv'
<1> DEFINE q == req[s]
           r == WithFile(q, "rebind", File)
<1>1. /\ req' = [req EXCEPT ![s] = r] /\ UNCHANGED <<hub, lane, own, opened, sync, asked>>
      /\ q.at = "bind"
  BY DEF BindRead, Goes, At, WithFile
<1>2. /\ q \in Request /\ RequestOK(hub, lane, own, q) /\ Fits(own, asked, q)
      /\ AuthorOK(hub, lane, own, q) /\ q.began <= Len(hub)
  BY Here
<1>3. File \in Sync /\ FileOK(hub, lane, own, File)
  BY FileHere
<1>4. r \in Request /\ r.at = "rebind" /\ Same(r, q) /\ r.file = File
  <2>1. "rebind" \in Ats /\ File \in Sync \cup {None}
    BY <1>3 DEF Ats, Reads
  <2> QED BY <1>2, <2>1, BecomesFile
<1> HIDE DEF r, q
<1>5. AuthorOK(hub, lane, own, r)
  BY <1>1, <1>2, <1>4 DEF AuthorOK, Same, Memory
<1>6. RequestOK(hub, lane, own, r) /\ Fits(own, asked, r)
  BY <1>2, <1>3, <1>4, <1>5 DEF RequestOK, ReadOK, Fits, Same
<1>7. sync' = sync /\ opened' = opened /\ r.n = q.n /\ r.by = q.by
  BY <1>1, <1>4 DEF Same
<1> QED BY <1>1, <1>4, <1>6, <1>7, Here, QuietKeeps DEF q

LEMMA BindWriteKeeps == ASSUME IInv, NEW s \in Slots, BindWrite(s) PROVE IInv'
<1> DEFINE q == req[s]
           a == IF IsRead(s) THEN "ensure" ELSE "push"
           r == WithFile(q, a, None)
<1>1. /\ req' = [req EXCEPT ![s] = r] /\ UNCHANGED <<hub, lane, own, opened, asked>>
      /\ q.at = "rebind" /\ sync' = q.file
  BY DEF BindWrite, Goes, At, WithFile
<1>2. /\ q \in Request /\ RequestOK(hub, lane, own, q) /\ Fits(own, asked, q)
      /\ AuthorOK(hub, lane, own, q) /\ q.began <= Len(hub) /\ FileOK(hub, lane, own, q.file)
  BY Here
<1>3. a \in Ats /\ (q.by = None => a = "ensure") /\ (q.by # None => a = "push")
  BY DEF IsRead, Ats, Reads, Writes
<1> HIDE DEF a, q
<1>4. r \in Request /\ r.at = a /\ Same(r, q) /\ r.file = None
  BY <1>2, <1>3, BecomesFile
<1> HIDE DEF r
<1>5. AuthorOK(hub, lane, own, r)
  BY <1>1, <1>2, <1>3, <1>4 DEF AuthorOK, Same, Memory
<1>6. RequestOK(hub, lane, own, r) /\ Fits(own, asked, r)
  BY <1>2, <1>3, <1>4, <1>5 DEF RequestOK, ReadOK, Fits, FileOK, Same
<1>7. opened' = opened /\ r.n = q.n /\ r.by = q.by
  BY <1>1, <1>4 DEF Same
<1> QED BY <1>1, <1>2, <1>4, <1>6, <1>7, Here, QuietKeeps DEF q

LEMMA EnsureKeeps == ASSUME IInv, NEW s \in Slots, Ensure(s) PROVE IInv'
<1> DEFINE q == req[s]
           a == IF \E e \in ToSet(lane) : e.type \in {"genesis", "anchor"} THEN "pull" ELSE "anchor"
           r == [q EXCEPT !.at = a]
<1>1. /\ req' = [req EXCEPT ![s] = r] /\ UNCHANGED <<hub, lane, own, sync, asked>>
      /\ q.at = "ensure" /\ opened' = TRUE
  BY DEF Ensure, Goes, At
<1>2. /\ q \in Request /\ RequestOK(hub, lane, own, q) /\ Fits(own, asked, q)
      /\ q.began <= Len(hub) /\ FileOK(hub, lane, own, q.file)
  BY Here
<1>3. a \in Ats /\ a \in {"pull", "anchor"}
  BY DEF Ats, Reads, Writes
<1> HIDE DEF a, q
<1>4. r \in Request /\ r.at = a /\ Same(r, q) /\ r.file = q.file
  BY <1>2, <1>3, BecomesAt
<1> HIDE DEF r
<1>5. q.by = None
  BY <1>1, <1>2 DEF Fits
<1>6. RequestOK(hub, lane, own, r) /\ Fits(own, asked, r)
  BY <1>2, <1>3, <1>4, <1>5 DEF RequestOK, ReadOK, AuthorOK, Fits, Same
<1>7. opened' \in BOOLEAN /\ sync' = sync /\ r.n = q.n /\ r.by = q.by
  BY <1>1, <1>4 DEF Same
<1> QED BY <1>1, <1>2, <1>4, <1>6, <1>7, Here, QuietKeeps DEF q

(* A step that only makes the lane longer, by what was not appended here.  *)
LEMMA LaneKeeps ==
  ASSUME IInv, NEW s \in Slots, NEW r \in Request, req' = [req EXCEPT ![s] = r],
         UNCHANGED <<hub, own, opened, sync, asked>>,
         Logs(hub, lane', own), Grown(lane, lane'),
         RequestOK(hub, lane', own, r), Fits(own, asked, r), r.by = None
  PROVE  IInv'
<1>1. /\ asked' \in asked..MaxRequests /\ hub' = hub /\ own' = own /\ asked' = asked
      /\ sync' = sync /\ opened' \in BOOLEAN
  BY LaneAssumption DEF IInv
<1>2. Grown(hub, hub')
  BY <1>1, Here, GrownSame
<1>3. /\ own \subseteq own' /\ own' \cap ToSet(lane) \subseteq own
      /\ \A e \in own' : e \in own \/ (e.n = req[s].n /\ req[s].by # None)
  BY <1>1
<1>4. FileOK(hub', lane', own', sync')
  <2>1. FileOK(hub, lane, own, sync)
    BY Here
  <2> QED BY <1>1, <1>2, <1>3, <2>1, FileStays
<1>5. Logs(hub', lane', own') /\ RequestOK(hub', lane', own', r) /\ Fits(own', asked', r)
  BY <1>1
<1> QED BY <1>1, <1>2, <1>3, <1>4, <1>5, StepKeeps

LEMMA InsertAnchorKeeps == ASSUME IInv, NEW s \in Slots, InsertAnchor(s) PROVE IInv'
<1> DEFINE q == req[s]
           r == [q EXCEPT !.at = "pull"]
           b == <<Anchor>>
<1>1. /\ req' = [req EXCEPT ![s] = r] /\ UNCHANGED <<hub, own, opened, sync, asked>>
      /\ q.at = "anchor" /\ lane' = lane \o Fresh(lane, b)
  BY DEF InsertAnchor, Goes, At
<1>2. /\ q \in Request /\ RequestOK(hub, lane, own, q) /\ Fits(own, asked, q)
      /\ q.began <= Len(hub) /\ FileOK(hub, lane, own, q.file)
      /\ Logs(hub, lane, own) /\ lane \in Seq(Event) /\ Ordered(lane)
      /\ hub \in Seq(Event) /\ Ordered(hub)
  BY Here
<1>3. r \in Request /\ r.at = "pull" /\ Same(r, q) /\ r.file = q.file
  <2>1. "pull" \in Ats
    BY DEF Ats, Reads
  <2> QED BY <1>2, <2>1, BecomesAt
<1> HIDE DEF q, r
<1>4. Anchor \in Event /\ Anchor.type # "task"
  BY DEF Anchor, Event
<1>5. b \in Seq(Event) /\ NoTwice(b) /\ ToSet(b) = {Anchor}
  BY <1>2, <1>4, OneBehind
<1> HIDE DEF b
<1>6. Ordered(lane \o Fresh(lane, b))
  <2>1. Fresh(lane, b) \in Seq(Event) /\ ToSet(Fresh(lane, b)) = ToSet(b) \ ToSet(lane)
    BY <1>2, <1>5, FreshProperties
  <2>2. \A e \in ToSet(Fresh(lane, b)) : e.type # "task"
    BY <1>4, <1>5, <2>1
  <2> QED BY <1>2, <2>1, <2>2, OrderedBehind
<1>7. Logs(hub, lane', own) /\ Grown(lane, lane') /\ Grown(hub, hub)
  <2>1. \A e \in ToSet(b) : e \in ToSet(hub) \/ e = Anchor
    BY <1>5
  <2> QED BY <1>1, <1>2, <1>5, <1>6, <2>1, LogsInsert
<1>8. q.by = None /\ r.by = None
  BY <1>1, <1>2, <1>3 DEF Fits, Same
<1>9. FileOK(hub, lane', own, q.file)
  <2>1. own \cap ToSet(lane) \subseteq own
    OBVIOUS
  <2> QED BY <1>2, <1>7, <2>1, FileStays
<1>10. RequestOK(hub, lane', own, r) /\ Fits(own, asked, r)
  BY <1>2, <1>3, <1>8, <1>9 DEF RequestOK, ReadOK, AuthorOK, Fits, Same
<1> QED BY <1>1, <1>3, <1>7, <1>8, <1>10, LaneKeeps DEF q

LEMMA PullKeeps == ASSUME IInv, NEW s \in Slots, Pull(s) PROVE IInv'
<1> DEFINE q == req[s]
           b == After(hub, File.pulled)
           r == WithBatch(q, "insert", b)
<1>1. /\ req' = [req EXCEPT ![s] = r] /\ UNCHANGED <<hub, lane, own, opened, sync, asked>>
      /\ q.at = "pull"
  BY DEF Pull, Goes, At, WithBatch
<1>2. /\ q \in Request /\ RequestOK(hub, lane, own, q) /\ Fits(own, asked, q)
      /\ q.began <= Len(hub) /\ FileOK(hub, lane, own, q.file)
      /\ hub \in Seq(Event) /\ NoTwice(hub)
  BY Here
<1> HIDE DEF q
<1>3. Len(hub) \in Nat /\ \A x \in ToSet(hub) : x \in Event
  BY <1>2, SeqFacts
<1>4. PICK k \in 0..Len(hub) :
        /\ b = SubSeq(hub, k + 1, Len(hub))
        /\ File.pulled \notin ToSet(hub) => k = 0
        /\ File.pulled \in ToSet(hub) => k \in 1..Len(hub) /\ hub[k] = File.pulled
  BY <1>2, AfterProperties
<1>5. /\ b \in Seq(Event) /\ Len(b) = Len(hub) - k
      /\ \A i \in 1..(Len(hub) - k) : b[i] = hub[k + i]
  BY <1>2, <1>3, <1>4, StretchFacts
<1>6. UpTo(hub, k) \subseteq ToSet(lane)
  <2>1. CASE k = 0
    BY <2>1 DEF UpTo
  <2>2. CASE k # 0
    <3>1. File.pulled \in ToSet(hub) /\ hub[k] = File.pulled /\ k \in 1..Len(hub)
      BY <1>4, <2>2
    <3>2. File.pulled # None
      BY <1>3, <3>1, WatermarkAssumption
    <3>3. PulledOK(hub, lane, File.pulled)
      BY <3>2, FileHere DEF Covers
    <3>4. PICK i \in 1..Len(hub) : hub[i] = File.pulled /\ UpTo(hub, i) \subseteq ToSet(lane)
      BY <3>3 DEF PulledOK
    <3>5. i = k
      BY <1>2, <3>1, <3>4, SeqFacts DEF NoTwice
    <3> QED BY <3>4, <3>5
  <2> QED BY <2>1, <2>2
<1>7. r \in Request /\ r.at = "insert" /\ Same(r, q) /\ r.file = q.file /\ r.batch = b
  <2>1. "insert" \in Ats
    BY DEF Ats, Reads
  <2> HIDE DEF b
  <2> QED BY <1>2, <1>5, <2>1, BecomesBatch
<1> HIDE DEF r, b
<1>8. Fetched(hub, lane, r)
  <2>1. Len(hub) \in 0..Len(hub) /\ k <= Len(hub)
    BY <1>3, <1>4
  <2> QED BY <1>2, <1>4, <1>5, <1>6, <1>7, <2>1 DEF Fetched, Same
<1>9. q.by = None /\ r.by = None
  BY <1>1, <1>2, <1>7 DEF Fits, Same
<1>10. RequestOK(hub, lane, own, r) /\ Fits(own, asked, r)
  BY <1>2, <1>7, <1>8, <1>9 DEF RequestOK, ReadOK, AuthorOK, Fits, Same
<1>11. sync' = sync /\ opened' = opened /\ UNCHANGED <<hub, lane, own, asked>>
  BY <1>1
<1> QED BY <1>1, <1>7, <1>9, <1>10, <1>11, Here, QuietKeeps DEF q

LEMMA InsertKeeps == ASSUME IInv, NEW s \in Slots, Insert(s) PROVE IInv'
<1> DEFINE q == req[s]
           b == q.batch
           r == [q EXCEPT !.at = "settle"]
<1>1. /\ req' = [req EXCEPT ![s] = r] /\ UNCHANGED <<hub, own, opened, sync, asked>>
      /\ q.at = "insert" /\ lane' = lane \o Fresh(lane, b)
  BY DEF Insert, Goes, At
<1>2. /\ q \in Request /\ RequestOK(hub, lane, own, q) /\ Fits(own, asked, q)
      /\ q.began <= Len(hub) /\ FileOK(hub, lane, own, q.file) /\ ReadOK(hub, lane, q)
      /\ Logs(hub, lane, own) /\ lane \in Seq(Event) /\ Ordered(lane)
      /\ hub \in Seq(Event) /\ Ordered(hub) /\ NoTwice(hub)
  BY Here
<1>3. r \in Request /\ r.at = "settle" /\ Same(r, q) /\ r.file = q.file /\ r.batch = b
  <2>1. "settle" \in Ats
    BY DEF Ats, Reads
  <2> QED BY <1>2, <2>1, BecomesAt
<1>3a. b \in Seq(Event)
  BY <1>2 DEF Request
<1> HIDE DEF q, r
<1>4. PICK k, m \in 0..Len(hub) :
        /\ k <= m /\ Len(b) = m - k /\ \A i \in 1..(m - k) : b[i] = hub[k + i]
        /\ q.began <= m /\ UpTo(hub, k) \subseteq ToSet(lane)
  BY <1>1, <1>2 DEF ReadOK, Fetched
<1> HIDE DEF b
<1>5. /\ Len(hub) \in Nat /\ k \in Nat /\ m \in Nat /\ DOMAIN b = 1..(m - k) /\ DOMAIN hub = 1..Len(hub)
      /\ \A i \in 1..(m - k) : k + i \in 1..Len(hub) /\ k + i \in 1..m
  <2>1. Len(hub) \in Nat /\ DOMAIN hub = 1..Len(hub) /\ DOMAIN b = 1..Len(b)
    BY <1>2, <1>3a, SeqFacts
  <2>2. k \in Nat /\ m \in Nat /\ m <= Len(hub)
    BY <1>4, <2>1
  <2> QED BY <1>4, <2>1, <2>2
<1>6. NoTwice(b)
  <2> SUFFICES ASSUME NEW i \in 1..(m - k), NEW j \in 1..(m - k), b[i] = b[j] PROVE i = j
    BY <1>5 DEF NoTwice
  <2>1. hub[k + i] = hub[k + j] /\ k + i \in DOMAIN hub /\ k + j \in DOMAIN hub
    BY <1>4, <1>5
  <2>2. k + i = k + j
    BY <1>2, <2>1 DEF NoTwice
  <2> QED BY <1>5, <2>2
<1>7. /\ \A e \in ToSet(b) : e \in ToSet(hub)
      /\ UpTo(hub, m) \subseteq ToSet(lane) \cup ToSet(b)
  <2>1. \A e \in ToSet(b) : e \in ToSet(hub)
    <3> TAKE e \in ToSet(b)
    <3>1. PICK i \in 1..(m - k) : e = b[i]
      BY <1>5 DEF ToSet
    <3> QED BY <1>4, <1>5, <3>1 DEF ToSet
  <2>2. ASSUME NEW i \in 1..m PROVE hub[i] \in ToSet(lane) \cup ToSet(b)
    <3>1. CASE i <= k
      <4>1. i \in 1..k
        BY <1>5, <3>1
      <4> QED BY <1>4, <4>1 DEF UpTo
    <3>2. CASE ~(i <= k)
      <4>1. i - k \in 1..(m - k) /\ k + (i - k) = i
        BY <1>5, <3>2
      <4>2. b[i - k] = hub[i]
        BY <1>4, <4>1
      <4> QED BY <1>5, <4>1, <4>2 DEF ToSet
    <3> QED BY <3>1, <3>2
  <2> QED BY <2>1, <2>2 DEF UpTo
<1>8. Ordered(lane \o Fresh(lane, b))
  BY <1>2, <1>3a, <1>4, <1>6, OrderedInsert
<1>9. /\ Logs(hub, lane', own) /\ Grown(lane, lane') /\ Grown(hub, hub)
      /\ ToSet(lane') = ToSet(lane) \cup ToSet(b)
  BY <1>1, <1>2, <1>3a, <1>6, <1>7, <1>8, LogsInsert
<1>10. q.by = None /\ r.by = None
  BY <1>1, <1>2, <1>3 DEF Fits, Same
<1>11. FileOK(hub, lane', own, q.file)
  <2>1. own \cap ToSet(lane) \subseteq own
    OBVIOUS
  <2> QED BY <1>2, <1>9, <2>1, FileStays
<1>12. b # << >> => m # 0 /\ Last(b) = hub[m]
  <2> SUFFICES ASSUME b # << >> PROVE m # 0 /\ Last(b) = hub[m]
    OBVIOUS
  <2>1. Len(b) \in 1..Len(b)
    BY <1>3a, SeqFacts
  <2>2. m - k \in 1..(m - k) /\ k + (m - k) = m
    BY <1>4, <1>5, <2>1
  <2> QED BY <1>4, <1>5, <2>2 DEF Last
<1>13. Inserted(hub, lane', r)
  <2>1. UpTo(hub, m) \subseteq ToSet(lane')
    BY <1>7, <1>9
  <2> QED BY <1>3, <1>4, <1>12, <2>1 DEF Inserted, Same
<1>14. RequestOK(hub, lane', own, r) /\ Fits(own, asked, r)
  BY <1>2, <1>3, <1>10, <1>11, <1>13 DEF RequestOK, ReadOK, AuthorOK, Fits, Same
<1> QED BY <1>1, <1>3, <1>9, <1>10, <1>14, LaneKeeps DEF q

LEMMA SettlePullKeeps == ASSUME IInv, NEW s \in Slots, SettlePull(s) PROVE IInv'
<1> DEFINE q == req[s]
           b == q.batch
           r == WithBatch(q, "read", << >>)
<1>1. /\ req' = [req EXCEPT ![s] = r] /\ UNCHANGED <<hub, lane, own, opened, asked>>
      /\ q.at = "settle" /\ q.by = None
      /\ sync' = IF b = << >> THEN sync ELSE [File EXCEPT !.pulled = Last(b)]
  BY DEF SettlePull, Goes, At, IsRead, WithBatch
<1>2. /\ q \in Request /\ RequestOK(hub, lane, own, q) /\ Fits(own, asked, q)
      /\ q.began <= Len(hub) /\ FileOK(hub, lane, own, q.file) /\ ReadOK(hub, lane, q)
      /\ hub \in Seq(Event) /\ FileOK(hub, lane, own, sync)
  BY Here
<1>3. r \in Request /\ r.at = "read" /\ Same(r, q) /\ r.file = q.file
  <2> DEFINE none == << >>
  <2>1. "read" \in Ats /\ none \in Seq(Event)
    BY DEF Ats, Reads
  <2> HIDE DEF none
  <2>2. /\ WithBatch(q, "read", none) \in Request /\ WithBatch(q, "read", none).at = "read"
        /\ Same(WithBatch(q, "read", none), q) /\ WithBatch(q, "read", none).file = q.file
    BY <1>2, <2>1, BecomesBatch
  <2> QED BY <2>2 DEF none
<1>3a. b \in Seq(Event)
  BY <1>2 DEF Request
<1> HIDE DEF q, r
<1>4. PICK m \in 0..Len(hub) : /\ q.began <= m /\ UpTo(hub, m) \subseteq ToSet(lane)
                               /\ b # << >> => m # 0 /\ Last(b) = hub[m]
  BY <1>1, <1>2 DEF ReadOK, Inserted
<1>5. FileOK(hub, lane, own, sync')
  <2>1. CASE b = << >>
    BY <1>1, <1>2, <2>1
  <2>2. CASE b # << >>
    <3>1. /\ sync' = [File EXCEPT !.pulled = Last(b)] /\ m \in 1..Len(hub) /\ hub[m] = Last(b)
      BY <1>1, <1>2, <1>4, <2>2, SeqFacts
    <3>2. Last(b) \in Watermark
      BY <1>2, <3>1, SeqFacts DEF Watermark
    <3>3. PulledOK(hub, lane, Last(b))
      BY <1>4, <3>1 DEF PulledOK
    <3>4. File \in Sync /\ Covers(hub, lane, own, File)
      BY FileHere
    <3>5. sync' \in Sync /\ sync'.pulled = Last(b) /\ sync'.pushed = File.pushed
      BY <3>1, <3>2, <3>4 DEF Sync
    <3> QED BY <3>3, <3>4, <3>5 DEF FileOK, Covers
  <2> QED BY <2>1, <2>2
<1>6. UpTo(hub, q.began) \subseteq ToSet(lane)
  <2>1. q.began \in 0..Len(hub)
    BY <1>2, SeqFacts DEF Request
  <2>2. UpTo(hub, q.began) \subseteq UpTo(hub, m)
    BY <1>2, <1>4, <2>1, UpToFacts
  <2> QED BY <1>4, <2>2
<1>7. RequestOK(hub, lane, own, r) /\ Fits(own, asked, r)
  BY <1>1, <1>2, <1>3, <1>6 DEF RequestOK, ReadOK, AuthorOK, Fits, Same
<1>8. opened' = opened /\ r.by = None /\ UNCHANGED <<hub, lane, own, asked>>
  BY <1>1, <1>3 DEF Same
<1> QED BY <1>1, <1>3, <1>5, <1>7, <1>8, Here, QuietKeeps DEF q

LEMMA ReadEventsKeeps == ASSUME IInv, NEW s \in Slots, ReadEvents(s) PROVE IInv'
<1> DEFINE q == req[s]
           r == WithRead(q, "project", Len(lane))
<1>1. /\ req' = [req EXCEPT ![s] = r] /\ UNCHANGED <<hub, lane, own, opened, sync, asked>>
      /\ q.at = "read"
  BY DEF ReadEvents, Goes, At, WithRead
<1>2. /\ q \in Request /\ RequestOK(hub, lane, own, q) /\ Fits(own, asked, q)
      /\ q.began <= Len(hub) /\ FileOK(hub, lane, own, q.file) /\ ReadOK(hub, lane, q)
      /\ lane \in Seq(Event)
  BY Here
<1>3. Len(lane) \in Nat
  BY <1>2, SeqFacts
<1>4. r \in Request /\ r.at = "project" /\ Same(r, q) /\ r.file = q.file /\ r.read = Len(lane)
  <2>1. "project" \in Ats
    BY DEF Ats, Reads
  <2> QED BY <1>2, <1>3, <2>1, BecomesRead
<1> HIDE DEF q, r
<1>5. q.by = None /\ UpTo(hub, q.began) \subseteq UpTo(lane, Len(lane))
  BY <1>1, <1>2, UpToFacts DEF Fits, ReadOK
<1>6. ReadOK(hub, lane, r)
  BY <1>3, <1>4, <1>5 DEF ReadOK, Same
<1>7. RequestOK(hub, lane, own, r) /\ Fits(own, asked, r)
  BY <1>2, <1>4, <1>5, <1>6 DEF RequestOK, AuthorOK, Fits, Same
<1>8. opened' = opened /\ sync' = sync /\ r.by = None /\ UNCHANGED <<hub, lane, own, asked>>
  BY <1>1, <1>4, <1>5 DEF Same
<1> QED BY <1>1, <1>4, <1>7, <1>8, Here, QuietKeeps DEF q

LEMMA UntaskedLogs ==
  ASSUME NEW h, NEW l, NEW o, Logs(h, l, o) PROVE Untasked(h) /\ Untasked(l)
<1>1. (\A i \in DOMAIN h : h[i] \in ToSet(h)) /\ (\A i \in DOMAIN l : l[i] \in ToSet(l))
  BY DEF ToSet
<1> QED BY <1>1 DEF Logs, Untasked, Anchor

(* What a card shows.                                                      *)
LEMMA CardTells ==
  ASSUME NEW l \in Seq(Event), Ordered(l), Untasked(l), NEW p \in Seq(Event), Ordered(p), Untasked(p),
         Held(p) <= Held(l), NEW t \in Tasks, NEW card,
         card = [moves |-> Cardinality(TaskMoves(l, t)), member |-> Mover(p, t), started |-> Started(p, t)]
  PROVE  card \in Card /\ Tells(Held(p), t, card)
<1> DEFINE c == Held(p)
           d == Held(l)
<1>1. c \in Nat /\ d \in Nat /\ c <= Len(Moved)
  BY PlacesFacts, HeldMoves
<1>2. /\ Cardinality(TaskMoves(l, t)) = Cardinality(Seen(d, t))
      /\ Mover(p, t) = IF Seen(c, t) = {} THEN None ELSE Moved[Max(Seen(c, t))].by
      /\ Started(p, t) = IF Begun(c, t) = {} THEN None ELSE Min(Begun(c, t))
  BY Views
<1> HIDE DEF c, d
<1>3. c <= d
  BY DEF c, d
<1>4. Cardinality(Seen(c, t)) <= Cardinality(Seen(d, t)) /\ Cardinality(Seen(d, t)) \in Nat
  BY <1>1, <1>3, SeenMore, SeenFacts
<1>5. Mover(p, t) \in Members \cup {None}
  <2>1. CASE Seen(c, t) = {}
    BY <1>2, <2>1
  <2>2. CASE Seen(c, t) # {}
    <3>1. Seen(c, t) \in SUBSET (1..c)
      BY <1>1, SeenFacts
    <3>2. Max(Seen(c, t)) \in Seen(c, t)
      BY <1>1, <2>2, <3>1, Extremes
    <3>3. Max(Seen(c, t)) \in DOMAIN Moved
      BY <1>1, <3>1, <3>2, MoveFacts
    <3> QED BY <1>2, <2>2, <3>3, MoveFacts
  <2> QED BY <2>1, <2>2
<1>6. Started(p, t) \in Nat \cup {None}
  <2>1. CASE Begun(c, t) = {}
    BY <1>2, <2>1
  <2>2. CASE Begun(c, t) # {}
    <3>1. Begun(c, t) \in SUBSET (1..c)
      BY <1>1, SeenFacts
    <3>2. Min(Begun(c, t)) \in Begun(c, t)
      BY <1>1, <2>2, <3>1, Extremes
    <3>3. Min(Begun(c, t)) \in Nat
      BY <1>1, <3>1, <3>2
    <3> QED BY <1>2, <2>2, <3>3
  <2> QED BY <2>1, <2>2
<1>7. card \in Card
  BY <1>2, <1>4, <1>5, <1>6 DEF Card
<1>8. Tells(c, t, card)
  <2>1. /\ card.moves = Cardinality(Seen(d, t)) /\ card.member = Mover(p, t) /\ card.started = Started(p, t)
    BY <1>2
  <2> QED BY <1>2, <1>4, <1>7, <2>1 DEF Tells
<1> QED BY <1>7, <1>8 DEF c

LEMMA ProjectKeeps == ASSUME IInv, NEW s \in Slots, Project(s) PROVE IInv'
<1> DEFINE q == req[s]
           p == SubSeq(lane, 1, q.read)
           cards == [t \in Tasks |-> CardOf(t, p)]
           r == WithCards(q, cards)
<1>1. /\ req' = [req EXCEPT ![s] = r] /\ UNCHANGED <<hub, lane, own, opened, sync, asked>>
      /\ q.at = "project"
  BY DEF Project, Goes, At, WithCards
<1>2. /\ q \in Request /\ RequestOK(hub, lane, own, q) /\ Fits(own, asked, q)
      /\ q.began <= Len(hub) /\ FileOK(hub, lane, own, q.file) /\ ReadOK(hub, lane, q)
      /\ hub \in Seq(Event) /\ Ordered(hub) /\ lane \in Seq(Event) /\ Ordered(lane)
      /\ Logs(hub, lane, own)
  BY Here
<1>2a. q.read \in Nat /\ q.began \in Nat
  BY <1>2 DEF Request
<1> HIDE DEF q
<1>3. q.read \in 0..Len(lane) /\ UpTo(hub, q.began) \subseteq UpTo(lane, q.read)
  BY <1>1, <1>2, <1>2a, SeqFacts DEF ReadOK
<1>4. /\ p \in Seq(Event) /\ DOMAIN p = 1..q.read /\ (\A i \in 1..q.read : p[i] = lane[i])
      /\ ToSet(p) = UpTo(lane, q.read)
  BY <1>2, <1>3, PrefixFacts
<1>5. Ordered(p)
  BY <1>2, <1>3, OrderedPrefix
<1>6. Untasked(lane)
  BY <1>2, UntaskedLogs
<1> HIDE DEF p
<1>7. Untasked(p)
  <2>1. \A i \in 1..q.read : i \in DOMAIN lane
    BY <1>2, <1>3, SeqFacts
  <2> QED BY <1>4, <1>6, <2>1 DEF Untasked
<1>8. Held(p) <= Held(lane)
  <2>1. \A i \in TaskPlaces(p) : p[i] \in ToSet(p)
    BY DEF TaskPlaces, ToSet
  <2>2. ToSet(p) \subseteq ToSet(lane)
    BY <1>2, <1>3, <1>4, UpToFacts
  <2>3. \A i \in TaskPlaces(p) : p[i] \in ToSet(lane)
    BY <2>1, <2>2
  <2> QED BY <1>2, <1>4, <1>5, <2>3, HeldWithin
<1>9. Held(lane) <= Held(hub)
  <2>1. \A i \in TaskPlaces(lane) : lane[i] \in ToSet(lane) /\ lane[i].type = "task"
    BY DEF TaskPlaces, ToSet
  <2>2. \A i \in TaskPlaces(lane) : lane[i] \in ToSet(hub)
    BY <1>2, <2>1 DEF Logs, Anchor
  <2> QED BY <1>2, <2>2, HeldWithin
<1>10. Held(p) \in 0..Held(hub)
  BY <1>2, <1>4, <1>8, <1>9, PlacesFacts
<1>11. \A t \in Tasks : CardOf(t, p) \in Card /\ Tells(Held(p), t, CardOf(t, p))
  <2> TAKE t \in Tasks
  <2> DEFINE card == CardOf(t, p)
  <2>1. card = [moves |-> Cardinality(TaskMoves(lane, t)), member |-> Mover(p, t), started |-> Started(p, t)]
    BY DEF CardOf
  <2> HIDE DEF card
  <2>2. card \in Card /\ Tells(Held(p), t, card)
    BY <1>2, <1>4, <1>5, <1>6, <1>7, <1>8, <2>1, CardTells
  <2> QED BY <2>2 DEF card
<1>12. cards \in [Tasks -> Card] /\ \A t \in Tasks : cards[t] = CardOf(t, p)
  BY <1>11
<1> HIDE DEF cards
<1>13. r \in Request /\ r.at = "shown" /\ Same(r, q) /\ r.file = q.file /\ r.cards = cards
  BY <1>2, <1>12, BecomesShown
<1> HIDE DEF r
<1>14. ASSUME NEW i \in TaskPlaces(hub), i <= q.began PROVE hub[i].n <= Held(p)
  <2>1. i \in 1..q.began /\ hub[i].type = "task"
    BY <1>2, <1>2a, <1>14, SeqFacts DEF TaskPlaces
  <2>2. hub[i] \in ToSet(p)
    BY <1>3, <1>4, <2>1 DEF UpTo
  <2>3. PICK j \in TaskPlaces(p) : p[j] = hub[i]
    BY <2>1, <2>2 DEF TaskPlaces, ToSet
  <2>4. p[j].n \in 1..Held(p) /\ Held(p) \in Nat
    BY <1>4, <1>5, HeldMoves, PlacesFacts
  <2> QED BY <2>3, <2>4
<1>15. Shown(hub, r)
  <2>1. r.began = q.began
    BY <1>13 DEF Same
  <2>2. \A t \in Tasks : Tells(Held(p), t, r.cards[t])
    BY <1>11, <1>12, <1>13
  <2> QED BY <1>10, <1>14, <2>1, <2>2 DEF Shown
<1>16. q.by = None
  BY <1>1, <1>2 DEF Fits
<1>17. RequestOK(hub, lane, own, r) /\ Fits(own, asked, r)
  BY <1>2, <1>13, <1>15, <1>16 DEF RequestOK, ReadOK, AuthorOK, Fits, Same
<1>18. opened' = opened /\ sync' = sync /\ r.by = None /\ UNCHANGED <<hub, lane, own, asked>>
  BY <1>1, <1>13, <1>16 DEF Same
<1>19. FileOK(hub, lane, own, sync')
  BY <1>18, Here
<1>20. opened' \in BOOLEAN
  BY <1>18, Here
<1> QED BY <1>1, <1>13, <1>17, <1>18, <1>19, <1>20, QuietKeeps DEF q

-----------------------------------------------------------------------------
(* What an author appends is an event no log holds yet.                    *)
LEMMA MemoryFacts ==
  ASSUME NEW r \in Request
  PROVE  /\ Memory(r) \in Event /\ Memory(r).type = "memory" /\ Memory(r).task = None /\ Memory(r).n = r.n
         /\ Genesis(r) \in Event /\ Genesis(r).type = "genesis" /\ Genesis(r).task = None /\ Genesis(r).n = r.n
BY DEF Memory, Genesis, Event, Request

LEMMA AppendsKeep ==
  ASSUME IInv, NEW s \in Slots, NEW r \in Request, req' = [req EXCEPT ![s] = r],
         UNCHANGED <<hub, sync, asked>>, NEW e \in Event, Appends(e),
         e.type \in {"memory", "genesis"}, e.task = None, e.n = req[s].n, req[s].by # None,
         Same(r, req[s]), r.file = req[s].file, e \notin own,
         r.at \in {"append", "bind"}, r.at = "bind" => Memory(r) \in own \cup {e},
         r.at = "append" => e.type = "genesis" /\ \A x \in own : x.n = r.n => x.type = "genesis"
  PROVE  IInv'
<1>1. /\ lane' = Append(lane, e) /\ own' = own \cup {e} /\ opened' = TRUE
      /\ hub' = hub /\ sync' = sync /\ asked' = asked
  BY DEF Appends
<1>2. /\ req[s] \in Request /\ Fits(own, asked, req[s]) /\ FileOK(hub, lane, own, req[s].file)
      /\ Logs(hub, lane, own) /\ FileOK(hub, lane, own, sync) /\ req[s].began <= Len(hub)
      /\ asked \in Nat /\ asked <= MaxRequests /\ MaxRequests \in Nat
  BY Here
<1>3. Logs(hub, lane', own') /\ Grown(lane, lane') /\ e \notin ToSet(lane) /\ Grown(hub, hub)
  BY <1>1, <1>2, LogsAppend
<1>4. own \subseteq own' /\ own' \cap ToSet(lane) \subseteq own
  BY <1>1, <1>3
<1>5. FileOK(hub, lane', own', sync') /\ FileOK(hub, lane', own', r.file)
  BY <1>1, <1>2, <1>3, <1>4, FileStays
<1>6. AuthorOK(hub, lane', own', r) /\ ReadOK(hub, lane', r)
  BY <1>1 DEF AuthorOK, ReadOK
<1>7. RequestOK(hub, lane', own', r) /\ Fits(own', asked, r)
  <2>1. r.n <= asked /\ r.by # None /\ r.began <= Len(hub)
    BY <1>2 DEF Fits, Same
  <2>2. r.at = "append" => \A x \in own' : x.n = r.n => x.type = "genesis"
    BY <1>1
  <2> QED BY <1>5, <1>6, <2>1, <2>2 DEF RequestOK, Fits
<1>8. \A x \in own' : x \in own \/ (x.n = req[s].n /\ req[s].by # None)
  BY <1>1
<1>9. asked' \in asked..MaxRequests /\ opened' \in BOOLEAN
  BY <1>1, <1>2
<1>10. r.n = req[s].n
  BY DEF Same
<1>11. /\ Logs(hub', lane', own') /\ Grown(hub, hub') /\ FileOK(hub', lane', own', sync')
       /\ RequestOK(hub', lane', own', r) /\ Fits(own', asked', r)
  BY <1>1, <1>3, <1>5, <1>7
<1> QED BY <1>3, <1>4, <1>8, <1>9, <1>10, <1>11, StepKeeps

LEMMA AppendGenesisKeeps == ASSUME IInv, NEW s \in Slots, AppendGenesis(s) PROVE IInv'
<1> DEFINE q == req[s]
           r == [q EXCEPT !.at = "append"]
           e == Genesis(q)
<1>1. /\ req' = [req EXCEPT ![s] = r] /\ UNCHANGED <<hub, sync, asked>>
      /\ q.at = "genesis" /\ Appends(e)
  BY DEF AppendGenesis, Goes, At
<1>2. q \in Request /\ Fits(own, asked, q)
  BY Here
<1>3. r \in Request /\ r.at = "append" /\ Same(r, q) /\ r.file = q.file
  <2>1. "append" \in Ats
    BY DEF Ats, Writes
  <2> QED BY <1>2, <2>1, BecomesAt
<1>4. e \in Event /\ e.type = "genesis" /\ e.task = None /\ e.n = q.n
  BY <1>2, MemoryFacts
<1> HIDE DEF q, r, e
<1>5. q.by # None /\ \A x \in own : x.n # q.n
  BY <1>1, <1>2 DEF Fits
<1>6. e \notin own /\ r.n = q.n
  BY <1>3, <1>4, <1>5 DEF Same
<1>7. \A x \in own : x.n = r.n => x.type = "genesis"
  BY <1>5, <1>6
<1> QED BY <1>1, <1>3, <1>4, <1>5, <1>6, <1>7, AppendsKeep DEF q

LEMMA AppendMemoryKeeps == ASSUME IInv, NEW s \in Slots, AppendMemory(s) PROVE IInv'
<1> DEFINE q == req[s]
           r == [q EXCEPT !.at = "bind"]
           e == Memory(q)
<1>1. /\ req' = [req EXCEPT ![s] = r] /\ UNCHANGED <<hub, sync, asked>>
      /\ q.at = "append" /\ Appends(e)
  BY DEF AppendMemory, Goes, At
<1>2. q \in Request /\ Fits(own, asked, q)
  BY Here
<1>3. r \in Request /\ r.at = "bind" /\ Same(r, q) /\ r.file = q.file
  <2>1. "bind" \in Ats
    BY DEF Ats, Writes
  <2> QED BY <1>2, <2>1, BecomesAt
<1>4. e \in Event /\ e.type = "memory" /\ e.task = None /\ e.n = q.n
  BY <1>2, MemoryFacts
<1>5. Memory(r) = e
  <2> HIDE DEF r
  <2> QED BY <1>3 DEF Memory, Same
<1> HIDE DEF q, r, e
<1>6. q.by # None /\ \A x \in own : x.n = q.n => x.type = "genesis"
  BY <1>1, <1>2 DEF Fits
<1>7. e \notin own
  BY <1>4, <1>6
<1> QED BY <1>1, <1>3, <1>4, <1>5, <1>6, <1>7, AppendsKeep DEF q

LEMMA PushKeeps == ASSUME IInv, NEW s \in Slots, Push(s) PROVE IInv'
<1> DEFINE q == req[s]
           rest == After(lane, File.pushed)
           b == PushBatch
           r == WithBatch(q, "arrive", b)
<1>1. /\ req' = [req EXCEPT ![s] = r] /\ UNCHANGED <<hub, lane, own, opened, sync, asked>>
      /\ q.at = "push"
  BY DEF Push, Goes, At, WithBatch
<1>2. /\ q \in Request /\ RequestOK(hub, lane, own, q) /\ Fits(own, asked, q)
      /\ q.began <= Len(hub) /\ FileOK(hub, lane, own, q.file) /\ AuthorOK(hub, lane, own, q)
      /\ lane \in Seq(Event) /\ NoTwice(lane) /\ Logs(hub, lane, own)
  BY Here
<1>3. q.by # None /\ Memory(q) \in own /\ own \subseteq ToSet(lane)
  BY <1>1, <1>2 DEF Fits, AuthorOK, Logs
<1> HIDE DEF q
<1>4. Len(lane) \in Nat /\ DOMAIN lane = 1..Len(lane) /\ \A x \in ToSet(lane) : x \in Event
  BY <1>2, SeqFacts
<1>5. PICK k \in 0..Len(lane) :
        /\ rest = SubSeq(lane, k + 1, Len(lane))
        /\ File.pushed \notin ToSet(lane) => k = 0
        /\ File.pushed \in ToSet(lane) => k \in 1..Len(lane) /\ lane[k] = File.pushed
  BY <1>2, AfterProperties
<1>6. /\ rest \in Seq(Event) /\ DOMAIN rest = 1..(Len(lane) - k)
      /\ \A i \in 1..(Len(lane) - k) : rest[i] = lane[k + i]
  BY <1>2, <1>4, <1>5, StretchFacts
<1> HIDE DEF rest
<1>7. NoTwice(rest)
  <2> SUFFICES ASSUME NEW i \in 1..(Len(lane) - k), NEW j \in 1..(Len(lane) - k), rest[i] = rest[j]
               PROVE i = j
    BY <1>6 DEF NoTwice
  <2>1. k + i \in DOMAIN lane /\ k + j \in DOMAIN lane /\ k \in Nat
    BY <1>4
  <2>2. lane[k + i] = lane[k + j]
    BY <1>6
  <2>3. k + i = k + j
    BY <1>2, <2>1, <2>2 DEF NoTwice
  <2> QED BY <2>1, <2>3
<1>8. b \in Seq(Event) /\ ToSet(b) = ToSet(rest) \cap own /\ NoTwice(b)
  <2>1. b = Owned(rest)
    BY DEF PushBatch, rest
  <2> HIDE DEF b
  <2> QED BY <1>6, <1>7, <2>1, OwnedProperties
<1> HIDE DEF b
<1>9. UpTo(lane, k) \cap own \subseteq ToSet(hub)
  <2>1. CASE k = 0
    BY <2>1 DEF UpTo
  <2>2. CASE k # 0
    <3>1. File.pushed \in ToSet(lane) /\ lane[k] = File.pushed /\ k \in 1..Len(lane)
      BY <1>5, <2>2
    <3>2. File.pushed # None
      BY <1>4, <3>1, WatermarkAssumption
    <3>3. PushedOK(hub, lane, own, File.pushed)
      BY <3>2, FileHere DEF Covers
    <3>4. PICK i \in 1..Len(lane) : lane[i] = File.pushed /\ UpTo(lane, i) \cap own \subseteq ToSet(hub)
      BY <3>3 DEF PushedOK
    <3>5. i = k
      BY <1>2, <1>4, <3>1, <3>4 DEF NoTwice
    <3> QED BY <3>4, <3>5
  <2> QED BY <2>1, <2>2
<1>10. ToSet(lane) \subseteq UpTo(lane, k) \cup ToSet(rest)
  <2>1. ASSUME NEW i \in 1..Len(lane) PROVE lane[i] \in UpTo(lane, k) \cup ToSet(rest)
    <3>1. CASE i \in 1..k
      BY <3>1 DEF UpTo
    <3>2. CASE i \notin 1..k
      <4>1. i - k \in 1..(Len(lane) - k) /\ k + (i - k) = i
        BY <1>4, <3>2
      <4>2. rest[i - k] = lane[i] /\ i - k \in DOMAIN rest
        BY <1>6, <4>1
      <4> QED BY <4>2 DEF ToSet
    <3> QED BY <3>1, <3>2
  <2> QED BY <1>4, <2>1 DEF ToSet
<1>11. own \subseteq ToSet(hub) \cup ToSet(b)
  BY <1>3, <1>8, <1>9, <1>10
<1>12. r \in Request /\ r.at = "arrive" /\ Same(r, q) /\ r.file = q.file /\ r.batch = b
  <2>1. "arrive" \in Ats
    BY DEF Ats, Writes
  <2> QED BY <1>2, <1>8, <2>1, BecomesBatch
<1> HIDE DEF r
<1>13. Memory(r) = Memory(q)
  BY <1>12 DEF Memory, Same
<1>14. Sent(hub, lane, own, r)
  <2>1. Len(lane) \in 0..Len(lane) /\ UpTo(lane, Len(lane)) = ToSet(lane)
    BY <1>2, <1>4, UpToFacts
  <2>2. ToSet(b) \subseteq own /\ ToSet(b) \subseteq UpTo(lane, Len(lane))
    BY <1>3, <1>8, <2>1
  <2>3. UpTo(lane, Len(lane)) \cap own \subseteq ToSet(hub) \cup ToSet(b)
    BY <1>11
  <2> QED BY <1>3, <1>8, <1>11, <1>12, <1>13, <2>1, <2>2, <2>3 DEF Sent
<1>15. RequestOK(hub, lane, own, r) /\ Fits(own, asked, r)
  BY <1>2, <1>3, <1>12, <1>13, <1>14 DEF RequestOK, ReadOK, AuthorOK, Fits, Same
<1>16. /\ opened' = opened /\ sync' = sync /\ r.n = q.n /\ q.by # None /\ UNCHANGED <<hub, lane, own, asked>>
  BY <1>1, <1>3, <1>12 DEF Same
<1>17. FileOK(hub, lane, own, sync') /\ opened' \in BOOLEAN
  BY <1>16, Here
<1> QED BY <1>1, <1>12, <1>15, <1>16, <1>17, QuietKeeps DEF q

LEMMA ArriveKeeps == ASSUME IInv, NEW s \in Slots, Arrive(s) PROVE IInv'
<1> DEFINE q == req[s]
           b == q.batch
           f == Fresh(hub, b)
           r == WithBatch(q, "settle", f)
<1>1. /\ req' = [req EXCEPT ![s] = r] /\ UNCHANGED <<lane, own, opened, sync, asked>>
      /\ q.at = "arrive" /\ hub' = hub \o f
  BY DEF Arrive, Goes, At, WithBatch
<1>2. /\ q \in Request /\ RequestOK(hub, lane, own, q) /\ Fits(own, asked, q)
      /\ q.began <= Len(hub) /\ FileOK(hub, lane, own, q.file) /\ AuthorOK(hub, lane, own, q)
      /\ Logs(hub, lane, own) /\ FileOK(hub, lane, own, sync) /\ opened \in BOOLEAN
      /\ asked \in Nat /\ asked <= MaxRequests /\ MaxRequests \in Nat
  BY Here
<1>2a. b \in Seq(Event) /\ q.began \in Nat
  BY <1>2 DEF Request
<1> HIDE DEF q
<1>3. /\ q.by # None /\ Memory(q) \in own /\ ToSet(b) \subseteq own /\ NoTwice(b)
      /\ Memory(q) \in ToSet(hub) \cup ToSet(b)
  BY <1>1, <1>2 DEF Fits, AuthorOK, Sent
<1>4. PICK m \in 0..Len(lane) : /\ ToSet(b) \subseteq UpTo(lane, m)
                                /\ UpTo(lane, m) \cap own \subseteq ToSet(hub) \cup ToSet(b)
  BY <1>1, <1>2 DEF AuthorOK, Sent
<1> HIDE DEF b
<1>5. /\ Logs(hub', lane, own) /\ Grown(hub, hub') /\ Grown(lane, lane)
      /\ ToSet(hub') = ToSet(hub) \cup ToSet(b)
      /\ f \in Seq(Event) /\ ToSet(f) \subseteq ToSet(b)
  BY <1>1, <1>2, <1>2a, <1>3, LogsArrive
<1> HIDE DEF f
<1>6. r \in Request /\ r.at = "settle" /\ Same(r, q) /\ r.file = q.file /\ r.batch = f
  <2>1. "settle" \in Ats
    BY DEF Ats, Writes
  <2> QED BY <1>2, <1>5, <2>1, BecomesBatch
<1> HIDE DEF r
<1>7. Memory(r) = Memory(q)
  BY <1>6 DEF Memory, Same
<1>8. Stored(hub', lane, own, r)
  <2>1. /\ ToSet(f) \subseteq UpTo(lane, m) /\ UpTo(lane, m) \cap own \subseteq ToSet(hub')
        /\ Memory(q) \in ToSet(hub')
    BY <1>3, <1>4, <1>5
  <2> QED BY <1>6, <1>7, <2>1 DEF Stored
<1>9. own \cap ToSet(lane) \subseteq own
  OBVIOUS
<1>10. FileOK(hub', lane, own, sync) /\ FileOK(hub', lane, own, q.file)
  BY <1>2, <1>5, <1>9, FileStays
<1>11. q.began <= Len(hub')
  <2>1. Len(hub) <= Len(hub')
    BY <1>5 DEF Grown
  <2>2. Len(hub) \in Nat /\ Len(hub') \in Nat
    BY <1>5, GrownFacts
  <2> QED BY <1>2, <1>2a, <2>1, <2>2
<1>12. RequestOK(hub', lane, own, r) /\ Fits(own, asked, r)
  BY <1>2, <1>3, <1>6, <1>7, <1>8, <1>10, <1>11 DEF RequestOK, ReadOK, AuthorOK, Fits, Same
<1>13. /\ opened' = opened /\ sync' = sync /\ lane' = lane /\ own' = own /\ asked' = asked
  BY <1>1
<1>14. /\ asked' \in asked..MaxRequests /\ opened' \in BOOLEAN
       /\ Logs(hub', lane', own') /\ Grown(lane, lane')
       /\ own \subseteq own' /\ own' \cap ToSet(lane) \subseteq own
       /\ \A x \in own' : x \in own \/ (x.n = req[s].n /\ req[s].by # None)
       /\ FileOK(hub', lane', own', sync') /\ RequestOK(hub', lane', own', r) /\ Fits(own', asked', r)
  BY <1>2, <1>5, <1>10, <1>12, <1>13
<1>15. r.n = req[s].n /\ req[s].by # None
  BY <1>3, <1>6 DEF Same, q
<1> QED BY <1>1, <1>5, <1>6, <1>14, <1>15, StepKeeps

LEMMA SettlePushKeeps == ASSUME IInv, NEW s \in Slots, SettlePush(s) PROVE IInv'
<1> DEFINE q == req[s]
           b == q.batch
           none == << >>
           r == WithBatch(q, "told", none)
<1>1. /\ req' = [req EXCEPT ![s] = r] /\ UNCHANGED <<hub, lane, own, opened, asked>>
      /\ q.at = "settle" /\ q.by # None
      /\ sync' = IF b = << >> THEN sync ELSE [File EXCEPT !.pushed = Last(b)]
  BY DEF SettlePush, Goes, At, IsRead, WithBatch
<1>2. /\ q \in Request /\ RequestOK(hub, lane, own, q) /\ Fits(own, asked, q)
      /\ q.began <= Len(hub) /\ FileOK(hub, lane, own, q.file) /\ AuthorOK(hub, lane, own, q)
      /\ lane \in Seq(Event) /\ FileOK(hub, lane, own, sync)
  BY Here
<1>2a. none \in Seq(Event)
  OBVIOUS
<1> HIDE DEF none
<1>3. r \in Request /\ r.at = "told" /\ Same(r, q) /\ r.file = q.file
  <2>1. "told" \in Ats
    BY DEF Ats, Writes
  <2> QED BY <1>2, <1>2a, <2>1, BecomesBatch
<1>3a. b \in Seq(Event)
  BY <1>2 DEF Request
<1> HIDE DEF q, r
<1>4. Memory(q) \in own /\ Memory(q) \in ToSet(hub)
  BY <1>1, <1>2 DEF AuthorOK, Stored
<1>5. PICK m \in 0..Len(lane) : ToSet(b) \subseteq UpTo(lane, m) /\ UpTo(lane, m) \cap own \subseteq ToSet(hub)
  BY <1>1, <1>2 DEF AuthorOK, Stored
<1>6. Len(lane) \in Nat
  BY <1>2, SeqFacts
<1>7. FileOK(hub, lane, own, sync')
  <2>1. CASE b = << >>
    BY <1>1, <1>2, <2>1
  <2>2. CASE b # << >>
    <3>1. Last(b) \in ToSet(b)
      BY <1>3a, <2>2, SeqFacts DEF Last
    <3>2. PICK i \in 1..m : lane[i] = Last(b)
      BY <1>5, <3>1 DEF UpTo
    <3>3. i \in 1..Len(lane) /\ i \in 0..Len(lane) /\ i <= m
      BY <1>6
    <3>4. UpTo(lane, i) \subseteq UpTo(lane, m)
      BY <1>2, <3>3, UpToFacts
    <3>5. PushedOK(hub, lane, own, Last(b))
      BY <1>5, <3>2, <3>3, <3>4 DEF PushedOK
    <3>6. Last(b) \in Watermark
      BY <1>3a, <3>1, SeqFacts DEF Watermark
    <3>7. File \in Sync /\ Covers(hub, lane, own, File)
      BY FileHere
    <3>8. sync' \in Sync /\ sync'.pushed = Last(b) /\ sync'.pulled = File.pulled
      BY <1>1, <2>2, <3>6, <3>7 DEF Sync
    <3> QED BY <3>5, <3>7, <3>8 DEF FileOK, Covers
  <2> QED BY <2>1, <2>2
<1>8. Memory(r) = Memory(q)
  BY <1>3 DEF Memory, Same
<1>9. RequestOK(hub, lane, own, r) /\ Fits(own, asked, r)
  BY <1>1, <1>2, <1>3, <1>4, <1>8 DEF RequestOK, ReadOK, AuthorOK, Fits, Same
<1>10. opened' = opened /\ r.n = q.n /\ UNCHANGED <<hub, lane, own, asked>>
  BY <1>1, <1>3 DEF Same
<1>11. opened' \in BOOLEAN
  BY <1>10, Here
<1> QED BY <1>1, <1>3, <1>7, <1>9, <1>10, <1>11, QuietKeeps DEF q

(* Another client's event, and steps that change nothing.                  *)
LEMMA MoveKeeps == ASSUME IInv, MoveTask PROVE IInv'
<1>1. /\ Held(hub) < Len(Moved) /\ hub' = Append(hub, Move(Held(hub) + 1))
      /\ lane' = lane /\ own' = own /\ opened' = opened /\ sync' = sync /\ req' = req /\ asked' = asked
  BY DEF MoveTask, Held
<1>2. Logs(hub, lane, own) /\ FileOK(hub, lane, own, sync) /\ lane \in Seq(Event)
  BY DEF IInv, Logs
<1>3. Logs(hub', lane, own) /\ Grown(hub, hub') /\ Grown(lane, lane)
  BY <1>1, <1>2, LogsMove, GrownSame
<1>4. own \cap ToSet(lane) \subseteq own /\ own \subseteq own /\ Ordered(hub) /\ Ordered(hub')
  BY <1>2, <1>3 DEF Logs
<1>5. FileOK(hub', lane, own, sync)
  BY <1>2, <1>3, <1>4, FileStays
<1>6. \A s \in Slots : RequestOK(hub', lane, own, req[s]) /\ Fits(own, asked, req[s])
  BY <1>3, <1>4, Here, RequestStays
<1>7. Apart'
  BY <1>1 DEF IInv, Apart
<1> QED BY <1>1, <1>3, <1>5, <1>6, <1>7 DEF IInv

LEMMA Inductive == ASSUME IInv, [Next]_vars PROVE IInv'
<1>1. ASSUME NEW s \in Slots,
             AskTasks(s) \/ BindRead(s) \/ BindWrite(s) \/ Ensure(s) \/ InsertAnchor(s) \/ Pull(s)
      PROVE  IInv'
  BY <1>1, AskTasksKeeps, BindReadKeeps, BindWriteKeeps, EnsureKeeps, InsertAnchorKeeps, PullKeeps
<1>2. ASSUME NEW s \in Slots, Insert(s) \/ SettlePull(s) \/ ReadEvents(s) \/ Project(s) \/ End(s)
      PROVE  IInv'
  BY <1>2, InsertKeeps, SettlePullKeeps, ReadEventsKeeps, ProjectKeeps, EndKeeps
<1>3. ASSUME NEW s \in Slots,
             \/ \E m \in Authors : AskAuthor(s, m)
             \/ AppendGenesis(s) \/ AppendMemory(s) \/ Push(s) \/ Arrive(s) \/ SettlePush(s)
      PROVE  IInv'
  BY <1>3, AskAuthorKeeps, AppendGenesisKeeps, AppendMemoryKeeps, PushKeeps, ArriveKeeps, SettlePushKeeps
<1>4. CASE UNCHANGED vars
  <2>1. /\ hub' = hub /\ lane' = lane /\ own' = own /\ opened' = opened /\ sync' = sync
        /\ req' = req /\ asked' = asked
    BY <1>4 DEF vars
  <2> QED BY <2>1 DEF IInv, Apart
<1>5. ASSUME Next PROVE \/ MoveTask
        \/ \E s \in Slots :
             \/ AskTasks(s) \/ BindRead(s) \/ BindWrite(s) \/ Ensure(s) \/ InsertAnchor(s) \/ Pull(s)
             \/ Insert(s) \/ SettlePull(s) \/ ReadEvents(s) \/ Project(s) \/ End(s)
             \/ \E m \in Authors : AskAuthor(s, m)
             \/ AppendGenesis(s) \/ AppendMemory(s) \/ Push(s) \/ Arrive(s) \/ SettlePush(s)
  BY <1>5, Zenon DEF Next
<1> QED BY <1>1, <1>2, <1>3, <1>4, <1>5, MoveKeeps

LEMMA Initial == Init => IInv
<1> SUFFICES ASSUME Init PROVE IInv
  OBVIOUS
<1> DEFINE none == << >>
<1>1. /\ hub = none /\ lane = none /\ own = {} /\ opened = FALSE /\ sync = None
      /\ req = [s \in Slots |-> Idle] /\ asked = 0
  BY DEF Init
<1>2. none \in Seq(Event) /\ Len(none) = 0 /\ DOMAIN none = {} /\ ToSet(none) = {}
  BY DEF ToSet
<1> HIDE DEF none
<1>3. Logs(none, none, {})
  <2>1. TaskPlaces(none) = {}
    BY <1>2 DEF TaskPlaces
  <2> QED BY <1>2, <2>1 DEF Logs, NoTwice, Ordered
<1>4. RequestOK(none, none, {}, Idle) /\ Fits({}, 0, Idle)
  BY <1>2, IdleFacts DEF RequestOK, FileOK, ReadOK, AuthorOK, Fits
<1>5. req \in [Slots -> Request] /\ \A s \in Slots : req[s] = Idle
  BY <1>1, IdleFacts
<1>6. Apart
  BY <1>5, IdleFacts DEF Apart
<1>7. 0 \in 0..MaxRequests
  BY LaneAssumption
<1> QED BY <1>1, <1>3, <1>4, <1>5, <1>6, <1>7 DEF IInv, FileOK

LEMMA Invariant == Spec => []IInv
<1>1. IInv /\ [Next]_vars => IInv'
  BY Inductive
<1> QED BY Initial, <1>1, PTL DEF Spec

-----------------------------------------------------------------------------
(* Every variable keeps its type.                                          *)
THEOREM TypeCorrect == Spec => []TypeOK
<1>1. IInv => TypeOK
  BY DEF IInv, TypeOK, Logs, FileOK, Covers
<1> QED BY <1>1, Invariant, PTL

(* However requests overlap, write back a sync file they read before, or   *)
(* die, the pull watermark skips nothing of the workspace's log and the    *)
(* push watermark nothing that was appended here (bindWorkspaceStore and   *)
(* the engine's pushProject and pullProject).                              *)
THEOREM WatermarksCorrect == Spec => []WatermarksCovered
<1>1. ASSUME IInv, NEW f, FileOK(hub, lane, own, f), f # None PROVE Covered(f)
  <2>1. Covers(hub, lane, own, f) /\ hub \in Seq(Event) /\ lane \in Seq(Event)
    BY <1>1 DEF FileOK, IInv, Logs
  <2>2. /\ DOMAIN hub = 1..Len(hub) /\ DOMAIN lane = 1..Len(lane) /\ Len(hub) \in Nat /\ Len(lane) \in Nat
    BY <2>1, SeqFacts
  <2>3. ASSUME NEW s \in Seq(Event), NEW i \in 1..Len(s) PROVE ToSet(SubSeq(s, 1, i)) = UpTo(s, i)
    <3>1. i \in 0..Len(s)
      BY SeqFacts
    <3> QED BY <3>1, PrefixFacts
  <2>4. ASSUME f.pulled # None
        PROVE \E i \in DOMAIN hub : hub[i] = f.pulled /\ ToSet(SubSeq(hub, 1, i)) \subseteq ToSet(lane)
    <3>1. PICK i \in 1..Len(hub) : hub[i] = f.pulled /\ UpTo(hub, i) \subseteq ToSet(lane)
      BY <2>1, <2>4 DEF Covers, PulledOK
    <3>2. ToSet(SubSeq(hub, 1, i)) = UpTo(hub, i)
      BY <2>1, <2>3
    <3> QED BY <2>2, <3>1, <3>2
  <2>5. ASSUME f.pushed # None
        PROVE \E i \in DOMAIN lane : lane[i] = f.pushed
                                     /\ ToSet(SubSeq(lane, 1, i)) \cap own \subseteq ToSet(hub)
    <3>1. PICK i \in 1..Len(lane) : lane[i] = f.pushed /\ UpTo(lane, i) \cap own \subseteq ToSet(hub)
      BY <2>1, <2>5 DEF Covers, PushedOK
    <3>2. ToSet(SubSeq(lane, 1, i)) = UpTo(lane, i)
      BY <2>1, <2>3
    <3> QED BY <2>2, <3>1, <3>2
  <2> QED BY <2>4, <2>5 DEF Covered
<1>2. IInv => WatermarksCovered
  <2> SUFFICES ASSUME IInv PROVE WatermarksCovered
    OBVIOUS
  <2>1. FileOK(hub, lane, own, sync) /\ \A s \in Slots : FileOK(hub, lane, own, req[s].file)
    BY DEF IInv, RequestOK
  <2> QED BY <1>1, <2>1 DEF WatermarksCovered
<1> QED BY <1>2, Invariant, PTL

(* The lane's task events are a prefix of the workspace's, and no event is *)
(* in it twice (what readTasks' "insertion order" rests on).               *)
THEOREM OrderCorrect == Spec => []LaneKeepsOrder
<1>1. ASSUME IInv PROVE LaneKeepsOrder
  <2>1. /\ Logs(hub, lane, own) /\ hub \in Seq(Event) /\ lane \in Seq(Event)
        /\ Ordered(hub) /\ Ordered(lane) /\ NoTwice(lane)
    BY <1>1 DEF IInv, Logs
  <2>2. \A i \in TaskPlaces(lane) : lane[i] \in ToSet(lane) /\ lane[i].type = "task"
    BY DEF TaskPlaces, ToSet
  <2>3. \A i \in TaskPlaces(lane) : lane[i] \in ToSet(hub)
    BY <2>1, <2>2 DEF Logs, Anchor
  <2>4. Held(lane) <= Held(hub)
    BY <2>1, <2>3, HeldWithin
  <2>5. IsPrefix(TaskEvents(lane), TaskEvents(hub))
    BY <2>1, <2>4, SameOrder
  <2>6. Cardinality(ToSet(lane)) = Len(lane)
    BY <2>1, LenOfSet
  <2> QED BY <2>5, <2>6 DEF LaneKeepsOrder
<1> QED BY <1>1, Invariant, PTL

(* An author that is told its memory is in the workspace has it there      *)
(* (author-memory's push, whichever concurrent push took it).              *)
THEOREM AuthoredCorrect == Spec => []AuthoredArrives
<1>1. IInv => AuthoredArrives
  BY DEF IInv, RequestOK, AuthorOK, AuthoredArrives, At
<1> QED BY <1>1, Invariant, PTL

-----------------------------------------------------------------------------
(* A prefix of the log, whose moves are the first c.                       *)
LEMMA PrefixViews ==
  ASSUME NEW h \in Seq(Event), Ordered(h), Untasked(h), NEW n \in 0..Len(h), NEW t \in Tasks
  PROVE  LET p == SubSeq(h, 1, n) c == Held(p)
         IN  /\ c \in 0..Held(h)
             /\ \A i \in TaskPlaces(h) : i <= n <=> h[i].n <= c
             /\ Cardinality(TaskMoves(p, t)) = Cardinality(Seen(c, t))
             /\ TaskStarts(p, t) = {} <=> Begun(c, t) = {}
             /\ (IF TaskMoves(p, t) = {} THEN None ELSE h[Max(TaskMoves(p, t))].by)
                  = IF Seen(c, t) = {} THEN None ELSE Moved[Max(Seen(c, t))].by
<1> DEFINE p == SubSeq(h, 1, n)
           c == Held(p)
<1>1. /\ p \in Seq(Event) /\ Len(p) = n /\ DOMAIN p = 1..n /\ (\A i \in 1..n : p[i] = h[i])
      /\ Len(h) \in Nat /\ DOMAIN h = 1..Len(h)
  BY PrefixFacts, SeqFacts
<1>2. Ordered(p)
  BY OrderedPrefix
<1> HIDE DEF p
<1>3. Untasked(p)
  <2>1. \A i \in 1..n : i \in DOMAIN h
    BY <1>1
  <2> QED BY <1>1, <2>1 DEF Untasked
<1>4. \A i \in TaskPlaces(h) : i <= n => i \in TaskPlaces(p) /\ p[i] = h[i]
  <2> TAKE i \in TaskPlaces(h)
  <2>1. i \in 1..Len(h) /\ h[i].type = "task"
    BY <1>1 DEF TaskPlaces
  <2>2. i <= n => i \in 1..n
    BY <1>1, <2>1
  <2> QED BY <1>1, <2>1, <2>2 DEF TaskPlaces
<1>5. \A i \in TaskPlaces(p) : p[i] \in ToSet(h) /\ i \in TaskPlaces(h) /\ p[i] = h[i] /\ i <= n
  <2> TAKE i \in TaskPlaces(p)
  <2>1. i \in 1..n /\ p[i].type = "task" /\ i \in 1..Len(h) /\ i <= n
    BY <1>1 DEF TaskPlaces
  <2> QED BY <1>1, <2>1 DEF TaskPlaces, ToSet
<1>6. c \in Nat /\ Held(h) \in Nat /\ c <= Held(h)
  BY <1>1, <1>2, <1>5, HeldWithin, PlacesFacts
<1>7. \A i \in TaskPlaces(h) : i <= n <=> h[i].n <= c
  <2> TAKE i \in TaskPlaces(h)
  <2>1. ASSUME i <= n PROVE h[i].n <= c
    <3>1. p[i].n \in 1..c
      BY <1>1, <1>2, <1>4, <2>1, HeldMoves
    <3> QED BY <1>4, <1>6, <2>1, <3>1
  <2>2. ASSUME h[i].n <= c PROVE i <= n
    <3>1. h[i].n \in 1..c
      <4>1. h[i].n \in 1..Held(h)
        BY HeldMoves
      <4> QED BY <1>6, <2>2, <4>1
    <3>2. PICK j \in TaskPlaces(p) : p[j].n = h[i].n
      BY <1>1, <1>2, <3>1, HeldMoves
    <3>3. j \in TaskPlaces(h) /\ h[j].n = h[i].n /\ j <= n
      BY <1>5, <3>2
    <3>4. i \in Int /\ j \in Int /\ h[i].n \in Int /\ h[j].n \in Int
      BY <3>3, PlacesFacts
    <3>5. ~(j < i)
      <4> SUFFICES ASSUME j < i PROVE FALSE
        OBVIOUS
      <4>1. h[j].n < h[i].n
        BY <3>3 DEF Ordered
      <4> QED BY <3>3, <3>4, <4>1
    <3> QED BY <3>3, <3>4, <3>5
  <2> QED BY <2>1, <2>2
<1>8. /\ Cardinality(TaskMoves(p, t)) = Cardinality(Seen(c, t))
      /\ Mover(p, t) = IF Seen(c, t) = {} THEN None ELSE Moved[Max(Seen(c, t))].by
      /\ TaskStarts(p, t) = {} <=> Begun(c, t) = {}
  BY <1>1, <1>2, <1>3, Views
<1>9. (IF TaskMoves(p, t) = {} THEN None ELSE h[Max(TaskMoves(p, t))].by) = Mover(p, t)
  <2>1. CASE TaskMoves(p, t) = {}
    BY <2>1 DEF Mover
  <2>2. CASE TaskMoves(p, t) # {}
    <3>1. TaskMoves(p, t) \in SUBSET (1..n) /\ n \in Nat
      BY <1>1 DEF TaskMoves
    <3>2. Max(TaskMoves(p, t)) \in 1..n
      BY <2>2, <3>1, Extremes
    <3> QED BY <1>1, <2>2, <3>2 DEF Mover
  <2> QED BY <2>1, <2>2
<1>10. c \in 0..Held(h)
  BY <1>6
<1> QED BY <1>7, <1>8, <1>9, <1>10 DEF p, c

(* What a board shows of a task, in terms of the log.                      *)
LEMMA Shows ==
  ASSUME IInv, NEW s \in Slots, NEW t \in Tasks, At(s, "shown")
  PROVE  /\ hub \in Seq(Event) /\ Ordered(hub) /\ Untasked(hub) /\ req[s].began \in 0..Len(hub)
         /\ Held(hub) \in Nat /\ Held(SubSeq(hub, 1, req[s].began)) \in Nat
         /\ \E c \in Nat : /\ c <= Held(hub) /\ Held(SubSeq(hub, 1, req[s].began)) <= c
                          /\ Tells(c, t, req[s].cards[t])
<1> DEFINE n == req[s].began
           d == Held(SubSeq(hub, 1, n))
           e == Held(hub)
<1>1. /\ req[s] \in Request /\ ReadOK(hub, lane, req[s]) /\ n <= Len(hub)
      /\ Logs(hub, lane, own) /\ hub \in Seq(Event) /\ Ordered(hub)
  BY Here
<1>2. Untasked(hub)
  BY <1>1, UntaskedLogs
<1>3. n \in 0..Len(hub)
  BY <1>1, SeqFacts DEF Request
<1>4. PICK c \in 0..e : /\ \A i \in TaskPlaces(hub) : i <= n => hub[i].n <= c
                        /\ Tells(c, t, req[s].cards[t])
  BY <1>1 DEF ReadOK, At, Shown
<1>5. d \in 0..e /\ \A i \in TaskPlaces(hub) : i <= n <=> hub[i].n <= d
  BY <1>1, <1>2, <1>3, PrefixViews
<1>6. /\ e \in Nat /\ (\A i \in TaskPlaces(hub) : hub[i].n \in Nat)
      /\ \A m \in 1..e : \E i \in TaskPlaces(hub) : hub[i].n = m
  BY <1>1, PlacesFacts, HeldMoves
<1> HIDE DEF d, e
<1>7. c \in Nat /\ d \in Nat /\ d <= c /\ c <= e
  <2>1. CASE d = 0
    BY <1>4, <1>5, <1>6, <2>1
  <2>2. CASE d # 0
    <3>1. d \in 1..e
      BY <1>5, <1>6, <2>2
    <3>2. PICK i \in TaskPlaces(hub) : hub[i].n = d
      BY <1>6, <3>1
    <3>3. i <= n
      BY <1>5, <1>6, <3>1, <3>2
    <3>4. d <= c
      BY <1>4, <3>2, <3>3
    <3> QED BY <1>4, <1>5, <1>6, <3>4
  <2> QED BY <2>1, <2>2
<1> QED BY <1>1, <1>2, <1>3, <1>4, <1>6, <1>7 DEF d, e

(* A board shows all the workspace held when it was asked for, and a       *)
(* task's first start (readTasks, whatever other reads, authors and        *)
(* clients do meanwhile).                                                  *)
THEOREM ReadCorrect == Spec => []ReadFresh
<1>1. ASSUME IInv PROVE ReadFresh
  <2> SUFFICES ASSUME NEW s \in Slots, NEW t \in Tasks, At(s, "shown")
               PROVE LET before == SubSeq(hub, 1, req[s].began)
                         card == req[s].cards[t]
                     IN  /\ card.moves >= Cardinality(TaskMoves(before, t))
                         /\ IF card.started = None THEN TaskStarts(before, t) = {}
                            ELSE /\ TaskStarts(hub, t) # {}
                                 /\ card.started = hub[Min(TaskStarts(hub, t))].n
    BY DEF ReadFresh
  <2> DEFINE n == req[s].began
             before == SubSeq(hub, 1, n)
             d == Held(before)
             e == Held(hub)
             card == req[s].cards[t]
  <2>1. /\ hub \in Seq(Event) /\ Ordered(hub) /\ Untasked(hub) /\ n \in 0..Len(hub)
        /\ e \in Nat /\ d \in Nat
    BY <1>1, Shows
  <2>2. PICK c \in Nat : c <= e /\ d <= c /\ Tells(c, t, card)
    BY <1>1, Shows
  <2>3. /\ Cardinality(TaskMoves(before, t)) = Cardinality(Seen(d, t))
        /\ TaskStarts(before, t) = {} <=> Begun(d, t) = {}
    BY <2>1, PrefixViews
  <2>4. /\ Started(hub, t) = IF Begun(e, t) = {} THEN None ELSE Min(Begun(e, t))
        /\ TaskStarts(hub, t) = {} <=> Begun(e, t) = {}
    BY <2>1, Views
  <2>5. /\ card.moves >= Cardinality(Seen(c, t)) /\ card \in Card
        /\ card.started = IF Begun(c, t) = {} THEN None ELSE Min(Begun(c, t))
    BY <2>2 DEF Tells
  <2> HIDE DEF e, d, card, before
  <2>6. /\ Cardinality(Seen(d, t)) <= Cardinality(Seen(c, t)) /\ Begun(d, t) \subseteq Begun(c, t)
        /\ Cardinality(Seen(d, t)) \in Nat /\ Cardinality(Seen(c, t)) \in Nat
    BY <2>1, <2>2, SeenMore, SeenFacts
  <2>7. Begun(c, t) \subseteq Begun(e, t) /\ (Begun(c, t) # {} => Min(Begun(e, t)) = Min(Begun(c, t)))
    BY <2>1, <2>2, SeenMore
  <2>8. card.moves \in Int
    BY <2>5 DEF Card
  <2>9. card.moves >= Cardinality(TaskMoves(before, t))
    BY <2>3, <2>5, <2>6, <2>8
  <2>10. CASE Begun(c, t) = {}
    <3>1. card.started = None /\ TaskStarts(before, t) = {}
      BY <2>3, <2>5, <2>6, <2>10
    <3> QED BY <2>9, <3>1 DEF card, before
  <2>11. CASE Begun(c, t) # {}
    <3>1. card.started = Min(Begun(c, t)) /\ card.started = Min(Begun(e, t)) /\ Begun(e, t) # {}
      BY <2>5, <2>7, <2>11
    <3>2. TaskStarts(hub, t) # {} /\ card.started = hub[Min(TaskStarts(hub, t))].n
      BY <2>4, <3>1 DEF Started
    <3>3. card.started # None
      <4>1. Begun(c, t) \in SUBSET (1..c)
        BY <2>2, SeenFacts
      <4>2. Min(Begun(c, t)) \in Begun(c, t)
        BY <2>2, <2>11, <4>1, Extremes
      <4>3. Min(Begun(c, t)) \in Int
        BY <4>1, <4>2
      <4> QED BY <3>1, <4>3, LaneAssumption
    <3> QED BY <2>9, <3>2, <3>3 DEF card, before
  <2> QED BY <2>10, <2>11
<1> QED BY <1>1, Invariant, PTL

(* A card names who had moved the task last at some moment of the request  *)
(* (readTasks, whose readEvents and listTasks read the lane at two         *)
(* moments).                                                               *)
THEOREM AttributionCorrect == Spec => []AttributionInTime
<1>1. ASSUME IInv PROVE AttributionInTime
  <2> SUFFICES ASSUME NEW s \in Slots, NEW t \in Tasks, At(s, "shown")
               PROVE \E n \in req[s].began..Len(hub) :
                       LET moves == TaskMoves(SubSeq(hub, 1, n), t)
                       IN  /\ req[s].cards[t].moves >= Cardinality(moves)
                           /\ req[s].cards[t].member = IF moves = {} THEN None ELSE hub[Max(moves)].by
    BY DEF AttributionInTime
  <2> DEFINE b == req[s].began
             d == Held(SubSeq(hub, 1, b))
             e == Held(hub)
             card == req[s].cards[t]
  <2>1. /\ hub \in Seq(Event) /\ Ordered(hub) /\ Untasked(hub) /\ b \in 0..Len(hub)
        /\ e \in Nat /\ d \in Nat
    BY <1>1, Shows
  <2>2. PICK c \in Nat : c <= e /\ d <= c /\ Tells(c, t, card)
    BY <1>1, Shows
  <2>3. card.moves >= Cardinality(Seen(c, t))
        /\ card.member = IF Seen(c, t) = {} THEN None ELSE Moved[Max(Seen(c, t))].by
    BY <2>2 DEF Tells
  <2>4. \E n \in b..Len(hub) : Held(SubSeq(hub, 1, n)) = c
    <3>1. CASE d = c
      BY <2>1, <3>1, SeqFacts
    <3>2. CASE d # c
      <4>1. c \in 1..e
        BY <2>1, <2>2, <3>2 DEF d, e
      <4>2. PICK i \in TaskPlaces(hub) : hub[i].n = c
        BY <2>1, <4>1, HeldMoves
      <4>3. i \in 1..Len(hub) /\ i \in 0..Len(hub) /\ Len(hub) \in Nat /\ i \in Nat
        BY <2>1, <4>2, PlacesFacts, SeqFacts
      <4>4. ~(i <= b)
        <5>1. i <= b <=> hub[i].n <= d
          BY <2>1, <4>2, PrefixViews
        <5> HIDE DEF d, e
        <5> QED BY <2>1, <2>2, <3>2, <4>2, <5>1
      <4> DEFINE f == Held(SubSeq(hub, 1, i))
      <4>5. f \in 0..e /\ \A j \in TaskPlaces(hub) : j <= i <=> hub[j].n <= f
        BY <2>1, <4>3, PrefixViews
      <4> HIDE DEF f, d, e
      <4>6. c <= f
        BY <4>2, <4>3, <4>5
      <4>7. ~(c < f)
        <5> SUFFICES ASSUME c < f PROVE FALSE
          OBVIOUS
        <5>1. f \in 1..e
          BY <2>1, <2>2, <4>5
        <5>2. PICK j \in TaskPlaces(hub) : hub[j].n = f
          BY <2>1, <5>1, HeldMoves DEF e
        <5>3. j <= i /\ j \in Nat
          <6>1. j \in Nat
            BY <2>1, <5>2, PlacesFacts
          <6> QED BY <4>5, <5>1, <5>2, <6>1
        <5>4. ~(i < j) /\ i # j
          BY <2>2, <4>2, <4>3, <4>5, <5>2, <5>3
        <5>5. j < i
          BY <4>3, <5>3, <5>4
        <5>6. hub[j].n < hub[i].n
          BY <2>1, <4>2, <5>2, <5>5 DEF Ordered
        <5> QED BY <2>1, <2>2, <4>2, <4>5, <5>2, <5>6
      <4>8. f = c
        BY <2>1, <2>2, <4>5, <4>6, <4>7
      <4>9. i \in b..Len(hub)
        BY <2>1, <4>3, <4>4
      <4> QED BY <4>8, <4>9 DEF f
    <3> QED BY <3>1, <3>2
  <2>5. PICK n \in b..Len(hub) : Held(SubSeq(hub, 1, n)) = c
    BY <2>4
  <2>6. n \in 0..Len(hub)
    BY <2>1, <2>5, SeqFacts
  <2> DEFINE moves == TaskMoves(SubSeq(hub, 1, n), t)
  <2>7. /\ Cardinality(moves) = Cardinality(Seen(c, t))
        /\ (IF moves = {} THEN None ELSE hub[Max(moves)].by)
             = IF Seen(c, t) = {} THEN None ELSE Moved[Max(Seen(c, t))].by
    BY <2>1, <2>5, <2>6, PrefixViews
  <2> QED BY <2>3, <2>5, <2>7
<1> QED BY <1>1, Invariant, PTL
=============================================================================
