---------------------------- MODULE RelayProofs ----------------------------
(***************************************************************************)
(* Theorems about module Relay, and then about RelaySync: the relay        *)
(* composed with its clients is still the relay, a push watermark never    *)
(* covers an event that is not stored, and a pull never returns less than  *)
(* what follows its watermark.                                             *)
(***************************************************************************)
EXTENDS RelaySync, FiniteSetTheorems, SequenceTheorems, TLAPS

(* The rank of an element counts it and those below; ranks are 1..|P|, so  *)
(* the k-th smallest element exists.                                       *)
LEMMA NthMember ==
  ASSUME NEW n \in Nat, NEW P \in SUBSET (1..n), NEW k \in 1..Cardinality(P)
  PROVE  /\ Nth(P, k) \in P
         /\ Cardinality({ j \in P : j <= Nth(P, k) }) = k
<1> DEFINE Below(i) == { j \in P : j <= i }
           rank == [i \in P |-> Cardinality(Below(i))]
<1>1. IsFiniteSet(P) /\ Cardinality(P) \in Nat
  <2>1. IsFiniteSet(1..n)
    BY FS_Interval
  <2> QED
    BY <2>1, FS_Subset, FS_CardinalityType
<1>2. \A i \in P : IsFiniteSet(Below(i)) /\ Cardinality(Below(i)) \in 1..Cardinality(P)
  <2> TAKE i \in P
  <2>1. Below(i) \in SUBSET P
    OBVIOUS
  <2>2. IsFiniteSet(Below(i)) /\ Cardinality(Below(i)) <= Cardinality(P)
    BY <1>1, <2>1, FS_Subset
  <2>3. i \in Below(i)
    OBVIOUS
  <2>4. Cardinality(Below(i)) \in Nat /\ Cardinality(Below(i)) # 0
    BY <2>2, <2>3, FS_CardinalityType, FS_EmptySet
  <2> QED
    BY <1>1, <2>2, <2>4
<1>3. ASSUME NEW i \in P, NEW j \in P, i < j
      PROVE  Cardinality(Below(i)) # Cardinality(Below(j))
  <2>1. Below(i) \in SUBSET Below(j)
    <3> SUFFICES ASSUME NEW m \in P, m <= i
                 PROVE  m <= j
      OBVIOUS
    <3>1. m \in Int /\ i \in Int /\ j \in Int
      OBVIOUS
    <3> QED
      BY <1>3, <3>1
  <2>2. j \in Below(j) /\ j \notin Below(i)
    BY <1>3
  <2> QED
    BY <1>2, <2>1, <2>2, FS_Subset
<1>4. rank \in Injection(P, 1..Cardinality(P))
  <2>1. rank \in [P -> 1..Cardinality(P)]
    BY <1>2
  <2>2. \A i, j \in P : rank[i] = rank[j] => i = j
    <3> SUFFICES ASSUME NEW i \in P, NEW j \in P, i # j
                 PROVE  rank[i] # rank[j]
      OBVIOUS
    <3>1. CASE i < j
      BY <1>3, <3>1
    <3>2. CASE j < i
      BY <1>3, <3>2
    <3> QED
      BY <3>1, <3>2
  <2> QED
    BY <2>1, <2>2 DEF Injection, IsInjective
<1>5. rank \in Surjection(P, 1..Cardinality(P))
  <2>1. IsFiniteSet(1..Cardinality(P)) /\ Cardinality(1..Cardinality(P)) = Cardinality(P)
    BY <1>1, FS_Interval
  <2> QED
    BY <1>4, <2>1, FS_Injection
<1>6. \E i \in P : Cardinality(Below(i)) = k
  BY <1>5 DEF Surjection
<1> QED
  BY <1>6 DEF Nth

(* Later elements of the enumeration are larger, and every element of P is *)
(* in it.                                                                  *)
LEMMA NthEnumerates ==
  ASSUME NEW n \in Nat, NEW P \in SUBSET (1..n)
  PROVE  /\ Cardinality(P) \in Nat
         /\ \A k \in 1..Cardinality(P) : Nth(P, k) \in P
         /\ \A k, m \in 1..Cardinality(P) : Nth(P, k) = Nth(P, m) => k = m
         /\ \A i \in P : \E k \in 1..Cardinality(P) : Nth(P, k) = i
<1>1. IsFiniteSet(P) /\ Cardinality(P) \in Nat
  <2>1. IsFiniteSet(1..n)
    BY FS_Interval
  <2> QED
    BY <2>1, FS_Subset, FS_CardinalityType
<1>2. \A k \in 1..Cardinality(P) : Nth(P, k) \in P
  BY NthMember
<1>3. \A k, m \in 1..Cardinality(P) : Nth(P, k) = Nth(P, m) => k = m
  <2> SUFFICES ASSUME NEW k \in 1..Cardinality(P), NEW m \in 1..Cardinality(P),
                      Nth(P, k) = Nth(P, m)
               PROVE  k = m
    OBVIOUS
  <2>1. Cardinality({ j \in P : j <= Nth(P, k) }) = k
    BY NthMember
  <2>2. Cardinality({ j \in P : j <= Nth(P, m) }) = m
    BY NthMember
  <2> QED
    BY <2>1, <2>2
<1>4. \A i \in P : \E k \in 1..Cardinality(P) : Nth(P, k) = i
  <2> DEFINE nth == [k \in 1..Cardinality(P) |-> Nth(P, k)]
  <2>1. nth \in Injection(1..Cardinality(P), P)
    <3>1. nth \in [1..Cardinality(P) -> P]
      BY <1>2
    <3>2. \A k, m \in 1..Cardinality(P) : nth[k] = nth[m] => k = m
      BY <1>3
    <3> QED
      BY <3>1, <3>2 DEF Injection, IsInjective
  <2>2. Cardinality(1..Cardinality(P)) = Cardinality(P)
    BY <1>1, FS_Interval
  <2>3. nth \in Surjection(1..Cardinality(P), P)
    BY <1>1, <2>1, <2>2, FS_Injection
  <2> QED
    BY <2>3 DEF Surjection
<1> QED
  BY <1>1, <1>2, <1>3, <1>4

(* Whatever occurs in a sequence has a first occurrence.                   *)
LEMMA FirstOccurrence ==
  ASSUME NEW S, NEW s \in Seq(S), NEW x \in ToSet(s)
  PROVE  \E i \in DOMAIN s : s[i] = x /\ \A j \in 1..(i-1) : s[j] # x
<1> DEFINE At == { i \in DOMAIN s : s[i] = x }
           Before == { p \in Nat \X Nat : p[1] < p[2] }
<1>1. At \subseteq Nat /\ At # {} /\ DOMAIN s = 1..Len(s) /\ Len(s) \in Nat
  BY LenProperties DEF ToSet
<1>2. IsWellFoundedOn(Before, Nat)
  <2>1. IsWellFoundedOn(OpToRel(<, Nat), Nat)
    BY NatLessThanWellFounded
  <2>2. OpToRel(<, Nat) = Before
    BY DEF OpToRel
  <2> QED
    BY <2>1, <2>2
<1>3. PICK i \in At : \A j \in At : ~ (<<j, i>> \in Before)
  <2> HIDE DEF Before, At
  <2> QED
    BY <1>1, <1>2, WFMin
<1>4. \A j \in 1..(i-1) : s[j] # x
  <2> SUFFICES ASSUME NEW j \in 1..(i-1), s[j] = x
               PROVE  FALSE
    OBVIOUS
  <2>1. i \in 1..Len(s) /\ Len(s) \in Nat
    BY <1>1
  <2>2. j \in Nat /\ i \in Nat /\ j < i /\ j \in 1..Len(s)
    BY <2>1
  <2>3. j \in At
    BY <1>1, <2>2
  <2>4. <<j, i>> \in Before
    BY <2>2
  <2> QED
    BY <1>3, <2>3, <2>4
<1> QED
  BY <1>3, <1>4
(* What the dedup loops keep: exactly the ids of s that were not known,    *)
(* each of them once. This is the loop of `hydrate` with known = {} and    *)
(* the loop of `append` with known = seen.                                 *)
LEMMA KeptProperties ==
  ASSUME NEW S, NEW s \in Seq(S), NEW known
  PROVE  /\ Kept(s, known) \in Seq(Ids)
         /\ ToSet(Kept(s, known)) = (ToSet(s) \cap Ids) \ known
         /\ \A k, m \in DOMAIN Kept(s, known) :
              Kept(s, known)[k] = Kept(s, known)[m] => k = m
<1> DEFINE P == KeptPositions(s, known)
           kept == Kept(s, known)
<1>1. DOMAIN s = 1..Len(s) /\ Len(s) \in Nat
  BY LenProperties
<1>2. P \in SUBSET (1..Len(s))
  BY <1>1 DEF KeptPositions
<1>3. /\ Cardinality(P) \in Nat
      /\ \A k \in 1..Cardinality(P) : Nth(P, k) \in P
      /\ \A k, m \in 1..Cardinality(P) : Nth(P, k) = Nth(P, m) => k = m
      /\ \A i \in P : \E k \in 1..Cardinality(P) : Nth(P, k) = i
  BY <1>1, <1>2, NthEnumerates
<1>4. kept = [k \in 1..Cardinality(P) |-> s[Nth(P, k)]]
  BY DEF Kept
<1>5. \A i \in P : i \in 1..Len(s) /\ s[i] \in Ids \ known
                    /\ \A j \in 1..(i-1) : s[j] # s[i]
  BY <1>1 DEF KeptPositions
<1> HIDE DEF P, kept
<1>6. kept \in Seq(Ids) /\ DOMAIN kept = 1..Cardinality(P)
  <2>1. kept \in [1..Cardinality(P) -> Ids]
    BY <1>3, <1>4, <1>5
  <2> QED
    BY <1>3, <2>1, SeqDef
<1>7. ToSet(kept) = (ToSet(s) \cap Ids) \ known
  <2>1. ASSUME NEW x \in ToSet(kept)
        PROVE  x \in (ToSet(s) \cap Ids) \ known
    <3>1. PICK k \in 1..Cardinality(P) : x = s[Nth(P, k)]
      BY <1>4, <1>6, <2>1 DEF ToSet
    <3>2. Nth(P, k) \in 1..Len(s) /\ x \in Ids \ known
      BY <1>3, <1>5, <3>1
    <3> QED
      BY <1>1, <3>1, <3>2 DEF ToSet
  <2>2. ASSUME NEW x \in (ToSet(s) \cap Ids) \ known
        PROVE  x \in ToSet(kept)
    <3>1. PICK i \in DOMAIN s : s[i] = x /\ \A j \in 1..(i-1) : s[j] # x
      BY <2>2, FirstOccurrence
    <3>2. i \in P
      BY <2>2, <3>1 DEF P, KeptPositions
    <3>3. PICK k \in 1..Cardinality(P) : Nth(P, k) = i
      BY <1>3, <3>2
    <3>4. k \in DOMAIN kept /\ kept[k] = x
      BY <1>4, <1>6, <3>1, <3>3
    <3> QED
      BY <3>4 DEF ToSet
  <2> QED
    BY <2>1, <2>2
<1>8. \A k, m \in DOMAIN kept : kept[k] = kept[m] => k = m
  <2> SUFFICES ASSUME NEW k \in 1..Cardinality(P), NEW m \in 1..Cardinality(P),
                      s[Nth(P, k)] = s[Nth(P, m)]
               PROVE  Nth(P, k) = Nth(P, m)
    BY <1>3, <1>4, <1>6
  <2> DEFINE i == Nth(P, k)
             j == Nth(P, m)
  <2>1. i \in P /\ j \in P /\ i \in Int /\ j \in Int /\ i >= 1 /\ j >= 1
    BY <1>3, <1>5
  <2>2. ~ (i < j) /\ ~ (j < i)
    <3> HIDE DEF i, j
    <3>1. s[i] = s[j]
      BY DEF i, j
    <3>2. i < j => i \in 1..(j-1)
      BY <2>1
    <3>3. j < i => j \in 1..(i-1)
      BY <2>1
    <3> QED
      BY <1>5, <2>1, <3>1, <3>2, <3>3
  <2> QED
    BY <2>1, <2>2
<1> QED
  BY <1>6, <1>7, <1>8 DEF kept
-----------------------------------------------------------------------------
Line == Ids \cup {Torn}

(* Facts about the set of elements of a sequence.                          *)
LEMMA ToSetFacts ==
  ASSUME NEW S, NEW s \in Seq(S), NEW t \in Seq(S)
  PROVE  /\ ToSet(s) \subseteq S
         /\ ToSet(s \o t) = ToSet(s) \cup ToSet(t)
         /\ (s = << >> <=> ToSet(s) = {})
<1>1. ToSet(s) \subseteq S
  BY LenProperties, ElementOfSeq DEF ToSet
<1>2. ToSet(s \o t) = ToSet(s) \cup ToSet(t)
  <2>1. ToSet(s) = Range(s) /\ ToSet(t) = Range(t) /\ ToSet(s \o t) = Range(s \o t)
    BY DEF ToSet, Range
  <2> QED
    BY <2>1, RangeConcatenation
<1>3. s = << >> <=> ToSet(s) = {}
  BY LenProperties, EmptySeq DEF ToSet
<1> QED
  BY <1>1, <1>2, <1>3

(* Appending text to the file leaves a file, and no line of it is lost     *)
(* unless its last line had no newline.                                    *)
LEMMA ContinuedProperties ==
  ASSUME NEW f \in Seq(Line), NEW o \in BOOLEAN, o => f # << >>,
         NEW ls \in Seq(Line)
  PROVE  /\ Continued(f, o, ls) \in Seq(Line)
         /\ ls # << >> => Continued(f, o, ls) # << >>
         /\ ls = << >> => Continued(f, o, ls) = f
         /\ ~o => Recoverable(Continued(f, o, ls)) = Recoverable(f) \cup Recoverable(ls)
<1>1. CASE o /\ ls # << >>
  <2>1. Front(f) \in Seq(Line) /\ <<Torn>> \in Seq(Line) /\ Tail(ls) \in Seq(Line)
    BY <1>1, LenProperties, HeadTailProperties DEF Front, Line
  <2>2. Front(f) \o <<Torn>> \in Seq(Line) /\ Front(f) \o <<Torn>> # << >>
    BY <2>1, ConcatProperties, ConcatEqualIffEmpty
  <2> QED
    BY <1>1, <2>1, <2>2 DEF Continued
<1>2. CASE ~(o /\ ls # << >>)
  BY <1>2, ToSetFacts DEF Continued, Recoverable
<1> QED
  BY <1>1, <1>2

(* What an interrupted write leaves are lines of the file; with cuts at    *)
(* line boundaries only, they are whole events of the batch.               *)
LEMMA RemnantProperties ==
  ASSUME NEW w \in Seq(Ids), NEW i \in Interruptions(w)
  PROVE  /\ Remnant(w, i[1], i[2]) \in Seq(Line)
         /\ i[2] # "boundary" => Remnant(w, i[1], i[2]) # << >>
<1>1. i[1] \in 0..Len(w) /\ i[2] \in AnyCut /\ (i[2] = "boundary" \/ i[1] < Len(w))
  BY RelayAssumption DEF Interruptions
<1>2. Len(w) \in Nat /\ SubSeq(w, 1, i[1]) \in Seq(Line)
  BY <1>1, LenProperties DEF Line
<1>3. CASE i[2] = "boundary"
  BY <1>2, <1>3 DEF Remnant
<1>4. CASE i[2] = "partial"
  BY <1>2, <1>4 DEF Remnant, Line
<1>5. CASE i[2] = "unterminated"
  <2>1. w[i[1] + 1] \in Line
    BY <1>1, <1>2, <1>5, ElementOfSeq DEF Line
  <2> QED
    BY <1>2, <1>5, <2>1 DEF Remnant
<1> QED
  BY <1>1, <1>3, <1>4, <1>5 DEF AnyCut

-----------------------------------------------------------------------------
(* The effect of an interrupted write on the file.                         *)
LEMMA PartialWriteProperties ==
  ASSUME TypeOK, NEW i \in Interruptions(writing), PartialWrite(i[1], i[2])
  PROVE  /\ file' \in Seq(Line)
         /\ open' \in BOOLEAN /\ (open' => file' # << >>)
         /\ ~open => Recoverable(file) \subseteq Recoverable(file')
         /\ Cuts \subseteq {"boundary"} /\ ~open => ~open'
<1> DEFINE ls == Remnant(writing, i[1], i[2])
<1>1. writing \in Seq(Ids) /\ file \in Seq(Line) /\ open \in BOOLEAN
      /\ (open => file # << >>)
  BY DEF TypeOK, Line
<1>2. ls \in Seq(Line) /\ (i[2] # "boundary" => ls # << >>)
  BY <1>1, RemnantProperties
<1>3. i[2] \in Cuts
  BY DEF Interruptions
<1>4. file' = Continued(file, open, ls)
      /\ open' = IF ls = << >> THEN open ELSE i[2] # "boundary"
  BY DEF PartialWrite
<1> HIDE DEF ls
<1> QED
  BY <1>1, <1>2, <1>3, <1>4, ContinuedProperties

(* Answering the head run touches only its connection.                     *)
LEMMA AnswerProperties ==
  ASSUME TypeOK, queue # << >>, NEW ids \in Seq(Ids), Answer(ids)
  PROVE  /\ conn' \in [Conns -> Conn] /\ queue' \in Seq(Conns)
         /\ acked' \subseteq Ids
<1> DEFINE h == Head(queue)
<1>1. h \in Conns /\ Tail(queue) \in Seq(Conns)
  BY HeadTailProperties DEF TypeOK
<1>2. conn[h] \in Conn
  BY <1>1 DEF TypeOK
<1>3. conn' = [conn EXCEPT ![h].phase = "answered", ![h].accepted = ids]
  BY DEF Answer
<1>4. ToSet(conn[h].batch) \subseteq Ids
  BY <1>2, ToSetFacts DEF Conn
<1>5. conn' \in [Conns -> Conn]
  BY <1>1, <1>2, <1>3 DEF TypeOK, Conn
<1> QED
  BY <1>1, <1>4, <1>5 DEF TypeOK, Answer

(* The head run's batch, filtered.                                         *)
LEMMA FreshProperties ==
  ASSUME TypeOK, queue # << >>
  PROVE  /\ Head(queue) \in Conns
         /\ conn[Head(queue)].batch \in Seq(Ids)
         /\ Fresh \in Seq(Ids)
         /\ ToSet(Fresh) = ToSet(conn[Head(queue)].batch) \ seen
         /\ \A k, m \in DOMAIN Fresh : Fresh[k] = Fresh[m] => k = m
<1>1. Head(queue) \in Conns
  BY HeadTailProperties DEF TypeOK
<1>2. conn[Head(queue)].batch \in Seq(Ids)
  BY <1>1 DEF TypeOK, Conn
<1>3. ToSet(conn[Head(queue)].batch) \subseteq Ids
  BY <1>2, ToSetFacts
<1> QED
  BY <1>1, <1>2, <1>3, KeptProperties DEF Fresh

(* What a restart finds in the file.                                       *)
LEMMA HydratedProperties ==
  ASSUME TypeOK
  PROVE  /\ Hydrated(file) \in Seq(Ids)
         /\ ToSet(Hydrated(file)) = Recoverable(file)
         /\ Recoverable(file) \subseteq Ids
         /\ \A k, m \in DOMAIN Hydrated(file) :
              Hydrated(file)[k] = Hydrated(file)[m] => k = m
  BY KeptProperties DEF TypeOK, Hydrated, Recoverable

-----------------------------------------------------------------------------
LEMMA TypeStep ==
  TypeOK /\ [Next]_vars => TypeOK'
<1> SUFFICES ASSUME TypeOK, [Next]_vars
             PROVE  TypeOK'
  OBVIOUS
<1>1. ASSUME NEW c \in Conns, NEW b \in Batches, ReceivePush(c, b)
      PROVE  TypeOK'
  <2>1. [Idle EXCEPT !.phase = "queued", !.batch = b] \in Conn
    BY RelayAssumption, EmptySeq DEF Idle, Conn
  <2>2. Append(queue, c) \in Seq(Conns)
    BY AppendProperties DEF TypeOK
  <2>3. queue' # << >>
    BY <1>1, AppendProperties DEF ReceivePush, TypeOK
  <2> QED
    BY <1>1, <2>1, <2>2, <2>3 DEF ReceivePush, TypeOK, diskVars, memVars
<1>2. CASE SkipDuplicates
  <2>1. queue # << >> /\ Answer(<< >>) /\ << >> \in Seq(Ids)
    BY <1>2, EmptySeq DEF SkipDuplicates
  <2>2. conn' \in [Conns -> Conn] /\ queue' \in Seq(Conns) /\ acked' \subseteq Ids
    BY <2>1, AnswerProperties
  <2> QED
    BY <1>2, <2>2 DEF SkipDuplicates, TypeOK, diskVars, memVars
<1>3. CASE BeginWrite
  <2>1. Fresh \in Seq(Ids)
    BY <1>3, FreshProperties DEF BeginWrite
  <2> QED
    BY <1>3, <2>1 DEF BeginWrite, TypeOK, diskVars, memVars
<1>4. CASE FinishWrite
  <2>1. queue # << >> /\ writing \in Seq(Ids) /\ writing \in Seq(Line)
    BY <1>4 DEF FinishWrite, TypeOK, Line
  <2>2. conn' \in [Conns -> Conn] /\ queue' \in Seq(Conns) /\ acked' \subseteq Ids
    BY <1>4, <2>1, AnswerProperties DEF FinishWrite
  <2>3. file' \in Seq(Line)
    BY <1>4, <2>1, ContinuedProperties DEF FinishWrite, TypeOK, Line
  <2>4. ToSet(writing) \subseteq Ids /\ events \o writing \in Seq(Ids)
    BY <2>1, ToSetFacts, ConcatProperties DEF TypeOK
  <2>5. << >> \in Seq(Ids)
    BY EmptySeq
  <2> QED
    BY <1>4, <2>2, <2>3, <2>4, <2>5 DEF FinishWrite, TypeOK, Line
<1>5. CASE FailWrite
  <2>1. file' \in Seq(Line) /\ open' \in BOOLEAN /\ (open' => file' # << >>)
    BY <1>5, PartialWriteProperties DEF FailWrite
  <2>2. Head(queue) \in Conns /\ Tail(queue) \in Seq(Conns)
    BY <1>5, HeadTailProperties DEF FailWrite, TypeOK
  <2>3. conn' \in [Conns -> Conn]
    BY <1>5, <2>2 DEF FailWrite, TypeOK, Conn
  <2>4. << >> \in Seq(Ids) /\ faults' \in 0..MaxFaults
    BY <1>5, EmptySeq, RelayAssumption DEF FailWrite, TypeOK
  <2> QED
    BY <1>5, <2>1, <2>2, <2>3, <2>4 DEF FailWrite, TypeOK, Line, memVars
<1>6. CASE Crash
  <2>1. file' \in Seq(Line) /\ open' \in BOOLEAN /\ (open' => file' # << >>)
        /\ faults' \in 0..MaxFaults
    <3>1. CASE writing = << >>
      BY <1>6, <3>1 DEF Crash, TypeOK, Line, diskVars
    <3>2. CASE writing # << >>
      BY <1>6, <3>2, PartialWriteProperties, RelayAssumption DEF Crash, TypeOK
    <3> QED
      BY <3>1, <3>2
  <2>2. conn' \in [Conns -> Conn]
    BY <1>6 DEF Crash, TypeOK, Conn
  <2>3. << >> \in Seq(Ids) /\ << >> \in Seq(Conns)
    BY EmptySeq
  <2> QED
    BY <1>6, <2>1, <2>2, <2>3 DEF Crash, TypeOK, Line
<1>7. CASE Restart
  BY <1>7, HydratedProperties DEF Restart, TypeOK, diskVars
<1>8. ASSUME NEW c \in Conns, Close(c)
      PROVE  TypeOK'
  <2>1. Idle \in Conn
    BY EmptySeq DEF Idle, Conn
  <2> QED
    BY <1>8, <2>1 DEF Close, TypeOK, diskVars, memVars
<1>9. CASE UNCHANGED vars
  BY <1>9 DEF vars, TypeOK
<1> QED
  BY <1>1, <1>2, <1>3, <1>4, <1>5, <1>6, <1>7, <1>8, <1>9 DEF Next


-----------------------------------------------------------------------------
LEMMA IndexStep ==
  TypeOK /\ TypeOK' /\ IndexInv /\ [Next]_vars => IndexInv'
<1> SUFFICES ASSUME TypeOK, TypeOK', IndexInv, [Next]_vars
             PROVE  IndexInv'
  OBVIOUS
<1>1. ASSUME NEW c \in Conns, NEW b \in Batches, ReceivePush(c, b)
      PROVE  IndexInv'
  BY <1>1 DEF ReceivePush, IndexInv, IndexExact, memVars
<1>2. CASE SkipDuplicates
  BY <1>2 DEF SkipDuplicates, IndexInv, IndexExact, memVars
<1>3. CASE BeginWrite
  <2>1. /\ ToSet(Fresh) \cap seen = {}
        /\ \A k, m \in DOMAIN Fresh : Fresh[k] = Fresh[m] => k = m
    BY <1>3, FreshProperties DEF BeginWrite
  <2> QED
    BY <1>3, <2>1 DEF BeginWrite, IndexInv, IndexExact, memVars
<1>4. CASE FinishWrite
  <2>1. /\ events \in Seq(Ids) /\ writing \in Seq(Ids)
        /\ events' = events \o writing /\ seen' = seen \cup ToSet(writing)
        /\ writing' = << >>
    BY <1>4 DEF FinishWrite, TypeOK
  <2>2. seen' = ToSet(events')
    BY <2>1, ToSetFacts DEF IndexInv, IndexExact
  <2>3. \A i, j \in DOMAIN events' : events'[i] = events'[j] => i = j
    <3>1. /\ Len(events) \in Nat /\ Len(writing) \in Nat
          /\ DOMAIN events' = 1..(Len(events) + Len(writing))
          /\ \A i \in DOMAIN events' : events'[i] =
               IF i <= Len(events) THEN events[i] ELSE writing[i - Len(events)]
      BY <2>1, LenProperties, ConcatProperties
    <3>2. \A i \in 1..Len(events), j \in 1..Len(writing) : events[i] # writing[j]
      <4>1. \A i \in 1..Len(events) : events[i] \in ToSet(events)
        BY <2>1, LenProperties DEF ToSet
      <4>2. \A j \in 1..Len(writing) : writing[j] \in ToSet(writing)
        BY <2>1, LenProperties DEF ToSet
      <4> QED
        BY <4>1, <4>2 DEF IndexInv, IndexExact
    <3>3. DOMAIN events = 1..Len(events) /\ DOMAIN writing = 1..Len(writing)
      BY <2>1, LenProperties
    <3> SUFFICES ASSUME NEW i \in DOMAIN events', NEW j \in DOMAIN events',
                        events'[i] = events'[j]
                 PROVE  i = j
      OBVIOUS
    <3>4. CASE i <= Len(events) /\ j <= Len(events)
      BY <3>1, <3>3, <3>4 DEF IndexInv, IndexExact
    <3>5. CASE i <= Len(events) /\ j > Len(events)
      <4>1. i \in 1..Len(events) /\ j - Len(events) \in 1..Len(writing)
        BY <3>1, <3>5
      <4> QED
        BY <3>1, <3>2, <3>5, <4>1
    <3>6. CASE i > Len(events) /\ j <= Len(events)
      <4>1. j \in 1..Len(events) /\ i - Len(events) \in 1..Len(writing)
        BY <3>1, <3>6
      <4> QED
        BY <3>1, <3>2, <3>6, <4>1
    <3>7. CASE i > Len(events) /\ j > Len(events)
      <4>1. i - Len(events) \in DOMAIN writing /\ j - Len(events) \in DOMAIN writing
        BY <3>1, <3>3, <3>7
      <4>2. writing[i - Len(events)] = writing[j - Len(events)]
        BY <3>1, <3>7
      <4>3. i - Len(events) = j - Len(events)
        BY <4>1, <4>2 DEF IndexInv
      <4> QED
        BY <3>1, <4>3
    <3> QED
      BY <3>1, <3>4, <3>5, <3>6, <3>7
  <2>4. IndexExact'
    BY <2>2, <2>3 DEF IndexExact
  <2>5. (ToSet(writing) \cap seen = {})'
    BY <2>1 DEF ToSet
  <2>6. (\A i, j \in DOMAIN writing : writing[i] = writing[j] => i = j)'
    BY <2>1
  <2> QED
    BY <2>4, <2>5, <2>6 DEF IndexInv
<1>5. CASE FailWrite
  BY <1>5 DEF FailWrite, IndexInv, IndexExact, memVars, ToSet
<1>6. CASE Crash
  BY <1>6 DEF Crash, IndexInv, IndexExact, ToSet
<1>7. CASE Restart
  <2>1. writing = << >>
    BY <1>7 DEF Restart, TypeOK
  <2>2. IndexExact'
    BY <1>7, HydratedProperties DEF Restart, IndexExact
  <2>3. (ToSet(writing) \cap seen = {})'
    BY <1>7, <2>1 DEF Restart, ToSet
  <2>4. (\A i, j \in DOMAIN writing : writing[i] = writing[j] => i = j)'
    BY <1>7, <2>1 DEF Restart
  <2> QED
    BY <2>2, <2>3, <2>4 DEF IndexInv
<1>8. ASSUME NEW c \in Conns, Close(c)
      PROVE  IndexInv'
  BY <1>8 DEF Close, IndexInv, IndexExact, memVars
<1>9. CASE UNCHANGED vars
  BY <1>9 DEF vars, IndexInv, IndexExact
<1> QED
  BY <1>1, <1>2, <1>3, <1>4, <1>5, <1>6, <1>7, <1>8, <1>9 DEF Next


-----------------------------------------------------------------------------
LEMMA QueueStep ==
  TypeOK /\ QueueInv /\ [Next]_vars => QueueInv'
<1> SUFFICES ASSUME TypeOK, QueueInv, [Next]_vars
             PROVE  QueueInv'
  OBVIOUS
<1>1. ASSUME NEW c \in Conns, NEW b \in Batches, ReceivePush(c, b)
      PROVE  QueueInv'
  <2>1. /\ queue' = Append(queue, c) /\ queue \in Seq(Conns)
        /\ Len(queue) \in Nat /\ DOMAIN queue = 1..Len(queue)
        /\ DOMAIN queue' = 1..(Len(queue) + 1)
        /\ \A i \in 1..Len(queue) : queue'[i] = queue[i] /\ queue[i] \in Conns
        /\ queue'[Len(queue) + 1] = c
    BY <1>1, AppendProperties, LenProperties DEF ReceivePush, TypeOK
  <2>2. \A i \in 1..Len(queue) : queue[i] # c
    BY <1>1, <2>1 DEF ReceivePush, QueueInv
  <2>3. /\ conn'[c].phase = "queued"
        /\ \A d \in Conns : d # c => conn'[d] = conn[d]
    BY <1>1 DEF ReceivePush, TypeOK, Idle
  <2>4. \A i \in DOMAIN queue' : conn'[queue'[i]].phase = "queued"
    BY <2>1, <2>2, <2>3 DEF QueueInv
  <2>5. \A i, j \in DOMAIN queue' : queue'[i] = queue'[j] => i = j
    BY <2>1, <2>2 DEF QueueInv
  <2> QED
    BY <2>4, <2>5 DEF QueueInv
<1>2. ASSUME queue # << >>, queue' = Tail(queue),
             \A d \in Conns : d # Head(queue) => conn'[d] = conn[d]
      PROVE  QueueInv'
  <2>1. /\ Len(queue) \in Nat /\ DOMAIN queue = 1..Len(queue) /\ Len(queue) >= 1
        /\ DOMAIN queue' = 1..(Len(queue) - 1)
        /\ \A i \in 1..(Len(queue) - 1) : queue'[i] = queue[i+1]
        /\ \A i \in 1..Len(queue) : queue[i] \in Conns
        /\ Head(queue) = queue[1]
    BY <1>2, HeadTailProperties, LenProperties, EmptySeq DEF TypeOK
  <2>2. \A i \in 1..(Len(queue) - 1) : queue[i+1] # queue[1]
    BY <2>1 DEF QueueInv
  <2>3. \A i \in DOMAIN queue' : conn'[queue'[i]].phase = "queued"
    BY <1>2, <2>1, <2>2 DEF QueueInv
  <2>4. \A i, j \in DOMAIN queue' : queue'[i] = queue'[j] => i = j
    BY <2>1 DEF QueueInv
  <2> QED
    BY <2>3, <2>4 DEF QueueInv
<1>3. CASE SkipDuplicates
  BY <1>2, <1>3 DEF SkipDuplicates, Answer, TypeOK
<1>4. CASE BeginWrite
  BY <1>4 DEF BeginWrite, QueueInv
<1>5. CASE FinishWrite
  BY <1>2, <1>5 DEF FinishWrite, Answer, TypeOK
<1>6. CASE FailWrite
  BY <1>2, <1>6 DEF FailWrite, TypeOK
<1>7. CASE Crash
  BY <1>7 DEF Crash, QueueInv
<1>8. CASE Restart
  BY <1>8 DEF Restart, QueueInv
<1>9. ASSUME NEW c \in Conns, Close(c)
      PROVE  QueueInv'
  <2>1. \A i \in DOMAIN queue : queue[i] # c /\ queue[i] \in Conns
    BY <1>9, LenProperties, ElementOfSeq DEF Close, QueueInv, TypeOK
  <2> QED
    BY <1>9, <2>1 DEF Close, QueueInv, TypeOK
<1>10. CASE UNCHANGED vars
  BY <1>10 DEF vars, QueueInv
<1> QED
  BY <1>1, <1>3, <1>4, <1>5, <1>6, <1>7, <1>8, <1>9, <1>10 DEF Next


-----------------------------------------------------------------------------
LEMMA DurableStep ==
  ASSUME Cuts \subseteq {"boundary"}
  PROVE  TypeOK /\ IndexExact /\ QueueInv /\ DurableInv /\ [Next]_vars => DurableInv'
<1> SUFFICES ASSUME TypeOK, IndexExact, QueueInv, DurableInv, [Next]_vars
             PROVE  DurableInv'
  OBVIOUS
<1> USE DEF DurableInv, MemoryWithinFile, AckedRecoverable, AckedReadable
<1>1. ASSUME NEW c \in Conns, NEW b \in Batches, ReceivePush(c, b)
      PROVE  DurableInv'
  <2>1. writing # << >> => Head(queue') = Head(queue) /\ Head(queue) # c
    <3> SUFFICES ASSUME writing # << >>
                 PROVE  Head(queue') = Head(queue) /\ Head(queue) # c
      OBVIOUS
    <3>1. queue \in Seq(Conns) /\ queue # << >>
      BY DEF TypeOK
    <3>2. 1 \in DOMAIN queue /\ Head(queue) = queue[1]
      BY <3>1, EmptySeq, LenProperties
    <3>3. Head(Append(queue, c)) = Head(queue)
      BY <3>1, HeadTailAppend
    <3> QED
      BY <1>1, <3>2, <3>3 DEF ReceivePush, QueueInv
  <2> QED
    BY <1>1, <2>1 DEF ReceivePush, TypeOK, diskVars, memVars
<1>2. CASE SkipDuplicates
  <2>1. ToSet(conn[Head(queue)].batch) \subseteq seen
    BY <1>2, FreshProperties, EmptySeq DEF SkipDuplicates, ToSet
  <2>2. acked' \subseteq acked \cup ToSet(events)
    BY <1>2, <2>1 DEF SkipDuplicates, Answer, IndexExact
  <2> QED
    BY <1>2, <2>2 DEF SkipDuplicates, diskVars, memVars
<1>3. CASE BeginWrite
  <2>1. ToSet(conn[Head(queue)].batch) \subseteq seen \cup ToSet(Fresh)
    BY <1>3, FreshProperties DEF BeginWrite
  <2> QED
    BY <1>3, <2>1 DEF BeginWrite, diskVars, memVars
<1>4. CASE FinishWrite
  <2>1. writing \in Seq(Ids) /\ writing \in Seq(Line) /\ events \in Seq(Ids)
        /\ file \in Seq(Line)
    BY <1>4 DEF FinishWrite, TypeOK, Line
  <2>2. Recoverable(file') = Recoverable(file) \cup ToSet(writing)
    <3>1. Recoverable(writing) = ToSet(writing)
      BY <2>1, ToSetFacts DEF Recoverable
    <3> QED
      BY <1>4, <2>1, <3>1, ContinuedProperties DEF FinishWrite, TypeOK
  <2>3. ToSet(events') = ToSet(events) \cup ToSet(writing)
    BY <1>4, <2>1, ToSetFacts DEF FinishWrite
  <2>4. acked' \subseteq acked \cup ToSet(events')
    BY <1>4, <2>3 DEF FinishWrite, Answer, IndexExact
  <2> QED
    BY <1>4, <2>2, <2>3, <2>4 DEF FinishWrite, TypeOK
<1>5. CASE FailWrite
  <2>1. Recoverable(file) \subseteq Recoverable(file') /\ ~open'
    BY <1>5, PartialWriteProperties DEF FailWrite
  <2> QED
    BY <1>5, <2>1 DEF FailWrite, memVars
<1>6. CASE Crash
  <2>1. Recoverable(file) \subseteq Recoverable(file') /\ ~open'
    <3>1. CASE writing = << >>
      BY <1>6, <3>1 DEF Crash, diskVars
    <3>2. CASE writing # << >>
      BY <1>6, <3>2, PartialWriteProperties DEF Crash
    <3> QED
      BY <3>1, <3>2
  <2> QED
    BY <1>6, <2>1 DEF Crash, ToSet
<1>7. CASE Restart
  <2>1. writing = << >>
    BY <1>7 DEF Restart, TypeOK
  <2> QED
    BY <1>7, <2>1, HydratedProperties DEF Restart, diskVars
<1>8. ASSUME NEW c \in Conns, Close(c)
      PROVE  DurableInv'
  <2>1. ASSUME writing # << >>
        PROVE  Head(queue) \in Conns /\ Head(queue) # c
    <3>1. queue \in Seq(Conns) /\ queue # << >>
      BY <2>1 DEF TypeOK
    <3>2. 1 \in DOMAIN queue /\ Head(queue) = queue[1] /\ Head(queue) \in Conns
      BY <3>1, EmptySeq, LenProperties, HeadTailProperties
    <3> QED
      BY <1>8, <3>2 DEF Close, QueueInv
  <2> QED
    BY <1>8, <2>1 DEF Close, TypeOK, diskVars, memVars
<1>9. CASE UNCHANGED vars
  BY <1>9 DEF vars
<1> QED
  BY <1>1, <1>2, <1>3, <1>4, <1>5, <1>6, <1>7, <1>8, <1>9 DEF Next

-----------------------------------------------------------------------------
LEMMA RelayInit == Init => TypeOK /\ IndexInv /\ QueueInv /\ DurableInv
<1> SUFFICES ASSUME Init
             PROVE  TypeOK /\ IndexInv /\ QueueInv /\ DurableInv
  OBVIOUS
<1>1. TypeOK
  <2>1. Idle \in Conn
    BY EmptySeq DEF Idle, Conn
  <2>2. 0 \in 0..MaxFaults
    BY RelayAssumption
  <2>3. /\ << >> \in Seq(Ids) /\ << >> \in Seq(Conns)
        /\ << >> \in Seq(Ids \cup {Torn})
    BY EmptySeq
  <2> QED
    BY <2>1, <2>2, <2>3 DEF Init, TypeOK
<1>2. IndexInv
  BY EmptySeq DEF Init, IndexInv, IndexExact, ToSet
<1>3. QueueInv
  BY DEF Init, QueueInv
<1>4. DurableInv
  BY EmptySeq DEF Init, DurableInv, MemoryWithinFile, AckedRecoverable, AckedReadable,
                  Recoverable, ToSet
<1> QED
  BY <1>1, <1>2, <1>3, <1>4

LEMMA Invariant == Spec => []TypeOK /\ []IndexInv /\ []QueueInv
<1>1. Init => TypeOK /\ IndexInv /\ QueueInv
  BY RelayInit
<1>2. TypeOK /\ IndexInv /\ QueueInv /\ [Next]_vars => TypeOK' /\ IndexInv' /\ QueueInv'
  BY TypeStep, IndexStep, QueueStep
<1> QED
  BY <1>1, <1>2, PTL DEF Spec

LEMMA DurableInvariant ==
  ASSUME Cuts \subseteq {"boundary"}
  PROVE  Spec => []DurableInv
<1>1. Init => DurableInv
  BY RelayInit
<1>2. TypeOK /\ IndexInv /\ QueueInv /\ DurableInv /\ [Next]_vars => DurableInv'
  BY DurableStep DEF IndexInv
<1> QED
  BY <1>1, <1>2, Invariant, PTL DEF Spec

(* Type correctness, for every set of events, connections and batches, and *)
(* every kind of interrupted write.                                        *)
THEOREM TypeCorrect == Spec => []TypeOK
BY Invariant, PTL

(* The index is exact in every behaviour, torn files included: no          *)
(* interleaving of pushes, failed writes and restarts puts an event in the *)
(* log twice or lets `seen` and `events` drift apart.                      *)
THEOREM IndexCorrect == Spec => []IndexExact
<1>1. IndexInv => IndexExact
  BY DEF IndexInv
<1> QED
  BY <1>1, Invariant, PTL

(* The tail holds each waiting push once, so an answer goes to the push    *)
(* whose run was at the head.                                              *)
THEOREM QueueCorrect == Spec => []QueueInv
BY Invariant, PTL

(* When interrupted writes end at line boundaries - every crash and failed *)
(* append included - nothing acknowledged is ever lost: the file would     *)
(* give it back to a restart.                                              *)
THEOREM DurabilityCorrect ==
  ASSUME Cuts \subseteq {"boundary"}
  PROVE  Spec => []AckedRecoverable
<1>1. DurableInv => AckedRecoverable
  BY DEF DurableInv
<1> QED
  BY <1>1, DurableInvariant, PTL

(* Whatever is acknowledged is served by a live process.                   *)
THEOREM ReadableCorrect ==
  ASSUME Cuts \subseteq {"boundary"}
  PROVE  Spec => []AckedReadable
<1>1. DurableInv => AckedReadable
  BY DEF DurableInv
<1> QED
  BY <1>1, DurableInvariant, PTL

(* Memory never claims an event a restart would not find.                  *)
THEOREM MemoryCorrect ==
  ASSUME Cuts \subseteq {"boundary"}
  PROVE  Spec => []MemoryWithinFile
<1>1. DurableInv => MemoryWithinFile
  BY DEF DurableInv
<1> QED
  BY <1>1, DurableInvariant, PTL

-----------------------------------------------------------------------------
(* With cuts at line boundaries the file only grows, by whole lines.       *)
LEMMA FileGrows ==
  ASSUME Cuts \subseteq {"boundary"}, TypeOK, DurableInv, [Next]_vars
  PROVE  /\ \E ls \in Seq(Line) : file' = file \o ls
         /\ FinishWrite => file' = file \o writing
         /\ Recoverable(file) \subseteq Recoverable(file')
         /\ acked \subseteq acked'
<1>1. file \in Seq(Line) /\ writing \in Seq(Ids) /\ writing \in Seq(Line) /\ ~open
      /\ << >> \in Seq(Line)
  BY EmptySeq DEF TypeOK, DurableInv, Line
<1>2. file = file \o << >>
  BY <1>1, ConcatEmptySeq
<1>3. ASSUME NEW i \in Interruptions(writing), PartialWrite(i[1], i[2])
      PROVE  \E ls \in Seq(Line) : file' = file \o ls
  <2>1. Remnant(writing, i[1], i[2]) \in Seq(Line)
    BY <1>1, RemnantProperties
  <2> QED
    BY <1>1, <1>3, <2>1 DEF PartialWrite, Continued
<1>4. FinishWrite => file' = file \o writing
  BY <1>1 DEF FinishWrite, Continued
<1>5. \E ls \in Seq(Line) : file' = file \o ls
  <2>1. CASE FinishWrite
    BY <1>1, <1>4, <2>1
  <2>2. CASE FailWrite
    BY <1>3, <2>2 DEF FailWrite
  <2>3. CASE Crash
    <3>1. CASE writing = << >>
      BY <1>1, <1>2, <2>3, <3>1 DEF Crash, diskVars
    <3>2. CASE writing # << >>
      BY <1>3, <2>3, <3>2 DEF Crash
    <3> QED
      BY <3>1, <3>2
  <2>4. CASE file' = file
    BY <1>1, <1>2, <2>4
  <2> QED
    BY <2>1, <2>2, <2>3, <2>4
       DEF Next, ReceivePush, SkipDuplicates, BeginWrite, Restart, Close, diskVars, vars
<1>6. Recoverable(file) \subseteq Recoverable(file')
  BY <1>1, <1>5, ToSetFacts DEF Recoverable
<1>7. acked \subseteq acked'
  BY DEF Next, ReceivePush, SkipDuplicates, BeginWrite, FinishWrite, FailWrite, Crash,
         Restart, Close, Answer, vars
<1> QED
  BY <1>4, <1>5, <1>6, <1>7

(* What a connection was told to be newly stored is in the file, and in    *)
(* the index of a live process, so no later batch has it fresh.            *)
AcceptedInv ==
  /\ AcceptedOnce
  /\ \A c \in Conns : /\ ToSet(conn[c].accepted) \subseteq Recoverable(file)
                      /\ up => ToSet(conn[c].accepted) \subseteq seen

LEMMA AcceptedStep ==
  ASSUME Cuts \subseteq {"boundary"}
  PROVE  TypeOK /\ IndexInv /\ DurableInv /\ DurableInv' /\ IndexInv' /\ AcceptedInv
         /\ [Next]_vars => AcceptedInv'
<1> SUFFICES ASSUME TypeOK, IndexInv, DurableInv, DurableInv', IndexInv', AcceptedInv, [Next]_vars
             PROVE  AcceptedInv'
  OBVIOUS
<1>1. ToSet(<< >>) = {} /\ Recoverable(file) \subseteq Recoverable(file')
  BY EmptySeq, FileGrows DEF ToSet
<1>2. ASSUME up' => seen \subseteq seen' /\ up,
             \A c \in Conns : conn'[c].accepted = << >> \/ conn'[c].accepted = conn[c].accepted
      PROVE  AcceptedInv'
  <2>1. \A c \in Conns : ToSet(conn'[c].accepted) \subseteq ToSet(conn[c].accepted)
    BY <1>1, <1>2
  <2>2. \A c \in Conns : /\ ToSet(conn'[c].accepted) \subseteq Recoverable(file')
                         /\ up' => ToSet(conn'[c].accepted) \subseteq seen'
    BY <1>1, <1>2, <2>1 DEF AcceptedInv
  <2>3. AcceptedOnce'
    BY <2>1 DEF AcceptedInv, AcceptedOnce
  <2> QED
    BY <2>2, <2>3 DEF AcceptedInv
<1>3. ASSUME NEW c \in Conns, NEW b \in Batches, ReceivePush(c, b)
      PROVE  AcceptedInv'
  <2>1. \A d \in Conns : conn'[d].accepted = << >> \/ conn'[d].accepted = conn[d].accepted
    BY <1>3 DEF ReceivePush, TypeOK, Idle
  <2> QED
    BY <1>2, <1>3, <2>1 DEF ReceivePush, memVars
<1>4. CASE SkipDuplicates
  <2>1. Head(queue) \in Conns
    BY <1>4, FreshProperties DEF SkipDuplicates
  <2>2. conn' = [conn EXCEPT ![Head(queue)].phase = "answered", ![Head(queue)].accepted = << >>]
    BY <1>4 DEF SkipDuplicates, Answer
  <2>3. \A c \in Conns : conn'[c].accepted = << >> \/ conn'[c].accepted = conn[c].accepted
    BY <2>1, <2>2 DEF TypeOK, Conn
  <2> QED
    BY <1>2, <1>4, <2>3 DEF SkipDuplicates, memVars
<1>5. CASE BeginWrite
  BY <1>2, <1>5 DEF BeginWrite, memVars
<1>6. CASE FinishWrite
  <2>1. Head(queue) \in Conns /\ writing \in Seq(Ids) /\ up /\ writing # << >>
    BY <1>6, FreshProperties DEF FinishWrite, TypeOK
  <2>2. conn' = [conn EXCEPT ![Head(queue)].phase = "answered", ![Head(queue)].accepted = writing]
    BY <1>6 DEF FinishWrite, Answer
  <2>3. /\ conn'[Head(queue)].accepted = writing
        /\ \A c \in Conns : c # Head(queue) => conn'[c] = conn[c]
    BY <2>1, <2>2 DEF TypeOK, Conn
  <2>4. ToSet(writing) \cap seen = {} /\ seen' = seen \cup ToSet(writing)
    BY <1>6 DEF IndexInv, FinishWrite
  <2>5. \A c \in Conns : c # Head(queue) => ToSet(conn[c].accepted) \cap ToSet(writing) = {}
    BY <2>1, <2>4 DEF AcceptedInv
  <2>6. AcceptedOnce'
    BY <2>3, <2>5 DEF AcceptedInv, AcceptedOnce
  <2>7. ToSet(writing) \subseteq Recoverable(file')
    BY <2>4 DEF DurableInv, MemoryWithinFile, IndexInv, IndexExact
  <2>8. \A c \in Conns : /\ ToSet(conn'[c].accepted) \subseteq Recoverable(file')
                         /\ ToSet(conn'[c].accepted) \subseteq seen'
    BY <1>1, <2>1, <2>3, <2>4, <2>7 DEF AcceptedInv
  <2> QED
    BY <2>6, <2>8 DEF AcceptedInv
<1>7. CASE FailWrite
  <2>1. Head(queue) \in Conns
    BY <1>7, FreshProperties DEF FailWrite, TypeOK
  <2>2. conn' = [conn EXCEPT ![Head(queue)].phase = "failed"]
    BY <1>7 DEF FailWrite
  <2>3. \A c \in Conns : conn'[c].accepted = conn[c].accepted
    BY <2>1, <2>2 DEF TypeOK, Conn
  <2> QED
    BY <1>2, <1>7, <2>3 DEF FailWrite, memVars
<1>8. CASE Crash
  <2>1. \A c \in Conns : conn'[c].accepted = conn[c].accepted
    BY <1>8 DEF Crash, TypeOK, Conn
  <2> QED
    BY <1>2, <1>8, <2>1 DEF Crash
<1>9. CASE Restart
  BY <1>9 DEF Restart, AcceptedInv, AcceptedOnce, diskVars
<1>10. ASSUME NEW c \in Conns, Close(c)
       PROVE  AcceptedInv'
  <2>1. \A d \in Conns : conn'[d].accepted = << >> \/ conn'[d].accepted = conn[d].accepted
    BY <1>10 DEF Close, TypeOK, Idle
  <2> QED
    BY <1>2, <1>10, <2>1 DEF Close, memVars
<1>11. CASE UNCHANGED vars
  BY <1>2, <1>11 DEF vars
<1> QED
  BY <1>3, <1>4, <1>5, <1>6, <1>7, <1>8, <1>9, <1>10, <1>11 DEF Next

(* When interrupted writes end at line boundaries, no two pushes are both  *)
(* told that they stored the same event, whatever fails between them       *)
(* (server.ts `accepted`).                                                 *)
THEOREM AcceptedCorrect ==
  ASSUME Cuts \subseteq {"boundary"}
  PROVE  Spec => []AcceptedOnce
<1>1. Init => AcceptedInv
  BY EmptySeq DEF Init, AcceptedInv, AcceptedOnce, Idle, ToSet
<1>2. TypeOK /\ IndexInv /\ IndexInv' /\ DurableInv /\ DurableInv' /\ AcceptedInv
      /\ [Next]_vars => AcceptedInv'
  BY AcceptedStep
<1>3. AcceptedInv => AcceptedOnce
  BY DEF AcceptedInv
<1> QED
  BY <1>1, <1>2, <1>3, Invariant, DurableInvariant, PTL DEF Spec

-----------------------------------------------------------------------------
(* The element that k elements do not exceed is the k-th.                  *)
LEMMA NthIs ==
  ASSUME NEW n \in Nat, NEW P \in SUBSET (1..n), NEW i \in P, NEW k \in Nat,
         Cardinality({ j \in P : j <= i }) = k
  PROVE  k \in 1..Cardinality(P) /\ Nth(P, k) = i
<1>1. PICK m \in 1..Cardinality(P) : Nth(P, m) = i
  BY NthEnumerates
<1>2. Cardinality({ j \in P : j <= Nth(P, m) }) = m
  BY NthMember
<1> QED
  BY <1>1, <1>2

(* Positions added beyond the others leave their enumeration as it was.    *)
LEMMA NthBelow ==
  ASSUME NEW n \in Nat, NEW P \in SUBSET (1..n), NEW m \in Nat, NEW Q \in SUBSET (1..m),
         n <= m, P \subseteq Q, \A j \in Q : j <= n => j \in P
  PROVE  /\ Cardinality(P) <= Cardinality(Q)
         /\ \A k \in 1..Cardinality(P) : Nth(Q, k) = Nth(P, k)
<1>1. IsFiniteSet(Q) /\ P \in SUBSET Q /\ Cardinality(P) \in Nat
  <2>1. IsFiniteSet(1..m)
    BY FS_Interval
  <2>2. IsFiniteSet(Q)
    BY <2>1, FS_Subset
  <2>3. Cardinality(P) \in Nat
    BY NthEnumerates
  <2> QED
    BY <2>2, <2>3
<1>2. Cardinality(P) <= Cardinality(Q)
  BY <1>1, FS_Subset
<1>3. ASSUME NEW k \in 1..Cardinality(P) PROVE Nth(Q, k) = Nth(P, k)
  <2>1. PICK i \in P : i = Nth(P, k) /\ Cardinality({ j \in P : j <= i }) = k
    BY NthMember
  <2>2. { j \in Q : j <= i } = { j \in P : j <= i }
    <3>1. i \in Int /\ i <= n /\ \A j \in Q : j \in Int
      OBVIOUS
    <3>2. \A j \in Q : j <= i => j <= n
      BY <3>1
    <3> QED
      BY <3>2
  <2>3. i \in Q /\ k \in Nat
    BY <1>1
  <2>4. Cardinality({ j \in Q : j <= i }) = k
    BY <2>1, <2>2
  <2>5. Nth(Q, k) = i
    BY <2>3, <2>4, NthIs
  <2> QED
    BY <2>1, <2>5
<1> QED
  BY <1>2, <1>3

(* What a re-hydration finds only grows at its end when lines are appended *)
(* to the file, and it grows by a batch that the file did not have.        *)
LEMMA HydratedGrows ==
  ASSUME NEW f \in Seq(Line), NEW ls \in Seq(Line)
  PROVE  /\ Len(Hydrated(f)) <= Len(Hydrated(f \o ls))
         /\ \A k \in 1..Len(Hydrated(f)) : Hydrated(f \o ls)[k] = Hydrated(f)[k]
         /\ /\ ls \in Seq(Ids) /\ ToSet(ls) \cap Recoverable(f) = {}
            /\ \A i, j \in DOMAIN ls : ls[i] = ls[j] => i = j
            => Hydrated(f \o ls) = Hydrated(f) \o ls
<1> DEFINE n == Len(f)
           m == Len(f) + Len(ls)
           g == f \o ls
           P == KeptPositions(f, {})
           Q == KeptPositions(g, {})
<1>1. /\ n \in Nat /\ Len(ls) \in Nat /\ m \in Nat /\ n <= m /\ m = n + Len(ls)
      /\ DOMAIN f = 1..n /\ DOMAIN ls = 1..Len(ls) /\ DOMAIN g = 1..m /\ g \in Seq(Line)
      /\ \A i \in 1..n : g[i] = f[i]
      /\ \A i \in 1..Len(ls) : g[n + i] = ls[i]
  BY LenProperties, ConcatProperties
<1>2. P \in SUBSET (1..n) /\ Q \in SUBSET (1..m)
  BY <1>1 DEF KeptPositions
<1> HIDE DEF n, m, g, P, Q
<1>3. P \subseteq Q /\ \A j \in Q : j <= n => j \in P
  <2>1. ASSUME NEW i \in 1..n PROVE i \in P <=> i \in Q
    <3>1. i \in 1..m /\ g[i] = f[i] /\ \A j \in 1..(i-1) : j \in 1..n /\ g[j] = f[j]
      BY <1>1
    <3> QED
      BY <1>1, <3>1 DEF KeptPositions, P, Q
  <2>2. \A i \in Q : i <= n => i \in 1..n
    BY <1>1, <1>2
  <2> QED
    BY <1>1, <1>2, <2>1, <2>2
<1>4. /\ Cardinality(P) \in Nat /\ Cardinality(Q) \in Nat
      /\ Cardinality(P) <= Cardinality(Q)
      /\ \A k \in 1..Cardinality(P) : Nth(Q, k) = Nth(P, k) /\ Nth(P, k) \in P
  <2>1. /\ Cardinality(P) <= Cardinality(Q)
        /\ \A k \in 1..Cardinality(P) : Nth(Q, k) = Nth(P, k)
    BY <1>1, <1>2, <1>3, NthBelow
  <2>2. Cardinality(P) \in Nat /\ \A k \in 1..Cardinality(P) : Nth(P, k) \in P
    BY <1>1, <1>2, NthEnumerates
  <2>3. Cardinality(Q) \in Nat
    BY <1>1, <1>2, NthEnumerates
  <2> QED
    BY <2>1, <2>2, <2>3
<1>5. /\ Hydrated(f) = [k \in 1..Cardinality(P) |-> f[Nth(P, k)]]
      /\ Hydrated(g) = [k \in 1..Cardinality(Q) |-> g[Nth(Q, k)]]
  BY DEF Hydrated, Kept, P, Q
<1>6. /\ Hydrated(f) \in Seq(Ids) /\ Hydrated(g) \in Seq(Ids)
      /\ ToSet(Hydrated(f)) = Recoverable(f)
  <2>1. Hydrated(f) \in Seq(Ids) /\ ToSet(Hydrated(f)) = ToSet(f) \cap Ids
    BY KeptProperties DEF Hydrated
  <2>2. Hydrated(g) \in Seq(Ids)
    BY <1>1, KeptProperties DEF Hydrated
  <2> QED
    BY <2>1, <2>2 DEF Recoverable
<1>7. Len(Hydrated(f)) = Cardinality(P) /\ Len(Hydrated(g)) = Cardinality(Q)
  BY <1>4, <1>5, <1>6, LenProperties
<1>8. \A k \in 1..Cardinality(P) : Hydrated(g)[k] = Hydrated(f)[k]
  <2> TAKE k \in 1..Cardinality(P)
  <2>1. k \in 1..Cardinality(Q)
    BY <1>4
  <2>2. Nth(Q, k) = Nth(P, k) /\ Nth(P, k) \in 1..n
    BY <1>2, <1>4
  <2> QED
    BY <1>1, <1>5, <2>1, <2>2
<1>9. ASSUME ls \in Seq(Ids), ToSet(ls) \cap Recoverable(f) = {},
             \A i, j \in DOMAIN ls : ls[i] = ls[j] => i = j
      PROVE  Hydrated(g) = Hydrated(f) \o ls
  <2>1. ASSUME NEW i \in 1..Len(ls) PROVE n + i \in Q
    <3>1. n + i \in 1..m /\ g[n + i] = ls[i] /\ ls[i] \in Ids
      BY <1>1, <1>9, ElementOfSeq DEF m, n
    <3>2. ls[i] \notin Recoverable(f)
      BY <1>1, <1>9 DEF ToSet
    <3>3. ASSUME NEW j \in 1..(n + i - 1) PROVE g[j] # g[n + i]
      <4>1. CASE j <= n
        <5>1. j \in 1..n
          BY <1>1, <4>1
        <5>2. g[j] = f[j] /\ f[j] \in ToSet(f)
          BY <1>1, <5>1 DEF ToSet
        <5> QED
          BY <3>1, <3>2, <5>2 DEF Recoverable
      <4>2. CASE j > n
        <5>1. j - n \in 1..Len(ls) /\ j - n # i /\ j = n + (j - n)
          BY <1>1, <4>2
        <5>2. g[j] = ls[j - n]
          BY <1>1, <5>1
        <5> QED
          BY <1>1, <1>9, <3>1, <5>1, <5>2
      <4> QED
        BY <1>1, <4>1, <4>2
    <3> QED
      BY <1>1, <3>1, <3>3 DEF Q, KeptPositions
  <2>2. ASSUME NEW i \in 0..Len(ls)
        PROVE  Cardinality({ j \in Q : j <= n + i }) = Cardinality(P) + i
    <3> DEFINE T == (n + 1)..(n + i)
    <3>1. { j \in Q : j <= n + i } = P \cup T
      <4>1. \A j \in T : j \in Q
        <5> TAKE j \in T
        <5>1. j - n \in 1..Len(ls) /\ j = n + (j - n)
          BY <1>1
        <5> QED
          BY <2>1, <5>1
      <4>2. \A j \in Q : j <= n + i => j \in P \/ j \in T
        BY <1>1, <1>2, <1>3
      <4>3. \A j \in P \cup T : j <= n + i
        BY <1>1, <1>2
      <4> QED
        BY <1>3, <4>1, <4>2, <4>3
    <3> HIDE DEF T
    <3>2. IsFiniteSet(P) /\ IsFiniteSet(T) /\ Cardinality(T) = i
      <4>1. IsFiniteSet(1..n)
        BY <1>1, FS_Interval
      <4>2. IsFiniteSet(P)
        BY <1>2, <4>1, FS_Subset
      <4>3. n + 1 \in Int /\ n + i \in Int /\ i \in Nat
        BY <1>1
      <4>4. IsFiniteSet(T) /\ Cardinality(T) = IF n + 1 > n + i THEN 0 ELSE (n + i) - (n + 1) + 1
        BY <4>3, FS_Interval DEF T
      <4>5. (IF n + 1 > n + i THEN 0 ELSE (n + i) - (n + 1) + 1) = i
        BY <1>1, <4>3
      <4> QED
        BY <4>2, <4>4, <4>5
    <3>3. P \cap T = {}
      BY <1>1, <1>2 DEF T
    <3>4. Cardinality(P \cup T) = Cardinality(P) + Cardinality(T) - Cardinality(P \cap T)
      BY <3>2, FS_Union
    <3>5. Cardinality(P \cap T) = 0
      BY <3>3, FS_EmptySet
    <3>6. Cardinality(P \cup T) = Cardinality(P) + i
      BY <1>4, <3>2, <3>4, <3>5
    <3> QED
      BY <3>1, <3>6
  <2>3. ASSUME NEW i \in 1..Len(ls)
        PROVE  Nth(Q, Cardinality(P) + i) = n + i
    <3>1. Cardinality(P) + i \in Nat /\ i \in 0..Len(ls)
      BY <1>1, <1>4
    <3>2. PICK x \in Q : x = n + i
      BY <2>1
    <3>3. Cardinality({ j \in Q : j <= x }) = Cardinality(P) + i
      BY <2>2, <3>1, <3>2
    <3>4. Nth(Q, Cardinality(P) + i) = x
      BY <1>1, <1>2, <3>1, <3>3, NthIs
    <3> QED
      BY <3>2, <3>4
  <2>4. Cardinality(Q) = Cardinality(P) + Len(ls)
    <3>1. \A j \in Q : j <= n + Len(ls)
      BY <1>1, <1>2
    <3>2. { j \in Q : j <= n + Len(ls) } = Q
      BY <3>1
    <3>3. Len(ls) \in 0..Len(ls)
      BY <1>1
    <3> QED
      BY <2>2, <3>2, <3>3
  <2>5. \A i \in 1..Len(ls) : Hydrated(g)[Cardinality(P) + i] = ls[i]
    <3> TAKE i \in 1..Len(ls)
    <3>1. Cardinality(P) + i \in 1..Cardinality(Q)
      BY <1>1, <1>4, <2>4
    <3> QED
      BY <1>1, <1>5, <2>3, <3>1
  <2>6. Hydrated(f) \o ls \in Seq(Ids) /\ Len(Hydrated(f) \o ls) = Cardinality(Q)
        /\ \A k \in 1..Cardinality(Q) : (Hydrated(f) \o ls)[k] =
             IF k <= Cardinality(P) THEN Hydrated(f)[k] ELSE ls[k - Cardinality(P)]
    <3> DEFINE h == Hydrated(f)
    <3>1. h \in Seq(Ids) /\ ls \in Seq(Ids) /\ Len(h) = Cardinality(P)
      BY <1>6, <1>7, <1>9
    <3> HIDE DEF h
    <3>2. /\ h \o ls \in Seq(Ids) /\ Len(h \o ls) = Len(h) + Len(ls)
          /\ \A k \in 1..(Len(h) + Len(ls)) : (h \o ls)[k] =
               IF k <= Len(h) THEN h[k] ELSE ls[k - Len(h)]
      BY <3>1, ConcatProperties
    <3>3. Len(h \o ls) = Cardinality(Q)
      BY <2>4, <3>1, <3>2
    <3>4. \A k \in 1..Cardinality(Q) : (h \o ls)[k] =
            IF k <= Cardinality(P) THEN h[k] ELSE ls[k - Cardinality(P)]
      BY <2>4, <3>1, <3>2
    <3> QED
      BY <3>2, <3>3, <3>4 DEF h
  <2>7. \A k \in 1..Cardinality(Q) : Hydrated(g)[k] = (Hydrated(f) \o ls)[k]
    <3> TAKE k \in 1..Cardinality(Q)
    <3>1. CASE k <= Cardinality(P)
      <4>1. k \in 1..Cardinality(P)
        BY <1>4, <3>1
      <4>2. (Hydrated(f) \o ls)[k] = Hydrated(f)[k]
        BY <2>6, <3>1
      <4>3. Hydrated(g)[k] = Hydrated(f)[k]
        BY <1>8, <4>1
      <4> QED
        BY <4>2, <4>3
    <3>2. CASE k > Cardinality(P)
      <4>1. k - Cardinality(P) \in 1..Len(ls) /\ k = Cardinality(P) + (k - Cardinality(P))
        BY <1>1, <1>4, <2>4, <3>2
      <4>2. Hydrated(g)[k] = ls[k - Cardinality(P)]
        BY <2>5, <4>1
      <4>3. (Hydrated(f) \o ls)[k] = ls[k - Cardinality(P)]
        BY <1>4, <2>6, <3>2
      <4> QED
        BY <4>2, <4>3
    <3>3. k <= Cardinality(P) \/ k > Cardinality(P)
      BY <1>4
    <3> QED
      BY <3>1, <3>2, <3>3
  <2> QED
    BY <1>6, <1>7, <2>6, <2>7, SeqEqual
<1> QED
  BY <1>4, <1>7, <1>8, <1>9 DEF g

-----------------------------------------------------------------------------
(* Equal up to the length of the first.                                    *)
LEMMA PrefixIs ==
  ASSUME NEW S, NEW s \in Seq(S), NEW t \in Seq(S)
  PROVE  IsPrefix(s, t) <=> /\ Len(s) <= Len(t)
                            /\ \A k \in 1..Len(s) : s[k] = t[k]
<1>1. Len(s) \in Nat /\ Len(t) \in Nat
  BY LenProperties
<1>2. ASSUME Len(s) <= Len(t)
      PROVE  SubSeq(s, 1, Len(s)) = SubSeq(t, 1, Len(s)) <=> \A k \in 1..Len(s) : s[k] = t[k]
  <2>1. \A i \in 1..Len(s) : i \in DOMAIN s /\ i \in DOMAIN t
    BY <1>1, <1>2, LenProperties
  <2>2. SubSeq(s, 1, Len(s)) = s
    BY SubSeqFull
  <2>3. /\ SubSeq(t, 1, Len(s)) \in Seq(S) /\ Len(SubSeq(t, 1, Len(s))) = Len(s)
        /\ \A k \in 1..Len(s) : SubSeq(t, 1, Len(s))[k] = t[k]
    BY <1>1, <1>2, SubSeqProperties
  <2>4. (\A k \in 1..Len(s) : s[k] = t[k]) => s = SubSeq(t, 1, Len(s))
    BY <1>1, <2>3, SeqEqual
  <2> QED
    BY <2>2, <2>3, <2>4
<1> QED
  BY <1>2 DEF IsPrefix

LEMMA HydratedPrefix ==
  ASSUME NEW f \in Seq(Line), NEW ls \in Seq(Line)
  PROVE  IsPrefix(Hydrated(f), Hydrated(f \o ls))
<1>1. f \o ls \in Seq(Line)
  BY ConcatProperties
<1>2. Hydrated(f) \in Seq(Ids) /\ Hydrated(f \o ls) \in Seq(Ids)
  BY <1>1, KeptProperties DEF Hydrated
<1> QED
  BY <1>2, PrefixIs, HydratedGrows

LEMMA PrefixTransitive ==
  ASSUME NEW S, NEW s \in Seq(S), NEW t \in Seq(S), NEW u \in Seq(S),
         IsPrefix(s, t), IsPrefix(t, u)
  PROVE  IsPrefix(s, u)
<1>1. Len(s) \in Nat /\ Len(t) \in Nat /\ Len(u) \in Nat
  BY LenProperties
<1>2. /\ Len(s) <= Len(t) /\ \A k \in 1..Len(s) : s[k] = t[k]
      /\ Len(t) <= Len(u) /\ \A k \in 1..Len(t) : t[k] = u[k]
  BY PrefixIs
<1>3. Len(s) <= Len(u) /\ \A k \in 1..Len(s) : s[k] = u[k]
  BY <1>1, <1>2
<1> QED
  BY <1>3, PrefixIs

(* An empty log hydrates to an empty index.                                *)
LEMMA HydratedEmpty == Hydrated(<< >>) = << >>
<1>1. KeptPositions(<< >>, {}) = {}
  BY EmptySeq DEF KeptPositions
<1>2. Cardinality(KeptPositions(<< >>, {})) = 0
  BY <1>1, FS_EmptySet
<1>3. Hydrated(<< >>) = [k \in 1..0 |-> << >>[Nth(KeptPositions(<< >>, {}), k)]]
  BY <1>2 DEF Hydrated, Kept
<1>4. Hydrated(<< >>) \in Seq(Ids)
  BY EmptySeq, KeptProperties DEF Hydrated
<1>5. ToSet(Hydrated(<< >>)) = {}
  <2>1. ToSet(<< >>) = {}
    BY EmptySeq DEF ToSet
  <2>2. << >> \in Seq(Line)
    BY EmptySeq
  <2>3. ToSet(Kept(<< >>, {})) = (ToSet(<< >>) \cap Ids) \ {}
    BY <2>2, KeptProperties
  <2> QED
    BY <2>1, <2>3 DEF Hydrated
<1> QED
  BY <1>4, <1>5, ToSetFacts

(* The relay implements the abstract log: with cuts at line boundaries the *)
(* durable log only grows at its end, never holds an id twice, and every   *)
(* acknowledged id is in it, whatever crashes and fails (transport.md      *)
(* "Append-only. Never mutate or drop a stored event").                    *)
THEOREM LogCorrect ==
  ASSUME Cuts \subseteq {"boundary"}
  PROVE  Spec => DurableLog
<1>1. Init => Durable!Init
  BY HydratedEmpty DEF Init, Durable!Init
<1>2. ASSUME TypeOK, DurableInv, TypeOK', DurableInv', [Next]_vars
      PROVE  [Durable!Next]_<<Hydrated(file), acked>>
  <2>1. PICK ls \in Seq(Line) : file' = file \o ls
    BY <1>2, FileGrows
  <2>2. file \in Seq(Line) /\ acked \subseteq acked' /\ acked' \subseteq Recoverable(file')
    BY <1>2, FileGrows DEF TypeOK, DurableInv, AckedRecoverable, Line
  <2>3. IsPrefix(Hydrated(file), Hydrated(file'))
    BY <2>1, <2>2, HydratedPrefix
  <2>4. file' \in Seq(Line)
    BY <2>1, <2>2, ConcatProperties
  <2>5. /\ ToSet(Hydrated(file')) = Recoverable(file') /\ Recoverable(file') \subseteq Ids
        /\ \A k, m \in DOMAIN Hydrated(file') : Hydrated(file')[k] = Hydrated(file')[m] => k = m
    BY <2>4, KeptProperties DEF Hydrated, Recoverable
  <2>6. Durable!Acknowledge
    BY <2>2, <2>5 DEF Durable!Acknowledge, Durable!ToSet, ToSet
  <2>7. Durable!Store \/ UNCHANGED Hydrated(file)
    BY <2>3, <2>5 DEF Durable!Store, Durable!NoDuplicates, Durable!IsStrictPrefix,
       Durable!IsPrefix, IsPrefix, Durable!ToSet, ToSet
  <2> QED
    BY <2>6, <2>7 DEF Durable!Next
<1> QED
  BY <1>1, <1>2, Invariant, DurableInvariant, PTL DEF Spec, DurableLog, Durable!Spec
(* While every append succeeds or dies with the process, memory is exactly *)
(* what the file would hydrate to, and each process continues the log the  *)
(* one before it served.                                                   *)
OrderInv ==
  /\ up => events = Hydrated(file) /\ IsPrefix(served, events)
  /\ ~up => IsPrefix(served, Hydrated(file))

LEMMA OrderInitial == Init => OrderInv
<1>1. IsPrefix(<< >>, << >>)
  BY EmptySeq DEF IsPrefix
<1> QED
  BY <1>1, HydratedEmpty DEF Init, OrderInv

LEMMA OrderStep ==
  ASSUME Cuts \subseteq {"boundary"}, WriteMayFail = FALSE
  PROVE  TypeOK /\ IndexInv /\ DurableInv /\ TypeOK' /\ OrderInv /\ [Next]_vars => OrderInv'
<1> SUFFICES ASSUME TypeOK, IndexInv, DurableInv, TypeOK', OrderInv, [Next]_vars
             PROVE  OrderInv'
  OBVIOUS
<1>1. ASSUME UNCHANGED <<file, up, events, served>>
      PROVE  OrderInv'
  BY <1>1 DEF OrderInv
<1>2. CASE FinishWrite
  <2>1. /\ up /\ up' /\ served' = served /\ events' = events \o writing
        /\ file' = file \o writing
    BY <1>2, FileGrows DEF FinishWrite
  <2>2. file \in Seq(Line) /\ writing \in Seq(Ids) /\ writing \in Seq(Line)
    BY DEF TypeOK, Line
  <2>3. ToSet(events) = Recoverable(file)
    BY <2>1, HydratedProperties DEF OrderInv
  <2>4. ToSet(writing) \cap Recoverable(file) = {}
    BY <2>3 DEF IndexInv, IndexExact
  <2>5. Hydrated(file \o writing) = Hydrated(file) \o writing
    BY <2>2, <2>4, HydratedGrows DEF IndexInv
  <2>6. events' = Hydrated(file')
    BY <2>1, <2>5 DEF OrderInv
  <2>7. IsPrefix(events, events')
    BY <2>1, <2>2, <2>6, HydratedPrefix DEF OrderInv
  <2>8. IsPrefix(served, events')
    BY <2>1, <2>7, PrefixTransitive DEF OrderInv, TypeOK
  <2> QED
    BY <2>1, <2>6, <2>8 DEF OrderInv
<1>3. CASE Crash
  <2>1. up /\ ~up' /\ served' = events
    BY <1>3 DEF Crash
  <2>2. PICK ls \in Seq(Line) : file' = file \o ls
    BY FileGrows
  <2>3. IsPrefix(Hydrated(file), Hydrated(file'))
    BY <2>2, HydratedPrefix DEF TypeOK, Line
  <2> QED
    BY <2>1, <2>3 DEF OrderInv
<1>4. CASE Restart
  BY <1>4 DEF Restart, diskVars, OrderInv
<1> QED
  BY <1>1, <1>2, <1>3, <1>4
     DEF Next, ReceivePush, SkipDuplicates, BeginWrite, FailWrite, Close, Answer, diskVars,
         memVars, vars

(* While no append is refused and interrupted writes end at line           *)
(* boundaries, a restarted relay serves the log the one before it served,  *)
(* in the same order: no `?since=` cursor changes its meaning              *)
(* (store.ts:163-165).                                                     *)
THEOREM OrderCorrect ==
  ASSUME Cuts \subseteq {"boundary"}, WriteMayFail = FALSE
  PROVE  Spec => []OrderSurvivesRestart
<1>1. Init => OrderInv
  BY OrderInitial
<1>2. TypeOK /\ IndexInv /\ DurableInv /\ TypeOK' /\ OrderInv /\ [Next]_vars => OrderInv'
  BY OrderStep
<1>3. OrderInv => OrderSurvivesRestart
  BY DEF OrderInv, OrderSurvivesRestart
<1> QED
  BY <1>1, <1>2, <1>3, Invariant, DurableInvariant, PTL DEF Spec

-----------------------------------------------------------------------------
(* The relay and its clients.                                              *)

(* What a run writes is part of its push; what an answer calls newly       *)
(* stored is part of the push it answers, and all of that push counts as   *)
(* acknowledged.                                                           *)
AnswerInv ==
  /\ writing # << >> => ToSet(writing) \subseteq ToSet(conn[Head(queue)].batch)
  /\ \A c \in Conns : conn[c].phase = "answered" =>
       /\ ToSet(conn[c].accepted) \subseteq ToSet(conn[c].batch)
       /\ ToSet(conn[c].batch) \subseteq acked

(* A connection is a writer's from its push to its answer, and carries     *)
(* only what that writer has written.                                      *)
OwnerInv ==
  \A c \in Conns :
    /\ owner[c] = None <=> conn[c].phase = "idle"
    /\ owner[c] # None =>
         \A e \in ToSet(conn[c].batch) :
           \E i \in 1..authored[owner[c]] : Authored[owner[c]][i] = e

(* A push leaves no gap before it: what its writer wrote at or before one  *)
(* of its events is in the push or stored.                                 *)
StretchInv ==
  \A c \in Conns : owner[c] # None =>
    \A k \in DOMAIN Authored[owner[c]] : \A i \in 1..k :
      Authored[owner[c]][k] \in ToSet(conn[c].batch) =>
        Authored[owner[c]][i] \in ToSet(conn[c].batch) \cup Recoverable(file)

(* Whatever the durable log holds at or before an event of X is in Y.      *)
GapFree(f, X, Y) ==
  \A j \in DOMAIN Hydrated(f) : \A i \in 1..j :
    Hydrated(f)[j] \in X => Hydrated(f)[i] \in Y

(* A pull answer on its way leaves no gap either: a reader that takes it   *)
(* has everything the durable log holds at or before each of its events.   *)
ReaderInv ==
  \A r \in Readers :
    /\ {since[r]} \subseteq Recoverable(file) \cup {None}
    /\ GapFree(file, {since[r]}, got[r])
    /\ pulling[r] # None =>
         /\ ToSet(pulling[r]) \subseteq Recoverable(file)
         /\ GapFree(file, ToSet(pulling[r]), got[r] \cup ToSet(pulling[r]))

-----------------------------------------------------------------------------
LEMMA AuthoredProperties ==
  ASSUME NEW w \in Writers
  PROVE  /\ Authored[w] \in Seq(Ids) /\ Len(Authored[w]) \in Nat
         /\ DOMAIN Authored[w] = 1..Len(Authored[w])
         /\ \A i \in DOMAIN Authored[w] : Authored[w][i] \in Ids
         /\ \A i, j \in DOMAIN Authored[w] : Authored[w][i] = Authored[w][j] => i = j
<1>1. Authored[w] \in Seq(Ids)
  BY SyncAssumption
<1> QED
  BY <1>1, SyncAssumption, LenProperties, ElementOfSeq

(* The stretch of a writer's log a push carries.                           *)
LEMMA StretchProperties ==
  ASSUME SyncTypeOK, NEW w \in Writers, pushed[w] < authored[w]
  PROVE  LET b == SubSeq(Authored[w], pushed[w] + 1, authored[w])
         IN  /\ b \in Batches
             /\ ToSet(b) = { Authored[w][i] : i \in (pushed[w] + 1)..authored[w] }
<1> DEFINE b == SubSeq(Authored[w], pushed[w] + 1, authored[w])
<1>1. /\ pushed[w] \in Nat /\ authored[w] \in Nat
      /\ authored[w] <= Len(Authored[w])
  BY DEF SyncTypeOK
<1>2. pushed[w] + 1 \in DOMAIN Authored[w] /\ authored[w] \in DOMAIN Authored[w]
  BY <1>1, AuthoredProperties
<1>3. b \in Batches
  BY <1>2, SyncAssumption
<1>4. /\ Len(b) = authored[w] - pushed[w]
      /\ \A i \in 1..(authored[w] - pushed[w]) : b[i] = Authored[w][pushed[w] + i]
  <2>1. \A i \in (pushed[w] + 1)..authored[w] : Authored[w][i] \in Ids
    BY <1>1, AuthoredProperties
  <2>2. pushed[w] + 1 \in Int /\ authored[w] \in Int
    BY <1>1
  <2>3. /\ Len(b) = IF pushed[w] + 1 <= authored[w] THEN authored[w] - (pushed[w] + 1) + 1 ELSE 0
        /\ \A i \in 1..(authored[w] - (pushed[w] + 1) + 1) :
             b[i] = Authored[w][pushed[w] + 1 + i - 1]
    BY <2>1, <2>2, SubSeqProperties
  <2> HIDE DEF b
  <2>4. authored[w] - (pushed[w] + 1) + 1 = authored[w] - pushed[w]
    BY <1>1
  <2>5. \A i \in 1..(authored[w] - pushed[w]) : pushed[w] + 1 + i - 1 = pushed[w] + i
    BY <1>1
  <2> QED
    BY <1>1, <2>3, <2>4, <2>5
<1>5. DOMAIN b = 1..(authored[w] - pushed[w])
  BY <1>3, <1>4, RelayAssumption, LenProperties
<1>6. ASSUME NEW i \in (pushed[w] + 1)..authored[w]
      PROVE  Authored[w][i] \in ToSet(b)
  <2>1. i - pushed[w] \in 1..(authored[w] - pushed[w]) /\ pushed[w] + (i - pushed[w]) = i
    BY <1>1, <1>6
  <2> QED
    BY <1>4, <1>5, <2>1 DEF ToSet
<1>7. ASSUME NEW e \in ToSet(b)
      PROVE  \E i \in (pushed[w] + 1)..authored[w] : e = Authored[w][i]
  <2>1. PICK k \in 1..(authored[w] - pushed[w]) : e = b[k]
    BY <1>5 DEF ToSet
  <2>2. pushed[w] + k \in (pushed[w] + 1)..authored[w]
    BY <1>1, <2>1
  <2> QED
    BY <1>4, <2>1, <2>2
<1> QED
  BY <1>3, <1>6, <1>7

(* Whatever the clients do, the relay takes a step of its own or none.     *)
LEMMA SyncAction == SyncTypeOK /\ [SyncNext]_syncVars => [Next]_vars
<1> SUFFICES ASSUME SyncTypeOK, [SyncNext]_syncVars
             PROVE  [Next]_vars
  OBVIOUS
<1>1. ASSUME NEW w \in Writers, NEW c \in Conns, Push(w, c)
      PROVE  [Next]_vars
  BY <1>1, StretchProperties DEF Push, Next
<1>2. ASSUME NEW w \in Writers, NEW c \in Conns, TakeAnswer(w, c)
      PROVE  [Next]_vars
  BY <1>2 DEF TakeAnswer, Next
<1>3. ASSUME NEW c \in Conns, LoseAnswer(c)
      PROVE  [Next]_vars
  BY <1>3 DEF LoseAnswer, Next
<1>4. CASE RelayStep
  BY <1>4 DEF RelayStep, Next
<1> QED
  BY <1>1, <1>2, <1>3, <1>4
     DEF SyncNext, Author, Pull, TakePull, LosePull, syncVars

LEMMA AnswerStep == TypeOK /\ QueueInv /\ AnswerInv /\ [Next]_vars => AnswerInv'
<1> SUFFICES ASSUME TypeOK, QueueInv, AnswerInv, [Next]_vars
             PROVE  AnswerInv'
  OBVIOUS
<1>1. queue # << >> =>
        /\ queue \in Seq(Conns) /\ Head(queue) \in Conns /\ 1 \in DOMAIN queue
        /\ Head(queue) = queue[1] /\ conn[Head(queue)].phase = "queued"
  <2> SUFFICES ASSUME queue # << >>
               PROVE  /\ queue \in Seq(Conns) /\ Head(queue) \in Conns /\ 1 \in DOMAIN queue
                      /\ Head(queue) = queue[1] /\ conn[Head(queue)].phase = "queued"
    OBVIOUS
  <2>1. queue \in Seq(Conns)
    BY DEF TypeOK
  <2>2. 1 \in DOMAIN queue /\ Head(queue) = queue[1] /\ Head(queue) \in Conns
    BY <2>1, EmptySeq, LenProperties, HeadTailProperties
  <2> QED
    BY <2>1, <2>2 DEF QueueInv
<1>2. ASSUME NEW c \in Conns, NEW b \in Batches, ReceivePush(c, b)
      PROVE  AnswerInv'
  <2>1. writing # << >> => queue # << >>
    BY DEF TypeOK
  <2>2. queue # << >> => Head(queue') = Head(queue) /\ Head(queue) # c
    BY <1>1, <1>2, HeadTailAppend DEF ReceivePush
  <2>3. conn'[c].phase = "queued" /\ \A d \in Conns : d # c => conn'[d] = conn[d]
    BY <1>2 DEF ReceivePush, TypeOK, Idle
  <2> QED
    BY <1>1, <1>2, <2>1, <2>2, <2>3 DEF ReceivePush, AnswerInv
<1>3. ASSUME queue # << >>, NEW ids \in Seq(Ids), Answer(ids), writing' = << >>,
             ToSet(ids) \subseteq ToSet(conn[Head(queue)].batch)
      PROVE  AnswerInv'
  <2>1. /\ conn'[Head(queue)].accepted = ids
        /\ conn'[Head(queue)].batch = conn[Head(queue)].batch
        /\ \A d \in Conns : d # Head(queue) => conn'[d] = conn[d]
    BY <1>1, <1>3 DEF Answer, TypeOK, Conn
  <2> QED
    BY <1>3, <2>1 DEF Answer, AnswerInv
<1>4. CASE SkipDuplicates
  <2>1. queue # << >> /\ Answer(<< >>) /\ writing' = << >>
    BY <1>4 DEF SkipDuplicates
  <2>2. << >> \in Seq(Ids) /\ ToSet(<< >>) = {}
    BY EmptySeq DEF ToSet
  <2> QED
    BY <1>3, <2>1, <2>2
<1>5. CASE BeginWrite
  <2>1. /\ queue # << >> /\ writing' = Fresh
        /\ queue' = queue /\ conn' = conn /\ acked' = acked
    BY <1>5 DEF BeginWrite
  <2>2. ToSet(Fresh) \subseteq ToSet(conn[Head(queue)].batch)
    BY <2>1, FreshProperties
  <2>3. ToSet(writing') \subseteq ToSet(conn'[Head(queue')].batch)
    BY <2>1, <2>2
  <2> QED
    BY <2>1, <2>3 DEF AnswerInv
<1>6. CASE FinishWrite
  BY <1>3, <1>6 DEF FinishWrite, AnswerInv, TypeOK
<1>7. CASE FailWrite
  <2>1. /\ writing' = << >> /\ acked' = acked
        /\ conn' = [conn EXCEPT ![Head(queue)].phase = "failed"]
    BY <1>7 DEF FailWrite
  <2>2. \A c \in Conns : conn'[c].phase = "answered" => conn'[c] = conn[c]
    BY <1>1, <2>1 DEF TypeOK, Conn
  <2> QED
    BY <2>1, <2>2 DEF AnswerInv
<1>8. CASE Crash
  BY <1>8 DEF Crash, AnswerInv
<1>9. CASE Restart
  BY <1>9 DEF Restart, AnswerInv
<1>10. ASSUME NEW c \in Conns, Close(c)
       PROVE  AnswerInv'
  <2>1. writing # << >> => queue # << >>
    BY DEF TypeOK
  <2> QED
    BY <1>1, <1>10, <2>1 DEF Close, AnswerInv, TypeOK, Idle
<1>11. CASE UNCHANGED vars
  BY <1>11 DEF vars, AnswerInv
<1> QED
  BY <1>2, <1>4, <1>5, <1>6, <1>7, <1>8, <1>9, <1>10, <1>11 DEF Next

-----------------------------------------------------------------------------
(* How a relay step of its own leaves the connections: each keeps its      *)
(* batch, and none becomes or stops being idle.                            *)
LEMMA RelayKeepsPushes ==
  ASSUME TypeOK, QueueInv, RelayStep
  PROVE  \A c \in Conns : /\ conn'[c].batch = conn[c].batch
                          /\ conn'[c].phase = "idle" <=> conn[c].phase = "idle"
<1>1. queue # << >> => Head(queue) \in Conns /\ conn[Head(queue)].phase = "queued"
  <2> SUFFICES ASSUME queue # << >>
               PROVE  Head(queue) \in Conns /\ conn[Head(queue)].phase = "queued"
    OBVIOUS
  <2>1. queue \in Seq(Conns)
    BY DEF TypeOK
  <2>2. 1 \in DOMAIN queue /\ Head(queue) = queue[1] /\ Head(queue) \in Conns
    BY <2>1, EmptySeq, LenProperties, HeadTailProperties
  <2> QED
    BY <2>2 DEF QueueInv
<1>2. ASSUME queue # << >>, NEW ids, Answer(ids)
      PROVE  \A c \in Conns : /\ conn'[c].batch = conn[c].batch
                              /\ conn'[c].phase = "idle" <=> conn[c].phase = "idle"
  BY <1>1, <1>2 DEF Answer, TypeOK, Conn
<1>3. ASSUME queue # << >>, conn' = [conn EXCEPT ![Head(queue)].phase = "failed"]
      PROVE  \A c \in Conns : /\ conn'[c].batch = conn[c].batch
                              /\ conn'[c].phase = "idle" <=> conn[c].phase = "idle"
  BY <1>1, <1>3 DEF TypeOK, Conn
<1>4. CASE SkipDuplicates
  BY <1>2, <1>4 DEF SkipDuplicates
<1>5. CASE FinishWrite
  BY <1>2, <1>5 DEF FinishWrite, TypeOK
<1>6. CASE FailWrite
  BY <1>3, <1>6 DEF FailWrite, TypeOK
<1>7. CASE Crash
  BY <1>7 DEF Crash, TypeOK, Conn
<1> QED
  BY <1>4, <1>5, <1>6, <1>7 DEF RelayStep, BeginWrite, Restart

LEMMA OwnerStep ==
  SyncTypeOK /\ QueueInv /\ OwnerInv /\ [SyncNext]_syncVars => OwnerInv'
<1> SUFFICES ASSUME SyncTypeOK, QueueInv, OwnerInv, [SyncNext]_syncVars
             PROVE  OwnerInv'
  OBVIOUS
<1>1. ASSUME NEW w \in Writers, Author(w)
      PROVE  OwnerInv'
  <2>1. authored'[w] = authored[w] + 1 /\ \A v \in Writers : v # w => authored'[v] = authored[v]
    BY <1>1 DEF Author, SyncTypeOK
  <2>2. \A v \in Writers : 1..authored[v] \subseteq 1..authored'[v]
    <3>1. ASSUME NEW m \in Nat
          PROVE  1..m \subseteq 1..(m + 1)
      OBVIOUS
    <3>2. \A v \in Writers : authored[v] \in Nat
      BY DEF SyncTypeOK
    <3> QED
      BY <2>1, <3>1, <3>2
  <2>3. owner' = owner /\ conn' = conn /\ \A c \in Conns : owner[c] # None => owner[c] \in Writers
    BY <1>1 DEF Author, vars, SyncTypeOK
  <2> QED
    BY <2>2, <2>3 DEF OwnerInv
<1>2. ASSUME NEW w \in Writers, NEW c \in Conns, Push(w, c)
      PROVE  OwnerInv'
  <2>1. /\ authored' = authored /\ owner' = [owner EXCEPT ![c] = w]
        /\ conn'[c].phase = "queued"
        /\ conn'[c].batch = SubSeq(Authored[w], pushed[w] + 1, authored[w])
        /\ \A d \in Conns : d # c => conn'[d] = conn[d]
    BY <1>2 DEF Push, ReceivePush, SyncTypeOK, TypeOK, Idle
  <2>2. \A e \in ToSet(conn'[c].batch) : \E i \in 1..authored[w] : Authored[w][i] = e
    <3>1. ToSet(conn'[c].batch) = { Authored[w][i] : i \in (pushed[w] + 1)..authored[w] }
      BY <1>2, <2>1, StretchProperties DEF Push
    <3>2. (pushed[w] + 1)..authored[w] \subseteq 1..authored[w]
      BY DEF SyncTypeOK
    <3> QED
      BY <3>1, <3>2
  <2>3. owner'[c] = w /\ w # None /\ \A d \in Conns : d # c => owner'[d] = owner[d]
    BY <2>1, SyncAssumption DEF SyncTypeOK
  <2>4. \A d \in Conns :
          /\ owner'[d] = None <=> conn'[d].phase = "idle"
          /\ owner'[d] # None =>
               \A e \in ToSet(conn'[d].batch) :
                 \E i \in 1..authored'[owner'[d]] : Authored[owner'[d]][i] = e
    <3> TAKE d \in Conns
    <3>1. CASE d = c
      <4>1. owner'[c] # None /\ conn'[c].phase # "idle"
        BY <2>1, <2>3
      <4>2. authored'[owner'[c]] = authored[w] /\ Authored[owner'[c]] = Authored[w]
        BY <2>1, <2>3
      <4>3. \A e \in ToSet(conn'[c].batch) :
              \E i \in 1..authored'[owner'[c]] : Authored[owner'[c]][i] = e
        BY <2>2, <4>2
      <4> QED
        BY <3>1, <4>1, <4>3
    <3>2. CASE d # c
      BY <2>1, <2>3, <3>2 DEF OwnerInv
    <3> QED
      BY <3>1, <3>2
  <2> QED
    BY <2>4 DEF OwnerInv
<1>3. ASSUME NEW c \in Conns, Close(c), owner' = [owner EXCEPT ![c] = None],
             authored' = authored
      PROVE  OwnerInv'
  <2>1. /\ owner'[c] = None /\ conn'[c].phase = "idle"
        /\ \A d \in Conns : d # c => owner'[d] = owner[d] /\ conn'[d] = conn[d]
    BY <1>3 DEF Close, SyncTypeOK, TypeOK, Idle
  <2> QED
    BY <1>3, <2>1 DEF OwnerInv
<1>4. CASE RelayStep
  <2>1. \A c \in Conns : /\ conn'[c].batch = conn[c].batch
                         /\ conn'[c].phase = "idle" <=> conn[c].phase = "idle"
    BY <1>4, RelayKeepsPushes DEF SyncTypeOK
  <2> QED
    BY <1>4, <2>1 DEF RelayStep, clientVars, OwnerInv
<1>5. ASSUME UNCHANGED <<vars, authored, owner>>
      PROVE  OwnerInv'
  BY <1>5 DEF vars, OwnerInv
<1> QED
  BY <1>1, <1>2, <1>3, <1>4, <1>5
     DEF SyncNext, TakeAnswer, LoseAnswer, Pull, TakePull, LosePull, syncVars, clientVars

-----------------------------------------------------------------------------
(* A read answers what the log holds after the position asked for: every   *)
(* event is in the answer, or at or before that position.                  *)
LEMMA ReadSinceProperties ==
  ASSUME TypeOK, NEW x
  PROVE  /\ ReadSince(x) \in Seq(Ids)
         /\ ToSet(ReadSince(x)) \subseteq ToSet(events)
         /\ \A i \in DOMAIN events :
              \/ events[i] \in ToSet(ReadSince(x))
              \/ \E j \in DOMAIN events : i <= j /\ events[j] = x
<1> DEFINE at == { i \in DOMAIN events : events[i] = x }
           q == Nth(at, 1)
<1>1. /\ events \in Seq(Ids) /\ Len(events) \in Nat /\ DOMAIN events = 1..Len(events)
      /\ \A i \in DOMAIN events : events[i] \in Ids
  BY LenProperties, ElementOfSeq DEF TypeOK
<1>2. CASE at = {}
  <2>1. ReadSince(x) = events
    BY <1>2 DEF ReadSince
  <2> QED
    BY <1>1, <2>1 DEF ToSet
<1>3. CASE at # {}
  <2>1. at \in SUBSET (1..Len(events))
    BY <1>1
  <2>2. Cardinality(at) \in Nat
    BY <1>1, <2>1, NthEnumerates
  <2>3. Cardinality(at) # 0
    <3>1. IsFiniteSet(1..Len(events))
      BY <1>1, FS_Interval
    <3>2. IsFiniteSet(at)
      BY <2>1, <3>1, FS_Subset
    <3> QED
      BY <1>3, <3>2, FS_EmptySet
  <2>4. 1 \in 1..Cardinality(at)
    BY <2>2, <2>3
  <2>5. q \in at
    BY <1>1, <2>1, <2>4, NthMember
  <2>6. ReadSince(x) = SubSeq(events, q + 1, Len(events))
    BY <1>3 DEF ReadSince
  <2> HIDE DEF q
  <2>7. q \in 1..Len(events) /\ events[q] = x
    BY <1>1, <2>5
  <2> HIDE DEF at
  <2> DEFINE s == SubSeq(events, q + 1, Len(events))
  <2>8. /\ s \in Seq(Ids) /\ Len(s) = Len(events) - q
        /\ \A k \in 1..(Len(events) - q) : s[k] = events[q + k]
    <3>1. \A i \in (q + 1)..Len(events) : events[i] \in Ids
      BY <1>1, <2>7
    <3>2. q + 1 \in Int /\ Len(events) \in Int
      BY <1>1, <2>7
    <3>3. /\ s \in Seq(Ids)
          /\ Len(s) = IF q + 1 <= Len(events) THEN Len(events) - (q + 1) + 1 ELSE 0
          /\ \A k \in 1..(Len(events) - (q + 1) + 1) : s[k] = events[q + 1 + k - 1]
      BY <3>1, <3>2, SubSeqProperties
    <3> HIDE DEF s
    <3>4. /\ Len(events) - (q + 1) + 1 = Len(events) - q
          /\ q + 1 <= Len(events) \/ Len(events) - q = 0
      <4>1. ASSUME NEW n \in Nat, NEW m \in 1..n
            PROVE  n - (m + 1) + 1 = n - m /\ (m + 1 <= n \/ n - m = 0)
        OBVIOUS
      <4> QED
        BY <1>1, <2>7, <4>1
    <3>5. \A k \in 1..(Len(events) - q) : q + 1 + k - 1 = q + k
      BY <1>1, <2>7
    <3> QED
      BY <1>1, <2>7, <3>3, <3>4, <3>5
  <2> HIDE DEF s
  <2>9. DOMAIN s = 1..(Len(events) - q)
    BY <2>8, LenProperties
  <2>10. ToSet(s) \subseteq ToSet(events)
    BY <1>1, <2>7, <2>8, <2>9 DEF ToSet
  <2>11. ASSUME NEW i \in DOMAIN events, i > q
         PROVE  events[i] \in ToSet(s)
    <3>1. i - q \in 1..(Len(events) - q) /\ q + (i - q) = i
      BY <1>1, <2>7, <2>11
    <3> QED
      BY <2>8, <2>9, <3>1 DEF ToSet
  <2>12. \A i \in DOMAIN events : i > q \/ i <= q
    BY <1>1, <2>7
  <2> QED
    BY <1>1, <2>6, <2>7, <2>8, <2>10, <2>11, <2>12 DEF s
<1> QED
  BY <1>2, <1>3

(* Where an answer moves the push watermark: to a position the writer has  *)
(* written, of an event of the push answered.                              *)
LEMMA TakenPosition ==
  ASSUME SyncTypeOK, AnswerInv, OwnerInv, NEW w \in Writers, NEW c \in Conns,
         owner[c] = w, conn[c].phase = "answered", conn[c].accepted # << >>
  PROVE  LET i == CHOOSE i \in DOMAIN Authored[w] : Authored[w][i] = Last(conn[c].accepted)
         IN  /\ i \in DOMAIN Authored[w] /\ i <= authored[w]
             /\ Authored[w][i] \in ToSet(conn[c].batch)
<1> DEFINE e == Last(conn[c].accepted)
           i == CHOOSE k \in DOMAIN Authored[w] : Authored[w][k] = e
<1>1. conn[c].accepted \in Seq(Ids)
  BY DEF SyncTypeOK, TypeOK, Conn
<1>2. e \in ToSet(conn[c].accepted)
  <2>1. Len(conn[c].accepted) \in DOMAIN conn[c].accepted
    BY <1>1, LenProperties, EmptySeq
  <2> QED
    BY <2>1 DEF Last, ToSet
<1>3. e \in ToSet(conn[c].batch)
  BY <1>2 DEF AnswerInv
<1>4. w # None
  BY SyncAssumption
<1>5. PICK k \in 1..authored[w] : Authored[w][k] = e
  BY <1>3, <1>4 DEF OwnerInv
<1>6. k \in DOMAIN Authored[w]
  BY AuthoredProperties DEF SyncTypeOK
<1>7. i \in DOMAIN Authored[w] /\ Authored[w][i] = e
  BY <1>5, <1>6
<1>8. i = k
  BY <1>5, <1>6, <1>7, AuthoredProperties
<1>9. i <= authored[w]
  <2> HIDE DEF i, e
  <2> QED
    BY <1>5, <1>8 DEF SyncTypeOK
<1>10. Authored[w][i] \in ToSet(conn[c].batch)
  <2> HIDE DEF i, e
  <2> QED
    BY <1>3, <1>7
<1> QED
  BY <1>7, <1>9, <1>10

LEMMA SyncTypeStep ==
  SyncTypeOK /\ TypeOK' /\ AnswerInv /\ OwnerInv /\ [SyncNext]_syncVars => SyncTypeOK'
<1> SUFFICES ASSUME SyncTypeOK, TypeOK', AnswerInv, OwnerInv, [SyncNext]_syncVars
             PROVE  SyncTypeOK'
  OBVIOUS
<1>1. ASSUME NEW w \in Writers, Author(w)
      PROVE  SyncTypeOK'
  <2>1. /\ authored' \in [Writers -> Nat]
        /\ \A v \in Writers : /\ authored'[v] = IF v = w THEN authored[v] + 1 ELSE authored[v]
                              /\ authored'[v] <= Len(Authored[v])
    BY <1>1, AuthoredProperties DEF Author, SyncTypeOK
  <2>2. \A v \in Writers : pushed[v] <= authored'[v]
    <3>1. \A v \in Writers :
            pushed[v] \in Nat /\ authored[v] \in Nat /\ pushed[v] <= authored[v]
      BY DEF SyncTypeOK
    <3>2. \A v \in Writers : authored'[v] = authored[v] \/ authored'[v] = authored[v] + 1
      BY <2>1
    <3>3. ASSUME NEW m \in Nat, NEW n \in Nat, m <= n
          PROVE  m <= n + 1
      BY <3>3
    <3> QED
      BY <3>1, <3>2, <3>3
  <2> QED
    BY <1>1, <2>1, <2>2 DEF Author, SyncTypeOK
<1>2. ASSUME NEW w \in Writers, NEW c \in Conns, Push(w, c)
      PROVE  SyncTypeOK'
  BY <1>2 DEF Push, SyncTypeOK
<1>3. ASSUME NEW w \in Writers, NEW c \in Conns, TakeAnswer(w, c)
      PROVE  SyncTypeOK'
  <2>1. CASE conn[c].accepted = << >>
    BY <1>3, <2>1 DEF TakeAnswer, SyncTypeOK
  <2>2. CASE conn[c].accepted # << >>
    <3> DEFINE i == CHOOSE i \in DOMAIN Authored[w] : Authored[w][i] = Last(conn[c].accepted)
    <3>1. i \in DOMAIN Authored[w] /\ i <= authored[w]
      BY <1>3, <2>2, TakenPosition DEF TakeAnswer
    <3>2. i \in Nat
      BY <3>1, AuthoredProperties
    <3>3. pushed' = [pushed EXCEPT ![w] = i] /\ authored' = authored
      BY <1>3, <2>2 DEF TakeAnswer
    <3> HIDE DEF i
    <3>4. pushed' \in [Writers -> Nat] /\ \A v \in Writers : pushed'[v] <= authored'[v]
      BY <3>1, <3>2, <3>3 DEF SyncTypeOK
    <3> QED
      BY <1>3, <3>4 DEF TakeAnswer, SyncTypeOK
  <2> QED
    BY <2>1, <2>2
<1>4. ASSUME NEW c \in Conns, LoseAnswer(c)
      PROVE  SyncTypeOK'
  BY <1>4 DEF LoseAnswer, SyncTypeOK
<1>5. ASSUME NEW r \in Readers, Pull(r)
      PROVE  SyncTypeOK'
  <2>1. ReadSince(since[r]) \in Seq(Ids)
    BY ReadSinceProperties DEF SyncTypeOK
  <2> QED
    BY <1>5, <2>1 DEF Pull, SyncTypeOK
<1>6. ASSUME NEW r \in Readers, TakePull(r)
      PROVE  SyncTypeOK'
  <2>1. pulling[r] \in Seq(Ids) /\ ToSet(pulling[r]) \subseteq Ids
    BY <1>6, ToSetFacts DEF TakePull, SyncTypeOK
  <2>2. pulling[r] # << >> => Last(pulling[r]) \in Ids
    BY <2>1, LenProperties, EmptySeq, ElementOfSeq DEF Last
  <2>3. since' \in [Readers -> Ids \cup {None}]
    BY <1>6, <2>2 DEF TakePull, SyncTypeOK
  <2>4. got' \in [Readers -> SUBSET Ids]
    BY <1>6, <2>1 DEF TakePull, SyncTypeOK
  <2>5. pulling' \in [Readers -> Seq(Ids) \cup {None}]
    BY <1>6 DEF TakePull, SyncTypeOK
  <2> QED
    BY <1>6, <2>3, <2>4, <2>5 DEF TakePull, SyncTypeOK
<1>7. ASSUME NEW r \in Readers, LosePull(r)
      PROVE  SyncTypeOK'
  BY <1>7 DEF LosePull, SyncTypeOK
<1>8. CASE RelayStep
  BY <1>8 DEF RelayStep, clientVars, SyncTypeOK
<1>9. CASE UNCHANGED syncVars
  BY <1>9 DEF syncVars, clientVars, SyncTypeOK
<1> QED
  BY <1>1, <1>2, <1>3, <1>4, <1>5, <1>6, <1>7, <1>8, <1>9 DEF SyncNext

-----------------------------------------------------------------------------
LEMMA SyncInitial == SyncInit => SyncTypeOK /\ AnswerInv /\ OwnerInv
<1> SUFFICES ASSUME SyncInit
             PROVE  SyncTypeOK /\ AnswerInv /\ OwnerInv
  OBVIOUS
<1>1. TypeOK
  BY RelayInit DEF SyncInit
<1>2. \A w \in Writers : 0 <= Len(Authored[w])
  BY AuthoredProperties
<1>3. SyncTypeOK
  BY <1>1, <1>2 DEF SyncInit, SyncTypeOK
<1>4. AnswerInv
  BY DEF SyncInit, Init, AnswerInv, Idle
<1>5. OwnerInv
  BY DEF SyncInit, Init, OwnerInv, Idle
<1> QED
  BY <1>3, <1>4, <1>5

LEMMA SyncInvariant ==
  SyncSpec => []SyncTypeOK /\ []QueueInv /\ []AnswerInv /\ []OwnerInv /\ [][Next]_vars
<1>1. SyncInit => SyncTypeOK /\ QueueInv /\ AnswerInv /\ OwnerInv
  BY SyncInitial, RelayInit DEF SyncInit
<1>2. SyncTypeOK /\ [SyncNext]_syncVars => [Next]_vars
  BY SyncAction
<1>3. SyncTypeOK /\ QueueInv /\ AnswerInv /\ OwnerInv /\ [SyncNext]_syncVars
      => SyncTypeOK' /\ QueueInv' /\ AnswerInv' /\ OwnerInv'
  <2> SUFFICES ASSUME SyncTypeOK, QueueInv, AnswerInv, OwnerInv, [SyncNext]_syncVars
               PROVE  SyncTypeOK' /\ QueueInv' /\ AnswerInv' /\ OwnerInv'
    OBVIOUS
  <2>1. TypeOK /\ [Next]_vars
    BY <1>2 DEF SyncTypeOK
  <2> QED
    BY <2>1, TypeStep, QueueStep, AnswerStep, OwnerStep, SyncTypeStep
<1> QED
  BY <1>1, <1>2, <1>3, PTL DEF SyncSpec

(* Type correctness of the composition, for every set of writers, readers  *)
(* and connections and every kind of interrupted write: an answer never    *)
(* moves a push watermark past what its writer has written.                *)
THEOREM SyncTypeCorrect == SyncSpec => []SyncTypeOK
BY SyncInvariant, PTL

(* The composition is a behaviour of the relay alone: no client step does  *)
(* to the relay what a push, an answer taken or lost, or a read would not, *)
(* so every theorem about Spec holds of the composition.                   *)
THEOREM SyncIsRelay == SyncSpec => Spec
<1>1. SyncInit => Init
  BY DEF SyncInit
<1> QED
  BY <1>1, SyncInvariant, PTL DEF SyncSpec, Spec

(* What is at or before the events of a push is stored or in the push, and *)
(* what is answered is stored: so what is at or before the event that      *)
(* becomes the watermark is stored.                                        *)
WatermarkInv == WatermarkStored /\ StretchInv

LEMMA WatermarkStep ==
  ASSUME Cuts \subseteq {"boundary"}
  PROVE  SyncTypeOK /\ QueueInv /\ AnswerInv /\ OwnerInv /\ DurableInv /\ WatermarkInv
         /\ [SyncNext]_syncVars => WatermarkInv'
<1> SUFFICES ASSUME SyncTypeOK, QueueInv, AnswerInv, OwnerInv, DurableInv, WatermarkInv,
                    [SyncNext]_syncVars
             PROVE  WatermarkInv'
  OBVIOUS
<1>1. TypeOK /\ [Next]_vars
  BY SyncAction DEF SyncTypeOK
<1>2. Recoverable(file) \subseteq Recoverable(file')
  BY <1>1, FileGrows
<1>3. \A c \in Conns : owner[c] # None => owner[c] \in Writers
  BY DEF SyncTypeOK
<1>4. ASSUME pushed' = pushed
      PROVE  WatermarkStored'
  BY <1>2, <1>4 DEF WatermarkInv, WatermarkStored
<1>5. ASSUME \A c \in Conns : \/ owner'[c] = None
                              \/ owner'[c] = owner[c] /\ conn'[c].batch = conn[c].batch
      PROVE  StretchInv'
  BY <1>2, <1>5 DEF WatermarkInv, StretchInv
<1>6. ASSUME NEW c \in Conns, Close(c), owner' = [owner EXCEPT ![c] = None]
      PROVE  StretchInv'
  <2>1. \A d \in Conns : \/ owner'[d] = None
                         \/ owner'[d] = owner[d] /\ conn'[d].batch = conn[d].batch
    BY <1>6 DEF Close, SyncTypeOK, TypeOK
  <2> QED
    BY <1>5, <2>1
<1>7. ASSUME NEW w \in Writers, NEW c \in Conns, Push(w, c)
      PROVE  WatermarkInv'
  <2>1. /\ pushed' = pushed /\ owner' = [owner EXCEPT ![c] = w]
        /\ conn'[c].batch = SubSeq(Authored[w], pushed[w] + 1, authored[w])
        /\ \A d \in Conns : d # c => conn'[d] = conn[d]
    BY <1>7 DEF Push, ReceivePush, SyncTypeOK, TypeOK, Idle
  <2>2. ToSet(conn'[c].batch) = { Authored[w][i] : i \in (pushed[w] + 1)..authored[w] }
    BY <1>7, <2>1, StretchProperties DEF Push
  <2>3. ASSUME NEW k \in DOMAIN Authored[w], NEW i \in 1..k,
               Authored[w][k] \in ToSet(conn'[c].batch)
        PROVE  Authored[w][i] \in ToSet(conn'[c].batch) \cup Recoverable(file')
    <3>1. PICK m \in (pushed[w] + 1)..authored[w] : Authored[w][k] = Authored[w][m]
      BY <2>2, <2>3
    <3>2. /\ pushed[w] \in Nat /\ authored[w] \in Nat /\ authored[w] <= Len(Authored[w])
      BY DEF SyncTypeOK
    <3>3. m \in DOMAIN Authored[w]
      BY <3>1, <3>2, AuthoredProperties
    <3>4. k = m
      BY <3>1, <3>3, AuthoredProperties
    <3>5. i \in 1..pushed[w] \/ i \in (pushed[w] + 1)..authored[w]
      BY <3>1, <3>2, <3>4
    <3>6. CASE i \in 1..pushed[w]
      BY <1>2, <3>6 DEF WatermarkInv, WatermarkStored
    <3>7. CASE i \in (pushed[w] + 1)..authored[w]
      BY <2>2, <3>7
    <3> QED
      BY <3>5, <3>6, <3>7
  <2>4. \A d \in Conns : owner'[d] # None =>
          \A k \in DOMAIN Authored[owner'[d]] : \A i \in 1..k :
            Authored[owner'[d]][k] \in ToSet(conn'[d].batch) =>
              Authored[owner'[d]][i] \in ToSet(conn'[d].batch) \cup Recoverable(file')
    <3> TAKE d \in Conns
    <3>1. CASE d = c
      <4>1. owner'[d] = w
        BY <2>1, <3>1 DEF SyncTypeOK
      <4> QED
        BY <2>3, <3>1, <4>1
    <3>2. CASE d # c
      <4>1. owner'[d] = owner[d] /\ conn'[d] = conn[d]
        BY <2>1, <3>2 DEF SyncTypeOK
      <4> QED
        BY <1>2, <4>1 DEF WatermarkInv, StretchInv
    <3> QED
      BY <3>1, <3>2
  <2> QED
    BY <1>4, <2>1, <2>4 DEF WatermarkInv, StretchInv
<1>8. ASSUME NEW w \in Writers, NEW c \in Conns, TakeAnswer(w, c)
      PROVE  WatermarkInv'
  <2>1. StretchInv'
    BY <1>6, <1>8 DEF TakeAnswer
  <2>2. CASE conn[c].accepted = << >>
    BY <1>4, <1>8, <2>1, <2>2 DEF TakeAnswer, WatermarkInv
  <2>3. CASE conn[c].accepted # << >>
    <3> DEFINE i == CHOOSE i \in DOMAIN Authored[w] : Authored[w][i] = Last(conn[c].accepted)
    <3>1. owner[c] = w /\ conn[c].phase = "answered" /\ w # None
      BY <1>8, SyncAssumption DEF TakeAnswer
    <3>2. i \in DOMAIN Authored[w] /\ Authored[w][i] \in ToSet(conn[c].batch)
      BY <2>3, <3>1, TakenPosition
    <3>3. pushed' = [pushed EXCEPT ![w] = i]
      BY <1>8, <2>3 DEF TakeAnswer
    <3> HIDE DEF i
    <3>4. ToSet(conn[c].batch) \subseteq Recoverable(file)
      BY <3>1 DEF AnswerInv, DurableInv, AckedRecoverable
    <3>5. \A k \in 1..i : Authored[w][k] \in Recoverable(file')
      BY <1>2, <3>1, <3>2, <3>4 DEF WatermarkInv, StretchInv
    <3>6. pushed'[w] = i /\ \A v \in Writers : v # w => pushed'[v] = pushed[v]
      BY <3>3 DEF SyncTypeOK
    <3>7. \A v \in Writers : \A k \in 1..pushed'[v] : Authored[v][k] \in Recoverable(file')
      BY <1>2, <3>5, <3>6 DEF WatermarkInv, WatermarkStored
    <3> QED
      BY <2>1, <3>7 DEF WatermarkInv, WatermarkStored
  <2> QED
    BY <2>2, <2>3
<1>9. ASSUME NEW c \in Conns, LoseAnswer(c)
      PROVE  WatermarkInv'
  BY <1>4, <1>6, <1>9 DEF LoseAnswer, WatermarkInv
<1>10. CASE RelayStep
  <2>1. \A c \in Conns : owner'[c] = owner[c] /\ conn'[c].batch = conn[c].batch
    BY <1>1, <1>10, RelayKeepsPushes DEF RelayStep, clientVars
  <2> QED
    BY <1>4, <1>5, <1>10, <2>1 DEF RelayStep, clientVars, WatermarkInv
<1>11. ASSUME UNCHANGED <<vars, pushed, owner>>
       PROVE  WatermarkInv'
  BY <1>4, <1>5, <1>11 DEF vars, WatermarkInv
<1> QED
  BY <1>7, <1>8, <1>9, <1>10, <1>11
     DEF SyncNext, Author, Pull, TakePull, LosePull, syncVars, clientVars

(* A push watermark never covers an event that is not stored, while        *)
(* interrupted writes end at line boundaries: whatever answers were lost,  *)
(* overtaken or refused, and whatever crashed, a retry from the watermark  *)
(* leaves nothing behind (transport.md "lastAcceptedEventId").             *)
THEOREM WatermarkCorrect ==
  ASSUME Cuts \subseteq {"boundary"}
  PROVE  SyncSpec => []WatermarkStored
<1>1. SyncInit => WatermarkInv
  BY DEF SyncInit, WatermarkInv, WatermarkStored, StretchInv
<1>2. SyncTypeOK /\ QueueInv /\ AnswerInv /\ OwnerInv /\ DurableInv /\ WatermarkInv
      /\ [SyncNext]_syncVars => WatermarkInv'
  BY WatermarkStep
<1>3. WatermarkInv => WatermarkStored
  BY DEF WatermarkInv
<1> QED
  BY <1>1, <1>2, <1>3, SyncInvariant, SyncIsRelay, DurableInvariant, PTL DEF SyncSpec

-----------------------------------------------------------------------------
(* The durable log growing at its end opens no gap before what it held.    *)
LEMMA GapFreeGrows ==
  ASSUME Cuts \subseteq {"boundary"}, TypeOK, TypeOK', DurableInv, [Next]_vars,
         NEW X, NEW Y, X \subseteq Recoverable(file) \cup {None}, None \notin Ids,
         GapFree(file, X, Y)
  PROVE  GapFree(file', X, Y)
<1> DEFINE H == Hydrated(file)
           G == Hydrated(file')
<1>1. /\ H \in Seq(Ids) /\ ToSet(H) = Recoverable(file)
  BY HydratedProperties
<1>2. /\ G \in Seq(Ids)
      /\ \A k, m \in DOMAIN G : G[k] = G[m] => k = m
  <2>1. file' \in Seq(Line)
    BY DEF TypeOK, Line
  <2> QED
    BY <2>1, KeptProperties DEF Hydrated
<1>3. PICK ls \in Seq(Line) : file' = file \o ls
  BY FileGrows
<1>4. Len(H) <= Len(G) /\ \A k \in 1..Len(H) : G[k] = H[k]
  <2>1. file \in Seq(Line)
    BY DEF TypeOK, Line
  <2> QED
    BY <1>3, <2>1, HydratedGrows
<1> HIDE DEF H, G
<1>5. /\ Len(H) \in Nat /\ DOMAIN H = 1..Len(H)
      /\ Len(G) \in Nat /\ DOMAIN G = 1..Len(G)
      /\ \A k \in DOMAIN G : G[k] \in Ids
  BY <1>1, <1>2, LenProperties, ElementOfSeq
<1> SUFFICES ASSUME NEW j \in DOMAIN G, NEW i \in 1..j, G[j] \in X
             PROVE  G[i] \in Y
  BY DEF GapFree, G
<1>6. G[j] \in ToSet(H)
  BY <1>1, <1>5
<1>7. PICK k \in DOMAIN H : H[k] = G[j]
  BY <1>6 DEF ToSet
<1>8. k = j
  BY <1>2, <1>4, <1>5, <1>7
<1>9. j \in DOMAIN H /\ i \in 1..Len(H)
  BY <1>5, <1>7, <1>8
<1>10. H[i] \in Y
  BY <1>7, <1>8, <1>9 DEF GapFree, H
<1> QED
  BY <1>4, <1>9, <1>10

LEMMA ReaderStep ==
  ASSUME Cuts \subseteq {"boundary"}
  PROVE  SyncTypeOK /\ TypeOK' /\ DurableInv /\ OrderInv /\ ReaderInv
         /\ [SyncNext]_syncVars => ReaderInv'
<1> SUFFICES ASSUME SyncTypeOK, TypeOK', DurableInv, OrderInv, ReaderInv, [SyncNext]_syncVars
             PROVE  ReaderInv'
  OBVIOUS
<1>1. TypeOK /\ [Next]_vars /\ None \notin Ids
  BY SyncAction, SyncAssumption DEF SyncTypeOK
<1>2. Recoverable(file) \subseteq Recoverable(file')
  BY <1>1, FileGrows
<1>3. \A r \in Readers :
        /\ {since[r]} \subseteq Recoverable(file') \cup {None}
        /\ GapFree(file', {since[r]}, got[r])
        /\ pulling[r] # None =>
             /\ ToSet(pulling[r]) \subseteq Recoverable(file')
             /\ GapFree(file', ToSet(pulling[r]), got[r] \cup ToSet(pulling[r]))
  <2> TAKE r \in Readers
  <2>1. GapFree(file', {since[r]}, got[r])
    BY <1>1, GapFreeGrows DEF ReaderInv
  <2>2. ASSUME pulling[r] # None
        PROVE  GapFree(file', ToSet(pulling[r]), got[r] \cup ToSet(pulling[r]))
    <3>1. ToSet(pulling[r]) \subseteq Recoverable(file) \cup {None}
      BY <2>2 DEF ReaderInv
    <3>2. GapFree(file, ToSet(pulling[r]), got[r] \cup ToSet(pulling[r]))
      BY <2>2 DEF ReaderInv
    <3> QED
      BY <1>1, <3>1, <3>2, GapFreeGrows
  <2> QED
    BY <1>2, <2>1, <2>2 DEF ReaderInv
<1>4. CASE UNCHANGED <<since, got, pulling>>
  BY <1>3, <1>4 DEF ReaderInv
<1>5. ASSUME NEW r \in Readers, Pull(r)
      PROVE  ReaderInv'
  <2> DEFINE s == ReadSince(since[r])
  <2>1. /\ up /\ file' = file /\ since' = since /\ got' = got
        /\ pulling' = [pulling EXCEPT ![r] = s]
    BY <1>5 DEF Pull, vars, diskVars
  <2>2. events = Hydrated(file) /\ ToSet(events) = Recoverable(file)
    BY <1>1, <2>1, HydratedProperties DEF OrderInv
  <2>3. ToSet(s) \subseteq Recoverable(file)
    BY <1>1, <2>2, ReadSinceProperties
  <2>4. GapFree(file, ToSet(s), got[r] \cup ToSet(s))
    <3> SUFFICES ASSUME NEW j \in DOMAIN events, NEW i \in 1..j
                 PROVE  events[i] \in got[r] \cup ToSet(s)
      BY <2>2 DEF GapFree
    <3>1. i \in DOMAIN events
      BY <1>1, LenProperties DEF TypeOK
    <3>2. CASE events[i] \in ToSet(s)
      BY <3>2
    <3>3. CASE \E k \in DOMAIN events : i <= k /\ events[k] = since[r]
      <4>1. PICK k \in DOMAIN events : i <= k /\ events[k] = since[r]
        BY <3>3
      <4>2. i \in 1..k
        BY <1>1, <3>1, <4>1, LenProperties DEF TypeOK
      <4> QED
        BY <2>2, <4>1, <4>2 DEF ReaderInv, GapFree
    <3> QED
      BY <1>1, <3>1, <3>2, <3>3, ReadSinceProperties
  <2> HIDE DEF s
  <2>5. pulling'[r] = s /\ \A q \in Readers : q # r => pulling'[q] = pulling[q]
    BY <2>1 DEF SyncTypeOK
  <2> QED
    BY <2>1, <2>3, <2>4, <2>5 DEF ReaderInv
<1>6. ASSUME NEW r \in Readers, TakePull(r)
      PROVE  ReaderInv'
  <2> DEFINE s == pulling[r]
  <2>1. /\ file' = file /\ s # None /\ pulling' = [pulling EXCEPT ![r] = None]
        /\ got' = [got EXCEPT ![r] = got[r] \cup ToSet(s)]
        /\ since' = IF s = << >> THEN since ELSE [since EXCEPT ![r] = Last(s)]
    BY <1>6 DEF TakePull, vars, diskVars
  <2>2. s \in Seq(Ids)
    BY <2>1 DEF SyncTypeOK
  <2>3. s # << >> => Last(s) \in ToSet(s)
    <3>1. s # << >> => Len(s) \in DOMAIN s
      BY <2>2, LenProperties, EmptySeq
    <3> QED
      BY <3>1 DEF Last, ToSet
  <2>4. /\ ToSet(s) \subseteq Recoverable(file)
        /\ GapFree(file, ToSet(s), got[r] \cup ToSet(s))
        /\ GapFree(file, {since[r]}, got[r])
    BY <2>1 DEF ReaderInv
  <2> HIDE DEF s
  <2>5. /\ pulling'[r] = None /\ got'[r] = got[r] \cup ToSet(s)
        /\ since'[r] = IF s = << >> THEN since[r] ELSE Last(s)
        /\ \A q \in Readers : q # r =>
             pulling'[q] = pulling[q] /\ got'[q] = got[q] /\ since'[q] = since[q]
    BY <2>1 DEF SyncTypeOK
  <2>6. {since'[r]} \subseteq Recoverable(file) \cup {None}
    BY <2>3, <2>4, <2>5 DEF ReaderInv
  <2>7. GapFree(file, {since'[r]}, got'[r])
    BY <2>3, <2>4, <2>5 DEF GapFree
  <2> QED
    BY <2>1, <2>5, <2>6, <2>7 DEF ReaderInv
<1>7. ASSUME NEW r \in Readers, LosePull(r)
      PROVE  ReaderInv'
  <2>1. /\ file' = file /\ since' = since /\ got' = got
        /\ \A q \in Readers : pulling'[q] = None \/ pulling'[q] = pulling[q]
    BY <1>7 DEF LosePull, vars, diskVars, SyncTypeOK
  <2> QED
    BY <2>1 DEF ReaderInv
<1> QED
  BY <1>4, <1>5, <1>6, <1>7
     DEF SyncNext, Author, Push, TakeAnswer, LoseAnswer, RelayStep, syncVars, clientVars

(* A pull never under-returns, while no append is refused and interrupted  *)
(* writes end at line boundaries: whatever the log holds at or before a    *)
(* reader's watermark, that reader has, through lost answers, concurrent   *)
(* pushes and restarts (store.ts:163-165).                                 *)
THEOREM PullCorrect ==
  ASSUME Cuts \subseteq {"boundary"}, WriteMayFail = FALSE
  PROVE  SyncSpec => []NoUnderReturn
<1>1. SyncInit => ReaderInv /\ OrderInv
  <2> SUFFICES ASSUME SyncInit
               PROVE  ReaderInv /\ OrderInv
    OBVIOUS
  <2>1. OrderInv
    BY OrderInitial DEF SyncInit
  <2>2. Hydrated(file) = << >>
    BY HydratedEmpty DEF SyncInit, Init
  <2>3. \A X, Y : GapFree(file, X, Y)
    BY <2>2, EmptySeq DEF GapFree
  <2> QED
    BY <2>1, <2>3 DEF SyncInit, ReaderInv
<1>2. SyncTypeOK => TypeOK
  BY DEF SyncTypeOK
<1>3. SyncTypeOK /\ TypeOK' /\ DurableInv /\ OrderInv /\ ReaderInv
      /\ [SyncNext]_syncVars => ReaderInv'
  BY ReaderStep
<1>4. TypeOK /\ IndexInv /\ DurableInv /\ TypeOK' /\ OrderInv /\ [Next]_vars => OrderInv'
  BY OrderStep
<1>5. SyncTypeOK /\ OrderInv /\ ReaderInv => NoUnderReturn
  <2> SUFFICES ASSUME SyncTypeOK, OrderInv, ReaderInv, up, NEW r \in Readers,
                      NEW i \in DOMAIN events, NEW j \in DOMAIN events,
                      i <= j, events[j] = since[r]
               PROVE  events[i] \in got[r]
    BY DEF NoUnderReturn
  <2>1. i \in 1..j
    BY LenProperties DEF SyncTypeOK, TypeOK
  <2> QED
    BY <2>1 DEF OrderInv, ReaderInv, GapFree
<1> QED
  BY <1>1, <1>2, <1>3, <1>4, <1>5, SyncInvariant, SyncIsRelay, Invariant, DurableInvariant, PTL
     DEF SyncSpec
=============================================================================
