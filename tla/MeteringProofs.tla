--------------------------- MODULE MeteringProofs ---------------------------
(***************************************************************************)
(* Theorems about Metering, for any accounts, stores, events and calls.    *)
(* A sum is the size of a set of units, so what is proved of sums rests on *)
(* the library's facts about cardinalities.                                *)
(***************************************************************************)
EXTENDS Metering, FiniteSetTheorems, TLAPS

(* What is so of a call at every moment, given what the relay holds: it is *)
(* not whole before its end, what the relay acknowledged is stored, and    *)
(* the client of a whole answer got the relay's status.                    *)
Sound(w, st) ==
  /\ w.phase # "done" => ~w.whole
  /\ w.phase \in {"applied", "text", "done"} /\ w.relay = 200 /\ w.event # None =>
       w.event \in st[w.store]
  /\ w.phase = "done" /\ w.whole => w.status = w.relay

CallsOK ==
  /\ call \in [Calls -> Call \cup {None}]
  /\ stored \in [Stores -> SUBSET Events]
  /\ \A c \in Calls : call[c] # None => Sound(call[c], stored)

StoredGrows ==
  /\ stored' \in [Stores -> SUBSET Events]
  /\ \A s \in Stores : stored[s] \subseteq stored'[s]

(* A step that moves one call on and lets the relay's set grow.            *)
LEMMA OneCall ==
  ASSUME CallsOK, StoredGrows, NEW c \in Calls, NEW w \in Call,
         call' = [call EXCEPT ![c] = w], Sound(w, stored')
  PROVE  CallsOK'
<1>1. call' \in [Calls -> Call \cup {None}]
  BY DEF CallsOK
<1>2. ASSUME NEW d \in Calls, call'[d] # None PROVE Sound(call'[d], stored')
  <2>1. CASE d = c
    BY <2>1 DEF CallsOK
  <2>2. CASE d # c
    <3>1. call'[d] = call[d] /\ call[d] \in Call /\ Sound(call[d], stored)
      BY <1>2, <2>2 DEF CallsOK
    <3>2. call[d].store \in Stores
      BY <3>1 DEF Call
    <3> QED BY <3>1, <3>2 DEF Sound, StoredGrows
  <2> QED BY <2>1, <2>2
<1> QED BY <1>1, <1>2 DEF CallsOK, StoredGrows

(* Setting one field of a call leaves a call.                              *)
Phases == {"body", "sent", "applied", "text", "orphan", "done"}
Statuses == {200, 400, 500, 502, None}

Apart(v, w, field) ==
  /\ field # "phase" => v.phase = w.phase
  /\ field # "relay" => v.relay = w.relay
  /\ field # "status" => v.status = w.status
  /\ field # "whole" => v.whole = w.whole
  /\ v.store = w.store /\ v.event = w.event

LEMMA SetPhase ==
  ASSUME NEW w \in Call, NEW p, p \in Phases
  PROVE  \E v \in Call : v = [w EXCEPT !.phase = p] /\ v.phase = p /\ Apart(v, w, "phase")
<1>1. [w EXCEPT !.phase = p] \in Call /\ [w EXCEPT !.phase = p].phase = p
  BY DEF Call, Phases
<1>2. Apart([w EXCEPT !.phase = p], w, "phase")
  BY DEF Call, Apart
<1> QED BY <1>1, <1>2

LEMMA SetRelay ==
  ASSUME NEW w \in Call, NEW r, r \in {200, 500, None}
  PROVE  \E v \in Call : v = [w EXCEPT !.relay = r] /\ v.relay = r /\ Apart(v, w, "relay")
<1>1. [w EXCEPT !.relay = r] \in Call /\ [w EXCEPT !.relay = r].relay = r
  BY DEF Call
<1>2. Apart([w EXCEPT !.relay = r], w, "relay")
  BY DEF Call, Apart
<1> QED BY <1>1, <1>2

LEMMA SetStatus ==
  ASSUME NEW w \in Call, NEW x, x \in Statuses
  PROVE  \E v \in Call : v = [w EXCEPT !.status = x] /\ v.status = x /\ Apart(v, w, "status")
<1>1. [w EXCEPT !.status = x] \in Call /\ [w EXCEPT !.status = x].status = x
  BY DEF Call, Statuses
<1>2. Apart([w EXCEPT !.status = x], w, "status")
  BY DEF Call, Apart
<1> QED BY <1>1, <1>2

LEMMA SetWhole ==
  ASSUME NEW w \in Call
  PROVE  \E v \in Call : v = [w EXCEPT !.whole = TRUE] /\ Apart(v, w, "whole")
<1>1. [w EXCEPT !.whole = TRUE] \in Call
  <2>1. \A b \in BOOLEAN : [w EXCEPT !.whole = b] \in Call
    BY DEF Call
  <2> QED BY <2>1
<1>2. Apart([w EXCEPT !.whole = TRUE], w, "whole")
  BY DEF Call, Apart
<1> QED BY <1>1, <1>2

(* A call that is somewhere is a record, and sound.                        *)
LEMMA AtSome ==
  ASSUME CallsOK, NEW c \in Calls, NEW p, At(c, p)
  PROVE  call[c] \in Call /\ Sound(call[c], stored) /\ call[c].phase = p
BY DEF CallsOK, At

(* The gateway answers of itself.                                          *)
LEMMA AnswersOK ==
  ASSUME CallsOK, StoredGrows, NEW c \in Calls, NEW p, At(c, p), p # "done",
         NEW x \in Statuses, Answers(c, x)
  PROVE  CallsOK'
<1>1. call[c] \in Call /\ ~call[c].whole
  BY AtSome DEF Sound
<1>2. PICK v \in Call : v = [call[c] EXCEPT !.phase = "done"] /\ Apart(v, call[c], "phase") /\ v.phase = "done"
  BY <1>1, SetPhase DEF Phases
<1>3. PICK w \in Call : w = [v EXCEPT !.relay = None] /\ Apart(w, v, "relay") /\ w.relay = None
  BY SetRelay
<1>4. PICK y \in Call : y = [w EXCEPT !.status = x] /\ Apart(y, w, "status")
  BY SetStatus
<1>5. Sound(y, stored')
  <2>1. y.phase = "done" /\ y.relay = None /\ y.whole = call[c].whole
    BY <1>2, <1>3, <1>4 DEF Apart
  <2>2. ~y.whole
    BY <1>1, <2>1
  <2>3. None # 200
    BY MeteringAssumption
  <2> QED BY <2>1, <2>2, <2>3 DEF Sound
<1>6. call' = [call EXCEPT ![c] = y]
  BY <1>2, <1>3, <1>4 DEF Answers
<1> QED BY <1>5, <1>6, OneCall

LEMMA Same == ASSUME CallsOK, stored' = stored PROVE StoredGrows
BY DEF CallsOK, StoredGrows

(* What is left of the calls after the gateway died.                       *)
LEMMA CrashOK == ASSUME CallsOK, Crash PROVE CallsOK'
<1>1. /\ stored' = stored
      /\ call' = [c \in Calls |->
           IF At(c, "sent") \/ At(c, "orphan") THEN [call[c] EXCEPT !.phase = "orphan"] ELSE None]
  BY DEF Crash
<1>2. ASSUME NEW c \in Calls
      PROVE call'[c] \in Call \cup {None} /\ (call'[c] # None => Sound(call'[c], stored))
  <2>1. CASE At(c, "sent") \/ At(c, "orphan")
    <3>1. call[c] \in Call /\ ~call[c].whole
      BY <2>1, AtSome DEF Sound
    <3>2. call'[c] = [call[c] EXCEPT !.phase = "orphan"]
      BY <1>1, <2>1
    <3>3. [call[c] EXCEPT !.phase = "orphan"] \in Call
      BY <3>1 DEF Call
    <3>4. Sound([call[c] EXCEPT !.phase = "orphan"], stored)
      BY <3>1 DEF Sound, Call
    <3> QED BY <3>2, <3>3, <3>4
  <2>2. CASE ~(At(c, "sent") \/ At(c, "orphan"))
    BY <1>1, <2>2
  <2> QED BY <2>1, <2>2
<1>3. call' \in [Calls -> Call \cup {None}]
  BY <1>1, <1>2
<1> QED BY <1>1, <1>2, <1>3 DEF CallsOK

(* The relay has the event of call c, or c is a pull.                      *)
LEMMA StoredOne ==
  ASSUME CallsOK, NEW c \in Calls, call[c] \in Call,
         Written(c)
  PROVE  StoredGrows /\ (IsPush(c) => call[c].event \in stored'[call[c].store])
<1>1. CASE IsPush(c)
  <2>1. call[c].store \in Stores /\ call[c].event \in Events
    BY <1>1 DEF Call, IsPush
  <2> QED BY <1>1, <2>1 DEF CallsOK, StoredGrows, Written
<1>2. CASE ~IsPush(c)
  BY <1>2, Same DEF Written
<1> QED BY <1>1, <1>2

LEMMA Inductive == ASSUME CallsOK, [Next]_vars PROVE CallsOK'
<1>1. ASSUME NEW c \in Calls, NEW s \in Stores, NEW e \in Events \cup {None}, Begin(c, s, e)
      PROVE CallsOK'
  <2> DEFINE w == [phase |-> IF e = None THEN "sent" ELSE "body", store |-> s, event |-> e,
                   relay |-> None, whole |-> FALSE, status |-> None]
  <2>1. w \in Call /\ Sound(w, stored')
    BY DEF Call, Sound
  <2>2. call' = [call EXCEPT ![c] = w] /\ StoredGrows
    BY <1>1, Same DEF Begin
  <2> QED BY <2>1, <2>2, OneCall
<1>2. ASSUME NEW c \in Calls, BodyArrives(c) \/ RelayAnswers(c) PROVE CallsOK'
  <2>1. PICK p \in {"body", "applied"}, q \in {"sent", "text"} :
          At(c, p) /\ Moves(c, q) /\ (q = "text" => p = "applied")
    BY <1>2 DEF BodyArrives, RelayAnswers
  <2>2. call[c] \in Call /\ Sound(call[c], stored) /\ call[c].phase = p
    BY <2>1, AtSome
  <2>3. stored' = stored /\ StoredGrows
    BY <1>2, Same DEF BodyArrives, RelayAnswers
  <2>4. [call[c] EXCEPT !.phase = q] \in Call
    BY <2>2 DEF Call
  <2>5. Sound([call[c] EXCEPT !.phase = q], stored')
    BY <2>1, <2>2, <2>3 DEF Sound, Call
  <2>6. call' = [call EXCEPT ![c] = [call[c] EXCEPT !.phase = q]]
    BY <2>1 DEF Moves
  <2> QED BY <2>3, <2>4, <2>5, <2>6, OneCall
<1>3. ASSUME NEW c \in Calls, BodyRefused(c) \/ AnswerCut(c) \/ OrphanLost(c) PROVE CallsOK'
  <2>1. PICK p \in {"body", "applied", "text", "orphan"} : At(c, p)
    BY <1>3 DEF BodyRefused, AnswerCut, OrphanLost
  <2>2. StoredGrows
    BY <1>3, Same DEF BodyRefused, AnswerCut, OrphanLost
  <2>3. call[c].status \in Statuses
    BY <2>1, AtSome DEF Call, Statuses
  <2>4. PICK x \in Statuses : Answers(c, x)
    BY <1>3, <2>3 DEF BodyRefused, AnswerCut, OrphanLost, Statuses
  <2> QED BY <2>1, <2>2, <2>4, AnswersOK
<1>4. ASSUME NEW c \in Calls, RelayApplies(c) PROVE CallsOK'
  <2>1. call[c] \in Call /\ Sound(call[c], stored) /\ call[c].phase = "sent"
    BY <1>4, AtSome DEF RelayApplies
  <2>2. StoredGrows /\ (IsPush(c) => call[c].event \in stored'[call[c].store])
    BY <1>4, <2>1, StoredOne DEF RelayApplies
  <2>3. PICK v \in Call :
          v = [call[c] EXCEPT !.phase = "applied"] /\ Apart(v, call[c], "phase") /\ v.phase = "applied"
    BY <2>1, SetPhase DEF Phases
  <2>4. PICK w \in Call : w = [v EXCEPT !.relay = 200] /\ Apart(w, v, "relay") /\ w.relay = 200
    BY SetRelay
  <2>5. Sound(w, stored')
    BY <2>1, <2>2, <2>3, <2>4 DEF Sound, Apart, IsPush
  <2>6. call' = [call EXCEPT ![c] = w]
    BY <1>4, <2>3, <2>4 DEF RelayApplies
  <2> QED BY <2>2, <2>5, <2>6, OneCall
<1>5. ASSUME NEW c \in Calls, RelayRefuses(c) PROVE CallsOK'
  <2>1. call[c] \in Call /\ Sound(call[c], stored) /\ call[c].phase = "sent"
    BY <1>5, AtSome DEF RelayRefuses
  <2>2. StoredGrows
    BY <1>5, <2>1, Same, StoredOne DEF RelayRefuses
  <2>3. PICK v \in Call :
          v = [call[c] EXCEPT !.phase = "applied"] /\ Apart(v, call[c], "phase") /\ v.phase = "applied"
    BY <2>1, SetPhase DEF Phases
  <2>4. PICK w \in Call : w = [v EXCEPT !.relay = 500] /\ Apart(w, v, "relay") /\ w.relay = 500
    BY SetRelay
  <2>5. Sound(w, stored')
    BY <2>1, <2>3, <2>4 DEF Sound, Apart, IsPush
  <2>6. call' = [call EXCEPT ![c] = w]
    BY <1>5, <2>3, <2>4 DEF RelayRefuses
  <2> QED BY <2>2, <2>5, <2>6, OneCall
<1>6. ASSUME NEW c \in Calls, Meter(c) \/ MeterFails(c) PROVE CallsOK'
  <2>1. /\ call[c] \in Call /\ Sound(call[c], stored) /\ call[c].phase = "text"
        /\ stored' = stored /\ StoredGrows
    BY <1>6, AtSome, Same DEF Meter, MeterFails
  <2>2. call[c].relay \in Statuses
    BY <2>1 DEF Call, Statuses
  <2>3. PICK v \in Call :
          v = [call[c] EXCEPT !.phase = "done"] /\ Apart(v, call[c], "phase") /\ v.phase = "done"
    BY <2>1, SetPhase DEF Phases
  <2>4. PICK w \in Call : w = [v EXCEPT !.whole = TRUE] /\ Apart(w, v, "whole")
    BY SetWhole
  <2>5. PICK y \in Call :
          y = [w EXCEPT !.status = call[c].relay] /\ Apart(y, w, "status") /\ y.status = call[c].relay
    BY <2>2, SetStatus
  <2>6. Sound(y, stored')
    BY <2>1, <2>3, <2>4, <2>5 DEF Sound, Apart
  <2>7. call' = [call EXCEPT ![c] = y]
    BY <1>6, <2>3, <2>4, <2>5 DEF Meter, MeterFails, Passes
  <2> QED BY <2>1, <2>6, <2>7, OneCall
<1>7. ASSUME NEW c \in Calls, FetchFails(c) PROVE CallsOK'
  <2>1. stored' = stored /\ StoredGrows
    BY <1>7, Same DEF FetchFails
  <2>2. CASE At(c, "applied") /\ Answers(c, 502)
    BY <2>1, <2>2, AnswersOK DEF Statuses
  <2>3. CASE At(c, "sent") /\ call' = [call EXCEPT ![c] = [@ EXCEPT !.phase = "orphan", !.status = 502]]
    <3>1. call[c] \in Call /\ Sound(call[c], stored) /\ call[c].phase = "sent"
      BY <2>3, AtSome
    <3>2. PICK v \in Call :
            v = [call[c] EXCEPT !.phase = "orphan"] /\ Apart(v, call[c], "phase") /\ v.phase = "orphan"
      BY <3>1, SetPhase DEF Phases
    <3>3. PICK w \in Call : w = [v EXCEPT !.status = 502] /\ Apart(w, v, "status")
      BY SetStatus DEF Statuses
    <3>4. Sound(w, stored')
      BY <3>1, <3>2, <3>3 DEF Sound, Apart
    <3>5. call' = [call EXCEPT ![c] = w]
      BY <2>3, <3>2, <3>3
    <3> QED BY <2>1, <3>4, <3>5, OneCall
  <2> QED BY <1>7, <2>2, <2>3 DEF FetchFails
<1>8. ASSUME NEW c \in Calls, OrphanApplies(c) PROVE CallsOK'
  <2>1. call[c] \in Call /\ At(c, "orphan") /\ Answers(c, call[c].status)
    BY <1>8, AtSome DEF OrphanApplies
  <2>2. StoredGrows
    BY <1>8, <2>1, StoredOne DEF OrphanApplies
  <2>3. call[c].status \in Statuses
    BY <2>1 DEF Call, Statuses
  <2> QED BY <2>1, <2>2, <2>3, AnswersOK
<1>9. ASSUME call' = call, stored' = stored PROVE CallsOK'
  BY <1>9 DEF CallsOK
<1>10. ASSUME \/ \E a \in Accounts, s \in Stores :
                   CreateWorkspace(a, s) \/ GetOrCreatePersonalStore(a, s)
              \/ \E p, s \in Stores : GetOrCreateDerivedStore(p, s)
              \/ \E s \in Stores : DeleteWorkspace(s) \/ Stats(s)
              \/ NextDay \/ StatsFail \/ GatherBilling \/ GatherOverview
              \/ \E k \in {"overview", "billing"} : OpenPage(k)
              \/ UNCHANGED vars
       PROVE CallsOK'
  BY <1>9, <1>10 DEF CreateWorkspace, GetOrCreatePersonalStore, GetOrCreateDerivedStore,
       DeleteWorkspace, Stats, NextDay, StatsFail, GatherBilling, GatherOverview, OpenPage, vars
<1> QED
  BY <1>1, <1>2, <1>3, <1>4, <1>5, <1>6, <1>7, <1>8, <1>10, CrashOK DEF Next

(* What the client of a whole answer is told is what the relay said, and a *)
(* push it is told of as accepted is at the relay, through every fault of  *)
(* metering, fetch or process (proxy.ts:78-90).                            *)
THEOREM AnswerCorrect == Spec => []AnswerPassedOn
<1>1. Init => CallsOK
  BY DEF Init, CallsOK
<1>2. CallsOK /\ [Next]_vars => CallsOK'
  BY Inductive
<1>3. CallsOK => AnswerPassedOn
  <2> SUFFICES ASSUME CallsOK, NEW c \in Calls, At(c, "done"), call[c].whole
               PROVE  /\ call[c].status = call[c].relay
                      /\ call[c].status = 200 /\ IsPush(c) =>
                           call[c].event \in stored[call[c].store]
    BY DEF AnswerPassedOn
  <2> QED BY AtSome DEF Sound, IsPush
<1> QED BY <1>1, <1>2, <1>3, PTL DEF Spec

-----------------------------------------------------------------------------
(* Sums are sizes of sets of units.                                        *)
LEMMA UnitsIn ==
  ASSUME NEW f, NEW S, \A x \in S : f[x] \in Nat
  PROVE  \A u : u \in Units(f, S) <=> \E x \in S, k \in Nat : k \in 1..f[x] /\ u = <<x, k>>
BY DEF Units

(* A finite sum of natural numbers is one.                                 *)
LEMMA TotalNat ==
  ASSUME NEW S, IsFiniteSet(S), NEW f, \A x \in S : f[x] \in Nat
  PROVE  IsFiniteSet(Units(f, S)) /\ Total(f, S) \in Nat
<1> DEFINE T == { {x} \X (1..f[x]) : x \in S }
           g == [x \in S |-> {x} \X (1..f[x])]
<1>1. g \in Surjection(S, T)
  BY DEF Surjection
<1>2. IsFiniteSet(T)
  BY <1>1, FS_Surjection
<1>3. ASSUME NEW x \in S PROVE IsFiniteSet({x} \X (1..f[x]))
  <2>1. IsFiniteSet({x})
    BY FS_Singleton
  <2>2. IsFiniteSet(1..f[x])
    BY FS_Interval
  <2> QED BY <2>1, <2>2, FS_Product
<1>4. IsFiniteSet(UNION T)
  <2>1. \A V \in T : IsFiniteSet(V)
    BY <1>3
  <2> HIDE DEF T
  <2> QED BY <1>2, <2>1, FS_UNION
<1> QED BY <1>4, FS_CardinalityType DEF Units, Total

(* A sum grows with its terms.                                             *)
LEMMA TotalMonotone ==
  ASSUME NEW S, IsFiniteSet(S), NEW f, NEW g,
         \A x \in S : f[x] \in Nat /\ g[x] \in Nat /\ f[x] <= g[x]
  PROVE  Total(f, S) <= Total(g, S)
<1>1. Units(f, S) \subseteq Units(g, S)
  <2> SUFFICES ASSUME NEW u \in Units(f, S) PROVE u \in Units(g, S)
    OBVIOUS
  <2>1. PICK x \in S, k \in Nat : k \in 1..f[x] /\ u = <<x, k>>
    BY UnitsIn
  <2>2. k \in 1..g[x]
    BY <2>1
  <2> QED BY <2>1, <2>2, UnitsIn
<1>2. IsFiniteSet(Units(g, S))
  BY TotalNat
<1> QED BY <1>1, <1>2, FS_Subset DEF Total

(* The sum of sums is the sum of the terms' sums.                          *)
LEMMA TotalPlus ==
  ASSUME NEW S, IsFiniteSet(S), NEW f, NEW g, NEW h,
         \A x \in S : f[x] \in Nat /\ g[x] \in Nat /\ h[x] = f[x] + g[x]
  PROVE  Total(h, S) = Total(f, S) + Total(g, S)
<1> DEFINE A == Units(f, S)
           B == Units(g, S)
           C == Units(h, S)
           D == C \ A
<1>1. IsFiniteSet(A) /\ IsFiniteSet(B) /\ IsFiniteSet(C)
  <2>1. \A x \in S : f[x] \in Nat
    OBVIOUS
  <2>2. \A x \in S : g[x] \in Nat
    OBVIOUS
  <2>3. \A x \in S : h[x] \in Nat
    OBVIOUS
  <2> QED BY <2>1, <2>2, <2>3, TotalNat
<1>2. \A u : u \in D <=> \E x \in S, k \in Nat : k \in 1..h[x] /\ u = <<x, k>> /\ f[x] < k
  <2>1. ASSUME NEW x \in S, NEW k \in 1..h[x]
        PROVE <<x, k>> \in A <=> k <= f[x]
    BY UnitsIn
  <2>2. \A u : u \in C <=> \E x \in S, k \in Nat : k \in 1..h[x] /\ u = <<x, k>>
    BY UnitsIn
  <2> HIDE DEF A, C
  <2>3. \A x \in S, k \in Nat : f[x] < k <=> ~(k <= f[x])
    OBVIOUS
  <2> QED BY <2>1, <2>2, <2>3
<1>3. A \subseteq C
  <2>1. ASSUME NEW u \in A PROVE u \in C
    <3>1. PICK x \in S, k \in Nat : k \in 1..f[x] /\ u = <<x, k>>
      BY UnitsIn
    <3>2. k \in 1..h[x]
      BY <3>1
    <3> QED BY <3>1, <3>2, UnitsIn
  <2> QED BY <2>1
<1> DEFINE m == [u \in B |-> <<u[1], u[2] + f[u[1]]>>]
<1>4. m \in Bijection(B, D)
  <2>1. ASSUME NEW x \in S, NEW k \in 1..g[x]
        PROVE  <<x, k>> \in B /\ m[<<x, k>>] = <<x, k + f[x]>> /\ <<x, k + f[x]>> \in D
    <3>1. <<x, k>> \in B
      BY UnitsIn
    <3>2. k + f[x] \in 1..h[x] /\ f[x] < k + f[x]
      OBVIOUS
    <3> HIDE DEF B, D
    <3> QED BY <1>2, <3>1, <3>2
  <2>2. \A u : u \in B <=> \E x \in S, k \in Nat : k \in 1..g[x] /\ u = <<x, k>>
    BY UnitsIn
  <2> HIDE DEF B, D
  <2>3. m \in [B -> D]
    <3>1. ASSUME NEW u \in B PROVE m[u] \in D
      <4>1. PICK x \in S, k \in Nat : k \in 1..g[x] /\ u = <<x, k>>
        BY <2>2
      <4> QED BY <2>1, <4>1
    <3> QED BY <3>1
  <2>4. \A u, v \in B : m[u] = m[v] => u = v
    <3> SUFFICES ASSUME NEW u \in B, NEW v \in B, m[u] = m[v] PROVE u = v
      OBVIOUS
    <3>1. PICK x \in S, k \in Nat : k \in 1..g[x] /\ u = <<x, k>>
      BY <2>2
    <3>2. PICK y \in S, l \in Nat : l \in 1..g[y] /\ v = <<y, l>>
      BY <2>2
    <3>3. <<x, k + f[x]>> = <<y, l + f[y]>>
      BY <2>1, <3>1, <3>2
    <3>4. x = y /\ k + f[x] = l + f[x]
      BY <3>3
    <3>5. k = l
      BY <3>4
    <3> QED BY <3>1, <3>2, <3>4, <3>5
  <2>5. \A u \in D : \E v \in B : m[v] = u
    <3> SUFFICES ASSUME NEW u \in D PROVE \E v \in B : m[v] = u
      OBVIOUS
    <3>1. PICK x \in S, k \in Nat : k \in 1..h[x] /\ u = <<x, k>> /\ f[x] < k
      BY <1>2
    <3>2. PICK l \in 1..g[x] : l + f[x] = k
      <4>1. k - f[x] \in 1..g[x] /\ (k - f[x]) + f[x] = k
        BY <3>1
      <4> QED BY <4>1
    <3> QED BY <2>1, <3>1, <3>2
  <2> HIDE DEF m
  <2> QED BY <2>3, <2>4, <2>5 DEF Bijection, Injection, IsInjective, Surjection
<1>5. Cardinality(D) = Cardinality(B) /\ IsFiniteSet(D)
  <2>1. ExistsBijection(B, D)
    BY <1>4 DEF ExistsBijection
  <2> HIDE DEF B, D
  <2> QED BY <1>1, <2>1, FS_Bijection
<1>6. C \ A = D /\ C \cap A = A
  BY <1>3
<1>7. Cardinality(D) = Cardinality(C) - Cardinality(A)
  <2> HIDE DEF A, B
  <2>1. Cardinality(C \ A) = Cardinality(C) - Cardinality(C \cap A)
    <3> HIDE DEF C, D
    <3> QED BY <1>1, FS_Difference
  <2> QED BY <1>6, <2>1
<1> HIDE DEF A, B, C, D
<1>8. Cardinality(A) \in Nat /\ Cardinality(B) \in Nat /\ Cardinality(C) \in Nat
  BY <1>1, FS_CardinalityType
<1>9. Cardinality(C) = Cardinality(A) + Cardinality(B)
  BY <1>5, <1>7, <1>8
<1> QED BY <1>9 DEF A, B, C, Total

(* One term that grows by one lets the sum grow by one.                    *)
LEMMA TotalOneMore ==
  ASSUME NEW S, IsFiniteSet(S), NEW f, NEW g, NEW x \in S,
         \A y \in S : f[y] \in Nat, \A y \in S \ {x} : g[y] = f[y], g[x] = f[x] + 1
  PROVE  Total(g, S) = Total(f, S) + 1
<1> DEFINE u == <<x, f[x] + 1>>
<1>1. u \notin Units(f, S)
  <2> SUFFICES ASSUME u \in Units(f, S) PROVE FALSE
    OBVIOUS
  <2>1. PICK y \in S, k \in Nat : k \in 1..f[y] /\ u = <<y, k>>
    BY UnitsIn
  <2>2. y = x /\ k = f[x] + 1
    BY <2>1
  <2>3. f[x] \in Nat
    OBVIOUS
  <2> QED BY <2>1, <2>2, <2>3
<1>2. Units(g, S) = Units(f, S) \cup {u}
  <2>1. ASSUME NEW v \in Units(g, S) PROVE v \in Units(f, S) \cup {u}
    <3>1. PICK y \in S, k \in Nat : k \in 1..g[y] /\ v = <<y, k>>
      BY UnitsIn
    <3>2. CASE k \in 1..f[y]
      BY <3>1, <3>2, UnitsIn
    <3>3. CASE k \notin 1..f[y]
      <4>1. y = x /\ k = f[x] + 1
        BY <3>1, <3>3
      <4> QED BY <3>1, <4>1
    <3> QED BY <3>2, <3>3
  <2>2. ASSUME NEW v \in Units(f, S) PROVE v \in Units(g, S)
    <3>1. PICK y \in S, k \in Nat : k \in 1..f[y] /\ v = <<y, k>>
      BY UnitsIn
    <3>2. k \in 1..g[y]
      BY <3>1
    <3> QED BY <3>1, <3>2, UnitsIn
  <2>3. u \in Units(g, S)
    <3>1. f[x] + 1 \in 1..g[x]
      OBVIOUS
    <3> QED BY <3>1, UnitsIn
  <2> QED BY <2>1, <2>2, <2>3
<1>3. IsFiniteSet(Units(f, S))
  BY TotalNat
<1> HIDE DEF u
<1>4. Cardinality(Units(f, S) \cup {u}) = Cardinality(Units(f, S)) + 1
  BY <1>1, <1>3, FS_AddElement
<1> QED BY <1>2, <1>4 DEF Total

(* Terms that stay leave the sum.                                          *)
LEMMA TotalSame ==
  ASSUME NEW S, NEW f, NEW g, \A x \in S : f[x] = g[x]
  PROVE  Total(f, S) = Total(g, S)
BY DEF Total, Units

(* Two disjoint sets of terms.                                             *)
LEMMA TotalApart ==
  ASSUME NEW S, NEW T, IsFiniteSet(S), IsFiniteSet(T), S \cap T = {},
         NEW f, \A x \in S \cup T : f[x] \in Nat
  PROVE  Total(f, S \cup T) = Total(f, S) + Total(f, T)
<1> DEFINE A == Units(f, S)
           B == Units(f, T)
<1>1. Units(f, S \cup T) = A \cup B
  BY DEF Units
<1>2. A \cap B = {}
  <2> SUFFICES ASSUME NEW u \in A, u \in B PROVE FALSE
    OBVIOUS
  <2>1. PICK x \in S, k \in Nat : k \in 1..f[x] /\ u = <<x, k>>
    BY UnitsIn
  <2>2. PICK y \in T, l \in Nat : l \in 1..f[y] /\ u = <<y, l>>
    BY UnitsIn
  <2> QED BY <2>1, <2>2
<1>3. IsFiniteSet(A) /\ IsFiniteSet(B)
  BY TotalNat
<1> HIDE DEF A, B
<1>4. Cardinality(A \cup B) = Cardinality(A) + Cardinality(B) - Cardinality(A \cap B)
  BY <1>3, FS_Union
<1>5. Cardinality(A \cap B) = 0 /\ Cardinality(A) \in Nat /\ Cardinality(B) \in Nat
  BY <1>2, <1>3, FS_EmptySet, FS_CardinalityType
<1>6. Cardinality(A \cup B) = Cardinality(A) + Cardinality(B)
  BY <1>4, <1>5
<1> QED BY <1>1, <1>6 DEF A, B, Total

-----------------------------------------------------------------------------
(* Which pushes are answered and not metered, after call c became w.       *)
LEMMA AnsweredStep ==
  ASSUME CallsOK, NEW c \in Calls, NEW w \in Call, call' = [call EXCEPT ![c] = w], NEW s
  PROVE  Answered(s)' =
           IF w.phase \in {"applied", "text"} /\ w.event # None /\ w.store = s
           THEN Answered(s) \cup {c} ELSE Answered(s) \ {c}
<1>1. call'[c] = w /\ w # None /\ \A d \in Calls \ {c} : call'[d] = call[d]
  BY SlotAssumption DEF CallsOK
<1>2. \A d \in Calls \ {c} : d \in Answered(s)' <=> d \in Answered(s)
  BY <1>1 DEF Answered, At, IsPush
<1>3. c \in Answered(s)' <=> w.phase \in {"applied", "text"} /\ w.event # None /\ w.store = s
  BY <1>1 DEF Answered, At, IsPush
<1>4. Answered(s)' \subseteq Calls /\ Answered(s) \subseteq Calls
  BY DEF Answered
<1> QED BY <1>2, <1>3, <1>4

(* The four ways a call is written, and what stays of it.                  *)
Mine(w, v) == w.store = v.store /\ w.event = v.event

LEMMA AnswersForm ==
  ASSUME NEW v \in Call, NEW x \in Statuses
  PROVE  \E w \in Call : /\ w = [v EXCEPT !.phase = "done", !.relay = None, !.status = x]
                         /\ w.phase = "done" /\ Mine(w, v)
<1>1. PICK a \in Call : a = [v EXCEPT !.phase = "done"] /\ a.phase = "done" /\ Apart(a, v, "phase")
  BY SetPhase DEF Phases
<1>2. PICK b \in Call : b = [a EXCEPT !.relay = None] /\ Apart(b, a, "relay")
  BY SetRelay
<1>3. PICK w \in Call : w = [b EXCEPT !.status = x] /\ Apart(w, b, "status")
  BY SetStatus
<1> QED BY <1>1, <1>2, <1>3 DEF Apart, Mine

LEMMA PassesForm ==
  ASSUME NEW v \in Call, NEW x \in Statuses
  PROVE  \E w \in Call : /\ w = [v EXCEPT !.phase = "done", !.whole = TRUE, !.status = x]
                         /\ w.phase = "done" /\ Mine(w, v)
<1>1. PICK a \in Call : a = [v EXCEPT !.phase = "done"] /\ a.phase = "done" /\ Apart(a, v, "phase")
  BY SetPhase DEF Phases
<1>2. PICK b \in Call : b = [a EXCEPT !.whole = TRUE] /\ Apart(b, a, "whole")
  BY SetWhole
<1>3. PICK w \in Call : w = [b EXCEPT !.status = x] /\ Apart(w, b, "status")
  BY SetStatus
<1> QED BY <1>1, <1>2, <1>3 DEF Apart, Mine

AppliedWith(v, r) == [v EXCEPT !.phase = "applied", !.relay = r]

LEMMA AppliedForm ==
  ASSUME NEW v \in Call, NEW r, r \in {200, 500, None}
  PROVE  \E w \in Call : /\ w = AppliedWith(v, r)
                         /\ w.phase = "applied" /\ Mine(w, v)
<1>1. PICK a \in Call : a = [v EXCEPT !.phase = "applied"] /\ a.phase = "applied" /\ Apart(a, v, "phase")
  BY SetPhase DEF Phases
<1>2. PICK w \in Call : w = [a EXCEPT !.relay = r] /\ Apart(w, a, "relay")
  BY SetRelay
<1>3. w = AppliedWith(v, r)
  BY <1>1, <1>2 DEF AppliedWith
<1>4. w.phase = "applied" /\ Mine(w, v)
  BY <1>1, <1>2 DEF Apart, Mine
<1> QED BY <1>3, <1>4

LEMMA OrphanForm ==
  ASSUME NEW v \in Call
  PROVE  \E w \in Call : /\ w = [v EXCEPT !.phase = "orphan", !.status = 502]
                         /\ w.phase = "orphan" /\ Mine(w, v)
<1>1. PICK a \in Call : a = [v EXCEPT !.phase = "orphan"] /\ a.phase = "orphan" /\ Apart(a, v, "phase")
  BY SetPhase DEF Phases
<1>2. PICK w \in Call : w = [a EXCEPT !.status = 502] /\ Apart(w, a, "status")
  BY SetStatus DEF Statuses
<1>3. w = [v EXCEPT !.phase = "orphan", !.status = 502]
  BY <1>1, <1>2
<1>4. w.phase = "orphan" /\ Mine(w, v)
  BY <1>1, <1>2 DEF Apart, Mine
<1> QED BY <1>3, <1>4

(* Steps of a call that neither make it an answered push nor end one.      *)
LEMMA AnsweredStays ==
  ASSUME CallsOK, NEW s, NEW c \in Calls,
         \/ BodyArrives(c) \/ BodyRefused(c) \/ RelayAnswers(c) \/ OrphanApplies(c) \/ OrphanLost(c)
         \/ FetchFails(c) /\ At(c, "sent")
         \/ \E z \in Stores, e \in Events \cup {None} : Begin(c, z, e)
  PROVE  Answered(s)' = Answered(s)
<1>1. ASSUME NEW w \in Call, call' = [call EXCEPT ![c] = w], call[c] = None \/ call[c] \in Call,
             \/ /\ w.phase \notin {"applied", "text"}
                /\ call[c] = None \/ call[c].phase \notin {"applied", "text"}
             \/ /\ w.phase \in {"applied", "text"} /\ Mine(w, call[c])
                /\ call[c] # None /\ call[c].phase \in {"applied", "text"}
      PROVE Answered(s)' = Answered(s)
  <2>1. CASE w.phase \notin {"applied", "text"}
    <3>1. c \notin Answered(s)
      BY <1>1, <2>1 DEF Answered, At
    <3>2. Answered(s)' = Answered(s) \ {c}
      BY <1>1, <2>1, AnsweredStep
    <3> QED BY <3>1, <3>2
  <2>2. CASE w.phase \in {"applied", "text"}
    <3>1. c \in Answered(s) <=> w.event # None /\ w.store = s
      BY <1>1, <2>2 DEF Answered, At, IsPush, Mine
    <3>2. Answered(s)' = IF w.event # None /\ w.store = s
                         THEN Answered(s) \cup {c} ELSE Answered(s) \ {c}
      <4>1. CASE w.event # None /\ w.store = s
        BY <1>1, <2>2, <4>1, AnsweredStep
      <4>2. CASE ~(w.event # None /\ w.store = s)
        BY <1>1, <2>2, <4>2, AnsweredStep
      <4> QED BY <4>1, <4>2
    <3> QED BY <3>1, <3>2
  <2> QED BY <2>1, <2>2
<1>2. call[c] = None \/ call[c] \in Call
  BY DEF CallsOK
<1>3. ASSUME NEW p \in Phases, At(c, p) PROVE call[c] \in Call /\ call[c].phase = p /\ call[c] # None
  BY <1>3, <1>2 DEF At
<1>4. CASE BodyArrives(c) \/ RelayAnswers(c)
  <2>1. PICK p \in {"body", "applied"}, q \in {"sent", "text"} :
          At(c, p) /\ Moves(c, q) /\ (q = "text" <=> p = "applied")
    BY <1>4 DEF BodyArrives, RelayAnswers
  <2>2. PICK w \in Call : w = [call[c] EXCEPT !.phase = q] /\ w.phase = q /\ Apart(w, call[c], "phase")
    BY <1>3, <2>1, SetPhase DEF Phases
  <2>3. call' = [call EXCEPT ![c] = w]
    BY <2>1, <2>2 DEF Moves
  <2> QED BY <1>1, <1>2, <1>3, <2>1, <2>2, <2>3 DEF Apart, Mine, Phases
<1>5. CASE BodyRefused(c) \/ OrphanApplies(c) \/ OrphanLost(c)
  <2>1. PICK p \in {"body", "orphan"} : At(c, p)
    BY <1>5 DEF BodyRefused, OrphanApplies, OrphanLost
  <2>2. call[c] \in Call /\ call[c].phase = p
    BY <1>3, <2>1 DEF Phases
  <2>3. call[c].status \in Statuses
    BY <2>2 DEF Call, Statuses
  <2>4. PICK x \in Statuses : Answers(c, x)
    BY <1>5, <2>3 DEF BodyRefused, OrphanApplies, OrphanLost, Statuses
  <2>5. PICK w \in Call : /\ w = [call[c] EXCEPT !.phase = "done", !.relay = None, !.status = x]
                          /\ w.phase = "done"
    BY <2>2, AnswersForm
  <2>6. call' = [call EXCEPT ![c] = w]
    BY <2>4, <2>5 DEF Answers
  <2> QED BY <1>1, <1>2, <2>2, <2>5, <2>6
<1>6. CASE FetchFails(c) /\ At(c, "sent")
  <2>1. call[c] \in Call /\ call[c].phase = "sent"
    BY <1>3, <1>6 DEF Phases
  <2>2. PICK w \in Call : w = [call[c] EXCEPT !.phase = "orphan", !.status = 502] /\ w.phase = "orphan"
    BY <2>1, OrphanForm
  <2>3. call' = [call EXCEPT ![c] = w]
    BY <1>6, <2>1, <2>2 DEF FetchFails, At
  <2> QED BY <1>1, <1>2, <2>1, <2>2, <2>3
<1>7. ASSUME NEW z \in Stores, NEW e \in Events \cup {None}, Begin(c, z, e)
      PROVE Answered(s)' = Answered(s)
  <2> DEFINE w == [phase |-> IF e = None THEN "sent" ELSE "body", store |-> z, event |-> e,
                   relay |-> None, whole |-> FALSE, status |-> None]
  <2>1. w \in Call /\ w.phase \in {"sent", "body"}
    BY DEF Call
  <2>2. call' = [call EXCEPT ![c] = w] /\ (call[c] # None => call[c].phase = "done")
    BY <1>7 DEF Begin, Idle
  <2> HIDE DEF w
  <2> QED BY <1>1, <1>2, <2>1, <2>2
<1> QED BY <1>4, <1>5, <1>6, <1>7

(* The relay answers a push of s: one more is answered.                    *)
LEMMA AnsweredEnters ==
  ASSUME CallsOK, NEW s, NEW c \in Calls, RelayApplies(c) \/ RelayRefuses(c)
  PROVE  /\ call[c] \in Call /\ c \notin Answered(s)
         /\ Answered(s)' = IF IsPush(c) /\ call[c].store = s THEN Answered(s) \cup {c} ELSE Answered(s)
<1>1. call[c] \in Call /\ call[c].phase = "sent"
  BY AtSome DEF RelayApplies, RelayRefuses
<1>2. PICK r : /\ r \in {200, 500, None}
               /\ call' = [call EXCEPT ![c] = [@ EXCEPT !.phase = "applied", !.relay = r]]
  BY DEF RelayApplies, RelayRefuses
<1>3. PICK w \in Call : /\ w = AppliedWith(call[c], r)
                        /\ w.phase = "applied" /\ Mine(w, call[c])
  BY ONLY <1>1, <1>2, AppliedForm
<1>4. call' = [call EXCEPT ![c] = w]
  BY ONLY <1>2, <1>3 DEF AppliedWith
<1>5. c \notin Answered(s)
  BY <1>1 DEF Answered, At
<1>6. Answered(s)' = IF w.event # None /\ w.store = s THEN Answered(s) \cup {c} ELSE Answered(s) \ {c}
  <2>1. w.phase \in {"applied", "text"}
    BY ONLY <1>3
  <2>2. ASSUME w.event # None /\ w.store = s PROVE Answered(s)' = Answered(s) \cup {c}
    BY ONLY CallsOK, <1>4, <2>1, <2>2, AnsweredStep
  <2>3. ASSUME ~(w.event # None /\ w.store = s) PROVE Answered(s)' = Answered(s) \ {c}
    BY ONLY CallsOK, <1>4, <2>1, <2>3, AnsweredStep
  <2> QED BY ONLY <2>2, <2>3
<1> QED BY <1>1, <1>3, <1>5, <1>6 DEF Mine, IsPush

(* The gateway is done with an answered call.                              *)
LEMMA AnsweredLeaves ==
  ASSUME CallsOK, NEW s, NEW c \in Calls,
         Meter(c) \/ MeterFails(c) \/ AnswerCut(c) \/ (FetchFails(c) /\ ~At(c, "sent"))
  PROVE  /\ call[c] \in Call
         /\ Answered(s)' = Answered(s) \ {c}
         /\ c \in Answered(s) <=> IsPush(c) /\ call[c].store = s
<1>1. PICK p \in {"applied", "text"} : At(c, p)
  BY DEF Meter, MeterFails, AnswerCut, FetchFails
<1>2. call[c] \in Call /\ call[c].phase = p
  BY <1>1, AtSome
<1>3. call[c].relay \in Statuses
  BY <1>2 DEF Call, Statuses
<1>4. (\E x \in Statuses : Answers(c, x)) \/ (\E x \in Statuses : Passes(c, x))
  BY <1>3 DEF Meter, MeterFails, AnswerCut, FetchFails, Statuses
<1>5. \E w \in Call : call' = [call EXCEPT ![c] = w] /\ w.phase = "done"
  <2>1. ASSUME NEW x \in Statuses, Answers(c, x)
        PROVE \E w \in Call : call' = [call EXCEPT ![c] = w] /\ w.phase = "done"
    BY <1>2, <2>1, AnswersForm DEF Answers
  <2>2. ASSUME NEW x \in Statuses, Passes(c, x)
        PROVE \E w \in Call : call' = [call EXCEPT ![c] = w] /\ w.phase = "done"
    BY <1>2, <2>2, PassesForm DEF Passes
  <2> QED BY <1>4, <2>1, <2>2
<1>6. Answered(s)' = Answered(s) \ {c}
  BY <1>5, AnsweredStep
<1>7. c \in Answered(s) <=> IsPush(c) /\ call[c].store = s
  BY <1>1 DEF Answered
<1> QED BY <1>2, <1>6, <1>7
-----------------------------------------------------------------------------
(* The tables and the clocks. Sets that are counted are finite.            *)
Tables ==
  /\ row \in [Stores -> Row]
  /\ usage \in [0..MaxDay -> [Stores -> [requests : Nat, in : Nat]]]
  /\ day \in 0..MaxDay /\ missed \in [Stores -> Nat]
  /\ begun \in 0..MaxCalls /\ faults \in 0..MaxFaults

Finite == \A s \in Stores : IsFiniteSet(stored[s]) /\ IsFiniteSet(Answered(s))

(* What came in of a store, over any days, is a number.                    *)
LEMMA IngressNat ==
  ASSUME Tables, NEW s \in Stores, NEW days \in SUBSET (0..MaxDay)
  PROVE  /\ IsFiniteSet(days) /\ Ingress(s, days) \in Nat
         /\ \A d \in 0..MaxDay : usage[d][s].in \in Nat
<1>1. IsFiniteSet(days)
  <2>1. IsFiniteSet(0..MaxDay)
    BY MeteringAssumption, FS_Interval
  <2> QED BY <2>1, FS_Subset
<1>2. \A d \in 0..MaxDay : usage[d][s].in \in Nat
  BY DEF Tables
<1> DEFINE f == [d \in 0..MaxDay |-> usage[d][s].in]
<1>3. \A d \in days : f[d] \in Nat
  BY <1>2
<1> HIDE DEF f
<1>4. Total(f, days) \in Nat
  BY <1>1, <1>3, TotalNat
<1> QED BY <1>1, <1>2, <1>4 DEF Ingress, f

(* Metering adds the bytes of the call to what came in of its store.       *)
LEMMA MeteredOnce ==
  ASSUME Tables, NEW c \in Calls, call[c] \in Call, RecordUsage(c)
  PROVE  /\ usage' \in [0..MaxDay -> [Stores -> [requests : Nat, in : Nat]]]
         /\ \A s \in Stores : Ingress(s, 0..MaxDay)' =
              IF IsPush(c) /\ call[c].store = s THEN Ingress(s, 0..MaxDay) + 1
              ELSE Ingress(s, 0..MaxDay)
<1> DEFINE z == call[c].store
           n == [requests |-> usage[day][z].requests + 1, in |-> usage[day][z].in + Bytes(c)]
<1>1. z \in Stores /\ Bytes(c) \in {0, 1} /\ (IsPush(c) <=> Bytes(c) = 1)
  BY DEF Call, Bytes
<1>2. day \in 0..MaxDay /\ usage[day] \in [Stores -> [requests : Nat, in : Nat]]
      /\ usage[day][z] \in [requests : Nat, in : Nat]
  BY <1>1 DEF Tables
<1>3. n \in [requests : Nat, in : Nat] /\ n.in = usage[day][z].in + Bytes(c)
  BY <1>1, <1>2
<1>4. usage' = [usage EXCEPT ![day] = [usage[day] EXCEPT ![z] = n]]
  BY <1>1, <1>2 DEF RecordUsage, Tables
<1> HIDE DEF n
<1>5. usage' \in [0..MaxDay -> [Stores -> [requests : Nat, in : Nat]]]
  BY <1>1, <1>2, <1>3, <1>4 DEF Tables
<1>6. ASSUME NEW s \in Stores
      PROVE Ingress(s, 0..MaxDay)' =
              IF IsPush(c) /\ z = s THEN Ingress(s, 0..MaxDay) + 1 ELSE Ingress(s, 0..MaxDay)
  <2> DEFINE f == [d \in 0..MaxDay |-> usage[d][s].in]
             g == [d \in 0..MaxDay |-> usage'[d][s].in]
  <2>1. \A d \in 0..MaxDay : f[d] \in Nat
    BY IngressNat
  <2>2. \A d \in (0..MaxDay) \ {day} : g[d] = f[d]
    BY <1>4 DEF Tables
  <2>3. g[day] = IF z = s THEN f[day] + Bytes(c) ELSE f[day]
    BY <1>1, <1>2, <1>3, <1>4 DEF Tables
  <2>4. IsFiniteSet(0..MaxDay)
    BY MeteringAssumption, FS_Interval
  <2>5. Ingress(s, 0..MaxDay) = Total(f, 0..MaxDay) /\ Ingress(s, 0..MaxDay)' = Total(g, 0..MaxDay)
    BY DEF Ingress, Total, Units
  <2> HIDE DEF f, g
  <2>6. CASE IsPush(c) /\ z = s
    <3>1. g[day] = f[day] + 1
      BY <1>1, <2>3, <2>6
    <3>2. Total(g, 0..MaxDay) = Total(f, 0..MaxDay) + 1
      BY <1>2, <2>1, <2>2, <2>4, <3>1, TotalOneMore
    <3> QED BY <2>5, <2>6, <3>2
  <2>7. CASE ~(IsPush(c) /\ z = s)
    <3>1. g[day] = f[day]
      BY <1>1, <1>2, <2>1, <2>3, <2>7
    <3>2. \A d \in 0..MaxDay : f[d] = g[d]
      BY <2>2, <3>1
    <3>3. Total(g, 0..MaxDay) = Total(f, 0..MaxDay)
      BY <3>2, TotalSame
    <3> QED BY <2>5, <2>7, <3>3
  <2> QED BY <2>6, <2>7
<1> QED BY <1>5, <1>6

LEMMA IngressSame ==
  ASSUME usage' = usage, NEW s
  PROVE  Ingress(s, 0..MaxDay)' = Ingress(s, 0..MaxDay)
BY DEF Ingress, Total, Units

-----------------------------------------------------------------------------
(* The books of a store: its stored events against those metered, those    *)
(* about to be and those a fault kept from it.                             *)
Books(s) == Cardinality(stored[s]) <= Ingress(s, 0..MaxDay) + InFlight(s) + missed[s]

(* What one step can do to the books of a store. No more than one event is *)
(* stored, and then one more push is answered or one is given up; a push   *)
(* that is no longer answered is metered or given up.                      *)
NothingNew(s) ==
  /\ stored'[s] = stored[s] /\ Answered(s)' = Answered(s)
  /\ Ingress(s, 0..MaxDay)' = Ingress(s, 0..MaxDay) /\ missed'[s] = missed[s]

OneAnswered(s) ==
  /\ \E e \in Events : stored'[s] \in {stored[s], stored[s] \cup {e}}
  /\ \E c \in Calls : c \notin Answered(s) /\ Answered(s)' = Answered(s) \cup {c}
  /\ Ingress(s, 0..MaxDay)' = Ingress(s, 0..MaxDay) /\ missed'[s] = missed[s]

OneSettled(s) ==
  /\ stored'[s] = stored[s]
  /\ \E c \in Calls : c \in Answered(s) /\ Answered(s)' = Answered(s) \ {c}
  /\ \/ Ingress(s, 0..MaxDay)' = Ingress(s, 0..MaxDay) + 1 /\ missed'[s] = missed[s]
     \/ Ingress(s, 0..MaxDay)' = Ingress(s, 0..MaxDay) /\ missed'[s] = missed[s] + 1

OneGivenUp(s) ==
  /\ \E e \in Events : stored'[s] \in {stored[s], stored[s] \cup {e}}
  /\ Answered(s)' = Answered(s)
  /\ Ingress(s, 0..MaxDay)' = Ingress(s, 0..MaxDay) /\ missed'[s] = missed[s] + 1

AllGivenUp(s) ==
  /\ stored'[s] = stored[s] /\ Answered(s)' = {}
  /\ Ingress(s, 0..MaxDay)' = Ingress(s, 0..MaxDay) /\ missed'[s] = missed[s] + InFlight(s)

Effect(s) == NothingNew(s) \/ OneAnswered(s) \/ OneSettled(s) \/ OneGivenUp(s) \/ AllGivenUp(s)

(* A set that is the old one, or the old one and one element.              *)
LEMMA OneMore ==
  ASSUME NEW S, IsFiniteSet(S), NEW e, NEW T \in {S, S \cup {e}}
  PROVE  /\ IsFiniteSet(T) /\ Cardinality(S) \in Nat /\ Cardinality(T) \in Nat
         /\ Cardinality(T) <= Cardinality(S) + 1
<1>1. Cardinality(S) \in Nat
  BY FS_CardinalityType
<1>2. IsFiniteSet(S \cup {e})
        /\ Cardinality(S \cup {e}) \in {Cardinality(S), Cardinality(S) + 1}
  BY FS_AddElement
<1> QED BY <1>1, <1>2

LEMMA EffectKeepsBooks ==
  ASSUME Tables, NEW s \in Stores, IsFiniteSet(stored[s]), IsFiniteSet(Answered(s)), Books(s), Effect(s)
  PROVE  /\ IsFiniteSet(stored'[s]) /\ IsFiniteSet(Answered(s)') /\ missed'[s] \in Nat
         /\ Cardinality(stored[s]) <= Cardinality(stored'[s])
         /\ Books(s)'
<1> DEFINE k == Cardinality(stored[s])
           i == Ingress(s, 0..MaxDay)
           n == Cardinality(Answered(s))
           m == missed[s]
<1>1. k \in Nat /\ i \in Nat /\ n \in Nat /\ m \in Nat /\ k <= i + n + m
  BY IngressNat, FS_CardinalityType DEF Tables, Books, InFlight
<1>2. ASSUME NEW e \in Events, stored'[s] \in {stored[s], stored[s] \cup {e}}
      PROVE  /\ IsFiniteSet(stored'[s]) /\ Cardinality(stored'[s]) \in Nat
             /\ k <= Cardinality(stored'[s]) /\ Cardinality(stored'[s]) <= k + 1
  <2>1. IsFiniteSet(stored'[s]) /\ Cardinality(stored'[s]) \in Nat /\ Cardinality(stored'[s]) <= k + 1
    BY <1>2, OneMore
  <2>2. stored[s] \subseteq stored'[s]
    BY <1>2
  <2> QED BY <2>1, <2>2, FS_Subset
<1>3. CASE NothingNew(s)
  BY <1>1, <1>3 DEF NothingNew, Books, InFlight
<1>4. CASE OneAnswered(s)
  <2>1. PICK e \in Events : stored'[s] \in {stored[s], stored[s] \cup {e}}
    BY <1>4 DEF OneAnswered
  <2>2. PICK c \in Calls : c \notin Answered(s) /\ Answered(s)' = Answered(s) \cup {c}
    BY <1>4 DEF OneAnswered
  <2>3. IsFiniteSet(Answered(s)') /\ Cardinality(Answered(s)') = n + 1
    BY <2>2, FS_AddElement
  <2>4. Ingress(s, 0..MaxDay)' = i /\ missed'[s] = m
    BY <1>4 DEF OneAnswered
  <2>5. Books(s)'
    <3>1. Cardinality(stored'[s]) \in Nat /\ Cardinality(stored'[s]) <= k + 1
      BY <1>2, <2>1
    <3> HIDE DEF k, i, n, m
    <3>2. Cardinality(stored'[s]) <= i + (n + 1) + m
      BY <1>1, <3>1
    <3> QED BY <2>3, <2>4, <3>2 DEF Books, InFlight
  <2> QED BY <1>1, <1>2, <2>1, <2>3, <2>4, <2>5
<1>5. CASE OneSettled(s)
  <2>1. PICK c \in Calls : c \in Answered(s) /\ Answered(s)' = Answered(s) \ {c}
    BY <1>5 DEF OneSettled
  <2>2. IsFiniteSet(Answered(s)') /\ Cardinality(Answered(s)') = n - 1
    BY <2>1, FS_RemoveElement
  <2>3. /\ stored'[s] = stored[s]
        /\ \/ Ingress(s, 0..MaxDay)' = i + 1 /\ missed'[s] = m
           \/ Ingress(s, 0..MaxDay)' = i /\ missed'[s] = m + 1
    BY <1>5 DEF OneSettled
  <2>4. Books(s)'
    <3> HIDE DEF i, n, m
    <3>1. Cardinality(stored'[s]) = k
      BY <2>3
    <3> HIDE DEF k
    <3>2. k <= (i + 1) + (n - 1) + m /\ k <= i + (n - 1) + (m + 1)
      BY <1>1
    <3> QED BY <2>2, <2>3, <3>1, <3>2 DEF Books, InFlight
  <2> QED BY <1>1, <2>2, <2>3, <2>4
<1>6. CASE OneGivenUp(s)
  <2>1. PICK e \in Events : stored'[s] \in {stored[s], stored[s] \cup {e}}
    BY <1>6 DEF OneGivenUp
  <2>2. Answered(s)' = Answered(s) /\ Ingress(s, 0..MaxDay)' = i /\ missed'[s] = m + 1
    BY <1>6 DEF OneGivenUp
  <2>3. Books(s)'
    <3>1. Cardinality(stored'[s]) \in Nat /\ Cardinality(stored'[s]) <= k + 1
      BY <1>2, <2>1
    <3>2. Cardinality(Answered(s)') = n
      BY <2>2
    <3> HIDE DEF k, i, n, m
    <3>3. Cardinality(stored'[s]) <= i + n + (m + 1)
      BY <1>1, <3>1
    <3> QED BY <2>2, <3>2, <3>3 DEF Books, InFlight
  <2> QED BY <1>1, <1>2, <2>1, <2>2, <2>3
<1>7. CASE AllGivenUp(s)
  <2>1. stored'[s] = stored[s] /\ Answered(s)' = {} /\ Ingress(s, 0..MaxDay)' = i /\ missed'[s] = m + n
    BY <1>7 DEF AllGivenUp, InFlight
  <2>2. IsFiniteSet(Answered(s)') /\ Cardinality(Answered(s)') = 0
    BY <2>1, FS_EmptySet
  <2>3. Books(s)'
    <3>1. Cardinality(stored'[s]) = k
      BY <2>1
    <3> HIDE DEF k, i, n, m
    <3>2. k <= i + 0 + (m + n)
      BY <1>1
    <3> QED BY <2>1, <2>2, <3>1, <3>2 DEF Books, InFlight
  <2> QED BY <1>1, <2>1, <2>2, <2>3
<1> QED BY <1>3, <1>4, <1>5, <1>6, <1>7 DEF Effect

(* The relay's set of one store, when it serves call c.                    *)
LEMMA StoredForm ==
  ASSUME CallsOK, NEW c \in Calls, call[c] \in Call, NEW s \in Stores,
         Written(c)
  PROVE  IF IsPush(c) /\ call[c].store = s
         THEN call[c].event \in Events /\ stored'[s] = stored[s] \cup {call[c].event}
         ELSE stored'[s] = stored[s]
<1>1. CASE IsPush(c)
  <2>1. call[c].store \in Stores /\ call[c].event \in Events
    BY <1>1 DEF Call, IsPush
  <2>2. stored' = [stored EXCEPT ![call[c].store] = @ \cup {call[c].event}]
    BY <1>1 DEF Written
  <2> QED BY <1>1, <2>1, <2>2 DEF CallsOK
<1>2. CASE ~IsPush(c)
  BY <1>2 DEF Written
<1> QED BY <1>1, <1>2

(* The bytes missed of one store, when n of call c's are.                  *)
LEMMA MissedForm ==
  ASSUME Tables, NEW c \in Calls, call[c] \in Call, Misses(call[c].store, Bytes(c))
  PROVE  /\ missed' \in [Stores -> Nat]
         /\ \A s \in Stores : missed'[s] =
              IF IsPush(c) /\ call[c].store = s THEN missed[s] + 1 ELSE missed[s]
<1>1. call[c].store \in Stores /\ Bytes(c) = IF IsPush(c) THEN 1 ELSE 0
  BY DEF Call, Bytes
<1>2. missed' = [missed EXCEPT ![call[c].store] = missed[call[c].store] + Bytes(c)]
  BY <1>1 DEF Misses, Tables
<1>3. CASE IsPush(c)
  BY <1>1, <1>2, <1>3 DEF Tables
<1>4. CASE ~IsPush(c)
  <2>1. \A s \in Stores : missed[s] + 0 = missed[s]
    BY DEF Tables
  <2> QED BY <1>1, <1>2, <1>4, <2>1 DEF Tables
<1> QED BY <1>3, <1>4

(* The steps of a call, and those that leave calls and the relay alone.    *)
CallStep(c) ==
  \/ \E s \in Stores, e \in Events \cup {None} : Begin(c, s, e)
  \/ BodyArrives(c) \/ BodyRefused(c)
  \/ RelayApplies(c) \/ RelayAnswers(c) \/ Meter(c)
  \/ RelayRefuses(c) \/ FetchFails(c) \/ AnswerCut(c) \/ MeterFails(c)
  \/ OrphanApplies(c) \/ OrphanLost(c)

TableStep ==
  \/ \E a \in Accounts, s \in Stores : CreateWorkspace(a, s) \/ GetOrCreatePersonalStore(a, s)
  \/ \E p, s \in Stores : GetOrCreateDerivedStore(p, s)
  \/ \E s \in Stores : DeleteWorkspace(s)
  \/ NextDay

PageStep ==
  \/ \E k \in {"overview", "billing"} : OpenPage(k)
  \/ \E s \in Stores : Stats(s)
  \/ StatsFail \/ GatherBilling \/ GatherOverview

LEMMA NextKinds == ASSUME Next PROVE (\E c \in Calls : CallStep(c)) \/ Crash \/ TableStep \/ PageStep
BY DEF Next, CallStep, TableStep, PageStep

LEMMA QuietSteps ==
  ASSUME TableStep \/ PageStep
  PROVE  UNCHANGED <<stored, usage, call, missed, begun>>
<1>1. CASE TableStep
  BY <1>1 DEF TableStep, CreateWorkspace, GetOrCreatePersonalStore, GetOrCreateDerivedStore,
       DeleteWorkspace, NextDay
<1>2. CASE PageStep
  BY <1>2 DEF PageStep, OpenPage, Stats, StatsFail, GatherBilling, GatherOverview
<1> QED BY <1>1, <1>2

(* Every step of the system has one of these effects on a store's books.   *)
LEMMA StepHasEffect ==
  ASSUME CallsOK, Tables, NEW s \in Stores, Next
  PROVE  Effect(s)
<1>1. ASSUME stored' = stored, Answered(s)' = Answered(s), usage' = usage, missed' = missed
      PROVE Effect(s)
  BY <1>1, IngressSame DEF Effect, NothingNew
<1>2. ASSUME stored' = stored, call' = call, usage' = usage, missed' = missed PROVE Effect(s)
  <2>1. Answered(s)' = Answered(s)
    BY <1>2 DEF Answered, At, IsPush
  <2> QED BY <1>1, <1>2, <2>1
<1>3. ASSUME NEW c \in Calls,
             \/ BodyArrives(c) \/ BodyRefused(c) \/ RelayAnswers(c) \/ OrphanLost(c)
             \/ FetchFails(c) /\ At(c, "sent")
             \/ \E z \in Stores, e \in Events \cup {None} : Begin(c, z, e)
      PROVE Effect(s)
  <2>1. Answered(s)' = Answered(s)
    BY <1>3, AnsweredStays
  <2>2. stored' = stored /\ usage' = usage
    BY <1>3 DEF BodyArrives, BodyRefused, RelayAnswers, OrphanLost, FetchFails, Begin
  <2>3. missed' = missed
    <3>1. ASSUME FetchFails(c), At(c, "sent") PROVE missed' = missed
      BY <3>1 DEF FetchFails, At
    <3> QED BY <1>3, <3>1 DEF BodyArrives, BodyRefused, RelayAnswers, OrphanLost, Begin
  <2> QED BY <1>1, <2>1, <2>2, <2>3
<1>4. ASSUME NEW c \in Calls, RelayApplies(c) \/ RelayRefuses(c) PROVE Effect(s)
  <2>1. /\ call[c] \in Call /\ c \notin Answered(s)
        /\ Answered(s)' = IF IsPush(c) /\ call[c].store = s THEN Answered(s) \cup {c} ELSE Answered(s)
    BY <1>4, AnsweredEnters
  <2>2. usage' = usage /\ missed' = missed /\ Ingress(s, 0..MaxDay)' = Ingress(s, 0..MaxDay)
    BY <1>4, IngressSame DEF RelayApplies, RelayRefuses
  <2>3. CASE IsPush(c) /\ call[c].store = s
    <3>1. call[c].event \in Events
      BY <2>1, <2>3 DEF Call, IsPush
    <3>2. stored'[s] \in {stored[s], stored[s] \cup {call[c].event}}
      <4>1. CASE RelayApplies(c)
        BY <2>1, <2>3, <4>1, StoredForm DEF RelayApplies
      <4>2. CASE RelayRefuses(c)
        BY <2>1, <2>3, <4>2, StoredForm DEF RelayRefuses
      <4> QED BY <1>4, <4>1, <4>2
    <3> QED BY <2>1, <2>2, <2>3, <3>1, <3>2 DEF Effect, OneAnswered
  <2>4. CASE ~(IsPush(c) /\ call[c].store = s)
    <3>1. stored'[s] = stored[s]
      <4>1. CASE RelayApplies(c)
        BY <2>1, <2>4, <4>1, StoredForm DEF RelayApplies
      <4>2. CASE RelayRefuses(c)
        BY <2>1, <2>4, <4>2, StoredForm DEF RelayRefuses
      <4> QED BY <1>4, <4>1, <4>2
    <3> QED BY <2>1, <2>2, <2>4, <3>1 DEF Effect, NothingNew
  <2> QED BY <2>3, <2>4
<1>5. ASSUME NEW c \in Calls,
             Meter(c) \/ MeterFails(c) \/ AnswerCut(c) \/ (FetchFails(c) /\ ~At(c, "sent"))
      PROVE Effect(s)
  <2>1. /\ call[c] \in Call /\ Answered(s)' = Answered(s) \ {c}
        /\ c \in Answered(s) <=> IsPush(c) /\ call[c].store = s
    BY <1>5, AnsweredLeaves
  <2>2. stored' = stored
    BY <1>5 DEF Meter, MeterFails, AnswerCut, FetchFails
  <2>3. \/ /\ missed' = missed
           /\ Ingress(s, 0..MaxDay)' = IF IsPush(c) /\ call[c].store = s
                THEN Ingress(s, 0..MaxDay) + 1 ELSE Ingress(s, 0..MaxDay)
        \/ /\ missed'[s] = IF IsPush(c) /\ call[c].store = s THEN missed[s] + 1 ELSE missed[s]
           /\ Ingress(s, 0..MaxDay)' = Ingress(s, 0..MaxDay)
    <3>1. CASE Meter(c)
      BY <2>1, <3>1, MeteredOnce DEF Meter
    <3>2. CASE ~Meter(c)
      <4>1. usage' = usage /\ Misses(call[c].store, Bytes(c))
        BY <1>5, <3>2 DEF MeterFails, AnswerCut, FetchFails
      <4> QED BY <2>1, <4>1, IngressSame, MissedForm
    <3> QED BY <3>1, <3>2
  <2>4. CASE IsPush(c) /\ call[c].store = s
    BY <2>1, <2>2, <2>3, <2>4 DEF Effect, OneSettled
  <2>5. CASE ~(IsPush(c) /\ call[c].store = s)
    BY <2>1, <2>2, <2>3, <2>5 DEF Effect, NothingNew
  <2> QED BY <2>4, <2>5
<1>6. ASSUME NEW c \in Calls, OrphanApplies(c) PROVE Effect(s)
  <2>1. call[c] \in Call
    BY <1>6, AtSome DEF OrphanApplies
  <2>2. Answered(s)' = Answered(s) /\ Ingress(s, 0..MaxDay)' = Ingress(s, 0..MaxDay)
    BY <1>6, AnsweredStays, IngressSame DEF OrphanApplies
  <2>3. IF IsPush(c) /\ call[c].store = s
        THEN call[c].event \in Events /\ stored'[s] = stored[s] \cup {call[c].event}
        ELSE stored'[s] = stored[s]
    BY <1>6, <2>1, StoredForm DEF OrphanApplies
  <2>4. missed'[s] = IF IsPush(c) /\ call[c].store = s THEN missed[s] + 1 ELSE missed[s]
    BY <1>6, <2>1, MissedForm DEF OrphanApplies
  <2>5. CASE IsPush(c) /\ call[c].store = s
    BY <2>2, <2>3, <2>4, <2>5 DEF Effect, OneGivenUp
  <2>6. CASE ~(IsPush(c) /\ call[c].store = s)
    BY <2>2, <2>3, <2>4, <2>6 DEF Effect, NothingNew
  <2> QED BY <2>5, <2>6
<1>7. ASSUME Crash PROVE Effect(s)
  <2>1. /\ stored' = stored /\ usage' = usage
        /\ missed' = [z \in Stores |-> missed[z] + InFlight(z)]
        /\ call' = [c \in Calls |->
             IF At(c, "sent") \/ At(c, "orphan") THEN [call[c] EXCEPT !.phase = "orphan"] ELSE None]
    BY <1>7 DEF Crash
  <2>2. ASSUME NEW c \in Calls PROVE c \notin Answered(s)'
    <3>1. CASE At(c, "sent") \/ At(c, "orphan")
      <4>1. call[c] \in Call
        BY <3>1, AtSome
      <4>2. call'[c].phase = "orphan"
        BY <2>1, <3>1, <4>1 DEF Call
      <4> QED BY <4>2 DEF Answered, At
    <3>2. CASE ~(At(c, "sent") \/ At(c, "orphan"))
      <4>1. call'[c] = None
        BY <2>1, <3>2
      <4> QED BY <4>1 DEF Answered, At
    <3> QED BY <3>1, <3>2
  <2>3. Answered(s)' = {}
    <3>1. Answered(s)' \subseteq Calls
      BY DEF Answered
    <3> QED BY <2>2, <3>1
  <2>4. missed'[s] = missed[s] + InFlight(s)
    BY <2>1
  <2> QED BY <2>1, <2>3, <2>4, IngressSame DEF Effect, AllGivenUp
<1>8. CASE TableStep \/ PageStep
  BY <1>2, <1>8, QuietSteps
<1>9. ASSUME NEW c \in Calls, CallStep(c) PROVE Effect(s)
  BY <1>3, <1>4, <1>5, <1>6, <1>9 DEF CallStep
<1> QED BY <1>7, <1>8, <1>9, NextKinds

-----------------------------------------------------------------------------
(* The invariant behind the figures: types, finite sets, and the books of  *)
(* every store.                                                            *)
Ledger == CallsOK /\ Tables /\ Finite /\ \A s \in Stores : Books(s)

(* The tables keep their types; missed is typed with the books.            *)
LEMMA TablesStay ==
  ASSUME CallsOK, Tables, missed' \in [Stores -> Nat], Next
  PROVE  Tables'
<1>1. ASSUME NEW c \in Calls, CallStep(c) PROVE Tables'
  <2>1. row' = row /\ day' = day
    BY <1>1 DEF CallStep, Begin, BodyArrives, BodyRefused, RelayApplies, RelayAnswers, Meter,
         RelayRefuses, FetchFails, AnswerCut, MeterFails, OrphanApplies, OrphanLost
  <2>2. begun' \in 0..MaxCalls
    <3>1. begun' = begun \/ (begun < MaxCalls /\ begun' = begun + 1)
      BY <1>1 DEF CallStep, Begin, BodyArrives, BodyRefused, RelayApplies, RelayAnswers, Meter,
           RelayRefuses, FetchFails, AnswerCut, MeterFails, OrphanApplies, OrphanLost
    <3> QED BY <3>1, MeteringAssumption DEF Tables
  <2>3. faults' \in 0..MaxFaults
    <3>1. faults' = faults \/ Fault
      BY <1>1 DEF CallStep, Begin, BodyArrives, BodyRefused, RelayApplies, RelayAnswers, Meter,
           RelayRefuses, FetchFails, AnswerCut, MeterFails, OrphanApplies, OrphanLost
    <3> QED BY <3>1, MeteringAssumption DEF Tables, Fault
  <2>4. usage' \in [0..MaxDay -> [Stores -> [requests : Nat, in : Nat]]]
    <3>1. CASE Meter(c)
      <4>1. call[c] \in Call /\ RecordUsage(c)
        BY <3>1, AtSome DEF Meter
      <4> QED BY <4>1, MeteredOnce
    <3>2. CASE ~Meter(c)
      <4>1. usage' = usage
        BY <1>1, <3>2 DEF CallStep, Begin, BodyArrives, BodyRefused, RelayApplies, RelayAnswers,
             RelayRefuses, FetchFails, AnswerCut, MeterFails, OrphanApplies, OrphanLost
      <4> QED BY <4>1 DEF Tables
    <3> QED BY <3>1, <3>2
  <2> QED BY <2>1, <2>2, <2>3, <2>4 DEF Tables
<1>2. CASE Crash
  BY <1>2, MeteringAssumption DEF Crash, Fault, Tables
<1>3. CASE TableStep
  <2>1. UNCHANGED <<usage, begun>> /\ faults' = faults
    BY <1>3, QuietSteps DEF TableStep, CreateWorkspace, GetOrCreatePersonalStore,
         GetOrCreateDerivedStore, DeleteWorkspace, NextDay
  <2>2. day' \in 0..MaxDay
    <3>1. day' = day \/ (day < MaxDay /\ day' = day + 1)
      BY <1>3 DEF TableStep, CreateWorkspace, GetOrCreatePersonalStore,
           GetOrCreateDerivedStore, DeleteWorkspace, NextDay
    <3> QED BY <3>1, MeteringAssumption DEF Tables
  <2>3. row' \in [Stores -> Row]
    <3>1. \A s \in Stores : NoRow("deleted") \in Row /\ row[s] \in Row
      BY DEF Row, NoRow, Tables
    <3>2. ASSUME NEW a \in Accounts, NEW p \in Stores
          PROVE  /\ [kind |-> "workspace", by |-> a, parent |-> None] \in Row
                 /\ [kind |-> "personal", by |-> a, parent |-> None] \in Row
      BY DEF Row
    <3>3. ASSUME NEW p \in Stores PROVE [kind |-> "sidecar", by |-> None, parent |-> p] \in Row
      BY DEF Row
    <3>4. ASSUME NEW a \in Accounts, NEW s \in Stores,
                 CreateWorkspace(a, s) \/ GetOrCreatePersonalStore(a, s)
          PROVE row' \in [Stores -> Row]
      BY <3>2, <3>4 DEF CreateWorkspace, GetOrCreatePersonalStore, Tables
    <3>5. ASSUME NEW p \in Stores, NEW s \in Stores, GetOrCreateDerivedStore(p, s)
          PROVE row' \in [Stores -> Row]
      BY <3>3, <3>5 DEF GetOrCreateDerivedStore, Tables
    <3>6. ASSUME NEW w \in Stores, DeleteWorkspace(w) PROVE row' \in [Stores -> Row]
      BY <3>1, <3>6 DEF DeleteWorkspace
    <3>7. CASE NextDay
      BY <3>7 DEF NextDay, Tables
    <3> QED BY <1>3, <3>4, <3>5, <3>6, <3>7 DEF TableStep
  <2> QED BY <2>1, <2>2, <2>3 DEF Tables
<1>4. CASE PageStep
  <2>1. UNCHANGED <<row, usage, day, begun>> /\ (faults' = faults \/ Fault)
    BY <1>4 DEF PageStep, OpenPage, Stats, StatsFail, GatherBilling, GatherOverview
  <2>2. faults' \in 0..MaxFaults
    BY <2>1, MeteringAssumption DEF Tables, Fault
  <2> QED BY <2>1, <2>2 DEF Tables
<1> QED BY <1>1, <1>2, <1>3, <1>4, NextKinds

LEMMA LedgerInit == Init => Ledger
<1> SUFFICES ASSUME Init PROVE Ledger
  OBVIOUS
<1>1. CallsOK
  BY DEF Init, CallsOK
<1>2. Tables
  BY MeteringAssumption DEF Init, Tables, Row, NoRow
<1>3. ASSUME NEW s \in Stores
      PROVE stored[s] = {} /\ Answered(s) = {} /\ Ingress(s, 0..MaxDay) \in Nat /\ missed[s] = 0
  BY <1>2, IngressNat DEF Init, Answered, At
<1>4. IsFiniteSet({}) /\ Cardinality({}) = 0
  BY FS_EmptySet
<1>5. ASSUME NEW s \in Stores PROVE Books(s)
  <2> DEFINE i == Ingress(s, 0..MaxDay)
  <2>1. i \in Nat
    BY <1>3
  <2> HIDE DEF i
  <2>2. 0 <= i + 0 + 0
    BY <2>1
  <2> QED BY <1>3, <1>4, <2>2 DEF Books, InFlight, i
<1> QED BY <1>1, <1>2, <1>3, <1>4, <1>5 DEF Ledger, Finite

(* Every step keeps the ledger, and the relay's sets only grow.            *)
LEMMA LedgerStep ==
  ASSUME Ledger, [Next]_vars
  PROVE  /\ Ledger'
         /\ \A s \in Stores : /\ Cardinality(stored[s]) \in Nat /\ Cardinality(stored'[s]) \in Nat
                              /\ Cardinality(stored[s]) <= Cardinality(stored'[s])
<1>0. CallsOK /\ Tables /\ CallsOK'
  BY Inductive DEF Ledger
<1>1. CASE Next
  <2>1. ASSUME NEW s \in Stores
        PROVE  /\ IsFiniteSet(stored'[s]) /\ IsFiniteSet(Answered(s)') /\ missed'[s] \in Nat
               /\ Cardinality(stored[s]) <= Cardinality(stored'[s])
               /\ Books(s)'
    <3>1. IsFiniteSet(stored[s]) /\ IsFiniteSet(Answered(s)) /\ Books(s) /\ Effect(s)
      BY <1>0, <1>1, StepHasEffect DEF Ledger, Finite
    <3> QED BY <1>0, <3>1, EffectKeepsBooks
  <2>2. missed' \in [Stores -> Nat]
    <3>1. ASSUME NEW c \in Calls, CallStep(c)
          PROVE missed' = missed \/ (call[c] \in Call /\ Misses(call[c].store, Bytes(c)))
      BY <1>0, <3>1, AtSome DEF CallStep, Begin, BodyArrives, BodyRefused, RelayApplies, RelayAnswers,
         Meter, RelayRefuses, FetchFails, AnswerCut, MeterFails, OrphanApplies, OrphanLost
    <3>2. \E f : missed' = [s \in Stores |-> f[s]]
      <4>1. missed = [s \in Stores |-> missed[s]]
        BY <1>0 DEF Tables
      <4>2. CASE missed' = missed
        BY <4>1, <4>2
      <4>3. CASE Crash
        <5>1. missed' = [s \in Stores |-> [z \in Stores |-> missed[z] + InFlight(z)][s]]
          BY <4>3 DEF Crash
        <5> QED BY <5>1
      <4>4. ASSUME NEW c \in Calls, call[c] \in Call, Misses(call[c].store, Bytes(c))
            PROVE \E f : missed' = [s \in Stores |-> f[s]]
        <5>1. missed' \in [Stores -> Nat]
          BY <1>0, <4>4, MissedForm
        <5> QED BY <5>1
      <4> QED BY <1>1, <3>1, <4>2, <4>3, <4>4, NextKinds, QuietSteps
    <3> QED BY <2>1, <3>2
  <2>3. Tables'
    BY <1>0, <1>1, <2>2, TablesStay
  <2>4. \A s \in Stores : Cardinality(stored[s]) \in Nat /\ Cardinality(stored'[s]) \in Nat
    BY <2>1, FS_CardinalityType DEF Ledger, Finite
  <2>5. Finite'
    BY <2>1 DEF Finite
  <2> QED BY <1>0, <2>1, <2>3, <2>4, <2>5 DEF Ledger
<1>2. CASE UNCHANGED vars
  <2>1. UNCHANGED <<row, stored, usage, call, page, day, missed, begun, faults>>
    BY <1>2 DEF vars
  <2>2. Tables'
    BY <1>0, <2>1 DEF Tables
  <2>3. \A s \in Stores : Answered(s)' = Answered(s) /\ Ingress(s, 0..MaxDay)' = Ingress(s, 0..MaxDay)
    BY <2>1, IngressSame DEF Answered, At, IsPush
  <2>4. Finite' /\ \A s \in Stores : Books(s)'
    BY <2>1, <2>3 DEF Ledger, Finite, Books, InFlight
  <2>5. \A s \in Stores : Cardinality(stored[s]) \in Nat
    BY FS_CardinalityType DEF Ledger, Finite
  <2> QED BY <1>0, <2>1, <2>2, <2>4, <2>5 DEF Ledger
<1> QED BY <1>1, <1>2

(* Whatever the relay holds of a store was paid for, or a fault on the way *)
(* is why not, for any number of pushes, stores and faults (usage.ts:26,   *)
(* proxy.ts:78-90).                                                        *)
THEOREM MeteredCorrect == Spec => []StoredIsMetered
<1>1. Ledger /\ [Next]_vars => Ledger'
  BY LedgerStep
<1>2. Ledger => StoredIsMetered
  BY DEF Ledger, Books, StoredIsMetered
<1> QED BY LedgerInit, <1>1, <1>2, PTL DEF Spec

-----------------------------------------------------------------------------
(* What came in of a store splits at the first day of a window.            *)
Before(now) == { d \in 0..MaxDay : d < now - Days }

LEMMA IngressSplit ==
  ASSUME Tables, NEW s \in Stores, NEW now \in Nat
  PROVE  /\ Ingress(s, Since(now)) \in Nat /\ Ingress(s, Before(now)) \in Nat
         /\ Ingress(s, 0..MaxDay) = Ingress(s, Since(now)) + Ingress(s, Before(now))
<1> DEFINE f == [d \in 0..MaxDay |-> usage[d][s].in]
           A == Since(now)
           B == Before(now)
<1>1. A \in SUBSET (0..MaxDay) /\ B \in SUBSET (0..MaxDay) /\ A \cap B = {} /\ A \cup B = 0..MaxDay
  BY MeteringAssumption DEF Since, Before
<1>2. \A d \in 0..MaxDay : f[d] \in Nat
  BY IngressNat
<1>3. Ingress(s, A) = Total(f, A) /\ Ingress(s, B) = Total(f, B)
        /\ Ingress(s, 0..MaxDay) = Total(f, 0..MaxDay)
  BY DEF Ingress
<1> HIDE DEF A, B, f
<1>4. IsFiniteSet(A) /\ IsFiniteSet(B) /\ Ingress(s, A) \in Nat /\ Ingress(s, B) \in Nat
  BY <1>1, IngressNat
<1>5. Total(f, A \cup B) = Total(f, A) + Total(f, B)
  BY <1>1, <1>2, <1>4, TotalApart
<1> QED BY <1>1, <1>3, <1>4, <1>5 DEF A, B

(* Sums of terms each of which is covered by two others.                   *)
LEMMA TotalCovered ==
  ASSUME NEW S, IsFiniteSet(S), NEW f, NEW g, NEW h,
         \A x \in S : f[x] \in Nat /\ g[x] \in Nat /\ h[x] \in Nat /\ f[x] <= g[x] + h[x]
  PROVE  /\ Total(f, S) \in Nat /\ Total(g, S) \in Nat /\ Total(h, S) \in Nat
         /\ Total(f, S) <= Total(g, S) + Total(h, S)
<1> DEFINE k == [x \in S |-> g[x] + h[x]]
<1>1. \A x \in S : k[x] \in Nat /\ k[x] = g[x] + h[x] /\ f[x] <= k[x]
  OBVIOUS
<1> HIDE DEF k
<1>2. Total(f, S) <= Total(k, S)
  BY <1>1, TotalMonotone
<1>3. Total(k, S) = Total(g, S) + Total(h, S)
  BY <1>1, TotalPlus
<1>4. Total(f, S) \in Nat /\ Total(g, S) \in Nat /\ Total(h, S) \in Nat
  BY TotalNat
<1> QED BY <1>2, <1>3, <1>4

(* While a page is gathered it claims no more of a store than is there.    *)
Modest == Gathering => \A s \in Stores : page.sizes[s] <= Cardinality(stored[s])

PageOK == page \in Page \cup {None} /\ Modest /\ PageCovers

(* For each store, what the relay said is covered by the page's window and *)
(* by what is late.                                                        *)
LEMMA StoreCovered ==
  ASSUME Ledger, page \in Page, Gathering, Modest, NEW s \in Stores
  PROVE  /\ page.sizes[s] \in Nat /\ Ingress(s, Since(page.now)) \in Nat /\ Late(s) \in Nat
         /\ page.sizes[s] <= Ingress(s, Since(page.now)) + Late(s)
<1> DEFINE now == page.now
           k == page.sizes[s]
           c == Cardinality(stored[s])
           i == Ingress(s, Since(now))
           b == Ingress(s, Before(now))
           n == InFlight(s)
           m == missed[s]
<1>1. now \in Nat /\ k \in Nat /\ k <= c
  BY DEF Page, Modest
<1>2. c \in Nat /\ n \in Nat /\ m \in Nat
  BY FS_CardinalityType DEF Ledger, Finite, Tables, InFlight
<1>3. i \in Nat /\ b \in Nat /\ Ingress(s, 0..MaxDay) = i + b
  BY <1>1, IngressSplit DEF Ledger
<1>4. c <= (i + b) + n + m
  BY <1>3 DEF Ledger, Books
<1>5. Late(s) = m + n + b
  BY DEF Late, Before
<1> HIDE DEF now, k, c, i, b, n, m
<1>6. k <= i + (m + n + b) /\ m + n + b \in Nat
  BY <1>1, <1>2, <1>3, <1>4
<1> QED BY <1>1, <1>3, <1>5, <1>6 DEF k, i, now

(* The figures of a page are numbers, and cover what it says is stored.    *)
LEMMA ShownOK ==
  ASSUME Ledger, page \in Page, Gathering, Modest,
         NEW under \in [Accounts \cup {None} -> SUBSET Stores], Shown(under)
  PROVE  PageOK'
<1> DEFINE A == Accounts \cup {None}
           f == page.sizes
           g == [s \in Stores |-> Ingress(s, Since(page.now))]
           h == [s \in Stores |-> Late(s)]
           sf == [a \in A |-> Total(f, under[a])]
           sg == [a \in A |-> Total(g, under[a])]
           sh == [a \in A |-> Total(h, under[a])]
           q == [page EXCEPT !.shown = TRUE, !.now = 0, !.sizes = NoSizes,
                   !.stored = sf, !.ingress = sg, !.late = sh]
<1>1. ASSUME NEW a \in A
      PROVE  /\ Total(f, under[a]) \in Nat /\ Total(g, under[a]) \in Nat /\ Total(h, under[a]) \in Nat
             /\ Total(f, under[a]) <= Total(g, under[a]) + Total(h, under[a])
  <2>1. IsFiniteSet(under[a]) /\ under[a] \subseteq Stores
    BY StoresFinite, FS_Subset
  <2>2. \A s \in under[a] : f[s] \in Nat /\ g[s] \in Nat /\ h[s] \in Nat /\ f[s] <= g[s] + h[s]
    BY <2>1, StoreCovered
  <2> HIDE DEF f, g, h
  <2> QED BY <2>1, <2>2, TotalCovered
<1>2. page' = q
  BY DEF Shown
<1> HIDE DEF f, g, h
<1>3. /\ sf \in [A -> Nat] /\ sg \in [A -> Nat] /\ sh \in [A -> Nat]
      /\ \A a \in A : sf[a] <= sg[a] + sh[a]
  BY <1>1
<1> HIDE DEF sf, sg, sh
<1>4. q \in Page /\ q.shown /\ q.stored = sf /\ q.ingress = sg /\ q.late = sh
  BY <1>3 DEF Page, NoSizes
<1> HIDE DEF q
<1>5. page' \in Page /\ page'.shown /\ page'.stored = sf /\ page'.ingress = sg /\ page'.late = sh
  BY <1>2, <1>4
<1> QED BY <1>3, <1>5 DEF PageOK, Modest, Gathering, PageCovers

LEMMA OpenOK == ASSUME Ledger', NEW k \in {"overview", "billing"}, OpenPage(k) PROVE PageOK'
<1> DEFINE q == [kind |-> k, now |-> day, left |-> Stores, sizes |-> NoSizes,
                 shown |-> FALSE, reachable |-> TRUE,
                 stored |-> Nobody, ingress |-> Nobody, late |-> Nobody]
<1>1. page' = q /\ day' = day
  BY DEF OpenPage
<1>2. day \in Nat
  BY <1>1, MeteringAssumption DEF Ledger, Tables
<1>3. NoSizes \in [Stores -> Nat] /\ Nobody \in [Accounts \cup {None} -> Nat]
  BY DEF NoSizes, Nobody
<1>4. q \in Page /\ ~q.shown /\ q.sizes = NoSizes
  BY <1>2, <1>3 DEF Page
<1> HIDE DEF q
<1>5. \A s \in Stores : NoSizes[s] <= Cardinality(stored'[s])
  <2>1. \A s \in Stores : Cardinality(stored'[s]) \in Nat /\ NoSizes[s] = 0
    BY FS_CardinalityType DEF Ledger, Finite, NoSizes
  <2> QED BY <2>1
<1> QED BY <1>1, <1>4, <1>5 DEF PageOK, Modest, Gathering, PageCovers

LEMMA StatsOK ==
  ASSUME Ledger, PageOK, NEW s \in Stores, Stats(s)
  PROVE  PageOK'
<1>1. page \in Page /\ ~page.shown
  BY DEF PageOK, Stats, Gathering
<1>2. Cardinality(stored[s]) \in Nat /\ stored' = stored
  BY FS_CardinalityType DEF Ledger, Finite, Stats
<1> DEFINE z == [page.sizes EXCEPT ![s] = Cardinality(stored[s])]
           l == page.left \ {s}
           q == [page EXCEPT !.left = l, !.sizes = z]
<1>3. page' = q
  BY <1>1 DEF Stats, Page
<1>4. z \in [Stores -> Nat] /\ l \in SUBSET Stores
  BY <1>1, <1>2 DEF Page
<1>5. \A t \in Stores : z[t] <= Cardinality(stored'[t])
  <2>1. \A t \in Stores : page.sizes[t] <= Cardinality(stored[t])
    BY DEF PageOK, Modest, Stats
  <2>2. page.sizes \in [Stores -> Nat]
    BY <1>1 DEF Page
  <2> QED BY <1>2, <2>1, <2>2
<1> HIDE DEF z, l
<1>6. q \in Page /\ ~q.shown /\ q.sizes = z
  BY <1>1, <1>4 DEF Page
<1> HIDE DEF q
<1> QED BY <1>3, <1>5, <1>6 DEF PageOK, Modest, Gathering, PageCovers

LEMMA StatsFailOK == ASSUME Ledger', PageOK, StatsFail PROVE PageOK'
<1> DEFINE q == [page EXCEPT !.left = {}, !.sizes = NoSizes, !.reachable = FALSE]
<1>1. page \in Page /\ ~page.shown
  BY DEF PageOK, StatsFail, Gathering
<1>2. NoSizes \in [Stores -> Nat] /\ \A s \in Stores : NoSizes[s] = 0
  BY DEF NoSizes
<1>3. page' = q
  BY DEF StatsFail
<1>4. q \in Page /\ ~q.shown /\ q.sizes = NoSizes
  BY <1>1, <1>2 DEF Page
<1> HIDE DEF q
<1>5. \A s \in Stores : NoSizes[s] <= Cardinality(stored'[s])
  <2>1. \A s \in Stores : Cardinality(stored'[s]) \in Nat
    BY FS_CardinalityType DEF Ledger, Finite
  <2> QED BY <1>2, <2>1
<1> QED BY <1>3, <1>4, <1>5 DEF PageOK, Modest, Gathering, PageCovers

(* Every step keeps a page that is gathered or shown.                      *)
LEMMA PageStays == ASSUME Ledger, PageOK, [Next]_vars PROVE PageOK'
<1>1. /\ Ledger'
      /\ \A s \in Stores : /\ Cardinality(stored[s]) \in Nat /\ Cardinality(stored'[s]) \in Nat
                           /\ Cardinality(stored[s]) <= Cardinality(stored'[s])
  BY LedgerStep
<1>2. ASSUME page' = page PROVE PageOK'
  <2>1. ASSUME Gathering PROVE \A s \in Stores : page.sizes[s] <= Cardinality(stored'[s])
    <3>1. page \in Page /\ \A s \in Stores : page.sizes[s] <= Cardinality(stored[s])
      BY <2>1 DEF PageOK, Modest, Gathering
    <3>2. \A s \in Stores : page.sizes[s] \in Nat
      BY <3>1 DEF Page
    <3> QED BY <1>1, <3>1, <3>2
  <2> QED BY <1>2, <2>1 DEF PageOK, Modest, Gathering, PageCovers
<1>3. ASSUME NEW c \in Calls, CallStep(c) PROVE PageOK'
  <2>1. page' = page
    BY <1>3 DEF CallStep, Begin, BodyArrives, BodyRefused, RelayApplies, RelayAnswers, Meter,
         RelayRefuses, FetchFails, AnswerCut, MeterFails, OrphanApplies, OrphanLost
  <2> QED BY <1>2, <2>1
<1>4. CASE Crash
  BY <1>4 DEF Crash, PageOK, Modest, Gathering, PageCovers
<1>5. CASE TableStep
  <2>1. page' = page
    BY <1>5 DEF TableStep, CreateWorkspace, GetOrCreatePersonalStore,
         GetOrCreateDerivedStore, DeleteWorkspace, NextDay
  <2> QED BY <1>2, <2>1
<1>6. CASE PageStep
  <2>1. ASSUME GatherBilling \/ GatherOverview PROVE PageOK'
    <3>1. page \in Page /\ Gathering /\ Modest
      BY <2>1 DEF PageOK, GatherBilling, GatherOverview, Gathering
    <3>2. CASE GatherBilling
      <4> DEFINE under == [a \in Accounts \cup {None} |-> IF a = None THEN {} ELSE BilledTo(a)]
      <4>1. under \in [Accounts \cup {None} -> SUBSET Stores]
        BY DEF BilledTo
      <4>2. Shown(under)
        BY <3>2 DEF GatherBilling
      <4> HIDE DEF under
      <4> QED BY <3>1, <4>1, <4>2, ShownOK
    <3>3. CASE GatherOverview
      <4> DEFINE under == [a \in Accounts \cup {None} |-> IF a = None THEN Stores ELSE {}]
      <4>1. under \in [Accounts \cup {None} -> SUBSET Stores]
        OBVIOUS
      <4>2. Shown(under)
        BY <3>3 DEF GatherOverview
      <4> HIDE DEF under
      <4> QED BY <3>1, <4>1, <4>2, ShownOK
    <3> QED BY <2>1, <3>2, <3>3
  <2> QED BY <1>1, <1>6, <2>1, OpenOK, StatsOK, StatsFailOK DEF PageStep
<1>7. CASE UNCHANGED vars
  BY <1>2, <1>7 DEF vars
<1> QED BY <1>3, <1>4, <1>5, <1>6, <1>7, NextKinds

LEMMA PageInit == Init => PageOK
BY DEF Init, PageOK, Modest, Gathering, PageCovers

(* No page, for any account or in total, shows more stored than it shows   *)
(* come in and late: the sizes are asked for before the traffic is read    *)
(* (overview.ts:109-119, 204-281).                                    *)
THEOREM PageCorrect == Spec => []PageCovers
<1>1. Init => Ledger /\ PageOK
  BY LedgerInit, PageInit
<1>2. Ledger /\ PageOK /\ [Next]_vars => (Ledger /\ PageOK)'
  BY LedgerStep, PageStays
<1>3. PageOK => PageCovers
  BY DEF PageOK
<1> QED BY <1>1, <1>2, <1>3, PTL DEF Spec

(* Each variable of the data plane and of the pages keeps its type.        *)
THEOREM TypeCorrect == Spec => []TypeOK
<1>1. Init => Ledger /\ PageOK
  BY LedgerInit, PageInit
<1>2. Ledger /\ PageOK /\ [Next]_vars => (Ledger /\ PageOK)'
  BY LedgerStep, PageStays
<1>3. Ledger /\ PageOK => TypeOK
  BY DEF Ledger, CallsOK, Tables, PageOK, TypeOK
<1> QED BY <1>1, <1>2, <1>3, PTL DEF Spec
=============================================================================
