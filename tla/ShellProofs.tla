----------------------------- MODULE ShellProofs -----------------------------
(***************************************************************************)
(* Theorems about Shell, for any number of workspaces, keys, entries of    *)
(* the history, requests, gestures and faults.                             *)
(***************************************************************************)
EXTENDS Shell, FiniteSetTheorems, WellFoundedInduction, TLAPS

(* A nonempty set of bounded numbers has a least and a greatest element.   *)
LEMMA Extremes ==
  ASSUME NEW n \in Nat, NEW S \in SUBSET (0..n), S # {}
  PROVE  /\ Min(S) \in S /\ \A x \in S : Min(S) <= x
         /\ Max(S) \in S /\ \A x \in S : Max(S) >= x
<1>1. IsFiniteSet(S)
  <2>1. IsFiniteSet(0..n)
    BY FS_Interval
  <2> QED BY <2>1, FS_Subset
<1>2. IsWellFoundedOn(StrictSubsetOrdering(S), SUBSET S)
  BY <1>1, FS_FiniteSubsetsOfFinite, FS_StrictSubsetOrderingWellFounded
<1>3. \E x \in S : \A y \in S : x <= y
  <2> DEFINE Lower(x) == { y \in S : y < x }
             Lowers == { Lower(x) : x \in S }
  <2>1. Lowers \subseteq SUBSET S /\ Lowers # {}
    OBVIOUS
  <2>2. PICK U \in Lowers : \A V \in Lowers : <<V, U>> \notin StrictSubsetOrdering(S)
    <3> HIDE DEF Lowers
    <3> QED BY <1>2, <2>1, WFMin
  <2>3. PICK x \in S : U = Lower(x)
    BY <2>2
  <2>4. ASSUME NEW y \in S, y < x PROVE FALSE
    <3>0. S \subseteq Int
      OBVIOUS
    <3>1. Lower(y) \subseteq Lower(x) /\ Lower(y) # Lower(x)
      <4>1. \A z \in S : z < y => z < x
        BY <2>4, <3>0
      <4>2. y \in Lower(x) /\ y \notin Lower(y)
        BY <2>4, <3>0
      <4> QED BY <4>1, <4>2
    <3>2. <<Lower(y), Lower(x)>> \in StrictSubsetOrdering(S)
      BY <3>1 DEF StrictSubsetOrdering
    <3> QED BY <2>2, <2>3, <3>2
  <2> QED BY <2>4
<1>4. \E x \in S : \A y \in S : x >= y
  <2> DEFINE Upper(x) == { y \in S : y > x }
             Uppers == { Upper(x) : x \in S }
  <2>1. Uppers \subseteq SUBSET S /\ Uppers # {}
    OBVIOUS
  <2>2. PICK U \in Uppers : \A V \in Uppers : <<V, U>> \notin StrictSubsetOrdering(S)
    <3> HIDE DEF Uppers
    <3> QED BY <1>2, <2>1, WFMin
  <2>3. PICK x \in S : U = Upper(x)
    BY <2>2
  <2>4. ASSUME NEW y \in S, y > x PROVE FALSE
    <3>0. S \subseteq Int
      OBVIOUS
    <3>1. Upper(y) \subseteq Upper(x) /\ Upper(y) # Upper(x)
      <4>1. \A z \in S : z > y => z > x
        BY <2>4, <3>0
      <4>2. y \in Upper(x) /\ y \notin Upper(y)
        BY <2>4, <3>0
      <4> QED BY <4>1, <4>2
    <3>2. <<Upper(y), Upper(x)>> \in StrictSubsetOrdering(S)
      BY <3>1 DEF StrictSubsetOrdering
    <3> QED BY <2>2, <2>3, <3>2
  <2> QED BY <2>4
<1>5. Min(S) \in S /\ \A x \in S : Min(S) <= x
  BY <1>3 DEF Min
<1>6. Max(S) \in S /\ \A x \in S : Max(S) >= x
  BY <1>4 DEF Max
<1> QED BY <1>5, <1>6

(* The fields of a request fit its operation: who sends it, what follows   *)
(* its answer, and what the answer may hold.                               *)
Fits(q) ==
  /\ q \in Request
  /\ q.op \in {"me", "list"} => q.by = None /\ q.then # "run"
  /\ q.op \in {"detail", "change", "leave", "mint", "copy"} => q.by \in Rosters
  /\ q.op \in Writes => q.then \in {"run", "gone"}
  /\ q.op = "copy" => q.then = "run"
  /\ q.then = "gone" => q.op \in Writes /\ q.stage = "sent"
  /\ q.op = "create" => q.by = "new"
  /\ q.op \in {"keys", "generate", "revoke"} => q.by = "account"
  /\ q.op # "list" => q.then # "land"
  /\ ~q.alive => q.by \in Rosters
  /\ q.stage = "sent" => ~q.old
  /\ q.stage = "ok" =>
       /\ q.op = "list" => q.val \subseteq Workspaces
       /\ q.op = "keys" => q.val \subseteq 1..MaxKeys
       /\ q.op = "create" => \E w \in Workspaces : q.val = {w}

NetOK(n) == n \in [Slots -> Request \cup {None}] /\ \A s \in Slots : n[s] # None => Fits(n[s])

PageOK(u) == u \in UI /\ u.pos \in DOMAIN u.hist

(* A request of a panel's operation that still holds its buttons.          *)
Running(q, p) == q # None /\ q.by = p /\ q.then = "run" /\ q.alive

(* Only the Share popover may have more than one, whichever of them ends.  *)
RunsMatch(b, n) ==
  \A p \in Panels :
    /\ b[p] => \E s \in Slots : Running(n[s], p)
    /\ p # "share" =>
         /\ \A s, t \in Slots : Running(n[s], p) /\ Running(n[t], p) => s = t
         /\ (\E s \in Slots : Running(n[s], p)) => b[p]

(* The list `op` is being asked for, or an answer on its way makes the     *)
(* browser ask.                                                            *)
Awaited(n, op, causes) ==
  \E s \in Slots : n[s] # None /\ \/ n[s].op = op /\ n[s].stage = "sent"
                                  \/ n[s].op \in causes /\ n[s].stage = "ok"

(* The newest list that was served is true or will be asked for again.     *)
Honest(n, op, causes, truth) ==
  \A s \in Slots :
    n[s] # None /\ n[s].op = op /\ n[s].stage = "ok" /\ ~n[s].old =>
      n[s].val = truth \/ Awaited(n, op, causes)

(* A list on display is true, excused, awaited, or replaced by a newer one *)
(* on its way.                                                             *)
UpToDate(show, op, causes, shown, truth, n, ex) ==
  \/ ex \cap {"failed", "others"} # {}
  \/ /\ Honest(n, op, causes, truth)
     /\ show => \/ op \in ex \/ shown = truth
                \/ Awaited(n, op, causes)
                \/ \E s \in Slots : n[s] # None /\ n[s].op = op /\ n[s].stage = "ok" /\ ~n[s].old

ListCauses == {"leave", "create"}
KeyCauses == {"generate", "revoke"}

ListOK(u, n, truth, ex) == UpToDate(u.me = "account", "list", ListCauses, u.list, truth, n, ex)
KeysOK(u, n, truth, ex) == UpToDate("account" \in u.open, "keys", KeyCauses, u.keys, truth, n, ex)

Ready(u, n, ws, live, ex) ==
  /\ PageOK(u) /\ NetOK(n) /\ RunsMatch(u.busy, n)
  /\ ListOK(u, n, ws, ex) /\ KeysOK(u, n, live, ex)

ServerOK ==
  /\ created \in 0..MaxWorkspaces /\ mine \subseteq 1..created
  /\ keys \in [live : SUBSET (1..MaxKeys), issued : 0..MaxKeys]
  /\ excused \subseteq {"failed", "others", "list", "keys"}
  /\ gestures \in 0..MaxGestures /\ faults \in 0..MaxFaults

ShellInv == ServerOK /\ Ready(ui, net, mine, keys.live, excused) /\ ~Astray(ui)

-----------------------------------------------------------------------------
(* The requests                                                            *)

LEMMA FreeSlot ==
  ASSUME NEW n, HasFree(n)
  PROVE  Free(n) \in Slots /\ n[Free(n)] = None
<1> DEFINE F == { s \in Slots : n[s] = None }
<1>1. F \in SUBSET (0..MaxSlots) /\ F # {} /\ MaxSlots \in Nat
  BY ShellAssumption DEF HasFree, Slots
<1>2. Min(F) \in F
  <2> HIDE DEF F
  <2> QED BY <1>1, Extremes
<1> QED BY <1>2 DEF Free

LEMMA SlotTaken ==
  ASSUME NEW n, NetOK(n), NEW s \in Slots, NEW q, q = None \/ Fits(q)
  PROVE  NetOK([n EXCEPT ![s] = q])
BY DEF NetOK, Fits

(* A slot whose content holds the same buttons as before.                  *)
LEMMA RunsKept ==
  ASSUME NEW b, NEW n, NetOK(n), RunsMatch(b, n), NEW s \in Slots, NEW q,
         \A p \in Panels : Running(q, p) <=> Running(n[s], p)
  PROVE  RunsMatch(b, [n EXCEPT ![s] = q])
<1> DEFINE m == [n EXCEPT ![s] = q]
<1>1. \A t \in Slots, p \in Panels : Running(m[t], p) <=> Running(n[t], p)
  BY DEF NetOK
<1> HIDE DEF m
<1>2. RunsMatch(b, m)
  BY <1>1 DEF RunsMatch
<1> QED BY <1>2 DEF m

(* What holds no buttons.                                                  *)
LEMMA NotRunning ==
  ASSUME NEW q, q = None \/ q.by = None \/ q.then # "run" \/ ~q.alive
  PROVE  \A r \in Panels : ~Running(q, r)
BY ShellAssumption DEF Running

(* A free panel starts an operation, or a role menu of the popover does.   *)
LEMMA RunsStart ==
  ASSUME NEW b \in [Panels -> BOOLEAN], NEW n, NetOK(n), RunsMatch(b, n),
         NEW s \in Slots, n[s] = None, NEW p \in Panels, p # "share" => ~b[p],
         NEW q, Fits(q), q # None, q.by = p, q.then = "run", q.alive
  PROVE  RunsMatch([b EXCEPT ![p] = TRUE], [n EXCEPT ![s] = q])
<1> DEFINE m == [n EXCEPT ![s] = q]
           c == [b EXCEPT ![p] = TRUE]
<1>1. \A t \in Slots : m[t] = IF t = s THEN q ELSE n[t]
  BY DEF NetOK
<1>2. \A r \in Panels : c[r] = IF r = p THEN TRUE ELSE b[r]
  OBVIOUS
<1>3. \A r \in Panels : Running(q, r) <=> r = p
  BY DEF Running
<1>4. \A r \in Panels : ~Running(n[s], r)
  BY DEF Running
<1> HIDE DEF m, c
<1>5. \A t \in Slots, r \in Panels :
        Running(m[t], r) <=> IF t = s THEN r = p ELSE Running(n[t], r)
  BY <1>1, <1>3
<1>6. p # "share" => \A t \in Slots : ~Running(n[t], p)
  BY DEF RunsMatch
<1>7. RunsMatch(c, m)
  BY ONLY <1>2, <1>4, <1>5, <1>6, RunsMatch(b, n), s \in Slots, p \in Panels DEF RunsMatch
<1> QED BY <1>7 DEF m, c

(* An operation ends: the panel whose component is still there is free.    *)
LEMMA RunsEnd ==
  ASSUME NEW b \in [Panels -> BOOLEAN], NEW n, NetOK(n), RunsMatch(b, n),
         NEW s \in Slots, n[s] # None, n[s].then = "run", n[s].by \in Panels,
         NEW q, \A r \in Panels : ~Running(q, r),
         NEW c, c = IF n[s].alive THEN [b EXCEPT ![n[s].by] = FALSE] ELSE b
  PROVE  RunsMatch(c, [n EXCEPT ![s] = q])
<1> DEFINE m == [n EXCEPT ![s] = q]
           p == n[s].by
<1>1. \A t \in Slots : m[t] = IF t = s THEN q ELSE n[t]
  BY DEF NetOK
<1>2. CASE n[s].alive
  <2>1. \A r \in Panels : c[r] = IF r = p THEN FALSE ELSE b[r]
    BY <1>2
  <2>2. \A r \in Panels : Running(n[s], r) <=> r = p
    BY <1>2 DEF Running
  <2> HIDE DEF m, p
  <2>3. \A t \in Slots, r \in Panels :
          Running(m[t], r) <=> IF t = s THEN FALSE ELSE Running(n[t], r)
    BY <1>1
  <2>4. p \in Panels
    BY DEF p
  <2>5. RunsMatch(c, m)
    BY ONLY <2>1, <2>2, <2>3, <2>4, RunsMatch(b, n), s \in Slots DEF RunsMatch
  <2> QED BY <1>2, <2>5 DEF m, p
<1>3. CASE ~n[s].alive
  <2>1. \A r \in Panels : ~Running(n[s], r)
    BY <1>3 DEF Running
  <2>2. \A t \in Slots, r \in Panels : Running(m[t], r) <=> Running(n[t], r)
    BY <1>1, <2>1
  <2> HIDE DEF m, p
  <2>3. RunsMatch(b, m)
    BY <2>2 DEF RunsMatch
  <2>4. c = b
    BY <1>3
  <2> QED BY <2>3, <2>4 DEF m
<1> QED BY <1>2, <1>3

(* What is awaited is still to come, whatever another slot takes.          *)
LEMMA AwaitedKept ==
  ASSUME NEW n, NetOK(n), NEW op, NEW causes, NEW s \in Slots, NEW q,
         ~(n[s] # None /\ n[s].op = op /\ n[s].stage = "sent"),
         ~(n[s] # None /\ n[s].op \in causes /\ n[s].stage = "ok"),
         Awaited(n, op, causes)
  PROVE  Awaited([n EXCEPT ![s] = q], op, causes)
BY DEF Awaited, NetOK

LEMMA AwaitedNow ==
  ASSUME NEW n, NetOK(n), NEW op, NEW causes, NEW s \in Slots, NEW q, q # None,
         \/ q.op = op /\ q.stage = "sent"
         \/ q.op \in causes /\ q.stage = "ok"
  PROVE  Awaited([n EXCEPT ![s] = q], op, causes)
BY DEF Awaited, NetOK

LEMMA AwaitedIsEnough ==
  ASSUME NEW show, NEW n, NEW op, NEW causes, NEW shown, NEW truth, NEW ex,
         Awaited(n, op, causes)
  PROVE  UpToDate(show, op, causes, shown, truth, n, ex)
BY DEF UpToDate, Honest

(* A slot that neither held nor takes what the list depends on.            *)
LEMMA OtherSlot ==
  ASSUME NEW show, NEW n, NetOK(n), NEW op, NEW causes, NEW shown, NEW truth, NEW ex,
         UpToDate(show, op, causes, shown, truth, n, ex),
         NEW s \in Slots, NEW q,
         ~(n[s] # None /\ n[s].op = op /\ n[s].stage \in {"sent", "ok"}),
         ~(n[s] # None /\ n[s].op \in causes /\ n[s].stage = "ok"),
         ~(q # None /\ q.op = op /\ q.stage = "ok")
  PROVE  UpToDate(show, op, causes, shown, truth, [n EXCEPT ![s] = q], ex)
<1> DEFINE m == [n EXCEPT ![s] = q]
<1>1. \A t \in Slots : m[t] = IF t = s THEN q ELSE n[t]
  BY DEF NetOK
<1>2. Awaited(n, op, causes) => Awaited(m, op, causes)
  BY AwaitedKept
<1> HIDE DEF m
<1>3. UpToDate(show, op, causes, shown, truth, m, ex)
  BY <1>1, <1>2 DEF UpToDate, Honest
<1> QED BY <1>3 DEF m

-----------------------------------------------------------------------------
(* The page and its render                                                 *)

(* Two pages that differ in their routes only.                             *)
SameButRoutes(u, v) ==
  /\ v.me = u.me /\ v.list = u.list /\ v.keys = u.keys
  /\ v.open = u.open /\ v.busy = u.busy

LEMMA ReplacedPage ==
  ASSUME NEW u, PageOK(u), NEW r \in Routes
  PROVE  /\ PageOK(Replaced(u, r)) /\ SameButRoutes(u, Replaced(u, r))
         /\ Route(Replaced(u, r)) = r
<1> DEFINE v == Replaced(u, r)
<1>1. PICK k \in 1..MaxHistory : u.hist \in [1..k -> Routes]
  BY DEF PageOK, UI
<1>2. v.hist = [u.hist EXCEPT ![u.pos] = r] /\ v.pos = u.pos
  BY DEF PageOK, UI, Replaced
<1>3. v.hist \in [1..k -> Routes]
  BY <1>1, <1>2
<1>4. v = [u EXCEPT !.hist = v.hist]
  BY <1>2 DEF PageOK, UI, Replaced
<1>5. SameButRoutes(u, v)
  BY DEF PageOK, UI, Replaced, SameButRoutes
<1>6. v.pos \in DOMAIN v.hist /\ v.hist[v.pos] = r
  BY <1>1, <1>2 DEF PageOK
<1>7. v \in UI
  <2> HIDE DEF v
  <2>1. v.hist \in UNION { [1..n -> Routes] : n \in 1..MaxHistory }
    BY <1>3
  <2> QED BY <1>4, <2>1 DEF PageOK, UI
<1> QED BY <1>5, <1>6, <1>7 DEF PageOK, Route

LEMMA PushedPage ==
  ASSUME NEW u, PageOK(u), NEW r \in Routes
  PROVE  PageOK(Pushed(u, r)) /\ SameButRoutes(u, Pushed(u, r))
<1> DEFINE first == IF u.pos = MaxHistory THEN 2 ELSE 1
           kept == SubSeq(u.hist, first, u.pos)
           h == Append(kept, r)
           v == [u EXCEPT !.hist = h, !.pos = Len(kept) + 1]
<1>1. PICK k \in 1..MaxHistory : u.hist \in [1..k -> Routes]
  BY DEF PageOK, UI
<1>2. MaxHistory \in Nat \ {0} /\ k \in Nat /\ u.pos \in 1..k /\ u.hist \in Seq(Routes) /\ Len(u.hist) = k
  BY ShellAssumption, <1>1 DEF PageOK
<1>3. first \in 1..2 /\ first <= u.pos + 1 /\ u.pos + 1 - first \in 0..(MaxHistory - 1)
  BY <1>2
<1> HIDE DEF first
<1>4. kept \in Seq(Routes) /\ Len(kept) = u.pos + 1 - first
  BY <1>2, <1>3
<1> HIDE DEF kept
<1>5. h \in Seq(Routes) /\ Len(h) = Len(kept) + 1
  BY <1>4
<1> HIDE DEF h
<1>6. Len(h) \in 1..MaxHistory /\ h \in [1..Len(h) -> Routes]
  BY <1>2, <1>3, <1>4, <1>5
<1>7. h \in UNION { [1..n -> Routes] : n \in 1..MaxHistory }
  BY <1>6
<1>8. v \in UI
  BY <1>5, <1>6, <1>7 DEF PageOK, UI
<1>9. v.pos \in DOMAIN v.hist
  BY <1>5, <1>6 DEF PageOK, UI
<1>10. SameButRoutes(u, v)
  BY DEF PageOK, UI, SameButRoutes
<1>11. Pushed(u, r) = v
  BY DEF Pushed, h, kept, first
<1> HIDE DEF v
<1> QED BY <1>8, <1>9, <1>10, <1>11 DEF PageOK

(* The reconcile effect ends on a workspace of the list.                   *)
LEMMA LandedPage ==
  ASSUME NEW u, PageOK(u)
  PROVE  /\ PageOK(Landed(u)) /\ SameButRoutes(u, Landed(u))
         /\ ~Astray(Landed(u))
<1>1. CASE ~Astray(u)
  BY <1>1 DEF Landed, SameButRoutes
<1>2. CASE Astray(u)
  <2>1. Shown(u) \in SUBSET (0..MaxWorkspaces) /\ Shown(u) # {} /\ MaxWorkspaces \in Nat
    BY ShellAssumption, <1>2 DEF Astray, Shown, PageOK, UI, Workspaces, Example
  <2> DEFINE w == Max(Shown(u))
             v == Replaced(u, w)
  <2>2. w \in Shown(u)
    BY <2>1, Extremes
  <2>3. w \in Routes
    BY <2>2 DEF Shown, PageOK, UI, Routes
  <2> HIDE DEF w
  <2>4. PageOK(v) /\ SameButRoutes(u, v) /\ Route(v) = w
    BY <2>3, ReplacedPage
  <2>5. Landed(u) = v
    BY <1>2 DEF Landed, w
  <2> HIDE DEF v
  <2>6. Shown(v) = Shown(u)
    BY <2>4 DEF Shown, SameButRoutes
  <2> QED BY <2>2, <2>4, <2>5, <2>6 DEF Astray
<1> QED BY <1>1, <1>2

LEMMA UnmountedPage ==
  ASSUME NEW u, PageOK(u)
  PROVE  LET v == Unmounted(u)
         IN  /\ PageOK(v)
             /\ v.hist = u.hist /\ v.pos = u.pos
             /\ v.me = u.me /\ v.list = u.list /\ v.keys = u.keys
             /\ "account" \in v.open <=> "account" \in u.open
             /\ \A p \in Panels : v.busy[p] = (u.busy[p] /\ (Mounted(u) \/ p \notin Rosters))
<1> DEFINE b == [p \in Panels |-> p \notin Rosters /\ u.busy[p]]
           v == IF Mounted(u) THEN u
                ELSE [u EXCEPT !.open = @ \ {"share"}, !.busy = b, !.roster = {}, !.link = FALSE]
           k == IF "share" \in v.open THEN v.menus ELSE 0
           w == [v EXCEPT !.menus = k]
<1>1. \A p \in Panels : u.busy[p] \in BOOLEAN
  BY DEF PageOK, UI
<1>2. b \in [Panels -> BOOLEAN] /\ \A p \in Panels : b[p] = (u.busy[p] /\ p \notin Rosters)
  BY <1>1
<1> HIDE DEF b
<1>3. /\ PageOK(v) /\ v.hist = u.hist /\ v.pos = u.pos
      /\ v.me = u.me /\ v.list = u.list /\ v.keys = u.keys
      /\ "account" \in v.open <=> "account" \in u.open
      /\ v.busy = IF Mounted(u) THEN u.busy ELSE b
  <2>1. CASE Mounted(u)
    BY <2>1
  <2>2. CASE ~Mounted(u)
    BY <1>2, <2>2 DEF PageOK, UI
  <2> QED BY <2>1, <2>2
<1> HIDE DEF v
<1>4. k \in 0..MaxMenus
  BY ShellAssumption, <1>3 DEF PageOK, UI
<1> HIDE DEF k
<1>5. /\ PageOK(w) /\ w.hist = v.hist /\ w.pos = v.pos
      /\ w.me = v.me /\ w.list = v.list /\ w.keys = v.keys /\ w.open = v.open /\ w.busy = v.busy
  BY <1>3, <1>4 DEF PageOK, UI
<1>6. Unmounted(u) = w
  BY DEF Unmounted, w, k, v, b
<1> HIDE DEF w
<1> QED BY <1>1, <1>2, <1>3, <1>5, <1>6

(* The requests after a render: every one is still there, and what is new  *)
(* asks for a roster.                                                      *)
Carried(n, m) ==
  \A s \in Slots :
    /\ n[s] # None => /\ m[s] # None /\ m[s].op = n[s].op /\ m[s].stage = n[s].stage
                      /\ m[s].val = n[s].val /\ m[s].old = n[s].old
    /\ n[s] = None /\ m[s] # None => m[s].op = "detail"

LEMMA CarriedList ==
  ASSUME NEW show, NEW op, NEW causes, op # "detail", "detail" \notin causes,
         NEW shown, NEW truth, NEW ex, NEW n, NEW m, Carried(n, m),
         UpToDate(show, op, causes, shown, truth, n, ex)
  PROVE  UpToDate(show, op, causes, shown, truth, m, ex)
<1>1. Awaited(n, op, causes) => Awaited(m, op, causes)
  BY DEF Awaited, Carried
<1>2. Honest(n, op, causes, truth) => Honest(m, op, causes, truth)
  BY <1>1 DEF Honest, Carried
<1>3. (\E s \in Slots : n[s] # None /\ n[s].op = op /\ n[s].stage = "ok" /\ ~n[s].old)
      => (\E s \in Slots : m[s] # None /\ m[s].op = op /\ m[s].stage = "ok" /\ ~m[s].old)
  BY DEF Carried
<1> QED BY <1>1, <1>2, <1>3 DEF UpToDate

LEMMA OrphanedNet ==
  ASSUME NEW n, NetOK(n), NEW u
  PROVE  LET m == Orphaned(n, u)
         IN  /\ NetOK(m) /\ Carried(n, m)
             /\ \A s \in Slots : n[s] = None <=> m[s] = None
             /\ \A s \in Slots, p \in Panels :
                  Running(m[s], p) <=> (Running(n[s], p) /\ (Mounted(u) \/ p \notin Rosters))
<1> DEFINE m == Orphaned(n, u)
           Left(s) == n[s] # None /\ n[s].by \in Rosters /\ ~Mounted(u)
<1>1. \A s \in Slots : m[s] = IF Left(s) THEN [n[s] EXCEPT !.alive = FALSE] ELSE n[s]
  BY DEF Orphaned
<1>2. m = [s \in Slots |-> m[s]]
  BY DEF Orphaned
<1> HIDE DEF m
<1>3. ASSUME NEW s \in Slots, Left(s)
      PROVE  /\ m[s] \in Request /\ Fits(m[s]) /\ m[s] # None
             /\ m[s].op = n[s].op /\ m[s].stage = n[s].stage /\ m[s].by = n[s].by
             /\ m[s].val = n[s].val /\ m[s].old = n[s].old /\ m[s].then = n[s].then
             /\ ~m[s].alive
  <2>1. m[s] = [n[s] EXCEPT !.alive = FALSE]
    BY <1>1, <1>3
  <2>2. n[s] \in Request /\ Fits(n[s])
    BY <1>3 DEF NetOK, Fits
  <2>3. m[s] \in Request
    BY <2>1, <2>2 DEF Request
  <2>4. /\ m[s].op = n[s].op /\ m[s].stage = n[s].stage /\ m[s].by = n[s].by /\ m[s].of = n[s].of
        /\ m[s].val = n[s].val /\ m[s].old = n[s].old /\ m[s].then = n[s].then
        /\ ~m[s].alive
    BY <2>1, <2>2 DEF Request
  <2>5. Fits(m[s])
    BY <1>3, <2>2, <2>3, <2>4 DEF Fits
  <2> QED BY NoneAssumption, <2>3, <2>4, <2>5
<1>4. NetOK(m)
  <2>1. \A s \in Slots : m[s] \in Request \cup {None} /\ (m[s] # None => Fits(m[s]))
    BY <1>1, <1>3 DEF NetOK
  <2> QED BY <1>2, <2>1 DEF NetOK
<1>5. Carried(n, m)
  <2> SUFFICES ASSUME NEW s \in Slots
               PROVE  /\ n[s] # None => /\ m[s] # None /\ m[s].op = n[s].op /\ m[s].stage = n[s].stage
                                        /\ m[s].val = n[s].val /\ m[s].old = n[s].old
                      /\ n[s] = None => m[s] = None
    BY DEF Carried
  <2>1. CASE Left(s)
    BY <1>3, <2>1
  <2>2. CASE ~Left(s)
    BY <1>1, <2>2
  <2> QED BY <2>1, <2>2
<1>6. \A s \in Slots : n[s] = None <=> m[s] = None
  BY <1>1, <1>3
<1>7. ASSUME NEW s \in Slots, NEW p \in Panels
      PROVE  Running(m[s], p) <=> (Running(n[s], p) /\ (Mounted(u) \/ p \notin Rosters))
  <2>1. CASE Left(s)
    BY <1>3, <2>1 DEF Running
  <2>2. CASE ~Left(s)
    BY <1>1, <2>2 DEF Running
  <2> QED BY <2>1, <2>2
<1> QED BY <1>4, <1>5, <1>6, <1>7 DEF m

(* A new request.                                                          *)
LEMMA AskFits ==
  ASSUME NEW op \in Ops, NEW of \in Nat, NEW by \in Panels \cup {None},
         NEW then \in {"stop", "run", "land"},
         op \in {"me", "list"} => by = None /\ then # "run",
         op \in {"detail", "change", "leave", "mint", "copy"} => by \in Rosters,
         op \in Writes \cup {"copy"} => then = "run",
         op = "create" => by = "new",
         op \in {"keys", "generate", "revoke"} => by = "account",
         op # "list" => then # "land"
  PROVE  LET q == Ask(op, of, by, then)
         IN  /\ Fits(q) /\ q # None /\ q.op = op /\ q.by = by /\ q.then = then
             /\ q.alive /\ q.stage = "sent" /\ q.of = of /\ ~q.old
<1> DEFINE q == Ask(op, of, by, then)
<1>1. q = [op |-> op, of |-> of, by |-> by, then |-> then, alive |-> TRUE,
           stage |-> "sent", val |-> {}, old |-> FALSE]
  BY DEF Ask
<1> HIDE DEF q
<1>2. q \in Request
  BY <1>1 DEF Request
<1>3. q # None
  BY NoneAssumption, <1>2
<1>4. q.op = op /\ q.by = by /\ q.then = then /\ q.alive /\ q.stage = "sent" /\ q.of = of /\ ~q.old
  BY <1>1
<1>5. Fits(q)
  BY <1>2, <1>4 DEF Fits, Writes, Operations
<1> QED BY <1>3, <1>4, <1>5 DEF q

(* Rendering keeps what holds of the page and the requests, and ends on a  *)
(* workspace of the list.                                                  *)
LEMMA RenderReady ==
  ASSUME NEW u, NEW n, NEW ws, NEW live, NEW ex,
         Ready(u, n, ws, live, ex), Render(u, n)
  PROVE  /\ Ready(ui', net', ws, live, ex) /\ ~Astray(ui')
         /\ ui'.me = u.me /\ ui'.list = u.list
<1> DEFINE w == Unmounted(u)
           v == Landed(w)
           m == Orphaned(n, u)
<1>1. PageOK(u) /\ NetOK(n) /\ RunsMatch(u.busy, n) /\ ListOK(u, n, ws, ex) /\ KeysOK(u, n, live, ex)
  BY DEF Ready
<1>2. /\ PageOK(w)
      /\ w.me = u.me /\ w.list = u.list /\ w.keys = u.keys
      /\ "account" \in w.open <=> "account" \in u.open
      /\ \A p \in Panels : w.busy[p] = (u.busy[p] /\ (Mounted(u) \/ p \notin Rosters))
  BY <1>1, UnmountedPage
<1>3. /\ NetOK(m) /\ Carried(n, m)
      /\ \A s \in Slots : n[s] = None <=> m[s] = None
      /\ \A s \in Slots, p \in Panels :
           Running(m[s], p) <=> (Running(n[s], p) /\ (Mounted(u) \/ p \notin Rosters))
  BY <1>1, OrphanedNet
<1> HIDE DEF w
<1>4. PageOK(v) /\ SameButRoutes(w, v) /\ ~Astray(v)
  BY <1>2, LandedPage
<1> HIDE DEF v, m
<1>5. RunsMatch(v.busy, m)
  BY <1>1, <1>2, <1>3, <1>4 DEF RunsMatch, SameButRoutes
<1>6. ListOK(v, m, ws, ex) /\ KeysOK(v, m, live, ex)
  <2>1. ListOK(u, m, ws, ex)
    BY <1>1, <1>3, CarriedList DEF ListOK, ListCauses
  <2>2. KeysOK(u, m, live, ex)
    BY <1>1, <1>3, CarriedList DEF KeysOK, KeyCauses
  <2>3. v.me = u.me /\ v.list = u.list /\ v.keys = u.keys /\ ("account" \in v.open <=> "account" \in u.open)
    BY <1>2, <1>4 DEF SameButRoutes
  <2> QED BY <2>1, <2>2, <2>3 DEF ListOK, KeysOK, UpToDate
<1>7. v.me = u.me /\ v.list = u.list
  BY <1>2, <1>4 DEF SameButRoutes
<1>8. CASE Loads(u, v) = {}
  <2>1. ui' = v /\ net' = m
    BY <1>8 DEF Render, v, w, m
  <2> QED BY <1>3, <1>4, <1>5, <1>6, <1>7, <2>1 DEF Ready
<1>9. CASE Loads(u, v) # {}
  <2> DEFINE f == Free(n)
             Roster(p) == Ask("detail", Route(v), p, "stop")
  <2>1. PICK p \in Loads(u, v) :
          /\ HasFree(n)
          /\ ui' = [v EXCEPT !.link = @ /\ p # "share"]
          /\ net' = [m EXCEPT ![f] = Roster(p)]
    BY <1>9 DEF Render, v, w, m
  <2>2. p \in Rosters /\ Mounted(v)
    BY <2>1 DEF Loads
  <2>3. Route(v) \in Nat
    BY <1>4, <2>2 DEF Mounted, PageOK, UI, Workspaces
  <2>4. /\ Fits(Roster(p)) /\ Roster(p) # None /\ Roster(p).op = "detail"
        /\ Roster(p).then = "stop" /\ Roster(p).stage = "sent"
    BY <2>2, <2>3, AskFits DEF Ops, Panels, Rosters, Writes, Operations
  <2>5. f \in Slots /\ m[f] = None
    BY <1>3, <2>1, FreeSlot
  <2> HIDE DEF f, Roster
  <2>6. NetOK(net')
    BY <1>3, <2>1, <2>4, <2>5, SlotTaken
  <2>7. PageOK(ui') /\ SameButRoutes(v, ui') /\ Route(ui') = Route(v)
    BY <1>4, <2>1 DEF PageOK, UI, SameButRoutes, Route
  <2>8. ~Astray(ui')
    BY <1>4, <2>7 DEF Astray, Shown, SameButRoutes
  <2>9. RunsMatch(ui'.busy, net')
    <3>1. \A r \in Panels : Running(Roster(p), r) <=> Running(m[f], r)
      BY <2>4, <2>5 DEF Running
    <3>2. RunsMatch(v.busy, [m EXCEPT ![f] = Roster(p)])
      BY <1>3, <1>5, <2>5, <3>1, RunsKept
    <3> QED BY <2>1, <2>7, <3>2 DEF SameButRoutes
  <2>10. ListOK(v, net', ws, ex)
    BY <1>3, <1>6, <2>1, <2>4, <2>5, OtherSlot DEF ListOK
  <2>11. KeysOK(v, net', live, ex)
    BY <1>3, <1>6, <2>1, <2>4, <2>5, OtherSlot DEF KeysOK
  <2>12. ListOK(ui', net', ws, ex) /\ KeysOK(ui', net', live, ex)
    BY <2>7, <2>10, <2>11 DEF ListOK, KeysOK, SameButRoutes
  <2> QED BY <1>7, <2>6, <2>7, <2>8, <2>9, <2>12 DEF Ready, SameButRoutes
<1> QED BY <1>8, <1>9

-----------------------------------------------------------------------------
(* What the user does                                                      *)

LEMMA SamePage ==
  ASSUME NEW u, NEW v, NEW n, NEW ws, NEW live, NEW ex, Ready(u, n, ws, live, ex),
         PageOK(v), v.me = u.me, v.list = u.list, v.keys = u.keys, v.busy = u.busy,
         "account" \in v.open => "account" \in u.open
  PROVE  Ready(v, n, ws, live, ex)
BY DEF Ready, ListOK, KeysOK, UpToDate

(* A step that ends in a render.                                           *)
LEMMA ShellRendered ==
  ASSUME ServerOK', NEW u, NEW n,
         Ready(u, n, mine', (keys.live)', excused'), Render(u, n)
  PROVE  ShellInv'
<1>1. Ready(ui', net', mine', (keys.live)', excused') /\ ~Astray(ui')
  BY RenderReady
<1> QED BY <1>1 DEF ShellInv

(* A gesture changes nothing of the server and excuses nothing.            *)
LEMMA GestureServer ==
  ASSUME ServerOK, Gesture,
         UNCHANGED <<mine, created, keys, faults, excused>>
  PROVE  ServerOK'
BY ShellAssumption DEF ServerOK, Gesture

LEMMA OutsidePage ==
  ASSUME NEW u, PageOK(u)
  PROVE  LET v == Outside(u)
         IN  /\ PageOK(v) /\ v.me = u.me /\ v.list = u.list /\ v.keys = u.keys /\ v.busy = u.busy
             /\ "account" \in v.open <=> "account" \in u.open
BY DEF PageOK, UI, Outside

LEMMA GoStep ==
  ASSUME ShellInv, NEW r \in Routes, Go(r)
  PROVE  ShellInv'
<1>1. /\ Render(Pushed(Outside(ui), r), net) /\ Gesture
      /\ UNCHANGED <<mine, created, keys, faults, excused>>
  BY DEF Go, Server
<1>2. ServerOK'
  BY <1>1, GestureServer DEF ShellInv
<1>3. Ready(ui, net, mine', (keys.live)', excused')
  BY <1>1 DEF ShellInv
<1> DEFINE o == Outside(ui)
           u == Pushed(o, r)
<1>4. /\ PageOK(o) /\ o.me = ui.me /\ o.list = ui.list /\ o.keys = ui.keys /\ o.busy = ui.busy
      /\ "account" \in o.open <=> "account" \in ui.open
  BY OutsidePage DEF ShellInv, Ready
<1> HIDE DEF o
<1>5. PageOK(u) /\ SameButRoutes(o, u)
  BY <1>4, PushedPage
<1>6. Render(u, net)
  BY <1>1 DEF u, o
<1> HIDE DEF u
<1>7. Ready(u, net, mine', (keys.live)', excused')
  BY <1>3, <1>4, <1>5, SamePage DEF SameButRoutes
<1> QED BY <1>2, <1>6, <1>7, ShellRendered

LEMMA TravelledPage ==
  ASSUME PageOK(ui), NEW step \in Int, Travel(step)
  PROVE  LET u == [ui EXCEPT !.pos = @ + step]
         IN  PageOK(u) /\ SameButRoutes(ui, u) /\ u.hist = ui.hist
<1>1. PICK k \in 1..MaxHistory : ui.hist \in [1..k -> Routes]
  BY DEF PageOK, UI
<1>2. k \in Nat /\ k <= MaxHistory /\ MaxHistory \in Nat
  BY ShellAssumption, <1>1
<1>3. ui.hist \in Seq(Routes) /\ Len(ui.hist) = k
  BY <1>1, <1>2
<1>4. ui.pos + step \in 1..k
  BY <1>3 DEF Travel
<1>5. ui.pos + step \in 1..MaxHistory /\ ui.pos + step \in DOMAIN ui.hist
  BY <1>1, <1>2, <1>4
<1> QED BY <1>5 DEF PageOK, UI, SameButRoutes

LEMMA TravelStep ==
  ASSUME ShellInv, NEW step \in Int, Travel(step)
  PROVE  ShellInv'
<1> DEFINE u == [ui EXCEPT !.pos = @ + step]
<1>1. /\ Render(u, net) /\ Gesture
      /\ UNCHANGED <<mine, created, keys, faults, excused>>
  BY DEF Travel, Server
<1>2. ServerOK'
  BY <1>1, GestureServer DEF ShellInv
<1>3. Ready(ui, net, mine', (keys.live)', excused')
  BY <1>1 DEF ShellInv
<1>4. PageOK(u) /\ SameButRoutes(ui, u)
  BY TravelledPage DEF ShellInv, Ready
<1> HIDE DEF u
<1>5. Ready(u, net, mine', (keys.live)', excused')
  BY <1>3, <1>4, SamePage DEF SameButRoutes
<1> QED BY <1>1, <1>2, <1>5, ShellRendered

LEMMA CloseStep ==
  ASSUME ShellInv, NEW p \in Panels, Close(p)
  PROVE  ShellInv'
<1> DEFINE u == [ui EXCEPT !.open = @ \ {p}]
<1>1. /\ Render(u, net) /\ Gesture
      /\ UNCHANGED <<mine, created, keys, faults, excused>>
  BY DEF Close, Server
<1>2. ServerOK'
  BY <1>1, GestureServer DEF ShellInv
<1>3. Ready(ui, net, mine', (keys.live)', excused')
  BY <1>1 DEF ShellInv
<1>4. /\ PageOK(u) /\ u.me = ui.me /\ u.list = ui.list /\ u.keys = ui.keys /\ u.busy = ui.busy
      /\ "account" \in u.open => "account" \in ui.open
  BY DEF ShellInv, Ready, PageOK, UI
<1> HIDE DEF u
<1>5. Ready(u, net, mine', (keys.live)', excused')
  BY <1>3, <1>4, SamePage
<1> QED BY <1>1, <1>2, <1>5, ShellRendered

LEMMA OpenStep ==
  ASSUME ShellInv, NEW p \in Panels, Open(p)
  PROVE  ShellInv'
<1> DEFINE o == Outside(ui)
           u == [o EXCEPT !.open = @ \cup {p}, !.minted = @ /\ p # "account"]
           f == Free(net)
           q == Ask("keys", 0, p, "stop")
<1>1. /\ IF p = "account" THEN HasFree(net) /\ Render(u, [net EXCEPT ![f] = q])
                          ELSE Render(u, net)
      /\ Gesture /\ UNCHANGED <<mine, created, keys, faults, excused>>
  BY DEF Open, Server
<1>2. ServerOK'
  BY <1>1, GestureServer DEF ShellInv
<1>3. Ready(ui, net, mine', (keys.live)', excused')
  BY <1>1 DEF ShellInv
<1>4. /\ PageOK(o) /\ o.me = ui.me /\ o.list = ui.list /\ o.keys = ui.keys /\ o.busy = ui.busy
      /\ "account" \in o.open <=> "account" \in ui.open
  BY OutsidePage DEF ShellInv, Ready
<1> HIDE DEF o
<1>5. /\ PageOK(u) /\ u.me = ui.me /\ u.list = ui.list /\ u.keys = ui.keys /\ u.busy = ui.busy
      /\ p # "account" => ("account" \in u.open => "account" \in ui.open)
  <2>1. u.open = o.open \cup {p}
    BY <1>4 DEF PageOK, UI
  <2>2. PageOK(u) /\ u.me = o.me /\ u.list = o.list /\ u.keys = o.keys /\ u.busy = o.busy
    BY <1>4 DEF PageOK, UI
  <2> HIDE DEF u
  <2> QED BY <1>4, <2>1, <2>2
<1> HIDE DEF u
<1>6. CASE p # "account"
  <2>1. Ready(u, net, mine', (keys.live)', excused')
    BY <1>3, <1>5, <1>6, SamePage
  <2> QED BY <1>1, <1>2, <1>6, <2>1, ShellRendered
<1>7. CASE p = "account"
  <2>1. f \in Slots /\ net[f] = None
    BY <1>1, <1>7, FreeSlot
  <2>2. Fits(q) /\ q # None /\ q.op = "keys" /\ q.stage = "sent" /\ q.then = "stop"
    BY <1>7, AskFits DEF Ops, Panels, Rosters, Writes, Operations
  <2> HIDE DEF f, q
  <2> DEFINE n == [net EXCEPT ![f] = q]
  <2>3. NetOK(net) /\ RunsMatch(ui.busy, net)
    BY DEF ShellInv, Ready
  <2>4. NetOK(n)
    BY <2>1, <2>2, <2>3, SlotTaken
  <2>5. RunsMatch(u.busy, n)
    <3>1. \A r \in Panels : Running(q, r) <=> Running(net[f], r)
      BY <2>1, <2>2 DEF Running
    <3>2. RunsMatch(ui.busy, n)
      BY <2>1, <2>3, <3>1, RunsKept
    <3> QED BY <1>5, <3>2
  <2>6. ListOK(u, n, mine', excused')
    <3>1. ListOK(ui, n, mine', excused')
      BY <1>3, <2>1, <2>2, <2>3, OtherSlot DEF ListOK, Ready
    <3> HIDE DEF n
    <3> QED BY <1>5, <3>1 DEF ListOK
  <2>7. KeysOK(u, n, (keys.live)', excused')
    <3>1. Awaited(n, "keys", KeyCauses)
      BY <2>1, <2>2, <2>3, AwaitedNow
    <3> HIDE DEF n
    <3> QED BY <3>1, AwaitedIsEnough DEF KeysOK
  <2>8. Ready(u, n, mine', (keys.live)', excused')
    BY <1>5, <2>4, <2>5, <2>6, <2>7 DEF Ready
  <2>9. Render(u, n)
    BY <1>1, <1>7
  <2> HIDE DEF n
  <2> QED BY <1>2, <2>8, <2>9, ShellRendered
<1> QED BY <1>6, <1>7

(* A panel starts an operation, a free one unless a role menu starts it.   *)
LEMMA SubmitStep ==
  ASSUME ShellInv, NEW p \in Panels, NEW op \in Writes \cup {"copy"}, NEW of \in Nat,
         op \in {"change", "leave", "mint", "copy"} => p \in Rosters,
         op = "create" => p = "new",
         op \in {"generate", "revoke"} => p = "account",
         NEW menus \in 0..MaxMenus, p # "share" => ~ui.busy[p],
         Submit(p, op, of, menus)
  PROVE  ShellInv'
<1> DEFINE u == [ui EXCEPT !.busy[p] = TRUE, !.menus = menus]
           f == Free(net)
           q == Ask(op, of, p, "run")
<1>1. /\ HasFree(net) /\ Render(u, [net EXCEPT ![f] = q])
      /\ Gesture /\ UNCHANGED <<mine, created, keys, faults, excused>>
  BY DEF Submit, Server
<1>2. ServerOK'
  BY <1>1, GestureServer DEF ShellInv
<1>3. Ready(ui, net, mine', (keys.live)', excused')
  BY <1>1 DEF ShellInv
<1>4. PageOK(ui) /\ NetOK(net) /\ RunsMatch(ui.busy, net)
  BY DEF ShellInv, Ready
<1>5. ui.busy \in [Panels -> BOOLEAN]
  BY <1>4 DEF PageOK, UI
<1>6. /\ PageOK(u) /\ u.me = ui.me /\ u.list = ui.list /\ u.keys = ui.keys
      /\ u.open = ui.open /\ u.busy = [ui.busy EXCEPT ![p] = TRUE]
  BY <1>4, <1>5 DEF PageOK, UI
<1>7. f \in Slots /\ net[f] = None
  BY <1>1, FreeSlot
<1>8. /\ Fits(q) /\ q # None /\ q.op = op /\ q.by = p /\ q.stage = "sent"
      /\ q.then = "run" /\ q.alive
  BY AskFits DEF Ops, Writes, Operations
<1> HIDE DEF u, f, q
<1> DEFINE n == [net EXCEPT ![f] = q]
<1>9. NetOK(n)
  BY <1>4, <1>7, <1>8, SlotTaken
<1>10. RunsMatch(u.busy, n)
  BY <1>1, <1>4, <1>5, <1>6, <1>7, <1>8, RunsStart
<1>11. ListOK(ui, n, mine', excused')
  BY <1>3, <1>4, <1>7, <1>8, OtherSlot DEF ListOK, Ready, Writes, Operations
<1>12. KeysOK(ui, n, (keys.live)', excused')
  BY <1>3, <1>4, <1>7, <1>8, OtherSlot DEF KeysOK, Ready, Writes, Operations
<1>13. Render(u, n)
  BY <1>1
<1> HIDE DEF n
<1>14. Ready(u, n, mine', (keys.live)', excused')
  BY <1>6, <1>9, <1>10, <1>11, <1>12 DEF Ready, ListOK, KeysOK
<1> QED BY <1>2, <1>13, <1>14, ShellRendered

(* The bounds of the buttons: Press starts from a free panel.              *)
LEMMA PressStep ==
  ASSUME ShellInv, NEW p \in Panels, NEW op \in Writes \cup {"copy"}, NEW of \in Nat,
         op \in {"change", "leave", "mint", "copy"} => p \in Rosters,
         op = "create" => p = "new",
         op \in {"generate", "revoke"} => p = "account",
         Press(p, op, of)
  PROVE  ShellInv'
<1>1. PICK m \in {0, ui.menus} : Submit(p, op, of, m)
  BY DEF Press
<1>2. m \in 0..MaxMenus
  BY ShellAssumption DEF ShellInv, Ready, PageOK, UI
<1> QED BY <1>1, <1>2, SubmitStep DEF Press

LEMMA ManageStep ==
  ASSUME ShellInv, NEW p \in Rosters, NEW op \in Operations, Manage(p, op)
  PROVE  ShellInv'
<1> DEFINE o == IF op = "mint" /\ ui.link THEN "copy" ELSE op
<1>1. Mounted(ui) /\ Press(p, o, Route(ui))
  BY DEF Manage
<1>2. Route(ui) \in Nat
  BY <1>1 DEF Mounted, ShellInv, Ready, PageOK, UI, Workspaces
<1>3. o \in Operations \cup {"copy"}
  OBVIOUS
<1> HIDE DEF o
<1> QED BY <1>1, <1>2, <1>3, PressStep DEF Writes, Operations, Panels, Rosters

LEMMA PickItemStep ==
  ASSUME ShellInv, NEW op \in Operations, PickItem(op)
  PROVE  ShellInv'
<1>1. Mounted(ui) /\ ui.menus > 0
  BY DEF PickItem
<1>2. PICK m \in {0, ui.menus - 1} : Submit("share", op, Route(ui), m)
  BY DEF PickItem
<1>3. Route(ui) \in Nat
  BY <1>1 DEF Mounted, ShellInv, Ready, PageOK, UI, Workspaces
<1>4. m \in 0..MaxMenus
  BY ShellAssumption, <1>1 DEF ShellInv, Ready, PageOK, UI
<1> QED BY <1>2, <1>3, <1>4, SubmitStep DEF Writes, Operations, Panels, Rosters

(* The role menus open and close with nothing else changed.                *)
LEMMA MenuStep ==
  ASSUME ShellInv, OpenMenu \/ CloseMenus
  PROVE  ShellInv'
<1>1. /\ \E m \in 0..MaxMenus : ui' = [ui EXCEPT !.menus = m]
      /\ UNCHANGED <<mine, created, keys, faults, gestures, net, excused>>
  BY ShellAssumption DEF OpenMenu, CloseMenus, Server, ShellInv, Ready, PageOK, UI
<1>2. /\ PageOK(ui') /\ SameButRoutes(ui, ui') /\ Route(ui') = Route(ui)
  BY <1>1 DEF ShellInv, Ready, PageOK, UI, SameButRoutes, Route
<1>3. ServerOK'
  BY <1>1 DEF ShellInv, ServerOK
<1>4. Ready(ui', net', mine', (keys.live)', excused')
  BY <1>1, <1>2, SamePage DEF ShellInv, SameButRoutes
<1>5. ~Astray(ui')
  BY <1>2 DEF ShellInv, Astray, Shown, SameButRoutes
<1> QED BY <1>3, <1>4, <1>5 DEF ShellInv

(* The page is loaded for the first time, or anew: what is on its way      *)
(* besides is left by another page.                                        *)
LEMMA BlankReady ==
  ASSUME NEW h, NEW i, NEW ws, NEW live, NEW ex,
         h \in UNION { [1..k -> Routes] : k \in 1..MaxHistory }, i \in DOMAIN h, i \in 1..MaxHistory,
         NEW n, NetOK(n),
         \A s \in Slots : n[s] # None => n[s].stage = "sent" /\ n[s].then # "run"
  PROVE  Ready(Blank(h, i), n, ws, live, ex) /\ ~Astray(Blank(h, i))
<1> DEFINE u == Blank(h, i)
<1>1. Quiet \in [Panels -> BOOLEAN] /\ \A p \in Panels : ~Quiet[p]
  BY DEF Quiet
<1>2. PageOK(u)
  BY ShellAssumption, <1>1 DEF PageOK, UI, Blank
<1>3. u.me = "loading" /\ u.open = {} /\ u.busy = Quiet
  BY DEF Blank
<1> HIDE DEF u
<1>4. RunsMatch(u.busy, n)
  BY <1>1, <1>3 DEF RunsMatch, Running
<1>5. ListOK(u, n, ws, ex) /\ KeysOK(u, n, live, ex)
  BY <1>3 DEF ListOK, KeysOK, UpToDate, Honest
<1>6. ~Astray(u)
  BY <1>3 DEF Astray
<1>7. Ready(u, n, ws, live, ex)
  BY <1>2, <1>4, <1>5 DEF Ready
<1> QED BY <1>6, <1>7 DEF u

(* getMe asked for.                                                        *)
LEMMA MeAsked ==
  LET q == Ask("me", 0, None, "stop")
  IN  Fits(q) /\ q # None /\ q.stage = "sent" /\ q.then = "stop"
BY AskFits DEF Ops, Writes, Operations

LEMMA InitStep ==
  ASSUME Init
  PROVE  ShellInv
<1> DEFINE q == Ask("me", 0, None, "stop")
<1>1. PICK r \in Entrances : ui = Blank(<<r>>, 1)
  BY DEF Init
<1>2. r \in Routes /\ 1 \in 1..MaxHistory
  BY ShellAssumption
<1>3. <<r>> \in [1..1 -> Routes]
  BY <1>2
<1>4. <<r>> \in UNION { [1..k -> Routes] : k \in 1..MaxHistory } /\ 1 \in DOMAIN <<r>>
  BY <1>2, <1>3
<1>5. net = [s \in Slots |-> IF s = 1 THEN q ELSE None]
  BY DEF Init
<1>6. Fits(q) /\ q # None /\ q.stage = "sent" /\ q.then = "stop"
  BY MeAsked
<1> HIDE DEF q
<1>7. NetOK(net)
  BY <1>5, <1>6 DEF NetOK, Fits
<1>8. \A s \in Slots : net[s] # None => net[s].stage = "sent" /\ net[s].then # "run"
  BY <1>5, <1>6
<1>9. Ready(ui, net, mine, keys.live, excused) /\ ~Astray(ui)
  BY <1>1, <1>2, <1>4, <1>7, <1>8, BlankReady
<1>10. ServerOK
  BY ShellAssumption DEF Init, ServerOK
<1> QED BY <1>9, <1>10 DEF ShellInv

LEMMA ReloadStep ==
  ASSUME ShellInv, Reload
  PROVE  ShellInv'
<1> DEFINE q == Ask("me", 0, None, "stop")
<1>1. /\ ui' = Blank(ui.hist, ui.pos)
      /\ excused' = {} /\ Gesture /\ UNCHANGED <<mine, created, keys, faults>>
  BY DEF Reload, Server
<1>2. PICK sent \in SUBSET { s \in Slots : net[s] # None /\ net[s].op \in Writes
                                          /\ net[s].stage = "sent" } :
        LET left == [s \in Slots |-> IF s \in sent THEN [net[s] EXCEPT !.then = "gone"] ELSE None]
        IN  HasFree(left) /\ net' = [left EXCEPT ![Free(left)] = q]
  BY DEF Reload
<1> DEFINE left == [s \in Slots |-> IF s \in sent THEN [net[s] EXCEPT !.then = "gone"] ELSE None]
<1>3. ServerOK'
  BY ShellAssumption, <1>1 DEF ShellInv, ServerOK, Gesture
<1>4. /\ ui.hist \in UNION { [1..k -> Routes] : k \in 1..MaxHistory }
      /\ ui.pos \in DOMAIN ui.hist /\ ui.pos \in 1..MaxHistory
  BY DEF ShellInv, Ready, PageOK, UI
<1>5. ASSUME NEW s \in sent
      PROVE  /\ left[s] \in Request /\ Fits(left[s])
             /\ left[s].stage = "sent" /\ left[s].then = "gone"
  <2> DEFINE r == net[s]
             g == [r EXCEPT !.then = "gone"]
  <2>1. /\ r \in Request /\ Fits(r) /\ r.op \in Writes /\ r.stage = "sent"
        /\ s \in Slots
    BY <1>5, <1>2 DEF ShellInv, Ready, NetOK, Fits
  <2>2. left[s] = g
    BY <1>5, <2>1
  <2> HIDE DEF r
  <2>3. g \in Request
    BY <2>1 DEF Request
  <2>4. /\ g.op = r.op /\ g.by = r.by /\ g.stage = "sent" /\ g.then = "gone" /\ g.alive = r.alive
        /\ g.old = r.old
    BY <2>1 DEF Request
  <2> HIDE DEF g, left
  <2>5. Fits(g)
    BY <2>1, <2>3, <2>4 DEF Fits, Writes, Operations
  <2> QED BY <2>2, <2>3, <2>4, <2>5
<1>6. \A s \in Slots \ sent : left[s] = None
  OBVIOUS
<1>7. left = [s \in Slots |-> left[s]]
  OBVIOUS
<1>8. Fits(q) /\ q # None /\ q.stage = "sent" /\ q.then = "stop"
  BY MeAsked
<1>9. HasFree(left) /\ net' = [left EXCEPT ![Free(left)] = q]
  BY <1>2
<1> HIDE DEF q, left
<1>10. NetOK(left)
  BY <1>2, <1>5, <1>6, <1>7 DEF NetOK
<1>11. Free(left) \in Slots
  BY <1>9, FreeSlot
<1>12. NetOK(net')
  BY <1>8, <1>9, <1>10, <1>11, SlotTaken
<1>13. \A s \in Slots : net'[s] # None => net'[s].stage = "sent" /\ net'[s].then # "run"
  <2> TAKE s \in Slots
  <2>1. CASE s = Free(left)
    BY <1>7, <1>8, <1>9, <2>1
  <2>2. CASE s # Free(left)
    BY <1>5, <1>6, <1>7, <1>9, <2>2
  <2> QED BY <2>1, <2>2
<1>14. Ready(ui', net', mine', (keys.live)', excused') /\ ~Astray(ui')
  BY <1>1, <1>4, <1>12, <1>13, BlankReady
<1> QED BY <1>3, <1>14 DEF ShellInv

-----------------------------------------------------------------------------
(* What the server does                                                    *)

(* What an answer to an operation may carry.                               *)
Carries(op, val) ==
  /\ op = "list" => val \subseteq Workspaces
  /\ op = "keys" => val \subseteq 1..MaxKeys
  /\ op = "create" => \E w \in Workspaces : val = {w}

(* The slots m are those of now, but s has its answer.                     *)
Redone(m, s, stage, val) ==
  \E q : /\ m = [net EXCEPT ![s] = q]
         /\ Fits(q) /\ q # None /\ q.op = net[s].op /\ q.stage = stage /\ q.val = val
         /\ \A p \in Panels : Running(q, p) <=> Running(net[s], p)

(* A request is answered: its slot keeps who asked and why.                *)
LEMMA AnsweredSlot ==
  ASSUME NetOK(net), NEW s \in Slots, net[s] # None, net[s].then # "gone",
         NEW stage \in {"ok", "anonymous", "refused"}, NEW val \in SUBSET Nat,
         stage = "ok" => Carries(net[s].op, val)
  PROVE  Redone(Answered(s, stage, val), s, stage, val)
<1> DEFINE r == net[s]
           q == [r EXCEPT !.stage = stage, !.val = val]
<1>1. r \in Request /\ Fits(r) /\ r # None
  BY DEF NetOK, Fits
<1>2. Answered(s, stage, val) = [net EXCEPT ![s] = q]
  BY DEF Answered
<1>3. stage \in {"sent", "ok", "anonymous", "refused"}
  OBVIOUS
<1> HIDE DEF r
<1>4. q \in Request
  BY <1>1, <1>3 DEF Request
<1>5. /\ q.op = r.op /\ q.stage = stage /\ q.val = val /\ q.by = r.by /\ q.then = r.then
      /\ q.alive = r.alive
  BY <1>1 DEF Request
<1> HIDE DEF q
<1>6. q # None
  BY NoneAssumption, <1>4
<1>7. Fits(q)
  BY <1>1, <1>4, <1>5 DEF Fits, Carries, r
<1>8. \A p \in Panels : Running(q, p) <=> Running(r, p)
  BY <1>1, <1>5, <1>6 DEF Running
<1> QED BY <1>2, <1>5, <1>6, <1>7, <1>8 DEF Redone, r

(* An answer that carries no list and makes nothing.                       *)
LEMMA AnsweredElse ==
  ASSUME NetOK(net), NEW s \in Slots, net[s] # None, net[s].then # "gone",
         net[s].op \notin {"list", "keys", "create"},
         NEW stage \in {"ok", "anonymous", "refused"}, NEW val \in SUBSET Nat
  PROVE  Redone(Answered(s, stage, val), s, stage, val)
<1>1. Carries(net[s].op, val)
  BY DEF Carries
<1> QED BY <1>1, AnsweredSlot

(* An answer to one slot that the two lists do not depend on, or that      *)
(* makes the browser ask for one.                                          *)
LEMMA AnsweredInv ==
  ASSUME ShellInv, ServerOK', NEW s \in Slots, net[s] # None, NEW q, Fits(q), q # None,
         net' = [net EXCEPT ![s] = q], ui' = ui,
         \A p \in Panels : Running(q, p) <=> Running(net[s], p),
         ListOK(ui, net', mine', excused'), KeysOK(ui, net', (keys.live)', excused')
  PROVE  ShellInv'
<1>1. PageOK(ui) /\ NetOK(net) /\ RunsMatch(ui.busy, net) /\ ~Astray(ui)
  BY DEF ShellInv, Ready
<1>2. NetOK(net')
  BY <1>1, SlotTaken
<1>3. RunsMatch(ui.busy, net')
  BY <1>1, RunsKept
<1>4. Ready(ui', net', mine', (keys.live)', excused') /\ ~Astray(ui')
  BY <1>1, <1>2, <1>3 DEF Ready
<1> QED BY <1>4 DEF ShellInv

(* A write of a page that is gone is answered to nobody.                   *)
LEMMA AnsweredNobody ==
  ASSUME ShellInv, NEW s \in Slots, net[s] # None, net[s].then = "gone",
         NEW stage, NEW val, Answer(s, stage, val),
         created' \in 0..MaxWorkspaces, mine' \subseteq 1..created',
         keys' \in [live : SUBSET (1..MaxKeys), issued : 0..MaxKeys],
         UNCHANGED <<ui, gestures, faults>>
  PROVE  ShellInv'
<1>1. net' = [net EXCEPT ![s] = None] /\ excused' = excused \cup {"others"}
  BY DEF Answer
<1>2. /\ ServerOK /\ PageOK(ui) /\ NetOK(net) /\ RunsMatch(ui.busy, net) /\ ~Astray(ui)
  BY DEF ShellInv, Ready
<1>3. ServerOK'
  BY <1>1, <1>2 DEF ServerOK
<1>4. NetOK(net')
  BY <1>1, <1>2, SlotTaken
<1>5. RunsMatch(ui.busy, net')
  BY <1>1, <1>2, NotRunning, RunsKept
<1>6. ListOK(ui, net', mine', excused') /\ KeysOK(ui, net', (keys.live)', excused')
  BY <1>1 DEF ListOK, KeysOK, UpToDate
<1>7. Ready(ui', net', mine', (keys.live)', excused') /\ ~Astray(ui')
  BY <1>2, <1>4, <1>5, <1>6 DEF Ready
<1> QED BY <1>3, <1>7 DEF ShellInv

LEMMA IdentifyStep ==
  ASSUME ShellInv, NEW s \in Slots, Identify(s)
  PROVE  ShellInv'
<1>1. /\ net[s] # None /\ net[s].op = "me"
      /\ UNCHANGED <<mine, created, keys, faults, gestures, ui, excused>>
  BY DEF Identify, Sent, Server
<1>2. PICK as \in {"ok", "anonymous"} : net' = Answered(s, as, {})
  BY DEF Identify
<1>3. ServerOK' /\ NetOK(net)
  BY <1>1 DEF ServerOK, ShellInv, Ready
<1>4. PICK q : /\ net' = [net EXCEPT ![s] = q] /\ Fits(q) /\ q # None /\ q.op = net[s].op
               /\ \A p \in Panels : Running(q, p) <=> Running(net[s], p)
  <2>1. net[s].op \notin {"list", "keys", "create"} /\ net[s].then # "gone"
    BY <1>1, <1>3 DEF NetOK, Fits, Writes, Operations
  <2>2. Redone(Answered(s, as, {}), s, as, {})
    BY <1>1, <1>3, <2>1, AnsweredElse
  <2> QED BY <1>2, <2>2 DEF Redone
<1>5. ListOK(ui, net', mine', excused') /\ KeysOK(ui, net', (keys.live)', excused')
  <2>1. ListOK(ui, [net EXCEPT ![s] = q], mine, excused)
    BY <1>1, <1>3, <1>4, OtherSlot DEF ShellInv, Ready, ListOK, ListCauses
  <2>2. KeysOK(ui, [net EXCEPT ![s] = q], keys.live, excused)
    BY <1>1, <1>3, <1>4, OtherSlot DEF ShellInv, Ready, KeysOK, KeyCauses
  <2> QED BY <1>1, <1>4, <2>1, <2>2
<1> QED BY <1>1, <1>3, <1>4, <1>5, AnsweredInv

LEMMA ServeMemberStep ==
  ASSUME ShellInv, NEW s \in Slots, ServeMember(s), net[s].then # "gone"
  PROVE  ShellInv'
<1> DEFINE w == net[s].of
           stage == IF w \in mine THEN "ok" ELSE "refused"
<1>1. /\ net[s] # None /\ net[s].op \in {"detail", "change", "leave", "mint"} /\ net[s].stage = "sent"
      /\ net' = Answered(s, stage, {w})
      /\ mine' = IF net[s].op = "leave" THEN mine \ {w} ELSE mine
      /\ UNCHANGED <<created, keys, ui, gestures, faults, excused>>
  BY DEF ServeMember, Sent, Answer
<1>2. ServerOK' /\ NetOK(net)
  BY <1>1 DEF ServerOK, ShellInv, Ready
<1>3. w \in Nat
  BY <1>1, <1>2 DEF NetOK, Fits, Request
<1>4. PICK q : /\ net' = [net EXCEPT ![s] = q] /\ Fits(q) /\ q # None /\ q.op = net[s].op
               /\ q.stage = stage
               /\ \A p \in Panels : Running(q, p) <=> Running(net[s], p)
  <2>1. stage \in {"ok", "refused"} /\ net' = Answered(s, stage, {w})
    BY <1>1
  <2> HIDE DEF w, stage
  <2>2. {w} \in SUBSET Nat /\ net[s].op \notin {"list", "keys", "create"} /\ net[s] # None
    BY <1>1, <1>3
  <2>3. Redone(Answered(s, stage, {w}), s, stage, {w})
    BY <1>2, <2>1, <2>2, AnsweredElse
  <2> QED BY <2>1, <2>3 DEF Redone
<1>5. ListOK(ui, net', mine', excused')
  <2>1. CASE net[s].op = "leave" /\ w \in mine
    <3>1. Awaited(net', "list", ListCauses)
      BY <1>2, <1>4, <2>1, AwaitedNow DEF ListCauses
    <3> QED BY <3>1, AwaitedIsEnough DEF ListOK
  <2>2. CASE ~(net[s].op = "leave" /\ w \in mine)
    <3>1. mine' = mine
      BY <1>1, <2>2
    <3>2. ListOK(ui, [net EXCEPT ![s] = q], mine, excused)
      BY <1>1, <1>2, <1>4, OtherSlot DEF ShellInv, Ready, ListOK, ListCauses
    <3> QED BY <1>1, <1>4, <3>1, <3>2
  <2> QED BY <2>1, <2>2
<1>6. KeysOK(ui, net', (keys.live)', excused')
  <2>1. KeysOK(ui, [net EXCEPT ![s] = q], keys.live, excused)
    BY <1>1, <1>2, <1>4, OtherSlot DEF ShellInv, Ready, KeysOK, KeyCauses
  <2> QED BY <1>1, <1>4, <2>1
<1> QED BY <1>1, <1>2, <1>4, <1>5, <1>6, AnsweredInv

(* One workspace more.                                                     *)
LEMMA OneMore ==
  ASSUME created \in 0..MaxWorkspaces, mine \subseteq 1..created, created < MaxWorkspaces,
         created' = created + 1, mine' = mine \cup {created + 1}
  PROVE  created' \in 0..MaxWorkspaces /\ mine' \subseteq 1..created'
<1>1. MaxWorkspaces \in Nat
  BY ShellAssumption
<1>2. created + 1 \in 0..MaxWorkspaces
  BY <1>1
<1>3. 1..created \subseteq 1..(created + 1) /\ created + 1 \in 1..(created + 1)
  BY <1>1
<1> QED BY <1>2, <1>3

LEMMA ServeCreateStep ==
  ASSUME ShellInv, NEW s \in Slots, ServeCreate(s), net[s].then # "gone"
  PROVE  ShellInv'
<1>1. /\ net[s] # None /\ net[s].op = "create" /\ net[s].stage = "sent"
      /\ UNCHANGED <<keys, ui, gestures, faults, excused>>
  BY DEF ServeCreate, Sent, Answer
<1>2. NetOK(net) /\ ServerOK
  BY DEF ShellInv, Ready
<1>3. CASE created < MaxWorkspaces
  <2>1. /\ created' = created + 1 /\ mine' = mine \cup {created + 1}
        /\ net' = Answered(s, "ok", {created + 1})
    BY <1>3 DEF ServeCreate, Answer
  <2>2. created + 1 \in Workspaces /\ created + 1 \in Nat /\ created \in Nat
    BY ShellAssumption, <1>2, <1>3 DEF ServerOK, Workspaces
  <2>3. ServerOK'
    <3>1. created' \in 0..MaxWorkspaces /\ mine' \subseteq 1..created'
      BY <1>2, <1>3, <2>1, OneMore DEF ServerOK
    <3> QED BY <1>1, <1>2, <3>1 DEF ServerOK
  <2>4. PICK q : /\ net' = [net EXCEPT ![s] = q] /\ Fits(q) /\ q # None /\ q.op = net[s].op
                 /\ q.stage = "ok"
                 /\ \A p \in Panels : Running(q, p) <=> Running(net[s], p)
    <3>1. {created + 1} \in SUBSET Nat
      BY <2>2
    <3>2. Carries(net[s].op, {created + 1})
      BY <1>1, <2>2 DEF Carries
    <3>3. Redone(Answered(s, "ok", {created + 1}), s, "ok", {created + 1})
      BY <1>1, <1>2, <3>1, <3>2, AnsweredSlot
    <3> QED BY <2>1, <3>3 DEF Redone
  <2>5. ListOK(ui, net', mine', excused')
    <3>1. Awaited(net', "list", ListCauses)
      BY <1>1, <1>2, <2>4, AwaitedNow DEF ListCauses
    <3> QED BY <3>1, AwaitedIsEnough DEF ListOK
  <2>6. KeysOK(ui, [net EXCEPT ![s] = q], keys.live, excused)
    BY <1>1, <1>2, <2>4, OtherSlot DEF ShellInv, Ready, KeysOK, KeyCauses
  <2>7. KeysOK(ui, net', (keys.live)', excused')
    BY <1>1, <2>4, <2>6
  <2> QED BY <1>1, <2>3, <2>4, <2>5, <2>7, AnsweredInv
<1>4. CASE ~(created < MaxWorkspaces)
  <2>1. net' = Answered(s, "refused", {}) /\ UNCHANGED <<mine, created>>
    BY <1>4 DEF ServeCreate, Answer
  <2>2. ServerOK'
    BY <1>1, <1>2, <2>1 DEF ServerOK
  <2>3. PICK q : /\ net' = [net EXCEPT ![s] = q] /\ Fits(q) /\ q # None /\ q.op = net[s].op
                 /\ q.stage = "refused"
                 /\ \A p \in Panels : Running(q, p) <=> Running(net[s], p)
    <3>1. Redone(Answered(s, "refused", {}), s, "refused", {})
      BY <1>1, <1>2, AnsweredSlot
    <3> QED BY <2>1, <3>1 DEF Redone
  <2>4. ListOK(ui, [net EXCEPT ![s] = q], mine, excused)
    BY <1>1, <1>2, <2>3, OtherSlot DEF ShellInv, Ready, ListOK, ListCauses
  <2>5. KeysOK(ui, [net EXCEPT ![s] = q], keys.live, excused)
    BY <1>1, <1>2, <2>3, OtherSlot DEF ShellInv, Ready, KeysOK, KeyCauses
  <2>6. ListOK(ui, net', mine', excused') /\ KeysOK(ui, net', (keys.live)', excused')
    BY <1>1, <2>1, <2>3, <2>4, <2>5
  <2> QED BY <1>1, <2>2, <2>3, <2>6, AnsweredInv
<1> QED BY <1>3, <1>4

(* What keys become.                                                       *)
LEMMA KeysChanged ==
  ASSUME ServerOK, NEW s \in Slots, ServeKeyChange(s)
  PROVE  keys' \in [live : SUBSET (1..MaxKeys), issued : 0..MaxKeys]
<1>1. keys \in [live : SUBSET (1..MaxKeys), issued : 0..MaxKeys] /\ MaxKeys \in Nat
  BY ShellAssumption DEF ServerOK
<1>2. CASE /\ keys.issued < MaxKeys
           /\ keys' = [live |-> keys.live \cup {keys.issued + 1}, issued |-> keys.issued + 1]
  <2>1. keys.issued + 1 \in 1..MaxKeys /\ keys.issued + 1 \in 0..MaxKeys
    BY <1>1, <1>2
  <2> QED BY <1>1, <1>2, <2>1
<1>3. CASE keys' = [keys EXCEPT !.live = @ \ {net[s].of}]
  BY <1>1, <1>3
<1> QED BY <1>2, <1>3 DEF ServeKeyChange

LEMMA ServeKeyChangeStep ==
  ASSUME ShellInv, NEW s \in Slots, ServeKeyChange(s), net[s].then # "gone"
  PROVE  ShellInv'
<1>1. /\ net[s] # None /\ net[s].op \in KeyCauses /\ net[s].stage = "sent"
      /\ net' = Answered(s, "ok", {})
      /\ UNCHANGED <<mine, created, ui, gestures, faults, excused>>
  BY DEF ServeKeyChange, Sent, KeyCauses, Answer
<1>2. NetOK(net) /\ ServerOK
  BY DEF ShellInv, Ready
<1>3. keys' \in [live : SUBSET (1..MaxKeys), issued : 0..MaxKeys]
  BY <1>2, KeysChanged
<1>4. ServerOK'
  BY <1>1, <1>2, <1>3 DEF ServerOK
<1>5. PICK q : /\ net' = [net EXCEPT ![s] = q] /\ Fits(q) /\ q # None /\ q.op = net[s].op
               /\ q.stage = "ok"
               /\ \A p \in Panels : Running(q, p) <=> Running(net[s], p)
  <2>1. net[s].op \notin {"list", "keys", "create"}
    BY <1>1 DEF KeyCauses
  <2>2. Redone(Answered(s, "ok", {}), s, "ok", {})
    BY <1>1, <1>2, <2>1, AnsweredElse
  <2> QED BY <1>1, <2>2 DEF Redone
<1>6. KeysOK(ui, net', (keys.live)', excused')
  <2>1. Awaited(net', "keys", KeyCauses)
    BY <1>1, <1>2, <1>5, AwaitedNow
  <2> QED BY <2>1, AwaitedIsEnough DEF KeysOK
<1>7. ListOK(ui, [net EXCEPT ![s] = q], mine, excused)
  BY <1>1, <1>2, <1>5, OtherSlot DEF ShellInv, Ready, ListOK, ListCauses, KeyCauses
<1>8. ListOK(ui, net', mine', excused')
  BY <1>1, <1>5, <1>7
<1> QED BY <1>1, <1>4, <1>5, <1>6, <1>8, AnsweredInv

(* The writes of a page that is gone.                                      *)
LEMMA GoneStep ==
  ASSUME ShellInv, NEW s \in Slots, ServeMember(s) \/ ServeCreate(s) \/ ServeKeyChange(s),
         net[s].then = "gone"
  PROVE  ShellInv'
<1>1. net[s] # None /\ UNCHANGED <<ui, gestures, faults>>
  BY DEF ServeMember, ServeCreate, ServeKeyChange, Sent
<1>2. ServerOK
  BY DEF ShellInv
<1>3. CASE ServeMember(s)
  <2>1. PICK stage, val : Answer(s, stage, val)
    BY <1>3 DEF ServeMember
  <2>2. mine' \subseteq mine /\ created' = created /\ keys' = keys
    BY <1>3 DEF ServeMember
  <2> QED BY <1>1, <1>2, <2>1, <2>2, AnsweredNobody DEF ServerOK
<1>4. CASE ServeCreate(s)
  <2>1. PICK stage, val : Answer(s, stage, val)
    BY <1>4 DEF ServeCreate
  <2>2. created' \in 0..MaxWorkspaces /\ mine' \subseteq 1..created' /\ keys' = keys
    BY <1>2, <1>4, OneMore DEF ServeCreate, ServerOK
  <2> QED BY <1>1, <1>2, <2>1, <2>2, AnsweredNobody DEF ServerOK
<1>5. CASE ServeKeyChange(s)
  <2>1. Answer(s, "ok", {}) /\ mine' = mine /\ created' = created
    BY <1>5 DEF ServeKeyChange
  <2>2. keys' \in [live : SUBSET (1..MaxKeys), issued : 0..MaxKeys]
    BY <1>2, <1>5, KeysChanged
  <2> QED BY <1>1, <1>2, <2>1, <2>2, AnsweredNobody DEF ServerOK
<1> QED BY <1>3, <1>4, <1>5

(* Slots that are touched but do not concern a list.                       *)
LEMMA OtherNet ==
  ASSUME NEW show, NEW n, NEW m, NEW op, NEW causes, NEW shown, NEW truth, NEW ex,
         UpToDate(show, op, causes, shown, truth, n, ex),
         \A t \in Slots :
           \/ m[t] = n[t]
           \/ n[t] # None /\ m[t] # None /\ m[t].op = n[t].op /\ n[t].op # op /\ n[t].op \notin causes
  PROVE  UpToDate(show, op, causes, shown, truth, m, ex)
<1>1. Awaited(n, op, causes) => Awaited(m, op, causes)
  BY DEF Awaited
<1>2. Honest(n, op, causes, truth) => Honest(m, op, causes, truth)
  BY <1>1 DEF Honest
<1>3. (\E s \in Slots : n[s] # None /\ n[s].op = op /\ n[s].stage = "ok" /\ ~n[s].old)
      => (\E s \in Slots : m[s] # None /\ m[s].op = op /\ m[s].stage = "ok" /\ ~m[s].old)
  OBVIOUS
<1> QED BY <1>1, <1>2, <1>3 DEF UpToDate

(* The list just served is the only new one, and true.                     *)
LEMMA ServedIsTrue ==
  ASSUME NEW show, NEW m, NEW op, NEW causes, NEW shown, NEW truth, NEW ex,
         NEW s \in Slots,
         m[s] # None /\ m[s].op = op /\ m[s].stage = "ok" /\ ~m[s].old /\ m[s].val = truth,
         \A t \in Slots \ {s} :
           m[t] # None /\ m[t].op = op /\ m[t].stage = "ok" => m[t].old
  PROVE  UpToDate(show, op, causes, shown, truth, m, ex)
<1>1. Honest(m, op, causes, truth)
  BY DEF Honest
<1> QED BY <1>1 DEF UpToDate

LEMMA ServeListStep ==
  ASSUME ShellInv, NEW s \in Slots, ServeList(s)
  PROVE  ShellInv'
<1> DEFINE True(op) == IF op = "list" THEN mine ELSE keys.live
           Old(t, op) == net[t] # None /\ net[t].op = op /\ net[t].stage = "ok"
<1>1. PICK op \in {"list", "keys"} :
        /\ net[s] # None /\ net[s].stage = "sent" /\ net[s].op = op
        /\ net' = [t \in Slots |->
             IF t = s THEN [net[s] EXCEPT !.stage = "ok", !.val = True(op)]
             ELSE IF Old(t, op) THEN [net[t] EXCEPT !.old = TRUE] ELSE net[t]]
  BY DEF ServeList, Sent
<1>2. UNCHANGED <<mine, created, keys, faults, gestures, ui, excused>>
  BY DEF ServeList, Server
<1>3. ServerOK /\ PageOK(ui) /\ NetOK(net) /\ RunsMatch(ui.busy, net) /\ ~Astray(ui)
  BY DEF ShellInv, Ready
<1>4. ServerOK'
  BY <1>2, <1>3 DEF ServerOK
<1> DEFINE m == net'
<1>5. /\ m[s] # None /\ m[s].op = op /\ m[s].stage = "ok" /\ m[s].val = True(op) /\ ~m[s].old
      /\ m[s] \in Request /\ Fits(m[s])
      /\ \A p \in Panels : Running(m[s], p) <=> Running(net[s], p)
  <2> DEFINE r == net[s]
             q == [r EXCEPT !.stage = "ok", !.val = True(op)]
  <2>1. r \in Request /\ Fits(r) /\ r # None /\ r.stage = "sent" /\ r.op = op
    BY <1>1, <1>3 DEF NetOK, Fits
  <2>2. m[s] = q
    BY <1>1
  <2>3. /\ True(op) \in SUBSET Nat
        /\ op = "list" => True(op) \subseteq Workspaces
        /\ op = "keys" => True(op) \subseteq 1..MaxKeys
    <3>1. mine \subseteq Workspaces /\ mine \subseteq Nat
      <4>1. mine \subseteq 1..created /\ created \in 0..MaxWorkspaces /\ MaxWorkspaces \in Nat
        BY ShellAssumption, <1>3 DEF ServerOK
      <4> QED BY <4>1 DEF Workspaces
    <3>2. keys.live \subseteq 1..MaxKeys /\ keys.live \subseteq Nat
      BY <1>3 DEF ServerOK
    <3>3. op = "list" \/ op = "keys"
      OBVIOUS
    <3> QED BY <3>1, <3>2, <3>3
  <2> HIDE DEF r, True, m
  <2>4. q \in Request
    BY <2>1, <2>3 DEF Request
  <2>5. /\ q.op = r.op /\ q.stage = "ok" /\ q.val = True(op) /\ q.by = r.by /\ q.then = r.then
        /\ q.alive = r.alive /\ q.old = r.old
    BY <2>1 DEF Request
  <2> HIDE DEF q
  <2>6. q # None
    BY NoneAssumption, <2>4
  <2>7. Fits(q) /\ ~q.old
    BY <1>1, <2>1, <2>3, <2>4, <2>5 DEF Fits, Writes, Operations
  <2>8. \A p \in Panels : Running(q, p) <=> Running(r, p)
    BY <2>1, <2>5, <2>6 DEF Running
  <2> QED BY <2>1, <2>2, <2>4, <2>5, <2>6, <2>7, <2>8 DEF r
<1>6. ASSUME NEW t \in Slots, t # s, Old(t, op)
      PROVE  /\ m[t] # None /\ m[t].op = op /\ m[t].old
             /\ m[t] \in Request /\ Fits(m[t])
             /\ \A p \in Panels : Running(m[t], p) <=> Running(net[t], p)
  <2> DEFINE r == net[t]
             q == [r EXCEPT !.old = TRUE]
  <2>1. r \in Request /\ Fits(r) /\ r # None /\ r.stage = "ok" /\ r.op = op
    BY <1>3, <1>6 DEF NetOK, Fits
  <2>2. m[t] = q
    BY <1>1, <1>6
  <2> HIDE DEF r, m
  <2>3. q \in Request
    BY <2>1 DEF Request
  <2>4. /\ q.op = r.op /\ q.stage = r.stage /\ q.val = r.val /\ q.by = r.by /\ q.then = r.then
        /\ q.alive = r.alive /\ q.old
    BY <2>1 DEF Request
  <2> HIDE DEF q
  <2>5. q # None
    BY NoneAssumption, <2>3
  <2>6. Fits(q)
    BY <2>1, <2>3, <2>4 DEF Fits
  <2>7. \A p \in Panels : Running(q, p) <=> Running(r, p)
    BY <2>1, <2>4, <2>5 DEF Running
  <2> QED BY <2>1, <2>2, <2>3, <2>4, <2>5, <2>6, <2>7 DEF r
<1>7. \A t \in Slots : t # s /\ ~Old(t, op) => m[t] = net[t]
  BY <1>1
<1>8. m = [t \in Slots |-> m[t]]
  BY <1>1
<1> HIDE DEF m
<1>9. NetOK(m)
  <2>1. \A t \in Slots : m[t] \in Request \cup {None} /\ (m[t] # None => Fits(m[t]))
    <3> TAKE t \in Slots
    <3>1. CASE t = s
      BY <1>5, <3>1
    <3>2. CASE t # s /\ Old(t, op)
      BY <1>6, <3>2
    <3>3. CASE t # s /\ ~Old(t, op)
      BY <1>3, <1>7, <3>3 DEF NetOK
    <3> QED BY <3>1, <3>2, <3>3
  <2> QED BY <1>8, <2>1 DEF NetOK
<1>10. RunsMatch(ui.busy, m)
  <2>1. \A t \in Slots, p \in Panels : Running(m[t], p) <=> Running(net[t], p)
    <3> TAKE t \in Slots, p \in Panels
    <3>1. CASE t = s
      BY <1>5, <3>1
    <3>2. CASE t # s /\ Old(t, op)
      BY <1>6, <3>2
    <3>3. CASE t # s /\ ~Old(t, op)
      BY <1>7, <3>3
    <3> QED BY <3>1, <3>2, <3>3
  <2> QED BY <1>3, <2>1 DEF RunsMatch
<1>11. \A t \in Slots :
         m[t] = net[t] \/ (net[t] # None /\ m[t] # None /\ m[t].op = net[t].op /\ net[t].op = op)
  <2> TAKE t \in Slots
  <2>1. CASE t = s
    BY <1>1, <1>5, <2>1
  <2>2. CASE t # s /\ Old(t, op)
    BY <1>6, <2>2
  <2>3. CASE t # s /\ ~Old(t, op)
    BY <1>7, <2>3
  <2> QED BY <2>1, <2>2, <2>3
<1>12. \A t \in Slots \ {s} : m[t] # None /\ m[t].op = op /\ m[t].stage = "ok" => m[t].old
  BY <1>6, <1>7
<1>13. ListOK(ui, m, mine, excused) /\ KeysOK(ui, m, keys.live, excused)
  <2>1. ListOK(ui, net, mine, excused) /\ KeysOK(ui, net, keys.live, excused)
    BY DEF ShellInv, Ready
  <2>2. CASE op = "list"
    <3>1. ListOK(ui, m, mine, excused)
      <4>1. True(op) = mine
        BY <2>2
      <4> HIDE DEF True
      <4> QED BY <1>5, <1>12, <2>2, <4>1, ServedIsTrue DEF ListOK
    <3>2. KeysOK(ui, m, keys.live, excused)
      <4>1. op # "keys" /\ op \notin KeyCauses
        BY <2>2 DEF KeyCauses
      <4> QED BY <1>11, <2>1, <4>1, OtherNet DEF KeysOK
    <3> QED BY <3>1, <3>2
  <2>3. CASE op = "keys"
    <3>1. KeysOK(ui, m, keys.live, excused)
      <4>1. True(op) = keys.live
        BY <2>3
      <4> HIDE DEF True
      <4> QED BY <1>5, <1>12, <2>3, <4>1, ServedIsTrue DEF KeysOK
    <3>2. ListOK(ui, m, mine, excused)
      <4>1. op # "list" /\ op \notin ListCauses
        BY <2>3 DEF ListCauses
      <4> QED BY <1>11, <2>1, <4>1, OtherNet DEF ListOK
    <3> QED BY <3>1, <3>2
  <2> QED BY <2>2, <2>3
<1>14. Ready(ui', net', mine', (keys.live)', excused') /\ ~Astray(ui')
  <2>1. Ready(ui, m, mine, keys.live, excused)
    BY <1>3, <1>9, <1>10, <1>13 DEF Ready
  <2>2. ui' = ui /\ mine' = mine /\ (keys.live)' = keys.live /\ excused' = excused
    BY <1>2
  <2> QED BY <1>3, <2>1, <2>2 DEF m
<1> QED BY <1>4, <1>14 DEF ShellInv

LEMMA FailStep ==
  ASSUME ShellInv, NEW s \in Slots, Fail(s)
  PROVE  ShellInv'
<1>1. /\ net[s] # None /\ net[s].then # "gone" /\ net' = Answered(s, "refused", {})
      /\ faults < MaxFaults /\ faults' = faults + 1 /\ excused' = excused \cup {"failed"}
      /\ UNCHANGED <<mine, created, keys, ui, gestures>>
  BY DEF Fail, Fault
<1>2. ServerOK /\ NetOK(net)
  BY DEF ShellInv, Ready
<1>3. ServerOK'
  BY ShellAssumption, <1>1, <1>2 DEF ServerOK
<1>4. PICK q : /\ net' = [net EXCEPT ![s] = q] /\ Fits(q) /\ q # None
               /\ \A p \in Panels : Running(q, p) <=> Running(net[s], p)
  <2>1. Redone(Answered(s, "refused", {}), s, "refused", {})
    BY <1>1, <1>2, AnsweredSlot
  <2> QED BY <1>1, <2>1 DEF Redone
<1>5. excused' \cap {"failed", "others"} # {}
  BY <1>1
<1>6. ListOK(ui, net', mine', excused') /\ KeysOK(ui, net', (keys.live)', excused')
  BY <1>5 DEF ListOK, KeysOK, UpToDate
<1> QED BY <1>1, <1>3, <1>4, <1>6, AnsweredInv

(* Other members, machines and tabs.                                       *)
LEMMA OthersStep ==
  ASSUME ShellInv,
         OthersCreate \/ \E w \in Workspaces : OthersRemove(w)
  PROVE  ShellInv'
<1>1. /\ faults < MaxFaults /\ faults' = faults + 1 /\ excused' = excused \cup {"others"}
      /\ UNCHANGED <<keys, ui, net, gestures>>
  BY DEF OthersCreate, OthersRemove, Fault
<1>2. created' \in 0..MaxWorkspaces /\ mine' \subseteq 1..created'
  <2>1. created \in 0..MaxWorkspaces /\ mine \subseteq 1..created /\ MaxWorkspaces \in Nat
    BY ShellAssumption DEF ShellInv, ServerOK
  <2>2. CASE OthersCreate
    <3>1. created < MaxWorkspaces /\ created' = created + 1 /\ mine' = mine \cup {created + 1}
      BY <2>2 DEF OthersCreate
    <3> QED BY <2>1, <3>1
  <2>3. CASE \E w \in Workspaces : OthersRemove(w)
    BY <2>1, <2>3 DEF OthersRemove
  <2> QED BY <2>2, <2>3
<1>3. ServerOK'
  BY ShellAssumption, <1>1, <1>2 DEF ShellInv, ServerOK
<1>4. excused' \cap {"failed", "others"} # {}
  BY <1>1
<1>5. PageOK(ui) /\ NetOK(net) /\ RunsMatch(ui.busy, net) /\ ~Astray(ui)
  BY DEF ShellInv, Ready
<1>6. ListOK(ui, net, mine', excused') /\ KeysOK(ui, net, (keys.live)', excused')
  BY <1>4 DEF ListOK, KeysOK, UpToDate
<1>7. ui' = ui /\ net' = net
  BY <1>1
<1>8. Ready(ui', net', mine', (keys.live)', excused') /\ ~Astray(ui')
  BY <1>5, <1>6, <1>7 DEF Ready
<1> QED BY <1>3, <1>8 DEF ShellInv

-----------------------------------------------------------------------------
(* What arrives                                                            *)

LEMMA ReleasedPage ==
  ASSUME NEW u, PageOK(u), NEW q, q.by \in Panels
  PROVE  LET v == Released(u, q)
         IN  /\ PageOK(v) /\ v.me = u.me /\ v.list = u.list /\ v.keys = u.keys /\ v.open = u.open
             /\ v.busy = IF q.alive THEN [u.busy EXCEPT ![q.by] = FALSE] ELSE u.busy
BY DEF PageOK, UI, Released

(* What an arrival starts from.                                            *)
LEMMA Arrival ==
  ASSUME ShellInv, NEW s \in Slots, net[s] # None,
         UNCHANGED <<mine, created, keys, faults, gestures>>,
         excused' \subseteq {"failed", "others", "list", "keys"}
  PROVE  /\ ServerOK' /\ PageOK(ui) /\ NetOK(net) /\ RunsMatch(ui.busy, net)
         /\ Fits(net[s]) /\ net[s] \in Request
         /\ ui.busy \in [Panels -> BOOLEAN]
         /\ ListOK(ui, net, mine, excused) /\ KeysOK(ui, net, keys.live, excused)
         /\ mine' = mine /\ (keys.live)' = keys.live
<1>1. /\ PageOK(ui) /\ NetOK(net) /\ RunsMatch(ui.busy, net) /\ ServerOK
      /\ ListOK(ui, net, mine, excused) /\ KeysOK(ui, net, keys.live, excused)
  BY DEF ShellInv, Ready
<1>2. ServerOK'
  BY <1>1 DEF ServerOK
<1>3. Fits(net[s]) /\ net[s] \in Request
  BY <1>1 DEF NetOK, Fits
<1>4. ui.busy \in [Panels -> BOOLEAN]
  BY <1>1 DEF PageOK, UI
<1> QED BY <1>1, <1>2, <1>3, <1>4

(* An answer is taken that neither list depends on: the slot is empty      *)
(* then, or asks for something else.                                       *)
LEMMA QuietArrival ==
  ASSUME ShellInv, NEW s \in Slots, net[s] # None,
         UNCHANGED <<mine, created, keys, faults, gestures, excused>>,
         ~(net[s].op \in {"list", "keys"} /\ net[s].stage \in {"sent", "ok"}),
         ~(net[s].op \in ListCauses \cup KeyCauses /\ net[s].stage = "ok"),
         NEW q, q = None \/ (Fits(q) /\ q.stage = "sent"),
         NEW u, PageOK(u), u.me = "account" => ui.me = "account",
         u.list = ui.list, u.keys = ui.keys, u.open = ui.open,
         RunsMatch(u.busy, [net EXCEPT ![s] = q]), Render(u, [net EXCEPT ![s] = q])
  PROVE  ShellInv'
<1> DEFINE n == [net EXCEPT ![s] = q]
<1>1. /\ ServerOK' /\ NetOK(net)
      /\ ListOK(ui, net, mine, excused) /\ KeysOK(ui, net, keys.live, excused)
      /\ mine' = mine /\ (keys.live)' = keys.live /\ excused' = excused
  BY Arrival DEF ShellInv, ServerOK
<1>2. NetOK(n)
  BY <1>1, SlotTaken
<1>3. ~(q # None /\ q.stage = "ok")
  OBVIOUS
<1>4. ListOK(ui, n, mine, excused)
  BY <1>1, <1>3, OtherSlot DEF ListOK
<1>5. KeysOK(ui, n, keys.live, excused)
  BY <1>1, <1>3, OtherSlot DEF KeysOK
<1> HIDE DEF n
<1>6. ListOK(u, n, mine, excused) /\ KeysOK(u, n, keys.live, excused)
  BY <1>4, <1>5 DEF ListOK, KeysOK, UpToDate
<1>7. Ready(u, n, mine', (keys.live)', excused')
  BY <1>1, <1>2, <1>6 DEF Ready, n
<1> QED BY <1>1, <1>7, ShellRendered DEF n

(* An answer is taken, and the list of workspaces asked for.               *)
LEMMA ListAsked ==
  ASSUME ShellInv, NEW s \in Slots, net[s] # None,
         UNCHANGED <<mine, created, keys, faults, gestures, excused>>,
         net[s].op \notin {"keys"} \cup KeyCauses,
         NEW q, Fits(q), q # None, q.stage = "sent", q.op = "list",
         NEW u, PageOK(u), u.keys = ui.keys, "account" \in u.open => "account" \in ui.open,
         RunsMatch(u.busy, [net EXCEPT ![s] = q]), Render(u, [net EXCEPT ![s] = q])
  PROVE  ShellInv'
<1> DEFINE n == [net EXCEPT ![s] = q]
<1>1. /\ ServerOK' /\ NetOK(net) /\ KeysOK(ui, net, keys.live, excused)
      /\ mine' = mine /\ (keys.live)' = keys.live /\ excused' = excused
  BY Arrival DEF ShellInv, ServerOK
<1>2. NetOK(n)
  BY <1>1, SlotTaken
<1>3. Awaited(n, "list", ListCauses)
  BY <1>1, AwaitedNow
<1>4. KeysOK(ui, n, keys.live, excused)
  BY <1>1, OtherSlot DEF KeysOK
<1> HIDE DEF n
<1>5. ListOK(u, n, mine, excused)
  BY <1>3, AwaitedIsEnough DEF ListOK
<1>6. KeysOK(u, n, keys.live, excused)
  BY <1>4 DEF KeysOK, UpToDate
<1>7. Ready(u, n, mine', (keys.live)', excused')
  BY <1>1, <1>2, <1>5, <1>6 DEF Ready, n
<1> QED BY <1>1, <1>7, ShellRendered DEF n

LEMMA RefreshFits ==
  ASSUME NEW then \in {"stop", "land"}
  PROVE  LET q == Refresh(then)
         IN  /\ Fits(q) /\ q # None /\ q.stage = "sent" /\ q.op = "list" /\ q.by = None
             /\ q.then = then
<1>1. then # "run" /\ then \in {"stop", "run", "land"}
  OBVIOUS
<1> QED BY <1>1, AskFits DEF Refresh, Ops, Writes, Operations

LEMMA TakeMeStep ==
  ASSUME ShellInv, NEW s \in Slots, TakeMe(s)
  PROVE  ShellInv'
<1>1. /\ net[s] # None /\ net[s].op = "me"
      /\ UNCHANGED <<mine, created, keys, faults, gestures, excused>>
  BY DEF TakeMe, Server
<1>2. /\ PageOK(ui) /\ NetOK(net) /\ RunsMatch(ui.busy, net) /\ Fits(net[s])
  BY <1>1, Arrival DEF ShellInv, ServerOK
<1>3. net[s].by = None
  BY <1>1, <1>2 DEF Fits
<1>4. \A r \in Panels : ~Running(net[s], r)
  BY <1>3, NotRunning
<1>5. CASE /\ net[s].stage = "anonymous"
           /\ Render([ui EXCEPT !.me = "demo"], [net EXCEPT ![s] = None])
  <2> DEFINE u == [ui EXCEPT !.me = "demo"]
  <2>1. /\ PageOK(u) /\ u.me = "demo" /\ u.list = ui.list /\ u.keys = ui.keys
        /\ u.open = ui.open /\ u.busy = ui.busy
    BY <1>2 DEF PageOK, UI
  <2> HIDE DEF u
  <2>2. RunsMatch(u.busy, [net EXCEPT ![s] = None])
    BY <1>2, <1>4, <2>1, NotRunning, RunsKept
  <2>3. net[s].op \notin {"list", "keys"} \cup ListCauses \cup KeyCauses
    BY <1>1 DEF ListCauses, KeyCauses
  <2>4. Render(u, [net EXCEPT ![s] = None])
    BY <1>5 DEF u
  <2> QED BY <1>1, <2>1, <2>2, <2>3, <2>4, QuietArrival
<1>6. CASE /\ net[s].stage = "ok"
           /\ Render([ui EXCEPT !.me = "account"], [net EXCEPT ![s] = Refresh("stop")])
  <2> DEFINE u == [ui EXCEPT !.me = "account"]
             q == Refresh("stop")
  <2>1. PageOK(u) /\ u.keys = ui.keys /\ u.open = ui.open /\ u.busy = ui.busy
    BY <1>2 DEF PageOK, UI
  <2>2. Fits(q) /\ q # None /\ q.stage = "sent" /\ q.op = "list" /\ q.by = None
    BY RefreshFits
  <2>3. Render(u, [net EXCEPT ![s] = q])
    BY <1>6
  <2> HIDE DEF u, q
  <2>4. RunsMatch(u.busy, [net EXCEPT ![s] = q])
    BY <1>2, <1>4, <2>1, <2>2, NotRunning, RunsKept
  <2>5. net[s].op \notin {"keys"} \cup KeyCauses
    BY <1>1 DEF KeyCauses
  <2> QED BY <1>1, <2>1, <2>2, <2>3, <2>4, <2>5, ListAsked
<1> QED BY <1>5, <1>6 DEF TakeMe, Gone, Follow

(* A list is taken: an overtaken one is excused, any other is true or to   *)
(* be asked for again.                                                     *)
LEMMA TakenList ==
  ASSUME NEW show, NEW n, NetOK(n), NEW op, NEW causes, NEW shown, NEW truth, NEW ex, NEW after,
         op \notin causes, op \notin {"failed", "others"},
         UpToDate(show, op, causes, shown, truth, n, ex),
         NEW s \in Slots, n[s] # None, n[s].op = op, n[s].stage = "ok",
         after = IF n[s].old THEN ex \cup {op} ELSE ex \ {op},
         NEW display
  PROVE  UpToDate(display, op, causes, n[s].val, truth, [n EXCEPT ![s] = None], after)
<1> DEFINE m == [n EXCEPT ![s] = None]
<1>1. CASE ex \cap {"failed", "others"} # {}
  <2>1. after \cap {"failed", "others"} # {}
    BY <1>1
  <2> QED BY <2>1 DEF UpToDate
<1>2. CASE Honest(n, op, causes, truth)
  <2>1. Awaited(n, op, causes) => Awaited(m, op, causes)
    BY AwaitedKept
  <2>2. \A t \in Slots : m[t] # None => m[t] = n[t]
    BY DEF NetOK
  <2> HIDE DEF m
  <2>3. Honest(m, op, causes, truth)
    BY <1>2, <2>1, <2>2 DEF Honest
  <2>4. CASE n[s].old
    <3>1. op \in after
      BY <2>4
    <3>2. UpToDate(display, op, causes, n[s].val, truth, m, after)
      BY <2>3, <3>1 DEF UpToDate
    <3> QED BY <3>2 DEF m
  <2>5. CASE ~n[s].old
    <3>1. n[s].val = truth \/ Awaited(m, op, causes)
      BY <1>2, <2>1, <2>5 DEF Honest
    <3>2. UpToDate(display, op, causes, n[s].val, truth, m, after)
      BY <2>3, <3>1 DEF UpToDate
    <3> QED BY <3>2 DEF m
  <2> QED BY <2>4, <2>5
<1> QED BY <1>1, <1>2 DEF UpToDate

LEMMA OtherExcuse ==
  ASSUME NEW show, NEW n, NEW op, NEW causes, NEW shown, NEW truth, NEW ex, NEW after, NEW taken,
         UpToDate(show, op, causes, shown, truth, n, ex),
         taken # op, taken \notin {"failed", "others"},
         after = ex \cup {taken} \/ after = ex \ {taken}
  PROVE  UpToDate(show, op, causes, shown, truth, n, after)
<1>1. op \in ex => op \in after
  OBVIOUS
<1>2. ex \cap {"failed", "others"} # {} => after \cap {"failed", "others"} # {}
  OBVIOUS
<1> QED BY <1>1, <1>2 DEF UpToDate

LEMMA TakeListStep ==
  ASSUME ShellInv, NEW s \in Slots, TakeList(s)
  PROVE  ShellInv'
<1> DEFINE q == net[s]
           u == [ui EXCEPT !.list = q.val]
           r == IF q.val = {} THEN None ELSE Max(q.val)
           v == IF q.then = "land" THEN Replaced(u, r) ELSE u
           n == [net EXCEPT ![s] = None]
<1>1. /\ q # None /\ q.stage = "ok" /\ q.op = "list"
      /\ Render(v, n)
      /\ excused' = IF q.old THEN excused \cup {"list"} ELSE excused \ {"list"}
      /\ UNCHANGED <<mine, created, keys, faults, gestures>>
  BY DEF TakeList, Arrived, Gone, Overtaken, Server
<1>2. excused' \subseteq {"failed", "others", "list", "keys"}
  BY <1>1 DEF ShellInv, ServerOK
<1>3. /\ ServerOK' /\ PageOK(ui) /\ NetOK(net) /\ RunsMatch(ui.busy, net) /\ Fits(q)
      /\ ListOK(ui, net, mine, excused) /\ KeysOK(ui, net, keys.live, excused)
      /\ mine' = mine /\ (keys.live)' = keys.live
  BY <1>1, <1>2, Arrival
<1>4. q.val \subseteq Workspaces /\ q.by = None
  BY <1>1, <1>3 DEF Fits
<1>5. PageOK(u) /\ u.list = q.val /\ u.keys = ui.keys /\ u.open = ui.open /\ u.busy = ui.busy
  BY <1>3, <1>4 DEF PageOK, UI
<1>6. r \in Routes
  <2>1. CASE q.val = {}
    BY <2>1 DEF Routes
  <2>2. CASE q.val # {}
    <3>1. q.val \in SUBSET (0..MaxWorkspaces) /\ MaxWorkspaces \in Nat
      BY ShellAssumption, <1>4 DEF Workspaces
    <3>2. Max(q.val) \in q.val
      BY <2>2, <3>1, Extremes
    <3> QED BY <1>4, <2>2, <3>2 DEF Routes
  <2> QED BY <2>1, <2>2
<1> HIDE DEF u, r
<1>7. PageOK(v) /\ v.list = q.val /\ v.keys = ui.keys /\ v.open = ui.open /\ v.busy = ui.busy
  BY <1>5, <1>6, ReplacedPage DEF SameButRoutes
<1> HIDE DEF v
<1>8. NetOK(n)
  BY <1>3, SlotTaken
<1>9. RunsMatch(v.busy, n)
  BY <1>3, <1>4, <1>7, NotRunning, RunsKept
<1>10. ListOK(v, n, mine, excused')
  <2>1. "list" \notin ListCauses /\ "list" \notin {"failed", "others"}
    BY DEF ListCauses
  <2>2. UpToDate(ui.me = "account", "list", ListCauses, ui.list, mine, net, excused)
    BY <1>3 DEF ListOK
  <2>3. UpToDate(v.me = "account", "list", ListCauses, q.val, mine, n, excused')
    BY <1>1, <1>3, <2>1, <2>2, TakenList
  <2> QED BY <1>7, <2>3 DEF ListOK
<1>11. KeysOK(v, n, keys.live, excused')
  <2>1. UpToDate("account" \in ui.open, "keys", KeyCauses, ui.keys, keys.live, n, excused)
    BY <1>1, <1>3, OtherSlot DEF KeysOK, KeyCauses
  <2> HIDE DEF n
  <2>2. UpToDate("account" \in ui.open, "keys", KeyCauses, ui.keys, keys.live, n, excused')
    BY <1>1, <2>1, OtherExcuse
  <2> QED BY <1>7, <2>2 DEF KeysOK
<1> HIDE DEF n
<1>12. Ready(v, n, mine', (keys.live)', excused')
  BY <1>3, <1>7, <1>8, <1>9, <1>10, <1>11 DEF Ready
<1> QED BY <1>1, <1>3, <1>12, ShellRendered

LEMMA TakeKeysStep ==
  ASSUME ShellInv, NEW s \in Slots, TakeKeys(s)
  PROVE  ShellInv'
<1> DEFINE q == net[s]
           u == [ui EXCEPT !.keys = q.val]
           v == IF q.then = "run" THEN Released(u, q) ELSE u
           n == [net EXCEPT ![s] = None]
<1>1. /\ q # None /\ q.stage = "ok" /\ q.op = "keys"
      /\ Render(v, n)
      /\ excused' = IF q.old THEN excused \cup {"keys"} ELSE excused \ {"keys"}
      /\ UNCHANGED <<mine, created, keys, faults, gestures>>
  BY DEF TakeKeys, Arrived, Gone, Overtaken, Server
<1>2. excused' \subseteq {"failed", "others", "list", "keys"}
  BY <1>1 DEF ShellInv, ServerOK
<1>3. /\ ServerOK' /\ PageOK(ui) /\ NetOK(net) /\ RunsMatch(ui.busy, net) /\ Fits(q)
      /\ ui.busy \in [Panels -> BOOLEAN]
      /\ ListOK(ui, net, mine, excused) /\ KeysOK(ui, net, keys.live, excused)
      /\ mine' = mine /\ (keys.live)' = keys.live
  BY <1>1, <1>2, Arrival
<1>4. q.val \subseteq 1..MaxKeys /\ q.by \in Panels
  BY <1>1, <1>3 DEF Fits, Panels
<1>5. /\ PageOK(u) /\ u.me = ui.me /\ u.list = ui.list /\ u.keys = q.val /\ u.open = ui.open
      /\ u.busy = ui.busy
  BY <1>3, <1>4 DEF PageOK, UI
<1> HIDE DEF u
<1>6. /\ PageOK(v) /\ v.me = ui.me /\ v.list = ui.list /\ v.keys = q.val /\ v.open = ui.open
      /\ v.busy = IF q.then = "run" /\ q.alive THEN [ui.busy EXCEPT ![q.by] = FALSE] ELSE ui.busy
  BY <1>4, <1>5, ReleasedPage
<1> HIDE DEF v
<1>7. NetOK(n)
  BY <1>3, SlotTaken
<1>8. RunsMatch(v.busy, n)
  <2>1. CASE q.then = "run"
    <3>1. v.busy = IF q.alive THEN [ui.busy EXCEPT ![q.by] = FALSE] ELSE ui.busy
      BY <1>6, <2>1
    <3> QED BY <1>1, <1>3, <1>4, <2>1, <3>1, NotRunning, RunsEnd
  <2>2. CASE q.then # "run"
    BY <1>3, <1>6, <2>2, NotRunning, RunsKept
  <2> QED BY <2>1, <2>2
<1>9. KeysOK(v, n, keys.live, excused')
  <2>1. "keys" \notin KeyCauses /\ "keys" \notin {"failed", "others"}
    BY DEF KeyCauses
  <2>2. UpToDate("account" \in ui.open, "keys", KeyCauses, ui.keys, keys.live, net, excused)
    BY <1>3 DEF KeysOK
  <2>3. UpToDate("account" \in v.open, "keys", KeyCauses, q.val, keys.live, n, excused')
    BY <1>1, <1>3, <2>1, <2>2, TakenList
  <2> QED BY <1>6, <2>3 DEF KeysOK
<1>10. ListOK(v, n, mine, excused')
  <2>1. UpToDate(ui.me = "account", "list", ListCauses, ui.list, mine, n, excused)
    BY <1>1, <1>3, OtherSlot DEF ListOK, ListCauses
  <2> HIDE DEF n
  <2>2. UpToDate(ui.me = "account", "list", ListCauses, ui.list, mine, n, excused')
    BY <1>1, <2>1, OtherExcuse
  <2> QED BY <1>6, <2>2 DEF ListOK
<1> HIDE DEF n
<1>11. Ready(v, n, mine', (keys.live)', excused')
  BY <1>3, <1>6, <1>7, <1>8, <1>9, <1>10 DEF Ready
<1> QED BY <1>1, <1>3, <1>11, ShellRendered

LEMMA TakeDetailStep ==
  ASSUME ShellInv, NEW s \in Slots, TakeDetail(s)
  PROVE  ShellInv'
<1> DEFINE q == net[s]
           Listed(m) == IF q.alive THEN [ui EXCEPT !.roster = @ \cup {q.by}, !.menus = m] ELSE ui
<1>0. /\ q # None /\ q.stage = "ok" /\ q.op = "detail"
      /\ UNCHANGED <<mine, created, keys, faults, gestures, excused>>
  BY DEF TakeDetail, Arrived, Server
<1>m. PICK m \in 0..ui.menus :
        IF q.then = "run" THEN Render(Released(Listed(m), q), [net EXCEPT ![s] = Refresh("stop")])
                          ELSE Render(Listed(m), [net EXCEPT ![s] = None])
  BY DEF TakeDetail, Gone, Follow
<1> DEFINE u == Listed(m)
           v == Released(u, q)
           a == Refresh("stop")
<1>1. /\ q # None /\ q.stage = "ok" /\ q.op = "detail"
      /\ IF q.then = "run" THEN Render(v, [net EXCEPT ![s] = a])
                           ELSE Render(u, [net EXCEPT ![s] = None])
      /\ UNCHANGED <<mine, created, keys, faults, gestures, excused>>
  BY <1>0, <1>m
<1>2. /\ PageOK(ui) /\ NetOK(net) /\ RunsMatch(ui.busy, net) /\ Fits(q)
      /\ ui.busy \in [Panels -> BOOLEAN]
  BY <1>1, Arrival DEF ShellInv, ServerOK
<1>3. q.by \in Rosters /\ q.by \in Panels
  BY <1>1, <1>2 DEF Fits, Panels, Rosters
<1>4. /\ PageOK(u) /\ u.me = ui.me /\ u.list = ui.list /\ u.keys = ui.keys /\ u.open = ui.open
      /\ u.busy = ui.busy
  <2>1. m \in 0..MaxMenus
    BY ShellAssumption, <1>2, <1>m DEF PageOK, UI
  <2> QED BY <1>2, <1>3, <2>1 DEF PageOK, UI
<1> HIDE DEF u
<1>5. /\ PageOK(v) /\ v.keys = ui.keys /\ v.open = ui.open
      /\ v.busy = IF q.alive THEN [ui.busy EXCEPT ![q.by] = FALSE] ELSE ui.busy
  BY <1>3, <1>4, ReleasedPage
<1>6. Fits(a) /\ a # None /\ a.stage = "sent" /\ a.op = "list" /\ a.by = None
  BY RefreshFits
<1> HIDE DEF v, a
<1>7. CASE q.then = "run"
  <2>1. RunsMatch(v.busy, [net EXCEPT ![s] = a])
    BY <1>1, <1>2, <1>3, <1>5, <1>6, <1>7, NotRunning, RunsEnd
  <2>2. q.op \notin {"keys"} \cup KeyCauses
    BY <1>1 DEF KeyCauses
  <2>3. Render(v, [net EXCEPT ![s] = a])
    BY <1>1, <1>7
  <2> QED BY <1>1, <1>5, <1>6, <2>1, <2>2, <2>3, ListAsked
<1>8. CASE q.then # "run"
  <2>1. RunsMatch(u.busy, [net EXCEPT ![s] = None])
    BY <1>2, <1>4, <1>8, NotRunning, RunsKept
  <2>2. q.op \notin {"list", "keys"} \cup ListCauses \cup KeyCauses
    BY <1>1 DEF ListCauses, KeyCauses
  <2>3. Render(u, [net EXCEPT ![s] = None])
    BY <1>1, <1>8
  <2> QED BY <1>1, <1>4, <2>1, <2>2, <2>3, QuietArrival
<1> QED BY <1>7, <1>8

LEMMA TakeChangeStep ==
  ASSUME ShellInv, NEW s \in Slots, TakeChange(s)
  PROVE  ShellInv'
<1> DEFINE q == net[s]
           d == Ask("detail", q.of, q.by, "run")
           a == [d EXCEPT !.alive = q.alive]
<1>1. /\ q # None /\ q.stage = "ok" /\ q.op = "change"
      /\ Render(ui, [net EXCEPT ![s] = a])
      /\ UNCHANGED <<mine, created, keys, faults, gestures, excused>>
  BY DEF TakeChange, Arrived, Follow, Server
<1>2. PageOK(ui) /\ NetOK(net) /\ RunsMatch(ui.busy, net) /\ Fits(q)
  BY <1>1, Arrival DEF ShellInv, ServerOK
<1>3. q.by \in Rosters /\ q.by \in Panels /\ q.then = "run" /\ q.of \in Nat /\ q.alive \in BOOLEAN
  BY <1>1, <1>2 DEF Fits, Panels, Rosters, Request, Writes, Operations
<1>4. /\ Fits(d) /\ d # None /\ d.op = "detail" /\ d.by = q.by /\ d.then = "run"
      /\ d.stage = "sent" /\ ~d.old
  BY <1>3, AskFits DEF Ops
<1> HIDE DEF q, d
<1>5. a \in Request
  BY <1>3, <1>4 DEF Fits, Request
<1>6. /\ a.op = "detail" /\ a.by = q.by /\ a.then = "run" /\ a.stage = "sent" /\ ~a.old
      /\ a.alive = q.alive
  BY <1>4 DEF Fits, Request
<1> HIDE DEF a
<1>7. a # None /\ Fits(a)
  BY NoneAssumption, <1>3, <1>5, <1>6 DEF Fits
<1>8. \A p \in Panels : Running(a, p) <=> Running(q, p)
  BY <1>1, <1>3, <1>6, <1>7 DEF Running
<1>9. RunsMatch(ui.busy, [net EXCEPT ![s] = a])
  BY <1>2, <1>8, RunsKept DEF q
<1>10. q.op \notin {"list", "keys"} \cup ListCauses \cup KeyCauses
  BY <1>1 DEF ListCauses, KeyCauses
<1> QED BY <1>1, <1>2, <1>6, <1>7, <1>9, <1>10, QuietArrival DEF q

LEMMA TakeLeaveStep ==
  ASSUME ShellInv, NEW s \in Slots, TakeLeave(s)
  PROVE  ShellInv'
<1> DEFINE q == net[s]
           close == q.by = "settings" \/ q.alive
           u == [ui EXCEPT !.open = IF close THEN @ \ {q.by} ELSE @]
           v == Released(u, q)
           a == Refresh("land")
<1>1. /\ q # None /\ q.stage = "ok" /\ q.op = "leave"
      /\ Render(v, [net EXCEPT ![s] = a])
      /\ UNCHANGED <<mine, created, keys, faults, gestures, excused>>
  BY DEF TakeLeave, Arrived, Follow, Server
<1>2. /\ PageOK(ui) /\ NetOK(net) /\ RunsMatch(ui.busy, net) /\ Fits(q)
      /\ ui.busy \in [Panels -> BOOLEAN]
  BY <1>1, Arrival DEF ShellInv, ServerOK
<1>3. q.by \in Panels /\ q.then = "run"
  BY <1>1, <1>2 DEF Fits, Panels, Rosters, Writes, Operations
<1>4. /\ PageOK(u) /\ u.keys = ui.keys /\ u.busy = ui.busy
      /\ "account" \in u.open => "account" \in ui.open
  BY <1>2 DEF PageOK, UI
<1> HIDE DEF u
<1>5. /\ PageOK(v) /\ v.keys = ui.keys /\ v.open = u.open
      /\ v.busy = IF q.alive THEN [ui.busy EXCEPT ![q.by] = FALSE] ELSE ui.busy
  BY <1>3, <1>4, ReleasedPage
<1>6. Fits(a) /\ a # None /\ a.stage = "sent" /\ a.op = "list" /\ a.by = None
  BY RefreshFits
<1> HIDE DEF v, a
<1>7. RunsMatch(v.busy, [net EXCEPT ![s] = a])
  BY <1>1, <1>2, <1>3, <1>5, <1>6, NotRunning, RunsEnd
<1>8. q.op \notin {"keys"} \cup KeyCauses
  BY <1>1 DEF KeyCauses
<1> QED BY <1>1, <1>4, <1>5, <1>6, <1>7, <1>8, ListAsked

LEMMA TakeMintStep ==
  ASSUME ShellInv, NEW s \in Slots, TakeMint(s)
  PROVE  ShellInv'
<1> DEFINE q == net[s]
           u == IF q.alive THEN [ui EXCEPT !.link = TRUE] ELSE ui
           d == Ask("copy", q.of, q.by, "run")
           a == [d EXCEPT !.alive = q.alive]
<1>1. /\ q # None /\ q.stage = "ok" /\ q.op = "mint"
      /\ Render(u, [net EXCEPT ![s] = a])
      /\ UNCHANGED <<mine, created, keys, faults, gestures, excused>>
  BY DEF TakeMint, Arrived, Follow, Server
<1>2. /\ PageOK(ui) /\ NetOK(net) /\ RunsMatch(ui.busy, net) /\ Fits(q)
  BY <1>1, Arrival DEF ShellInv, ServerOK
<1>3. q.by \in Rosters /\ q.by \in Panels /\ q.then = "run" /\ q.of \in Nat /\ q.alive \in BOOLEAN
  BY <1>1, <1>2 DEF Fits, Panels, Rosters, Request, Writes, Operations
<1>4. /\ PageOK(u) /\ u.me = ui.me /\ u.list = ui.list /\ u.keys = ui.keys /\ u.open = ui.open
      /\ u.busy = ui.busy
  BY <1>2 DEF PageOK, UI
<1>5. /\ Fits(d) /\ d # None /\ d.op = "copy" /\ d.by = q.by /\ d.then = "run"
      /\ d.stage = "sent" /\ ~d.old
  BY <1>3, AskFits DEF Ops, Writes, Operations
<1> HIDE DEF q, d, u
<1>6. a \in Request
  BY <1>3, <1>5 DEF Fits, Request
<1>7. /\ a.op = "copy" /\ a.by = q.by /\ a.then = "run" /\ a.stage = "sent" /\ ~a.old
      /\ a.alive = q.alive
  BY <1>5 DEF Fits, Request
<1> HIDE DEF a
<1>8. a # None /\ Fits(a)
  BY NoneAssumption, <1>3, <1>6, <1>7 DEF Fits, Writes, Operations
<1>9. \A p \in Panels : Running(a, p) <=> Running(q, p)
  BY <1>1, <1>3, <1>7, <1>8 DEF Running
<1>10. RunsMatch(u.busy, [net EXCEPT ![s] = a])
  BY <1>2, <1>4, <1>9, RunsKept DEF q
<1>11. q.op \notin {"list", "keys"} \cup ListCauses \cup KeyCauses
  BY <1>1 DEF ListCauses, KeyCauses
<1> QED BY <1>1, <1>4, <1>7, <1>8, <1>10, <1>11, QuietArrival DEF q

LEMMA TakeCopyStep ==
  ASSUME ShellInv, NEW s \in Slots, TakeCopy(s)
  PROVE  ShellInv'
<1> DEFINE q == net[s]
           v == Released(ui, q)
<1>1. /\ q # None /\ q.op = "copy"
      /\ Render(v, [net EXCEPT ![s] = None])
      /\ UNCHANGED <<mine, created, keys, faults, gestures, excused>>
  BY DEF TakeCopy, Sent, Gone, Server
<1>2. /\ PageOK(ui) /\ NetOK(net) /\ RunsMatch(ui.busy, net) /\ Fits(q)
      /\ ui.busy \in [Panels -> BOOLEAN]
  BY <1>1, Arrival DEF ShellInv, ServerOK
<1>3. q.by \in Panels /\ q.then = "run"
  BY <1>1, <1>2 DEF Fits, Panels, Rosters
<1>4. /\ PageOK(v) /\ v.me = ui.me /\ v.list = ui.list /\ v.keys = ui.keys /\ v.open = ui.open
      /\ v.busy = IF q.alive THEN [ui.busy EXCEPT ![q.by] = FALSE] ELSE ui.busy
  BY <1>2, <1>3, ReleasedPage
<1> HIDE DEF v
<1>5. RunsMatch(v.busy, [net EXCEPT ![s] = None])
  BY <1>1, <1>2, <1>3, <1>4, NotRunning, RunsEnd
<1>6. q.op \notin {"list", "keys"} \cup ListCauses \cup KeyCauses
  BY <1>1 DEF ListCauses, KeyCauses
<1> QED BY <1>1, <1>4, <1>5, <1>6, QuietArrival

LEMMA TakeCreateStep ==
  ASSUME ShellInv, NEW s \in Slots, TakeCreate(s)
  PROVE  ShellInv'
<1> DEFINE q == net[s]
           o == [ui EXCEPT !.open = @ \ {"new"}]
           u == Released(o, q)
           w == Max(q.val)
           v == Pushed(u, w)
           a == Refresh("stop")
<1>1. /\ q # None /\ q.stage = "ok" /\ q.op = "create"
      /\ Render(v, [net EXCEPT ![s] = a])
      /\ UNCHANGED <<mine, created, keys, faults, gestures, excused>>
  BY DEF TakeCreate, Arrived, Follow, Server
<1>2. /\ PageOK(ui) /\ NetOK(net) /\ RunsMatch(ui.busy, net) /\ Fits(q)
      /\ ui.busy \in [Panels -> BOOLEAN]
  BY <1>1, Arrival DEF ShellInv, ServerOK
<1>3. q.by \in Panels /\ q.then = "run"
  BY <1>1, <1>2 DEF Fits, Panels, Writes, Operations
<1>4. w \in Routes
  <2>1. PICK x \in Workspaces : q.val = {x}
    BY <1>1, <1>2 DEF Fits
  <2>2. q.val \in SUBSET (0..MaxWorkspaces) /\ q.val # {} /\ MaxWorkspaces \in Nat
    BY ShellAssumption, <2>1 DEF Workspaces
  <2>3. w \in q.val
    BY <2>2, Extremes
  <2> QED BY <2>1, <2>3 DEF Routes
<1>5. /\ PageOK(o) /\ o.keys = ui.keys /\ o.busy = ui.busy
      /\ "account" \in o.open => "account" \in ui.open
  BY <1>2 DEF PageOK, UI
<1> HIDE DEF o, w
<1>6. /\ PageOK(u) /\ u.keys = ui.keys /\ u.open = o.open
      /\ u.busy = IF q.alive THEN [ui.busy EXCEPT ![q.by] = FALSE] ELSE ui.busy
  BY <1>3, <1>5, ReleasedPage
<1> HIDE DEF u
<1>7. PageOK(v) /\ SameButRoutes(u, v)
  BY <1>4, <1>6, PushedPage
<1>8. /\ v.keys = ui.keys /\ "account" \in v.open => "account" \in ui.open
      /\ v.busy = IF q.alive THEN [ui.busy EXCEPT ![q.by] = FALSE] ELSE ui.busy
  BY <1>5, <1>6, <1>7 DEF SameButRoutes
<1>9. Fits(a) /\ a # None /\ a.stage = "sent" /\ a.op = "list" /\ a.by = None
  BY RefreshFits
<1> HIDE DEF v, a
<1>10. RunsMatch(v.busy, [net EXCEPT ![s] = a])
  BY <1>1, <1>2, <1>3, <1>8, <1>9, NotRunning, RunsEnd
<1>11. q.op \notin {"keys"} \cup KeyCauses
  BY <1>1 DEF KeyCauses
<1>12. v.keys = ui.keys /\ ("account" \in v.open => "account" \in ui.open)
  BY <1>5, <1>6, <1>7 DEF SameButRoutes
<1> QED BY <1>1, <1>7, <1>9, <1>10, <1>11, <1>12, ListAsked

LEMMA TakeKeyChangeStep ==
  ASSUME ShellInv, NEW s \in Slots, TakeKeyChange(s)
  PROVE  ShellInv'
<1> DEFINE q == net[s]
           u == [ui EXCEPT !.minted = @ \/ q.op = "generate"]
           a == Ask("keys", 0, q.by, "run")
           n == [net EXCEPT ![s] = a]
<1>1. /\ q # None /\ q.stage = "ok" /\ q.op \in KeyCauses
      /\ Render(u, n)
      /\ UNCHANGED <<mine, created, keys, faults, gestures, excused>>
  BY DEF TakeKeyChange, Arrived, Follow, Server, KeyCauses
<1>2. /\ ServerOK' /\ PageOK(ui) /\ NetOK(net) /\ RunsMatch(ui.busy, net) /\ Fits(q)
      /\ ListOK(ui, net, mine, excused)
      /\ mine' = mine /\ (keys.live)' = keys.live /\ excused' = excused
  BY <1>1, Arrival DEF ShellInv, ServerOK
<1>3. q.by = "account" /\ q.by \in Panels /\ q.then = "run" /\ q.alive
  BY <1>1, <1>2 DEF Fits, Panels, Rosters, KeyCauses, Writes, Operations
<1>4. /\ PageOK(u) /\ u.me = ui.me /\ u.list = ui.list /\ u.keys = ui.keys /\ u.open = ui.open
      /\ u.busy = ui.busy
  BY <1>2 DEF PageOK, UI
<1>5. /\ Fits(a) /\ a # None /\ a.stage = "sent" /\ a.op = "keys" /\ a.by = q.by
      /\ a.then = "run" /\ a.alive
  BY <1>3, AskFits DEF Ops
<1> HIDE DEF u, a
<1>6. NetOK(n)
  BY <1>2, <1>5, SlotTaken
<1>7. RunsMatch(u.busy, n)
  <2>1. \A p \in Panels : Running(a, p) <=> Running(net[s], p)
    BY <1>1, <1>3, <1>5 DEF Running
  <2>2. RunsMatch(ui.busy, n)
    BY <1>2, <2>1, RunsKept
  <2> QED BY <1>4, <2>2
<1>8. Awaited(n, "keys", KeyCauses)
  BY <1>2, <1>5, AwaitedNow
<1>9. ListOK(ui, n, mine, excused)
  BY <1>1, <1>2, <1>5, OtherSlot DEF ListOK, ListCauses, KeyCauses
<1> HIDE DEF n
<1>10. ListOK(u, n, mine, excused) /\ KeysOK(u, n, keys.live, excused)
  BY <1>4, <1>8, <1>9, AwaitedIsEnough DEF ListOK, KeysOK
<1>11. Ready(u, n, mine', (keys.live)', excused')
  BY <1>2, <1>4, <1>6, <1>7, <1>10 DEF Ready
<1> QED BY <1>1, <1>2, <1>11, ShellRendered

LEMMA TakeRefusedStep ==
  ASSUME ShellInv, NEW s \in Slots, TakeRefused(s)
  PROVE  ShellInv'
<1> DEFINE q == net[s]
           v == IF q.by # None /\ q.then # "stop" THEN Released(ui, q) ELSE ui
<1>1. /\ q # None /\ q.stage = "refused"
      /\ Render(v, [net EXCEPT ![s] = None])
      /\ UNCHANGED <<mine, created, keys, faults, gestures, excused>>
  BY DEF TakeRefused, Gone, Server
<1>2. /\ PageOK(ui) /\ NetOK(net) /\ RunsMatch(ui.busy, net) /\ Fits(q) /\ q \in Request
      /\ ui.busy \in [Panels -> BOOLEAN]
  BY <1>1, Arrival DEF ShellInv, ServerOK
<1>3. CASE q.by # None /\ q.then # "stop"
  <2>1. q.by \in Panels
    BY <1>2, <1>3 DEF Request
  <2>2. q.then = "run"
    <3>1. q.then \in {"stop", "run", "land", "gone"} /\ q.then # "gone"
      BY <1>1, <1>2 DEF Fits, Request
    <3>2. q.op \in {"me", "list"} => q.by = None
      BY <1>2 DEF Fits
    <3>3. q.op # "list" => q.then # "land"
      BY <1>2 DEF Fits
    <3> QED BY <1>3, <3>1, <3>2, <3>3
  <2>3. /\ PageOK(v) /\ v.me = ui.me /\ v.list = ui.list /\ v.keys = ui.keys /\ v.open = ui.open
        /\ v.busy = IF q.alive THEN [ui.busy EXCEPT ![q.by] = FALSE] ELSE ui.busy
    BY <1>2, <1>3, <2>1, ReleasedPage
  <2> HIDE DEF v
  <2>4. RunsMatch(v.busy, [net EXCEPT ![s] = None])
    BY <1>1, <1>2, <2>1, <2>2, <2>3, NotRunning, RunsEnd
  <2> QED BY <1>1, <2>3, <2>4, QuietArrival
<1>4. CASE ~(q.by # None /\ q.then # "stop")
  <2>1. v = ui
    BY <1>4
  <2>2. q.by = None \/ q.then # "run"
    BY <1>4
  <2> HIDE DEF v
  <2>3. RunsMatch(ui.busy, [net EXCEPT ![s] = None])
    BY <1>2, <2>2, NotRunning, RunsKept
  <2>4. Render(ui, [net EXCEPT ![s] = None])
    BY <1>1, <2>1
  <2> QED BY <1>1, <1>2, <2>3, <2>4, QuietArrival
<1> QED BY <1>3, <1>4

-----------------------------------------------------------------------------
(* What holds of the shell                                                 *)

LEMMA ShellStep ==
  ASSUME ShellInv, [Next]_vars
  PROVE  ShellInv'
<1>1. CASE UNCHANGED vars
  <2>1. /\ ui' = ui /\ net' = net /\ mine' = mine /\ keys' = keys /\ excused' = excused
        /\ created' = created /\ gestures' = gestures /\ faults' = faults
    BY <1>1 DEF vars
  <2>2. ServerOK' /\ Ready(ui', net', mine', (keys.live)', excused') /\ ~Astray(ui')
    BY <2>1 DEF ShellInv, ServerOK
  <2> QED BY <2>2 DEF ShellInv
<1>2. CASE \E w \in Workspaces \cup {Example} : Select(w)
  BY <1>2, GoStep DEF Select, Routes
<1>3. CASE SelectPersonal
  BY <1>3, GoStep DEF SelectPersonal, Routes
<1>4. CASE Back \/ Forward
  BY <1>4, TravelStep DEF Back, Forward
<1>5. CASE Reload
  BY <1>5, ReloadStep
<1>6. CASE Create
  BY <1>6, PressStep DEF Create, Panels, Rosters, Writes
<1>7. CASE Generate
  BY <1>7, PressStep DEF Generate, Panels, Rosters, Writes
<1>8. CASE \E p \in Panels : Open(p) \/ Close(p)
  BY <1>8, OpenStep, CloseStep
<1>9. CASE \/ \E p \in Rosters, op \in Operations : Manage(p, op)
           \/ \E op \in Operations : PickItem(op)
           \/ OpenMenu \/ CloseMenus
  BY <1>9, ManageStep, PickItemStep, MenuStep
<1>10. CASE \E k \in 1..MaxKeys : Revoke(k)
  <2>1. PICK k \in 1..MaxKeys : Press("account", "revoke", k)
    BY <1>10 DEF Revoke
  <2>2. k \in Nat
    BY ShellAssumption, <2>1
  <2> QED BY <2>1, <2>2, PressStep DEF Panels, Rosters, Writes
<1>11. CASE OthersCreate \/ \E w \in Workspaces : OthersRemove(w)
  BY <1>11, OthersStep
<1>12. CASE \E s \in Slots :
              Identify(s) \/ ServeList(s) \/ ServeMember(s) \/ ServeCreate(s)
              \/ ServeKeyChange(s) \/ Fail(s)
  BY <1>12, IdentifyStep, ServeListStep, ServeMemberStep, ServeCreateStep, ServeKeyChangeStep,
     GoneStep, FailStep
<1>13. CASE \E s \in Slots :
              TakeMe(s) \/ TakeList(s) \/ TakeDetail(s) \/ TakeChange(s)
              \/ TakeLeave(s)
  BY <1>13, TakeMeStep, TakeListStep, TakeDetailStep, TakeChangeStep, TakeLeaveStep
<1>14. CASE \E s \in Slots :
              TakeMint(s) \/ TakeCopy(s) \/ TakeCreate(s) \/ TakeKeyChange(s) \/ TakeKeys(s)
              \/ TakeRefused(s)
  BY <1>14, TakeMintStep, TakeCopyStep, TakeCreateStep, TakeKeyChangeStep, TakeKeysStep, TakeRefusedStep
<1> QED BY <1>1, <1>2, <1>3, <1>4, <1>5, <1>6, <1>7, <1>8, <1>9, <1>10, <1>11, <1>12, <1>13, <1>14
        DEF Next

THEOREM Invariance ==
  Spec => []ShellInv
<1>1. Init => ShellInv
  BY InitStep
<1>2. ShellInv /\ [Next]_vars => ShellInv'
  BY ShellStep
<1> QED BY <1>1, <1>2, PTL DEF Spec

(* Type correctness of the shell.                                          *)
THEOREM TypeCorrect ==
  Spec => []TypeOK
<1>1. ShellInv => TypeOK
  BY DEF ShellInv, Ready, ServerOK, PageOK, NetOK, TypeOK
<1> QED BY <1>1, Invariance, PTL

(* A busy panel has an operation on its way; one without menus is busy     *)
(* exactly while its one operation runs.                                   *)
THEOREM BusyCorrect ==
  Spec => []BusyIsRunning
<1>1. ShellInv => BusyIsRunning
  <2> SUFFICES ASSUME ShellInv, NEW p \in Panels
               PROVE  /\ ui.busy[p] => Runs(p) # {}
                      /\ p # "share" => Cardinality(Runs(p)) = (IF ui.busy[p] THEN 1 ELSE 0)
    BY DEF BusyIsRunning
  <2>1. RunsMatch(ui.busy, net) /\ ui.busy[p] \in BOOLEAN
    BY DEF ShellInv, Ready, PageOK, UI
  <2>2. Runs(p) = { s \in Slots : Running(net[s], p) }
    BY DEF Runs, Running
  <2>3. CASE ui.busy[p]
    <3>1. PICK s \in Slots : Running(net[s], p)
      BY <2>1, <2>3 DEF RunsMatch
    <3>2. p # "share" => Runs(p) = {s}
      BY <2>1, <2>2, <3>1 DEF RunsMatch
    <3>3. p # "share" => Cardinality(Runs(p)) = 1
      BY <3>2, FS_Singleton
    <3> QED BY <2>2, <2>3, <3>1, <3>3
  <2>4. CASE ~ui.busy[p]
    <3>1. p # "share" => Runs(p) = {}
      BY <2>1, <2>2, <2>4 DEF RunsMatch
    <3>2. p # "share" => Cardinality(Runs(p)) = 0
      BY <3>1, FS_EmptySet
    <3> QED BY <2>4, <3>2
  <2> QED BY <2>1, <2>3, <2>4
<1> QED BY <1>1, Invariance, PTL

(* At rest the sidebar, the URL and the list of keys are the account's.    *)
THEOREM IdleCorrect ==
  Spec => []IdleOnMine
<1>1. ShellInv => IdleOnMine
  <2> SUFFICES ASSUME ShellInv, Idle, excused = {}
               PROVE  /\ ui.list = mine
                      /\ Route(ui) \notin mine => Route(ui) = Personal \/ mine = {}
                      /\ "account" \in ui.open => ui.keys = keys.live
    BY DEF IdleOnMine
  <2>1. ui.me = "account" /\ \A s \in Slots : net[s] = None
    BY DEF Idle
  <2>2. ~Awaited(net, "list", ListCauses) /\ ~Awaited(net, "keys", KeyCauses)
    BY <2>1 DEF Awaited
  <2>3. ui.list = mine
    BY <2>1, <2>2 DEF ShellInv, Ready, ListOK, UpToDate
  <2>4. "account" \in ui.open => ui.keys = keys.live
    BY <2>1, <2>2 DEF ShellInv, Ready, KeysOK, UpToDate
  <2>5. Route(ui) \notin mine => Route(ui) = Personal \/ mine = {}
    BY <2>1, <2>3 DEF ShellInv, Astray, Shown
  <2> QED BY <2>3, <2>4, <2>5
<1> QED BY <1>1, Invariance, PTL

(* Back and Forward lose no entry but the one they arrive at.              *)
THEOREM HistoryCorrect ==
  Spec => HistoryKept
<1> DEFINE Kept == /\ DOMAIN ui'.hist = DOMAIN ui.hist
                   /\ \A i \in DOMAIN ui.hist \ {ui'.pos} : ui'.hist[i] = ui.hist[i]
<1>1. ASSUME ShellInv, NEW step \in Int, Travel(step)
      PROVE  Kept
  <2> DEFINE u == [ui EXCEPT !.pos = @ + step]
             w == Unmounted(u)
             v == Landed(w)
  <2>1. PageOK(u) /\ u.hist = ui.hist
    BY <1>1, TravelledPage DEF ShellInv, Ready
  <2>2. Render(u, net)
    BY <1>1 DEF Travel
  <2> HIDE DEF u
  <2>3. PageOK(w) /\ w.hist = u.hist
    BY <2>1, UnmountedPage
  <2>4. PageOK(v)
    BY <2>3, LandedPage
  <2>5. /\ v.pos = w.pos /\ DOMAIN v.hist = DOMAIN w.hist
        /\ \A i \in DOMAIN w.hist \ {w.pos} : v.hist[i] = w.hist[i]
    BY <2>3 DEF Landed, Replaced, PageOK, UI
  <2>6. ui' = v \/ \E b : ui' = [v EXCEPT !.link = b]
    BY <2>2 DEF Render
  <2> HIDE DEF w, v
  <2>7. ui'.hist = v.hist /\ ui'.pos = v.pos
    BY <2>4, <2>6 DEF PageOK, UI
  <2> QED BY <2>1, <2>3, <2>5, <2>7
<1>2. ShellInv /\ (Back \/ Forward) => Kept
  BY <1>1 DEF Back, Forward
<1> QED BY <1>2, Invariance, PTL DEF HistoryKept
=============================================================================
