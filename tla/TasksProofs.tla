----------------------------- MODULE TasksProofs -----------------------------
(***************************************************************************)
(* Theorems about Tasks, for every set of workspaces, boards, graphs and   *)
(* requests and every width of window, chunk and edge that the assumption  *)
(* allows.                                                                 *)
(***************************************************************************)
EXTENDS Tasks, FiniteSetTheorems, WellFoundedInduction, TLAPS

-----------------------------------------------------------------------------
(* Least and greatest elements                                             *)

(* Min and Max of two integers. *)
LEMMA TwoMin ==
  ASSUME NEW a \in Int, NEW b \in Int
  PROVE  /\ Min({a, b}) \in {a, b} /\ Min({a, b}) <= a /\ Min({a, b}) <= b
         /\ Max({a, b}) \in {a, b} /\ Max({a, b}) >= a /\ Max({a, b}) >= b
<1>1. \E x \in {a, b} : \A y \in {a, b} : x <= y
  OBVIOUS
<1>2. \E x \in {a, b} : \A y \in {a, b} : x >= y
  OBVIOUS
<1>3. Min({a, b}) \in {a, b} /\ \A y \in {a, b} : Min({a, b}) <= y
  BY <1>1 DEF Min
<1>4. Max({a, b}) \in {a, b} /\ \A y \in {a, b} : Max({a, b}) >= y
  BY <1>2 DEF Max
<1> QED BY <1>3, <1>4

(* A nonempty set of tasks has one of the least value: of the sets without *)
(* one, a smallest would have it among its other elements or in the one    *)
(* taken away.                                                             *)
LEMMA LeastTask ==
  ASSUME NEW f \in [Ranks -> Int], NEW T \in SUBSET Ranks, T # {}
  PROVE  \E t \in T : \A u \in T : f[t] <= f[u]
<1> DEFINE Least(U) == \E t \in U : \A u \in U : f[t] <= f[u]
           Bad == { U \in SUBSET Ranks : U # {} /\ ~Least(U) }
<1> SUFFICES ASSUME Bad # {} PROVE FALSE
  OBVIOUS
<1>1. IsFiniteSet(Ranks)
  <2>1. 1 \in Int /\ MaxTasks \in Int
    BY TasksAssumption
  <2> QED BY <2>1, FS_Interval DEF Ranks
<1>2. IsWellFoundedOn(StrictSubsetOrdering(Ranks), SUBSET Ranks)
  BY <1>1, FS_FiniteSubsetsOfFinite, FS_StrictSubsetOrderingWellFounded
<1>3. Bad \subseteq SUBSET Ranks
  OBVIOUS
<1> HIDE DEF Bad
<1>4. PICK U \in Bad : \A V \in Bad : <<V, U>> \notin StrictSubsetOrdering(Ranks)
  BY <1>2, <1>3, WFMin
<1>5. U \in SUBSET Ranks /\ U # {} /\ ~Least(U)
  BY DEF Bad
<1>6. PICK x \in U : TRUE
  BY <1>5
<1>7. U \ {x} \notin Bad
  <2>1. <<U \ {x}, U>> \in StrictSubsetOrdering(Ranks)
    BY <1>5, <1>6 DEF StrictSubsetOrdering
  <2> QED BY <1>4, <2>1
<1>8. CASE U = {x}
  BY <1>5, <1>8
<1>9. CASE U # {x}
  <2>1. U \ {x} # {} /\ U \ {x} \in SUBSET Ranks
    BY <1>5, <1>6, <1>9
  <2>2. Least(U \ {x})
    BY <1>7, <2>1 DEF Bad
  <2>3. PICK t \in U \ {x} : \A u \in U \ {x} : f[t] <= f[u]
    BY <2>2
  <2>4. \A u \in U : f[u] \in Int
    BY <1>5
  <2>5. CASE f[t] <= f[x]
    BY <1>5, <2>3, <2>5
  <2>6. CASE ~(f[t] <= f[x])
    BY <1>5, <1>6, <2>3, <2>4, <2>6
  <2> QED BY <2>5, <2>6
<1> QED BY <1>8, <1>9

(* The window of a set of tasks lies among the integers and has a width.   *)
LEMMA DomainType ==
  ASSUME NEW T \in SUBSET Ranks
  PROVE  /\ TimeDomain(T)[1] \in Int /\ TimeDomain(T)[2] \in Int
         /\ TimeDomain(T)[1] < TimeDomain(T)[2]
<1>1. CASE T = {}
  BY <1>1, TasksAssumption DEF TimeDomain
<1>2. CASE T # {}
  <2> DEFINE starts == { Created[t] : t \in T }
             ends == { EndOf(t) : t \in T }
             late == [t \in Ranks |-> -EndOf(t)]
  <2>1. \A t \in Ranks : Created[t] \in Int /\ EndOf(t) \in Int
    BY TasksAssumption DEF EndOf
  <2>2. Min(starts) \in Int
    <3>1. PICK t \in T : \A u \in T : Created[t] <= Created[u]
      BY <1>2, LeastTask, TasksAssumption
    <3>2. \E x \in starts : \A y \in starts : x <= y
      BY <3>1
    <3>3. Min(starts) \in starts
      BY <3>2 DEF Min
    <3> QED BY <2>1, <3>3
  <2>3. Max(ends) \in Int
    <3>1. late \in [Ranks -> Int]
      BY <2>1
    <3>2. PICK t \in T : \A u \in T : late[t] <= late[u]
      BY <1>2, <3>1, LeastTask
    <3>3. \A u \in T : EndOf(t) >= EndOf(u)
      <4>1. \A u \in T : late[u] = -EndOf(u) /\ EndOf(u) \in Int
        BY <2>1
      <4> HIDE DEF late
      <4> QED BY <3>2, <4>1
    <3>4. \E x \in ends : \A y \in ends : x >= y
      BY <3>3
    <3>5. Max(ends) \in ends
      BY <3>4 DEF Max
    <3> QED BY <2>1, <3>5
  <2> DEFINE lo == Min(starts)
             hi == Max(ends)
  <2>4. TimeDomain(T) = <<lo, IF hi <= lo THEN lo + 1 ELSE hi>>
    BY <1>2 DEF TimeDomain
  <2> HIDE DEF starts, ends
  <2> QED BY <2>2, <2>3, <2>4
<1> QED BY <1>1, <1>2

-----------------------------------------------------------------------------
(* The strip                                                               *)

(* Inductive strengthening of RoomToPan and ViewKept. Where the last       *)
(* scroll event was handled, a side without room has a chunk on its way;   *)
(* the render that adds one on the left scrolls by it, and so is followed  *)
(* by an event of its own.                                                 *)
StripOK(s) ==
  /\ s \in Strip /\ s.prevLo = s.lo
  /\ s.left + s.right <= s.grafts
  /\ Width(s) >= Client + Edge + Edge
  /\ s.scroll \in 0..(Width(s) - Client)
  /\ ~s.moved => /\ s.left > 0 \/ s.scroll >= Edge
                 /\ s.right > 0 \/ s.scroll <= Width(s) - Client - Edge

StripInv == strip # None => StripOK(strip)

(* A strip as it mounts. *)
LEMMA Mounted ==
  ASSUME NEW T \in SUBSET Ranks
  PROVE  StripOK(MountStrip(T))
<1> DEFINE d == TimeDomain(T)
           lo == Min({d[1], Now}) - Before
           hi == Max({d[2], Now}) + After
           x == Clamp(Now - lo - Offset, [lo |-> lo, hi |-> hi])
<1>1. /\ d[1] \in Int /\ d[2] \in Int /\ Now \in Int /\ MaxGrafts \in Nat
      /\ Before \in Int /\ After \in Int /\ Offset \in Nat /\ Client \in Nat /\ Edge \in Nat
      /\ Before - Offset >= Edge /\ After + Offset - Client >= Edge
  BY DomainType, TasksAssumption
<1> HIDE DEF d
<1>2. lo \in Int /\ hi \in Int /\ hi - lo >= Before + After
  <2>1. Min({d[1], Now}) \in Int /\ Min({d[1], Now}) <= Now
    BY <1>1, TwoMin
  <2>2. Max({d[2], Now}) \in Int /\ Max({d[2], Now}) >= Now
    BY <1>1, TwoMin
  <2> QED BY <1>1, <2>1, <2>2
<1> HIDE DEF lo, hi
<1>3. hi - lo >= Client + Edge + Edge
  BY <1>1, <1>2
<1>4. x \in 0..(hi - lo - Client)
  <2> DEFINE y == Now - lo - Offset
             w == hi - lo - Client
  <2>1. x = Max({0, Min({y, w})})
    BY DEF Clamp, Width
  <2>2. y \in Int /\ w \in Int /\ w >= 0
    BY <1>1, <1>2, <1>3
  <2> HIDE DEF y, w
  <2>3. Min({y, w}) \in Int /\ Min({y, w}) <= w
    BY <2>2, TwoMin
  <2>4. Max({0, Min({y, w})}) \in {0, Min({y, w})} /\ Max({0, Min({y, w})}) >= 0
    BY <2>3, TwoMin
  <2> QED BY <2>1, <2>2, <2>3, <2>4 DEF w
<1> HIDE DEF x
<1>5. MountStrip(T) = [lo |-> lo, hi |-> hi, prevLo |-> lo, left |-> 0, right |-> 0,
                       grafts |-> 0, scroll |-> x, moved |-> TRUE]
  BY DEF MountStrip, d, lo, hi, x
<1> QED BY <1>1, <1>2, <1>3, <1>4, <1>5 DEF StripOK, Strip, Width

-----------------------------------------------------------------------------
(* The feed                                                                *)

(* The feed, what it is fed from, and the invariants that tie them.        *)
FeedOK ==
  /\ active \in Workspaces \cup {None}
  /\ feed \in Feed /\ ~(feed.error /\ (feed.items # None \/ feed.loading))
  /\ cache \in [Workspaces -> Boards \cup {None}]
  /\ request \in [Slots -> Request \cup {None}]
  /\ OwnTasks /\ SpinnerOwed

(* What the hook shows of the cache, whoever asks for the rest.            *)
LEMMA Asked ==
  ASSUME NEW w \in Workspaces, NEW n \in Boards \cup {None}, NEW s \in Slots,
         active' = w, request' \in [Slots -> Request \cup {None}],
         request'[s] = [ws |-> w, cached |-> n, orphan |-> FALSE],
         cache' \in [Workspaces -> Boards \cup {None}],
         feed' = [items |-> IF n = None THEN None ELSE [ws |-> w, size |-> n],
                  loading |-> n = None, error |-> FALSE]
  PROVE  FeedOK'
<1>0. None \notin Workspaces
  BY TasksAssumption
<1>1. active' \in Workspaces \cup {None}
  OBVIOUS
<1>2. CASE n = None
  <2>1. feed' = [items |-> None, loading |-> TRUE, error |-> FALSE]
    BY <1>2
  <2>2. feed' \in Feed /\ feed'.items = None /\ feed'.loading = TRUE /\ feed'.error = FALSE
    BY <2>1 DEF Feed
  <2>3. request'[s] # None /\ ~request'[s].orphan /\ request'[s].ws = active'
    <3>1. request'[s].ws = w /\ request'[s].orphan = FALSE
      OBVIOUS
    <3>2. request'[s] # None
      <4>1. [ws |-> w, cached |-> n, orphan |-> FALSE] \in Request
        BY DEF Request
      <4> QED BY <4>1, RequestAssumption
    <3> QED BY <3>1, <3>2
  <2> QED BY <1>1, <2>2, <2>3 DEF FeedOK, OwnTasks, SpinnerOwed
<1>3. CASE n # None
  <2>1. feed' = [items |-> [ws |-> w, size |-> n], loading |-> FALSE, error |-> FALSE]
    BY <1>3
  <2>2. /\ feed' \in Feed /\ feed'.items = [ws |-> w, size |-> n]
        /\ feed'.loading = FALSE /\ feed'.error = FALSE
    BY <1>3, <2>1 DEF Feed, Board
  <2>3. feed'.items.ws = active'
    BY <2>2
  <2> QED BY <1>1, <2>2, <2>3 DEF FeedOK, OwnTasks, SpinnerOwed
<1> QED BY <1>2, <1>3

(* Neither a switch nor an answer, in whatever order they come, breaks the *)
(* tie between the workspace on screen, the feed and its requests.         *)
LEMMA FeedStep ==
  ASSUME FeedOK, [Next]_vars
  PROVE  FeedOK'
<1> USE DEF FeedOK
<1>0. None \notin Workspaces /\ None \notin Request
  BY TasksAssumption, RequestAssumption
<1>1. ASSUME NEW w \in Workspaces, Open(w)
      PROVE FeedOK'
  <2>1. PICK s \in Slots : request' = [request EXCEPT ![s] =
              [ws |-> w, cached |-> cache[w], orphan |-> FALSE]]
    BY <1>1 DEF Open, Fetch
  <2>2. cache' = cache /\ active' = w
        /\ feed' = [items |-> FromCache(w), loading |-> cache[w] = None, error |-> FALSE]
    BY <1>1 DEF Open, Fetch
  <2>3. cache[w] \in Boards \cup {None}
    OBVIOUS
  <2>4. [ws |-> w, cached |-> cache[w], orphan |-> FALSE] \in Request
    BY <2>3 DEF Request
  <2>5. request' \in [Slots -> Request \cup {None}]
        /\ request'[s] = [ws |-> w, cached |-> cache[w], orphan |-> FALSE]
    BY <2>1, <2>4
  <2> QED BY <2>2, <2>3, <2>5, Asked DEF FromCache
<1>2. ASSUME Reload
      PROVE FeedOK'
  <2>1. PICK s \in Slots : request' = [r \in Slots |->
              IF r = s THEN [ws |-> active, cached |-> cache'[active], orphan |-> FALSE]
              ELSE None]
    BY <1>2 DEF Reload
  <2>2. /\ active' = active /\ active \in Workspaces
        /\ cache' \in [Workspaces -> Boards \cup {None}]
        /\ feed' = [items |-> FromCache(active)', loading |-> cache'[active] = None,
                    error |-> FALSE]
    BY <1>2 DEF Reload
  <2>3. cache'[active] \in Boards \cup {None}
    BY <2>2
  <2>4. [ws |-> active, cached |-> cache'[active], orphan |-> FALSE] \in Request
    BY <2>2, <2>3 DEF Request
  <2>5. request' \in [Slots -> Request \cup {None}]
        /\ request'[s] = [ws |-> active, cached |-> cache'[active], orphan |-> FALSE]
    BY <2>1, <2>4
  <2>6. feed' = [items |-> IF cache'[active] = None THEN None
                           ELSE [ws |-> active, size |-> cache'[active]],
                 loading |-> cache'[active] = None, error |-> FALSE]
    BY <2>2 DEF FromCache
  <2> QED BY <2>2, <2>3, <2>5, <2>6, Asked
<1>3. ASSUME Leave
      PROVE FeedOK'
  <2>1. active' = None /\ feed' = NoFeed /\ cache' = cache
    BY <1>3 DEF Leave
  <2>2. request' \in [Slots -> Request \cup {None}]
    <3>1. ASSUME NEW s \in Slots PROVE request'[s] \in Request \cup {None}
      <4>1. request'[s] \in {request[s], None, [request[s] EXCEPT !.orphan = TRUE]}
            /\ (request[s] = None => request'[s] = None)
        BY <1>3 DEF Leave
      <4>2. request[s] # None => [request[s] EXCEPT !.orphan = TRUE] \in Request
        BY DEF Request
      <4> QED BY <4>1, <4>2
    <3> QED BY <1>3, <3>1 DEF Leave
  <2> QED BY <2>1, <2>2 DEF NoFeed, Feed, OwnTasks, SpinnerOwed
<1>4. ASSUME NEW s \in Slots, Answer(s)
      PROVE FeedOK'
  <2> DEFINE r == request[s]
  <2>1. r \in Request /\ r # None /\ active' = active /\ request' = [request EXCEPT ![s] = None]
    BY <1>4 DEF Answer
  <2>2. PICK n \in Boards :
          IF Current(r) THEN cache' = [cache EXCEPT ![r.ws] = n] /\ ShowItems(r, n)
          ELSE UNCHANGED <<cache, feed>>
    BY <1>4 DEF Answer
  <2>3. cache' \in [Workspaces -> Boards \cup {None}]
    BY <2>2
  <2>4. CASE Current(r) /\ ~r.orphan
    <3>1. feed' = [items |-> [ws |-> r.ws, size |-> n], loading |-> FALSE, error |-> FALSE]
      BY <2>2, <2>4 DEF ShowItems
    <3>2. r.ws \in Workspaces /\ r.ws = active
      BY <2>1, <2>4 DEF Request, Current
    <3> QED BY <2>1, <2>3, <3>1, <3>2 DEF Feed, Board, OwnTasks, SpinnerOwed
  <2>5. CASE ~Current(r) \/ r.orphan
    <3>1. feed' = feed
      BY <2>2, <2>5 DEF ShowItems
    <3>2. SpinnerOwed'
      <4> SUFFICES ASSUME feed.loading
                   PROVE feed.items = None /\ \E z \in Slots :
                           request'[z] # None /\ ~request'[z].orphan /\ request'[z].ws = active
        BY <2>1, <3>1 DEF SpinnerOwed
      <4>1. PICK z \in Slots : request[z] # None /\ ~request[z].orphan /\ request[z].ws = active
        BY DEF SpinnerOwed
      <4>2. z # s
        BY <2>5, <4>1 DEF Current
      <4> QED BY <2>1, <4>1, <4>2 DEF SpinnerOwed
    <3> QED BY <2>1, <2>3, <3>1, <3>2 DEF OwnTasks
  <2> QED BY <2>4, <2>5
<1>5. ASSUME NEW s \in Slots, Fail(s)
      PROVE FeedOK'
  <2> DEFINE r == request[s]
  <2>1. r \in Request /\ r # None /\ active' = active /\ cache' = cache
        /\ request' = [request EXCEPT ![s] = None]
    BY <1>5 DEF Fail
  <2>2. CASE Current(r) /\ ~r.orphan
    <3>1. feed' = [items |-> IF r.cached = None THEN None ELSE [ws |-> r.ws, size |-> r.cached],
                   loading |-> FALSE, error |-> r.cached = None]
      BY <1>5, <2>2 DEF Fail
    <3>2. r.ws \in Workspaces /\ r.ws = active /\ r.cached \in Boards \cup {None}
      BY <2>1, <2>2 DEF Request, Current
    <3> QED BY <2>1, <3>1, <3>2 DEF Feed, Board, OwnTasks, SpinnerOwed
  <2>3. CASE ~Current(r) \/ r.orphan
    <3>1. feed' = feed
      BY <1>5, <2>3 DEF Fail
    <3>2. SpinnerOwed'
      <4> SUFFICES ASSUME feed.loading
                   PROVE feed.items = None /\ \E z \in Slots :
                           request'[z] # None /\ ~request'[z].orphan /\ request'[z].ws = active
        BY <2>1, <3>1 DEF SpinnerOwed
      <4>1. PICK z \in Slots : request[z] # None /\ ~request[z].orphan /\ request[z].ws = active
        BY DEF SpinnerOwed
      <4>2. z # s
        BY <2>3, <4>1 DEF Current
      <4> QED BY <2>1, <4>1, <4>2 DEF SpinnerOwed
    <3> QED BY <2>1, <3>1, <3>2 DEF OwnTasks
  <2> QED BY <2>2, <2>3
<1>6. CASE UNCHANGED <<active, feed, cache, request>>
  BY <1>6 DEF OwnTasks, SpinnerOwed
<1> QED BY <1>1, <1>2, <1>3, <1>4, <1>5, <1>6 DEF Next, vars, SwitchTab, PickView, PickMember,
           CyclePriority, PickTask, stripRest, Pan, GoToday, OnScroll, Graft

-----------------------------------------------------------------------------
(* Steps of the strip                                                      *)

(* The tasks of a feed are ranks. *)
LEMMA ShownRanks ==
  ASSUME NEW f \in Feed
  PROVE  Shown(f) \subseteq Ranks
<1>1. CASE f.items = None
  BY <1>1 DEF Shown
<1>2. CASE f.items # None
  <2>1. f.items.size \in Boards
    BY <1>2 DEF Feed, Board
  <2>2. f.items.size \in 0..MaxTasks /\ MaxTasks \in Nat
    BY <2>1, TasksAssumption
  <2> QED BY <1>2, <2>2 DEF Shown, Ranks
<1> QED BY <1>1, <1>2

(* A render leaves the strip, takes it away or mounts one. *)
LEMMA Rendered ==
  ASSUME NEW f \in Feed, NEW b, Render(f, b), StripInv
  PROVE  StripInv' /\ (strip # None => strip' \in {None, strip})
<1>1. CASE strip' \in {None, strip}
  BY <1>1 DEF StripInv
<1>2. CASE strip = None /\ strip' = MountStrip(Visible(f, b))
  <2>1. Visible(f, b) \in SUBSET Ranks
    BY ShownRanks DEF Visible
  <2>2. StripOK(strip')
    BY <1>2, <2>1, Mounted
  <2> QED BY <1>2, <2>2 DEF StripInv
<1> QED BY <1>1, <1>2 DEF Render

(* Scrolling within the window. *)
LEMMA Scrolled ==
  ASSUME NEW s, StripOK(s), NEW x \in 0..(Width(s) - Client),
         NEW n, n = [s EXCEPT !.scroll = x, !.moved = TRUE]
  PROVE  StripOK(n)
<1>1. s \in Strip /\ Client \in Nat
  BY TasksAssumption DEF StripOK
<1>2. n = [lo |-> s.lo, hi |-> s.hi, prevLo |-> s.prevLo, scroll |-> x, left |-> s.left,
           right |-> s.right, grafts |-> s.grafts, moved |-> TRUE]
  BY <1>1 DEF Strip
<1>3. x \in Int
  BY <1>1 DEF Width, Strip
<1> QED BY <1>1, <1>2, <1>3 DEF StripOK, Strip, Width

(* A scroll event handled: a side without room has a chunk on its way.     *)
LEMMA Handled ==
  ASSUME StripInv, OnScroll
  PROVE  StripOK(strip') /\ strip'.lo = strip.lo /\ strip'.hi = strip.hi
<1> DEFINE s == strip
           atLeft == s.scroll < Edge
           atRight == ~atLeft /\ s.scroll > Width(s) - Client - Edge
           l == s.left + (IF atLeft THEN 1 ELSE 0)
           r == s.right + (IF atRight THEN 1 ELSE 0)
           g == s.grafts + (IF atLeft \/ atRight THEN 1 ELSE 0)
<1>1. StripOK(s) /\ s \in Strip
  BY DEF StripInv, OnScroll, StripOK
<1>2. strip' = [lo |-> s.lo, hi |-> s.hi, prevLo |-> s.prevLo, scroll |-> s.scroll,
                left |-> l, right |-> r, grafts |-> g, moved |-> FALSE]
  BY <1>1 DEF OnScroll, Strip
<1>3. atLeft \/ atRight => s.grafts < MaxGrafts
  BY DEF OnScroll
<1>4. /\ s.lo \in Int /\ s.hi \in Int /\ s.scroll \in Int /\ Client \in Nat /\ Edge \in Nat
      /\ s.left \in 0..MaxGrafts /\ s.right \in 0..MaxGrafts /\ s.grafts \in 0..MaxGrafts
      /\ MaxGrafts \in Nat /\ s.prevLo = s.lo /\ s.left + s.right <= s.grafts
      /\ s.hi - s.lo >= Client + Edge + Edge /\ s.scroll \in 0..(s.hi - s.lo - Client)
  BY <1>1, TasksAssumption DEF StripOK, Strip, Width
<1>5. l \in Nat /\ r \in Nat /\ l + r <= g /\ g <= MaxGrafts
  BY <1>3, <1>4
<1>6. l \in 0..MaxGrafts /\ r \in 0..MaxGrafts /\ g \in 0..MaxGrafts
  BY <1>4, <1>5
<1>7. l > 0 \/ s.scroll >= Edge
  BY <1>4
<1>8. r > 0 \/ s.scroll <= s.hi - s.lo - Client - Edge
  BY <1>4 DEF Width
<1> HIDE DEF l, r, g, atLeft, atRight
<1>9. strip' \in Strip
  BY <1>2, <1>4, <1>6 DEF Strip
<1>10. StripOK(strip')
  BY <1>2, <1>4, <1>5, <1>7, <1>8, <1>9 DEF StripOK, Width
<1> QED BY <1>2, <1>10

(* Chunks grafted: the window grows on both sides, and the view stays.     *)
LEMMA Grafted ==
  ASSUME StripInv, Graft
  PROVE  StripOK(strip') /\ strip'.lo + strip'.scroll = strip.lo + strip.scroll
<1> DEFINE s == strip
           dl == s.left * Chunk
           dr == s.right * Chunk
           n == [s EXCEPT !.lo = @ - s.left * Chunk, !.hi = @ + s.right * Chunk,
                          !.left = 0, !.right = 0]
<1>1. StripOK(s) /\ s \in Strip /\ s.left + s.right > 0 /\ strip' = KeepPlace(n)
  BY DEF StripInv, Graft, StripOK
<1>2. n = [lo |-> s.lo - dl, hi |-> s.hi + dr, prevLo |-> s.prevLo, scroll |-> s.scroll,
           left |-> 0, right |-> 0, grafts |-> s.grafts, moved |-> s.moved]
  <2>1. ASSUME NEW a, NEW b, NEW z, z = [s EXCEPT !.lo = a, !.hi = b, !.left = 0, !.right = 0]
        PROVE z = [lo |-> a, hi |-> b, prevLo |-> s.prevLo, scroll |-> s.scroll,
                   left |-> 0, right |-> 0, grafts |-> s.grafts, moved |-> s.moved]
    BY <1>1, <2>1 DEF Strip
  <2> QED BY <2>1
<1>3. /\ s.lo \in Int /\ s.hi \in Int /\ s.scroll \in Int /\ Client \in Nat /\ Edge \in Nat
      /\ s.left \in Nat /\ s.right \in Nat /\ s.grafts \in 0..MaxGrafts /\ s.moved \in BOOLEAN
      /\ MaxGrafts \in Nat /\ s.prevLo = s.lo /\ Chunk \in Nat /\ Chunk > Edge
      /\ s.hi - s.lo >= Client + Edge + Edge /\ s.scroll \in 0..(s.hi - s.lo - Client)
  BY <1>1, TasksAssumption DEF StripOK, Strip, Width
<1>4. ASSUME NEW k \in Nat
      PROVE k * Chunk \in Nat /\ (k = 0 => k * Chunk = 0) /\ (k > 0 => k * Chunk > Edge)
  <2>1. CASE k = 0
    BY <1>3, <2>1
  <2>2. CASE k > 0
    <3>1. PICK j \in Nat : k = j + 1
      <4>1. k - 1 \in Nat /\ k = (k - 1) + 1
        BY <2>2
      <4> QED BY <4>1
    <3>2. k * Chunk = j * Chunk + Chunk /\ j * Chunk \in Nat
      BY <1>3, <3>1
    <3> DEFINE p == j * Chunk
               q == k * Chunk
    <3>3. q = p + Chunk /\ p \in Nat
      BY <3>2
    <3> HIDE DEF p, q
    <3>4. q \in Nat /\ q > Edge
      BY <1>3, <3>3
    <3> QED BY <2>2, <3>4 DEF q
  <2> QED BY <2>1, <2>2
<1>5. /\ dl \in Nat /\ (s.left = 0 => dl = 0) /\ (s.left > 0 => dl > Edge)
      /\ dr \in Nat /\ (s.right = 0 => dr = 0) /\ (s.right > 0 => dr > Edge)
  BY <1>3, <1>4
<1> HIDE DEF n, dl, dr
<1>6. CASE s.left = 0
  <2>1. n.prevLo = n.lo
    BY <1>2, <1>3, <1>5, <1>6
  <2>2. strip' = [lo |-> s.lo, hi |-> s.hi + dr, prevLo |-> s.lo, scroll |-> s.scroll,
                  left |-> 0, right |-> 0, grafts |-> s.grafts, moved |-> s.moved]
    BY <1>1, <1>2, <1>3, <1>5, <1>6, <2>1 DEF KeepPlace
  <2>3. strip' \in Strip
    BY <1>3, <1>5, <2>2 DEF Strip
  <2>4. s.right > 0
    BY <1>1, <1>3, <1>6
  <2>5. ~s.moved => s.scroll >= Edge
    BY <1>1, <1>3, <1>6 DEF StripOK
  <2>6. s.scroll <= s.hi + dr - s.lo - Client - Edge
    BY <1>3, <1>5, <2>4
  <2>7. StripOK(strip')
    BY <1>3, <1>5, <2>2, <2>3, <2>5, <2>6 DEF StripOK, Width
  <2> QED BY <2>2, <2>7
<1>7. CASE s.left > 0
  <2>1. n.prevLo # n.lo /\ n.prevLo - n.lo = dl
    BY <1>2, <1>3, <1>5, <1>7
  <2>2. strip' = [lo |-> s.lo - dl, hi |-> s.hi + dr, prevLo |-> s.lo - dl, scroll |-> s.scroll + dl,
                  left |-> 0, right |-> 0, grafts |-> s.grafts, moved |-> TRUE]
    <3>1. strip' = [n EXCEPT !.prevLo = n.lo, !.moved = TRUE, !.scroll = @ + (n.prevLo - n.lo)]
      BY <1>1, <2>1 DEF KeepPlace
    <3> QED BY <1>2, <1>3, <2>1, <3>1
  <2>3. strip' \in Strip
    BY <1>3, <1>5, <2>2 DEF Strip
  <2>4. StripOK(strip')
    BY <1>3, <1>5, <2>2, <2>3 DEF StripOK, Width
  <2>5. (s.lo - dl) + (s.scroll + dl) = s.lo + s.scroll
    BY <1>3, <1>5
  <2> QED BY <2>2, <2>4, <2>5
<1> QED BY <1>3, <1>6, <1>7

(* Whether it renders, scrolls or grows, the strip stays in order, and     *)
(* growing keeps the view.                                                 *)
LEMMA StripStep ==
  ASSUME FeedOK, FeedOK', StripInv, [Next]_vars
  PROVE  /\ StripInv'
         /\ strip # None /\ strip' # None /\ <<strip.lo, strip.hi>>' # <<strip.lo, strip.hi>>
              => strip'.lo + strip'.scroll = strip.lo + strip.scroll
<1> DEFINE Kept == strip # None /\ strip' # None /\ <<strip.lo, strip.hi>>' # <<strip.lo, strip.hi>>
                     => strip'.lo + strip'.scroll = strip.lo + strip.scroll
<1>1. ASSUME NEW f \in Feed, NEW b, Render(f, b)
      PROVE StripInv' /\ Kept
  BY <1>1, Rendered
<1>2. CASE strip' = None \/ strip' = strip
  BY <1>2 DEF StripInv
<1>3. CASE Pan \/ GoToday
  <2>1. strip # None /\ StripOK(strip)
    BY <1>3 DEF Pan, GoToday, StripInv
  <2>2. PICK x \in 0..(Width(strip) - Client) :
          strip' = [strip EXCEPT !.scroll = x, !.moved = TRUE]
    <3>1. CASE Pan
      BY <3>1 DEF Pan
    <3>2. CASE GoToday
      <4> DEFINE goal == Clamp(Now - strip.lo - Offset, strip)
                 y == Now - strip.lo - Offset
                 w == Width(strip) - Client
      <4>1. y \in Int /\ w \in Int /\ w >= 0 /\ strip.scroll \in Int
            /\ 0 <= strip.scroll /\ strip.scroll <= w
        BY <2>1, TasksAssumption DEF StripOK, Strip, Width
      <4>2. goal = Max({0, Min({y, w})})
        BY DEF Clamp
      <4> HIDE DEF y, w
      <4>3. Min({y, w}) \in Int /\ Min({y, w}) <= w
        BY <4>1, TwoMin
      <4>4. Max({0, Min({y, w})}) \in {0, Min({y, w})} /\ Max({0, Min({y, w})}) >= 0
        <5>1. ASSUME NEW z \in Int
              PROVE Max({0, z}) \in {0, z} /\ Max({0, z}) >= 0
          <6>1. 0 \in Int
            OBVIOUS
          <6> QED BY <6>1, TwoMin, Zenon
        <5> QED BY <4>3, <5>1
      <4>5. goal \in Int /\ 0 <= goal /\ goal <= w
        BY <4>1, <4>2, <4>3, <4>4
      <4> HIDE DEF goal
      <4>6. PICK x \in Min({goal, strip.scroll})..Max({goal, strip.scroll}) :
              strip' = [strip EXCEPT !.scroll = x, !.moved = TRUE]
        BY <3>2 DEF GoToday, goal
      <4>7. /\ Min({goal, strip.scroll}) \in {goal, strip.scroll}
            /\ Max({goal, strip.scroll}) \in {goal, strip.scroll}
        BY <4>1, <4>5, TwoMin
      <4>8. x \in 0..w
        BY <4>1, <4>5, <4>6, <4>7
      <4> QED BY <4>6, <4>8 DEF w
    <3> QED BY <1>3, <3>1, <3>2
  <2>3. StripOK(strip')
    BY <2>1, <2>2, Scrolled
  <2>4. strip'.lo = strip.lo /\ strip'.hi = strip.hi
    BY <2>1, <2>2 DEF StripOK, Strip
  <2> QED BY <2>3, <2>4 DEF StripInv
<1>4. CASE OnScroll
  BY <1>4, Handled DEF StripInv
<1>5. CASE Graft
  BY <1>5, Grafted DEF StripInv
<1>6. feed \in Feed /\ feed' \in Feed
  BY DEF FeedOK
<1>7. CASE \/ \E w \in Workspaces : Open(w)
           \/ SwitchTab
           \/ \E v \in {"board", "list", "timeline"} : PickView(v)
           \/ \E m \in Members \cup {None} : PickMember(m)
           \/ CyclePriority
           \/ \E s \in Slots : Answer(s) \/ Fail(s)
  <2>1. Render(feed', tab) \/ Render(feed, tab')
    BY <1>7 DEF Open, SwitchTab, PickView, PickMember, CyclePriority, Answer, Fail
  <2> QED BY <1>1, <1>6, <2>1
<1>8. CASE Leave \/ Reload \/ PickTask \/ UNCHANGED vars
  BY <1>2, <1>8 DEF Leave, Reload, PickTask, vars
<1> QED BY <1>3, <1>4, <1>5, <1>7, <1>8 DEF Next

-----------------------------------------------------------------------------
(* The theorems                                                            *)

(* The inductive invariant: the feed, the strip, and the types of the rest. *)
RestOK == graph \in Graphs /\ tab \in Tab /\ gestures \in 0..MaxGestures

IInv == FeedOK /\ StripInv /\ RestOK

(* The tab picks members, priorities and tasks that exist. *)
LEMMA RestStep ==
  ASSUME IInv, [Next]_vars
  PROVE  RestOK'
<1> USE DEF RestOK
<1>1. tab \in Tab /\ MaxGestures \in Nat /\ gestures \in 0..MaxGestures
  BY TasksAssumption DEF IInv
<1>2. graph' = graph /\ (gestures' = gestures \/ Gesture)
  BY DEF Next, vars, Open, Leave, Reload, Answer, Fail, SwitchTab, PickView, PickMember,
         CyclePriority, PickTask, stripRest, Pan, GoToday, OnScroll, Graft
<1>3. gestures' \in 0..MaxGestures
  BY <1>1, <1>2 DEF Gesture
<1>4. ClosedTab \in Tab /\ OpenedTab \in Tab
  BY TasksAssumption DEF ClosedTab, OpenedTab, Tab
<1>5. feed \in Feed /\ Shown(feed) \subseteq Ranks
  BY ShownRanks DEF IInv, FeedOK
<1>6. ASSUME NEW v \in {"board", "list", "timeline"}, PickView(v)
      PROVE tab' \in Tab
  BY <1>1, <1>6 DEF PickView, Tab
<1>7. ASSUME NEW m \in Members \cup {None}, PickMember(m)
      PROVE tab' \in Tab
  BY <1>1, <1>7 DEF PickMember, Tab
<1>8. ASSUME CyclePriority
      PROVE tab' \in Tab
  <2>1. tab.priority \in {"high", "medium", "low", None}
    BY <1>1 DEF Tab
  <2>2. PICK p \in {"high", "medium", "low", None} : tab' = [tab EXCEPT !.priority = p]
    BY <1>8, <2>1 DEF CyclePriority
  <2> QED BY <1>1, <2>2 DEF Tab
<1>9. ASSUME PickTask
      PROVE tab' \in Tab
  <2>1. CASE tab' = [tab EXCEPT !.picked = None]
    BY <1>1, <2>1 DEF Tab
  <2>2. CASE \E t \in Clickable(feed, tab) : tab' = [tab EXCEPT !.picked = <<active, t>>]
    <3>1. PICK t \in Clickable(feed, tab) : tab' = [tab EXCEPT !.picked = <<active, t>>]
      BY <2>2
    <3>2. t \in Shown(feed)
      BY DEF Clickable, BoardCards, ListRows, Visible
    <3>3. feed.items # None
      BY <3>2 DEF Shown
    <3>4. active \in Workspaces
      BY <1>5, <3>3 DEF IInv, FeedOK, OwnTasks, Feed, Board
    <3>5. <<active, t>> \in Workspaces \X Ranks
      BY <1>5, <3>2, <3>4
    <3> QED BY <1>1, <3>1, <3>5 DEF Tab
  <2> QED BY <1>9, <2>1, <2>2 DEF PickTask
<1>10. tab' \in Tab
  BY <1>1, <1>4, <1>6, <1>7, <1>8, <1>9 DEF Next, vars, Open, Leave, Reload, Answer, Fail, SwitchTab,
     stripRest, Pan, GoToday, OnScroll, Graft
<1> QED BY <1>2, <1>3, <1>10 DEF IInv

(* The inductive invariant holds. *)
THEOREM Invariance == Spec => []IInv
<1>1. Init => IInv
  <2> SUFFICES ASSUME Init PROVE IInv
    OBVIOUS
  <2>1. FeedOK
    BY DEF Init, FeedOK, NoFeed, Feed, OwnTasks, SpinnerOwed
  <2>2. StripInv
    BY DEF Init, StripInv
  <2>3. RestOK
    BY TasksAssumption DEF Init, RestOK, ClosedTab, Tab
  <2> QED BY <2>1, <2>2, <2>3 DEF IInv
<1>2. IInv /\ [Next]_vars => IInv'
  BY FeedStep, StripStep, RestStep DEF IInv
<1> QED BY <1>1, <1>2, PTL DEF Spec

(* Type correctness of the tasks surface. *)
THEOREM TypeCorrect == Spec => []TypeOK
<1>1. IInv => TypeOK
  BY DEF IInv, FeedOK, StripInv, StripOK, RestOK, TypeOK
<1> QED BY <1>1, Invariance, PTL

(* The tasks on screen are the workspace's own, whatever comes late. *)
THEOREM FeedCorrect == Spec => []OwnTasks
<1>1. IInv => OwnTasks
  BY DEF IInv, FeedOK
<1> QED BY <1>1, Invariance, PTL

(* A spinner on screen has its request on the way. *)
THEOREM SpinnerCorrect == Spec => []SpinnerOwed
<1>1. IInv => SpinnerOwed
  BY DEF IInv, FeedOK
<1> QED BY <1>1, Invariance, PTL

(* The detail panel shows a task on screen or none. *)
THEOREM PanelCorrect == Spec => []OwnPanel
<1>1. IInv => OwnPanel
  <2> SUFFICES ASSUME IInv, Panel(feed, tab) # None
               PROVE Panel(feed, tab) \in {active} \X Shown(feed)
    BY DEF OwnPanel
  <2>1. PICK t \in Shown(feed) : Panel(feed, tab) = <<feed.items.ws, t>>
    BY DEF Panel
  <2>2. feed.items # None
    BY <2>1 DEF Shown
  <2>3. feed.items.ws = active
    BY <2>2 DEF IInv, FeedOK, OwnTasks
  <2> QED BY <2>1, <2>3
<1> QED BY <1>1, Invariance, PTL

(* The screen is the workspace's own, in all of its parts. *)
THEOREM ScreenCorrect == Spec => []OnScreen
BY FeedCorrect, SpinnerCorrect, PanelCorrect, PTL DEF OnScreen

(* Growing the window never moves the view. *)
THEOREM PlaceCorrect == Spec => ViewKept
<1>1. IInv /\ IInv' /\ [Next]_vars =>
        (strip # None /\ strip' # None /\ <<strip.lo, strip.hi>>' # <<strip.lo, strip.hi>>
           => strip'.lo + strip'.scroll = strip.lo + strip.scroll)
  BY StripStep DEF IInv
<1> QED BY <1>1, Invariance, PTL DEF Spec, ViewKept

(* Once scrolling settles there is room on both sides. *)
THEOREM RoomCorrect == Spec => []RoomToPan
<1>1. IInv => RoomToPan
  <2> SUFFICES ASSUME StripInv, strip # None, ~strip.moved, strip.left + strip.right = 0
               PROVE strip.scroll \in Edge..(Width(strip) - Client - Edge)
    BY DEF IInv, RoomToPan
  <2>1. StripOK(strip) /\ strip \in Strip
    BY DEF StripInv, StripOK
  <2>2. strip.left \in Nat /\ strip.right \in Nat /\ strip.scroll \in Int /\ Width(strip) \in Int
        /\ Edge \in Nat /\ Client \in Nat
    BY <2>1, TasksAssumption DEF Strip, Width
  <2>3. strip.left = 0 /\ strip.right = 0
    BY <2>2
  <2>4. strip.scroll >= Edge /\ strip.scroll <= Width(strip) - Client - Edge
    BY <2>1, <2>2, <2>3 DEF StripOK
  <2> QED BY <2>2, <2>4
<1> QED BY <1>1, Invariance, PTL

-----------------------------------------------------------------------------
(* The order of the rows: a loop over a list of tasks                      *)

(* Induction over 0..n, for a set instead of a predicate.                  *)
LEMMA UpTo ==
  ASSUME NEW n \in Nat, NEW G, 0 \in G, \A i \in 0..n : i \in G /\ i < n => i + 1 \in G
  PROVE  0..n \subseteq G
<1> DEFINE Bad == { i \in 0..n : i \notin G }
           Lower(i) == { j \in Bad : j < i }
           Lowers == { Lower(i) : i \in Bad }
<1> SUFFICES ASSUME Bad # {} PROVE FALSE
  OBVIOUS
<1>1. IsFiniteSet(Bad)
  <2>1. IsFiniteSet(0..n) /\ Bad \subseteq 0..n
    BY FS_Interval
  <2> QED BY <2>1, FS_Subset
<1>2. IsWellFoundedOn(StrictSubsetOrdering(Bad), SUBSET Bad)
  BY <1>1, FS_FiniteSubsetsOfFinite, FS_StrictSubsetOrderingWellFounded
<1>3. Lowers \subseteq SUBSET Bad /\ Lowers # {}
  OBVIOUS
<1>4. PICK U \in Lowers : \A V \in Lowers : <<V, U>> \notin StrictSubsetOrdering(Bad)
  <2> HIDE DEF Lowers, Bad
  <2> QED BY <1>2, <1>3, WFMin
<1>5. PICK i \in Bad : U = Lower(i)
  OBVIOUS
<1>6. ASSUME NEW j \in Bad, j < i PROVE FALSE
  <2>1. Lower(j) \subseteq Lower(i)
    BY <1>6
  <2>2. j \in Lower(i) /\ j \notin Lower(j)
    BY <1>6
  <2>3. <<Lower(j), Lower(i)>> \in StrictSubsetOrdering(Bad)
    BY <2>1, <2>2 DEF StrictSubsetOrdering
  <2> QED BY <1>4, <1>5, <2>3
<1>7. i \in 1..n /\ i - 1 \in 0..n /\ i - 1 \in G
  BY <1>6
<1> QED BY <1>7

(* What the loop has put out after i of the list's tasks.                  *)
DoneAt(done, visit, T, list, out, i) ==
  IF i = 0 THEN out
  ELSE IF list[i] \in T THEN visit[list[i]][done[i - 1]]
  ELSE done[i - 1]

Loop(g, visit, T, list, out) == g = [i \in 0..Len(list) |-> DoneAt(g, visit, T, list, out, i)]

(* The visits lead from A to A. *)
Keeps(visit, T, list, A) ==
  \A i \in 1..Len(list) : list[i] \in T => \A o \in A : visit[list[i]][o] \in A

(* The recursion over the list has a solution.                             *)
LEMMA LoopExists ==
  ASSUME NEW visit, NEW T, NEW list, Len(list) \in Nat, NEW A, NEW out \in A,
         Keeps(visit, T, list, A)
  PROVE  \E g : Loop(g, visit, T, list, out)
<1> DEFINE n == Len(list)
           At(g, i) == DoneAt(g, visit, T, list, out, i)
           G == { k \in 0..n : \E g \in [0..n -> A] : \A i \in 0..k : g[i] = At(g, i) }
<1>1. 0 \in G
  <2> DEFINE g == [i \in 0..n |-> out]
  <2>1. g \in [0..n -> A] /\ \A i \in 0..0 : g[i] = At(g, i)
    BY DEF DoneAt
  <2> QED BY <2>1
<1>2. ASSUME NEW k \in 0..n, k \in G, k < n PROVE k + 1 \in G
  <2>1. PICK g \in [0..n -> A] : \A i \in 0..k : g[i] = At(g, i)
    BY <1>2
  <2> DEFINE h == [g EXCEPT ![k + 1] = At(g, k + 1)]
  <2>2. At(g, k + 1) \in A
    BY <1>2, <2>1 DEF DoneAt, Keeps
  <2> HIDE DEF At
  <2>3. h \in [0..n -> A] /\ h[k + 1] = At(g, k + 1) /\ \A i \in 0..k : h[i] = g[i]
    BY <1>2, <2>2
  <2> HIDE DEF h
  <2>4. ASSUME NEW i \in 0..(k + 1) PROVE At(h, i) = At(g, i)
    BY <1>2, <2>3 DEF At, DoneAt
  <2>5. \A i \in 0..(k + 1) : h[i] = At(h, i)
    BY <1>2, <2>1, <2>3, <2>4
  <2> QED BY <1>2, <2>3, <2>5
<1>3. n \in G
  <2> HIDE DEF G
  <2>1. 0..n \subseteq G
    BY <1>1, <1>2, UpTo
  <2> QED BY <2>1
<1>4. PICK g \in [0..n -> A] : \A i \in 0..n : g[i] = At(g, i)
  BY <1>3
<1> HIDE DEF At
<1>5. g = [i \in 0..n |-> At(g, i)]
  BY <1>4
<1> QED BY <1>5 DEF At, Loop

(* So the loop does what it says.                                          *)
LEMMA LoopRuns ==
  ASSUME NEW visit, NEW T, NEW list, Len(list) \in Nat, NEW A, NEW out \in A,
         Keeps(visit, T, list, A)
  PROVE  \E g : /\ \A i \in 0..Len(list) : g[i] = DoneAt(g, visit, T, list, out, i)
                /\ VisitEach(visit, T, list, out) = g[Len(list)]
<1>1. \E g : Loop(g, visit, T, list, out)
  BY LoopExists
<1>2. PICK g : Loop(g, visit, T, list, out) /\ VisitEach(visit, T, list, out) = g[Len(list)]
  BY <1>1, Zenon DEF VisitEach, DoneAt, Loop
<1>3. \A i \in 0..Len(list) : g[i] = DoneAt(g, visit, T, list, out, i)
  BY <1>2 DEF Loop
<1> QED BY <1>2, <1>3

-----------------------------------------------------------------------------
(* The search                                                              *)

(* A property of sets of tasks that holds of a stack whenever it holds of  *)
(* all it can grow to in one step holds of all stacks.                     *)
LEMMA StackInduction ==
  ASSUME NEW T, IsFiniteSet(T), NEW G,
         \A S \in SUBSET T : (\A t \in T \ S : S \cup {t} \in G) => S \in G
  PROVE  SUBSET T \subseteq G
<1> DEFINE Bad == { U \in SUBSET T : T \ U \notin G }
<1> SUFFICES ASSUME Bad # {} PROVE FALSE
  <2>1. ASSUME NEW S \in SUBSET T, S \notin G PROVE T \ S \in Bad
    <3>1. T \ (T \ S) = S
      OBVIOUS
    <3> QED BY <2>1, <3>1
  <2> QED BY <2>1
<1>1. IsWellFoundedOn(StrictSubsetOrdering(T), SUBSET T)
  <2>1. FiniteSubsetsOf(T) = SUBSET T
    BY FS_FiniteSubsetsOfFinite
  <2>2. IsWellFoundedOn(StrictSubsetOrdering(T), FiniteSubsetsOf(T))
    BY FS_StrictSubsetOrderingWellFounded
  <2> QED BY ONLY <2>1, <2>2
<1>2. Bad \subseteq SUBSET T
  OBVIOUS
<1> HIDE DEF Bad
<1>3. PICK U \in Bad : \A V \in Bad : <<V, U>> \notin StrictSubsetOrdering(T)
  BY <1>1, <1>2, WFMin
<1>4. U \in SUBSET T /\ T \ U \notin G
  BY DEF Bad
<1>5. ASSUME NEW t \in T \ (T \ U) PROVE (T \ U) \cup {t} \in G
  <2>1. t \in U /\ U \ {t} \in SUBSET T /\ U \ {t} # U /\ T \ (U \ {t}) = (T \ U) \cup {t}
    BY <1>4
  <2>2. <<U \ {t}, U>> \in StrictSubsetOrdering(T)
    BY <1>4, <2>1 DEF StrictSubsetOrdering
  <2>3. U \ {t} \notin Bad
    BY <1>3, <2>2
  <2> QED BY <2>1, <2>3 DEF Bad
<1> QED BY <1>4, <1>5

(* One visit, given what visits with one task more on the stack do.        *)
VisitOne(f, T, stack) ==
  [t \in T |-> [out \in Seq(T) |->
     IF t \in Range(out) \cup stack THEN out
     ELSE Append(VisitEach(f[stack \cup {t}], T, graph[t], out), t)]]

(* It depends on those visits alone.                                       *)
LEMMA VisitLocal ==
  ASSUME NEW T, NEW stack, NEW f, NEW g,
         \A t \in T \ stack : f[stack \cup {t}] = g[stack \cup {t}]
  PROVE  VisitOne(f, T, stack) = VisitOne(g, T, stack)
<1> DEFINE Out(v, t, out) == IF t \in Range(out) \cup stack THEN out
                             ELSE Append(VisitEach(v[stack \cup {t}], T, graph[t], out), t)
<1>1. \A t \in T, out \in Seq(T) : Out(f, t, out) = Out(g, t, out)
  OBVIOUS
<1> HIDE DEF Out
<1>2. \A t \in T : [out \in Seq(T) |-> Out(f, t, out)] = [out \in Seq(T) |-> Out(g, t, out)]
  BY <1>1
<1>3. [t \in T |-> [out \in Seq(T) |-> Out(f, t, out)]] = [t \in T |-> [out \in Seq(T) |-> Out(g, t, out)]]
  BY <1>2
<1> QED BY <1>3, Zenon DEF VisitOne, Out

(* The recursion over the stack has a solution: level by level of how many *)
(* tasks are off the stack.                                                *)
LEMMA VisitsExist ==
  ASSUME NEW T, IsFiniteSet(T)
  PROVE  \E f : f = [stack \in SUBSET T |-> VisitOne(f, T, stack)]
<1> DEFINE Off(S) == Cardinality(T \ S)
           Solves(f, S) == f[S] = VisitOne(f, T, S)
           G == { n \in 0..Cardinality(T) :
                    \E f : \A S \in SUBSET T : Off(S) <= n => Solves(f, S) }
           Next1(f) == [S \in SUBSET T |-> VisitOne(f, T, S)]
<1>1. Cardinality(T) \in Nat /\ \A S \in SUBSET T : Off(S) \in 0..Cardinality(T)
  <2>1. Cardinality(T) \in Nat
    BY FS_CardinalityType
  <2>2. ASSUME NEW S \in SUBSET T PROVE Off(S) \in 0..Cardinality(T)
    <3>1. T \ S \subseteq T
      OBVIOUS
    <3>2. IsFiniteSet(T \ S) /\ Off(S) \in Nat /\ Off(S) <= Cardinality(T)
      BY <3>1, FS_Subset, FS_CardinalityType
    <3> QED BY <2>1, <3>2
  <2> QED BY <2>1, <2>2
<1>2. ASSUME NEW S \in SUBSET T, NEW t \in T \ S
      PROVE  S \cup {t} \in SUBSET T /\ Off(S \cup {t}) = Off(S) - 1
  <2>1. T \ (S \cup {t}) = (T \ S) \ {t}
    OBVIOUS
  <2>2. IsFiniteSet(T \ S)
    BY FS_Subset
  <2> QED BY <2>1, <2>2, FS_RemoveElement
<1>3. ASSUME NEW f, NEW n \in Nat, \A S \in SUBSET T : Off(S) < n => Solves(f, S)
      PROVE  \A S \in SUBSET T : Off(S) <= n => Solves(Next1(f), S)
  <2> SUFFICES ASSUME NEW S \in SUBSET T, Off(S) <= n PROVE Solves(Next1(f), S)
    OBVIOUS
  <2>1. ASSUME NEW t \in T \ S PROVE Next1(f)[S \cup {t}] = f[S \cup {t}]
    <3>1. S \cup {t} \in SUBSET T /\ Off(S \cup {t}) < n
      <4> HIDE DEF Off
      <4> QED BY <1>1, <1>2
    <3> QED BY <1>3, <3>1
  <2>2. VisitOne(Next1(f), T, S) = VisitOne(f, T, S)
    <3> HIDE DEF Next1
    <3> QED BY <2>1, VisitLocal
  <2>3. Next1(f)[S] = VisitOne(f, T, S)
    OBVIOUS
  <2> QED BY <2>2, <2>3
<1> HIDE DEF Off, Next1, Solves
<1>4. 0 \in G
  <2>1. \A S \in SUBSET T : Off(S) < 0 => Solves({}, S)
    BY <1>1
  <2>2. \A S \in SUBSET T : Off(S) <= 0 => Solves(Next1({}), S)
    BY <1>3, <2>1
  <2> QED BY <1>1, <2>2
<1>5. ASSUME NEW n \in 0..Cardinality(T), n \in G, n < Cardinality(T) PROVE n + 1 \in G
  <2>1. PICK f : \A S \in SUBSET T : Off(S) <= n => Solves(f, S)
    BY <1>5
  <2>2. n + 1 \in 0..Cardinality(T) /\ n + 1 \in Nat /\ \A S \in SUBSET T : Off(S) < n + 1 => Off(S) <= n
    BY <1>1, <1>5
  <2>3. \A S \in SUBSET T : Off(S) <= n + 1 => Solves(Next1(f), S)
    BY <1>3, <2>1, <2>2
  <2> QED BY <2>2, <2>3
<1>6. Cardinality(T) \in G
  <2> HIDE DEF G
  <2>1. 0..Cardinality(T) \subseteq G
    BY <1>1, <1>4, <1>5, UpTo
  <2> QED BY <1>1, <2>1
<1>7. PICK f : \A S \in SUBSET T : Solves(f, S)
  BY <1>1, <1>6
<1>8. Next1(f) = [S \in SUBSET T |-> VisitOne(Next1(f), T, S)]
  <2>1. ASSUME NEW S \in SUBSET T PROVE Next1(f)[S] = f[S]
    BY <1>7 DEF Next1, Solves
  <2>2. ASSUME NEW S \in SUBSET T PROVE VisitOne(Next1(f), T, S) = VisitOne(f, T, S)
    <3>1. \A t \in T \ S : Next1(f)[S \cup {t}] = f[S \cup {t}]
      BY <1>2, <2>1
    <3> QED BY <3>1, VisitLocal
  <2> QED BY <2>2 DEF Next1
<1> QED BY <1>8

(* So visit does what it says.                                             *)
LEMMA VisitsRun ==
  ASSUME NEW T, IsFiniteSet(T), NEW stack \in SUBSET T, NEW t \in T, NEW out \in Seq(T)
  PROVE  Visits(T)[stack][t][out] =
           IF t \in Range(out) \cup stack THEN out
           ELSE Append(VisitEach(Visits(T)[stack \cup {t}], T, graph[t], out), t)
<1> DEFINE Sol(f) == f = [S \in SUBSET T |-> VisitOne(f, T, S)]
<1>1. \E f : Sol(f)
  BY VisitsExist, Zenon
<1>2. Visits(T) = CHOOSE f : Sol(f)
  BY Zenon DEF Visits, VisitOne
<1>3. Sol(Visits(T))
  <2> HIDE DEF Sol
  <2> QED BY <1>1, <1>2
<1>4. Visits(T)[stack] = VisitOne(Visits(T), T, stack)
  BY <1>3
<1> QED BY <1>4 DEF VisitOne

-----------------------------------------------------------------------------
(* What the search puts out                                                *)

(* Every task once; and a predecessor of a task is above it, or the task   *)
(* is one the predecessor waits for.                                       *)
Once(out) == \A i, j \in 1..Len(out) : out[i] = out[j] => i = j

Settled(T, out) ==
  \A i \in 1..Len(out) : \A d \in Range(graph[out[i]]) \cap T :
    (\E j \in 1..(i - 1) : out[j] = d) \/ out[i] \in Needs(d, T)

Fine(T, out) == out \in Seq(T) /\ Once(out) /\ Settled(T, out)

(* What a visit or a loop of visits, begun after `out` and with the tasks  *)
(* on the stack, may have put out: nothing is lost and nothing on the      *)
(* stack is put out.                                                       *)
Grown(T, out, res, stack) ==
  /\ Fine(T, res) /\ Range(out) \subseteq Range(res)
  /\ (Range(res) \ Range(out)) \cap stack = {}

(* What waits for a task waits for the task's predecessors, as the task    *)
(* itself does.                                                            *)
LEMMA NeedsPredecessors ==
  ASSUME NEW T, NEW t \in T, NEW d \in Range(graph[t]) \cap T
  PROVE  d \in Needs(t, T) /\ \A s \in T : t \in Needs(s, T) => d \in Needs(s, T)
<1>1. d \in Needs(t, T)
  BY DEF Needs
<1>2. ASSUME NEW s \in T, t \in Needs(s, T) PROVE d \in Needs(s, T)
  <2> SUFFICES ASSUME NEW S \in SUBSET T,
                      \A u \in S \cup {s} : Range(graph[u]) \cap T \subseteq S
               PROVE  d \in S
    BY DEF Needs
  <2>1. t \in S
    BY <1>2 DEF Needs
  <2> QED BY <2>1
<1> QED BY <1>1, <1>2

(* A task put out after its predecessors, but for those on the stack.      *)
LEMMA PutOut ==
  ASSUME NEW T, NEW out, Fine(T, out), NEW t \in T, t \notin Range(out),
         \A d \in Range(graph[t]) \cap T : d \in Range(out) \/ t \in Needs(d, T)
  PROVE  /\ Fine(T, Append(out, t))
         /\ Range(Append(out, t)) = Range(out) \cup {t}
<1> DEFINE res == Append(out, t)
<1>1. out \in Seq(T) /\ Once(out) /\ Settled(T, out) /\ Len(out) \in Nat
  BY DEF Fine
<1>2. /\ res \in Seq(T) /\ Len(res) = Len(out) + 1 /\ res[Len(out) + 1] = t
      /\ \A i \in 1..Len(out) : res[i] = out[i]
  BY <1>1
<1>3. Range(out) = { out[i] : i \in 1..Len(out) } /\ Range(res) = { res[i] : i \in 1..Len(res) }
  BY <1>1, <1>2 DEF Range
<1> HIDE DEF res
<1>4. Range(res) = Range(out) \cup {t}
  BY <1>1, <1>2, <1>3
<1>5. Once(res)
  <2> SUFFICES ASSUME NEW i \in 1..Len(res), NEW j \in 1..Len(res), res[i] = res[j], i # j
               PROVE  FALSE
    BY DEF Once
  <2>1. CASE i \in 1..Len(out) /\ j \in 1..Len(out)
    BY <1>1, <1>2, <2>1 DEF Once
  <2>2. CASE i = Len(out) + 1 /\ j \in 1..Len(out)
    BY <1>2, <1>3, <2>2
  <2>3. CASE j = Len(out) + 1 /\ i \in 1..Len(out)
    BY <1>2, <1>3, <2>3
  <2> QED BY <1>1, <1>2, <2>1, <2>2, <2>3
<1>6. Settled(T, res)
  <2> SUFFICES ASSUME NEW i \in 1..Len(res), NEW d \in Range(graph[res[i]]) \cap T
               PROVE  (\E j \in 1..(i - 1) : res[j] = d) \/ res[i] \in Needs(d, T)
    BY DEF Settled
  <2>1. CASE i \in 1..Len(out)
    <3>1. res[i] = out[i] /\ i - 1 <= Len(out)
      BY <1>1, <1>2, <2>1
    <3>2. (\E j \in 1..(i - 1) : out[j] = d) \/ out[i] \in Needs(d, T)
      BY <1>1, <2>1, <3>1 DEF Settled
    <3>3. \A j \in 1..(i - 1) : j \in 1..Len(out)
      BY <1>1, <2>1
    <3> QED BY <1>2, <3>1, <3>2, <3>3
  <2>2. CASE i = Len(out) + 1
    <3>1. res[i] = t /\ i - 1 = Len(out)
      BY <1>1, <1>2, <2>2
    <3>2. d \in Range(out) \/ t \in Needs(d, T)
      BY <3>1
    <3> QED BY <1>2, <1>3, <3>1, <3>2
  <2> QED BY <1>1, <1>2, <2>1, <2>2
<1> QED BY <1>2, <1>4, <1>5, <1>6 DEF Fine, res

LEMMA GrownTwice ==
  ASSUME NEW T, NEW a, NEW b, NEW c, NEW stack, Grown(T, a, b, stack), Grown(T, b, c, stack)
  PROVE  Grown(T, a, c, stack)
BY DEF Grown

(* What a visit of t with a stack of tasks that wait for t is to do.       *)
Does(visit, T, stack, t) ==
  \A out : Fine(T, out) =>
    Grown(T, out, visit[t][out], stack) /\ t \in Range(visit[t][out]) \cup stack

(* A loop over a list of such tasks.                                       *)
LEMMA LoopGrows ==
  ASSUME NEW T, NEW visit, NEW stack, NEW list, Len(list) \in Nat, NEW out, Fine(T, out),
         \A i \in 1..Len(list) : list[i] \in T => Does(visit, T, stack, list[i])
  PROVE  /\ Grown(T, out, VisitEach(visit, T, list, out), stack)
         /\ \A i \in 1..Len(list) : list[i] \in T =>
              list[i] \in Range(VisitEach(visit, T, list, out)) \cup stack
<1> DEFINE n == Len(list)
           A == { o \in Seq(T) : Fine(T, o) }
<1>1. \A o : o \in A <=> Fine(T, o)
  BY DEF Fine
<1> HIDE DEF A
<1>2. Keeps(visit, T, list, A)
  BY <1>1 DEF Keeps, Does, Grown
<1>3. PICK g : /\ \A i \in 0..n : g[i] = DoneAt(g, visit, T, list, out, i)
               /\ VisitEach(visit, T, list, out) = g[n]
  BY <1>1, <1>2, LoopRuns
<1> DEFINE Ok(i) == /\ Grown(T, out, g[i], stack)
                    /\ \A j \in 1..i : list[j] \in T => list[j] \in Range(g[i]) \cup stack
           G == { i \in 0..n : Ok(i) }
<1>4. 0 \in G
  <2>1. g[0] = out
    BY <1>3 DEF DoneAt
  <2>2. Grown(T, out, g[0], stack)
    BY <2>1 DEF Grown
  <2> QED BY <2>2
<1>5. ASSUME NEW i \in 0..n, i \in G, i < n PROVE i + 1 \in G
  <2>1. i + 1 \in 1..n /\ (i + 1) - 1 = i /\ i + 1 # 0
    BY <1>5
  <2>2. Ok(i)
    BY <1>5
  <2>3. g[i + 1] = IF list[i + 1] \in T THEN visit[list[i + 1]][g[i]] ELSE g[i]
    BY <1>3, <2>1 DEF DoneAt
  <2>4. /\ Grown(T, g[i], g[i + 1], stack)
        /\ list[i + 1] \in T => list[i + 1] \in Range(g[i + 1]) \cup stack
    <3>1. Fine(T, g[i])
      BY <2>2 DEF Grown
    <3>2. CASE list[i + 1] \in T
      BY <2>1, <2>3, <3>1, <3>2 DEF Does
    <3>3. CASE list[i + 1] \notin T
      BY <2>3, <3>1, <3>3 DEF Grown
    <3> QED BY <3>2, <3>3
  <2>5. Grown(T, out, g[i + 1], stack)
    BY <2>2, <2>4, GrownTwice
  <2>6. ASSUME NEW j \in 1..(i + 1), list[j] \in T
        PROVE  list[j] \in Range(g[i + 1]) \cup stack
    <3>1. CASE j = i + 1
      BY <2>4, <2>6, <3>1
    <3>2. CASE j # i + 1
      <4>1. j \in 1..i
        BY <2>1, <3>2
      <4> QED BY <2>2, <2>4, <2>6, <4>1 DEF Grown
    <3> QED BY <3>1, <3>2
  <2> QED BY <2>1, <2>5, <2>6
<1>6. n \in G
  <2> HIDE DEF G
  <2>1. 0..n \subseteq G
    BY <1>4, <1>5, UpTo
  <2> QED BY <2>1
<1> QED BY <1>3, <1>6

(* A visit with the tasks of a stack on the stack does what it is to do,   *)
(* for the tasks they all wait for.                                        *)
Works(T, stack) ==
  \A t \in T : (\A s \in stack : t \in Needs(s, T)) => Does(Visits(T)[stack], T, stack, t)

(* A visit puts its task out once its predecessors are: one that is not    *)
(* out is on the stack, or the task itself, and so waits for the task.     *)
LEMMA VisitDoes ==
  ASSUME NEW T \in SUBSET Ranks, graph \in [Ranks -> Seq(Ranks)],
         NEW stack \in SUBSET T, \A t \in T \ stack : Works(T, stack \cup {t})
  PROVE  Works(T, stack)
<1> SUFFICES ASSUME NEW t \in T, \A s \in stack : t \in Needs(s, T), NEW out, Fine(T, out)
             PROVE  /\ Grown(T, out, Visits(T)[stack][t][out], stack)
                    /\ t \in Range(Visits(T)[stack][t][out]) \cup stack
  BY DEF Works, Does
<1> DEFINE res == Visits(T)[stack][t][out]
           on == stack \cup {t}
           list == graph[t]
           done == VisitEach(Visits(T)[on], T, list, out)
<1>1. IsFiniteSet(T)
  <2>1. 1 \in Int /\ MaxTasks \in Int
    BY TasksAssumption
  <2>2. IsFiniteSet(Ranks)
    BY <2>1, FS_Interval DEF Ranks
  <2> QED BY <2>2, FS_Subset
<1>2. res = IF t \in Range(out) \cup stack THEN out ELSE Append(done, t)
  <2>1. out \in Seq(T) /\ stack \in SUBSET T /\ t \in T
    BY DEF Fine
  <2> QED BY ONLY <1>1, <2>1, VisitsRun
<1>3. CASE t \in Range(out) \cup stack
  BY <1>2, <1>3 DEF Grown
<1>4. CASE t \notin Range(out) \cup stack
  <2>1. list \in Seq(Ranks) /\ Len(list) \in Nat /\ DOMAIN list = 1..Len(list)
    BY <1>4
  <2>2. \A i \in 1..Len(list) : list[i] \in Range(list)
    BY <2>1 DEF Range
  <2>3. \A d \in Range(list) : \E i \in 1..Len(list) : list[i] = d
    BY <2>1 DEF Range
  <2>4. Works(T, on)
    BY <1>4
  <2> HIDE DEF done, res
  <2>5. ASSUME NEW i \in 1..Len(list), list[i] \in T PROVE Does(Visits(T)[on], T, on, list[i])
    <3>1. list[i] \in Range(graph[t]) \cap T
      BY <2>2, <2>5
    <3>2. \A s \in on : list[i] \in Needs(s, T)
      BY <3>1, NeedsPredecessors
    <3> QED BY <2>4, <2>5, <3>2 DEF Works
  <2>6. /\ Grown(T, out, done, on)
        /\ \A i \in 1..Len(list) : list[i] \in T => list[i] \in Range(done) \cup on
    <3> HIDE DEF list, on
    <3> QED BY <2>1, <2>5, LoopGrows DEF done
  <2>7. t \notin Range(done) /\ (Range(done) \ Range(out)) \cap stack = {}
    BY <1>4, <2>6 DEF Grown
  <2>8. \A d \in Range(graph[t]) \cap T : d \in Range(done) \/ t \in Needs(d, T)
    <3> SUFFICES ASSUME NEW d \in Range(graph[t]) \cap T, d \notin Range(done)
                 PROVE  t \in Needs(d, T)
      OBVIOUS
    <3>1. d \in on
      BY <2>3, <2>6
    <3>2. CASE d = t
      BY <3>2, NeedsPredecessors
    <3> QED BY <3>1, <3>2
  <2>9. Fine(T, Append(done, t)) /\ Range(Append(done, t)) = Range(done) \cup {t}
    <3>1. Fine(T, done)
      BY <2>6 DEF Grown
    <3> QED BY <2>7, <2>8, <3>1, PutOut
  <2>10. res = Append(done, t)
    BY <1>2, <1>4
  <2>11. Grown(T, out, res, stack)
    BY <1>4, <2>6, <2>7, <2>9, <2>10 DEF Grown
  <2>12. t \in Range(res)
    BY <2>9, <2>10
  <2> QED BY <2>11, <2>12 DEF res
<1> QED BY <1>3, <1>4

(* The rows: every task once, and below its predecessors unless one of     *)
(* them waits for it.                                                      *)
LEMMA RowsFine ==
  ASSUME NEW T \in SUBSET Ranks, graph \in [Ranks -> Seq(Ranks)]
  PROVE  Fine(T, TopoOrder(T)) /\ Range(TopoOrder(T)) = T
<1> DEFINE list == [r \in Ranks |-> r]
           rows == VisitEach(Visits(T)[{}], T, list, <<>>)
           G == { S \in SUBSET T : Works(T, S) }
<1>1. MaxTasks \in Nat /\ Ranks = 1..MaxTasks
  BY TasksAssumption DEF Ranks
<1>2. list \in Seq(Ranks) /\ Len(list) = MaxTasks /\ \A i \in 1..MaxTasks : list[i] = i
  BY <1>1
<1>3. Works(T, {})
  <2>1. IsFiniteSet(T)
    <3>1. IsFiniteSet(Ranks)
      BY <1>1, FS_Interval
    <3> QED BY <3>1, FS_Subset
  <2>2. ASSUME NEW S \in SUBSET T, \A t \in T \ S : S \cup {t} \in G PROVE S \in G
    BY <2>2, VisitDoes
  <2> HIDE DEF G
  <2>3. SUBSET T \subseteq G
    BY <2>1, <2>2, StackInduction
  <2> QED BY <2>3 DEF G
<1>4. \A t \in T : Does(Visits(T)[{}], T, {}, t)
  BY <1>3 DEF Works
<1>5. Fine(T, <<>>)
  BY DEF Fine, Once, Settled
<1> HIDE DEF list
<1>6. /\ Grown(T, <<>>, rows, {})
      /\ \A i \in 1..Len(list) : list[i] \in T => list[i] \in Range(rows) \cup {}
  BY <1>1, <1>2, <1>4, <1>5, LoopGrows
<1> HIDE DEF rows
<1>7. Fine(T, rows)
  BY <1>6 DEF Grown
<1>8. T \subseteq Range(rows)
  BY <1>1, <1>2, <1>6
<1>9. Range(rows) \subseteq T
  BY <1>7 DEF Fine, Range
<1> QED BY <1>7, <1>8, <1>9 DEF TopoOrder, rows, list

(* The timeline lists every visible task once, and its arrows flow         *)
(* downward except round a cycle.                                          *)
THEOREM ArrowsCorrect == Spec => []ArrowsDown
<1>1. ASSUME IInv PROVE ArrowsDown
  <2> DEFINE T == Visible(feed, tab)
             rows == TopoOrder(T)
             Row(t) == CHOOSE i \in DOMAIN rows : rows[i] = t
  <2>1. T \in SUBSET Ranks /\ graph \in [Ranks -> Seq(Ranks)]
    <3>1. feed \in Feed /\ graph \in Graphs
      BY <1>1 DEF IInv, FeedOK, RestOK
    <3>2. Shown(feed) \subseteq Ranks
      <4>1. feed.items # None => feed.items.size \in 0..MaxTasks
        BY <3>1, TasksAssumption DEF Feed, Board
      <4> QED BY <4>1, TasksAssumption DEF Shown, Ranks
    <3> QED BY <3>1, <3>2, TasksAssumption DEF Visible
  <2>2. Fine(T, rows) /\ Range(rows) = T
    BY <2>1, RowsFine
  <2> HIDE DEF T, rows
  <2>3. rows \in Seq(T) /\ Len(rows) \in Nat /\ DOMAIN rows = 1..Len(rows)
    BY <2>2 DEF Fine
  <2>4. Len(rows) = Cardinality(T)
    <3>1. rows \in [1..Len(rows) -> T]
      BY <2>3
    <3>2. \A i, j \in 1..Len(rows) : rows[i] = rows[j] => i = j
      BY <2>2 DEF Fine, Once
    <3>3. \A t \in T : \E i \in 1..Len(rows) : rows[i] = t
      BY <2>2, <2>3 DEF Range
    <3>4. rows \in Bijection(1..Len(rows), T)
      BY <3>1, <3>2, <3>3 DEF Bijection, Injection, IsInjective, Surjection
    <3> QED BY <2>3, <3>4, FS_CountingElements DEF ExistsBijection
  <2>5. ASSUME NEW a \in Arrows(T), a[2] \notin Needs(a[1], T) PROVE Row(a[1]) < Row(a[2])
    <3>1. a[1] \in T /\ a[2] \in T /\ a[1] \in Range(graph[a[2]])
      BY <2>5 DEF Arrows
    <3>2. PICK i \in 1..Len(rows) : rows[i] = a[2]
      BY <2>2, <2>3, <3>1 DEF Range
    <3>3. PICK j \in 1..(i - 1) : rows[j] = a[1]
      BY <2>2, <2>5, <3>1, <3>2 DEF Fine, Settled
    <3>4. j \in 1..Len(rows) /\ j < i
      BY <2>3
    <3>5. Row(a[2]) = i /\ Row(a[1]) = j
      BY <2>2, <2>3, <3>2, <3>3, <3>4 DEF Fine, Once
    <3> QED BY <3>4, <3>5
  <2> QED BY <2>2, <2>4, <2>5 DEF ArrowsDown, T, rows
<1> QED BY <1>1, Invariance, PTL
=============================================================================
