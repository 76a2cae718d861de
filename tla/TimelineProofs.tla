--------------------------- MODULE TimelineProofs ---------------------------
(***************************************************************************)
(* Theorems about Timeline, for any workspaces, page size, number of ranks *)
(* and of requests in flight. Scrolling and the spinner coming to an end   *)
(* are left to the model checker.                                          *)
(***************************************************************************)
EXTENDS Timeline, TLAPS, FiniteSetTheorems, WellFoundedInduction

(* What must be on screen of a workspace, when older and newer items are.  *)
Live(w) == held[w] \ late[w]

(* Of the ranks H those shown, R, leave no gap; none above the lowest      *)
(* shown and below b is missing; something shown is as old as any of H,    *)
(* or of those of H below b.                                               *)
GapFree(H, R) == \A r \in H \ R : ~ \E lo, hi \in R : lo < r /\ r < hi
Tight(H, R, b) == \A r \in H \ R : r < b => ~ \E lo \in R : lo < r
Ended(H, R) == \A r \in H : \E i \in R : i <= r
EndedBelow(H, R, b) == \A r \in H : r < b => \E i \in R : i <= r

Placed(w, I) == I \subseteq {w} \X known[w]

NewestOK(w, p) ==
  /\ GapFree(Live(w), RanksOf(p.items))
  /\ ~p.more /\ p.items # {} => Ended(Live(w), RanksOf(p.items))

OlderOK(w, b, p) ==
  /\ \A i \in RanksOf(p.items) : i < b
  /\ Tight(Live(w), RanksOf(p.items), b)
  /\ ~p.more => EndedBelow(Live(w), RanksOf(p.items), b)

(* A page that was served stays right while items come and go.             *)
PageOK(q) ==
  /\ Placed(q.ws, q.page.items)
  /\ q.page.more <=> q.page.next # None
  /\ q.page.next # None => q.page.next \in RanksOf(q.page.items)
  /\ q.kind = "newest" => NewestOK(q.ws, q.page)
  /\ q.kind = "older" => OlderOK(q.ws, q.before, q.page)

RequestOK(q) ==
  /\ q.visit <= visits
  /\ q.kind = "newest" => q.before = None
  /\ q.kind = "older" => q.before \in known[q.ws]
  /\ q.page # None => PageOK(q)

CacheOK(w) == Placed(w, cache[w]) /\ GapFree(Live(w), RanksOf(cache[w]))

(* The request belongs to the visit on screen.                             *)
Own(q) == q.visit = visits /\ ~q.orphan

(* What this visit asked for continues what is on screen.                  *)
OwnOK(q) ==
  /\ q.ws = active
  /\ answers = "none" => q.kind = "newest"
  /\ answers = "own" => q.kind = "older" /\ q.before \in RanksOf(items)

ScreenOK ==
  /\ active = None => items = {} /\ ~hasMore /\ answers = "none"
  /\ active # None => visits > 0 /\ Placed(active, items)
  /\ cursor # None => active # None /\ cursor \in known[active]
  /\ active # None /\ answers # "mixed" =>
       /\ GapFree(Live(active), RanksOf(items))
       /\ cursor # None => answers = "own" /\ cursor \in RanksOf(items)
  /\ active # None /\ answers = "own" /\ ~hasMore /\ items # {} =>
       Ended(Live(active), RanksOf(items))

StoreOK == \A w \in Workspaces : held[w] \subseteq known[w]

CachesOK == \A w \in Workspaces : cache[w] # None => CacheOK(w)

RequestsOK == \A s \in Slots : request[s] # None => RequestOK(request[s])

OwnersOK ==
  \A s \in Slots : request[s] # None /\ Own(request[s]) =>
    active # None /\ OwnOK(request[s])

(* A visit asks for the newest page once.                                  *)
OneNewest ==
  \A s, t \in Slots :
    /\ request[s] # None /\ Own(request[s]) /\ request[s].kind = "newest"
    /\ request[t] # None /\ Own(request[t]) /\ request[t].kind = "newest"
    => s = t

IInv ==
  /\ TypeOK /\ StoreOK /\ CachesOK /\ ScreenOK
  /\ RequestsOK /\ OwnersOK /\ OneNewest

-----------------------------------------------------------------------------
(* Facts about ranks.                                                      *)
LEMMA RanksFinite ==
  ASSUME NEW P \in SUBSET Ranks
  PROVE  IsFiniteSet(P) /\ Cardinality(P) \in Nat
<1>1. IsFiniteSet(Ranks)
  BY TimelineAssumption, FS_Interval DEF TimelineAssumption, Ranks
<1>2. IsFiniteSet(P)
  BY <1>1, FS_Subset
<1>3. QED BY <1>2, FS_CardinalityType

LEMMA LeastRank ==
  ASSUME NEW P \in SUBSET Ranks, P # {}
  PROVE  Min(P) \in P /\ \A r \in P : Min(P) <= r
<1>1. P \subseteq Nat
  BY TimelineAssumption DEF TimelineAssumption, Ranks
<1>2. PICK x \in P : \A y \in P : ~ (<<y, x>> \in OpToRel(<, Nat))
  BY <1>1, NatLessThanWellFounded, WFMin
<1>3. \A y \in P : x <= y
  <2>1. TAKE y \in P
  <2>2. <<y, x>> \in Nat \X Nat
    BY <1>1
  <2>3. ~ (y < x)
    BY <1>2, <2>2 DEF OpToRel
  <2>4. QED BY <1>1, <2>3
<1>4. QED BY <1>3 DEF Min

LEMMA GreatestRank ==
  ASSUME NEW P \in SUBSET Ranks, P # {}
  PROVE  \E m \in P : \A r \in P : r <= m
<1> DEFINE Q == { MaxRank + 1 - r : r \in P }
<1>1. MaxRank \in Nat
  BY TimelineAssumption DEF TimelineAssumption
<1>2. Q \in SUBSET Ranks /\ Q # {}
  <2>1. \A r \in P : MaxRank + 1 - r \in Ranks
    BY <1>1 DEF Ranks
  <2>2. Q \subseteq Ranks
    BY <2>1
  <2>3. QED BY <2>2
<1>3. Min(Q) \in Q /\ \A r \in Q : Min(Q) <= r
  BY <1>2, LeastRank
<1>4. PICK m \in P : Min(Q) = MaxRank + 1 - m
  BY <1>3
<1>5. \A r \in P : r <= m
  <2>1. TAKE r \in P
  <2>2. MaxRank + 1 - m <= MaxRank + 1 - r
    BY <1>3, <1>4
  <2>3. QED BY <1>1, <2>2 DEF Ranks
<1>6. QED BY <1>5

(* A page has every rank above one it has.                                 *)
LEMMA NewestClosed ==
  ASSUME NEW P \in SUBSET Ranks, NEW lo \in Newest(P, PageSize),
         NEW r \in P, lo < r
  PROVE  r \in Newest(P, PageSize)
<1> DEFINE Above(x) == { q \in P : q > x }
<1>1. PageSize \in Nat /\ P \subseteq Int
  BY TimelineAssumption DEF TimelineAssumption, Ranks
<1>2. lo \in P /\ Cardinality(Above(lo)) < PageSize
  BY DEF Newest
<1>3. Above(lo) \in SUBSET Ranks /\ Above(r) \in SUBSET Above(lo) /\ Above(r) \in SUBSET Ranks
  <2>1. \A q \in P : q > r => q > lo
    BY <1>1, <1>2
  <2>2. Above(r) \subseteq Above(lo)
    BY <2>1
  <2>3. QED BY <2>2
<1>4. Cardinality(Above(r)) <= Cardinality(Above(lo))
  BY <1>3, RanksFinite, FS_Subset
<1>5. Cardinality(Above(r)) \in Nat /\ Cardinality(Above(lo)) \in Nat
  BY <1>3, RanksFinite
<1>6. Cardinality(Above(r)) < PageSize
  BY <1>1, <1>2, <1>4, <1>5
<1>7. QED BY <1>6 DEF Newest

LEMMA NewestSome ==
  ASSUME NEW P \in SUBSET Ranks, P # {}
  PROVE  Newest(P, PageSize) # {}
<1>1. PICK m \in P : \A r \in P : r <= m
  BY GreatestRank
<1>2. { q \in P : q > m } = {}
  <2>1. \A q \in P : ~ (q > m)
    BY <1>1 DEF Ranks
  <2>2. QED BY <2>1
<1>3. Cardinality({ q \in P : q > m }) = 0
  BY <1>2, FS_EmptySet
<1>4. QED BY <1>3, TimelineAssumption DEF Newest, TimelineAssumption

(* What the replica answers: a page and its cursor.                        *)
LEMMA WindowIs ==
  ASSUME TypeOK, NEW w \in Workspaces, NEW b \in Ranks \cup {None}
  PROVE  LET pool == { r \in held[w] : b = None \/ r < b }
             p == Window(w, b)
         IN  /\ p \in Page
             /\ p.items = {w} \X Newest(pool, PageSize)
             /\ RanksOf(p.items) = Newest(pool, PageSize)
             /\ p.more <=> p.next # None
             /\ p.next # None => p.next \in RanksOf(p.items)
             /\ ~p.more => RanksOf(p.items) = pool
<1> DEFINE pool == { r \in held[w] : b = None \/ r < b }
           page == Newest(pool, PageSize)
           more == Cardinality(pool) > Cardinality(page)
           p == Window(w, b)
<1>1. pool \in SUBSET Ranks /\ page \in SUBSET pool /\ page \in SUBSET Ranks
  BY DEF TypeOK, Newest
<1>2. Cardinality(pool) \in Nat /\ Cardinality(page) \in Nat /\ IsFiniteSet(pool)
  BY <1>1, RanksFinite
<1>3. Cardinality(page) <= Cardinality(pool) /\ (Cardinality(pool) = Cardinality(page) => pool = page)
  BY <1>1, <1>2, FS_Subset
<1>4. ASSUME more PROVE Min(page) \in page
  <2>1. pool # {}
    BY <1>2, <1>4, FS_EmptySet
  <2>2. page # {}
    BY <1>1, <2>1, NewestSome
  <2>3. QED BY <1>1, <2>2, LeastRank
<1>5. ~more => page = pool
  BY <1>2, <1>3
<1>6. p = [items |-> {w} \X page, more |-> more, next |-> IF more THEN Min(page) ELSE None]
  BY DEF Window
<1>7. None \notin Ranks
  BY TimelineAssumption DEF TimelineAssumption, Ranks
<1>8. RanksOf({w} \X page) = page
  <2>1. \A i \in {w} \X page : i[2] \in page
    OBVIOUS
  <2>2. \A r \in page : <<w, r>> \in {w} \X page /\ <<w, r>>[2] = r
    OBVIOUS
  <2>3. QED BY <2>1, <2>2, Zenon DEF RanksOf
<1> HIDE DEF pool, page, p
<1>9. more \in BOOLEAN
  OBVIOUS
<1> HIDE DEF more
<1>10. p.items = {w} \X page /\ p.more = more /\ p.next = IF more THEN Min(page) ELSE None
  BY <1>6
<1>11. p \in Page
  <2>1. {w} \X page \in SUBSET Item
    BY <1>1 DEF Item
  <2>2. (IF more THEN Min(page) ELSE None) \in Ranks \cup {None}
    BY <1>1, <1>4
  <2>3. QED BY <1>6, <1>9, <2>1, <2>2 DEF Page
<1>12. p.more <=> p.next # None
  BY <1>1, <1>4, <1>7, <1>10
<1>13. p.next # None => p.next \in RanksOf(p.items)
  BY <1>4, <1>8, <1>10
<1>14. ~p.more => RanksOf(p.items) = pool
  BY <1>5, <1>8, <1>10
<1>15. QED BY <1>8, <1>10, <1>11, <1>12, <1>13, <1>14 DEF pool, page, p

-----------------------------------------------------------------------------
(* Items come and go: what comes is synced late or newer than all before.  *)
LEMMA Growing ==
  ASSUME NEW K \in SUBSET Ranks, NEW R \in SUBSET K,
         NEW H, NEW H2 \in SUBSET Ranks,
         \A x \in H2 : x \in H \/ \A k \in K : k < x
  PROVE  /\ GapFree(H, R) => GapFree(H2, R)
         /\ \A b \in K : Tight(H, R, b) => Tight(H2, R, b)
         /\ R # {} /\ Ended(H, R) => Ended(H2, R)
         /\ \A b \in K : EndedBelow(H, R, b) => EndedBelow(H2, R, b)
<1>1. Ranks \subseteq Int
  BY DEF Ranks
<1>2. \A x \in H2, k \in K : x \in H \/ ~ (x < k)
  BY <1>1
<1>3. GapFree(H, R) => GapFree(H2, R)
  BY <1>2 DEF GapFree
<1>4. \A b \in K : Tight(H, R, b) => Tight(H2, R, b)
  BY <1>2 DEF Tight
<1>5. ASSUME R # {}, Ended(H, R), NEW x \in H2 PROVE \E i \in R : i <= x
  <2>1. CASE x \in H
    BY <1>5, <2>1 DEF Ended
  <2>2. CASE \A k \in K : k < x
    <3>1. PICK i \in R : TRUE
      BY <1>5
    <3>2. i < x /\ i \in Int /\ x \in Int
      BY <1>1, <2>2
    <3>3. i <= x
      BY <3>2
    <3>4. QED BY <3>3
  <2>3. QED BY <2>1, <2>2
<1>6. \A b \in K : EndedBelow(H, R, b) => EndedBelow(H2, R, b)
  BY <1>2 DEF EndedBelow
<1>7. R # {} /\ Ended(H, R) => Ended(H2, R)
  BY <1>5 DEF Ended
<1>8. QED BY <1>3, <1>4, <1>6, <1>7

LEMMA PlacedRanks ==
  ASSUME NEW w, NEW I, Placed(w, I)
  PROVE  RanksOf(I) \in SUBSET known[w] /\ (I # {} => RanksOf(I) # {})
BY DEF Placed, RanksOf

LEMMA StoreGrows ==
  ASSUME IInv, NEW w \in Changing, NEW r \in Ranks, Add(w, r) \/ Retract(w, r)
  PROVE  /\ TypeOK' /\ StoreOK'
         /\ \A v \in Workspaces :
              /\ known[v] \in SUBSET known'[v] /\ known'[v] \in SUBSET Ranks
              /\ Live(v)' \in SUBSET Ranks
              /\ \A x \in Live(v)' : x \in Live(v) \/ \A k \in known[v] : k < x
<1>1. w \in Workspaces
  BY TimelineAssumption DEF TimelineAssumption
<1>2. UNCHANGED <<feedVars, request>>
  BY DEF Add, Retract
<1>3. held \in [Workspaces -> SUBSET Ranks] /\ known \in [Workspaces -> SUBSET Ranks]
      /\ late \in [Workspaces -> SUBSET Ranks] /\ StoreOK
  BY DEF IInv, TypeOK
<1>4. CASE Add(w, r)
  <2>1. /\ held' = [held EXCEPT ![w] = @ \cup {r}]
        /\ known' = [known EXCEPT ![w] = @ \cup {r}]
        /\ r \notin known[w]
    BY <1>4 DEF Add
  <2>2. late' = [late EXCEPT ![w] = @ \cup {r}] \/ (late' = late /\ \A q \in known[w] : ~ (q > r))
    BY <1>4 DEF Add
  <2>3. /\ held' \in [Workspaces -> SUBSET Ranks] /\ known' \in [Workspaces -> SUBSET Ranks]
        /\ late' \in [Workspaces -> SUBSET Ranks]
    BY <1>3, <2>1, <2>2
  <2>4. TypeOK'
    BY <1>2, <2>3 DEF IInv, TypeOK, feedVars
  <2>5. StoreOK'
    BY <1>1, <1>3, <2>1 DEF StoreOK
  <2>6. ASSUME NEW v \in Workspaces
        PROVE  /\ known[v] \in SUBSET known'[v] /\ known'[v] \in SUBSET Ranks
               /\ Live(v)' \in SUBSET Ranks
               /\ \A x \in Live(v)' : x \in Live(v) \/ \A k \in known[v] : k < x
    <3>1. known[v] \in SUBSET known'[v] /\ known'[v] \in SUBSET Ranks /\ Live(v)' \in SUBSET Ranks
      BY <1>1, <1>3, <2>1, <2>3 DEF Live
    <3>2. CASE v # w
      BY <3>1, <3>2, <1>1, <1>3, <2>1, <2>2 DEF Live
    <3>3. CASE v = w
      <4>1. held'[v] = held[v] \cup {r}
        BY <3>3, <1>1, <1>3, <2>1
      <4>2. late[v] \subseteq late'[v] /\ (r \in late'[v] \/ \A k \in known[v] : ~ (k > r))
        BY <3>3, <1>1, <1>3, <2>2
      <4>3. (\A k \in known[v] : ~ (k > r)) => \A k \in known[v] : k < r
        BY <3>3, <1>1, <1>3, <2>1 DEF Ranks
      <4>4. QED BY <3>1, <4>1, <4>2, <4>3 DEF Live
    <3>4. QED BY <3>2, <3>3
  <2>7. QED BY <2>4, <2>5, <2>6
<1>5. CASE Retract(w, r)
  <2>1. held' = [held EXCEPT ![w] = @ \ {r}] /\ UNCHANGED <<known, late>>
    BY <1>5 DEF Retract
  <2>2. held' \in [Workspaces -> SUBSET Ranks]
    BY <1>3, <2>1
  <2>3. TypeOK'
    BY <1>2, <2>1, <2>2 DEF IInv, TypeOK, feedVars
  <2>4. StoreOK'
    BY <1>1, <1>3, <2>1 DEF StoreOK
  <2>5. ASSUME NEW v \in Workspaces
        PROVE  /\ known[v] \in SUBSET known'[v] /\ known'[v] \in SUBSET Ranks
               /\ Live(v)' \in SUBSET Ranks
               /\ \A x \in Live(v)' : x \in Live(v) \/ \A k \in known[v] : k < x
    BY <1>1, <1>3, <2>1, <2>2 DEF Live
  <2>6. QED BY <2>3, <2>4, <2>5
<1>6. QED BY <1>4, <1>5

LEMMA StoreStep ==
  ASSUME IInv, NEW w \in Changing, NEW r \in Ranks, Add(w, r) \/ Retract(w, r)
  PROVE  IInv'
<1>1. /\ TypeOK' /\ StoreOK'
      /\ \A v \in Workspaces :
           /\ known[v] \in SUBSET known'[v] /\ known'[v] \in SUBSET Ranks
           /\ Live(v)' \in SUBSET Ranks
           /\ \A x \in Live(v)' : x \in Live(v) \/ \A k \in known[v] : k < x
  BY StoreGrows
<1>2. UNCHANGED <<feedVars, request>>
  BY DEF Add, Retract
<1>3. UNCHANGED <<active, items, hasMore, cursor, cache, visits, answers, request>>
  BY <1>2 DEF feedVars
<1>4. ASSUME NEW v \in Workspaces, NEW I, Placed(v, I)
      PROVE  /\ Placed(v, I)'
             /\ GapFree(Live(v), RanksOf(I)) => GapFree(Live(v)', RanksOf(I))
             /\ \A b \in known[v] : Tight(Live(v), RanksOf(I), b) => Tight(Live(v)', RanksOf(I), b)
             /\ I # {} /\ Ended(Live(v), RanksOf(I)) => Ended(Live(v)', RanksOf(I))
             /\ \A b \in known[v] : EndedBelow(Live(v), RanksOf(I), b) => EndedBelow(Live(v)', RanksOf(I), b)
  <2>1. RanksOf(I) \in SUBSET known[v] /\ (I # {} => RanksOf(I) # {})
    BY <1>4, PlacedRanks
  <2>2. Placed(v, I)'
    BY <1>1, <1>4 DEF Placed
  <2>3. known[v] \in SUBSET Ranks
    BY <1>1
  <2> DEFINE H2 == Live(v)'
  <2>4. H2 \in SUBSET Ranks /\ \A x \in H2 : x \in Live(v) \/ \A k \in known[v] : k < x
    BY <1>1
  <2> HIDE DEF H2
  <2>5. /\ GapFree(Live(v), RanksOf(I)) => GapFree(H2, RanksOf(I))
        /\ \A b \in known[v] : Tight(Live(v), RanksOf(I), b) => Tight(H2, RanksOf(I), b)
        /\ RanksOf(I) # {} /\ Ended(Live(v), RanksOf(I)) => Ended(H2, RanksOf(I))
        /\ \A b \in known[v] : EndedBelow(Live(v), RanksOf(I), b) => EndedBelow(H2, RanksOf(I), b)
    BY <2>1, <2>3, <2>4, Growing
  <2>6. QED BY <2>1, <2>2, <2>5 DEF H2
<1>5. CachesOK'
  <2>1. SUFFICES ASSUME NEW v \in Workspaces, cache[v] # None
                 PROVE  CacheOK(v)'
    BY <1>3 DEF CachesOK
  <2>2. CacheOK(v)
    BY <2>1 DEF IInv, CachesOK
  <2>3. QED BY <1>3, <1>4, <2>2 DEF CacheOK
<1>6. ScreenOK'
  <2>1. ScreenOK /\ active \in Workspaces \cup {None}
    BY DEF IInv, TypeOK
  <2>2. CASE active = None
    BY <2>1, <2>2, <1>3 DEF ScreenOK
  <2>3. CASE active # None
    <3>1. active \in Workspaces /\ Placed(active, items)
      BY <2>1, <2>3 DEF ScreenOK
    <3>2. known[active] \in SUBSET known'[active]
      BY <1>1, <3>1
    <3>3. /\ Placed(active, items)'
          /\ GapFree(Live(active), RanksOf(items)) => GapFree(Live(active)', RanksOf(items))
          /\ items # {} /\ Ended(Live(active), RanksOf(items)) => Ended(Live(active)', RanksOf(items))
      BY <1>3, <1>4, <3>1
    <3>4. QED BY <1>3, <2>1, <2>3, <3>2, <3>3 DEF ScreenOK
  <2>4. QED BY <2>2, <2>3
<1>7. RequestsOK'
  <2>1. SUFFICES ASSUME NEW s \in Slots, request[s] # None
                 PROVE  RequestOK(request[s])'
    BY <1>3 DEF RequestsOK
  <2>2. PICK q \in Request : q = request[s]
    BY <2>1 DEF IInv, TypeOK
  <2>3. RequestOK(q) /\ q.ws \in Workspaces
    BY <2>1, <2>2 DEF IInv, RequestsOK, Request
  <2>4. known[q.ws] \in SUBSET known'[q.ws]
    BY <1>1, <2>3
  <2>5. ASSUME q.page # None PROVE PageOK(q)'
    <3>1. PageOK(q)
      BY <2>3, <2>5 DEF RequestOK
    <3>2. q.kind = "newest" => NewestOK(q.ws, q.page)'
      BY <1>4, <2>3, <3>1 DEF PageOK, NewestOK
    <3>3. q.kind = "older" => OlderOK(q.ws, q.before, q.page)'
      BY <1>4, <2>3, <3>1 DEF PageOK, OlderOK, RequestOK
    <3>4. Placed(q.ws, q.page.items)'
      BY <1>4, <2>3, <3>1 DEF PageOK
    <3>5. QED BY <3>1, <3>2, <3>3, <3>4 DEF PageOK
  <2>6. RequestOK(q)'
    BY <1>3, <2>3, <2>4, <2>5 DEF RequestOK
  <2>7. QED BY <1>3, <2>2, <2>6 DEF RequestOK, PageOK
<1>8. OwnersOK' /\ OneNewest'
  BY <1>3 DEF IInv, OwnersOK, OneNewest, Own, OwnOK
<1>9. QED BY <1>1, <1>5, <1>6, <1>7, <1>8 DEF IInv

-----------------------------------------------------------------------------
(* The steps of the browser leave the store alone.                         *)
LEMMA StillOK ==
  ASSUME UNCHANGED storeVars
  PROVE  /\ StoreOK => StoreOK'
         /\ \A q : PageOK(q) => PageOK(q)'
         /\ \A q : visits <= visits' /\ visits \in Int /\ visits' \in Int
                     /\ q.visit \in Int /\ RequestOK(q) => RequestOK(q)'
         /\ \A w : CacheOK(w) /\ cache'[w] = cache[w] => CacheOK(w)'
<1>1. held' = held /\ known' = known /\ late' = late
  BY DEF storeVars
<1>2. StoreOK => StoreOK'
  BY <1>1 DEF StoreOK
<1>3. ASSUME NEW q, PageOK(q) PROVE PageOK(q)'
  BY <1>1, <1>3 DEF PageOK, Placed, NewestOK, OlderOK, Live
<1>4. ASSUME NEW q, visits <= visits', visits \in Int, visits' \in Int, q.visit \in Int, RequestOK(q)
      PROVE  RequestOK(q)'
  BY <1>1, <1>3, <1>4 DEF RequestOK
<1>5. ASSUME NEW w, CacheOK(w), cache'[w] = cache[w] PROVE CacheOK(w)'
  BY <1>1, <1>5 DEF CacheOK, Placed, Live
<1>6. QED BY <1>2, <1>3, <1>4, <1>5

LEMMA AllOK ==
  ASSUME \A t \in Slots : request'[t] # None =>
           \E p \in Request : p = request'[t] /\ RequestOK(p)'
  PROVE  RequestsOK'
<1>1. SUFFICES ASSUME NEW t \in Slots, request'[t] # None
               PROVE  RequestOK(request[t])'
  BY DEF RequestsOK
<1>2. PICK p \in Request : p = request'[t] /\ RequestOK(p)'
  BY <1>1
<1>3. QED BY <1>2 DEF RequestOK, PageOK

(* A visit begins: every request in flight was asked for in another one.   *)
LEMMA OpenStep ==
  ASSUME IInv, NEW w \in Workspaces, NEW s \in Slots, Open(w, s)
  PROVE  IInv'
<1>1. /\ TypeOK /\ StoreOK /\ CachesOK /\ ScreenOK
      /\ RequestsOK /\ OwnersOK /\ OneNewest
  BY DEF IInv
<1>2. /\ visits < MaxVisits /\ visits' = visits + 1
      /\ active' = w
      /\ items' = (IF cache[w] = None THEN {} ELSE cache[w])
      /\ loading' = (cache[w] = None)
      /\ hasMore' = FALSE /\ cursor' = None /\ busy' = FALSE /\ answers' = "none"
      /\ UNCHANGED storeVars /\ cache' = cache
      /\ request' = [request EXCEPT ![s] =
           [kind |-> "newest", ws |-> w, before |-> None, visit |-> visits',
            orphan |-> FALSE, page |-> None]]
  BY DEF Open, Ask
<1>3. visits \in 0..MaxVisits /\ MaxVisits \in Nat /\ visits' \in 1..MaxVisits
  BY <1>1, <1>2, TimelineAssumption DEF TypeOK, TimelineAssumption
<1>4. PICK q \in Request :
        /\ q.kind = "newest" /\ q.ws = w /\ q.before = None /\ q.visit = visits'
        /\ q.orphan = FALSE /\ q.page = None
        /\ request' = [request EXCEPT ![s] = q]
        /\ request' \in [Slots -> Request \cup {None}]
  <2> DEFINE q == [kind |-> "newest", ws |-> w, before |-> None, visit |-> visits',
                   orphan |-> FALSE, page |-> None]
  <2>1. q \in Request
    BY <1>3 DEF Request
  <2>2. request' = [request EXCEPT ![s] = q]
    BY <1>2
  <2>3. request' \in [Slots -> Request \cup {None}]
    BY <1>1, <2>1, <2>2 DEF TypeOK
  <2>4. QED BY <2>1, <2>2, <2>3
<1>5. held' = held /\ known' = known /\ late' = late
  BY <1>2 DEF storeVars
<1>6. w # None
  BY TimelineAssumption DEF TimelineAssumption
<1>7. cache[w] # None => CacheOK(w)
  BY <1>1 DEF CachesOK
<1>8. TypeOK'
  <2>1. items' \subseteq Item
    <3>1. cache[w] \in (SUBSET Item) \cup {None}
      BY <1>1 DEF TypeOK
    <3>2. QED BY <1>2, <3>1
  <2>2. loading' \in BOOLEAN /\ visits' \in 0..MaxVisits
    BY <1>2, <1>3
  <2>3. QED BY <1>1, <1>2, <1>4, <1>5, <2>1, <2>2 DEF TypeOK
<1>9. StoreOK' /\ CachesOK'
  BY <1>1, <1>2, StillOK DEF CachesOK
<1>10. ScreenOK'
  <2>1. Placed(active, items)' /\ GapFree(Live(active), RanksOf(items))'
    <3>1. CASE cache[w] = None
      BY <1>2, <3>1 DEF Placed, GapFree, RanksOf
    <3>2. CASE cache[w] # None
      BY <1>2, <1>5, <1>7, <3>2 DEF CacheOK, Placed, Live
    <3>3. QED BY <3>1, <3>2
  <2>2. QED BY <1>2, <1>3, <1>6, <2>1 DEF ScreenOK
<1>11. ASSUME NEW t \in Slots, request'[t] # None
       PROVE  \E p \in Request : /\ p = request'[t] /\ RequestOK(p)'
                                 /\ t # s => p.visit # visits'
  <2>1. CASE t = s
    <3>1. request'[t] = q
      BY <1>1, <1>4, <2>1 DEF TypeOK
    <3>2. RequestOK(q)'
      BY <1>3, <1>4 DEF RequestOK
    <3>3. QED BY <2>1, <3>1, <3>2
  <2>2. CASE t # s
    <3>1. request'[t] = request[t] /\ request[t] # None /\ request[t] \in Request
      BY <1>1, <1>4, <1>11, <2>2 DEF TypeOK
    <3>2. PICK p \in Request : p = request[t]
      BY <3>1
    <3>3. RequestOK(p) /\ p.visit \in 1..MaxVisits
      BY <1>1, <3>1, <3>2 DEF RequestsOK, Request
    <3>4. p.visit <= visits
      BY <3>3 DEF RequestOK
    <3>5. p.visit # visits' /\ visits <= visits' /\ visits \in Int /\ visits' \in Int /\ p.visit \in Int
      BY <1>2, <1>3, <3>3, <3>4
    <3>6. RequestOK(p)'
      BY <1>2, <3>3, <3>5, StillOK
    <3>7. QED BY <3>1, <3>2, <3>5, <3>6
  <2>3. QED BY <2>1, <2>2
<1>12. RequestsOK'
  BY <1>11, AllOK
<1>13. ASSUME NEW t \in Slots, request'[t] # None, Own(request[t])'
       PROVE  t = s
  BY <1>11, <1>13 DEF Own
<1>14. OneNewest'
  BY <1>13 DEF OneNewest
<1>15. OwnersOK'
  <2>1. request'[s] = q
    BY <1>1, <1>4 DEF TypeOK
  <2>2. active' # None /\ OwnOK(q)'
    BY <1>2, <1>4, <1>6 DEF OwnOK
  <2>3. OwnOK(request[s])'
    BY <2>1, <2>2 DEF OwnOK
  <2>4. QED BY <1>13, <2>2, <2>3 DEF OwnersOK
<1>16. QED BY <1>8, <1>9, <1>10, <1>12, <1>14, <1>15 DEF IInv

(* Every request left in flight outlived its canvas.                       *)
LEMMA LeaveStep ==
  ASSUME IInv, Leave
  PROVE  IInv'
<1>1. /\ TypeOK /\ StoreOK /\ CachesOK /\ RequestsOK
      /\ visits \in 0..MaxVisits /\ MaxVisits \in Nat
  BY TimelineAssumption DEF IInv, TypeOK, TimelineAssumption
<1>2. /\ active' = None /\ items' = {} /\ loading' = FALSE
      /\ hasMore' = FALSE /\ cursor' = None /\ busy' = FALSE /\ answers' = "none"
      /\ UNCHANGED storeVars /\ cache' = cache /\ visits' = visits
      /\ held' = held /\ known' = known /\ late' = late
  BY DEF Leave, storeVars
<1>3. ASSUME NEW t \in Slots
      PROVE  /\ request'[t] \in Request \cup {None}
             /\ request'[t] # None =>
                  \E p \in Request : p = request'[t] /\ RequestOK(p)' /\ p.orphan
  <2>1. CASE request[t] = None
    BY <2>1 DEF Leave
  <2>2. CASE request[t] # None /\ request[t].orphan
    <3>1. request'[t] = request[t]
      BY <2>2 DEF Leave
    <3>2. PICK p \in Request : p = request[t]
      BY <1>1, <2>2 DEF TypeOK
    <3>3. RequestOK(p) /\ p.visit \in Int
      BY <1>1, <2>2, <3>2 DEF RequestsOK, Request
    <3>4. RequestOK(p)'
      BY <1>1, <1>2, <3>3, StillOK
    <3>5. QED BY <2>2, <3>1, <3>2, <3>4
  <2>3. CASE request[t] # None /\ ~request[t].orphan
    <3>1. request'[t] = [request[t] EXCEPT !.orphan = TRUE] \/ request'[t] = None
      BY <2>3 DEF Leave
    <3>2. CASE request'[t] = None
      BY <3>2
    <3>3. CASE request'[t] = [request[t] EXCEPT !.orphan = TRUE]
      <4>1. PICK q \in Request : q = request[t]
        BY <1>1, <2>3 DEF TypeOK
      <4>2. PICK p \in Request : /\ p = [q EXCEPT !.orphan = TRUE]
                                 /\ p.kind = q.kind /\ p.ws = q.ws /\ p.before = q.before
                                 /\ p.visit = q.visit /\ p.page = q.page /\ p.orphan = TRUE
        <5>1. [q EXCEPT !.orphan = TRUE] \in Request
          BY DEF Request
        <5>2. PICK p \in Request : p = [q EXCEPT !.orphan = TRUE]
          BY <5>1
        <5>3. /\ p.kind = q.kind /\ p.ws = q.ws /\ p.before = q.before
              /\ p.visit = q.visit /\ p.page = q.page /\ p.orphan = TRUE
          BY <5>2 DEF Request
        <5>4. QED BY <5>2, <5>3
      <4>3. RequestOK(q) /\ q.visit \in Int
        BY <1>1, <2>3, <4>1 DEF RequestsOK, Request
      <4>4. RequestOK(q)'
        BY <1>1, <1>2, <4>3, StillOK
      <4>5. RequestOK(p)'
        BY <4>2, <4>4 DEF RequestOK, PageOK
      <4>6. QED BY <3>3, <4>1, <4>2, <4>5
    <3>4. QED BY <3>1, <3>2, <3>3
  <2>4. QED BY <2>1, <2>2, <2>3
<1>4. request' \in [Slots -> Request \cup {None}]
  <2>1. request' = [t \in Slots |-> request'[t]]
    BY DEF Leave
  <2>2. QED BY <1>3, <2>1
<1>5. TypeOK'
  BY <1>1, <1>2, <1>4 DEF TypeOK
<1>6. StoreOK' /\ CachesOK'
  BY <1>1, <1>2, StillOK DEF CachesOK
<1>7. ScreenOK'
  BY <1>2 DEF ScreenOK
<1>8. RequestsOK'
  BY <1>3, AllOK
<1>9. ASSUME NEW t \in Slots, request'[t] # None PROVE ~ Own(request[t])'
  BY <1>3, <1>9 DEF Own
<1>10. OwnersOK' /\ OneNewest'
  BY <1>9 DEF OwnersOK, OneNewest
<1>11. QED BY <1>5, <1>6, <1>7, <1>8, <1>10 DEF IInv

(* An older page continues what is on screen: its cursor is shown.         *)
LEMMA LoadOlderStep ==
  ASSUME IInv, NEW s \in Slots, LoadOlder(s)
  PROVE  IInv'
<1>1. /\ TypeOK /\ StoreOK /\ CachesOK /\ ScreenOK
      /\ RequestsOK /\ OwnersOK /\ OneNewest
  BY DEF IInv
<1>2. /\ hasMore /\ cursor # None /\ busy' = TRUE /\ visits' = visits
      /\ active' = active /\ items' = items /\ loading' = loading
      /\ hasMore' = hasMore /\ cursor' = cursor /\ cache' = cache /\ answers' = answers
      /\ UNCHANGED storeVars
      /\ held' = held /\ known' = known /\ late' = late
      /\ request' = [request EXCEPT ![s] =
           [kind |-> "older", ws |-> active, before |-> cursor, visit |-> visits',
            orphan |-> FALSE, page |-> None]]
  BY DEF LoadOlder, Ask, storeVars
<1>3. /\ active # None /\ active \in Workspaces /\ cursor \in Ranks /\ cursor \in known[active]
      /\ answers # "mixed" => answers = "own" /\ cursor \in RanksOf(items)
  BY <1>1, <1>2 DEF TypeOK, ScreenOK
<1>4. visits \in 1..MaxVisits
  BY <1>1, <1>3 DEF TypeOK, ScreenOK
<1>5. PICK q \in Request :
        /\ q.kind = "older" /\ q.ws = active /\ q.before = cursor /\ q.visit = visits
        /\ q.orphan = FALSE /\ q.page = None
        /\ request' = [request EXCEPT ![s] = q]
        /\ request' \in [Slots -> Request \cup {None}]
  <2> DEFINE q == [kind |-> "older", ws |-> active, before |-> cursor, visit |-> visits',
                   orphan |-> FALSE, page |-> None]
  <2>1. q \in Request
    BY <1>2, <1>3, <1>4 DEF Request
  <2>2. request' = [request EXCEPT ![s] = q]
    BY <1>2
  <2>3. request' \in [Slots -> Request \cup {None}]
    BY <1>1, <2>1, <2>2 DEF TypeOK
  <2>4. QED BY <1>2, <2>1, <2>2, <2>3
<1>6. TypeOK'
  BY <1>1, <1>2, <1>5 DEF TypeOK
<1>7. StoreOK' /\ CachesOK'
  BY <1>1, <1>2, StillOK DEF CachesOK
<1>8. ScreenOK'
  BY <1>1, <1>2 DEF ScreenOK, Placed, Live
<1>9. /\ request'[s] = q
      /\ \A t \in Slots : t # s => request'[t] = request[t]
  BY <1>1, <1>5 DEF TypeOK
<1>10. ASSUME NEW t \in Slots, request'[t] # None
       PROVE  \E p \in Request : p = request'[t] /\ RequestOK(p)'
  <2>1. CASE t = s
    <3>1. RequestOK(q)'
      BY <1>2, <1>3, <1>4, <1>5 DEF RequestOK
    <3>2. QED BY <1>9, <2>1, <3>1
  <2>2. CASE t # s
    <3>1. PICK p \in Request : p = request[t] /\ request'[t] = request[t] /\ request[t] # None
      BY <1>1, <1>9, <1>10, <2>2 DEF TypeOK
    <3>2. RequestOK(p) /\ p.visit \in Int
      BY <1>1, <3>1 DEF RequestsOK, Request
    <3>3. RequestOK(p)'
      BY <1>2, <1>4, <3>2, StillOK
    <3>4. QED BY <3>1, <3>3
  <2>3. QED BY <2>1, <2>2
<1>11. RequestsOK'
  BY <1>10, AllOK
<1>12. OwnersOK'
  <2>1. SUFFICES ASSUME NEW t \in Slots, request'[t] # None, Own(request[t])'
                 PROVE  active' # None /\ OwnOK(request[t])'
    BY DEF OwnersOK
  <2>2. CASE t = s
    <3>1. answers = "none" \/ answers = "own" \/ answers = "mixed"
      BY <1>1 DEF TypeOK
    <3>2. QED BY <1>2, <1>3, <1>5, <1>9, <2>2, <3>1 DEF OwnOK
  <2>3. CASE t # s
    <3>1. request[t] # None /\ Own(request[t])
      BY <1>2, <1>9, <2>1, <2>3 DEF Own
    <3>2. OwnOK(request[t])
      BY <1>1, <3>1 DEF OwnersOK
    <3>3. QED BY <1>2, <1>3, <1>9, <2>3, <3>2 DEF OwnOK
  <2>4. QED BY <2>2, <2>3
<1>13. OneNewest'
  <2>1. request'[s].kind # "newest"
    BY <1>5, <1>9
  <2>2. QED BY <1>1, <1>2, <1>9, <2>1 DEF OneNewest, Own
<1>14. QED BY <1>6, <1>7, <1>8, <1>11, <1>12, <1>13 DEF IInv

LEMMA WindowOK ==
  ASSUME TypeOK, StoreOK, NEW q \in Request, RequestOK(q)
  PROVE  LET p == Window(q.ws, q.before)
         IN  /\ p \in Page /\ Placed(q.ws, p.items)
             /\ p.more <=> p.next # None
             /\ p.next # None => p.next \in RanksOf(p.items)
             /\ q.kind = "newest" => NewestOK(q.ws, p)
             /\ q.kind = "older" => OlderOK(q.ws, q.before, p)
<1> DEFINE p == Window(q.ws, q.before)
           pool == { r \in held[q.ws] : q.before = None \/ r < q.before }
           R == Newest(pool, PageSize)
<1>1. q.ws \in Workspaces /\ q.before \in Ranks \cup {None}
  BY DEF Request
<1>2. /\ p \in Page /\ p.items = {q.ws} \X R /\ RanksOf(p.items) = R
      /\ p.more <=> p.next # None
      /\ p.next # None => p.next \in RanksOf(p.items)
      /\ ~p.more => R = pool
  BY <1>1, WindowIs
<1>3. held[q.ws] \in SUBSET Ranks /\ held[q.ws] \subseteq known[q.ws]
      /\ Live(q.ws) \subseteq held[q.ws] /\ None \notin Ranks /\ Ranks \subseteq Int
  BY <1>1, TimelineAssumption DEF TypeOK, StoreOK, Live, Ranks, TimelineAssumption
<1>4. pool \in SUBSET Ranks /\ R \subseteq pool
  BY <1>3 DEF Newest
<1>5. \A r \in pool, lo \in R : lo < r => r \in R
  BY <1>4, NewestClosed
<1>6. Placed(q.ws, p.items)
  BY <1>2, <1>3, <1>4 DEF Placed
<1>7. \A r \in Ranks : r <= r
  BY DEF Ranks
<1>8. ASSUME q.kind = "newest" PROVE NewestOK(q.ws, p)
  <2>1. pool = held[q.ws]
    BY <1>8 DEF RequestOK
  <2>2. GapFree(Live(q.ws), R)
    BY <1>3, <1>5, <2>1 DEF GapFree
  <2>3. ~p.more => Ended(Live(q.ws), R)
    BY <1>2, <1>3, <1>7, <2>1 DEF Ended
  <2>4. QED BY <1>2, <2>2, <2>3 DEF NewestOK
<1>9. ASSUME q.kind = "older" PROVE OlderOK(q.ws, q.before, p)
  <2>1. q.before \in known[q.ws] /\ known[q.ws] \in SUBSET Ranks
    BY <1>1, <1>9 DEF RequestOK, TypeOK
  <2>2. \A r \in held[q.ws] : r \in pool <=> r < q.before
    BY <1>3, <2>1
  <2>3. \A i \in R : i < q.before
    BY <1>3, <1>4, <2>1
  <2>4. Tight(Live(q.ws), R, q.before)
    BY <1>3, <1>5, <2>2 DEF Tight
  <2>5. ~p.more => EndedBelow(Live(q.ws), R, q.before)
    BY <1>2, <1>3, <1>7, <2>2 DEF EndedBelow
  <2>6. QED BY <1>2, <2>3, <2>4, <2>5 DEF OlderOK
<1>10. QED BY <1>2, <1>6, <1>8, <1>9

(* The replica answers from what it holds when it is asked.                *)
LEMMA ServeStep ==
  ASSUME IInv, NEW s \in Slots, Serve(s)
  PROVE  IInv'
<1>1. /\ TypeOK /\ StoreOK /\ CachesOK /\ ScreenOK
      /\ RequestsOK /\ OwnersOK /\ OneNewest
  BY DEF IInv
<1>2. /\ request[s] # None /\ UNCHANGED storeVars
      /\ request' = [request EXCEPT ![s] = [@ EXCEPT !.page = Window(request[s].ws, request[s].before)]]
      /\ active' = active /\ items' = items /\ loading' = loading /\ busy' = busy
      /\ hasMore' = hasMore /\ cursor' = cursor /\ cache' = cache /\ answers' = answers
      /\ visits' = visits /\ held' = held /\ known' = known /\ late' = late
  BY DEF Serve, feedVars, storeVars
<1>3. PICK q \in Request : q = request[s]
  BY <1>1, <1>2 DEF TypeOK
<1>4. PICK g \in Page : /\ g = Window(q.ws, q.before) /\ Placed(q.ws, g.items)
                        /\ g.more <=> g.next # None
                        /\ g.next # None => g.next \in RanksOf(g.items)
                        /\ q.kind = "newest" => NewestOK(q.ws, g)
                        /\ q.kind = "older" => OlderOK(q.ws, q.before, g)
  <2>1. RequestOK(q)
    BY <1>1, <1>2, <1>3 DEF RequestsOK
  <2>2. QED BY <1>1, <2>1, WindowOK
<1>5. PICK p \in Request : p = [q EXCEPT !.page = g]
  <2>1. [q EXCEPT !.page = g] \in Request
    BY DEF Request
  <2>2. QED BY <2>1
<1>6. /\ p.kind = q.kind /\ p.ws = q.ws /\ p.before = q.before
      /\ p.visit = q.visit /\ p.orphan = q.orphan /\ p.page = g
  BY <1>5 DEF Request
<1>7. request' = [request EXCEPT ![s] = p]
  BY <1>2, <1>3, <1>4, <1>5
<1>8. /\ request'[s] = p
      /\ \A t \in Slots : t # s => request'[t] = request[t]
      /\ request' \in [Slots -> Request \cup {None}]
  BY <1>1, <1>7 DEF TypeOK
<1>9. TypeOK'
  BY <1>1, <1>2, <1>8 DEF TypeOK
<1>10. StoreOK' /\ CachesOK'
  BY <1>1, <1>2, StillOK DEF CachesOK
<1>11. ScreenOK'
  BY <1>1, <1>2 DEF ScreenOK, Placed, Live
<1>12. visits \in Int
  BY <1>1 DEF TypeOK
<1>13. ASSUME NEW t \in Slots, request'[t] # None
       PROVE  \E r \in Request : r = request'[t] /\ RequestOK(r)'
  <2>1. CASE t = s
    <3>1. RequestOK(q) /\ PageOK(p) /\ p.visit \in Int
      BY <1>1, <1>2, <1>3, <1>4, <1>6 DEF RequestsOK, PageOK, Request
    <3>2. RequestOK(p)
      BY <1>6, <3>1 DEF RequestOK
    <3>3. RequestOK(p)'
      BY <1>2, <1>12, <3>1, <3>2, StillOK
    <3>4. QED BY <1>8, <2>1, <3>3
  <2>2. CASE t # s
    <3>1. PICK r \in Request : r = request[t] /\ request'[t] = request[t] /\ request[t] # None
      BY <1>1, <1>8, <1>13, <2>2 DEF TypeOK
    <3>2. RequestOK(r) /\ r.visit \in Int
      BY <1>1, <3>1 DEF RequestsOK, Request
    <3>3. RequestOK(r)'
      BY <1>2, <1>12, <3>2, StillOK
    <3>4. QED BY <3>1, <3>3
  <2>3. QED BY <2>1, <2>2
<1>14. RequestsOK'
  BY <1>13, AllOK
<1>15. ASSUME NEW t \in Slots, request'[t] # None, Own(request[t])'
       PROVE  /\ request[t] # None /\ Own(request[t])
              /\ request'[t].kind = request[t].kind /\ request'[t].ws = request[t].ws
              /\ request'[t].before = request[t].before
  BY <1>2, <1>3, <1>6, <1>8, <1>15 DEF Own
<1>16. OwnersOK'
  BY <1>1, <1>2, <1>15 DEF OwnersOK, OwnOK
<1>17. OneNewest'
  BY <1>1, <1>15 DEF OneNewest
<1>18. QED BY <1>9, <1>10, <1>11, <1>14, <1>16, <1>17 DEF IInv

-----------------------------------------------------------------------------
(* A slot is freed; what the others carry is as right as before.           *)
LEMMA Freed ==
  ASSUME IInv, NEW s \in Slots, Done(s), UNCHANGED storeVars, visits' = visits
  PROVE  /\ StoreOK' /\ RequestsOK' /\ request' \in [Slots -> Request \cup {None}]
         /\ \A t \in Slots : request'[t] # None => t # s /\ request'[t] = request[t]
         /\ OneNewest'
<1>1. request' = [request EXCEPT ![s] = None]
      /\ request \in [Slots -> Request \cup {None}] /\ visits \in Int
  BY DEF Done, IInv, TypeOK
<1>2. request' \in [Slots -> Request \cup {None}]
      /\ \A t \in Slots : request'[t] # None => t # s /\ request'[t] = request[t]
  BY <1>1
<1>3. ASSUME NEW t \in Slots, request'[t] # None
      PROVE  \E p \in Request : p = request'[t] /\ RequestOK(p)'
  <2>1. PICK p \in Request : p = request[t] /\ request'[t] = request[t] /\ request[t] # None
    BY <1>1, <1>2, <1>3
  <2>2. RequestOK(p) /\ p.visit \in Int
    BY <2>1 DEF IInv, RequestsOK, Request
  <2>3. RequestOK(p)'
    BY <1>1, <2>2, StillOK
  <2>4. QED BY <2>1, <2>3
<1>4. RequestsOK'
  BY <1>3, AllOK
<1>5. OneNewest'
  BY <1>2 DEF IInv, OneNewest, Own
<1>6. StoreOK'
  BY StillOK DEF IInv
<1>7. QED BY <1>2, <1>4, <1>5, <1>6

(* An answer that leaves the screen as it is.                              *)
LEMMA UnseenStep ==
  ASSUME IInv, NEW s \in Slots, Done(s), UNCHANGED storeVars,
         UNCHANGED <<active, items, hasMore, cursor, visits, answers>>,
         loading' \in BOOLEAN, busy' \in BOOLEAN,
         cache' \in [Workspaces -> (SUBSET Item) \cup {None}], CachesOK'
  PROVE  IInv'
<1>1. /\ StoreOK' /\ RequestsOK' /\ request' \in [Slots -> Request \cup {None}]
      /\ \A t \in Slots : request'[t] # None => t # s /\ request'[t] = request[t]
      /\ OneNewest'
  BY Freed
<1>2. TypeOK'
  BY <1>1 DEF IInv, TypeOK, storeVars
<1>3. ScreenOK'
  BY DEF IInv, ScreenOK, Placed, Live, storeVars
<1>4. OwnersOK'
  BY <1>1 DEF IInv, OwnersOK, OwnOK, Own
<1>5. QED BY <1>1, <1>2, <1>3, <1>4 DEF IInv

(* The page of an answer, as long as it was on its way.                    *)
LEMMA AnswerIs ==
  ASSUME IInv, NEW s \in Slots, request[s] # None, request[s].page # None
  PROVE  \E q \in Request :
           /\ q = request[s] /\ q.page \in Page /\ q.ws \in Workspaces
           /\ RequestOK(q) /\ PageOK(q)
           /\ Own(q) => active # None /\ OwnOK(q)
<1>1. PICK q \in Request : q = request[s]
  BY DEF IInv, TypeOK
<1>2. RequestOK(q) /\ PageOK(q)
  BY <1>1 DEF IInv, RequestsOK, RequestOK
<1>3. q.page \in Page /\ q.ws \in Workspaces
  BY <1>1 DEF Request
<1>4. Own(q) => active # None /\ OwnOK(q)
  BY <1>1 DEF IInv, OwnersOK
<1>5. QED BY <1>1, <1>2, <1>3, <1>4

LEMMA CachedOK ==
  ASSUME IInv, UNCHANGED storeVars, NEW q \in Request, q.page \in Page,
         PageOK(q), q.kind = "newest", cache' = [cache EXCEPT ![q.ws] = q.page.items]
  PROVE  CachesOK' /\ cache' \in [Workspaces -> (SUBSET Item) \cup {None}]
<1>1. cache \in [Workspaces -> (SUBSET Item) \cup {None}] /\ q.ws \in Workspaces
      /\ q.page.items \in SUBSET Item
  BY DEF IInv, TypeOK, Request, Page
<1>2. cache' \in [Workspaces -> (SUBSET Item) \cup {None}]
  BY <1>1
<1>3. ASSUME NEW w \in Workspaces, cache'[w] # None PROVE CacheOK(w)'
  <2>1. CASE w = q.ws
    <3>1. cache'[w] = q.page.items
      BY <1>1, <2>1
    <3>2. Placed(w, q.page.items)' /\ GapFree(Live(w), RanksOf(q.page.items))'
      BY <2>1 DEF PageOK, NewestOK, Placed, Live, storeVars
    <3>3. QED BY <3>1, <3>2 DEF CacheOK, Placed
  <2>2. CASE w # q.ws
    <3>1. cache'[w] = cache[w]
      BY <1>1, <2>2
    <3>2. CacheOK(w)
      BY <1>3, <3>1 DEF IInv, CachesOK
    <3>3. QED BY <3>1, <3>2, StillOK
  <2>3. QED BY <2>1, <2>2
<1>4. QED BY <1>2, <1>3 DEF CachesOK

(* The newest page replaces the screen; were it the visit's own, no other  *)
(* own request is in flight.                                               *)
LEMMA ShowNewestStep ==
  ASSUME IInv, NEW s \in Slots, request[s] # None, request[s].kind = "newest",
         request[s].page # None, ShowNewest(s), Done(s), UNCHANGED storeVars
  PROVE  IInv'
<1>1. /\ TypeOK /\ StoreOK /\ CachesOK /\ ScreenOK
      /\ RequestsOK /\ OwnersOK /\ OneNewest
  BY DEF IInv
<1>2. PICK q \in Request :
        /\ q = request[s] /\ q.page \in Page /\ q.ws \in Workspaces
        /\ RequestOK(q) /\ PageOK(q)
        /\ Own(q) => active # None /\ OwnOK(q)
  BY AnswerIs
<1>3. /\ ~q.orphan /\ q.ws = active /\ q.kind = "newest"
      /\ cache' = [cache EXCEPT ![q.ws] = q.page.items]
      /\ items' = q.page.items /\ hasMore' = q.page.more /\ cursor' = q.page.next
      /\ loading' = FALSE /\ active' = active /\ busy' = busy /\ visits' = visits
      /\ answers' = IF q.visit = visits /\ answers # "mixed" THEN "own" ELSE "mixed"
  BY <1>2 DEF ShowNewest, Current, Take
<1>4. /\ StoreOK' /\ RequestsOK' /\ request' \in [Slots -> Request \cup {None}]
      /\ \A t \in Slots : request'[t] # None => t # s /\ request'[t] = request[t]
      /\ OneNewest'
  BY <1>3, Freed
<1>5. CachesOK' /\ cache' \in [Workspaces -> (SUBSET Item) \cup {None}]
  BY <1>2, <1>3, CachedOK
<1>6. /\ items' \in SUBSET Item /\ hasMore' \in BOOLEAN /\ cursor' \in Ranks \cup {None}
      /\ hasMore' <=> cursor' # None
  BY <1>2, <1>3 DEF Page, PageOK
<1>7. held' = held /\ known' = known /\ late' = late
  BY DEF storeVars
<1>8. TypeOK'
  BY <1>1, <1>3, <1>4, <1>5, <1>6, <1>7 DEF TypeOK
<1>9. active \in Workspaces /\ active # None /\ visits > 0
  BY <1>1, <1>2, <1>3, TimelineAssumption DEF ScreenOK, TimelineAssumption
<1>10. /\ Placed(active, q.page.items) /\ NewestOK(active, q.page)
       /\ q.page.next # None => q.page.next \in RanksOf(q.page.items)
  BY <1>2, <1>3 DEF PageOK
<1>11. ScreenOK'
  <2>1. Placed(active, items)' /\ GapFree(Live(active), RanksOf(items))'
    BY <1>3, <1>7, <1>10 DEF Placed, NewestOK, Live
  <2>2. cursor' # None => cursor' \in RanksOf(q.page.items) /\ cursor' \in known[active]
    BY <1>3, <1>10, PlacedRanks
  <2>3. ~hasMore' /\ items' # {} => Ended(Live(active), RanksOf(items))'
    BY <1>3, <1>7, <1>10 DEF NewestOK, Live
  <2>4. answers' # "mixed" => answers' = "own"
    BY <1>3
  <2>5. QED BY <1>3, <1>7, <1>9, <2>1, <2>2, <2>3, <2>4 DEF ScreenOK
<1>12. OwnersOK'
  <2>1. SUFFICES ASSUME NEW t \in Slots, request'[t] # None, Own(request[t])'
                 PROVE  active' # None /\ OwnOK(request[t])'
    BY DEF OwnersOK
  <2>2. t # s /\ request'[t] = request[t] /\ request[t] # None /\ Own(request[t])
    BY <1>3, <1>4, <2>1 DEF Own
  <2>3. OwnOK(request[t])
    BY <1>1, <2>2 DEF OwnersOK
  <2>4. CASE q.visit = visits /\ answers # "mixed"
    <3>1. Own(q)
      BY <1>3, <2>4 DEF Own
    <3>2. answers = "none"
      BY <1>1, <1>2, <1>3, <2>4, <3>1 DEF TypeOK, OwnOK
    <3>3. request[t].kind = "newest"
      BY <2>3, <3>2 DEF OwnOK
    <3>4. QED BY <1>1, <1>2, <1>3, <2>2, <3>1, <3>3 DEF OneNewest
  <2>5. CASE ~(q.visit = visits /\ answers # "mixed")
    BY <1>3, <1>9, <2>2, <2>3, <2>5 DEF OwnOK
  <2>6. QED BY <2>4, <2>5
<1>13. QED BY <1>4, <1>5, <1>8, <1>11, <1>12 DEF IInv

(* Facts about ranks: a page that lies tight below a rank that is shown    *)
(* leaves no gap, and if nothing is below the page nothing is below both.  *)
LEMMA Continues ==
  ASSUME NEW H \in SUBSET Ranks, NEW R \in SUBSET Ranks, NEW P \in SUBSET Ranks,
         NEW b \in R, \A i \in P : i < b, GapFree(H, R), Tight(H, P, b)
  PROVE  /\ GapFree(H, R \cup P)
         /\ EndedBelow(H, P, b) => Ended(H, R \cup P)
<1>1. Ranks \subseteq Int
  BY DEF Ranks
<1>2. ASSUME NEW r \in H \ (R \cup P), NEW lo \in R \cup P, NEW hi \in R \cup P,
             lo < r, r < hi
      PROVE  FALSE
  <2>1. r # b
    OBVIOUS
  <2>2. CASE r < b
    <3>1. lo \notin P
      BY <1>2, <2>2 DEF Tight
    <3>2. lo \in R
      BY <3>1
    <3>3. QED BY <1>2, <2>2, <3>2 DEF GapFree
  <2>3. CASE b < r
    <3>1. hi \notin P
      BY <1>1, <1>2, <2>3
    <3>2. hi \in R
      BY <3>1
    <3>3. QED BY <1>2, <2>3, <3>2 DEF GapFree
  <2>4. r < b \/ b < r
    BY <1>1, <2>1
  <2>5. QED BY <2>2, <2>3, <2>4
<1>3. GapFree(H, R \cup P)
  BY <1>2 DEF GapFree
<1>4. ASSUME EndedBelow(H, P, b), NEW r \in H
      PROVE  \E i \in R \cup P : i <= r
  <2>1. CASE r < b
    BY <1>4, <2>1 DEF EndedBelow
  <2>2. CASE ~ (r < b)
    <3>1. b <= r
      BY <1>1, <2>2
    <3>2. QED BY <3>1
  <2>3. QED BY <2>1, <2>2
<1>5. QED BY <1>3, <1>4 DEF Ended

(* An older page of this visit continues what is on screen; one of an      *)
(* earlier visit makes the visit mixed.                                    *)
LEMMA MergeOlderStep ==
  ASSUME IInv, NEW s \in Slots, request[s] # None, request[s].kind = "older",
         request[s].page # None, MergeOlder(s), Done(s), UNCHANGED storeVars
  PROVE  IInv'
<1>1. /\ TypeOK /\ StoreOK /\ CachesOK /\ ScreenOK
      /\ RequestsOK /\ OwnersOK /\ OneNewest
  BY DEF IInv
<1>2. PICK q \in Request :
        /\ q = request[s] /\ q.page \in Page /\ q.ws \in Workspaces
        /\ RequestOK(q) /\ PageOK(q)
        /\ Own(q) => active # None /\ OwnOK(q)
  BY AnswerIs
<1>3. /\ ~q.orphan /\ q.ws = active /\ q.kind = "older"
      /\ items' = items \cup q.page.items /\ hasMore' = q.page.more /\ cursor' = q.page.next
      /\ busy' = FALSE /\ active' = active /\ loading' = loading /\ cache' = cache
      /\ visits' = visits
      /\ answers' = IF q.visit = visits /\ answers # "mixed" THEN "own" ELSE "mixed"
  BY <1>2 DEF MergeOlder, Current, Take
<1>4. /\ StoreOK' /\ RequestsOK' /\ request' \in [Slots -> Request \cup {None}]
      /\ \A t \in Slots : request'[t] # None => t # s /\ request'[t] = request[t]
      /\ OneNewest'
  BY <1>3, Freed
<1>5. CachesOK'
  BY <1>1, <1>3, StillOK DEF CachesOK
<1>6. /\ items' \in SUBSET Item /\ hasMore' \in BOOLEAN /\ cursor' \in Ranks \cup {None}
      /\ hasMore' <=> cursor' # None
  BY <1>1, <1>2, <1>3 DEF Page, PageOK, TypeOK
<1>7. held' = held /\ known' = known /\ late' = late
  BY DEF storeVars
<1>8. TypeOK'
  BY <1>1, <1>3, <1>4, <1>6, <1>7 DEF TypeOK
<1>9. active \in Workspaces /\ active # None /\ visits > 0 /\ Placed(active, items)
  BY <1>1, <1>2, <1>3, TimelineAssumption DEF ScreenOK, TimelineAssumption
<1>10. /\ Placed(active, q.page.items) /\ OlderOK(active, q.before, q.page)
       /\ q.page.next # None => q.page.next \in RanksOf(q.page.items)
       /\ q.page.more <=> q.page.next # None
  BY <1>2, <1>3 DEF PageOK
<1>11. /\ RanksOf(items') = RanksOf(items) \cup RanksOf(q.page.items)
       /\ Placed(active, items')
  BY <1>3, <1>9, <1>10 DEF RanksOf, Placed
<1>12. cursor' # None => cursor' \in RanksOf(items') /\ cursor' \in known[active]
  BY <1>3, <1>10, <1>11, PlacedRanks
<1>13. ASSUME q.visit = visits, answers # "mixed"
       PROVE  /\ answers = "own" /\ GapFree(Live(active), RanksOf(items'))
              /\ ~hasMore' => Ended(Live(active), RanksOf(items'))
  <2>1. answers = "own" /\ q.before \in RanksOf(items)
    BY <1>1, <1>2, <1>3, <1>13 DEF TypeOK, Own, OwnOK
  <2> DEFINE H == Live(active)
             R == RanksOf(items)
             P == RanksOf(q.page.items)
  <2>2. H \in SUBSET Ranks /\ R \in SUBSET Ranks /\ P \in SUBSET Ranks
    BY <1>1, <1>9, <1>10, PlacedRanks DEF TypeOK, Live
  <2>3. GapFree(H, R)
    BY <1>1, <1>9, <1>13 DEF ScreenOK
  <2>4. (\A i \in P : i < q.before) /\ Tight(H, P, q.before)
    BY <1>10 DEF OlderOK
  <2>5. ~hasMore' => EndedBelow(H, P, q.before)
    BY <1>3, <1>10 DEF OlderOK
  <2> HIDE DEF H, R, P
  <2>6. GapFree(H, R \cup P) /\ (EndedBelow(H, P, q.before) => Ended(H, R \cup P))
    BY <2>1, <2>2, <2>3, <2>4, Continues DEF R
  <2>7. QED BY <1>11, <2>1, <2>5, <2>6 DEF H, R, P
<1>14. ScreenOK'
  <2>1. Live(active)' = Live(active) /\ Placed(active, items)'
    BY <1>3, <1>7, <1>11 DEF Live, Placed
  <2>2. answers' = "none" => FALSE
    BY <1>3
  <2>3. answers' = "own" => q.visit = visits /\ answers # "mixed"
    BY <1>3
  <2>4. answers' # "mixed" => answers' = "own"
    BY <1>3
  <2>5. QED BY <1>3, <1>7, <1>9, <1>12, <1>13, <2>1, <2>2, <2>3, <2>4 DEF ScreenOK
<1>15. OwnersOK'
  <2>1. SUFFICES ASSUME NEW t \in Slots, request'[t] # None, Own(request[t])'
                 PROVE  active' # None /\ OwnOK(request[t])'
    BY DEF OwnersOK
  <2>2. request'[t] = request[t] /\ request[t] # None /\ Own(request[t])
    BY <1>3, <1>4, <2>1 DEF Own
  <2>3. OwnOK(request[t])
    BY <1>1, <2>2 DEF OwnersOK
  <2>4. answers' = "own" => answers = "own"
    BY <1>3, <1>13
  <2>5. answers' # "none" /\ RanksOf(items) \subseteq RanksOf(items')
    BY <1>3, <1>11
  <2>6. QED BY <1>3, <1>9, <2>2, <2>3, <2>4, <2>5 DEF OwnOK
<1>16. QED BY <1>4, <1>5, <1>8, <1>14, <1>15 DEF IInv

LEMMA TakeStep ==
  ASSUME IInv, NEW s \in Slots, TakeNewest(s) \/ TakeOlder(s)
  PROVE  IInv'
<1>1. request[s] # None /\ request[s].page # None /\ Done(s) /\ UNCHANGED storeVars
  BY DEF TakeNewest, TakeOlder
<1>2. CASE ShowNewest(s) /\ request[s].kind = "newest"
  BY <1>1, <1>2, ShowNewestStep
<1>3. CASE MergeOlder(s) /\ request[s].kind = "older"
  BY <1>1, <1>3, MergeOlderStep
<1>4. CASE CacheOrphan(s) /\ request[s].kind = "newest"
  <2>1. PICK q \in Request :
          /\ q = request[s] /\ q.page \in Page /\ q.ws \in Workspaces
          /\ RequestOK(q) /\ PageOK(q)
          /\ Own(q) => active # None /\ OwnOK(q)
    BY <1>1, AnswerIs
  <2>2. q.kind = "newest" /\ cache' = [cache EXCEPT ![q.ws] = q.page.items]
        /\ UNCHANGED <<active, items, loading, hasMore, cursor, busy, visits, answers>>
    BY <1>4, <2>1 DEF CacheOrphan
  <2>3. CachesOK' /\ cache' \in [Workspaces -> (SUBSET Item) \cup {None}]
    BY <1>1, <2>1, <2>2, CachedOK
  <2>4. loading' \in BOOLEAN /\ busy' \in BOOLEAN
    BY <2>2 DEF IInv, TypeOK
  <2>5. QED BY <1>1, <2>2, <2>3, <2>4, UnseenStep
<1>5. CASE Drop(s)
  <2>1. UNCHANGED <<active, items, loading, hasMore, cursor, busy, cache, visits, answers>>
    BY <1>5 DEF Drop, feedVars
  <2>2. CachesOK' /\ cache' \in [Workspaces -> (SUBSET Item) \cup {None}]
    BY <1>1, <2>1, StillOK DEF IInv, TypeOK, CachesOK
  <2>3. loading' \in BOOLEAN /\ busy' \in BOOLEAN
    BY <2>1 DEF IInv, TypeOK
  <2>4. QED BY <1>1, <2>1, <2>2, <2>3, UnseenStep
<1>6. QED BY <1>2, <1>3, <1>4, <1>5 DEF TakeNewest, TakeOlder

LEMMA FailStep ==
  ASSUME IInv, NEW s \in Slots, Fail(s)
  PROVE  IInv'
<1>1. /\ Done(s) /\ UNCHANGED storeVars /\ cache' = cache
      /\ UNCHANGED <<active, items, hasMore, cursor, visits, answers>>
      /\ loading' \in BOOLEAN /\ busy' \in BOOLEAN
  BY DEF Fail
<1>2. CachesOK' /\ cache' \in [Workspaces -> (SUBSET Item) \cup {None}]
  BY <1>1, StillOK DEF IInv, TypeOK, CachesOK
<1>3. QED BY <1>1, <1>2, UnseenStep

LEMMA Initially == Init => IInv
<1> SUFFICES ASSUME Init PROVE IInv
  OBVIOUS
<1>1. TypeOK
  <2>1. /\ held \in [Workspaces -> SUBSET Ranks] /\ known \in [Workspaces -> SUBSET Ranks]
        /\ late \in [Workspaces -> SUBSET Ranks]
    BY TimelineAssumption DEF Init, TimelineAssumption
  <2>2. /\ cache \in [Workspaces -> (SUBSET Item) \cup {None}]
        /\ request \in [Slots -> Request \cup {None}]
    BY DEF Init
  <2>3. visits \in 0..MaxVisits
    BY TimelineAssumption DEF Init, TimelineAssumption
  <2>4. QED BY <2>1, <2>2, <2>3 DEF Init, TypeOK
<1>2. StoreOK /\ CachesOK /\ RequestsOK /\ OwnersOK /\ OneNewest
  BY DEF Init, StoreOK, CachesOK, RequestsOK, OwnersOK, OneNewest
<1>3. ScreenOK
  BY DEF Init, ScreenOK
<1>4. QED BY <1>1, <1>2, <1>3 DEF IInv

LEMMA Inductive == IInv /\ [Next]_vars => IInv'
<1> SUFFICES ASSUME IInv, [Next]_vars PROVE IInv'
  OBVIOUS
<1>1. ASSUME NEW w \in Changing, NEW r \in Ranks, Add(w, r) \/ Retract(w, r) PROVE IInv'
  BY <1>1, StoreStep
<1>2. ASSUME NEW w \in Workspaces, NEW s \in Slots, Open(w, s) PROVE IInv'
  BY <1>2, OpenStep
<1>3. ASSUME Leave PROVE IInv'
  BY <1>3, LeaveStep
<1>4. ASSUME NEW s \in Slots, LoadOlder(s) PROVE IInv'
  BY <1>4, LoadOlderStep
<1>5. ASSUME NEW s \in Slots, Serve(s) PROVE IInv'
  BY <1>5, ServeStep
<1>6. ASSUME NEW s \in Slots, TakeNewest(s) \/ TakeOlder(s) PROVE IInv'
  BY <1>6, TakeStep
<1>7. ASSUME NEW s \in Slots, Fail(s) PROVE IInv'
  BY <1>7, FailStep
<1>8. ASSUME UNCHANGED vars PROVE IInv'
  BY <1>8 DEF vars, storeVars, feedVars, IInv, TypeOK, StoreOK, CachesOK, CacheOK,
     ScreenOK, RequestsOK, RequestOK, PageOK, NewestOK, OlderOK, Placed, Live,
     OwnersOK, OwnOK, Own, OneNewest
<1>9. QED BY <1>1, <1>2, <1>3, <1>4, <1>5, <1>6, <1>7, <1>8 DEF Next

LEMMA Invariant == Spec => []IInv
BY Initially, Inductive, PTL DEF Spec

(* Each variable has its type (usePaginatedTimeline's state).              *)
THEOREM TypeCorrect == Spec => []TypeOK
<1>1. IInv => TypeOK
  BY DEF IInv
<1>2. QED BY <1>1, Invariant, PTL

(* Nothing of one workspace is ever shown, or cached, under another,       *)
(* whatever answers arrive after a switch (paginated-timeline.ts:49-58).   *)
THEOREM OwnItemsCorrect == Spec => []OwnItemsOnly
<1>1. IInv => OwnItemsOnly
  BY DEF IInv, ScreenOK, CachesOK, CacheOK, Placed, OwnItemsOnly
<1>2. QED BY <1>1, Invariant, PTL

(* While a visit has taken only its own answers its pages on screen are    *)
(* contiguous, however many requests are in flight and whatever comes and  *)
(* goes between two fetches (readTimeline's cursor, mergeOlderPage).       *)
THEOREM ContiguousCorrect == Spec => []OwnPagesContiguous
<1>1. IInv => OwnPagesContiguous
  <2>1. SUFFICES ASSUME IInv, active # None, answers # "mixed" PROVE Gaps = {}
    BY DEF OwnPagesContiguous
  <2>2. GapFree(Live(active), RanksOf(items))
    BY <2>1 DEF IInv, ScreenOK
  <2>3. QED BY <2>2 DEF Gaps, GapFree, Live
<1>2. QED BY <1>1, Invariant, PTL

(* A feed that says there is nothing older has the oldest item that was    *)
(* not synced late (readTimeline's hasMore).                               *)
THEOREM EndCorrect == Spec => []EndIsReal
<1>1. IInv => EndIsReal
  <2>1. SUFFICES ASSUME IInv, active # None, answers = "own", ~hasMore, items # {},
                        NEW r \in Live(active)
                 PROVE  r >= Min(RanksOf(items))
    BY DEF EndIsReal, Live
  <2>2. PICK i \in RanksOf(items) : i <= r
    BY <2>1 DEF IInv, ScreenOK, Ended
  <2>3. active \in Workspaces /\ Placed(active, items)
    BY <2>1 DEF IInv, TypeOK, ScreenOK
  <2>4. RanksOf(items) \in SUBSET Ranks /\ r \in Ranks
    BY <2>1, <2>3, PlacedRanks DEF IInv, TypeOK, Live
  <2>5. Min(RanksOf(items)) \in RanksOf(items) /\ Min(RanksOf(items)) <= i
    BY <2>2, <2>4, LeastRank
  <2>6. QED BY <2>2, <2>4, <2>5 DEF Ranks
<1>2. QED BY <1>1, Invariant, PTL
=============================================================================
