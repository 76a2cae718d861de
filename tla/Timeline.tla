------------------------------ MODULE Timeline ------------------------------
(***************************************************************************)
(* The browser's workspace timeline: one canvas that shows one workspace   *)
(* at a time, fetches its newest page, pages backward on scroll, and       *)
(* switches workspace while answers are on their way; and the replica's    *)
(* page computation it talks to.                                           *)
(* Source: packages/web/src/lib/paginated-timeline.ts                      *)
(* (usePaginatedTimeline), timeline-page.ts (mergeOlderPage),              *)
(* packages/replica/src/timeline.ts (the window of readTimeline).          *)
(*                                                                         *)
(* An item is its workspace and its rank in the (at, id) order, which is   *)
(* total; its text and labels are left out. React's delay between a state  *)
(* update and the next render is left out too.                             *)
(***************************************************************************)
EXTENDS Integers, FiniteSets, FiniteSetsExt

CONSTANTS
  Workspaces,
  None,       \* no workspace shown, no cursor, no cached page, no request
  PageSize,   \* items per page (PAGE_SIZE)
  MaxRank,    \* bound: ranks of the items a workspace may ever hold
  Initial,    \* [Workspaces -> SUBSET Ranks]: what each holds at first
  Changing,   \* the workspaces whose items come and go
  MaxChanges, \* bound: additions and retractions of one workspace
  Slots,      \* HTTP requests of the canvas, each one at a time
  MaxVisits   \* bound: how often a workspace is opened

Ranks == 1..MaxRank

ASSUME TimelineAssumption ==
  /\ None \notin Workspaces \cup Int
  /\ PageSize \in Nat \ {0} /\ MaxRank \in Nat
  /\ MaxChanges \in Nat /\ MaxVisits \in Nat
  /\ Initial \in [Workspaces -> SUBSET Ranks]
  /\ Changing \subseteq Workspaces

VARIABLES
  held,     \* the memories the replica's projection holds
  known,    \* history: ranks a workspace ever held
  late,     \* history: ranks that appeared below an item already there
  active,   \* activeKey, the workspace on screen
  items,    \* what is on screen
  loading,  \* the spinner: nothing cached and no answer yet
  hasMore, cursor,
  busy,     \* loadingOlderRef
  cache,    \* memoryCache and sessionStorage
  request,  \* what each slot carries
  visits,   \* workspaces opened so far
  answers   \* history: this visit took no answer yet, only its own, or also
            \* one asked for in an earlier visit

storeVars == <<held, known, late>>
feedVars == <<active, items, loading, hasMore, cursor, busy, cache, visits, answers>>
vars == <<storeVars, feedVars, request>>

Item == Workspaces \X Ranks

Page == [items : SUBSET Item, more : BOOLEAN, next : Ranks \cup {None}]

(* A request of an unmounted canvas is "orphan": its answer may still      *)
(* reach the cache, which outlives the canvas.                             *)
Request ==
  [kind : {"newest", "older"}, ws : Workspaces, before : Ranks \cup {None},
   visit : 1..MaxVisits, orphan : BOOLEAN, page : Page \cup {None}]

RanksOf(I) == { i[2] : i \in I }

-----------------------------------------------------------------------------
(* The n highest ranks of a finite set.                                    *)
Newest(P, n) == { r \in P : Cardinality({ q \in P : q > r }) < n }

(* Mutant of Window: hasMore asks for more than one item beyond the page.  *)
WindowShort(w, before) ==
  LET pool == { r \in held[w] : before = None \/ r < before }
      page == Newest(pool, PageSize)
      more == Cardinality(pool) > Cardinality(page) + 1
  IN  [items |-> {w} \X page, more |-> more,
       next |-> IF more THEN Min(page) ELSE None]

(* readTimeline: the newest PageSize items strictly before the cursor,     *)
(* whether older ones exist, and then the cursor of the next page.         *)
Window(w, before) ==
  LET pool == { r \in held[w] : before = None \/ r < before }
      page == Newest(pool, PageSize)
      more == Cardinality(pool) > Cardinality(page)
  IN  [items |-> {w} \X page, more |-> more,
       next |-> IF more THEN Min(page) ELSE None]

Init ==
  /\ held = Initial /\ known = Initial
  /\ late = [w \in Workspaces |-> {}]
  /\ active = None /\ items = {} /\ loading = FALSE
  /\ hasMore = FALSE /\ cursor = None /\ busy = FALSE
  /\ cache = [w \in Workspaces |-> None]
  /\ request = [s \in Slots |-> None]
  /\ visits = 0 /\ answers = "none"

MayChange(w) ==
  Cardinality(known[w] \ Initial[w]) + Cardinality(known[w] \ held[w]) < MaxChanges

(* A memory reaches the projection: usually the newest, but one written    *)
(* earlier on another machine may be synced late.                          *)
Add(w, r) ==
  /\ r \notin known[w] /\ MayChange(w)
  /\ held' = [held EXCEPT ![w] = @ \cup {r}]
  /\ known' = [known EXCEPT ![w] = @ \cup {r}]
  /\ late' = IF \E q \in known[w] : q > r
             THEN [late EXCEPT ![w] = @ \cup {r}] ELSE late
  /\ UNCHANGED <<feedVars, request>>

(* A memory is retracted.                                                  *)
Retract(w, r) ==
  /\ r \in held[w] /\ MayChange(w)
  /\ held' = [held EXCEPT ![w] = @ \ {r}]
  /\ UNCHANGED <<known, late, feedVars, request>>

Ask(s, kind, w, before) ==
  /\ request[s] = None
  /\ request' = [request EXCEPT ![s] =
       [kind |-> kind, ws |-> w, before |-> before, visit |-> visits',
        orphan |-> FALSE, page |-> None]]

(* The effect of a new key: paint the cached page, forget the older pages, *)
(* fetch the newest.                                                       *)
Open(w, s) ==
  /\ active # w /\ visits < MaxVisits
  /\ visits' = visits + 1
  /\ active' = w
  /\ items' = IF cache[w] = None THEN {} ELSE cache[w]
  /\ loading' = (cache[w] = None)
  /\ hasMore' = FALSE /\ cursor' = None /\ busy' = FALSE
  /\ Ask(s, "newest", w, None)
  /\ answers' = "none"
  /\ UNCHANGED <<storeVars, cache>>

(* The canvas unmounts (the personal view). What it asked for the          *)
(* workspace it last showed passes its activeKey check for ever; it can    *)
(* only write the cache.                                                   *)
Leave ==
  /\ active # None
  /\ active' = None
  /\ items' = {} /\ loading' = FALSE
  /\ hasMore' = FALSE /\ cursor' = None /\ busy' = FALSE
  /\ request' = [s \in Slots |->
       CASE request[s] = None -> None
         [] request[s] # None /\ request[s].orphan -> request[s]
         [] request[s] # None /\ ~request[s].orphan ->
              IF request[s].kind = "newest" /\ request[s].ws = active
              THEN [request[s] EXCEPT !.orphan = TRUE] ELSE None]
  /\ answers' = "none"
  /\ UNCHANGED <<storeVars, cache, visits>>

(* loadOlder, fired by the sentinel at the top of the list.                *)
LoadOlder(s) ==
  /\ hasMore /\ ~busy /\ cursor # None
  /\ busy' = TRUE
  /\ visits' = visits
  /\ Ask(s, "older", active, cursor)
  /\ UNCHANGED <<storeVars, active, items, loading, hasMore, cursor, cache, answers>>

(* The gateway forwards the read and the replica computes the page.        *)
Serve(s) ==
  /\ request[s] # None /\ request[s].page = None
  /\ request' = [request EXCEPT ![s] =
       [@ EXCEPT !.page = Window(request[s].ws, request[s].before)]]
  /\ UNCHANGED <<storeVars, feedVars>>

(* `activeKey.current !== key` drops the answer.                           *)
Current(q) == ~q.orphan /\ q.ws = active

Done(s) == request' = [request EXCEPT ![s] = None]

(* An answer of this visit, or of an earlier one, is taken.                *)
Take(q) == answers' = IF q.visit = visits /\ answers # "mixed" THEN "own" ELSE "mixed"

(* Mutants of ShowNewest: the activeKey check is missing; the newest page  *)
(* is merged into what is on screen.                                       *)
ShowNewestUnchecked(s) ==
  LET q == request[s]
  IN  /\ ~q.orphan /\ active # None
      /\ cache' = [cache EXCEPT ![q.ws] = q.page.items]
      /\ items' = q.page.items
      /\ hasMore' = q.page.more /\ cursor' = q.page.next
      /\ loading' = FALSE
      /\ Take(q)
      /\ UNCHANGED <<active, busy, visits>>

ShowNewestMerged(s) ==
  LET q == request[s]
  IN  /\ Current(q)
      /\ cache' = [cache EXCEPT ![q.ws] = q.page.items]
      /\ items' = items \cup q.page.items
      /\ hasMore' = q.page.more /\ cursor' = q.page.next
      /\ loading' = FALSE
      /\ Take(q)
      /\ UNCHANGED <<active, busy, visits>>

(* The newest page replaces what is on screen and is cached.               *)
ShowNewest(s) ==
  LET q == request[s]
  IN  /\ Current(q)
      /\ cache' = [cache EXCEPT ![q.ws] = q.page.items]
      /\ items' = q.page.items
      /\ hasMore' = q.page.more /\ cursor' = q.page.next
      /\ loading' = FALSE
      /\ Take(q)
      /\ UNCHANGED <<active, busy, visits>>

CacheOrphan(s) ==
  LET q == request[s]
  IN  /\ q.orphan
      /\ cache' = [cache EXCEPT ![q.ws] = q.page.items]
      /\ UNCHANGED <<active, items, loading, hasMore, cursor, busy, visits, answers>>

Drop(s) ==
  /\ ~request[s].orphan /\ request[s].ws # active
  /\ UNCHANGED feedVars

TakeNewest(s) ==
  /\ request[s] # None /\ request[s].kind = "newest" /\ request[s].page # None
  /\ ShowNewest(s) \/ CacheOrphan(s) \/ Drop(s)
  /\ Done(s)
  /\ UNCHANGED storeVars

(* mergeOlderPage: union by id.                                            *)
MergeOlder(s) ==
  LET q == request[s]
  IN  /\ Current(q)
      /\ items' = items \cup q.page.items
      /\ hasMore' = q.page.more /\ cursor' = q.page.next
      /\ busy' = FALSE
      /\ Take(q)
      /\ UNCHANGED <<active, loading, cache, visits>>

TakeOlder(s) ==
  /\ request[s] # None /\ request[s].kind = "older" /\ request[s].page # None
  /\ MergeOlder(s) \/ Drop(s)
  /\ Done(s)
  /\ UNCHANGED storeVars

(* Mutant of Fail: loadOlder has no catch handler.                         *)
FailKeepingBusy(s) ==
  /\ request[s] # None
  /\ LET q == request[s]
     IN  loading' = (loading /\ ~(Current(q) /\ q.kind = "newest"))
  /\ Done(s)
  /\ UNCHANGED <<storeVars, active, items, hasMore, cursor, busy, cache, visits, answers>>

(* 502, 500, a lost connection: what is on screen stays. A failed older    *)
(* page may be asked for again, a failed newest page may not.              *)
Fail(s) ==
  /\ request[s] # None
  /\ LET q == request[s]
     IN  /\ loading' = (loading /\ ~(Current(q) /\ q.kind = "newest"))
         /\ busy' = (busy /\ ~(Current(q) /\ q.kind = "older"))
  /\ Done(s)
  /\ UNCHANGED <<storeVars, active, items, hasMore, cursor, cache, visits, answers>>

Next ==
  \/ \E w \in Changing, r \in Ranks : Add(w, r) \/ Retract(w, r)
  \/ \E w \in Workspaces, s \in Slots : Open(w, s)
  \/ Leave
  \/ \E s \in Slots :
       LoadOlder(s) \/ Serve(s) \/ TakeNewest(s) \/ TakeOlder(s) \/ Fail(s)

Spec == Init /\ [][Next]_vars

(* Every fetch settles; an older page asked for again and again is served  *)
(* and arrives in the end; the observer at the top fires again whenever a  *)
(* load has ended. The user promises nothing.                              *)
Fairness ==
  /\ \A s \in Slots :
       /\ SF_vars(Serve(s)) /\ SF_vars(TakeOlder(s))
       /\ WF_vars(Serve(s) \/ TakeNewest(s) \/ TakeOlder(s) \/ Fail(s))
  /\ WF_vars(\E s \in Slots : LoadOlder(s))

FairSpec == Spec /\ Fairness

-----------------------------------------------------------------------------
(* Each variable has its type.                                             *)
TypeOK ==
  /\ held \in [Workspaces -> SUBSET Ranks]
  /\ known \in [Workspaces -> SUBSET Ranks]
  /\ late \in [Workspaces -> SUBSET Ranks]
  /\ active \in Workspaces \cup {None}
  /\ items \subseteq Item
  /\ loading \in BOOLEAN /\ hasMore \in BOOLEAN /\ busy \in BOOLEAN
  /\ cursor \in Ranks \cup {None} /\ (hasMore <=> cursor # None)
  /\ cache \in [Workspaces -> (SUBSET Item) \cup {None}]
  /\ request \in [Slots -> Request \cup {None}]
  /\ visits \in 0..MaxVisits /\ answers \in {"none", "own", "mixed"}

(* Nothing of one workspace is ever shown, or cached, under another,       *)
(* however late its answers arrive (paginated-timeline.ts:58 "workspace    *)
(* moved on").                                                             *)
OwnItemsOnly ==
  /\ \A i \in items : i[1] = active
  /\ \A w \in Workspaces : cache[w] # None => \A i \in cache[w] : i[1] = w

(* An item that should be on screen and is not: it lies between two that   *)
(* are, and it was not synced late.                                        *)
Gaps ==
  { r \in held[active] \ (late[active] \cup RanksOf(items)) :
      \E lo, hi \in RanksOf(items) : lo < r /\ r < hi }

(* While a visit has taken only its own answers, its pages on screen are   *)
(* contiguous: additions and retractions between two page fetches neither  *)
(* skip an item nor make a later page miss one                             *)
(* (2026-07-04-timeline-backward-pagination-design.md, "Why cursor         *)
(* (at, id) is the stable choice").                                        *)
OwnPagesContiguous == active # None /\ answers # "mixed" => Gaps = {}

(* The pages on screen are contiguous, whatever answers a visit takes:     *)
(* "there is no newest-refresh vs older-page race within a session"        *)
(* (paginated-timeline.ts:23). The code does not keep this: the newest     *)
(* page asked for in an earlier visit of the same workspace passes the     *)
(* activeKey check too, so a second newest page may replace the first      *)
(* while an older page is on its way, which is then merged below a gap.    *)
VisitContiguous == active # None => Gaps = {}

(* While a visit has taken only its own answers, the feed says that there  *)
(* is nothing older only when every older item was synced late.            *)
EndIsReal ==
  active # None /\ answers = "own" /\ ~hasMore /\ items # {} =>
    \A r \in held[active] \ late[active] : r >= Min(RanksOf(items))

(* Scrolling ends: who stays at the top of the list gets to its beginning, *)
(* or leaves, whatever answers fail on the way; and so does the spinner    *)
(* ("Loading tasks" hang, live-feed.ts:17).                                *)
ScrollEnds == (hasMore ~> ~hasMore) /\ (loading ~> ~loading)
=============================================================================
