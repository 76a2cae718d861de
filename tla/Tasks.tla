-------------------------------- MODULE Tasks --------------------------------
(***************************************************************************)
(* The browser's tasks surface: the stale-while-revalidate feed of one     *)
(* workspace at a time, the tab that filters and orders the tasks, and the *)
(* time strip that grows under the user's scrolling.                       *)
(* Source: packages/web/src/lib/live-feed.ts (useLiveFeed),                *)
(* lib/tasks-timeline.ts (topoOrder, timeDomain),                          *)
(* components/canvas/TasksTab.tsx, TasksTimeline.tsx, WorkspaceCanvas.tsx. *)
(*                                                                         *)
(* A task is its rank in the order of creation, and a board of a workspace *)
(* is how many tasks it has. What a card, a row or the panel says of a     *)
(* task is left out, and so is React's delay between a state update and    *)
(* its render, except where the strip depends on it. Time and pixels share *)
(* one unit.                                                               *)
(***************************************************************************)
EXTENDS Integers, Sequences, FiniteSets, SequencesExt, FiniteSetsExt

CONSTANTS
  Workspaces,
  None,        \* no workspace shown, nothing cached, no filter, no strip
  MaxTasks,    \* bound: tasks of one board
  Boards,      \* the sizes of a board the server may answer with
  Graphs,      \* the dependencies the tasks may have, each a list per task
  Members, MemberOf, \* who owns a task
  PriorityOf,  \* its priority
  Cancelled,   \* the tasks whose group the board hides
  Link,        \* the task the URL's ?task= names, or None
  Created, Ended,    \* when a task was created; when it ended, or None
  Now,         \* the clock, which the model does not advance
  Before, After, Chunk, Edge, \* INITIAL_BEFORE, INITIAL_AFTER, CHUNK, EDGE_PX
  Client, Offset, \* the strip's visible width and 0.35 of it
  Slots,       \* HTTP requests of the canvas, each one at a time
  MaxGestures, \* bound: what the user does
  MaxGrafts    \* bound: chunks a strip grows by

Ranks == 1..MaxTasks

ASSUME TasksAssumption ==
  /\ None \notin Workspaces \cup Members \cup Int
  /\ MaxTasks \in Nat /\ MaxGestures \in Nat /\ MaxGrafts \in Nat
  /\ Boards \subseteq 0..MaxTasks
  /\ Graphs \subseteq [Ranks -> Seq(Ranks)]
  /\ MemberOf \in [Ranks -> Members]
  /\ PriorityOf \in [Ranks -> {"high", "medium", "low"}]
  /\ Cancelled \subseteq Ranks
  /\ Link \in (Workspaces \X Ranks) \cup {None}
  /\ Created \in [Ranks -> Int] /\ Ended \in [Ranks -> Int \cup {None}]
  /\ Now \in Int /\ Edge \in Nat
  /\ Before \in Nat /\ After \in Nat
  /\ Offset \in Nat /\ Client \in Nat /\ Offset <= Client
  (* The first view and every chunk are wider than an edge.                *)
  /\ Before - Offset >= Edge /\ After + Offset - Client >= Edge
  /\ Chunk \in Nat /\ Chunk > Edge

VARIABLES
  graph,    \* dependsOn of every task
  active,   \* activeKey, the workspace whose canvas is mounted
  feed,     \* LiveFeed: what the hook returns
  cache,    \* memoryCache and sessionStorage, per workspace
  request,  \* what each slot carries
  tab,      \* TasksTab: its view and filter; view None is another tab
  strip,    \* TasksTimeline: the window, its scroll position and its updates
  gestures  \* what the user did so far

vars == <<graph, active, feed, cache, request, tab, strip, gestures>>

Board == [ws : Workspaces, size : Boards]

Feed == [items : Board \cup {None}, loading : BOOLEAN, error : BOOLEAN]

(* A request of an unmounted canvas is "orphan": its answer may still      *)
(* reach the cache, which outlives the canvas.                             *)
Request == [ws : Workspaces, cached : Boards \cup {None}, orphan : BOOLEAN]

ASSUME RequestAssumption == None \notin Request

(* `picked` is selectedId: ids are unique across workspaces.               *)
Tab == [view : {None, "board", "list", "timeline"}, member : Members \cup {None},
        priority : {"high", "medium", "low", None},
        picked : (Workspaces \X Ranks) \cup {None}]

Strip == [lo : Int, hi : Int, prevLo : Int, scroll : Int,
          left : 0..MaxGrafts, right : 0..MaxGrafts, grafts : 0..MaxGrafts,
          moved : BOOLEAN]

-----------------------------------------------------------------------------
(* topoOrder                                                               *)

(* The tasks put out once those of the list that are in T were visited in  *)
(* its order, after `out`.                                                 *)
VisitEach(visit, T, list, out) ==
  LET Done[i \in 0..Len(list)] ==
        IF i = 0 THEN out
        ELSE IF list[i] \in T THEN visit[list[i]][Done[i - 1]]
        ELSE Done[i - 1]
  IN  Done[Len(list)]

(* Mutant of Visits: a task is put out before its predecessors.            *)
VisitsEagerly(T) ==
  LET Visit[stack \in SUBSET T] ==
        [t \in T |-> [out \in Seq(T) |->
           IF t \in Range(out) \cup stack THEN out
           ELSE VisitEach(Visit[stack \cup {t}], T, graph[t], Append(out, t))]]
  IN  Visit

(* visit, by the tasks on the stack: a depth-first search that puts a task *)
(* out after its predecessors, and passes over those that are out or on    *)
(* the stack.                                                              *)
Visits(T) ==
  LET Visit[stack \in SUBSET T] ==
        [t \in T |-> [out \in Seq(T) |->
           IF t \in Range(out) \cup stack THEN out
           ELSE Append(VisitEach(Visit[stack \cup {t}], T, graph[t], out), t)]]
  IN  Visit

(* The order of the rows: the tasks T are visited in order of creation.    *)
TopoOrder(T) == VisitEach(Visits(T)[{}], T, [r \in Ranks |-> r], <<>>)

(* What t waits for, directly or through others: the least set that holds  *)
(* its predecessors and is closed. A definition independent of the search. *)
Needs(t, T) ==
  LET Holds(S) == \A u \in S \cup {t} : Range(graph[u]) \cap T \subseteq S
  IN  { d \in T : \A S \in SUBSET T : Holds(S) => d \in S }

-----------------------------------------------------------------------------
(* The tab and the strip                                                   *)

Shown(f) == IF f.items = None THEN {} ELSE 1..f.items.size

(* The tasks the filter leaves.                                            *)
Visible(f, b) ==
  { t \in Shown(f) : /\ b.member \in {None, MemberOf[t]}
                     /\ b.priority \in {None, PriorityOf[t]} }

(* The tasks a click can pick: the board only counts the cancelled ones.   *)
BoardCards(T) == T \ Cancelled
ListRows(T) == T
Clickable(f, b) ==
  IF b.view = "board" THEN BoardCards(Visible(f, b)) ELSE ListRows(Visible(f, b))

(* The task of the detail panel: the picked one, while it is on screen.    *)
Panel(f, b) ==
  IF b.picked \in { <<f.items.ws, t>> : t \in Shown(f) } THEN b.picked ELSE None

(* The dependency arrows between the tasks T.                              *)
Arrows(T) == { a \in T \X T : a[1] \in Range(graph[a[2]]) }

EndOf(t) == IF Ended[t] = None THEN Now ELSE Ended[t]

(* The first and last instant of the tasks T, never a zero width.          *)
TimeDomain(T) ==
  IF T = {} THEN <<Now, Now + 1>>
  ELSE LET lo == Min({ Created[t] : t \in T })
           hi == Max({ EndOf(t) : t \in T })
       IN  <<lo, IF hi <= lo THEN lo + 1 ELSE hi>>

Width(s) == s.hi - s.lo

(* Where a browser puts a scroll position it is given.                     *)
Clamp(x, s) == Max({0, Min({x, Width(s) - Client})})

MountStrip(T) ==
  LET domain == TimeDomain(T)
      lo == Min({domain[1], Now}) - Before
      hi == Max({domain[2], Now}) + After
  IN  [lo |-> lo, hi |-> hi, prevLo |-> lo,
       left |-> 0, right |-> 0, grafts |-> 0,
       scroll |-> Clamp(Now - lo - Offset, [lo |-> lo, hi |-> hi]),
       moved |-> TRUE]

(* The strip after a render: it is mounted while the timeline view has a   *)
(* task, whatever the filter leaves, and keeps its window otherwise.       *)
Render(f, b) ==
  strip' = IF b.view # "timeline" \/ Shown(f) = {} THEN None
           ELSE IF strip = None THEN MountStrip(Visible(f, b)) ELSE strip

-----------------------------------------------------------------------------
(* The feed                                                                *)

ClosedTab == [view |-> None, member |-> None, priority |-> None, picked |-> None]

(* TasksTab as it mounts.                                                  *)
OpenedTab == [ClosedTab EXCEPT !.view = "board", !.picked = Link]

NoFeed == [items |-> None, loading |-> FALSE, error |-> FALSE]

FromCache(w) == IF cache[w] = None THEN None ELSE [ws |-> w, size |-> cache[w]]

Init ==
  /\ graph \in Graphs
  /\ active = None /\ feed = NoFeed
  /\ cache = [w \in Workspaces |-> None]
  /\ request = [s \in Slots |-> None]
  /\ tab = ClosedTab /\ strip = None /\ gestures = 0

Gesture == gestures < MaxGestures /\ gestures' = gestures + 1

(* useLiveFeed's effect: show what is cached and ask for the rest. The     *)
(* request keeps what was cached when it was sent.                         *)
Fetch(w) ==
  /\ active' = w
  /\ feed' = [items |-> FromCache(w), loading |-> cache[w] = None, error |-> FALSE]
  /\ \E s \in Slots :
       /\ request[s] = None
       /\ request' = [request EXCEPT ![s] =
                        [ws |-> w, cached |-> cache[w], orphan |-> FALSE]]

(* The user opens a workspace; the tab stays as it is.                     *)
Open(w) ==
  /\ Gesture /\ w # active
  /\ Fetch(w)
  /\ Render(feed', tab)
  /\ UNCHANGED <<graph, cache, tab>>

(* The user goes to the personal view, which unmounts the canvas: requests *)
(* of the key on screen still pass its check, the others never will.       *)
Leave ==
  /\ Gesture /\ active # None
  /\ active' = None /\ feed' = NoFeed /\ tab' = ClosedTab /\ strip' = None
  /\ request' = [s \in Slots |->
       IF request[s] = None \/ request[s].orphan THEN request[s]
       ELSE IF request[s].ws = active THEN [request[s] EXCEPT !.orphan = TRUE]
       ELSE None]
  /\ UNCHANGED <<graph, cache>>

(* A reload of the page: every request is lost, and of the cache what the  *)
(* session storage holds is left. It may have refused any one write, so    *)
(* that an entry is kept, missing, or of an earlier answer (any board).    *)
Reload ==
  /\ Gesture /\ active # None
  /\ UNCHANGED <<graph, active>>
  /\ cache' \in [Workspaces -> Boards \cup {None}]
  /\ \A w \in Workspaces : cache[w] = None => cache'[w] = None
  /\ feed' = [items |-> FromCache(active)', loading |-> cache'[active] = None, error |-> FALSE]
  /\ \E s \in Slots : request' = [r \in Slots |->
       IF r = s THEN [ws |-> active, cached |-> cache'[active], orphan |-> FALSE]
       ELSE None]
  /\ tab' \in {ClosedTab, OpenedTab}
  /\ strip' = None

(* Mutant of Current: the spinner the effect shows runs the effect again,  *)
(* whose cleanup cancels the request (the hang of live-feed.ts:14-16).     *)
CurrentUnlessLoading(r) == r.orphan \/ (r.ws = active /\ ~feed.loading)

(* The answer still belongs to the workspace its canvas shows.             *)
Current(r) == r.orphan \/ r.ws = active

(* The items show, unless their canvas is gone. *)
ShowItems(r, n) ==
  feed' = IF r.orphan THEN feed
          ELSE [items |-> [ws |-> r.ws, size |-> n], loading |-> FALSE, error |-> FALSE]

(* then: a current answer fills the cache and shows.                       *)
Answer(s) ==
  /\ request[s] # None
  /\ \E n \in Boards :
       IF Current(request[s])
       THEN /\ cache' = [cache EXCEPT ![request[s].ws] = n]
            /\ ShowItems(request[s], n)
       ELSE UNCHANGED <<cache, feed>>
  /\ request' = [request EXCEPT ![s] = None]
  /\ Render(feed', tab)
  /\ UNCHANGED <<graph, active, tab, gestures>>

(* catch: a current failure shows what was cached when the request was     *)
(* sent, and the error when nothing was.                                   *)
Fail(s) ==
  /\ request[s] # None
  /\ LET r == request[s] IN
       feed' = IF Current(r) /\ ~r.orphan
               THEN [items |-> IF r.cached = None THEN None
                               ELSE [ws |-> r.ws, size |-> r.cached],
                     loading |-> FALSE, error |-> r.cached = None]
               ELSE feed
  /\ request' = [request EXCEPT ![s] = None]
  /\ Render(feed', tab)
  /\ UNCHANGED <<graph, active, cache, tab, gestures>>

-----------------------------------------------------------------------------
(* The tab                                                                 *)

(* The user opens the Tasks tab, which starts on the board, or another.    *)
SwitchTab ==
  /\ Gesture /\ active # None
  /\ tab' = IF tab.view = None THEN OpenedTab ELSE ClosedTab
  /\ Render(feed, tab')
  /\ UNCHANGED <<graph, active, feed, cache, request>>

(* The user picks a view. The buttons are there while a task is.           *)
PickView(v) ==
  /\ Gesture /\ tab.view \notin {None, v} /\ Shown(feed) # {}
  /\ tab' = [tab EXCEPT !.view = v]
  /\ Render(feed, tab')
  /\ UNCHANGED <<graph, active, feed, cache, request>>

(* The user picks a member of the shown tasks, or everyone.                *)
PickMember(m) ==
  /\ Gesture /\ tab.view # None /\ Shown(feed) # {} /\ m # tab.member
  /\ m \in {None} \cup { MemberOf[t] : t \in Shown(feed) }
  /\ tab' = [tab EXCEPT !.member = m]
  /\ Render(feed, tab')
  /\ UNCHANGED <<graph, active, feed, cache, request>>

(* The priority chip goes through the priorities and back to all.          *)
CyclePriority ==
  /\ Gesture /\ tab.view # None /\ Shown(feed) # {}
  /\ tab' = [tab EXCEPT !.priority =
       CASE @ = None -> "high" [] @ = "high" -> "medium"
         [] @ = "medium" -> "low" [] @ = "low" -> None]
  /\ Render(feed, tab')
  /\ UNCHANGED <<graph, active, feed, cache, request>>

(* The user clicks a card or a row, or closes the panel. The strip's rows  *)
(* are the list's.                                                         *)
PickTask ==
  /\ Gesture /\ tab.view # None
  /\ \/ \E t \in Clickable(feed, tab) : tab' = [tab EXCEPT !.picked = <<active, t>>]
     \/ Panel(feed, tab) # None /\ tab' = [tab EXCEPT !.picked = None]
  /\ tab' # tab
  /\ UNCHANGED <<graph, active, feed, cache, request, strip>>

-----------------------------------------------------------------------------
(* The strip                                                               *)

stripRest == <<graph, active, feed, cache, request, tab>>

(* Wheel or trackpad: the strip scrolls, and its event follows.            *)
Pan ==
  /\ Gesture /\ strip # None
  /\ \E x \in 0..(Width(strip) - Client) :
       /\ x # strip.scroll
       /\ strip' = [strip EXCEPT !.scroll = x, !.moved = TRUE]
  /\ UNCHANGED stripRest

(* The Today button glides toward the clock; an update may stop it on the  *)
(* way.                                                                    *)
GoToday ==
  /\ Gesture /\ strip # None
  /\ LET goal == Clamp(Now - strip.lo - Offset, strip)
     IN  \E x \in Min({goal, strip.scroll})..Max({goal, strip.scroll}) :
           /\ x # strip.scroll
           /\ strip' = [strip EXCEPT !.scroll = x, !.moved = TRUE]
  /\ UNCHANGED stripRest

(* Mutant of OnScroll: only the edge itself asks for a chunk.              *)
OnScrollAtEnd ==
  /\ strip # None /\ strip.moved
  /\ LET atLeft  == strip.scroll = 0
         atRight == ~atLeft /\ strip.scroll = Width(strip) - Client
     IN  /\ atLeft \/ atRight => strip.grafts < MaxGrafts
         /\ strip' = [strip EXCEPT !.moved = FALSE,
              !.left = @ + (IF atLeft THEN 1 ELSE 0),
              !.right = @ + (IF atRight THEN 1 ELSE 0),
              !.grafts = @ + (IF atLeft \/ atRight THEN 1 ELSE 0)]
  /\ UNCHANGED <<stripRest, gestures>>

(* onScroll: near an edge it asks for a chunk on that side; the window     *)
(* grows with the next render.                                             *)
OnScroll ==
  /\ strip # None /\ strip.moved
  /\ LET atLeft  == strip.scroll < Edge
         atRight == ~atLeft /\ strip.scroll > Width(strip) - Client - Edge
     IN  /\ atLeft \/ atRight => strip.grafts < MaxGrafts
         /\ strip' = [strip EXCEPT !.moved = FALSE,
              !.left = @ + (IF atLeft THEN 1 ELSE 0),
              !.right = @ + (IF atRight THEN 1 ELSE 0),
              !.grafts = @ + (IF atLeft \/ atRight THEN 1 ELSE 0)]
  /\ UNCHANGED <<stripRest, gestures>>

(* The layout effect: the view keeps its place when time is grafted on the *)
(* left; moving it is a scroll of its own.                                 *)
KeepPlace(s) ==
  IF s.prevLo = s.lo THEN s
  ELSE [s EXCEPT !.prevLo = s.lo, !.moved = TRUE, !.scroll = @ + (s.prevLo - s.lo)]

(* React renders the updates asked for since the last render, together.    *)
Graft ==
  /\ strip # None /\ strip.left + strip.right > 0
  /\ strip' = KeepPlace([strip EXCEPT
       !.lo = @ - strip.left * Chunk, !.hi = @ + strip.right * Chunk,
       !.left = 0, !.right = 0])
  /\ UNCHANGED <<stripRest, gestures>>

Next ==
  \/ \E w \in Workspaces : Open(w)
  \/ Leave \/ Reload \/ SwitchTab
  \/ \E v \in {"board", "list", "timeline"} : PickView(v)
  \/ \E m \in Members \cup {None} : PickMember(m)
  \/ CyclePriority \/ PickTask
  \/ \E s \in Slots : Answer(s) \/ Fail(s)
  \/ Pan \/ GoToday \/ OnScroll \/ Graft

Spec == Init /\ [][Next]_vars

-----------------------------------------------------------------------------
(* Types; an error page is never shown with items or a spinner.            *)
TypeOK ==
  /\ graph \in Graphs
  /\ active \in Workspaces \cup {None}
  /\ feed \in Feed /\ ~(feed.error /\ (feed.items # None \/ feed.loading))
  /\ cache \in [Workspaces -> Boards \cup {None}]
  /\ request \in [Slots -> Request \cup {None}]
  /\ tab \in Tab /\ (strip # None => strip \in Strip)
  /\ gestures \in 0..MaxGestures

(* The tasks on screen are those of the workspace on screen, however       *)
(* answers and switches interleave (live-feed.ts:73, :78).                 *)
OwnTasks == feed.items # None => feed.items.ws = active

(* A spinner is owed an answer: a request of the workspace on screen is on *)
(* its way, and either outcome ends the spinner ("Loading tasks" must not  *)
(* hang: live-feed.ts:14-16).                                              *)
SpinnerOwed ==
  feed.loading =>
    /\ feed.items = None
    /\ \E s \in Slots : request[s] # None /\ ~request[s].orphan /\ request[s].ws = active

(* The panel shows a task of the workspace on screen or none: one picked   *)
(* in another workspace, or linked to, never stays over this one           *)
(* (TasksTab.tsx:41).                                                      *)
OwnPanel ==
  tab.view # None /\ Panel(feed, tab) # None =>
    Panel(feed, tab) \in {active} \X Shown(feed)

(* Whatever is picked, opened, left, answered late or never: the screen    *)
(* shows what belongs to the workspace on it, or is owed an answer.        *)
OnScreen == OwnTasks /\ SpinnerOwed /\ OwnPanel

(* The order of the timeline's rows: every visible task once, and arrows   *)
(* flow downward except round a cycle, whatever the filters cut out of the *)
(* graph (tasks-timeline.ts:51-77).                                        *)
ArrowsDown ==
  LET T == Visible(feed, tab)
      rows == TopoOrder(T)
      Row(t) == CHOOSE i \in DOMAIN rows : rows[i] = t
  IN  /\ Len(rows) = Cardinality(T) /\ Range(rows) = T
      /\ \A a \in Arrows(T) : a[2] \notin Needs(a[1], T) => Row(a[1]) < Row(a[2])

(* Growing the window never moves the time under the user's eyes, however  *)
(* many chunks one render adds on either side (TasksTimeline.tsx:99-109). *)
ViewKept ==
  [][ strip # None /\ strip' # None /\ <<strip.lo, strip.hi>>' # <<strip.lo, strip.hi>>
      => strip'.lo + strip'.scroll = strip.lo + strip.scroll ]_vars

(* Once scrolling settles there is time left to scroll to on both sides    *)
(* ("extends both directions as you reach an edge", TasksTimeline.tsx:16). *)
RoomToPan ==
  strip # None /\ ~strip.moved /\ strip.left + strip.right = 0 =>
    strip.scroll \in Edge..(Width(strip) - Client - Edge)
=============================================================================
