-------------------------------- MODULE Shell --------------------------------
(***************************************************************************)
(* The browser's app shell: which workspace the URL opens, the list the    *)
(* sidebar shows, the Share popover, the settings and account dialogs, and *)
(* the requests they have on their way when the user moves on, the answers *)
(* overtake each other or get lost.                                        *)
(* Source: packages/web/src/App.tsx, lib/use-app-location.ts, lib/api.ts,  *)
(* components/SharePopover.tsx, WorkspaceSettings.tsx,                     *)
(* NewWorkspaceDialog.tsx, AccountSettings.tsx.                            *)
(*                                                                         *)
(* A workspace is its rank in creation order, and the list, newest first   *)
(* (stores.ts, ORDER BY created_at DESC), is a set. Tabs, names, errors on *)
(* display and key scopes are left out. A handler, the render it causes    *)
(* and that render's effects are one step.                                 *)
(***************************************************************************)
EXTENDS Integers, Sequences, FiniteSets, FiniteSetsExt

CONSTANTS
  MaxWorkspaces, \* bound: workspaces are 1..MaxWorkspaces
  Initial,       \* ranks up to Initial exist at first
  MaxKeys,       \* bound: keys the account may issue
  MaxHistory,    \* bound: entries of the tab's history
  MaxSlots,      \* bound: requests on their way at once
  MaxMenus,      \* bound: role menus of the Share popover open at once
  Entrances,     \* bound: the routes the tab is first opened at
  Buttons,       \* bound: the operations of the two rosters that are used
  MaxGestures,   \* bound: what the user does
  MaxFaults,     \* bound: requests that fail and changes by others
  Personal,      \* the route /app/personal
  None           \* the bare route /app; no workspace; no request

Workspaces == 1..MaxWorkspaces
Example == 0     \* the demo's first workspace
Slots == 1..MaxSlots
Routes == Workspaces \cup {Example, Personal, None}
Panels == {"share", "settings", "new", "account"}
Rosters == {"share", "settings"}
Operations == {"change", "leave", "mint"}
Writes == Operations \cup {"create", "generate", "revoke"}

ASSUME ShellAssumption ==
  /\ MaxWorkspaces \in Nat /\ Initial \in 0..MaxWorkspaces
  /\ MaxKeys \in Nat /\ MaxHistory \in Nat \ {0} /\ MaxSlots \in Nat \ {0}
  /\ MaxMenus \in Nat /\ MaxGestures \in Nat /\ MaxFaults \in Nat
  /\ Entrances \subseteq Routes
  /\ Buttons \subseteq (Rosters \X Operations) \ {<<"settings", "mint">>}
  /\ Personal \notin Int /\ None \notin Int /\ Personal # None
  /\ None \notin Panels

VARIABLES
  mine,     \* the account's memberships
  created,  \* workspaces up to this rank have been created
  keys,     \* the account's live API keys, and all ever issued
  ui,       \* what the page shows
  net,      \* the request in each slot
  gestures, \* what the user did so far
  faults,   \* failed requests and changes by others so far
  excused   \* history: why a list may be behind

vars == <<mine, created, keys, ui, net, gestures, faults, excused>>

UI == [me : {"loading", "demo", "account"}, list : SUBSET Workspaces,
       hist : UNION { [1..n -> Routes] : n \in 1..MaxHistory }, pos : 1..MaxHistory,
       open : SUBSET Panels, busy : [Panels -> BOOLEAN],
       roster : SUBSET Rosters, link : BOOLEAN, menus : 0..MaxMenus,
       keys : SUBSET (1..MaxKeys), minted : BOOLEAN]

Ops == Writes \cup {"me", "list", "detail", "keys", "copy"}

(* `of` is the workspace or key asked about, `then` what the caller does   *)
(* with the answer (nothing, when its page is gone), `alive` whether the   *)
(* component that asked is mounted; `old`, that a newer list was served    *)
(* since, is history. "copy" is the clipboard, which answers as late.      *)
Request == [op : Ops, of : Nat, by : Panels \cup {None},
            then : {"stop", "run", "land", "gone"}, alive : BOOLEAN,
            stage : {"sent", "ok", "anonymous", "refused"},
            val : SUBSET Nat, old : BOOLEAN]

ASSUME NoneAssumption == None \notin Request

-----------------------------------------------------------------------------
Ask(op, of, by, then) ==
  [op |-> op, of |-> of, by |-> by, then |-> then, alive |-> TRUE,
   stage |-> "sent", val |-> {}, old |-> FALSE]

Quiet == [p \in Panels |-> FALSE]

(* The page before load() has resolved the account.                        *)
Blank(hist, pos) ==
  [me |-> "loading", list |-> {}, hist |-> hist, pos |-> pos, open |-> {},
   busy |-> Quiet, roster |-> {}, link |-> FALSE, menus |-> 0,
   keys |-> {}, minted |-> FALSE]

Init ==
  /\ mine = 1..Initial /\ created = Initial
  /\ keys = [live |-> {}, issued |-> 0]
  /\ \E r \in Entrances : ui = Blank(<<r>>, 1)
  /\ net = [s \in Slots |-> IF s = 1 THEN Ask("me", 0, None, "stop") ELSE None]
  /\ gestures = 0 /\ faults = 0 /\ excused = {}

Route(u) == u.hist[u.pos]

Shown(u) == IF u.me = "demo" THEN {Example} ELSE u.list

(* A workspace is selected, so SharePopover and WorkspaceSettings exist.   *)
Mounted(u) == u.me = "account" /\ Route(u) \in u.list

(* An entry is pushed: what was ahead of the present one is gone. Browsers *)
(* drop the oldest entry of a full history.                                *)
Pushed(u, r) ==
  LET first == IF u.pos = MaxHistory THEN 2 ELSE 1
      kept  == SubSeq(u.hist, first, u.pos)
  IN  [u EXCEPT !.hist = Append(kept, r), !.pos = Len(kept) + 1]

Replaced(u, r) == [u EXCEPT !.hist[u.pos] = r]

(* The reconcile effect's condition: the list is there and lacks the route.*)
Astray(u) ==
  /\ u.me # "loading" /\ Route(u) # Personal
  /\ Shown(u) # {} /\ Route(u) \notin Shown(u)

(* Mutant of Landed: the effect pushes instead of replacing.               *)
LandedByPush(u) == IF Astray(u) THEN Pushed(u, Max(Shown(u))) ELSE u

Landed(u) == IF Astray(u) THEN Replaced(u, Max(Shown(u))) ELSE u

(* Without a selected workspace, for a single render too, the popover and  *)
(* the settings dialog lose their state; that settings are open is App's.  *)
(* The role menus go with the popover's content.                           *)
Unmounted(u) ==
  LET v == IF Mounted(u) THEN u
           ELSE [u EXCEPT !.open = @ \ {"share"},
                          !.busy = [p \in Panels |-> p \notin Rosters /\ u.busy[p]],
                          !.roster = {}, !.link = FALSE]
  IN  [v EXCEPT !.menus = IF "share" \in v.open THEN @ ELSE 0]

(* The panels whose load effect runs: just opened, or the workspace they   *)
(* are about is another one than before. They are never both open.         *)
Loads(u, v) ==
  IF Mounted(v)
  THEN { p \in v.open \cap Rosters :
           ~(Mounted(ui) /\ Mounted(u) /\ p \in ui.open /\ Route(ui) = Route(v)) }
  ELSE {}

HasFree(n) == \E s \in Slots : n[s] = None
Free(n) == Min({ s \in Slots : n[s] = None })

Orphaned(n, u) ==
  [s \in Slots |-> IF n[s] # None /\ n[s].by \in Rosters /\ ~Mounted(u)
                   THEN [n[s] EXCEPT !.alive = FALSE] ELSE n[s]]

(* A handler leaves the state u and the requests n; then render, reconcile *)
(* and load.                                                               *)
Render(u, n) ==
  LET v == Landed(Unmounted(u))
      m == Orphaned(n, u)
  IN  IF Loads(u, v) = {} THEN ui' = v /\ net' = m
      ELSE \E p \in Loads(u, v) :
             /\ HasFree(n)
             /\ ui' = [v EXCEPT !.link = @ /\ p # "share"]
             /\ net' = [m EXCEPT ![Free(n)] = Ask("detail", Route(v), p, "stop")]

Server == <<mine, created, keys, faults>>

-----------------------------------------------------------------------------
(* What the user does. A modal dialog on display keeps the pointer to      *)
(* itself; the browser's own buttons work all the same.                    *)
Gesture == gestures < MaxGestures /\ gestures' = gestures + 1

Modal(u) == u.open \cap {"new", "account"} # {} \/ ("settings" \in u.open /\ Mounted(u))

Pointer == ui.me # "loading" /\ ~Modal(ui)

(* A click outside the popover closes it.                                  *)
Outside(u) == [u EXCEPT !.open = @ \ {"share"}]

Go(r) ==
  /\ Pointer
  /\ Render(Pushed(Outside(ui), r), net)
  /\ Gesture /\ UNCHANGED <<Server, excused>>

Select(w) == w \in Shown(ui) /\ Go(w)

SelectPersonal == Go(Personal)

(* popstate: the route follows the entry, whatever is open.                *)
Travel(step) ==
  /\ ui.pos + step \in 1..Len(ui.hist)
  /\ Render([ui EXCEPT !.pos = @ + step], net)
  /\ Gesture /\ UNCHANGED <<Server, excused>>

Back == Travel(-1)
Forward == Travel(1)

(* Opening a panel starts it afresh: Share forgets its link, the account   *)
(* dialog the key it showed, and each loads what it lists.                 *)
Open(p) ==
  /\ Pointer /\ ui.me = "account" /\ p \notin ui.open
  /\ p \in Rosters => Mounted(ui)
  /\ LET u == [Outside(ui) EXCEPT !.open = @ \cup {p},
                                  !.minted = @ /\ p # "account"]
     IN  IF p = "account"
         THEN HasFree(net) /\ Render(u, [net EXCEPT ![Free(net)] = Ask("keys", 0, p, "stop")])
         ELSE Render(u, net)
  /\ Gesture /\ UNCHANGED <<Server, excused>>

Close(p) ==
  /\ p \in ui.open /\ (p \in Rosters => Mounted(ui))
  /\ Render([ui EXCEPT !.open = @ \ {p}], net)
  /\ Gesture /\ UNCHANGED <<Server, excused>>

(* The triggers are disabled while the popover is busy. A menu closes at a *)
(* mousedown outside it, and so stays while the keyboard is used.          *)
OpenMenu ==
  /\ Pointer /\ Mounted(ui) /\ "share" \in ui.open \cap ui.roster /\ ~ui.busy["share"]
  /\ \E m \in {1, ui.menus + 1} \cap (0..MaxMenus) : ui' = [ui EXCEPT !.menus = m]
  /\ UNCHANGED <<Server, gestures, net, excused>>

CloseMenus ==
  /\ \E m \in 0..(ui.menus - 1) : ui' = [ui EXCEPT !.menus = m]
  /\ UNCHANGED <<Server, gestures, net, excused>>

(* run, copyLink, submit, generate and revoke.                             *)
Submit(p, op, of, menus) ==
  /\ p \in ui.open /\ HasFree(net)
  /\ Render([ui EXCEPT !.busy[p] = TRUE, !.menus = menus],
            [net EXCEPT ![Free(net)] = Ask(op, of, p, "run")])
  /\ Gesture /\ UNCHANGED <<Server, excused>>

(* A button of a panel is disabled while the panel is busy.                *)
Press(p, op, of) == ~ui.busy[p] /\ \E m \in {0, ui.menus} : Submit(p, op, of, m)

(* Buttons of a roster show once a roster is there, whoever's it is; they  *)
(* act on the selected workspace. A link already minted is only copied.    *)
Manage(p, op) ==
  /\ Mounted(ui) /\ p \in ui.roster /\ <<p, op>> \in Buttons \ {<<"share", "change">>}
  /\ Press(p, IF op = "mint" /\ ui.link THEN "copy" ELSE op, Route(ui))

(* The items of an open role menu are never disabled.                      *)
PickItem(op) ==
  /\ Mounted(ui) /\ "share" \in ui.roster /\ <<"share", op>> \in Buttons /\ op # "mint"
  /\ ui.menus > 0
  /\ \E m \in {0, ui.menus - 1} : Submit("share", op, Route(ui), m)

Create == created < MaxWorkspaces /\ Press("new", "create", 0)

Generate == keys.issued < MaxKeys /\ Press("account", "generate", 0)

Revoke(k) == k \in ui.keys /\ Press("account", "revoke", k)

(* The page is loaded anew. What it asked for is forgotten; a write that   *)
(* has left may still reach the gateway.                                   *)
Reload ==
  /\ ui' = Blank(ui.hist, ui.pos)
  /\ \E sent \in SUBSET { s \in Slots : net[s] # None /\ net[s].op \in Writes
                                         /\ net[s].stage = "sent" } :
       LET left == [s \in Slots |->
                      IF s \in sent THEN [net[s] EXCEPT !.then = "gone"] ELSE None]
       IN  HasFree(left) /\ net' = [left EXCEPT ![Free(left)] = Ask("me", 0, None, "stop")]
  /\ excused' = {}
  /\ Gesture /\ UNCHANGED Server

-----------------------------------------------------------------------------
(* The gateway.                                                            *)
Answered(s, stage, val) == [net EXCEPT ![s].stage = stage, ![s].val = val]

(* Nobody takes the answer to a page that is gone, whose doing is to the   *)
(* new page that of another tab.                                           *)
Answer(s, stage, val) ==
  IF net[s].then = "gone"
  THEN net' = [net EXCEPT ![s] = None] /\ excused' = excused \cup {"others"}
  ELSE net' = Answered(s, stage, val) /\ UNCHANGED excused

Sent(s, op) == net[s] # None /\ net[s].stage = "sent" /\ net[s].op = op

Identify(s) ==
  /\ Sent(s, "me")
  /\ \E as \in {"ok", "anonymous"} : net' = Answered(s, as, {})
  /\ UNCHANGED <<Server, gestures, ui, excused>>

(* A list of the present; the same one answered before is old now.         *)
ServeList(s) ==
  /\ \E op \in {"list", "keys"} :
       /\ Sent(s, op)
       /\ net' = [t \in Slots |->
            IF t = s THEN [net[s] EXCEPT !.stage = "ok",
                                         !.val = IF op = "list" THEN mine ELSE keys.live]
            ELSE IF net[t] # None /\ net[t].op = op /\ net[t].stage = "ok"
            THEN [net[t] EXCEPT !.old = TRUE] ELSE net[t]]
  /\ UNCHANGED <<Server, gestures, ui, excused>>

(* Routes of one workspace: 404 for who is no member.                      *)
ServeMember(s) ==
  /\ \E op \in {"detail", "change", "leave", "mint"} : Sent(s, op)
  /\ LET w == net[s].of
     IN  /\ Answer(s, IF w \in mine THEN "ok" ELSE "refused", {w})
         /\ mine' = IF net[s].op = "leave" THEN mine \ {w} ELSE mine
  /\ UNCHANGED <<created, keys, ui, gestures, faults>>

(* At the bound, which another tab may have used up, it refuses.           *)
ServeCreate(s) ==
  /\ Sent(s, "create")
  /\ IF created < MaxWorkspaces
     THEN /\ created' = created + 1 /\ mine' = mine \cup {created + 1}
          /\ Answer(s, "ok", {created + 1})
     ELSE Answer(s, "refused", {}) /\ UNCHANGED <<mine, created>>
  /\ UNCHANGED <<keys, ui, gestures, faults>>

ServeKeyChange(s) ==
  /\ \/ /\ Sent(s, "generate") /\ keys.issued < MaxKeys
        /\ keys' = [live |-> keys.live \cup {keys.issued + 1}, issued |-> keys.issued + 1]
     \/ /\ Sent(s, "revoke")
        /\ keys' = [keys EXCEPT !.live = @ \ {net[s].of}]
  /\ Answer(s, "ok", {})
  /\ UNCHANGED <<mine, created, ui, gestures, faults>>

Fault(why) ==
  /\ faults < MaxFaults /\ faults' = faults + 1
  /\ excused' = excused \cup {why}

(* The request or its answer is lost, or the gateway refuses (403, 409,    *)
(* 500).                                                                   *)
Fail(s) ==
  /\ net[s] # None /\ net[s].stage \in {"sent", "ok"}
  /\ net[s].op # "copy" /\ net[s].then # "gone"
  /\ net' = Answered(s, "refused", {})
  /\ Fault("failed")
  /\ UNCHANGED <<mine, created, keys, ui, gestures>>

(* Other members, machines and tabs.                                       *)
OthersRemove(w) ==
  /\ w \in mine
  /\ mine' = mine \ {w}
  /\ Fault("others")
  /\ UNCHANGED <<created, keys, ui, net, gestures>>

OthersCreate ==
  /\ created < MaxWorkspaces
  /\ created' = created + 1 /\ mine' = mine \cup {created + 1}
  /\ Fault("others")
  /\ UNCHANGED <<keys, ui, net, gestures>>

-----------------------------------------------------------------------------
(* An answer arrives.                                                      *)
Arrived(s, op) == net[s] # None /\ net[s].stage = "ok" /\ net[s].op = op

Gone(s) == [net EXCEPT ![s] = None]

Follow(s, q) == [net EXCEPT ![s] = q]

Refresh(then) == Ask("list", 0, None, then)

(* getMe: null is the demo, an account loads its list.                     *)
TakeMe(s) ==
  /\ net[s] # None /\ net[s].op = "me"
  /\ \/ /\ net[s].stage = "anonymous"
        /\ Render([ui EXCEPT !.me = "demo"], Gone(s))
     \/ /\ net[s].stage = "ok"
        /\ Render([ui EXCEPT !.me = "account"], Follow(s, Refresh("stop")))
  /\ UNCHANGED <<Server, gestures, excused>>

(* History: the list taken is older than one served since.                 *)
Overtaken(q) ==
  excused' = IF q.old THEN excused \cup {q.op} ELSE excused \ {q.op}

(* setWorkspaces, and after a leave or a delete the first of the list, in  *)
(* the same render.                                                        *)
TakeList(s) ==
  /\ Arrived(s, "list")
  /\ LET q == net[s]
         u == [ui EXCEPT !.list = q.val]
     IN  /\ Render(IF q.then = "land"
                   THEN Replaced(u, IF q.val = {} THEN None ELSE Max(q.val)) ELSE u,
                   Gone(s))
         /\ Overtaken(q)
  /\ UNCHANGED <<Server, gestures>>

Released(u, q) == IF q.alive THEN [u EXCEPT !.busy[q.by] = FALSE] ELSE u

(* load's answer: setDetail, whatever workspace is selected by now; at the *)
(* end of run, onChanged. The menus of who is no longer listed go.         *)
TakeDetail(s) ==
  /\ Arrived(s, "detail")
  /\ \E m \in 0..ui.menus :
     LET q == net[s]
         u == IF q.alive THEN [ui EXCEPT !.roster = @ \cup {q.by}, !.menus = m] ELSE ui
     IN  IF q.then = "run" THEN Render(Released(u, q), Follow(s, Refresh("stop")))
         ELSE Render(u, Gone(s))
  /\ UNCHANGED <<Server, gestures, excused>>

(* run after a change: load of the workspace it was about.                 *)
TakeChange(s) ==
  /\ Arrived(s, "change")
  /\ LET q == net[s]
     IN  Render(ui, Follow(s, [Ask("detail", q.of, q.by, "run") EXCEPT !.alive = q.alive]))
  /\ UNCHANGED <<Server, gestures, excused>>

(* Mutant of TakeLeave: the panel closes, the list is not refreshed.       *)
TakeLeaveOnly(s) ==
  /\ Arrived(s, "leave")
  /\ LET q == net[s]
         close == q.by = "settings" \/ q.alive
     IN  Render(Released([ui EXCEPT !.open = IF close THEN @ \ {q.by} ELSE @], q), Gone(s))
  /\ UNCHANGED <<Server, gestures, excused>>

(* run after a leave or a delete: onChanged, and the panel closes.         *)
TakeLeave(s) ==
  /\ Arrived(s, "leave")
  /\ LET q == net[s]
         close == q.by = "settings" \/ q.alive
     IN  Render(Released([ui EXCEPT !.open = IF close THEN @ \ {q.by} ELSE @], q),
                Follow(s, Refresh("land")))
  /\ UNCHANGED <<Server, gestures, excused>>

(* copyLink keeps the link and awaits the clipboard.                       *)
TakeMint(s) ==
  /\ Arrived(s, "mint")
  /\ LET q == net[s]
     IN  Render(IF q.alive THEN [ui EXCEPT !.link = TRUE] ELSE ui,
                Follow(s, [Ask("copy", q.of, q.by, "run") EXCEPT !.alive = q.alive]))
  /\ UNCHANGED <<Server, gestures, excused>>

(* The clipboard is written, or refuses.                                   *)
TakeCopy(s) ==
  /\ Sent(s, "copy")
  /\ Render(Released(ui, net[s]), Gone(s))
  /\ UNCHANGED <<Server, gestures, excused>>

(* onCreated: refresh without waiting, and open the new workspace.         *)
TakeCreate(s) ==
  /\ Arrived(s, "create")
  /\ LET q == net[s]
         u == Released([ui EXCEPT !.open = @ \ {"new"}], q)
     IN  Render(Pushed(u, Max(q.val)), Follow(s, Refresh("stop")))
  /\ UNCHANGED <<Server, gestures, excused>>

(* The key is shown, and the keys are listed again; a run's end.           *)
TakeKeyChange(s) ==
  /\ Arrived(s, "generate") \/ Arrived(s, "revoke")
  /\ LET q == net[s]
     IN  Render([ui EXCEPT !.minted = @ \/ q.op = "generate"],
                Follow(s, Ask("keys", 0, q.by, "run")))
  /\ UNCHANGED <<Server, gestures, excused>>

TakeKeys(s) ==
  /\ Arrived(s, "keys")
  /\ LET q == net[s]
         u == [ui EXCEPT !.keys = q.val]
     IN  /\ Render(IF q.then = "run" THEN Released(u, q) ELSE u, Gone(s))
         /\ Overtaken(q)
  /\ UNCHANGED <<Server, gestures>>

(* Mutant of TakeRefused: only a run that succeeds frees the panel.        *)
TakeRefusedOnly(s) ==
  /\ net[s] # None /\ net[s].stage = "refused"
  /\ Render(ui, Gone(s))
  /\ UNCHANGED <<Server, gestures, excused>>

(* An error of run, copyLink, submit, generate or revoke frees the panel   *)
(* (finally); one of a load or a refresh changes nothing; one of getMe     *)
(* leaves the page loading.                                                *)
TakeRefused(s) ==
  /\ net[s] # None /\ net[s].stage = "refused"
  /\ LET q == net[s]
     IN  Render(IF q.by # None /\ q.then # "stop" THEN Released(ui, q) ELSE ui, Gone(s))
  /\ UNCHANGED <<Server, gestures, excused>>

Next ==
  \/ \E w \in Workspaces \cup {Example} : Select(w)
  \/ SelectPersonal \/ Back \/ Forward \/ Reload \/ Create \/ Generate
  \/ \E p \in Panels : Open(p) \/ Close(p)
  \/ \E p \in Rosters, op \in Operations : Manage(p, op)
  \/ \E op \in Operations : PickItem(op)
  \/ OpenMenu \/ CloseMenus
  \/ \E k \in 1..MaxKeys : Revoke(k)
  \/ \E w \in Workspaces : OthersRemove(w)
  \/ OthersCreate
  \/ \E s \in Slots :
       \/ Identify(s) \/ ServeList(s) \/ ServeMember(s) \/ ServeCreate(s)
       \/ ServeKeyChange(s) \/ Fail(s)
       \/ TakeMe(s) \/ TakeList(s) \/ TakeDetail(s) \/ TakeChange(s) \/ TakeLeave(s)
       \/ TakeMint(s) \/ TakeCopy(s) \/ TakeCreate(s) \/ TakeKeyChange(s) \/ TakeKeys(s) \/ TakeRefused(s)

Spec == Init /\ [][Next]_vars

-----------------------------------------------------------------------------
(* Each variable has its type.                                             *)
TypeOK ==
  /\ created \in 0..MaxWorkspaces /\ mine \subseteq 1..created
  /\ keys \in [live : SUBSET (1..MaxKeys), issued : 0..MaxKeys]
  /\ ui \in UI /\ ui.pos \in DOMAIN ui.hist
  /\ net \in [Slots -> Request \cup {None}]
  /\ excused \subseteq {"failed", "others", "list", "keys"}
  /\ gestures \in 0..MaxGestures /\ faults \in 0..MaxFaults

(* The requests a panel's run, copyLink, submit, generate or revoke has on *)
(* its way, its component being still the one that sent it.                *)
Runs(p) ==
  { s \in Slots : net[s] # None /\ net[s].by = p /\ net[s].then = "run" /\ net[s].alive }

(* A panel is never left busy: its buttons are disabled only while an      *)
(* operation of it is on its way, whatever is closed, reopened, unmounted, *)
(* reloaded or lost meanwhile. A panel without menus has one operation at  *)
(* most, and is busy as long as it runs; the Share popover may start a     *)
(* second one from a menu left open, and the first to end frees it.        *)
BusyIsRunning ==
  \A p \in Panels :
    /\ ui.busy[p] => Runs(p) # {}
    /\ p # "share" => Cardinality(Runs(p)) = (IF ui.busy[p] THEN 1 ELSE 0)

Idle == ui.me = "account" /\ \A s \in Slots : net[s] = None

(* Once everything is answered, the sidebar lists the account's workspaces *)
(* and the URL opens one of them, unless a request failed, somebody else   *)
(* or an earlier page changed the memberships, or answers overtook each    *)
(* other.                                                                  *)
IdleOnMine ==
  Idle /\ excused = {} =>
    /\ ui.list = mine
    /\ Route(ui) \notin mine => Route(ui) = Personal \/ mine = {}
    /\ "account" \in ui.open => ui.keys = keys.live

(* Back and Forward keep every entry but the one they arrive at: no        *)
(* redirect of the shell throws away what lies ahead (replace: true).      *)
HistoryKept ==
  [][Back \/ Forward =>
       /\ DOMAIN ui'.hist = DOMAIN ui.hist
       /\ \A i \in DOMAIN ui.hist \ {ui'.pos} : ui'.hist[i] = ui.hist[i]]_vars
=============================================================================
