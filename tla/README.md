# Verification of memorize_hub

TLA+ models of memorize_hub, TLC configurations that check them on small
instances, and theorems the TLA+ proof system checks for every value of the
constants. Paths are relative to the repository (`packages/...`, `docs/...`,
`scripts/...`); `gateway/`, `relay/`, `replica/` and `web/` stand for the
`src` directories of those packages.

## 1. The system

memorize_hub is the server side of *memorize*: clients keep an append-only log
of events per project, push it to a **relay**, and pull other machines' events
from it. A **gateway** in front of the relay knows accounts, workspaces
(shared stores) and API keys, decides who may reach which store, and meters
what is pushed. A **replica** is a headless memorize client that the gateway
asks for read views and that authors tasks; a **web** application shows them.
`scripts/start-hub.mjs` starts relay, replica and gateway as children of one
process.

| Component | State it keeps | Operations | What must hold |
|---|---|---|---|
| Relay event store (`relay/store.ts`) | `events.ndjson` per project; in memory the log, the ids seen, a promise tail that serialises appends | open, hydrate, append, read, stats | no id twice; nothing acknowledged is lost; memory within the file; positions (`?since=`) survive restarts; a failed append blocks nothing |
| Relay HTTP edge (`relay/server.ts`) | none | POST and GET of the events route | a 200 means stored; `accepted` is what this call stored |
| Sync clients (outside the repository; `docs/protocol/transport.md`) | local log, push and pull watermarks | push, pull, retry | watermarks never cover what is not stored or not received; everything arrives |
| Workspace control plane (`gateway/workspace.ts`, `stores.ts`, `invites.ts`, `source-stores.ts`, `derived-stores.ts`) | tables stores, memberships, invites, source_stores, derived_stores | create, rename, delete, mint and revoke invites, join, set role, remove, register a source store, resolve a sidecar | no store loses its last owner; invites never over-used; claims never taken over; no member, invite, claim or sidecar binding of a deleted store |
| Device grant (`gateway/device.ts`, `device-api.ts`) | device_auth rows | start, approve, poll | one key at most, to the account that approved, and eager polling does not starve |
| Keys and the events proxy (`gateway/keys.ts`, `policy.ts`, `account-api.ts`, `personal-store.ts`, `proxy.ts`, `usage.ts`) | api_tokens, token_scopes, personal_stores, usage_daily | issue, revoke, resolve, forward and meter a call | a key reaches only what it was issued for; what is stored is metered; a metering failure changes no answer |
| Accounts and OAuth (`gateway/web.ts`, `oauth.ts`, `session.ts`, `accounts.ts`) | accounts, four signed cookies in the browser | begin a login, callback, upsert, sign out | one account per person; a visit arrives where it set out for |
| Operator pages (`gateway/overview.ts`, `views.ts`) | none | aggregate sizes and traffic, over an await | figures of two moments still fit together |
| Replica lanes (`replica/`) | one store per workspace, its sync file with two watermarks | read timeline, read tasks, author | overlapping requests lose, reorder and mis-attribute nothing |
| Web timeline (`web/lib/paginated-timeline.ts`, `timeline-page.ts`) | items, cursor, flags, a cache that outlives the canvas | open a workspace, load older, take an answer | never another workspace's items; no gaps; the end is the end; spinner and scrolling end |
| Web tasks (`web/lib/live-feed.ts`, `tasks-timeline.ts`, `TasksTab.tsx`, `TasksTimeline.tsx`) | the feed and its cache, filter, picked task, the strip's window and scroll position | open, answer, filter, pick, scroll, grow | own tasks only; the spinner is owed an answer; rows follow dependencies; growing keeps the view |
| Web shell (`web/App.tsx`, `use-app-location.ts`, the popover and dialogs) | routes and history, the list, dialogs with their busy flags | navigate, operate, refresh | no panel left disabled with nothing running; list and URL end on the account's workspaces |
| Migrations (`gateway/db.ts`) | schema version | migrate | old rows stay reachable |
| Legacy gateway; supervisor | - | - | not modelled, section 7 |

Interactions: clients and browser speak HTTP to the gateway; the gateway asks
its own SQLite database (synchronous) and forwards events to the relay and
reads to the replica; the replica pulls from the relay through the gateway like
any client. State is shared only through the relay's log, the gateway's
database, the replica's lane and the browser's cookies.

What is hard here: pushes interleaving on the promise tail, interrupted writes
and restarts, lost answers and retries, handlers that authorize and then await
the body, requests that rewrite a sync file they read earlier, two tabs on one
cookie jar, pages gathered over an await, and browser fetches answered after
the user has moved on. `PROJECT.json` lists the hazards at their lines, with
the properties that cover each.

## 2. Modules

    RelayLog          abstract: an append-only log and its acknowledgements
    Relay             one project's store and POST handler; implements RelayLog
    RelaySync         EXTENDS Relay: writers and readers over a lossy network
    Workspace         the control plane's tables and handlers
    Access            device grants, API keys and what a key reaches
    Login             tabs, cookies, the OAuth round trip and the account
    Metering          proxied calls, usage_daily and the operator's pages
    Lane              reads and authors over one replica lane
    Timeline          the browser's timeline and the replica's page computation
    Tasks             the browser's task surface
    Shell             the browser's app shell, popover and dialogs
    <Module>Proofs    theorems about Relay (with RelaySync), Workspace, Metering,
                      Lane, Timeline, Tasks and Shell
    AccountProofs     theorems about Access and Login; it extends both, so names
                      they would share carry Login or Account in the latter
    MC<Module>        instances for TLC
    MCHub             the relay with its writers, Workspace and Login in one instance

A convention of all modules: a better-sqlite3 call is synchronous, so a handler
is atomic between two awaits and is one action per such stretch. A variable or
field called history in its comment is read by no guard. Definitions headed
"Mutant of" are plausible bugs: under each, the run that checks the property
named in `PROJECT.json` finds it violated.

### Relay and RelayLog

One project is modelled: projects share no state. An event is its id. `file`
and `open` are the disk (lines, and whether the last one lacks its newline),
`events`, `seen`, `queue`, `writing` the `ProjectLog`, `conn` the HTTP
connections. `ReceivePush` is the POST handler up to `append`'s chaining on
`tail`; `BeginWrite` is `append` up to `await appendFile` (what other handlers
interleave with), `FinishWrite` and `FailWrite` its outcomes, `SkipDuplicates`
the early return with `accepted: []`; `Crash` ends the process and `Restart`
is `open` with `hydrate`. An interrupted write leaves a prefix of the batch's
lines and then ends at a newline, inside a line, or just before the newline
(`Cuts`); the next append continues an unterminated last line. `Kept` is the
dedup loop `hydrate` and `append` share. `RelayLog` promises that the log only
grows and keeps what was acknowledged; `DurableLog` is Relay's refinement of
it, over the log a hydrate of the file would give.

### RelaySync

Adds writers with a push watermark, readers with a pull watermark, and answers
that are lost or late. The memorize engine is not in this repository; its
client side follows `docs/protocol/transport.md` and is marked external. A push
carries what follows the watermark; only `lastAcceptedEventId` moves it, and a
writer may have several pushes in flight. A reader inserts what it pulled and
moves `since` to the last id.

### Workspace

One variable per table. `mintInvite`, `setMemberRole`, `renameWorkspace` and
`registerSourceStore` authorize, await the body and then act, and are two
actions (`Begin`, which puts the authorized request into `pending`, and the
operation's own); the others are one. `Authorized` is the part of `authorize`
that depends on roles. A delete is one transaction over the tables
`deleteStore` names, and fails as a whole when a source_stores row still refers
to the store, by the foreign key. The rows of token_scopes and usage_daily that
name a store outlive it in the code and are Access's and Metering's. The module is
meant to stand beside others in one instance, so its names for the parts of a
specification carry Roster (`RosterInit`, `RosterNext`, `RosterSpec`, `RosterTypeOK`).

### Access

`grant` is device_auth: `StartDevice` (with the sweep of expired rows),
`Approve`, and a poll, which is `PollRefused`, `PollPending` or `Collect` by
the branch of `pollDeviceToken` taken; `Collect` consumes the row and mints the
key, `CollectInterrupted` is the process ending between those statements. `key`
is api_tokens with token_scopes. `BeginIssue` is a key request up to its await;
`FinishIssue` filters the stores by the memberships of that later moment.
`MayReach` is `authorize` on the data plane. `Join` and `Remove` may happen at
any time, which is more than Workspace allows, so what holds here holds under
its rules too. Time is counted in units; the polling interval is positive, as
`INTERVAL_S` is.

### Login

`jar` is the four cookies tabs of one browser share, `account` the table,
`gmail` what Google answers. `Visit` is each page that may begin a login, with
the stash it leaves; `LoginRoute` and the callback's branches (`Mismatch`,
`Deny`, `Callback`, `Unresolved`, `Thrown`, `Resolve`) follow `handleOAuthCallback`:
cookies are read before Google is asked and written after. `Abandon` is a
visitor who leaves meanwhile: the account is made and the cookies are lost.
`Upserted` is `upsertAccountByGoogle`. `Expire` ends a cookie, `ChangeAddress`
is external. Signatures are abstracted: nobody forges a cookie.

### Metering

A proxied call moves through one phase per await of `forwardEvents`: the body,
the relay's answer, its text. `RelayApplies` is the relay storing the push,
`Meter` the metering statement with the answer, `MeterFails` its caught
failure, `FetchFails` the 502 (the relay may have stored the push, or still
does: "orphan"), `AnswerCut` the two throws outside the try, `Crash` the end of
the gateway. `stored` is what the relay's file holds: a push that is refused
(`RelayRefuses`) may have left its part there all the same (`store.ts:123`). `OpenPage` starts an operator page, `Stats` is the relay looking
at one store after the other, `GatherBilling` and `GatherOverview` read the
database after that. An event weighs one byte.

### Lane

`lane` is the store's events in insertion order, `own` those appended here,
`sync` the sync file, `hub` the workspace's log at the relay. A request is a
sequence of steps, one per await of `readTasks` or `author`: `BindRead` and
`BindWrite` are the two halves of `bindWorkspaceStore`, `Pull`, `Insert` and
`SettlePull` those of a pull, `Push`, `Arrive` and `SettlePush` of a push;
`ReadEvents` and `Project` are the two reads a board is joined from. `End` is a
request that is answered, fails at an await or dies there. The engine's part is
external; the sync.state.updated events it appends to the lane (`workspace.ts:34`)
are left out, since the reads modelled here pass over their type, and it reads and
writes the sync file in one step.

### Timeline

`held` is the replica's projection of a workspace, a set of ranks in the
(at, id) order; `Add` and `Retract` change it (late syncs noted in `late`).
`Window` is `readTimeline`'s page. `Open` is the effect of
`usePaginatedTimeline`, `LoadOlder` the function of that name, `Serve` the
gateway's and replica's answer, `TakeNewest` and `TakeOlder` the `then`
handlers, `Fail` the `catch` handlers, `Leave` an unmount, after which answers
of the workspace last shown still reach the cache. `answers` is history:
whether a visit took only answers of its own, or is "mixed".

### Tasks

`feed`, `cache` and `request` are `useLiveFeed`: `Fetch` is its effect,
`Answer` and `Fail` its handlers, with the key they compare. A reload keeps, loses
or sets back each entry of the cache on its own, as session storage may have
refused any one write. `tab` is
`TasksTab` (view, filters, picked task); `TopoOrder` is `topoOrder` over any
dependency graph, cycles included: `VisitEach` is its two loops, and `Visits` its
`visit`, a function of the tasks on the stack, the task and what is put out so far.
`strip` is
`TasksTimeline`: `OnScroll` asks for chunks, `Graft` is the render that adds
all of them with the layout effect that moves the view. Time and pixels share
one unit.

### Shell

`ui` is what the page shows: history, list, open panels, their busy flags and the
role menus left open in the popover; `net` the requests on their way, each with what
its caller does next and whether its component is still mounted. `Serve...` is the
gateway, `Take...` the handler in the browser, `Fail` a request that ends in an
error. A handler, the render it causes and that render's effects are one step.
`Press` is a button, which a busy panel disables. The trigger of a role menu is
disabled too, but the items of a menu that is open are not (`SharePopover.tsx:53`,
`:59-96`): `OpenMenu`, and `PickItem` with no look at the busy flag. "copy" is the
awaited write to the clipboard, after a link was minted or of the one at hand
(`SharePopover.tsx:157-176`), on its way like a request though no server sees it. A
reload keeps the writes the gateway has yet to handle ("gone"): they take effect and
answer nobody. `excused` is history: why a list may be behind (a failure; a change by
somebody else or by a page already left; an overtaken answer).

## 3. Runs

Nine runs pass and three show a violation. The constants are in the .cfg
files. A run checks what is not proved, or what the instance says more plainly
than a proof: properties that hold for every value of the constants by a theorem
of section 5 are left to it where the run would add nothing, the type invariants
of all modules but Lane and `MemoryWithinFile`, `UsesBounded` (a conjunct of
`MembersAccounted`), `PrivateIsSolo` and `ViewKept` among them. Each was checked with
TLC before it was proved.

`hub` runs three parts side by side: the relay with its writers, the rosters, and
signing in. They share no state, and in a behaviour only one of them moves (`part`),
so the states of the three add up instead of multiplying, and every behaviour of each
is explored as in a run of its own.

| Run | What it asks | Bounds, and why they are enough |
|---|---|---|
| `relay_torn` | under every kind of interrupted write: exact dedup index, queued pushes always end | 2 ids, 2 connections, 2 interrupted writes: a torn line, a batch glued to it, and a second tear of the repaired file |
| `relay_torn_tail` (violated) | is what was acknowledged recoverable? | as above, crashes only |
| `hub`, relay | failing writes, crashes and lost answers with two writers whose logs overlap: watermarks, durability, acknowledgement, the refinement of RelayLog | 3 ids, 2 writers, 2 connections, no reader, 1 interrupted write, cuts at line boundaries: one event is common to both logs, so duplicates and partial batches both arise |
| `hub`, rosters | last owner, teardown, accounting of members, dead invites, claims | 3 accounts, 1 store, 1 invite, 1 source store, 2 requests awaiting their bodies, limits 1, 2 and none: two demotions, a demotion and a leave, or two claims of one source store race, and an invite is exhausted, left and rejoined |
| `hub`, signing in | one account per person, kept for good, and undisturbed visits that arrive | 2 tabs, 2 identities, 3 addresses, 1 invitation, 1 page that stashes, 3 logins, 1 change of address, 1 loss, two migrated rows: one with a GitHub login, one that knew only an address |
| `login_migrated` (violated) | does a migrated row stay its person's? | as above, 2 losses |
| `relaysync_live` | a reader: no skipped event, delivery | 2 ids, 2 writers, 1 reader, 2 connections, 1 write interrupted by a crash |
| `access_keys` | single delivery, the first approval, no starvation, scopes that never widen, no key for a store left while its request awaited the body | 2 accounts, 1 store, 2 keys, 1 grant, 1 awaited request; interval 2, lifetime 3, clock to 4: polls fall inside and outside the interval, and the grant expires before the clock ends |
| `metering_pages` | is what is stored metered, are answers passed on, do pages fit | 1 account, 2 stores, 2 events, 2 calls, 3 days with a window of 1 day back, 1 fault |
| `lane_requests` | watermarks, order, freshness, attribution, arrival | 3 requests, 2 at once, 1 task, 2 members of whom 1 authors here, 3 moves: a task moves before, between and after the two reads of a board |
| `timeline_scroll` | foreign items, gaps in a visit's own pages, the end of history, scrolling and spinner | 2 workspaces, up to 4 ranks, pages of 1, 2 requests in flight, 2 changes, 3 visits: A, B, A again with both old requests in flight |
| `timeline_overtaken` (violated) | are the pages on screen contiguous, whatever answers a visit takes? | as above |
| `tasks_board` | own tasks, spinner, panel, order of rows, room in the strip | every graph of 3 tasks with every order of its lists, 2 workspaces, boards of 0, 2 and 3 tasks, 2 requests, 5 gestures, 3 chunks |
| `shell_panels` | busy flags, list and URL at rest, history | 2 workspaces of which 1 exists, 1 key, a history of 3, 2 requests, 1 menu left open, 5 gestures, 1 fault: two operations of the popover at once, and a write of a page already left, are both reached |

One store in the Workspace and Access runs suffices because no action relates
two workspaces. An instance of Workspace with two invites and no claims was
checked once beside these (1.5 million states) with the same outcome, and so was
one of Shell with six gestures and a history of two (2.3 million). Symmetry is
used only where no liveness is checked; `hub` names its connections, requests
and tabs by the same two values, which exchanges them in all three parts at
once. With two workers the longest runs take three minutes (`hub`, 1.3 million
states) and about two (`relay_torn`, `access_keys`, `metering_pages`).

### The violated runs

**A torn tail swallows the next batch** (`relay_torn_tail`, `store.ts:123`).
`hydrate` skips a torn last line but leaves it in the file without a newline;
the next `appendFile` continues it. The first event of that batch was answered
200, is served from memory, and is gone after the next restart: the opposite of
`docs/protocol/transport.md:93`.

**A hole in the timeline** (`timeline_overtaken`, `paginated-timeline.ts:49`). Leave a
workspace and return before its first fetch is answered: the guard compares the
workspace only, so the late answer passes and replaces the newest page under an older
one in flight, which is then merged below a gap. Lines 22-23 say "there is no
newest-refresh vs older-page race within a session", `timeline-page.ts:11-12` that a
late refresh cannot corrupt the history. `OwnPagesContiguous`, which passes and is
proved, is the part that does hold: visits that took only their own answers.

**A migrated row is lost** (`login_migrated`, `db.ts:135-136`). Rows migrated from
GitHub keep the GitHub login as `provider_sub`, so the Google identity is never
attached (`accounts.ts:18-31`), and the first login after a change of address makes a
second account. `db.ts:136` calls the rows harmless, `oauth.ts:87` the sub the
get-or-create key. What holds with such rows, and is checked and proved, is
`AccountKept`: nobody loses an account that carries the identity, and who began with a
GitHub row is given one other at most.

### Seen while modelling

These are what the code does; the models do it too, and the properties are
stated so that they hold beside it.

- *A workspace with a source store cannot be deleted.* `deleteStore`
  (`stores.ts:215-222`) leaves source_stores rows, whose foreign key
  (`db.ts:173`, enforced by `db.ts:250`) refuses the delete; the answer is 500
  from then on. `docs/protocol/workspace.md:357` says deleting "is always
  allowed for an owner".
- *Members without an owner.* A sole owner who is alone may leave
  (`stores.ts:174`); the invites live on, and the next to join is a member of a
  store nobody owns. `NeverOrphaned` therefore speaks of steps that take the
  last owner away.
- *A rejected append reorders the log* (`store.ts:123`). Lines of a rejected
  batch that did reach the file are unknown to memory until the restart, and
  then sort before events a reader has passed: its `?since=` skips them. Hence
  the hypothesis of `PullCorrect`.
- *A created workspace is left at once* (`App.tsx:407`). `onCreated` navigates
  before the list that holds the workspace has arrived, and the effect of
  `App.tsx:311-327` replaces the URL.
- *Two operations of one popover* (`SharePopover.tsx:59-96`). A role menu opened
  before "Copy link" stays usable while the link is minted; the first of the two
  operations to end clears busy while the other runs. `BusyIsRunning` asks of the
  popover only that it is not left busy with nothing on its way.
- *An unscoped key by filtering* (`account-api.ts:98-103`). A key request whose
  stores are all dropped by the membership filter is issued without scope rows,
  which means every store; `AccountSettings.tsx:181-182` promises otherwise.
  `ScopeNeverWidens` speaks of keys issued with scopes.
- A join retried after a lost 200 through an invite the first try exhausted
  answers 403, where `workspace.md:290` promises idempotence. A request acts on
  the authorization it had before its body arrived.
- A failure of an older request replaces newer items by an error page, though
  the cache has them (`live-feed.ts:80`, against lines 24-25). The member
  filter survives a switch of workspace (`TasksTab.tsx:29`). The roster of the
  workspace before stays until the new one arrives (`SharePopover.tsx:128`).
  `getMe` failing leaves "Loading..." for good (`App.tsx:284`).
- The anchor of `TimelineTab.tsx:80`, which keeps the scroll position, may be
  one of an earlier load.
- Two authors, or an author and a first read, both give a new lane a genesis
  (`author.ts:110`).
- `touchToken` stands outside the proxy's try (`proxy.ts:77`): its failure
  answers 500 for a push that was stored. The overview's counts are of another
  instant than its traffic (`overview.ts:115`). Sidecars' and deleted stores'
  traffic is billed to nobody.
- A `ProjectLog` whose hydrate rejected stays in the relay's map, and its
  project answers 500 until the process ends (`store.ts:71`).

## 4. Fairness

- Relay (`FairSpec`): weak fairness of the event loop's next step
  (`SkipDuplicates`, `BeginWrite`), of the pending disk write's outcome and of
  the restart by the supervisor and its host. Nothing is assumed of clients.
- RelaySync (`FairSyncSpec`): clients retry for ever and an exchange tried
  infinitely often succeeds infinitely often (strong fairness of push and
  pull), no connection hangs, and from some point on the process stays up. The
  last is needed: a relay killed each time before it reaches the second push of
  its queue delivers nothing.
- Timeline (`FairSpec`): every fetch settles, a page served and retried
  infinitely often arrives infinitely often, and the IntersectionObserver fires
  again after each load, as the effect in `TimelineTab.tsx` is re-run when
  `loadingOlder` changes. Nothing is assumed of the user.
- The other modules state no fairness. The proxy's and the browser's fetches
  have no timeout, so nothing in the code makes an answer come; what must
  eventually happen is stated there as a safety property instead (`SpinnerOwed`:
  the answer that ends a spinner is on its way; `IdleOnMine`: what holds once
  everything is answered).

## 5. Proofs

Eight modules, with no assumption beyond the ASSUMEs of the component's module
unless named here. Those say that bounds are numbers, that what stands for the
absence of something is none of the values beside it (in the code it is `null`,
or a row that is not there: `RowAssumption`, `NoneAssumption`, `SlotAssumption`,
`WatermarkAssumption`, `RequestAssumption`), that the stores the books are kept of are
finitely many (`StoresFinite`), and what the widths of the strip in the source satisfy
(`TasksAssumption`).

**RelayProofs.** Lemmas first: `NthEnumerates` (the k-th smallest element
enumerates a finite set of numbers in order), `KeptProperties` (the dedup loop
yields exactly the unknown ids of its input, each once), and what an append, an
interrupted append and a hydrate do to the file.
`IndexExact` is not inductive, since `FinishWrite` appends `writing` without
looking again: `IndexInv` adds that the batch being written is disjoint from
`seen` and free of duplicates. `QueueCorrect`: a connection is queued at most
once, so the head of the queue is a waiting push. `AcceptedCorrect`
(`AcceptedOnce`): `AcceptedInv` adds that what was reported as accepted is in
the index. With `Cuts = {"boundary"}`, `DurableInv` adds that the head's batch
is in `seen` or in `writing`, which carries the acknowledgement over the wait
for the disk: `DurabilityCorrect`, `ReadableCorrect`, `MemoryCorrect`. `LogCorrect`
proves the refinement: initial states map to initial states, and every step
appends to the hydrated file or leaves it (`HydratedGrows`, `HydratedPrefix`).
`OrderCorrect` needs `WriteMayFail = FALSE` too: `OrderInv` says that memory is
what a hydrate of the file would give, up to the write under way. The violated
run, and the reordering above, show that neither hypothesis can be dropped.

With the clients (RelaySync), `SyncIsRelay`: every behaviour of RelaySync is one of Relay,
so the theorems above hold under it. `WatermarkCorrect` rests on three
invariants: a push in flight belongs to the writer that sent it (`OwnerInv`), an
answer names ids of that push (`AnswerInv`), and a push is a stretch of its
writer's log that starts at or before its watermark (`StretchInv`), so the watermark
never jumps over an event not stored. `PullCorrect` (with `WriteMayFail = FALSE`)
through `GapFree`: a reader has a prefix of what the relay serves.

**WorkspaceProofs.** `OwnerCorrect` (no step takes the last owner from a store
that keeps members: the check is made where the effect is, after the await);
`UsesCorrect` and `DeadCorrect` through one lemma on what a step may do to an
invite; `ClaimsCorrect`; `TeardownCorrect`, inductive with the types;
`PrivateCorrect` through `InvitedIsShared`: an invite exists only of a shared
store. `MembersCorrect`: sums are sizes of sets of units (`Uses`), so that a join adds
one member and one unit, and the strengthening is that both sets are finite.

**AccountProofs**, Access, rests on `Steps`: what any step does to a grant's row and to the
keys. `DeliveryCorrect`: a grant whose key exists is gone and nothing revives it.
`ApprovalCorrect`, `IssueCorrect`; `ScopeCorrect` through `ScopesKept`: scope rows
are those of the issue. `PaceCorrect`: an approved grant was last granted a poll
before its approval, so a poll it refuses comes within an interval of that, and
the unit in which the wait grows too long is one the device has not polled in
(`PaceInv`).

Login (`LoginTypeCorrect`, `AccountCorrect`, `PersonsCorrect`), for any rows migration
v3 left, with a GitHub login or without. The invariant (`AccountsOK`, with what the
browser holds): addresses at Google are apart, and retired ones are nobody's
(`AddressesOK`); rows differ in address and identity, and a row that carries an
identity has an address the identity has or had (`RowsOK`); the row an identity was
first given carries the identity or a GitHub login, another row carries the identity
only in the second case, and nobody is given another's (`FirstOK`); the session names
a row of its identity (`SessionOK`). That Google never gives
an address to another person is assumed of `ChangeAddress`. `ArrivalCorrect`
(`UndisturbedArrives`) follows a visit through its redirects (`Arriving`): while it has the
cookies for itself, the state in its URL is the state cookie's, and the stash is the one
it left or nothing.

**MeteringProofs.** `AnswerCorrect` (`AnswerPassedOn`): each call, by its phase, has
the status the relay answered or none, and a push past "sent" is in the relay's
set, which only grows (`CallsOK`). `MeteredCorrect` (`StoredIsMetered`): a sum of metered
traffic is the size of a set of units (`Total`), and each step is one of five effects on
the books of a store (`Effect`: nothing new, one push stored, one metered, one or all
given up), of which each keeps them balanced (`EffectKeepsBooks`). `PageCorrect`
(`PageCovers`): the sizes gathered so far are at most what the relay holds now, and what
is metered is not taken back, so the figures of two moments fit. `TypeCorrect`.

**LaneProofs** (`TypeCorrect`, `WatermarksCorrect`, `OrderCorrect`, `ReadCorrect`,
`AttributionCorrect`, `AuthoredCorrect`). Lemmas first, on what filters a sequence: `Nth`
enumerates a finite set of positions in order, so that `Picked` keeps order and
multiplicity, and `Fresh` (what a pull inserts) and `Owned` (what a push sends) are what
they are meant to be; `Ordered` (the moves of a log are a prefix of the moves made) is
kept by inserting a stretch of such a log (`OrderedInsert`); `Views` ties the cards projected
from a log to the number of moves it holds. A watermark alone is not inductive, since a
request writes back the sync file it read before its awaits: `IInv` says of the file and of
every copy a request carries that it covers what precedes its watermarks (`Covers`),
of a pull under way that its batch follows on what the lane holds (`Fetched`,
`Inserted`), of a push that batch and relay together hold all that was appended here up to
some place (`Sent`, `Stored`), and of a board that it shows what the log held when it was
asked for (`Shown`). Log and lane only grow, so each part survives what other
requests do (`RequestStays`).

**TimelineProofs.** `IInv` describes every page on its way and on screen by what it
leaves out: a newest page shows everything above its lowest item, an older page
everything between its lowest item and its cursor, and both, when they say so, the
end; pages stay right while items are added and retracted because only what was
held throughout counts (`Live`). From it `OwnItemsCorrect`, `ContiguousCorrect`,
`EndCorrect`.

**TasksProofs.** `FeedOK` ties feed, cache and requests (`FeedCorrect`,
`SpinnerCorrect`, `PanelCorrect`, together `ScreenCorrect`); `StripOK` adds to `RoomToPan` that a side without
room has a chunk on its way, and that the window is never narrower than the view
and two edges (`PlaceCorrect`, `RoomCorrect`). That a set of tasks has an earliest
and a latest instant is `LeastTask`, by the well-foundedness of strict inclusion.
`ArrowsCorrect` is about the recursive search. Induction is put as a statement on sets
(`UpTo`, `StackInduction`: a least counterexample), since it cannot take a predicate.
First, that the recursions are what they say: the loop's equation has a solution by its
prefixes (`LoopExists`, `LoopRuns`), `visit`'s by how many tasks are off the stack
(`VisitsExist`, `VisitsRun`). Then, what they put out: `Fine` says that every task is put out
once, and after each predecessor but those that wait for it. A visit keeps that,
loses nothing, puts out nothing that is on the stack, and puts out its task unless it is
on the stack (`Does`), provided all tasks on the stack wait for it: a predecessor that is
passed over is then on the stack, so it waits for the task and the arrow is part of a
cycle (`VisitDoes`, with `NeedsPredecessors`). The outer loop starts with nothing on the
stack and visits all (`RowsFine`).

**ShellProofs** (`TypeCorrect`, `BusyCorrect`, `IdleCorrect`, `HistoryCorrect`). Every
handler ends in a render, so
the invariant `Ready` is stated of any page and any requests, each action is shown to hand
the render a page and requests for which it holds, and `RenderReady` does the rest: it
reconciles the URL, unmounts, orphans and loads. `RunsMatch`
is `BusyIsRunning` by slots (a panel without menus has one operation and is busy
exactly then; the popover, once busy, has one on its way), and needs `Fits`: who sends
an operation and what follows its answer. `ListOK` and `KeysOK` say of a list on display that it is true, or excused, or
asked for, or that an answer on its way will make the browser ask (a leave, a creation,
an issued or revoked key), or that a newer one is coming; and of the newest one coming
that it is true or will be asked for again (`Honest`). The last clause is what makes it
inductive: a list served before a leave was is new and wrong at once.

**Only model-checked.** Liveness (`QueueDrains`, `Delivery`, `ScrollEnds`),
which the prover cannot do under fairness. Every invariant and action property of a
passing run has its theorem.

## 6. Abstractions that matter

- Relay: a restart is open and hydrate of the project; the process death keeps
  the page cache, so a power loss (`appendFile` does not fsync) is outside.
- Workspace, Access and Metering each have their own view of memberships, the
  widest one their properties need.
- React's delay between an update and its render is left out but for the strip,
  where several updates meet in one render.
- Shell reduces the roster to its being there, and Metering's overview to
  totals: top-N lists and labels carry no property.
- Timeline orders items by rank; the text of a memory is left out.

## 7. Not modelled

Routing, parsing and the status codes of requests refused before any state is
read; `labelMembers`; bytes that go out; the read_only scope; rendering; static
files. Read errors of `events.ndjson` other than ENOENT. Migrations run once, each
in a transaction, before the server listens; what they may leave behind is in
`Login`'s `Old`. `gateway-legacy` is kept for reference and is outside the
workspace, the build and the tests. The supervisor only starts processes; the
crash and restart it causes are actions of Relay and Metering.

## 8. What is left

1. Liveness of the web surfaces under an assumed timeout of fetch, should the
   code gain one.
2. Shell's `excused` covers every failure alike; a finer one would tell the failures
   after which the page still ends on the account's workspaces.
