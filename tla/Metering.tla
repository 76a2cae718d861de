------------------------------ MODULE Metering ------------------------------
(***************************************************************************)
(* The gateway's data plane and what the operator reads off it: events     *)
(* calls proxied to the relay, their metering per store and day, and the   *)
(* overview and billing pages, which set the relay's sizes beside it.      *)
(* Source: packages/gateway/src/proxy.ts, usage.ts, overview.ts, web.ts    *)
(* (handleAdmin); packages/relay/src/store.ts (stats).                     *)
(*                                                                         *)
(* A proxied call is one action per await: the body, the relay's answer    *)
(* (fetch), its text. The database is synchronous and outlives a crash of  *)
(* the gateway; the relay is RelayLog's, a set of events that only grows,  *)
(* and may serve a call whose gateway has given it up. An event weighs one *)
(* byte; names, memberships, egress and the top-N cut carry no property.   *)
(***************************************************************************)
EXTENDS Integers, FiniteSets

CONSTANTS
  Accounts, Stores,
  Events,     \* what clients push, one event to a call
  Calls,      \* proxied calls on their way
  None,
  Days,       \* the days the window reaches back (7 in the code)
  MaxDay,     \* bound: the last day
  MaxCalls,   \* bound: calls begun
  MaxFaults   \* bound: calls cut off, statements that fail, crashes

ASSUME MeteringAssumption ==
  /\ None \notin Accounts \cup Stores \cup Events \cup Nat
  /\ Days \in Nat /\ MaxDay \in Nat /\ MaxCalls \in Nat /\ MaxFaults \in Nat

(* Ids have a fixed length.                                                *)
ASSUME StoresFinite == IsFiniteSet(Stores)

VARIABLES
  row,      \* stores, personal_stores and derived_stores: whose a store is
  stored,   \* the events in the relay's file of each store
  usage,    \* usage_daily: requests and bytes in, per day and store
  call,
  page,     \* the operator's page: being gathered, or on the screen
  day,      \* the UTC day
  missed,   \* history: pushes per store that may be stored and unmetered
  begun, faults

vars == <<row, stored, usage, call, page, day, missed, begun, faults>>

(* A store's row, of one of three tables; ids are random, so the id of a   *)
(* deleted store is never minted again.                                    *)
Row == [kind : {"unminted", "workspace", "personal", "sidecar", "deleted"},
        by : Accounts \cup {None}, parent : Stores \cup {None}]

NoRow(kind) == [kind |-> kind, by |-> None, parent |-> None]

(* An event of None is a pull. "orphan" is a call the relay still has and  *)
(* the gateway gave up. relay is the status the relay answered with, and   *)
(* status the one the client got.                                          *)
Call ==
  [phase : {"body", "sent", "applied", "text", "orphan", "done"},
   store : Stores, event : Events \cup {None},
   relay : {200, 500, None}, whole : BOOLEAN, status : {200, 400, 500, 502, None}]

(* A slot with no call in it holds no call.                                *)
ASSUME SlotAssumption == None \notin Call

(* A page being gathered knows since when it counts and which stores the   *)
(* relay has yet to look at; a page shown has its figures.                 *)
Page ==
  [kind : {"overview", "billing"}, now : Nat, left : SUBSET Stores,
   sizes : [Stores -> Nat], shown : BOOLEAN, reachable : BOOLEAN,
   stored : [Accounts \cup {None} -> Nat], ingress : [Accounts \cup {None} -> Nat],
   late : [Accounts \cup {None} -> Nat]]

Init ==
  /\ row = [s \in Stores |-> NoRow("unminted")]
  /\ stored = [s \in Stores |-> {}]
  /\ usage = [d \in 0..MaxDay |-> [s \in Stores |-> [requests |-> 0, in |-> 0]]]
  /\ call = [c \in Calls |-> None] /\ page = None
  /\ day = 0 /\ missed = [s \in Stores |-> 0] /\ begun = 0 /\ faults = 0

-----------------------------------------------------------------------------
CreateWorkspace(a, s) ==
  /\ row[s].kind = "unminted"
  /\ row' = [row EXCEPT ![s] = [kind |-> "workspace", by |-> a, parent |-> None]]
  /\ UNCHANGED <<stored, usage, call, page, day, missed, begun, faults>>

(* An account has one personal store, provisioned on first use.            *)
GetOrCreatePersonalStore(a, s) ==
  /\ row[s].kind = "unminted"
  /\ \A t \in Stores : ~(row[t].kind = "personal" /\ row[t].by = a)
  /\ row' = [row EXCEPT ![s] = [kind |-> "personal", by |-> a, parent |-> None]]
  /\ UNCHANGED <<stored, usage, call, page, day, missed, begun, faults>>

(* A workspace or personal store has one sidecar.                          *)
GetOrCreateDerivedStore(p, s) ==
  /\ row[s].kind = "unminted" /\ row[p].kind \in {"workspace", "personal"}
  /\ \A t \in Stores : ~(row[t].kind = "sidecar" /\ row[t].parent = p)
  /\ row' = [row EXCEPT ![s] = [kind |-> "sidecar", by |-> None, parent |-> p]]
  /\ UNCHANGED <<stored, usage, call, page, day, missed, begun, faults>>

(* The workspace's row and its sidecar's go; their events stay at the      *)
(* relay and their usage stays in the table.                               *)
DeleteWorkspace(w) ==
  /\ row[w].kind = "workspace"
  /\ row' = [s \in Stores |->
       IF s = w \/ row[s].parent = w THEN NoRow("deleted") ELSE row[s]]
  /\ UNCHANGED <<stored, usage, call, page, day, missed, begun, faults>>

NextDay ==
  /\ day < MaxDay /\ day' = day + 1
  /\ UNCHANGED <<row, stored, usage, call, page, missed, begun, faults>>

-----------------------------------------------------------------------------
Idle(c) == call[c] # None => call[c].phase = "done"

At(c, phase) == call[c] # None /\ call[c].phase = phase

IsPush(c) == call[c].event # None

Live(s) == row[s].kind \in {"workspace", "personal", "sidecar"}

(* handleEventsProxy up to its first await: the key may reach the store    *)
(* (Access says which keys do). A push waits for its body, a pull is       *)
(* forwarded at once.                                                      *)
Begin(c, s, e) ==
  /\ Idle(c) /\ Live(s) /\ begun < MaxCalls
  /\ call' = [call EXCEPT ![c] =
       [phase |-> IF e = None THEN "sent" ELSE "body", store |-> s, event |-> e,
        relay |-> None, whole |-> FALSE, status |-> None]]
  /\ begun' = begun + 1
  /\ UNCHANGED <<row, stored, usage, page, day, missed, faults>>

Moves(c, phase) == call' = [call EXCEPT ![c].phase = phase]

(* The gateway answers of itself, with nothing the relay said.             *)
Answers(c, status) ==
  call' = [call EXCEPT ![c] = [@ EXCEPT !.phase = "done", !.relay = None, !.status = status]]

(* The client gets an answer the gateway has in whole.                     *)
Passes(c, status) ==
  call' = [call EXCEPT ![c] = [@ EXCEPT !.phase = "done", !.whole = TRUE, !.status = status]]

BodyArrives(c) ==
  /\ At(c, "body") /\ Moves(c, "sent")
  /\ UNCHANGED <<row, stored, usage, page, day, missed, begun, faults>>

(* Too large (413) or cut off (400): nothing is forwarded.                 *)
BodyRefused(c) ==
  /\ At(c, "body") /\ Answers(c, 400)
  /\ UNCHANGED <<row, stored, usage, page, day, missed, begun, faults>>

(* A pushed event is on the relay's disk.                                  *)
Written(c) ==
  stored' = IF IsPush(c) THEN [stored EXCEPT ![call[c].store] = @ \cup {call[c].event}]
            ELSE stored

(* The relay serves the call: a pushed event is stored once.               *)
RelayApplies(c) ==
  /\ At(c, "sent")
  /\ Written(c)
  /\ call' = [call EXCEPT ![c] = [@ EXCEPT !.phase = "applied", !.relay = 200]]
  /\ UNCHANGED <<row, usage, page, day, missed, begun, faults>>

Fault == faults < MaxFaults /\ faults' = faults + 1

(* The relay's disk write fails, or the body is not a push: it answers an  *)
(* error (500 stands for both). A write that fails may leave its part.     *)
RelayRefuses(c) ==
  /\ At(c, "sent") /\ Fault
  /\ Written(c) \/ UNCHANGED stored
  /\ call' = [call EXCEPT ![c] = [@ EXCEPT !.phase = "applied", !.relay = 500]]
  /\ UNCHANGED <<row, usage, page, day, missed, begun>>

(* The fetch resolves, and the key is stamped as used (touchToken).        *)
RelayAnswers(c) ==
  /\ At(c, "applied") /\ Moves(c, "text")
  /\ UNCHANGED <<row, stored, usage, page, day, missed, begun, faults>>

Bytes(c) == IF IsPush(c) THEN 1 ELSE 0

(* Mutant of RecordUsage: the conflict replaces the row.                   *)
RecordUsageAnew(c) ==
  usage' = [usage EXCEPT ![day][call[c].store] = [requests |-> 1, in |-> Bytes(c)]]

(* Today's row of the store is created or added to.                        *)
RecordUsage(c) ==
  usage' = [usage EXCEPT ![day][call[c].store] =
              [requests |-> @.requests + 1, in |-> @.in + Bytes(c)]]

(* The text is in: the call is metered, and the client gets the answer.    *)
Meter(c) ==
  /\ At(c, "text")
  /\ RecordUsage(c)
  /\ Passes(c, call[c].relay)
  /\ UNCHANGED <<row, stored, page, day, missed, begun, faults>>

Misses(s, n) == missed' = [missed EXCEPT ![s] = @ + n]

(* Mutant of MeterFails: the failure of the statement is not caught.       *)
MeterFailsLoud(c) ==
  /\ At(c, "text") /\ Fault /\ Misses(call[c].store, Bytes(c))
  /\ Passes(c, 500)
  /\ UNCHANGED <<row, stored, usage, page, day, begun>>

(* The statement fails (locked, full): logged, and the answer passes.      *)
MeterFails(c) ==
  /\ At(c, "text") /\ Fault /\ Misses(call[c].store, Bytes(c))
  /\ Passes(c, call[c].relay)
  /\ UNCHANGED <<row, stored, usage, page, day, begun>>

(* The fetch rejects: 502, though the relay may have stored the push or    *)
(* may do so yet.                                                          *)
FetchFails(c) ==
  /\ Fault
  /\ \/ /\ At(c, "sent")
        /\ call' = [call EXCEPT ![c] = [@ EXCEPT !.phase = "orphan", !.status = 502]]
        /\ UNCHANGED missed
     \/ At(c, "applied") /\ Answers(c, 502) /\ Misses(call[c].store, Bytes(c))
  /\ UNCHANGED <<row, stored, usage, page, day, begun>>

(* touchToken throws, or the text is cut off: neither is caught here, and  *)
(* the server's catch-all answers 500 for a push the relay has stored.     *)
AnswerCut(c) ==
  /\ At(c, "applied") \/ At(c, "text")
  /\ Fault /\ Answers(c, 500) /\ Misses(call[c].store, Bytes(c))
  /\ UNCHANGED <<row, stored, usage, page, day, begun>>

OrphanApplies(c) ==
  /\ At(c, "orphan") /\ Answers(c, call[c].status)
  /\ Written(c)
  /\ Misses(call[c].store, Bytes(c))
  /\ UNCHANGED <<row, usage, page, day, begun, faults>>

OrphanLost(c) ==
  /\ At(c, "orphan") /\ Answers(c, call[c].status)
  /\ UNCHANGED <<row, stored, usage, page, day, missed, begun, faults>>

(* Pushes the relay has answered and the gateway has yet to meter.         *)
Answered(s) == { c \in Calls :
  (At(c, "applied") \/ At(c, "text")) /\ IsPush(c) /\ call[c].store = s }

InFlight(s) == Cardinality(Answered(s))

(* The gateway dies with its calls and its page; what it had sent may      *)
(* still reach the relay.                                                  *)
Crash ==
  /\ Fault /\ page' = None
  /\ call' = [c \in Calls |->
       IF At(c, "sent") \/ At(c, "orphan") THEN [call[c] EXCEPT !.phase = "orphan"] ELSE None]
  /\ missed' = [s \in Stores |-> missed[s] + InFlight(s)]
  /\ UNCHANGED <<row, stored, usage, day, begun>>

-----------------------------------------------------------------------------
Nobody == [a \in Accounts \cup {None} |-> 0]

NoSizes == [s \in Stores |-> 0]

(* GET /admin and /admin/billing: `now` is taken as the gathering starts,  *)
(* and the relay is asked for its sizes.                                   *)
OpenPage(kind) ==
  /\ page # None => page.shown
  /\ page' = [kind |-> kind, now |-> day, left |-> Stores, sizes |-> NoSizes,
              shown |-> FALSE, reachable |-> TRUE,
              stored |-> Nobody, ingress |-> Nobody, late |-> Nobody]
  /\ UNCHANGED <<row, stored, usage, call, day, missed, begun, faults>>

Gathering == page # None /\ ~page.shown

(* stats looks at one file after the other, while pushes go on.            *)
Stats(s) ==
  /\ Gathering /\ page.reachable /\ s \in page.left
  /\ page' = [page EXCEPT !.left = @ \ {s}, !.sizes[s] = Cardinality(stored[s])]
  /\ UNCHANGED <<row, stored, usage, call, day, missed, begun, faults>>

(* Relay unreachable: the page is made without sizes.                      *)
StatsFail ==
  /\ Gathering /\ Fault
  /\ page' = [page EXCEPT !.left = {}, !.sizes = NoSizes, !.reachable = FALSE]
  /\ UNCHANGED <<row, stored, usage, call, day, missed, begun>>

(* Mutant of Since: the first day of the window is left out.               *)
SinceAfter(now) == { d \in 0..MaxDay : d > now - Days }

(* usageSince: the days the page counts.                                   *)
Since(now) == { d \in 0..MaxDay : d >= now - Days }

(* SUM: f[x] units for every x of S.                                       *)
Units(f, S) == UNION { {x} \X (1..f[x]) : x \in S }

Total(f, S) == Cardinality(Units(f, S))

Ingress(s, days) == Total([d \in 0..MaxDay |-> usage[d][s].in], days)

(* What a page made now may lack of a store: calls not metered, calls not  *)
(* metered yet, and days before its window.                                *)
Late(s) ==
  missed[s] + InFlight(s) + Ingress(s, { d \in 0..MaxDay : d < page.now - Days })

(* A workspace is billed to its creator, a personal store to its account;  *)
(* sidecars and deleted stores to nobody.                                  *)
BilledTo(a) == { s \in Stores : row[s].kind \in {"workspace", "personal"} /\ row[s].by = a }

(* The figures of a page, where under[a] are the stores counted under a.   *)
Shown(under) ==
  LET sum(f) == [a \in Accounts \cup {None} |-> Total(f, under[a])]
  IN  page' = [page EXCEPT !.shown = TRUE, !.now = 0, !.sizes = NoSizes,
        !.stored = sum(page.sizes),
        !.ingress = sum([s \in Stores |-> Ingress(s, Since(page.now))]),
        !.late = sum([s \in Stores |-> Late(s)])]

(* The relay's answer is in; everything else is read at this moment.       *)
GatherBilling ==
  /\ Gathering /\ page.kind = "billing" /\ page.left = {}
  /\ Shown([a \in Accounts \cup {None} |-> IF a = None THEN {} ELSE BilledTo(a)])
  /\ UNCHANGED <<row, stored, usage, call, day, missed, begun, faults>>

(* The overview's totals are over every store there ever was.              *)
GatherOverview ==
  /\ Gathering /\ page.kind = "overview" /\ page.left = {}
  /\ Shown([a \in Accounts \cup {None} |-> IF a = None THEN Stores ELSE {}])
  /\ UNCHANGED <<row, stored, usage, call, day, missed, begun, faults>>

-----------------------------------------------------------------------------
Next ==
  \/ \E a \in Accounts, s \in Stores : CreateWorkspace(a, s) \/ GetOrCreatePersonalStore(a, s)
  \/ \E p, s \in Stores : GetOrCreateDerivedStore(p, s)
  \/ \E s \in Stores : DeleteWorkspace(s)
  \/ NextDay
  \/ \E c \in Calls :
       \/ \E s \in Stores, e \in Events \cup {None} : Begin(c, s, e)
       \/ BodyArrives(c) \/ BodyRefused(c)
       \/ RelayApplies(c) \/ RelayAnswers(c) \/ Meter(c)
       \/ RelayRefuses(c) \/ FetchFails(c) \/ AnswerCut(c) \/ MeterFails(c)
       \/ OrphanApplies(c) \/ OrphanLost(c)
  \/ Crash
  \/ \E k \in {"overview", "billing"} : OpenPage(k)
  \/ \E s \in Stores : Stats(s)
  \/ StatsFail \/ GatherBilling \/ GatherOverview

Spec == Init /\ [][Next]_vars

-----------------------------------------------------------------------------
(* Each variable has its type.                                             *)
TypeOK ==
  /\ row \in [Stores -> Row] /\ stored \in [Stores -> SUBSET Events]
  /\ usage \in [0..MaxDay -> [Stores -> [requests : Nat, in : Nat]]]
  /\ call \in [Calls -> Call \cup {None}] /\ page \in Page \cup {None}
  /\ day \in 0..MaxDay /\ missed \in [Stores -> Nat]
  /\ begun \in 0..MaxCalls /\ faults \in 0..MaxFaults

(* Whatever the relay holds was paid for: each stored byte of a store was  *)
(* metered, is about to be, or its call ended in a fault (usage.ts:26).    *)
StoredIsMetered ==
  \A s \in Stores :
    Cardinality(stored[s]) <= Ingress(s, 0..MaxDay) + InFlight(s) + missed[s]

(* "a metering failure must never break the proxied response"              *)
(* (proxy.ts:81-82): a client whose push the relay stored and answered in  *)
(* whole is told so, and one that is told so finds its event at the relay. *)
AnswerPassedOn ==
  \A c \in Calls : At(c, "done") /\ call[c].whole =>
    /\ call[c].status = call[c].relay
    /\ call[c].status = 200 /\ IsPush(c) => call[c].event \in stored[call[c].store]

(* A page shows no more stored than came in, for any account billed or in  *)
(* total: its sizes are taken before its traffic is read, so what pushes   *)
(* bring in between can only be counted as traffic, and creations,         *)
(* deletions and midnight in between leave both sides the same stores.     *)
PageCovers ==
  page # None /\ page.shown =>
    \A a \in Accounts \cup {None} : page.stored[a] <= page.ingress[a] + page.late[a]
=============================================================================
