-------------------------------- MODULE Lane --------------------------------
(***************************************************************************)
(* The replica's store of one workspace, the lane: reads of its tasks pull *)
(* the workspace's log into it and project it, and authors append to it    *)
(* and push. Requests share the lane and its sync file and interleave at   *)
(* every await; authors run in processes of their own.                     *)
(* Source: packages/replica/src (workspace.ts, read-lane.ts, author.ts,    *)
(* tasks.ts, server.ts, cli.ts), packages/gateway/src/timeline.ts. The     *)
(* store, pushProject and pullProject are the memorize engine, which is    *)
(* outside this repository.                                                *)
(*                                                                         *)
(* The workspace's log at the relay is RelayLog's: it only grows. Other    *)
(* clients' events reach it at any time.                                   *)
(***************************************************************************)
EXTENDS Integers, SequencesExt, FiniteSetsExt

CONSTANTS
  Slots,        \* requests served at once
  Tasks, Members,
  Authors,      \* members who author here
  Moved,        \* what other clients do: member, task and whether it starts
  MaxRequests,  \* bound: requests made
  None          \* no watermark, no file, no author, the lane itself

ASSUME LaneAssumption ==
  /\ Authors \subseteq Members /\ MaxRequests \in Nat
  /\ Moved \in Seq([by : Members, task : Tasks, starts : BOOLEAN])
  /\ None \notin Tasks \cup Members \cup Int

VARIABLES
  hub,     \* the workspace's log at the relay
  lane,    \* the lane's events in insertion order
  own,     \* those appended here, which a push may send
  opened,  \* memorize.db exists
  sync,    \* the sync file: the two watermarks
  req,     \* the request in each slot
  asked    \* requests made so far

vars == <<hub, lane, own, opened, sync, req, asked>>

(* `n` tells events apart: the request's number for the two an author      *)
(* appends, the move's number for a task event, 0 for the anchor.          *)
Event == [type : {"task", "memory", "genesis", "anchor"}, n : Nat,
          by : Members \cup {None}, task : Tasks \cup {None}, starts : BOOLEAN]

Move(n) == [type |-> "task", n |-> n, by |-> Moved[n].by, task |-> Moved[n].task,
            starts |-> Moved[n].starts]
Memory(r) == [type |-> "memory", n |-> r.n, by |-> r.by, task |-> None, starts |-> FALSE]
Genesis(r) == [Memory(r) EXCEPT !.type = "genesis"]
Anchor == [type |-> "anchor", n |-> 0, by |-> None, task |-> None, starts |-> FALSE]

(* No watermark is no event.                                               *)
ASSUME WatermarkAssumption == None \notin Event

(* A watermark is the event it names.                                      *)
Watermark == Event \cup {None}
Sync == [pulled : Watermark, pushed : Watermark]
Unbound == [pulled |-> None, pushed |-> None]

(* `at` is what the request does next. `file` is the sync file it read,    *)
(* `batch` events on their way, `read` how many events readEvents gave,    *)
(* `began` (a history) the length of the log when it started, `cards` its  *)
(* answer.                                                                 *)
Reads == {"bind", "rebind", "ensure", "anchor", "pull", "insert", "settle", "read", "project", "shown"}
Writes == {"genesis", "append", "bind", "rebind", "push", "arrive", "settle", "told"}
Card == [moves : Nat, member : Members \cup {None}, started : Nat \cup {None}]
Request == [at : {"idle"} \cup Reads \cup Writes, n : Nat, by : Members \cup {None},
            file : Sync \cup {None}, batch : Seq(Event), read : Nat, began : Nat,
            cards : [Tasks -> Card] \cup {None}]

Idle == [at |-> "idle", n |-> 0, by |-> None, file |-> None, batch |-> << >>,
         read |-> 0, began |-> 0, cards |-> None]

Init ==
  /\ hub = << >> /\ lane = << >> /\ own = {}
  /\ opened = FALSE /\ sync = None
  /\ req = [s \in Slots |-> Idle] /\ asked = 0

-----------------------------------------------------------------------------
(* The k-th smallest of some places, and what a log holds at them.         *)
Nth(P, k) == CHOOSE i \in P : Cardinality({ j \in P : j <= i }) = k
Picked(log, P) == [k \in 1..Cardinality(P) |-> log[Nth(P, k)]]

(* The engine.                                                             *)
Fresh(log, events) ==
  Picked(events, { i \in DOMAIN events :
    events[i] \notin ToSet(log) /\ \A j \in 1..(i - 1) : events[j] # events[i] })
After(log, w) ==
  IF w \in ToSet(log) THEN SubSeq(log, 1 + Max({ i \in DOMAIN log : log[i] = w }), Len(log)) ELSE log
File == IF sync = None THEN Unbound ELSE sync

TaskPlaces(log) == { i \in DOMAIN log : log[i].type = "task" }
TaskMoves(log, t) == { i \in DOMAIN log : log[i].task = t }
TaskStarts(log, t) == { i \in TaskMoves(log, t) : log[i].starts }
TaskEvents(log) == Picked(log, TaskPlaces(log))

(* Every step of a request: it goes on to `at`.                            *)
Goes(s, r) == req' = [req EXCEPT ![s] = r]
At(s, at) == req[s].at = at
IsRead(s) == req[s].by = None

(* GET .../tasks, forwarded once the gateway authorized the caller.        *)
AskTasks(s) ==
  /\ At(s, "idle") /\ asked < MaxRequests
  /\ asked' = asked + 1
  /\ Goes(s, [Idle EXCEPT !.at = "bind", !.began = Len(hub)])
  /\ UNCHANGED <<hub, lane, own, opened, sync>>

(* hub-replica author-memory, once whoami told the key's account: is there *)
(* a store yet? A read-only key, or a memory that is not valid, changes    *)
(* nothing.                                                                *)
AskAuthor(s, m) ==
  /\ At(s, "idle") /\ asked < MaxRequests
  /\ asked' = asked + 1
  /\ Goes(s, [Idle EXCEPT !.at = IF opened THEN "append" ELSE "genesis", !.n = asked + 1, !.by = m])
  /\ UNCHANGED <<hub, lane, own, opened, sync>>

(* Mutant of Appends: the store takes it later.                            *)
AppendsLater(e) ==
  /\ own' = own \cup {e}
  /\ opened' = TRUE
  /\ UNCHANGED lane

(* appendEvent.                                                            *)
Appends(e) ==
  /\ lane' = Append(lane, e)
  /\ own' = own \cup {e}
  /\ opened' = TRUE

AppendGenesis(s) ==
  /\ At(s, "genesis")
  /\ Appends(Genesis(req[s]))
  /\ Goes(s, [req[s] EXCEPT !.at = "append"])
  /\ UNCHANGED <<hub, sync, asked>>

AppendMemory(s) ==
  /\ At(s, "append")
  /\ Appends(Memory(req[s]))
  /\ Goes(s, [req[s] EXCEPT !.at = "bind"])
  /\ UNCHANGED <<hub, sync, asked>>

(* bindWorkspaceStore reads the sync file, ...                             *)
BindRead(s) ==
  /\ At(s, "bind")
  /\ Goes(s, [req[s] EXCEPT !.at = "rebind", !.file = File])
  /\ UNCHANGED <<hub, lane, own, opened, sync, asked>>

(* Mutant of BindWrite: the two watermarks are mixed up.                   *)
BindWriteSwapped(s) ==
  /\ At(s, "rebind")
  /\ sync' = [pulled |-> req[s].file.pushed, pushed |-> req[s].file.pulled]
  /\ Goes(s, [req[s] EXCEPT !.at = IF IsRead(s) THEN "ensure" ELSE "push", !.file = None])
  /\ UNCHANGED <<hub, lane, own, opened, asked>>

(* ... and writes it back, watermarks as they were when it was read.       *)
BindWrite(s) ==
  /\ At(s, "rebind")
  /\ sync' = req[s].file
  /\ Goes(s, [req[s] EXCEPT !.at = IF IsRead(s) THEN "ensure" ELSE "push", !.file = None])
  /\ UNCHANGED <<hub, lane, own, opened, asked>>

(* ensureLaneProject opens the store and looks for a genesis, ...          *)
Ensure(s) ==
  /\ At(s, "ensure")
  /\ opened' = TRUE
  /\ Goes(s, [req[s] EXCEPT !.at =
       IF \E e \in ToSet(lane) : e.type \in {"genesis", "anchor"} THEN "pull" ELSE "anchor"])
  /\ UNCHANGED <<hub, lane, own, sync, asked>>

(* ... and inserts its own, whose id is always the same, not to be pushed. *)
InsertAnchor(s) ==
  /\ At(s, "anchor")
  /\ lane' = lane \o Fresh(lane, <<Anchor>>)
  /\ Goes(s, [req[s] EXCEPT !.at = "pull"])
  /\ UNCHANGED <<hub, own, opened, sync, asked>>

(* Mutant of Pull: the watermark moves before the events are in.           *)
PullEagerly(s) ==
  /\ At(s, "pull")
  /\ LET batch == After(hub, File.pulled)
     IN  /\ sync' = IF batch = << >> THEN sync ELSE [File EXCEPT !.pulled = Last(batch)]
         /\ Goes(s, [req[s] EXCEPT !.at = "insert", !.batch = batch])
  /\ UNCHANGED <<hub, lane, own, opened, asked>>

(* pullProject asks for what follows its watermark; the relay answers, ... *)
Pull(s) ==
  /\ At(s, "pull")
  /\ Goes(s, [req[s] EXCEPT !.at = "insert", !.batch = After(hub, File.pulled)])
  /\ UNCHANGED <<hub, lane, own, opened, sync, asked>>

(* Mutant of Insert: what the lane holds already is inserted again.        *)
InsertAll(s) ==
  /\ At(s, "insert")
  /\ lane' = lane \o req[s].batch
  /\ Goes(s, [req[s] EXCEPT !.at = "settle"])
  /\ UNCHANGED <<hub, own, opened, sync, asked>>

(* ... the events are inserted (INSERT OR IGNORE), ...                     *)
Insert(s) ==
  /\ At(s, "insert")
  /\ lane' = lane \o Fresh(lane, req[s].batch)
  /\ Goes(s, [req[s] EXCEPT !.at = "settle"])
  /\ UNCHANGED <<hub, own, opened, sync, asked>>

(* ... and only then the watermark moves. The sync.state.updated event that*)
(* the engine appends to the lane (workspace.ts:34) is left out: readTasks *)
(* passes over its type, and it moves no task. Reading and writing the     *)
(* sync file inside the engine is one step, here and in SettlePush.        *)
SettlePull(s) ==
  /\ At(s, "settle") /\ IsRead(s)
  /\ sync' = IF req[s].batch = << >> THEN sync ELSE [File EXCEPT !.pulled = Last(req[s].batch)]
  /\ Goes(s, [req[s] EXCEPT !.at = "read", !.batch = << >>])
  /\ UNCHANGED <<hub, lane, own, opened, asked>>

Owned(log) == Picked(log, { i \in DOMAIN log : log[i] \in own })

(* Mutant of PushBatch: what follows the pull watermark.                   *)
PushBatchPulled == Owned(After(lane, File.pulled))

(* pushProject sends what was appended here after its watermark.           *)
PushBatch == Owned(After(lane, File.pushed))

Push(s) ==
  /\ At(s, "push")
  /\ Goes(s, [req[s] EXCEPT !.at = "arrive", !.batch = PushBatch])
  /\ UNCHANGED <<hub, lane, own, opened, sync, asked>>

(* The relay stores what is new to it, and tells which that is.            *)
Arrive(s) ==
  /\ At(s, "arrive")
  /\ hub' = hub \o Fresh(hub, req[s].batch)
  /\ Goes(s, [req[s] EXCEPT !.at = "settle", !.batch = Fresh(hub, req[s].batch)])
  /\ UNCHANGED <<lane, own, opened, sync, asked>>

(* The watermark moves, and the author is told that its memory is in the   *)
(* workspace.                                                              *)
SettlePush(s) ==
  /\ At(s, "settle") /\ ~IsRead(s)
  /\ sync' = IF req[s].batch = << >> THEN sync ELSE [File EXCEPT !.pushed = Last(req[s].batch)]
  /\ Goes(s, [req[s] EXCEPT !.at = "told", !.batch = << >>])
  /\ UNCHANGED <<hub, lane, own, opened, asked>>

(* readTasks: await readEvents.                                            *)
ReadEvents(s) ==
  /\ At(s, "read")
  /\ Goes(s, [req[s] EXCEPT !.at = "project", !.read = Len(lane)])
  /\ UNCHANGED <<hub, lane, own, opened, sync, asked>>

(* Mutant of Mover: the first of the task's events counts.                 *)
MoverFirst(log, t) ==
  IF TaskMoves(log, t) = {} THEN None ELSE log[Min(TaskMoves(log, t))].by

(* The member of a card is that of the task's last event, in insertion     *)
(* order; without one it is the lane. startedAt is the first start's.      *)
Mover(log, t) == IF TaskMoves(log, t) = {} THEN None ELSE log[Max(TaskMoves(log, t))].by

Started(log, t) == IF TaskStarts(log, t) = {} THEN None ELSE log[Min(TaskStarts(log, t))].n

(* listTasks projects the store of this moment, and joins what the events  *)
(* read before say. The gateway then replaces a member it knows by an      *)
(* email (labelMembers), which is left out.                                *)
CardOf(t, read) ==
  [moves |-> Cardinality(TaskMoves(lane, t)), member |-> Mover(read, t),
   started |-> Started(read, t)]

Project(s) ==
  /\ At(s, "project")
  /\ Goes(s, [req[s] EXCEPT !.at = "shown", !.read = 0,
       !.cards = [t \in Tasks |-> CardOf(t, SubSeq(lane, 1, req[s].read))]])
  /\ UNCHANGED <<hub, lane, own, opened, sync, asked>>

(* The answer is taken; or the request fails at an await, or its process   *)
(* dies, with whatever it has done done.                                   *)
End(s) ==
  /\ ~At(s, "idle")
  /\ Goes(s, Idle)
  /\ UNCHANGED <<hub, lane, own, opened, sync, asked>>

(* Another client's event reaches the workspace's log.                     *)
MoveTask ==
  /\ Cardinality(TaskPlaces(hub)) < Len(Moved)
  /\ hub' = Append(hub, Move(Cardinality(TaskPlaces(hub)) + 1))
  /\ UNCHANGED <<lane, own, opened, sync, req, asked>>

Next ==
  \/ \E s \in Slots :
       \/ AskTasks(s) \/ BindRead(s) \/ BindWrite(s) \/ Ensure(s) \/ InsertAnchor(s)
       \/ Pull(s) \/ Insert(s) \/ SettlePull(s) \/ ReadEvents(s) \/ Project(s)
       \/ \E m \in Authors : AskAuthor(s, m)
       \/ AppendGenesis(s) \/ AppendMemory(s)
       \/ Push(s) \/ Arrive(s) \/ SettlePush(s) \/ End(s)
  \/ MoveTask

Spec == Init /\ [][Next]_vars

-----------------------------------------------------------------------------
(* Each variable has its type.                                             *)
TypeOK ==
  /\ hub \in Seq(Event) /\ lane \in Seq(Event) /\ own \subseteq ToSet(lane)
  /\ opened \in BOOLEAN /\ sync \in Sync \cup {None}
  /\ req \in [Slots -> Request] /\ asked \in 0..MaxRequests

(* Nothing is skipped for good: what precedes the pull watermark is in the *)
(* lane, and what was appended here up to the push watermark is at the     *)
(* relay, though every request writes back a sync file it read before      *)
(* others moved them, and may die between two steps.                       *)
Covered(f) ==
  /\ f.pulled # None =>
       \E i \in DOMAIN hub : hub[i] = f.pulled /\ ToSet(SubSeq(hub, 1, i)) \subseteq ToSet(lane)
  /\ f.pushed # None =>
       \E i \in DOMAIN lane : lane[i] = f.pushed /\ ToSet(SubSeq(lane, 1, i)) \cap own \subseteq ToSet(hub)

WatermarksCovered ==
  /\ sync # None => Covered(sync)
  /\ \A s \in Slots : req[s].file # None => Covered(req[s].file)

(* The lane keeps the workspace's order, which attribution and startedAt   *)
(* go by ("insertion order", tasks.ts:159), with no gap and no event twice,*)
(* whatever ranges overlapping pulls bring.                                *)
LaneKeepsOrder ==
  /\ IsPrefix(TaskEvents(lane), TaskEvents(hub))
  /\ Cardinality(ToSet(lane)) = Len(lane)

(* A board shows everything the workspace held when it was asked for, and  *)
(* the start it gives a task is the task's first.                          *)
ReadFresh ==
  \A s \in Slots, t \in Tasks : At(s, "shown") =>
    LET before == SubSeq(hub, 1, req[s].began)
        card == req[s].cards[t]
    IN  /\ card.moves >= Cardinality(TaskMoves(before, t))
        /\ IF card.started = None THEN TaskStarts(before, t) = {}
           ELSE /\ TaskStarts(hub, t) # {}
                /\ card.started = hub[Min(TaskStarts(hub, t))].n

(* A card names who had moved the task last at some moment of the request: *)
(* what arrives between readEvents and listTasks may be shown, and still   *)
(* be attributed to the one before.                                        *)
AttributionInTime ==
  \A s \in Slots, t \in Tasks : At(s, "shown") =>
    \E n \in req[s].began..Len(hub) :
      LET moves == TaskMoves(SubSeq(hub, 1, n), t)
      IN  /\ req[s].cards[t].moves >= Cardinality(moves)
          /\ req[s].cards[t].member = IF moves = {} THEN None ELSE hub[Max(moves)].by

(* An author that is told so has its memory in the workspace, whichever of *)
(* the concurrent pushes took it there.                                    *)
AuthoredArrives ==
  \A s \in Slots : At(s, "told") => Memory(req[s]) \in ToSet(hub)
=============================================================================
