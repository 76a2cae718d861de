------------------------------- MODULE Relay -------------------------------
(***************************************************************************)
(* The relay: one project's append-only ndjson log, the in-memory index    *)
(* rebuilt from it, and the pushes queued on its promise tail.             *)
(* Source: packages/relay/src/store.ts (EventStore), server.ts (the POST   *)
(* and GET handlers), index.ts (open before listen).                       *)
(*                                                                         *)
(* Projects share no state, so one project is modelled. An event is its    *)
(* id: the relay depends on no other field. The file is a sequence of      *)
(* lines; a line is the event it parses to, or Torn when JSON.parse fails  *)
(* on it. Bearer token, body limit and parse errors (401, 413, 400, 404)   *)
(* answer before the store is touched and are left out.                    *)
(***************************************************************************)
EXTENDS Integers, FiniteSets, SequencesExt

CONSTANTS
  Ids,           \* event ids
  Torn,          \* a line that does not parse
  Conns,         \* HTTP connections, each carrying one push at a time
  Batches,       \* the `events` arrays a push may carry
  Cuts,          \* where an interrupted write may end, a subset of AnyCut
  WriteMayFail,  \* may appendFile reject (ENOSPC, EIO) while the process lives
  MaxFaults      \* bound: writes interrupted part-way in one behaviour

(* An interrupted write ends after a newline, inside a line, or after a    *)
(* line's last brace but before its newline.                               *)
AnyCut == {"boundary", "partial", "unterminated"}

ASSUME RelayAssumption ==
  /\ Torn \notin Ids
  /\ Batches \subseteq Seq(Ids)
  /\ Cuts \subseteq AnyCut
  /\ WriteMayFail \in BOOLEAN
  /\ MaxFaults \in Nat

VARIABLES
  file,     \* the lines of events.ndjson (survives a crash)
  open,     \* the file's last line has no newline (survives a crash)
  up,       \* the process is serving
  events,   \* log.events, insertion order
  seen,     \* log.seen
  queue,    \* runs chained on log.tail, head first; the head is the one running
  writing,  \* `fresh` of the run whose appendFile is pending, or << >>
  conn,     \* what each connection carries
  acked,    \* history: ids of every batch answered 200
  served,   \* history: log.events as the last process knew it
  faults    \* interrupted writes so far

diskVars == <<file, open>>
memVars  == <<events, seen>>
vars == <<file, open, up, events, seen, queue, writing, conn, acked, served, faults>>

Idle == [phase |-> "idle", batch |-> << >>, accepted |-> << >>]

Conn == [phase : {"idle", "queued", "answered", "failed"},
         batch : Seq(Ids), accepted : Seq(Ids)]

-----------------------------------------------------------------------------
(* Mutant of KeptPositions: `seen.add` is forgotten inside the loop.       *)
RepeatedPositions(s, known) == { i \in DOMAIN s : s[i] \in Ids \ known }

(* The positions of s that both dedup loops keep: an id not known before,  *)
(* at its first occurrence in s.                                           *)
KeptPositions(s, known) ==
  { i \in DOMAIN s : s[i] \in Ids \ known /\ \A j \in 1..(i-1) : s[j] # s[i] }

(* The k-th smallest element of a finite set of numbers.                   *)
Nth(P, k) == CHOOSE i \in P : Cardinality({ j \in P : j <= i }) = k

(* What the loop of `hydrate` (over the lines) and that of `append` (over  *)
(* the batch) keep of s: in order, without malformed lines, ids already    *)
(* known, or second occurrences.                                           *)
Kept(s, known) ==
  LET P == KeptPositions(s, known)
  IN  [k \in 1..Cardinality(P) |-> s[Nth(P, k)]]

Hydrated(f) == Kept(f, {})

(* The ids a later hydrate will find in the file.                          *)
Recoverable(f) == ToSet(f) \cap Ids

(* Mutant of Continued: writeFile in the place of appendFile.              *)
Overwritten(f, o, ls) == ls

(* The file after text that forms the lines ls is appended to it: when the *)
(* last line has no newline the text continues it, and no such             *)
(* concatenation of a JSON prefix with an object is JSON.                  *)
Continued(f, o, ls) ==
  IF o /\ ls # << >> THEN Front(f) \o <<Torn>> \o Tail(ls) ELSE f \o ls

(* The lines an interrupted write of w leaves: k whole ones, then the cut. *)
Remnant(w, k, cut) ==
  SubSeq(w, 1, k) \o CASE cut = "boundary"     -> << >>
                       [] cut = "partial"      -> <<Torn>>
                       [] cut = "unterminated" -> <<w[k+1]>>

Interruptions(w) ==
  { i \in (0..Len(w)) \X Cuts : i[2] = "boundary" \/ i[1] < Len(w) }

(* Mutants of ReadSince: a page of one, from the wrong end; nothing for an *)
(* unknown position.                                                       *)
ReadSinceNewest(since) ==
  LET at == { i \in DOMAIN events : events[i] = since }
      all == IF at = {} THEN events ELSE SubSeq(events, Nth(at, 1) + 1, Len(events))
  IN  IF all = << >> THEN all ELSE <<Last(all)>>
ReadSinceStrict(since) ==
  LET at == { i \in DOMAIN events : events[i] = since }
  IN  IF at = {} THEN << >> ELSE SubSeq(events, Nth(at, 1) + 1, Len(events))

(* EventStore.read: everything after `since`; all of it when since is      *)
(* absent or unknown (findIndex is -1, so slice starts at 0).              *)
ReadSince(since) ==
  LET at == { i \in DOMAIN events : events[i] = since }
  IN  IF at = {} THEN events ELSE SubSeq(events, Nth(at, 1) + 1, Len(events))

-----------------------------------------------------------------------------
Init ==
  /\ file = << >> /\ open = FALSE
  /\ up = TRUE
  /\ events = << >> /\ seen = {}
  /\ queue = << >> /\ writing = << >>
  /\ conn = [c \in Conns |-> Idle]
  /\ acked = {} /\ served = << >>
  /\ faults = 0

(* POST .../events: the body has been read and parsed, and `append` chains *)
(* its run on the tail.                                                    *)
ReceivePush(c, b) ==
  /\ up /\ conn[c].phase = "idle"
  /\ conn' = [conn EXCEPT ![c] = [Idle EXCEPT !.phase = "queued", !.batch = b]]
  /\ queue' = Append(queue, c)
  /\ UNCHANGED <<diskVars, up, memVars, writing, acked, served, faults>>

(* Mutant of Fresh: only the batch's own duplicates are dropped.           *)
FreshInBatch == Kept(conn[Head(queue)].batch, {})

(* The head run's batch without what the log or the batch already has.     *)
Fresh == Kept(conn[Head(queue)].batch, seen)

(* The head run leaves the queue and its connection is answered.           *)
Answer(accepted) ==
  LET c == Head(queue)
  IN  /\ conn' = [conn EXCEPT ![c].phase = "answered", ![c].accepted = accepted]
      /\ acked' = acked \cup ToSet(conn[c].batch)
      /\ queue' = Tail(queue)

(* `fresh.length === 0`: nothing to write, answered with accepted: [].     *)
SkipDuplicates ==
  /\ up /\ queue # << >> /\ writing = << >> /\ Fresh = << >>
  /\ Answer(<< >>)
  /\ UNCHANGED <<diskVars, up, memVars, writing, served, faults>>

(* Mutant of BeginWrite: a failed append leaves the tail locked.           *)
BeginWriteUnlessFailed ==
  /\ up /\ queue # << >> /\ writing = << >> /\ Fresh # << >> /\ faults = 0
  /\ writing' = Fresh
  /\ UNCHANGED <<diskVars, up, memVars, queue, conn, acked, served, faults>>

(* The head run filters its batch and awaits mkdir and appendFile.         *)
BeginWrite ==
  /\ up /\ queue # << >> /\ writing = << >> /\ Fresh # << >>
  /\ writing' = Fresh
  /\ UNCHANGED <<diskVars, up, memVars, queue, conn, acked, served, faults>>

(* appendFile resolves: only now do seen and events learn the batch, and   *)
(* the handler answers 200.                                                *)
FinishWrite ==
  /\ up /\ writing # << >>
  /\ file' = Continued(file, open, writing)
  /\ open' = FALSE
  /\ seen' = seen \cup ToSet(writing)
  /\ events' = events \o writing
  /\ Answer(writing)
  /\ writing' = << >>
  /\ UNCHANGED <<up, served, faults>>

(* The text of the pending appendFile stops after <<k, cut>>.              *)
PartialWrite(k, cut) ==
  LET ls == Remnant(writing, k, cut)
  IN  /\ file' = Continued(file, open, ls)
      /\ open' = IF ls = << >> THEN open ELSE cut # "boundary"

(* appendFile rejects after writing a part: memory stays, the handler      *)
(* answers 500, and `run.catch` keeps the tail alive.                      *)
FailWrite ==
  /\ WriteMayFail /\ up /\ writing # << >> /\ faults < MaxFaults
  /\ \E i \in Interruptions(writing) : PartialWrite(i[1], i[2])
  /\ conn' = [conn EXCEPT ![Head(queue)].phase = "failed"]
  /\ queue' = Tail(queue)
  /\ writing' = << >>
  /\ faults' = faults + 1
  /\ UNCHANGED <<up, memVars, acked, served>>

(* The process dies: memory, queued runs and every connection go; a        *)
(* pending appendFile leaves a part of its text.                           *)
Crash ==
  /\ up
  /\ IF writing = << >>
       THEN UNCHANGED <<diskVars, faults>>
       ELSE /\ faults < MaxFaults /\ faults' = faults + 1
            /\ \E i \in Interruptions(writing) : PartialWrite(i[1], i[2])
  /\ up' = FALSE
  /\ served' = events
  /\ events' = << >> /\ seen' = {}
  /\ queue' = << >> /\ writing' = << >>
  /\ conn' = [c \in Conns |-> IF conn[c].phase = "queued"
                               THEN [conn[c] EXCEPT !.phase = "failed"] ELSE conn[c]]
  /\ UNCHANGED acked

(* Mutant of Restart: listen without hydrating.                            *)
RestartUnhydrated ==
  /\ ~up
  /\ up' = TRUE
  /\ UNCHANGED <<diskVars, memVars, queue, writing, conn, acked, served, faults>>

(* EventStore.open: hydrate, and only then listen.                         *)
Restart ==
  /\ ~up
  /\ up' = TRUE
  /\ events' = Hydrated(file)
  /\ seen' = Recoverable(file)
  /\ UNCHANGED <<diskVars, queue, writing, conn, acked, served, faults>>

(* The client takes the answer, or never gets it; the connection is free.  *)
Close(c) ==
  /\ conn[c].phase \in {"answered", "failed"}
  /\ conn' = [conn EXCEPT ![c] = Idle]
  /\ UNCHANGED <<diskVars, up, memVars, queue, writing, acked, served, faults>>

Next ==
  \/ \E c \in Conns, b \in Batches : ReceivePush(c, b)
  \/ SkipDuplicates \/ BeginWrite \/ FinishWrite \/ FailWrite \/ Crash \/ Restart
  \/ \E c \in Conns : Close(c)

Spec == Init /\ [][Next]_vars

(* The event loop keeps running promise callbacks, the disk answers, and   *)
(* the supervisor (scripts/start-hub.mjs exits, the host restarts it)      *)
(* brings the process back. Clients promise nothing.                       *)
ServerFairness ==
  /\ WF_vars(SkipDuplicates) /\ WF_vars(BeginWrite)
  /\ WF_vars(FinishWrite \/ FailWrite)
  /\ WF_vars(Restart)

FairSpec == Spec /\ ServerFairness

-----------------------------------------------------------------------------
(* Each variable has its type; a run is writing only while its connection  *)
(* heads the queue of a live process.                                      *)
TypeOK ==
  /\ file \in Seq(Ids \cup {Torn})
  /\ open \in BOOLEAN /\ (open => file # << >>)
  /\ up \in BOOLEAN
  /\ events \in Seq(Ids) /\ seen \subseteq Ids
  /\ queue \in Seq(Conns)
  /\ writing \in Seq(Ids) /\ (writing # << >> => up /\ queue # << >>)
  /\ conn \in [Conns -> Conn]
  /\ acked \subseteq Ids /\ served \in Seq(Ids)
  /\ faults \in 0..MaxFaults

(* The dedup index is exact through every interleaving of pushes, failed   *)
(* writes and re-hydrations: `seen` holds the ids of `events` and no event *)
(* is in the log twice (store.ts, "idempotent dedup-by-id").               *)
IndexExact ==
  /\ seen = ToSet(events)
  /\ \A i, j \in DOMAIN events : events[i] = events[j] => i = j

(* Memory never claims more than the file holds (store.ts:107-108).        *)
MemoryWithinFile == ToSet(events) \subseteq Recoverable(file)

(* An id of a push answered 200, newly stored or skipped as a duplicate,   *)
(* is what a re-hydration would find, whatever crashed or failed since:    *)
(* the client may drop it from its retry range.                            *)
AckedRecoverable == acked \subseteq Recoverable(file)

(* While the process is up, every acknowledged id is readable.             *)
AckedReadable == up => acked \subseteq ToSet(events)

(* A position handed out before a restart means the same after it: the log *)
(* a new process serves continues the log the old one served, so           *)
(* `?since=` cursors neither skip nor repeat (store.ts:163-165).           *)
OrderSurvivesRestart == up => IsPrefix(served, events)

(* Two concurrent pushes are never both told that they stored the same     *)
(* event (server.ts `accepted`: "ids newly stored this call").             *)
AcceptedOnce ==
  \A c, d \in Conns : c # d =>
    ToSet(conn[c].accepted) \cap ToSet(conn[d].accepted) = {}

(* Inductive strengthening of IndexExact: the batch being written has      *)
(* nothing the log already holds.                                          *)
IndexInv ==
  /\ IndexExact
  /\ ToSet(writing) \cap seen = {}
  /\ \A i, j \in DOMAIN writing : writing[i] = writing[j] => i = j

(* Every run on the tail is one waiting push, and is there once.           *)
QueueInv ==
  /\ \A i \in DOMAIN queue : conn[queue[i]].phase = "queued"
  /\ \A i, j \in DOMAIN queue : queue[i] = queue[j] => i = j

(* Inductive strengthening of the durability invariants when interrupted   *)
(* writes end at line boundaries: what is about to be acknowledged is      *)
(* either in the log or being written.                                     *)
DurableInv ==
  /\ ~open
  /\ MemoryWithinFile /\ AckedRecoverable /\ AckedReadable
  /\ writing # << >> =>
       ToSet(conn[Head(queue)].batch) \subseteq seen \cup ToSet(writing)

(* A queued push is answered, or fails with its process: a failed append   *)
(* never stops the runs chained behind it.                                 *)
QueueDrains == \A c \in Conns : conn[c].phase = "queued" ~> conn[c].phase # "queued"

(* The durable log implements the abstract one.                            *)
Durable == INSTANCE RelayLog WITH log <- Hydrated(file)
DurableLog == Durable!Spec
=============================================================================
