----------------------------- MODULE RelaySync -----------------------------
(***************************************************************************)
(* The relay composed with its sync clients over a lossy network: writers  *)
(* push what follows their push watermark, readers pull what follows their *)
(* pull watermark. The clients are the memorize engine (pushProject,       *)
(* pullProject), which is outside this repository; they are modelled from  *)
(* how docs/protocol/transport.md and packages/replica use them.           *)
(***************************************************************************)
EXTENDS Relay

CONSTANTS
  Writers, Readers,
  Authored,   \* [Writers -> Seq(Ids)]: a writer's local log, oldest first
  None        \* no watermark, no owner, no answer on its way

ASSUME SyncAssumption ==
  /\ Authored \in [Writers -> Seq(Ids)]
  /\ \A w \in Writers : \A i, j \in DOMAIN Authored[w] :
       Authored[w][i] = Authored[w][j] => i = j
  /\ \A w \in Writers : \A m, n \in DOMAIN Authored[w] :
       SubSeq(Authored[w], m, n) \in Batches
  /\ None \notin Ids \cup Writers \cup Seq(Ids)

VARIABLES
  authored,  \* how much of its local log each writer has written
  pushed,    \* its push watermark, as a position in that log
  owner,     \* whose push a connection carries
  since,     \* each reader's pull watermark, an event id or None
  got,       \* the events each reader has inserted (INSERT OR IGNORE)
  pulling    \* the pull answer on its way to each reader, or None

clientVars == <<authored, pushed, owner, since, got, pulling>>
syncVars == <<vars, clientVars>>

SyncInit ==
  /\ Init
  /\ authored = [w \in Writers |-> 0] /\ pushed = [w \in Writers |-> 0]
  /\ owner = [c \in Conns |-> None]
  /\ since = [r \in Readers |-> None] /\ got = [r \in Readers |-> {}]
  /\ pulling = [r \in Readers |-> None]

Author(w) ==
  /\ authored[w] < Len(Authored[w])
  /\ authored' = [authored EXCEPT ![w] = @ + 1]
  /\ UNCHANGED <<vars, pushed, owner, since, got, pulling>>

(* A push carries everything after the watermark. One writer may have      *)
(* several on their way (a retry, or autosync beside an explicit push).    *)
Push(w, c) ==
  /\ owner[c] = None /\ pushed[w] < authored[w]
  /\ ReceivePush(c, SubSeq(Authored[w], pushed[w] + 1, authored[w]))
  /\ owner' = [owner EXCEPT ![c] = w]
  /\ UNCHANGED <<authored, pushed, since, got, pulling>>

(* The writer takes the answer; only lastAcceptedEventId moves the         *)
(* watermark, and it is absent when every event was a duplicate.           *)
TakeAnswer(w, c) ==
  /\ owner[c] = w /\ conn[c].phase = "answered"
  /\ pushed' = IF conn[c].accepted = << >> THEN pushed
               ELSE [pushed EXCEPT ![w] =
                       CHOOSE i \in DOMAIN Authored[w] :
                         Authored[w][i] = Last(conn[c].accepted)]
  /\ Close(c)
  /\ owner' = [owner EXCEPT ![c] = None]
  /\ UNCHANGED <<authored, since, got, pulling>>

(* Mutant of LoseAnswer: what was sent is taken for stored.                *)
LoseAnswerOptimistic(c) ==
  /\ owner[c] # None
  /\ pushed' = [pushed EXCEPT ![owner[c]] =
                  CHOOSE i \in DOMAIN Authored[owner[c]] :
                    Authored[owner[c]][i] = Last(conn[c].batch)]
  /\ Close(c)
  /\ owner' = [owner EXCEPT ![c] = None]
  /\ UNCHANGED <<authored, since, got, pulling>>

(* A 500, a reset connection, a timeout: the answer never arrives.         *)
LoseAnswer(c) ==
  /\ owner[c] # None
  /\ Close(c)
  /\ owner' = [owner EXCEPT ![c] = None]
  /\ UNCHANGED <<authored, pushed, since, got, pulling>>

(* GET .../events?since=: the relay computes the answer from memory.       *)
Pull(r) ==
  /\ up /\ pulling[r] = None
  /\ pulling' = [pulling EXCEPT ![r] = ReadSince(since[r])]
  /\ UNCHANGED <<vars, authored, pushed, owner, since, got>>

TakePull(r) ==
  /\ pulling[r] # None
  /\ got' = [got EXCEPT ![r] = @ \cup ToSet(pulling[r])]
  /\ since' = IF pulling[r] = << >> THEN since
              ELSE [since EXCEPT ![r] = Last(pulling[r])]
  /\ pulling' = [pulling EXCEPT ![r] = None]
  /\ UNCHANGED <<vars, authored, pushed, owner>>

LosePull(r) ==
  /\ pulling[r] # None
  /\ pulling' = [pulling EXCEPT ![r] = None]
  /\ UNCHANGED <<vars, authored, pushed, owner, since, got>>

RelayStep ==
  /\ SkipDuplicates \/ BeginWrite \/ FinishWrite \/ FailWrite \/ Crash \/ Restart
  /\ UNCHANGED clientVars

SyncNext ==
  \/ \E w \in Writers : Author(w)
  \/ \E w \in Writers, c \in Conns : Push(w, c) \/ TakeAnswer(w, c)
  \/ \E c \in Conns : LoseAnswer(c)
  \/ \E r \in Readers : Pull(r) \/ TakePull(r) \/ LosePull(r)
  \/ RelayStep

SyncSpec == SyncInit /\ [][SyncNext]_syncVars

(* Clients retry for ever and the network is fair-lossy: an exchange tried *)
(* again and again succeeds again and again, and no connection hangs. The  *)
(* event loop and the disk keep going while the relay is up, and after     *)
(* some last restart it stays up: a relay that is killed for ever before   *)
(* it reaches the second push of its queue delivers nothing.               *)
SyncFairness ==
  /\ <>[]up
  /\ WF_syncVars(RelayStep)
  /\ \A w \in Writers : SF_syncVars(\E c \in Conns : Push(w, c))
  /\ \A c \in Conns : WF_syncVars(LoseAnswer(c))
  /\ \A r \in Readers : SF_syncVars(Pull(r)) /\ SF_syncVars(TakePull(r))

FairSyncSpec == SyncSpec /\ SyncFairness

-----------------------------------------------------------------------------
(* Each client variable has its type.                                      *)
SyncTypeOK ==
  /\ TypeOK
  /\ authored \in [Writers -> Nat] /\ pushed \in [Writers -> Nat]
  /\ \A w \in Writers : pushed[w] <= authored[w] /\ authored[w] <= Len(Authored[w])
  /\ owner \in [Conns -> Writers \cup {None}]
  /\ since \in [Readers -> Ids \cup {None}] /\ got \in [Readers -> SUBSET Ids]
  /\ pulling \in [Readers -> Seq(Ids) \cup {None}]

(* Everything up to a writer's push watermark is stored for good, whatever *)
(* answers were lost, overtaken or refused: a retry never needs to go      *)
(* further back (transport.md: only lastAcceptedEventId is the watermark). *)
WatermarkStored ==
  \A w \in Writers : \A i \in 1..pushed[w] : Authored[w][i] \in Recoverable(file)

(* A pull never under-returns: whatever the log holds up to a reader's     *)
(* watermark, that reader already has (store.ts:163-165).                  *)
NoUnderReturn ==
  up => \A r \in Readers : \A i, j \in DOMAIN events :
          i <= j /\ events[j] = since[r] => events[i] \in got[r]

(* Every event a writer wrote reaches every reader.                        *)
Delivery ==
  \A w \in Writers : \A i \in DOMAIN Authored[w] : \A r \in Readers :
    authored[w] >= i ~> Authored[w][i] \in got[r]
=============================================================================
