------------------------------- MODULE Access -------------------------------
(***************************************************************************)
(* The gateway's credentials: device authorization grants, API keys with   *)
(* their store scopes, and what a key reaches while memberships, personal  *)
(* stores and sidecars come and go.                                        *)
(* Source: packages/gateway/src/device.ts, device-api.ts, web.ts (the      *)
(* approval form), keys.ts, account-api.ts, policy.ts, personal-store.ts,  *)
(* proxy.ts (the resolving routes); memberships from stores.ts.            *)
(*                                                                         *)
(* SQLite is synchronous, so a handler is atomic after its body has        *)
(* arrived. Only the issue of a key looks at its caller before and at      *)
(* memberships after that await. Time is counted in units; Lifetime and    *)
(* Interval are EXPIRES_IN_S and INTERVAL_S. A session is always full      *)
(* power, so whoever issues or revokes is just an account. read_only       *)
(* narrows pushes, and nothing here pushes.                                *)
(***************************************************************************)
EXTENDS Integers, FiniteSets

CONSTANTS
  Accounts, Stores, Keys, Grants, Conns,
  None,      \* no key, no account, no request, never
  Founded,   \* [Stores -> SUBSET Accounts]: the first members
  Lifetime, Interval,
  MaxTime    \* bound on the clock

ASSUME AccessAssumption ==
  /\ None \notin Accounts \cup Grants \cup Int
  /\ Accounts \cap Stores = {}
  /\ Founded \in [Stores -> SUBSET Accounts]
  /\ Lifetime \in Nat /\ Interval \in Nat \ {0} /\ MaxTime \in Nat

VARIABLES
  now,
  member,    \* [Stores -> SUBSET Accounts]
  gone,      \* deleted stores
  personal,  \* accounts whose personal store was provisioned
  sidecar,   \* parents (stores, or accounts for personal ones) with a sidecar
  grant,     \* device_auth rows
  steady,    \* history: the device has polled in every unit of time
  asked,     \* history: the device has polled in the present one
  key,       \* api_tokens with token_scopes
  issuing    \* key requests whose body is awaited

worldVars == <<member, gone, personal, sidecar>>
deviceVars == <<grant, steady, asked>>
vars == <<now, worldVars, deviceVars, key, issuing>>

Time == 0..MaxTime

(* `since`, when it was approved, is history.                              *)
Grant == [status : {"unborn", "pending", "approved", "gone"},
          account : Accounts \cup {None}, expires : 0..(MaxTime + Lifetime),
          polled : Time \cup {None}, since : Time \cup {None}]

(* `origin`, the grant it was minted from, and `granted`, the scopes it    *)
(* was issued with, are history.                                           *)
Key == [account : Accounts, live : BOOLEAN,
        scopes : SUBSET Stores, granted : SUBSET Stores, origin : Grants \cup {None}]

Issue == [who : Accounts, stores : SUBSET Stores]

(* A relay store: a workspace's, a personal one, or a sidecar of either.   *)
Target == [of : Stores \cup Accounts, side : BOOLEAN]

Row(status, a, expires, polled, since) ==
  [status |-> status, account |-> a, expires |-> expires, polled |-> polled, since |-> since]

Blank(status) == Row(status, None, 0, None, None)

Unscoped(k) == key[k].scopes = {}

Covers(k, s) == Unscoped(k) \/ s \in key[k].scopes

(* A request that carries k is its account's, until k is revoked.          *)
Valid(k) == key[k] # None /\ key[k].live

(* authorize on the data plane: a sidecar inherits from its parent; a      *)
(* personal store is its owner's, by an unscoped key; a workspace's is its *)
(* members', within the key's scopes.                                      *)
MayReach(k, t) ==
  /\ t.side => t.of \in sidecar
  /\ \/ t.of \in personal /\ t.of = key[k].account /\ Unscoped(k)
     \/ /\ t.of \in Stores /\ key[k].account \in member[t.of]
        /\ Covers(k, t.of)

-----------------------------------------------------------------------------
Init ==
  /\ now = 0
  /\ member = Founded /\ gone = {} /\ personal = {} /\ sidecar = {}
  /\ grant = [g \in Grants |-> Blank("unborn")]
  /\ steady = [g \in Grants |-> TRUE] /\ asked = [g \in Grants |-> FALSE]
  /\ key = [k \in Keys |-> None]
  /\ issuing = [c \in Conns |-> None]

Exists(g) == grant[g].status \in {"pending", "approved"}

Expired(g) == grant[g].expires < now

Pending(g) == grant[g].status = "pending" /\ ~Expired(g)

(* POST /v1/device/code: expired rows are swept, then a pending one is     *)
(* inserted.                                                               *)
StartDevice(g) ==
  /\ grant[g].status = "unborn"
  /\ grant' = [h \in Grants |->
       IF h = g THEN Row("pending", None, now + Lifetime, None, None)
       ELSE IF Exists(h) /\ Expired(h) THEN Blank("gone") ELSE grant[h]]
  /\ UNCHANGED <<now, worldVars, steady, asked, key, issuing>>

(* Mutant of Approve: an approved grant may be approved again.             *)
ApproveAgain(g, a) ==
  /\ Exists(g) /\ ~Expired(g)
  /\ grant' = [grant EXCEPT ![g].status = "approved", ![g].account = a, ![g].since = now]
  /\ UNCHANGED <<now, worldVars, steady, asked, key, issuing>>

(* POST /device: the account whose form comes first is bound.              *)
Approve(g, a) ==
  /\ Pending(g)
  /\ grant' = [grant EXCEPT ![g].status = "approved", ![g].account = a, ![g].since = now]
  /\ UNCHANGED <<now, worldVars, steady, asked, key, issuing>>

Polling(g) ==
  /\ grant[g].status # "unborn"
  /\ asked' = [asked EXCEPT ![g] = Exists(g)]
  /\ UNCHANGED <<now, worldVars, steady, issuing>>

(* `nowMs - last_polled_at < interval`.                                    *)
TooSoon(g) == grant[g].polled # None /\ now - grant[g].polled < Interval

(* Mutant of PollRefused: a poll that came too soon starts the pause anew. *)
PollRefusedAnew(g) ==
  /\ Polling(g)
  /\ ~Exists(g) \/ Expired(g) \/ TooSoon(g)
  /\ grant' = [grant EXCEPT ![g].polled = IF Exists(g) THEN now ELSE @]
  /\ UNCHANGED key

(* POST /v1/device/token: expired_token or slow_down, nothing written.     *)
PollRefused(g) ==
  /\ Polling(g)
  /\ ~Exists(g) \/ Expired(g) \/ TooSoon(g)
  /\ UNCHANGED <<grant, key>>

PollPending(g) ==
  /\ Polling(g)
  /\ Pending(g) /\ ~TooSoon(g)
  /\ grant' = [grant EXCEPT ![g].polled = now]
  /\ UNCHANGED key

(* issueApiKey.                                                            *)
Mint(k, a, scopes, origin) ==
  /\ key[k] = None
  /\ key' = [key EXCEPT ![k] =
       [account |-> a, live |-> TRUE, scopes |-> scopes,
        granted |-> scopes, origin |-> origin]]

(* Mutant of Collect: the row stays until it expires.                      *)
CollectKeeping(g, k) ==
  /\ Polling(g)
  /\ grant[g].status = "approved" /\ ~Expired(g) /\ ~TooSoon(g)
  /\ grant' = [grant EXCEPT ![g].polled = now]
  /\ Mint(k, grant[g].account, {}, g)

(* The approved poll consumes the row and mints an unscoped key.           *)
Collect(g, k) ==
  /\ Polling(g)
  /\ grant[g].status = "approved" /\ ~Expired(g) /\ ~TooSoon(g)
  /\ grant' = [grant EXCEPT ![g] = Blank("gone")]
  /\ Mint(k, grant[g].account, {}, g)

(* The process dies between the two statements of that poll.               *)
CollectInterrupted(g) ==
  /\ Polling(g)
  /\ grant[g].status = "approved" /\ ~Expired(g) /\ ~TooSoon(g)
  /\ grant' = [grant EXCEPT ![g] = Blank("gone")]
  /\ UNCHANGED key

Tick ==
  /\ now < MaxTime
  /\ now' = now + 1
  /\ steady' = [g \in Grants |-> steady[g] /\ (Exists(g) => asked[g])]
  /\ asked' = [g \in Grants |-> FALSE]
  /\ UNCHANGED <<worldVars, grant, key, issuing>>

(* POST /v1/account/keys, up to its body.                                  *)
BeginIssue(c, q) ==
  /\ issuing[c] = None
  /\ issuing' = [issuing EXCEPT ![c] = q]
  /\ UNCHANGED <<now, worldVars, deviceVars, key>>

AbortIssue(c) ==
  /\ issuing[c] # None
  /\ issuing' = [issuing EXCEPT ![c] = None]
  /\ UNCHANGED <<now, worldVars, deviceVars, key>>

(* Mutant of FinishIssue: the stores the client named go unfiltered.       *)
FinishIssueNamed(c, k) ==
  /\ issuing[c] # None
  /\ Mint(k, issuing[c].who, issuing[c].stores, None)
  /\ issuing' = [issuing EXCEPT ![c] = None]
  /\ UNCHANGED <<now, worldVars, deviceVars>>

(* The body has arrived: stores the account is no member of are dropped.   *)
FinishIssue(c, k) ==
  /\ issuing[c] # None
  /\ LET q == issuing[c]
     IN  Mint(k, q.who, { s \in q.stores : q.who \in member[s] }, None)
  /\ issuing' = [issuing EXCEPT ![c] = None]
  /\ UNCHANGED <<now, worldVars, deviceVars>>

(* DELETE /v1/account/keys/:id, of a key of the account's own.             *)
Revoke(k) ==
  /\ key[k] # None
  /\ key' = [key EXCEPT ![k].live = FALSE]
  /\ UNCHANGED <<now, worldVars, deviceVars, issuing>>

(* GET /v1/account/personal-store, and /account/me in the browser.         *)
ResolvePersonalStore(a) ==
  /\ personal' = personal \cup {a}
  /\ UNCHANGED <<now, member, gone, sidecar, deviceVars, key, issuing>>

(* GET /v1/stores/:parent/derived/embedding.                               *)
ResolveSidecar(k, b) ==
  /\ Valid(k) /\ MayReach(k, [of |-> b, side |-> FALSE])
  /\ sidecar' = sidecar \cup {b}
  /\ UNCHANGED <<now, member, gone, personal, deviceVars, key, issuing>>

(* Memberships, as module Workspace lets them change.                      *)
Join(a, s) ==
  /\ s \notin gone
  /\ member' = [member EXCEPT ![s] = @ \cup {a}]
  /\ UNCHANGED <<now, gone, personal, sidecar, deviceVars, key, issuing>>

Remove(a, s) ==
  /\ member' = [member EXCEPT ![s] = @ \ {a}]
  /\ UNCHANGED <<now, gone, personal, sidecar, deviceVars, key, issuing>>

(* Mutant of Delete: the scope rows of the store go with it.               *)
DeleteScopes(s) ==
  /\ member[s] # {}
  /\ member' = [member EXCEPT ![s] = {}]
  /\ gone' = gone \cup {s} /\ sidecar' = sidecar \ {s}
  /\ key' = [k \in Keys |-> IF key[k] = None THEN None
                            ELSE [key[k] EXCEPT !.scopes = @ \ {s}]]
  /\ UNCHANGED <<now, personal, deviceVars, issuing>>

(* DELETE /v1/workspaces/:id: token_scopes rows stay.                      *)
Delete(s) ==
  /\ member[s] # {}
  /\ member' = [member EXCEPT ![s] = {}]
  /\ gone' = gone \cup {s} /\ sidecar' = sidecar \ {s}
  /\ UNCHANGED <<now, personal, deviceVars, key, issuing>>

Next ==
  \/ \E g \in Grants :
       \/ StartDevice(g) \/ PollRefused(g) \/ PollPending(g) \/ CollectInterrupted(g)
       \/ \E a \in Accounts : Approve(g, a)
       \/ \E k \in Keys : Collect(g, k)
  \/ Tick
  \/ \E c \in Conns :
       \/ AbortIssue(c)
       \/ \E q \in Issue : BeginIssue(c, q)
       \/ \E k \in Keys : FinishIssue(c, k)
  \/ \E k \in Keys :
       Revoke(k) \/ \E b \in Stores \cup Accounts : ResolveSidecar(k, b)
  \/ \E a \in Accounts :
       ResolvePersonalStore(a) \/ \E s \in Stores : Join(a, s) \/ Remove(a, s)
  \/ \E s \in Stores : Delete(s)

Spec == Init /\ [][Next]_vars

-----------------------------------------------------------------------------
(* Each table holds rows of its type.                                      *)
TypeOK ==
  /\ now \in Time
  /\ member \in [Stores -> SUBSET Accounts] /\ gone \subseteq Stores
  /\ personal \subseteq Accounts /\ sidecar \subseteq Stores \cup Accounts
  /\ grant \in [Grants -> Grant]
  /\ \A g \in Grants : (grant[g].status = "approved") <=> (grant[g].account # None)
  /\ steady \in [Grants -> BOOLEAN] /\ asked \in [Grants -> BOOLEAN]
  /\ key \in [Keys -> Key \cup {None}]
  /\ issuing \in [Conns -> Issue \cup {None}]

(* A grant yields at most one key, and none before it is collected         *)
(* (device.ts:127 "single delivery").                                      *)
SingleDelivery ==
  \A j, k \in Keys :
    key[j] # None /\ key[j].origin # None =>
      /\ grant[key[j].origin].status = "gone"
      /\ key[k] # None /\ key[k].origin = key[j].origin => j = k

(* The first approval stands: a second account's form changes nothing, and *)
(* the key goes to the account that approved (device.ts:100-116).          *)
ApprovalStands ==
  \A g \in Grants : grant[g].status = "approved" =>
    /\ grant'[g].account \in {grant[g].account, None}
    /\ \A k \in Keys : key[k] = None /\ key'[k] # None /\ key'[k].origin = g =>
         key'[k].account = grant[g].account
ApprovalSticks == [][ApprovalStands]_vars

(* A device that polls too eagerly is told to slow down but is not starved *)
(* by it: it has its key one interval after the approval (device.ts:146).  *)
ServedInTime ==
  \A g \in Grants :
    grant[g].status = "approved" /\ steady[g] /\ ~Expired(g) =>
      now <= grant[g].since + Interval

(* A key issued for some stores never reaches anything else, whatever is   *)
(* deleted, joined or provisioned later: not even after every store it was *)
(* issued for is gone (keys.ts:7-8 "scope only ever narrow[s] access").    *)
ScopeNeverWidens ==
  \A k \in Keys : key[k] # None /\ key[k].granted # {} =>
    \A t \in Target : MayReach(k, t) => t.of \in key[k].granted

(* A key is issued for stores its account is a member of at that moment,   *)
(* also when it left one while the body was on its way                     *)
(* (account-api.ts:98-101).                                                *)
IssuedForMembers ==
  \A k \in Keys : key[k] = None /\ key'[k] # None =>
    \A s \in key'[k].scopes : key'[k].account \in member[s]
NoStaleScope == [][IssuedForMembers]_vars
=============================================================================
