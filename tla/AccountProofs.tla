---------------------------- MODULE AccountProofs ----------------------------
(***************************************************************************)
(* Theorems about who may do what: about Access, for every set of accounts,*)
(* stores, keys, grants and requests and every lifetime, interval and      *)
(* bound on the clock; and about Login, for any tabs, identities,          *)
(* addresses, invitations, pages and bounds, and for any rows migrated     *)
(* without an identity or with a GitHub login in its place.                *)
(***************************************************************************)
EXTENDS Access, Login, TLAPS

-----------------------------------------------------------------------------
(* Access                                                                  *)

(* What a step does to a grant's row: starts it, approves it, notes a      *)
(* poll, or ends it.                                                       *)
GrantStep(g) ==
  \/ grant'[g] = grant[g]
  \/ grant[g].status = "unborn" /\ grant'[g] = Row("pending", None, now + Lifetime, None, None)
  \/ \E a \in Accounts :
       /\ grant[g].status = "pending"
       /\ grant'[g] = [grant[g] EXCEPT !.status = "approved", !.account = a, !.since = now]
  \/ grant[g].status = "pending" /\ grant'[g] = [grant[g] EXCEPT !.polled = now]
  \/ grant[g].status \in {"pending", "approved"} /\ grant'[g] = Blank("gone")

(* What a step does to the keys: nothing, a revocation, or one new key,    *)
(* collected from an approved grant that ends, or issued from a request.   *)
Collected ==
  \E g \in Grants, k \in Keys :
    /\ grant[g].status = "approved" /\ grant'[g] = Blank("gone")
    /\ Mint(k, grant[g].account, {}, g)

Issued ==
  \E c \in Conns, k \in Keys :
    /\ issuing[c] # None
    /\ Mint(k, issuing[c].who, { s \in issuing[c].stores : issuing[c].who \in member[s] }, None)

Revoked == \E k \in Keys : key[k] # None /\ key' = [key EXCEPT ![k].live = FALSE]

(* The type of the device tables and of the keys, apart.                   *)
GrantsOK ==
  /\ grant \in [Grants -> Grant]
  /\ \A g \in Grants : (grant[g].status = "approved") <=> (grant[g].account # None)
KeysOK == key \in [Keys -> Key \cup {None}]

(* Every step of the specification changes grants and keys in these ways   *)
(* only.                                                                   *)
LEMMA Steps ==
  ASSUME TypeOK, [Next]_vars
  PROVE  /\ \A g \in Grants : GrantStep(g)
         /\ key' = key \/ Collected \/ Issued \/ Revoked
<1> USE DEF TypeOK
<1>1. ASSUME NEW g \in Grants, StartDevice(g)
      PROVE (\A h \in Grants : GrantStep(h)) /\ key' = key
  BY <1>1 DEF StartDevice, GrantStep, Exists
<1>2. ASSUME NEW g \in Grants, NEW a \in Accounts, Approve(g, a)
      PROVE (\A h \in Grants : GrantStep(h)) /\ key' = key
  <2>1. \A h \in Grants : h # g => grant'[h] = grant[h]
    BY <1>2 DEF Approve, Pending
  <2>2. grant'[g] = [grant[g] EXCEPT !.status = "approved", !.account = a, !.since = now]
    BY <1>2 DEF Approve, Pending, Grant
  <2> QED BY <1>2, <2>1, <2>2 DEF Approve, Pending, GrantStep
<1>3. ASSUME NEW g \in Grants, PollRefused(g) \/ PollPending(g)
      PROVE (\A h \in Grants : GrantStep(h)) /\ key' = key
  <2>1. CASE PollRefused(g)
    BY <2>1 DEF PollRefused, GrantStep
  <2>2. CASE PollPending(g)
    BY <2>2 DEF PollPending, Pending, GrantStep
  <2> QED BY <1>3, <2>1, <2>2
<1>4. ASSUME NEW g \in Grants, CollectInterrupted(g)
      PROVE (\A h \in Grants : GrantStep(h)) /\ key' = key
  BY <1>4 DEF CollectInterrupted, GrantStep
<1>5. ASSUME NEW g \in Grants, NEW k \in Keys, Collect(g, k)
      PROVE (\A h \in Grants : GrantStep(h)) /\ Collected
  <2>1. grant'[g] = Blank("gone") /\ \A h \in Grants : h # g => grant'[h] = grant[h]
    BY <1>5 DEF Collect
  <2>2. grant[g].status = "approved" /\ Mint(k, grant[g].account, {}, g)
    BY <1>5 DEF Collect
  <2>3. \A h \in Grants : GrantStep(h)
    BY <2>1, <2>2 DEF GrantStep
  <2> QED BY <2>1, <2>2, <2>3 DEF Collected
<1>6. ASSUME NEW c \in Conns, NEW k \in Keys, FinishIssue(c, k)
      PROVE (\A h \in Grants : GrantStep(h)) /\ Issued
  <2>1. grant' = grant
    BY <1>6 DEF FinishIssue, deviceVars
  <2>2. Issued
    BY <1>6 DEF FinishIssue, Issued
  <2> QED BY <2>1, <2>2 DEF GrantStep
<1>7. ASSUME NEW k \in Keys, Revoke(k)
      PROVE (\A h \in Grants : GrantStep(h)) /\ Revoked
  BY <1>7 DEF Revoke, Revoked, GrantStep, deviceVars
<1>8. ASSUME \/ Tick \/ UNCHANGED vars
             \/ \E c \in Conns : AbortIssue(c) \/ \E q \in Issue : BeginIssue(c, q)
             \/ \E k \in Keys, b \in Stores \cup Accounts : ResolveSidecar(k, b)
             \/ \E a \in Accounts : ResolvePersonalStore(a)
             \/ \E a \in Accounts, s \in Stores : Join(a, s) \/ Remove(a, s)
             \/ \E s \in Stores : Delete(s)
      PROVE (\A h \in Grants : GrantStep(h)) /\ key' = key
  <2>1. grant' = grant /\ key' = key
    BY <1>8 DEF Tick, vars, AbortIssue, BeginIssue, ResolveSidecar, ResolvePersonalStore,
                Join, Remove, Delete, deviceVars
  <2> QED BY <2>1 DEF GrantStep
<1> QED BY <1>1, <1>2, <1>3, <1>4, <1>5, <1>6, <1>7, <1>8 DEF Next

(* Type correctness of the credentials. *)
THEOREM TypeCorrect == Spec => []TypeOK
<1>1. Init => TypeOK
  BY AccessAssumption DEF Init, TypeOK, Grant, Blank, Row, Time
<1>2. TypeOK /\ [Next]_vars => TypeOK'
  <2> SUFFICES ASSUME TypeOK, [Next]_vars PROVE TypeOK'
    OBVIOUS
  <2>1. now' \in Time /\ (now' = now \/ now' = now + 1)
    <3>1. CASE Tick
      BY <3>1, AccessAssumption DEF Tick, TypeOK, Time
    <3>2. CASE now' = now
      BY <3>2 DEF TypeOK
    <3> QED BY <3>1, <3>2 DEF Next, vars, worldVars, deviceVars, StartDevice, PollRefused,
              PollPending, CollectInterrupted, Polling, Approve, Collect, AbortIssue, BeginIssue,
              FinishIssue, Revoke, ResolveSidecar, ResolvePersonalStore, Join, Remove, Delete
  <2>2. GrantsOK'
    <3>1. ASSUME NEW g \in Grants
          PROVE grant'[g] \in Grant /\ ((grant'[g].status = "approved") <=> (grant'[g].account # None))
      <4>1. GrantStep(g)
        BY Steps
      <4>2. now \in Time /\ now + Lifetime \in 0..(MaxTime + Lifetime)
        BY AccessAssumption DEF TypeOK, Time
      <4>3. grant[g] \in Grant /\ ((grant[g].status = "approved") <=> (grant[g].account # None))
        BY DEF TypeOK
      <4>4. CASE grant'[g] = grant[g]
        BY <4>3, <4>4
      <4>5. CASE grant'[g] = Row("pending", None, now + Lifetime, None, None)
        BY <4>2, <4>5 DEF Row, Grant
      <4>6. ASSUME NEW a \in Accounts,
                   grant'[g] = [grant[g] EXCEPT !.status = "approved", !.account = a, !.since = now]
            PROVE grant'[g] \in Grant /\ grant'[g].status = "approved" /\ grant'[g].account # None
        <5> DEFINE r == [grant[g] EXCEPT !.status = "approved"]
                   q == [r EXCEPT !.account = a]
        <5>1. r \in Grant /\ r.status = "approved"
          BY <4>3 DEF Grant
        <5> HIDE DEF r
        <5>2. q \in Grant /\ q.status = "approved" /\ q.account = a
          BY <5>1 DEF Grant
        <5>3. grant'[g] = [q EXCEPT !.since = now]
          BY <4>6 DEF r
        <5> HIDE DEF q
        <5> QED BY <4>2, <5>2, <5>3, AccessAssumption DEF Grant
      <4>7. CASE grant[g].status = "pending" /\ grant'[g] = [grant[g] EXCEPT !.polled = now]
        BY <4>2, <4>3, <4>7 DEF Grant
      <4>8. CASE grant'[g] = Blank("gone")
        BY <4>8, AccessAssumption DEF Blank, Row, Grant
      <4> QED BY <4>1, <4>4, <4>5, <4>6, <4>7, <4>8 DEF GrantStep
    <3>2. grant' = [g \in Grants |-> grant'[g]]
      BY DEF Next, vars, worldVars, deviceVars, TypeOK, StartDevice, PollRefused,
             PollPending, CollectInterrupted, Polling, Approve, Collect, AbortIssue, BeginIssue,
             FinishIssue, Revoke, ResolveSidecar, ResolvePersonalStore, Join, Remove, Delete, Tick
    <3> QED BY <3>1, <3>2 DEF GrantsOK
  <2>3. KeysOK'
    <3>1. CASE key' = key
      BY <3>1 DEF KeysOK, TypeOK
    <3>2. CASE Collected
      <4>1. PICK g \in Grants, k \in Keys :
              grant[g].status = "approved" /\ Mint(k, grant[g].account, {}, g)
        BY <3>2 DEF Collected
      <4>2. grant[g].account \in Accounts
        BY <4>1 DEF TypeOK, Grant
      <4> QED BY <4>1, <4>2 DEF Mint, KeysOK, TypeOK, Key
    <3>3. CASE Issued
      <4>1. PICK c \in Conns, k \in Keys :
              /\ issuing[c] # None
              /\ Mint(k, issuing[c].who,
                      { s \in issuing[c].stores : issuing[c].who \in member[s] }, None)
        BY <3>3 DEF Issued
      <4>2. issuing[c].who \in Accounts /\ issuing[c].stores \subseteq Stores
        BY <4>1 DEF TypeOK, Issue
      <4> QED BY <4>1, <4>2 DEF Mint, KeysOK, TypeOK, Key
    <3>4. CASE Revoked
      <4>1. PICK k \in Keys : key[k] # None /\ key' = [key EXCEPT ![k].live = FALSE]
        BY <3>4 DEF Revoked
      <4>2. key[k] \in Key
        BY <4>1 DEF TypeOK
      <4>3. [key[k] EXCEPT !.live = FALSE] \in Key
        BY <4>2 DEF Key
      <4> QED BY <4>1, <4>3 DEF KeysOK, TypeOK
    <3> QED BY <3>1, <3>2, <3>3, <3>4, Steps
  <2>4. /\ member' \in [Stores -> SUBSET Accounts] /\ gone' \subseteq Stores
        /\ personal' \subseteq Accounts /\ sidecar' \subseteq Stores \cup Accounts
    <3>1. ASSUME NEW a \in Accounts, ResolvePersonalStore(a)
          PROVE UNCHANGED <<member, gone, sidecar>> /\ personal' \subseteq Accounts
      BY <3>1 DEF ResolvePersonalStore, TypeOK
    <3>2. ASSUME NEW k \in Keys, NEW b \in Stores \cup Accounts, ResolveSidecar(k, b)
          PROVE UNCHANGED <<member, gone, personal>> /\ sidecar' \subseteq Stores \cup Accounts
      BY <3>2 DEF ResolveSidecar, TypeOK
    <3>3. ASSUME NEW a \in Accounts, NEW s \in Stores, Join(a, s) \/ Remove(a, s)
          PROVE UNCHANGED <<gone, personal, sidecar>> /\ member' \in [Stores -> SUBSET Accounts]
      BY <3>3 DEF Join, Remove, TypeOK
    <3>4. ASSUME NEW s \in Stores, Delete(s)
          PROVE /\ UNCHANGED personal /\ member' \in [Stores -> SUBSET Accounts]
                /\ gone' \subseteq Stores /\ sidecar' \subseteq Stores \cup Accounts
      BY <3>4 DEF Delete, TypeOK
    <3>5. CASE UNCHANGED worldVars
      BY <3>5 DEF worldVars, TypeOK
    <3>6. \/ \E a \in Accounts : ResolvePersonalStore(a)
          \/ \E k \in Keys, b \in Stores \cup Accounts : ResolveSidecar(k, b)
          \/ \E a \in Accounts, s \in Stores : Join(a, s) \/ Remove(a, s)
          \/ \E s \in Stores : Delete(s)
          \/ UNCHANGED worldVars
      BY DEF Next, vars, StartDevice, PollRefused, PollPending, CollectInterrupted, Polling,
             Approve, Collect, AbortIssue, BeginIssue, FinishIssue, Revoke, Tick
    <3> QED BY <3>1, <3>2, <3>3, <3>4, <3>5, <3>6 DEF TypeOK
  <2>5. steady' \in [Grants -> BOOLEAN] /\ asked' \in [Grants -> BOOLEAN]
    <3>1. CASE Tick
      BY <3>1 DEF Tick, TypeOK
    <3>2. ASSUME NEW g \in Grants, Polling(g)
          PROVE steady' = steady /\ asked' \in [Grants -> BOOLEAN]
      BY <3>2 DEF Polling, TypeOK, Exists
    <3>3. CASE steady' = steady /\ asked' = asked
      BY <3>3 DEF TypeOK
    <3> QED BY <3>1, <3>2, <3>3 DEF Next, vars, deviceVars, TypeOK, StartDevice, PollRefused,
              PollPending, CollectInterrupted, Approve, Collect, AbortIssue, BeginIssue,
              FinishIssue, Revoke, ResolveSidecar, ResolvePersonalStore, Join, Remove, Delete
  <2>6. issuing' \in [Conns -> Issue \cup {None}]
    BY DEF Next, vars, TypeOK, StartDevice, PollRefused,
           PollPending, CollectInterrupted, Polling, Approve, Collect, AbortIssue, BeginIssue,
           FinishIssue, Revoke, ResolveSidecar, ResolvePersonalStore, Join, Remove, Delete, Tick
  <2> QED BY <2>1, <2>2, <2>3, <2>4, <2>5, <2>6 DEF TypeOK, GrantsOK, KeysOK
<1> QED BY <1>1, <1>2, PTL DEF Spec

(* At most one key comes out of a grant, and none before it has ended      *)
(* (pollDeviceToken consumes the row it delivers).                         *)
THEOREM DeliveryCorrect == Spec => []SingleDelivery
<1>1. Init => SingleDelivery
  BY DEF Init, SingleDelivery
<1>2. TypeOK /\ TypeOK' /\ SingleDelivery /\ [Next]_vars => SingleDelivery'
  <2> SUFFICES ASSUME TypeOK, TypeOK', SingleDelivery, [Next]_vars,
                      NEW j \in Keys, NEW k \in Keys, key'[j] # None, key'[j].origin # None
               PROVE /\ grant'[key'[j].origin].status = "gone"
                     /\ key'[k] # None /\ key'[k].origin = key'[j].origin => j = k
    BY DEF SingleDelivery
  <2>1. \A g \in Grants : grant[g].status = "gone" => grant'[g].status = "gone"
    BY Steps DEF GrantStep
  <2>2. \A i \in Keys : key[i] # None => key[i].origin \in Grants \cup {None}
    BY DEF TypeOK, Key
  <2>3. CASE key' = key
    BY <2>1, <2>2, <2>3 DEF SingleDelivery
  <2>4. CASE Revoked
    <3>1. PICK i \in Keys : key[i] # None /\ key' = [key EXCEPT ![i].live = FALSE]
      BY <2>4 DEF Revoked
    <3>2. \A h \in Keys : h # i => key'[h] = key[h]
      BY <3>1 DEF TypeOK
    <3>3. key'[i] = [key[i] EXCEPT !.live = FALSE] /\ key[i] \in Key
      BY <3>1 DEF TypeOK
    <3>4. key'[i].origin = key[i].origin
      BY <3>3 DEF Key
    <3>5. \A h \in Keys : key'[h] # None => key[h] # None /\ key'[h].origin = key[h].origin
      BY <3>1, <3>2, <3>4
    <3>6. key[j] # None /\ key[j].origin = key'[j].origin /\ key[j].origin \in Grants
      BY <3>5, <2>2
    <3>7. grant'[key'[j].origin].status = "gone"
      BY <3>6, <2>1 DEF SingleDelivery
    <3>8. key'[k] # None /\ key'[k].origin = key'[j].origin => j = k
      BY <3>5, <3>6 DEF SingleDelivery
    <3> QED BY <3>7, <3>8
  <2>5. CASE Issued
    <3>1. PICK i \in Keys : /\ key[i] = None /\ (key'[i] # None => key'[i].origin = None)
                            /\ \A h \in Keys : h # i => key'[h] = key[h]
      BY <2>5 DEF Issued, Mint, TypeOK
    <3> QED BY <2>1, <2>2, <3>1 DEF SingleDelivery
  <2>6. CASE Collected
    <3>1. PICK g \in Grants, i \in Keys :
            grant[g].status = "approved" /\ grant'[g] = Blank("gone")
            /\ Mint(i, grant[g].account, {}, g)
      BY <2>6 DEF Collected
    <3>2. key[i] = None /\ key'[i].origin = g /\ \A h \in Keys : h # i => key'[h] = key[h]
      BY <3>1 DEF Mint, TypeOK
    <3>3. \A h \in Keys : key[h] # None /\ key[h].origin # None => key[h].origin # g
      BY <3>1 DEF SingleDelivery
    <3>4. grant'[g].status = "gone"
      BY <3>1 DEF Blank, Row
    <3> QED BY <2>1, <2>2, <3>2, <3>3, <3>4 DEF SingleDelivery
  <2> QED BY <2>3, <2>4, <2>5, <2>6, Steps
<1> QED BY <1>1, <1>2, TypeCorrect, PTL DEF Spec

(* An approval stands, and the key goes to the account that gave it. *)
THEOREM ApprovalCorrect == Spec => ApprovalSticks
<1>1. TypeOK /\ TypeOK' /\ [Next]_vars => ApprovalStands
  <2> SUFFICES ASSUME TypeOK, TypeOK', [Next]_vars, NEW g \in Grants, grant[g].status = "approved"
               PROVE /\ grant'[g].account \in {grant[g].account, None}
                     /\ \A k \in Keys : key[k] = None /\ key'[k] # None /\ key'[k].origin = g =>
                          key'[k].account = grant[g].account
    BY DEF ApprovalStands
  <2>1. grant'[g].account \in {grant[g].account, None}
    <3>1. GrantStep(g)
      BY Steps
    <3>2. CASE grant'[g] = Blank("gone")
      BY <3>2 DEF Blank, Row
    <3> QED BY <3>1, <3>2 DEF GrantStep
  <2>2. ASSUME NEW k \in Keys, key[k] = None, key'[k] # None, key'[k].origin = g
        PROVE key'[k].account = grant[g].account
    <3>1. CASE Collected
      BY <2>2, <3>1 DEF Collected, Mint, TypeOK
    <3>2. CASE Issued
      BY <2>2, <3>2, AccessAssumption DEF Issued, Mint, TypeOK
    <3>3. ~Revoked
      BY <2>2 DEF Revoked, TypeOK
    <3> QED BY <2>2, <3>1, <3>2, <3>3, Steps
  <2> QED BY <2>1, <2>2
<1>2. TypeOK /\ TypeOK' /\ [Next]_vars => [ApprovalStands]_vars
  BY <1>1
<1> QED BY <1>2, TypeCorrect, PTL DEF Spec, ApprovalSticks

(* Keys are issued for memberships that hold when they take effect. *)
THEOREM IssueCorrect == Spec => NoStaleScope
<1>1. TypeOK /\ [Next]_vars => IssuedForMembers
  <2> SUFFICES ASSUME TypeOK, [Next]_vars, NEW k \in Keys, key[k] = None, key'[k] # None
               PROVE \A s \in key'[k].scopes : key'[k].account \in member[s]
    BY DEF IssuedForMembers
  <2>1. CASE Collected
    BY <2>1 DEF Collected, Mint, TypeOK
  <2>2. CASE Issued
    BY <2>2 DEF Issued, Mint, TypeOK
  <2>3. ~Revoked
    BY DEF Revoked, TypeOK
  <2> QED BY <2>1, <2>2, <2>3, Steps
<1>2. TypeOK /\ [Next]_vars => [IssuedForMembers]_vars
  BY <1>1
<1> QED BY <1>2, TypeCorrect, PTL DEF Spec, NoStaleScope

(* Inductive strengthening of ScopeNeverWidens: no step touches the scope  *)
(* rows of a key.                                                          *)
ScopesKept == \A k \in Keys : key[k] # None => key[k].scopes = key[k].granted

(* A scoped key never reaches more than it was issued for. *)
THEOREM ScopeCorrect == Spec => []ScopeNeverWidens
<1>1. Init => ScopesKept
  BY DEF Init, ScopesKept
<1>2. TypeOK /\ ScopesKept /\ [Next]_vars => ScopesKept'
  <2> SUFFICES ASSUME TypeOK, ScopesKept, [Next]_vars, NEW k \in Keys, key'[k] # None
               PROVE key'[k].scopes = key'[k].granted
    BY DEF ScopesKept
  <2>1. CASE key' = key
    BY <2>1 DEF ScopesKept
  <2>2. CASE Collected
    BY <2>2 DEF Collected, Mint, ScopesKept, TypeOK
  <2>3. CASE Issued
    BY <2>3 DEF Issued, Mint, ScopesKept, TypeOK
  <2>4. CASE Revoked
    BY <2>4 DEF Revoked, ScopesKept, TypeOK, Key
  <2> QED BY <2>1, <2>2, <2>3, <2>4, Steps
<1>3. TypeOK /\ ScopesKept => ScopeNeverWidens
  BY DEF ScopesKept, ScopeNeverWidens, MayReach, Covers, Unscoped
<1> QED BY <1>1, <1>2, <1>3, TypeCorrect, PTL DEF Spec

(* Inductive strengthening of ServedInTime. What a grant remembers lies in *)
(* the past, and an approved one was last granted a poll before its        *)
(* approval: so a poll it refuses comes within Interval of that, and the   *)
(* unit that makes the wait too long is one the device has not polled in.  *)
Dated(g) ==
  /\ grant[g].polled # None => grant[g].polled <= now
  /\ grant[g].status = "approved" =>
       /\ grant[g].since \in Time /\ grant[g].since <= now
       /\ grant[g].polled # None => grant[g].polled <= grant[g].since

InPace(g) ==
  grant[g].status = "approved" /\ steady[g] /\ ~Expired(g) =>
    /\ now <= grant[g].since + Interval
    /\ asked[g] => now < grant[g].since + Interval

PaceInv == \A g \in Grants : Dated(g) /\ InPace(g)

(* No step but a tick moves the clock, and then no grant changes.          *)
LEMMA Clock ==
  ASSUME [Next]_vars
  PROVE  now' = now \/ Tick
BY DEF Next, vars, worldVars, deviceVars, StartDevice, PollRefused, PollPending,
       CollectInterrupted, Polling, Approve, Collect, AbortIssue, BeginIssue,
       FinishIssue, Revoke, ResolveSidecar, ResolvePersonalStore, Join, Remove, Delete

(* A step that is no tick leaves the history of a grant alone, or is a     *)
(* poll of it: a poll that leaves an approved row as it is came too soon   *)
(* or too late.                                                            *)
LEMMA Polls ==
  ASSUME TypeOK, [Next]_vars, ~Tick, NEW g \in Grants
  PROVE  /\ steady'[g] = steady[g]
         /\ \/ asked'[g] = asked[g]
            \/ grant'[g].status # "approved"
            \/ grant'[g] = grant[g] /\ (Expired(g) \/ TooSoon(g))
<1> USE DEF TypeOK
<1>1. ASSUME NEW h \in Grants, PollRefused(h)
      PROVE /\ steady' = steady
            /\ \/ asked'[g] = asked[g]
               \/ grant'[g].status # "approved"
               \/ grant'[g] = grant[g] /\ (Expired(g) \/ TooSoon(g))
  <2>1. steady' = steady /\ grant' = grant /\ (h # g => asked'[g] = asked[g])
    BY <1>1 DEF PollRefused, Polling
  <2>2. CASE h = g
    BY <1>1, <2>1, <2>2 DEF PollRefused, Exists
  <2> QED BY <2>1, <2>2
<1>2. ASSUME NEW h \in Grants, PollPending(h) \/ CollectInterrupted(h) \/ \E k \in Keys : Collect(h, k)
      PROVE steady' = steady /\ (asked'[g] = asked[g] \/ grant'[g].status # "approved")
  <2>1. steady' = steady /\ (h # g => asked'[g] = asked[g])
    BY <1>2 DEF PollPending, CollectInterrupted, Collect, Polling
  <2>2. grant'[h].status # "approved"
    <3>1. CASE PollPending(h)
      <4>1. grant[h] \in Grant /\ grant[h].status = "pending"
        BY <3>1 DEF PollPending, Pending
      <4>2. grant'[h] = [grant[h] EXCEPT !.polled = now]
        BY <3>1 DEF PollPending
      <4> QED BY <4>1, <4>2 DEF Grant
    <3>2. CASE grant'[h] = Blank("gone")
      BY <3>2 DEF Blank, Row
    <3> QED BY <1>2, <3>1, <3>2 DEF CollectInterrupted, Collect
  <2> QED BY <2>1, <2>2
<1>3. CASE steady' = steady /\ asked' = asked
  BY <1>3
<1> QED BY <1>1, <1>2, <1>3 DEF Next, vars, deviceVars, StartDevice, Approve, AbortIssue,
           BeginIssue, FinishIssue, Revoke, ResolveSidecar, ResolvePersonalStore, Join,
           Remove, Delete

(* A device that polls in every unit of time has its key an interval after *)
(* the approval: refusing polls that come too soon starves nobody.         *)
THEOREM PaceCorrect == Spec => []ServedInTime
<1>1. Init => PaceInv
  BY DEF Init, PaceInv, Dated, InPace, Blank, Row
<1>2. TypeOK /\ TypeOK' /\ PaceInv /\ [Next]_vars => PaceInv'
  <2> SUFFICES ASSUME TypeOK, TypeOK', PaceInv, [Next]_vars, NEW g \in Grants
               PROVE Dated(g)' /\ InPace(g)'
    BY DEF PaceInv
  <2>1. /\ grant[g] \in Grant /\ now \in Time /\ now' \in Time
        /\ Time \subseteq Int /\ None \notin Int /\ Interval \in Int /\ Interval >= 1
        /\ steady[g] \in BOOLEAN /\ asked[g] \in BOOLEAN
    BY AccessAssumption DEF TypeOK, Time
  <2>2. Dated(g) /\ InPace(g)
    BY DEF PaceInv
  <2>3. CASE Tick
    <3>1. now' = now + 1 /\ grant' = grant /\ asked'[g] = FALSE
      BY <2>3 DEF Tick
    <3>2. steady'[g] => steady[g] /\ (Exists(g) => asked[g])
      BY <2>3 DEF Tick
    <3>3. Dated(g)'
      <4>1. now <= now'
        BY <2>1, <3>1
      <4>2. grant[g].polled # None => grant[g].polled \in Int
        BY <2>1 DEF Grant
      <4>3. grant[g].status = "approved" => grant[g].since \in Int
        BY <2>1, <2>2 DEF Dated
      <4> QED BY <2>1, <2>2, <3>1, <4>1, <4>2, <4>3 DEF Dated
    <3>4. ASSUME grant[g].status = "approved", steady'[g], ~(Expired(g))'
          PROVE now' <= grant[g].since + Interval
      <4>1. asked[g] /\ steady[g]
        BY <3>2, <3>4 DEF Exists
      <4>2. ~Expired(g)
        BY <2>1, <3>1, <3>4, AccessAssumption DEF Expired, Grant
      <4>3. now < grant[g].since + Interval /\ grant[g].since \in Int
        BY <2>1, <2>2, <3>4, <4>1, <4>2 DEF InPace, Dated
      <4> QED BY <2>1, <3>1, <4>3
    <3> QED BY <3>1, <3>3, <3>4 DEF InPace
  <2>4. CASE ~Tick
    <3>1. now' = now /\ GrantStep(g)
      BY <2>4, Clock, Steps
    <3>2. CASE grant'[g] = grant[g]
      <4>1. Dated(g)'
        BY <2>2, <3>1, <3>2 DEF Dated
      <4>2. (Expired(g))' <=> Expired(g)
        BY <3>1, <3>2 DEF Expired
      <4>3. CASE asked'[g] = asked[g]
        BY <2>2, <2>4, <3>1, <3>2, <4>1, <4>2, <4>3, Polls DEF InPace
      <4>4. CASE Expired(g)
        BY <4>1, <4>2, <4>4 DEF InPace
      <4>5. CASE TooSoon(g)
        <5>1. grant[g].status = "approved" => now < grant[g].since + Interval
          BY <2>1, <2>2, <4>5 DEF TooSoon, Dated, Grant
        <5>2. grant[g].status = "approved" => grant[g].since \in Int
          BY <2>1, <2>2 DEF Dated
        <5> QED BY <2>1, <3>1, <3>2, <4>1, <5>1, <5>2 DEF InPace
      <4>6. CASE grant'[g].status # "approved"
        BY <4>1, <4>6 DEF InPace
      <4> QED BY <2>4, <4>3, <4>4, <4>5, <4>6, Polls
    <3>3. CASE grant'[g] = Row("pending", None, now + Lifetime, None, None) \/ grant'[g] = Blank("gone")
      BY <3>3 DEF Row, Blank, Dated, InPace
    <3>4. ASSUME NEW a \in Accounts,
                 grant'[g] = [grant[g] EXCEPT !.status = "approved", !.account = a, !.since = now]
          PROVE Dated(g)' /\ InPace(g)'
      <4>1. grant[g].polled # None => grant[g].polled \in Int /\ grant[g].polled <= now
        BY <2>1, <2>2 DEF Dated, Grant
      <4> DEFINE r == [grant[g] EXCEPT !.status = "approved"]
                 q == [r EXCEPT !.account = a]
      <4>2. r \in Grant /\ r.polled = grant[g].polled
        BY <2>1 DEF Grant
      <4> HIDE DEF r
      <4>3. q \in Grant /\ q.polled = grant[g].polled
        BY <4>2 DEF Grant
      <4>4. grant'[g] = [q EXCEPT !.since = now]
        BY <3>4 DEF r
      <4> HIDE DEF q
      <4>5. grant'[g].since = now /\ grant'[g].polled = grant[g].polled
        BY <4>3, <4>4 DEF Grant
      <4>6. Dated(g)'
        BY <2>1, <3>1, <4>1, <4>5 DEF Dated
      <4>7. InPace(g)'
        BY <2>1, <3>1, <4>5 DEF InPace
      <4> QED BY <4>6, <4>7
    <3>5. CASE grant[g].status = "pending" /\ grant'[g] = [grant[g] EXCEPT !.polled = now]
      <4>1. grant'[g].status = "pending" /\ grant'[g].polled = now
        BY <2>1, <3>5 DEF Grant
      <4> QED BY <2>1, <3>1, <4>1 DEF Dated, InPace
    <3> QED BY <3>1, <3>2, <3>3, <3>4, <3>5 DEF GrantStep
  <2> QED BY <2>3, <2>4
<1>3. PaceInv => ServedInTime
  BY DEF PaceInv, InPace, ServedInTime
<1> QED BY <1>1, <1>2, <1>3, TypeCorrect, PTL DEF Spec

-----------------------------------------------------------------------------
(* Login                                                                   *)

(* The accounts: addresses at Google are apart and none is a retired one;  *)
(* every row has an address somebody has or had, and one that carries an   *)
(* identity an address of that identity.                                   *)
AddressesOK ==
  /\ gmail \in [Subs -> Emails]
  /\ \A s, q \in Subs : gmail[s] = gmail[q] => s = q
  /\ \A s \in Subs : gmail[s] \notin retired

RowsOK ==
  /\ account \in Seq(AccountRow)
  /\ \A i \in DOMAIN account : \E q \in Subs : account[i].email \in retired \cup {gmail[q]}
  /\ \A i \in DOMAIN account : account[i].sub \in Subs =>
       account[i].email \in retired \cup {gmail[account[i].sub]}
  /\ \A i, j \in DOMAIN account : account[i].email = account[j].email => i = j
  /\ \A i, j \in DOMAIN account :
       account[i].sub = account[j].sub /\ account[i].sub \in Subs => i = j

(* The account an identity was first given carries that identity or a      *)
(* GitHub login, and an address of it; nobody else was given it. Another   *)
(* row carries the identity only when the first has a GitHub login; and a  *)
(* row with a GitHub login is given by its address to nobody but one who   *)
(* had none before.                                                        *)
FirstOK ==
  /\ first \in [Subs -> Nat \cup {Absent}]
  /\ \A s \in Subs : first[s] # Absent =>
       /\ first[s] \in DOMAIN account
       /\ account[first[s]].sub \in {s, "github"}
       /\ account[first[s]].email \in retired \cup {gmail[s]}
  /\ \A s, q \in Subs : first[s] = first[q] /\ first[s] # Absent => s = q
  /\ \A i \in DOMAIN account : account[i].sub \in Subs =>
       /\ first[account[i].sub] # Absent
       /\ first[account[i].sub] = i \/ account[first[account[i].sub]].sub = "github"
  /\ \A i \in DOMAIN account, s \in Subs :
       account[i].sub = "github" /\ account[i].email = gmail[s] => first[s] \in {Absent, i}

AccountsOK == AddressesOK /\ RowsOK /\ FirstOK

(* The accounts an identity was given: none, or its own.                   *)
Held == [s \in Subs |-> IF first[s] = Absent THEN {} ELSE Own(s)]

HeldKept == \A s \in Subs : Held[s] \subseteq Held'[s]

SessionOK == jar.acct # Absent => jar.acct.id \in Held[jar.acct.sub]

(* The browser: the types its steps need, and who a callback is about.     *)
TabsOK(ts) ==
  /\ ts \in [Tabs -> Tab]
  /\ \A t \in Tabs : ts[t].at = "resolving" => ts[t].sub \in Subs

BrowserOK == logins \in Nat /\ jar \in Jar /\ TabsOK(tab)

IInv == AccountsOK /\ BrowserOK /\ SessionOK

-----------------------------------------------------------------------------
(* No row loses an identity, so no identity loses an account.              *)
LEMMA Kept ==
  ASSUME FirstOK, \A q \in Subs : first[q] # Absent => first'[q] = first[q],
         DOMAIN account \subseteq DOMAIN account',
         \A j \in DOMAIN account : account[j].sub # Absent => account'[j].sub = account[j].sub
  PROVE  HeldKept
<1> USE LoginAssumption
<1> SUFFICES ASSUME NEW q \in Subs, first[q] # Absent, NEW x \in Own(q)
             PROVE  x \in Own(q)' /\ first'[q] # Absent
  BY DEF HeldKept, Held
<1>1. first'[q] = first[q] /\ first[q] \in DOMAIN account /\ first'[q] # Absent
  BY DEF FirstOK
<1>2. CASE x = first[q]
  BY <1>1, <1>2 DEF Own
<1>3. CASE x # first[q]
  <2>1. account[first[q]].sub = "github" /\ x \in DOMAIN account /\ account[x].sub = q
    BY <1>3 DEF Own, BySub
  <2>2. account'[first[q]].sub = "github" /\ account'[x].sub = q /\ x \in DOMAIN account'
    BY <1>1, <2>1
  <2> QED BY <1>1, <2>2 DEF Own, BySub
<1> QED BY <1>1, <1>2, <1>3

(* Who has no row with the identity was never given an account, or one     *)
(* with a GitHub login.                                                    *)
LEMMA WithoutSub ==
  ASSUME AccountsOK, NEW s \in Subs, BySub(s) = {}, first[s] # Absent
  PROVE  account[first[s]].sub = "github"
BY DEF AccountsOK, FirstOK, BySub

(* The row of one's address carries no other's identity.                   *)
LEMMA AddressRow ==
  ASSUME AccountsOK, NEW s \in Subs, BySub(s) = {}, NEW i \in ByEmail(gmail[s])
  PROVE  /\ i \in DOMAIN account /\ i \in Nat /\ account[i].email = gmail[s]
         /\ account[i].sub \in {Absent, "github"}
         /\ Found(s) = {i} /\ IdGiven(s) = i
<1> USE LoginAssumption DEF AccountsOK
<1>1. i \in DOMAIN account /\ account[i].email = gmail[s]
  BY DEF ByEmail
<1>2. ByEmail(gmail[s]) = {i}
  BY <1>1 DEF ByEmail, RowsOK
<1>3. account[i].sub \notin Subs
  BY <1>1 DEF RowsOK, AddressesOK, BySub
<1>4. account[i].sub \in {Absent, "github"} /\ i \in Nat
  <2>1. account[i] \in AccountRow /\ i \in Nat
    BY <1>1 DEF RowsOK
  <2> QED BY <1>3, <2>1 DEF AccountRow
<1>5. Found(s) = {i} /\ IdGiven(s) = i
  BY <1>2 DEF Found, IdGiven
<1> QED BY <1>1, <1>4, <1>5

(* The row found by the identity, or by the address of a GitHub login, is  *)
(* given as it is.                                                         *)
LEMMA GivenAsIs ==
  ASSUME AccountsOK, NEW s \in Subs, GiveAccount(s), NEW i \in DOMAIN account, i \in Nat,
         Found(s) = {i}, IdGiven(s) = i,
         \/ account[i].sub = s
         \/ account[i].sub = "github" /\ account[i].email = gmail[s]
  PROVE  AccountsOK' /\ i \in Held'[s] /\ HeldKept
<1> USE LoginAssumption DEF AccountsOK
<1>1. /\ first' = [first EXCEPT ![s] = IF first[s] = Absent THEN i ELSE first[s]]
      /\ account' = Upserted(s) /\ gmail' = gmail /\ retired' = retired
  BY DEF GiveAccount
<1>2. account' = account
  <2>1. Upserted(s) = [j \in DOMAIN account |-> account[j]]
    BY DEF Upserted
  <2> QED BY <1>1, <2>1 DEF RowsOK
<1>3. /\ first' \in [Subs -> Nat \cup {Absent}]
      /\ \A q \in Subs : first'[q] = IF q = s /\ first[s] = Absent THEN i ELSE first[q]
  BY <1>1 DEF FirstOK
<1>4. i # Absent
  BY DEF FirstOK
<1>5. ASSUME first[s] = Absent
      PROVE  /\ account[i].sub = "github" /\ account[i].email = gmail[s]
             /\ \A q \in Subs : first[q] # i
  <2>1. account[i].sub = "github" /\ account[i].email = gmail[s]
    BY <1>5 DEF FirstOK
  <2>2. ASSUME NEW q \in Subs, first[q] = i PROVE FALSE
    <3>1. gmail[s] \in retired \cup {gmail[q]}
      BY <2>1, <2>2, <1>4 DEF FirstOK
    <3>2. s = q
      BY <3>1 DEF AddressesOK
    <3> QED BY <1>4, <1>5, <2>2, <3>2
  <2> QED BY <2>1, <2>2
<1>6. FirstOK'
  <2>1. ASSUME NEW q \in Subs, first'[q] # Absent
        PROVE  /\ first'[q] \in DOMAIN account
               /\ account[first'[q]].sub \in {q, "github"}
               /\ account[first'[q]].email \in retired \cup {gmail[q]}
    <3>1. CASE q = s /\ first[s] = Absent
      BY <1>3, <1>5, <3>1
    <3>2. CASE ~(q = s /\ first[s] = Absent)
      BY <1>3, <2>1, <3>2 DEF FirstOK
    <3> QED BY <3>1, <3>2
  <2>2. ASSUME NEW p \in Subs, NEW q \in Subs, first'[p] = first'[q], first'[p] # Absent
        PROVE  p = q
    BY <1>3, <1>4, <1>5, <2>2 DEF FirstOK
  <2>3. ASSUME NEW j \in DOMAIN account, account[j].sub \in Subs
        PROVE  /\ first'[account[j].sub] # Absent
               /\ first'[account[j].sub] = j \/ account[first'[account[j].sub]].sub = "github"
    BY <1>3, <2>3 DEF FirstOK
  <2>4. ASSUME NEW j \in DOMAIN account, NEW q \in Subs,
               account[j].sub = "github", account[j].email = gmail[q]
        PROVE  first'[q] \in {Absent, j}
    <3>1. CASE q = s /\ first[s] = Absent
      <4>1. i = j
        BY <1>5, <2>4, <3>1 DEF RowsOK
      <4> QED BY <1>3, <3>1, <4>1
    <3>2. CASE ~(q = s /\ first[s] = Absent)
      <4>1. first'[q] = first[q]
        BY <1>3, <3>2
      <4>2. first[q] \in {Absent, j}
        BY <2>4 DEF FirstOK
      <4> QED BY <4>1, <4>2
    <3> QED BY <3>1, <3>2
  <2> QED BY <1>1, <1>2, <1>3, <2>1, <2>2, <2>3, <2>4 DEF FirstOK
<1>7. AddressesOK' /\ RowsOK'
  BY <1>1, <1>2 DEF AddressesOK, RowsOK
<1>8. HeldKept
  BY <1>2, <1>3, Kept
<1>9. i \in Held'[s]
  <2>1. CASE first[s] = Absent
    BY <1>3, <1>4, <2>1 DEF Held, Own
  <2>2. CASE first[s] # Absent
    <3>1. i \in Own(s)
      <4>1. CASE account[i].sub = s
        BY <2>2, <4>1 DEF FirstOK, Own, BySub
      <4>2. CASE account[i].sub = "github" /\ account[i].email = gmail[s]
        BY <2>2, <4>2 DEF FirstOK, Own
      <4> QED BY <4>1, <4>2
    <3>2. i \in Held[s]
      BY <2>2, <3>1 DEF Held
    <3> QED BY <1>8, <3>2 DEF HeldKept
  <2> QED BY <2>1, <2>2
<1> QED BY <1>6, <1>7, <1>8, <1>9

(* The row found by the address has no identity yet: it is attached.       *)
LEMMA GivenAttached ==
  ASSUME AccountsOK, NEW s \in Subs, GiveAccount(s), BySub(s) = {},
         NEW i \in DOMAIN account, i \in Nat, Found(s) = {i}, IdGiven(s) = i,
         account[i].sub = Absent, account[i].email = gmail[s]
  PROVE  AccountsOK' /\ i \in Held'[s] /\ HeldKept
<1> USE LoginAssumption DEF AccountsOK
<1>1. /\ first' = [first EXCEPT ![s] = IF first[s] = Absent THEN i ELSE first[s]]
      /\ account' = Upserted(s) /\ gmail' = gmail /\ retired' = retired
  BY DEF GiveAccount
<1>2. RowOf(gmail[s], s) \in AccountRow /\ RowOf(gmail[s], s).sub = s /\ RowOf(gmail[s], s).email = gmail[s]
  BY DEF RowOf, AccountRow, AddressesOK
<1>3. account' = [account EXCEPT ![i] = RowOf(gmail[s], s)]
  <2>1. Upserted(s) = [j \in DOMAIN account |->
                         IF j = i THEN RowOf(gmail[s], s) ELSE account[j]]
    BY DEF Upserted
  <2> QED BY <1>1, <2>1 DEF RowsOK
<1>4. account' \in Seq(AccountRow) /\ DOMAIN account' = DOMAIN account
  BY <1>2, <1>3 DEF RowsOK
<1>5. \A j \in DOMAIN account :
        /\ account'[j].email = account[j].email
        /\ account'[j].sub = IF j = i THEN s ELSE account[j].sub
  BY <1>2, <1>3 DEF RowsOK
<1>6. \A j \in DOMAIN account : account[j].sub # s
  BY DEF BySub
<1>7. /\ first' \in [Subs -> Nat \cup {Absent}]
      /\ \A q \in Subs : first'[q] = IF q = s /\ first[s] = Absent THEN i ELSE first[q]
  BY <1>1 DEF FirstOK
<1>8. i # Absent /\ \A q \in Subs : first[q] # i
  BY DEF FirstOK
<1>9. RowsOK'
  <2>1. \A j \in DOMAIN account : account'[j].sub \in Subs =>
          account'[j].email \in retired \cup {gmail[account'[j].sub]}
    BY <1>5 DEF RowsOK
  <2>2. \A j \in DOMAIN account : \E q \in Subs : account'[j].email \in retired \cup {gmail[q]}
    BY <1>5 DEF RowsOK
  <2>3. \A j, k \in DOMAIN account : account'[j].email = account'[k].email => j = k
    BY <1>5 DEF RowsOK
  <2>4. \A j, k \in DOMAIN account :
          account'[j].sub = account'[k].sub /\ account'[j].sub \in Subs => j = k
    BY <1>5, <1>6 DEF RowsOK
  <2> QED BY <1>1, <1>4, <2>1, <2>2, <2>3, <2>4 DEF RowsOK
<1>10. FirstOK'
  <2>1. ASSUME NEW q \in Subs, first'[q] # Absent
        PROVE  /\ first'[q] \in DOMAIN account
               /\ account'[first'[q]].sub \in {q, "github"}
               /\ account'[first'[q]].email \in retired \cup {gmail[q]}
    <3>1. CASE q = s /\ first[s] = Absent
      BY <1>5, <1>7, <3>1
    <3>2. CASE ~(q = s /\ first[s] = Absent)
      <4>1. first'[q] = first[q] /\ first[q] \in DOMAIN account /\ first[q] # i
        BY <1>7, <1>8, <2>1, <3>2 DEF FirstOK
      <4> QED BY <1>5, <2>1, <4>1 DEF FirstOK
    <3> QED BY <3>1, <3>2
  <2>2. ASSUME NEW p \in Subs, NEW q \in Subs, first'[p] = first'[q], first'[p] # Absent
        PROVE  p = q
    BY <1>7, <1>8, <2>2 DEF FirstOK
  <2>3. ASSUME NEW j \in DOMAIN account, account'[j].sub \in Subs
        PROVE  /\ first'[account'[j].sub] # Absent
               /\ first'[account'[j].sub] = j \/ account'[first'[account'[j].sub]].sub = "github"
    <3>1. CASE j = i /\ first[s] = Absent
      BY <1>5, <1>7, <1>8, <3>1
    <3>2. CASE j = i /\ first[s] # Absent
      <4>1. account'[j].sub = s /\ first'[s] = first[s] /\ first[s] \in DOMAIN account /\ first[s] # i
        BY <1>5, <1>7, <1>8, <3>2 DEF FirstOK
      <4>2. account[first[s]].sub = "github"
        BY <3>2, WithoutSub
      <4> QED BY <1>5, <3>2, <4>1, <4>2
    <3>3. CASE j # i
      <4>1. account'[j].sub = account[j].sub /\ account[j].sub # s
        BY <1>5, <1>6, <3>3
      <4>2. first'[account[j].sub] = first[account[j].sub]
        BY <1>7, <2>3, <4>1
      <4>3. first[account[j].sub] \in DOMAIN account /\ first[account[j].sub] # i
        BY <1>8, <2>3, <4>1 DEF FirstOK
      <4> QED BY <1>5, <2>3, <4>1, <4>2, <4>3 DEF FirstOK
    <3> QED BY <3>1, <3>2, <3>3
  <2>4. ASSUME NEW j \in DOMAIN account, NEW q \in Subs,
               account'[j].sub = "github", account'[j].email = gmail[q]
        PROVE  first'[q] \in {Absent, j}
    <3>1. j # i
      BY <1>5, <2>4
    <3>2. q # s
      BY <1>5, <2>4, <3>1 DEF RowsOK
    <3> QED BY <1>5, <1>7, <2>4, <3>1, <3>2 DEF FirstOK
  <2> QED BY <1>1, <1>4, <1>7, <2>1, <2>2, <2>3, <2>4 DEF FirstOK
<1>11. HeldKept
  BY <1>4, <1>5, <1>7, Kept
<1>12. i \in Held'[s]
  <2>1. CASE first[s] = Absent
    BY <1>7, <1>8, <2>1 DEF Held, Own
  <2>2. CASE first[s] # Absent
    <3>1. first'[s] = first[s] /\ account[first[s]].sub = "github" /\ first[s] \in DOMAIN account
      BY <1>7, <2>2, WithoutSub DEF FirstOK
    <3>2. account'[first'[s]].sub = "github" /\ i \in BySub(s)'
      BY <1>4, <1>5, <1>8, <3>1 DEF BySub
    <3> QED BY <2>2, <3>1, <3>2 DEF Held, Own
  <2> QED BY <2>1, <2>2
<1>13. AddressesOK'
  BY <1>1 DEF AddressesOK
<1> QED BY <1>9, <1>10, <1>11, <1>12, <1>13

(* No row is found: a new one is made.                                     *)
LEMMA GivenNew ==
  ASSUME AccountsOK, NEW s \in Subs, GiveAccount(s), BySub(s) = {}, ByEmail(gmail[s]) = {}
  PROVE  AccountsOK' /\ IdGiven(s) \in Nat /\ IdGiven(s) \in Held'[s] /\ HeldKept
<1> USE LoginAssumption DEF AccountsOK
<1>1. PICK n \in Nat : n = Len(account) /\ DOMAIN account = 1..n
  BY DEF RowsOK
<1>2. /\ Found(s) = {} /\ IdGiven(s) = n + 1 /\ account' = Append(account, RowOf(gmail[s], s))
      /\ first' = [first EXCEPT ![s] = IF first[s] = Absent THEN n + 1 ELSE first[s]]
      /\ gmail' = gmail /\ retired' = retired
  BY <1>1 DEF Found, IdGiven, Upserted, GiveAccount
<1>3. RowOf(gmail[s], s) \in AccountRow /\ RowOf(gmail[s], s).sub = s /\ RowOf(gmail[s], s).email = gmail[s]
  BY DEF RowOf, AccountRow, AddressesOK
<1>4. /\ account' \in Seq(AccountRow) /\ DOMAIN account' = DOMAIN account \cup {n + 1}
      /\ \A j \in DOMAIN account : j # n + 1 /\ account'[j] = account[j]
      /\ account'[n + 1] = RowOf(gmail[s], s)
  BY <1>1, <1>2, <1>3 DEF RowsOK
<1>5. \A j \in DOMAIN account : account[j].email # gmail[s] /\ account[j].sub # s
  BY DEF BySub, ByEmail
<1>6. /\ first' \in [Subs -> Nat \cup {Absent}]
      /\ \A q \in Subs : first'[q] = IF q = s /\ first[s] = Absent THEN n + 1 ELSE first[q]
  BY <1>2 DEF FirstOK
<1>7. n + 1 # Absent /\ \A q \in Subs : first[q] # n + 1
  BY <1>4 DEF FirstOK
<1>8. RowsOK'
  <2>1. \A j \in DOMAIN account' :
          \/ j \in DOMAIN account /\ account'[j] = account[j]
          \/ j = n + 1 /\ account'[j].sub = s /\ account'[j].email = gmail[s]
    BY <1>3, <1>4
  <2>2. \A j, k \in DOMAIN account' : account'[j].email = account'[k].email => j = k
    BY <1>5, <2>1 DEF RowsOK
  <2>3. \A j \in DOMAIN account' : \E q \in Subs : account'[j].email \in retired \cup {gmail[q]}
    BY <2>1 DEF RowsOK
  <2>4. \A j \in DOMAIN account' : account'[j].sub \in Subs =>
          account'[j].email \in retired \cup {gmail[account'[j].sub]}
    BY <2>1 DEF RowsOK
  <2>5. \A j, k \in DOMAIN account' :
          account'[j].sub = account'[k].sub /\ account'[j].sub \in Subs => j = k
    BY <1>5, <2>1 DEF RowsOK
  <2> QED BY <1>2, <1>4, <2>2, <2>3, <2>4, <2>5 DEF RowsOK
<1>9. FirstOK'
  <2>1. ASSUME NEW q \in Subs, first'[q] # Absent
        PROVE  /\ first'[q] \in DOMAIN account'
               /\ account'[first'[q]].sub \in {q, "github"}
               /\ account'[first'[q]].email \in retired \cup {gmail[q]}
    <3>1. CASE q = s /\ first[s] = Absent
      BY <1>3, <1>4, <1>6, <3>1
    <3>2. CASE ~(q = s /\ first[s] = Absent)
      <4>1. first'[q] = first[q] /\ first[q] \in DOMAIN account
        BY <1>6, <2>1, <3>2 DEF FirstOK
      <4> QED BY <1>4, <2>1, <4>1 DEF FirstOK
    <3> QED BY <3>1, <3>2
  <2>2. ASSUME NEW p \in Subs, NEW q \in Subs, first'[p] = first'[q], first'[p] # Absent
        PROVE  p = q
    BY <1>6, <1>7, <2>2 DEF FirstOK
  <2>3. ASSUME NEW j \in DOMAIN account', account'[j].sub \in Subs
        PROVE  /\ first'[account'[j].sub] # Absent
               /\ first'[account'[j].sub] = j \/ account'[first'[account'[j].sub]].sub = "github"
    <3>1. CASE j = n + 1 /\ first[s] = Absent
      BY <1>3, <1>4, <1>6, <1>7, <3>1
    <3>2. CASE j = n + 1 /\ first[s] # Absent
      <4>1. account'[j].sub = s /\ first'[s] = first[s] /\ first[s] \in DOMAIN account
        BY <1>3, <1>4, <1>6, <3>2 DEF FirstOK
      <4>2. account[first[s]].sub = "github"
        BY <3>2, WithoutSub
      <4> QED BY <1>4, <3>2, <4>1, <4>2
    <3>3. CASE j \in DOMAIN account
      <4>1. account'[j] = account[j] /\ account[j].sub # s
        BY <1>4, <1>5, <3>3
      <4>2. first'[account[j].sub] = first[account[j].sub]
        BY <1>6, <2>3, <4>1
      <4>3. first[account[j].sub] \in DOMAIN account
        BY <2>3, <3>3, <4>1 DEF FirstOK
      <4> QED BY <1>4, <2>3, <3>3, <4>1, <4>2, <4>3 DEF FirstOK
    <3> QED BY <1>4, <3>1, <3>2, <3>3
  <2>4. ASSUME NEW j \in DOMAIN account', NEW q \in Subs,
               account'[j].sub = "github", account'[j].email = gmail[q]
        PROVE  first'[q] \in {Absent, j}
    <3>1. j \in DOMAIN account
      BY <1>3, <1>4, <2>4
    <3>2. q # s
      BY <1>4, <1>5, <2>4, <3>1
    <3> QED BY <1>4, <1>6, <2>4, <3>1, <3>2 DEF FirstOK
  <2> QED BY <1>2, <1>6, <2>1, <2>2, <2>3, <2>4 DEF FirstOK
<1>10. HeldKept
  BY <1>4, <1>6, Kept
<1>11. n + 1 \in Held'[s]
  <2>1. CASE first[s] = Absent
    BY <1>6, <1>7, <2>1 DEF Held, Own
  <2>2. CASE first[s] # Absent
    <3>1. first'[s] = first[s] /\ account[first[s]].sub = "github" /\ first[s] \in DOMAIN account
      BY <1>6, <2>2, WithoutSub DEF FirstOK
    <3>2. account'[first'[s]].sub = "github" /\ n + 1 \in BySub(s)'
      BY <1>3, <1>4, <3>1 DEF BySub
    <3> QED BY <2>2, <3>1, <3>2 DEF Held, Own
  <2> QED BY <2>1, <2>2
<1>12. AddressesOK'
  BY <1>2 DEF AddressesOK
<1> QED BY <1>2, <1>8, <1>9, <1>10, <1>11, <1>12

(* An identity that is given an account is given one of its own, and no    *)
(* identity loses one (accounts.ts:17-41).                                 *)
LEMMA Given ==
  ASSUME AccountsOK, NEW s \in Subs, GiveAccount(s)
  PROVE  AccountsOK' /\ IdGiven(s) \in Nat /\ IdGiven(s) \in Held'[s] /\ HeldKept
<1>1. CASE BySub(s) # {}
  <2>1. PICK i \in DOMAIN account : account[i].sub = s
    BY <1>1 DEF BySub
  <2>2. BySub(s) = {i} /\ i \in Nat
    BY <2>1 DEF BySub, AccountsOK, RowsOK
  <2>3. Found(s) = {i} /\ IdGiven(s) = i
    BY <2>2 DEF Found, IdGiven
  <2> QED BY <2>1, <2>2, <2>3, GivenAsIs
<1>2. CASE BySub(s) = {} /\ ByEmail(gmail[s]) # {}
  <2>1. PICK i \in ByEmail(gmail[s]) : TRUE
    BY <1>2
  <2>2. /\ i \in DOMAIN account /\ i \in Nat /\ account[i].email = gmail[s]
        /\ account[i].sub \in {Absent, "github"} /\ Found(s) = {i} /\ IdGiven(s) = i
    BY <1>2, <2>1, AddressRow
  <2>3. CASE account[i].sub = "github"
    BY <2>2, <2>3, GivenAsIs
  <2>4. CASE account[i].sub = Absent
    BY <1>2, <2>2, <2>4, GivenAttached
  <2> QED BY <2>2, <2>3, <2>4
<1>3. CASE BySub(s) = {} /\ ByEmail(gmail[s]) = {}
  BY <1>3, GivenNew
<1> QED BY <1>1, <1>2, <1>3

(* A tab with one part changed is a tab.                                   *)
LEMMA AtChanged ==
  ASSUME NEW v \in Tab, NEW a \in {"rest", "login", "google", "resolving", "landing"}
  PROVE  [v EXCEPT !.at = a] \in Tab /\ [v EXCEPT !.at = a].at = a
BY DEF Tab

LEMMA NonceChanged ==
  ASSUME NEW v \in Tab, NEW n \in Nat
  PROVE  [v EXCEPT !.nonce = n] \in Tab /\ [v EXCEPT !.nonce = n].at = v.at
BY DEF Tab

LEMMA SubChanged ==
  ASSUME NEW v \in Tab, NEW s \in Subs
  PROVE  [v EXCEPT !.sub = s] \in Tab /\ [v EXCEPT !.sub = s].sub = s
BY DEF Tab

LEMMA JoinChanged ==
  ASSUME NEW v \in Tab, NEW k \in Tokens \cup {Absent}
  PROVE  [v EXCEPT !.join = k] \in Tab /\ [v EXCEPT !.join = k].sub = v.sub
BY DEF Tab

LEMMA RetChanged ==
  ASSUME NEW v \in Tab, NEW p \in Pages \cup {Absent}
  PROVE  [v EXCEPT !.ret = p] \in Tab /\ [v EXCEPT !.ret = p].sub = v.sub
BY DEF Tab

LEMMA NextChanged ==
  ASSUME NEW v \in Tab, NEW d \in Goals
  PROVE  [v EXCEPT !.next = d] \in Tab /\ [v EXCEPT !.next = d].at = v.at
BY DEF Tab

(* Marking the others as crowded changes neither what they do nor whom     *)
(* they are about.                                                         *)
LEMMA CrowdedOK ==
  ASSUME NEW ts, TabsOK(ts), NEW t PROVE TabsOK(Crowded(ts, t))
<1>1. ASSUME NEW o \in Tabs
      PROVE  /\ Crowded(ts, t)[o] \in Tab
             /\ Crowded(ts, t)[o].at = ts[o].at /\ Crowded(ts, t)[o].sub = ts[o].sub
  <2>1. ts[o] \in Tab
    BY DEF TabsOK
  <2>2. CASE o # t /\ ts[o].at # "rest"
    BY <2>1, <2>2 DEF Crowded, Tab
  <2>3. CASE ~(o # t /\ ts[o].at # "rest")
    BY <2>1, <2>3 DEF Crowded
  <2> QED BY <2>2, <2>3
<1>2. Crowded(ts, t) \in [Tabs -> Tab]
  BY <1>1 DEF Crowded
<1> QED BY <1>1, <1>2 DEF TabsOK

LEMMA ReplacedOK ==
  ASSUME NEW ts, TabsOK(ts), NEW t \in Tabs,
         NEW w \in Tab, w.at = "resolving" => w.sub \in Subs
  PROVE  TabsOK([ts EXCEPT ![t] = w])
BY DEF TabsOK

(* Following a link keeps the session and the browser in order.            *)
LEMMA RequestOK ==
  ASSUME BrowserOK, NEW t \in Tabs, NEW d \in Goals, NEW w \in Tab, Request(t, w, d)
  PROVE  BrowserOK' /\ jar'.acct = jar.acct
<1> USE LoginAssumption DEF BrowserOK
<1>1. ASSUME jar.acct # Absent PROVE Rested(w, d, jar.acct.id) \in Tab /\ Rested(w, d, jar.acct.id).at = "rest"
  BY <1>1 DEF Rested, NewTab, Tab, Jar
<1>2. Begun(w) \in Tab /\ Begun(w).at = "google"
  <2>1. PICK n \in Nat : n = logins + 1
    OBVIOUS
  <2>2. PICK v \in Tab : v = [w EXCEPT !.at = "google"] /\ v.at = "google"
    <3>1. [w EXCEPT !.at = "google"] \in Tab /\ [w EXCEPT !.at = "google"].at = "google"
      BY AtChanged
    <3> QED BY <3>1
  <2>3. Begun(w) = [v EXCEPT !.nonce = n]
    BY <2>1, <2>2 DEF Begun
  <2>4. [v EXCEPT !.nonce = n] \in Tab /\ [v EXCEPT !.nonce = n].at = v.at
    BY <2>1, <2>2, NonceChanged
  <2> QED BY <2>2, <2>3, <2>4
<1>3. [w EXCEPT !.at = "login"] \in Tab /\ [w EXCEPT !.at = "login"].at = "login"
  BY AtChanged
<1>4. CASE d \in Tokens /\ JoinInvite(t, w, d)
  <2>1. CASE jar.acct # Absent
    <3>1. jar' = [jar EXCEPT !.join = Absent] /\ logins' = logins
          /\ tab' = Crowded([tab EXCEPT ![t] = Rested(w, d, jar.acct.id)], t)
      BY <1>4, <2>1 DEF JoinInvite
    <3>2. TabsOK(tab')
      BY <1>1, <2>1, <3>1, ReplacedOK, CrowdedOK
    <3>3. jar' \in Jar /\ jar'.acct = jar.acct
      BY <3>1 DEF Jar
    <3> QED BY <3>1, <3>2, <3>3 DEF TabsOK
  <2>2. CASE jar.acct = Absent
    <3>1. PICK n \in Nat : n = logins + 1
      OBVIOUS
    <3>2. jar' = [jar EXCEPT !.join = d, !.state = n] /\ logins' = n
          /\ tab' = Crowded([tab EXCEPT ![t] = Begun(w)], t)
      BY <1>4, <2>2, <3>1 DEF JoinInvite
    <3>3. TabsOK(tab')
      BY <1>2, <3>2, ReplacedOK, CrowdedOK
    <3>4. jar' \in Jar /\ jar'.acct = jar.acct
      BY <1>4, <3>2 DEF Jar
    <3> QED BY <3>2, <3>3, <3>4 DEF TabsOK
  <2> QED BY <2>1, <2>2
<1>5. CASE d \in Places /\ Page(t, w, d)
  <2>1. CASE jar.acct # Absent
    <3>1. jar' = jar /\ logins' = logins /\ tab' = [tab EXCEPT ![t] = Rested(w, d, jar.acct.id)]
      BY <1>5, <2>1 DEF Page
    <3>2. TabsOK(tab')
      BY <1>1, <2>1, <3>1, ReplacedOK
    <3> QED BY <3>1, <3>2 DEF TabsOK
  <2>2. CASE jar.acct = Absent
    <3>1. /\ jar' = IF d \in Pages THEN [jar EXCEPT !.ret = d] ELSE jar
          /\ logins' = logins
          /\ tab' = Crowded([tab EXCEPT ![t] = [w EXCEPT !.at = "login"]], t)
      BY <1>5, <2>2 DEF Page
    <3>2. TabsOK(tab')
      BY <1>3, <3>1, ReplacedOK, CrowdedOK
    <3>3. jar' \in Jar /\ jar'.acct = jar.acct
      BY <3>1 DEF Jar
    <3> QED BY <3>1, <3>2, <3>3 DEF TabsOK
  <2> QED BY <2>1, <2>2
<1> QED BY <1>4, <1>5 DEF Request

(* A step that ends a visit, dropping the state cookie or not.             *)
LEMMA RefusedOK ==
  ASSUME BrowserOK, NEW t \in Tabs, NEW p \in {"mismatch", "denied"}
  PROVE  /\ Refused(t, p) => BrowserOK' /\ jar'.acct = jar.acct
         /\ TabsOK([tab EXCEPT ![t] = Rested(tab[t], p, Absent)])
<1> USE LoginAssumption DEF BrowserOK
<1>1. Rested(tab[t], p, Absent) \in Tab /\ Rested(tab[t], p, Absent).at = "rest"
  <2>1. tab[t] \in Tab
    BY DEF TabsOK
  <2> QED BY <2>1 DEF Rested, NewTab, Tab
<1>2. TabsOK([tab EXCEPT ![t] = Rested(tab[t], p, Absent)])
  BY <1>1, ReplacedOK
<1>3. ASSUME Refused(t, p) PROVE BrowserOK' /\ jar'.acct = jar.acct
  <2>1. /\ jar' = [jar EXCEPT !.state = Absent] /\ logins' = logins
        /\ tab' = Crowded([tab EXCEPT ![t] = Rested(tab[t], p, Absent)], t)
    BY <1>3 DEF Refused
  <2>2. TabsOK(tab')
    BY <1>2, <2>1, CrowdedOK
  <2>3. jar' \in Jar /\ jar'.acct = jar.acct
    BY <2>1 DEF Jar
  <2> QED BY <2>1, <2>2, <2>3 DEF TabsOK
<1> QED BY <1>2, <1>3
-----------------------------------------------------------------------------
(* Every step keeps the accounts, the browser and the session's account.   *)
LEMMA Inductive == ASSUME IInv, [LoginNext]_loginVars PROVE IInv'
<1> USE LoginAssumption DEF IInv
(* A step that leaves accounts and session as they are keeps all of it.    *)
<1>0. ASSUME UNCHANGED Identities, BrowserOK', jar'.acct \in {Absent, jar.acct} PROVE IInv'
  BY <1>0 DEF Identities, AccountsOK, AddressesOK, RowsOK, FirstOK, SessionOK, Held, Own, BySub
<1>1. ASSUME NEW t \in Tabs, NEW d \in Goals, Visit(t, d) PROVE IInv'
  <2>1. PICK b \in BOOLEAN : Request(t, [NewTab EXCEPT !.goal = d, !.alone = b], d)
    BY <1>1 DEF Visit
  <2>2. [NewTab EXCEPT !.goal = d, !.alone = b] \in Tab
    BY DEF NewTab, Tab
  <2> QED BY <1>0, <1>1, <2>1, <2>2, RequestOK DEF Visit
<1>2. ASSUME NEW t \in Tabs, Land(t) PROVE IInv'
  <2>1. tab[t] \in Tab /\ Request(t, tab[t], tab[t].next) /\ UNCHANGED Identities
    BY <1>2 DEF Land, BrowserOK, TabsOK
  <2>2. tab[t].next \in Goals
    BY <2>1 DEF Request, Goals
  <2> QED BY <1>0, <2>1, <2>2, RequestOK
<1>3. ASSUME NEW t \in Tabs, LoginRoute(t) PROVE IInv'
  <2>1. PICK n \in Nat : n = logins + 1
    BY DEF BrowserOK
  <2>2. /\ logins' = n /\ jar' = [jar EXCEPT !.state = n] /\ UNCHANGED Identities
        /\ tab' = Crowded([tab EXCEPT ![t] = Begun(tab[t])], t)
    BY <1>3, <2>1 DEF LoginRoute
  <2>3. Begun(tab[t]) \in Tab /\ Begun(tab[t]).at = "google"
    <3>1. PICK v \in Tab : v = [tab[t] EXCEPT !.at = "google"] /\ v.at = "google"
      <4>1. [tab[t] EXCEPT !.at = "google"] \in Tab /\ [tab[t] EXCEPT !.at = "google"].at = "google"
        BY AtChanged DEF BrowserOK, TabsOK
      <4> QED BY <4>1
    <3>2. Begun(tab[t]) = [v EXCEPT !.nonce = n]
      BY <2>1, <3>1 DEF Begun
    <3>3. [v EXCEPT !.nonce = n] \in Tab /\ [v EXCEPT !.nonce = n].at = v.at
      BY <2>1, <3>1, NonceChanged
    <3> QED BY <3>1, <3>2, <3>3
  <2>4. TabsOK(tab')
    BY <2>2, <2>3, ReplacedOK, CrowdedOK DEF BrowserOK
  <2>5. jar' \in Jar /\ jar'.acct = jar.acct
    BY <2>2 DEF Jar, BrowserOK
  <2> QED BY <1>0, <2>2, <2>4, <2>5 DEF BrowserOK, TabsOK
<1>4. ASSUME NEW t \in Tabs, Mismatch(t) \/ Deny(t) \/ Unresolved(t) PROVE IInv'
  <2>1. PICK p \in {"mismatch", "denied"} : Refused(t, p)
    BY <1>4 DEF Mismatch, Deny, Unresolved
  <2> QED BY <1>0, <2>1, RefusedOK DEF Refused
<1>5. ASSUME NEW t \in Tabs, Thrown(t) PROVE IInv'
  <2>1. /\ tab' = [tab EXCEPT ![t] = Rested(tab[t], "denied", Absent)]
        /\ UNCHANGED <<Identities, jar, logins>>
    BY <1>5 DEF Thrown
  <2>2. TabsOK(tab')
    BY <2>1, RefusedOK
  <2> QED BY <1>0, <2>1, <2>2 DEF BrowserOK, TabsOK
<1>6. ASSUME NEW t \in Tabs, NEW s \in Subs, Callback(t, s) PROVE IInv'
  <2>1. /\ tab' = [tab EXCEPT ![t] = [@ EXCEPT !.at = "resolving", !.sub = s,
                                               !.join = jar.join, !.ret = jar.ret]]
        /\ UNCHANGED <<Identities, jar, logins>>
    BY <1>6 DEF Callback
  <2>0. tab[t] \in Tab /\ jar.join \in Tokens \cup {Absent} /\ jar.ret \in Pages \cup {Absent}
    BY DEF BrowserOK, TabsOK, Jar
  <2>2. PICK v \in Tab : v = [tab[t] EXCEPT !.at = "resolving"]
    <3>1. [tab[t] EXCEPT !.at = "resolving"] \in Tab
      BY <2>0, AtChanged
    <3> QED BY <3>1
  <2>3. PICK w \in Tab : w = [v EXCEPT !.sub = s] /\ w.sub = s
    <3>1. [v EXCEPT !.sub = s] \in Tab /\ [v EXCEPT !.sub = s].sub = s
      BY SubChanged
    <3> QED BY <3>1
  <2>4. PICK x \in Tab : x = [w EXCEPT !.join = jar.join] /\ x.sub = s
    <3>1. [w EXCEPT !.join = jar.join] \in Tab /\ [w EXCEPT !.join = jar.join].sub = w.sub
      BY <2>0, <2>3, JoinChanged
    <3> QED BY <2>3, <3>1
  <2>5. PICK y \in Tab : y = [x EXCEPT !.ret = jar.ret] /\ y.sub = s
    <3>1. [x EXCEPT !.ret = jar.ret] \in Tab /\ [x EXCEPT !.ret = jar.ret].sub = x.sub
      BY <2>0, <2>4, RetChanged
    <3> QED BY <2>4, <3>1
  <2>6. tab' = [tab EXCEPT ![t] = y]
    BY <2>1, <2>2, <2>3, <2>4, <2>5
  <2>7. TabsOK(tab')
    BY <2>5, <2>6, ReplacedOK DEF BrowserOK
  <2> QED BY <1>0, <2>1, <2>7 DEF BrowserOK, TabsOK
<1>7. ASSUME NEW t \in Tabs, Resolve(t) PROVE IInv'
  <2> DEFINE to == Landing(tab[t])
             s == tab[t].sub
  <2>1. /\ GiveAccount(s) /\ logins' = logins
        /\ jar' = [acct |-> [id |-> IdGiven(s), sub |-> s], state |-> Absent,
                   join |-> IF to \in Tokens THEN Absent ELSE jar.join,
                   ret |-> IF to \in Pages THEN Absent ELSE jar.ret]
        /\ tab' = Crowded([tab EXCEPT ![t].at = "landing", ![t].next = to], t)
    BY <1>7 DEF Resolve
  <2>2. s \in Subs /\ tab[t] \in Tab /\ to \in Goals
    BY <1>7 DEF Resolve, BrowserOK, TabsOK, Tab, Landing, Goals, Places
  <2>3. AccountsOK' /\ IdGiven(s) \in Nat /\ IdGiven(s) \in Held'[s]
    BY <2>1, <2>2, Given
  <2>4. jar' \in Jar /\ jar'.acct.id \in Held'[jar'.acct.sub]
    BY <2>1, <2>2, <2>3 DEF Jar, BrowserOK
  <2>5. TabsOK(tab')
    <3>1. PICK v \in Tab : v = [tab[t] EXCEPT !.at = "landing"] /\ v.at = "landing"
      <4>1. [tab[t] EXCEPT !.at = "landing"] \in Tab /\ [tab[t] EXCEPT !.at = "landing"].at = "landing"
        BY <2>2, AtChanged
      <4> QED BY <4>1
    <3>2. PICK w \in Tab : w = [v EXCEPT !.next = to] /\ w.at = "landing"
      <4>1. [v EXCEPT !.next = to] \in Tab /\ [v EXCEPT !.next = to].at = "landing"
        BY <2>2, <3>1, NextChanged
      <4> QED BY <4>1
    <3>3. [tab EXCEPT ![t].at = "landing", ![t].next = to] = [tab EXCEPT ![t] = w]
      BY <3>1, <3>2 DEF BrowserOK, TabsOK
    <3> HIDE DEF to
    <3>4. TabsOK([tab EXCEPT ![t] = w])
      BY <3>2, ReplacedOK DEF BrowserOK
    <3> QED BY <2>1, <3>3, <3>4, CrowdedOK
  <2> QED BY <2>1, <2>3, <2>4, <2>5 DEF BrowserOK, TabsOK, SessionOK
<1>8. ASSUME NEW t \in Tabs, Abandon(t) PROVE IInv'
  <2>1. /\ GiveAccount(tab[t].sub) /\ UNCHANGED <<jar, logins>>
        /\ tab' = [tab EXCEPT ![t] = NewTab] /\ tab[t].sub \in Subs
    BY <1>8 DEF Abandon, BrowserOK, TabsOK
  <2>2. AccountsOK' /\ HeldKept
    BY <2>1, Given
  <2>3. NewTab \in Tab /\ NewTab.at = "rest"
    BY DEF NewTab, Tab
  <2>4. TabsOK(tab')
    BY <2>1, <2>3, ReplacedOK DEF BrowserOK
  <2>5. SessionOK'
    BY <2>1, <2>2 DEF SessionOK, HeldKept, BrowserOK, Jar
  <2> QED BY <2>1, <2>2, <2>4, <2>5 DEF BrowserOK, TabsOK
<1>9. ASSUME NEW c \in {"acct", "state", "join", "ret"}, Expire(c) PROVE IInv'
  <2>1. jar' = [jar EXCEPT ![c] = Absent] /\ tab' = Crowded(tab, Absent)
        /\ UNCHANGED <<Identities, logins>>
    BY <1>9 DEF Expire
  <2>2. TabsOK(tab')
    BY <2>1, CrowdedOK DEF BrowserOK
  <2>3. jar' \in Jar /\ jar'.acct \in {Absent, jar.acct}
    <3>1. CASE c = "acct"
      BY <2>1, <3>1 DEF BrowserOK, Jar
    <3>2. CASE c = "state"
      BY <2>1, <3>2 DEF BrowserOK, Jar
    <3>3. CASE c = "join"
      BY <2>1, <3>3 DEF BrowserOK, Jar
    <3>4. CASE c = "ret"
      BY <2>1, <3>4 DEF BrowserOK, Jar
    <3> QED BY <3>1, <3>2, <3>3, <3>4
  <2> QED BY <1>0, <2>1, <2>2, <2>3 DEF BrowserOK, TabsOK
<1>10. ASSUME NEW s \in Subs, NEW e \in Emails, ChangeAddress(s, e) PROVE IInv'
  <2>1. /\ gmail' = [gmail EXCEPT ![s] = e] /\ retired' = retired \cup {gmail[s]}
        /\ e \notin retired /\ \A q \in Subs : e # gmail[q]
        /\ UNCHANGED <<account, jar, tab, logins, first>>
    BY <1>10 DEF ChangeAddress
  <2>2. AddressesOK'
    <3>1. \A q \in Subs : gmail'[q] = IF q = s THEN e ELSE gmail[q]
      BY <2>1 DEF AccountsOK, AddressesOK
    <3> QED BY <2>1, <3>1 DEF AccountsOK, AddressesOK
  <2>3. RowsOK'
    <3>1. \A q \in Subs : gmail[q] \in retired' \cup {gmail'[q]}
      BY <2>1 DEF AccountsOK, AddressesOK
    <3> QED BY <2>1, <3>1 DEF AccountsOK, RowsOK
  <2>4. FirstOK'
    <3>1. \A q \in Subs : /\ retired \cup {gmail[q]} \subseteq retired' \cup {gmail'[q]}
                        /\ q # s => gmail'[q] = gmail[q]
      BY <2>1 DEF AccountsOK, AddressesOK
    <3>2. \A i \in DOMAIN account : account[i].email # gmail'[s]
      BY <2>1 DEF AccountsOK, AddressesOK, RowsOK
    <3> QED BY <2>1, <3>1, <3>2 DEF AccountsOK, FirstOK
  <2>5. SessionOK'
    BY <2>1 DEF SessionOK, Held, Own, BySub
  <2> QED BY <2>1, <2>2, <2>3, <2>4, <2>5 DEF AccountsOK, BrowserOK, TabsOK
<1>11. CASE UNCHANGED loginVars
  BY <1>0, <1>11 DEF loginVars, Identities, BrowserOK, TabsOK
<1> QED BY <1>1, <1>2, <1>3, <1>4, <1>5, <1>6, <1>7, <1>8, <1>9, <1>10, <1>11 DEF LoginNext

(* What the accounts and the browser do not fix of the types.              *)
Rest == retired \subseteq Emails /\ lost \in Nat

LEMMA RestOK == ASSUME IInv, Rest, [LoginNext]_loginVars PROVE Rest'
<1>1. CASE lost' = lost \/ lost' = lost + 1
  <2>1. retired' = retired \/ \E s \in Subs : retired' = retired \cup {gmail[s]}
    BY DEF LoginNext, loginVars, Identities, GiveAccount, Visit, Callback, LoginRoute, Mismatch, Deny,
           Unresolved, Thrown, Refused, Resolve, Abandon, Land, Expire, ChangeAddress
  <2>2. \A s \in Subs : gmail[s] \in Emails
    BY DEF IInv, AccountsOK, AddressesOK
  <2> QED BY <1>1, <2>1, <2>2 DEF Rest
<1>2. lost' = lost \/ lost' = lost + 1
  BY DEF LoginNext, loginVars, Identities, GiveAccount, Visit, Callback, LoginRoute, Mismatch, Deny,
         Unresolved, Thrown, Refused, Resolve, Abandon, Land, Expire, ChangeAddress
<1> QED BY <1>1, <1>2

LEMMA Initial == LoginInit => IInv
<1> SUFFICES ASSUME LoginInit PROVE IInv
  OBVIOUS
<1> USE LoginAssumption DEF LoginInit
<1>1. PICK o \in Old : account = o
  OBVIOUS
<1>2. account \in Seq(AccountRow) /\ \A i \in DOMAIN account : account[i].sub \notin Subs
  BY <1>1
<1>3. RowsOK
  BY <1>1, <1>2 DEF RowsOK
<1>4. AccountsOK
  BY <1>2, <1>3 DEF AccountsOK, AddressesOK, FirstOK
<1>5. NewTab \in Tab /\ NewTab.at = "rest"
  BY DEF NewTab, Tab
<1>6. BrowserOK
  BY <1>5 DEF BrowserOK, TabsOK, Jar
<1> QED BY <1>4, <1>6 DEF IInv, SessionOK

LEMMA Invariant == LoginSpec => []IInv
BY Initial, Inductive, PTL DEF LoginSpec

(* Each variable has its type, whatever logins, cookies and addresses do.  *)
THEOREM LoginTypeCorrect == LoginSpec => []LoginTypeOK
<1>1. LoginInit => Rest
  BY DEF LoginInit, Rest
<1>2. IInv /\ Rest /\ [LoginNext]_loginVars => Rest'
  BY RestOK
<1>3. IInv /\ Rest => LoginTypeOK
  BY DEF IInv, AccountsOK, AddressesOK, RowsOK, FirstOK, BrowserOK, TabsOK, Rest, LoginTypeOK
<1> QED BY <1>1, <1>2, <1>3, Invariant, PTL DEF LoginSpec

(* Whoever signs in is given one account for good, for any number of tabs, *)
(* identities and changes of address; only who began with a row migrated   *)
(* from GitHub may be given a second one (accounts.ts:17-41).              *)
THEOREM AccountCorrect == LoginSpec => []AccountKept
<1>1. IInv => AccountKept
  BY DEF IInv, SessionOK, Held, AccountKept, BrowserOK, Jar
<1> QED BY <1>1, Invariant, PTL

(* No two rows share an address or an identity, and no two people an       *)
(* account (accounts.ts:17-41).                                            *)
THEOREM PersonsCorrect == LoginSpec => []OnePersonEach
<1>1. IInv => OnePersonEach
  <2> SUFFICES ASSUME IInv PROVE OnePersonEach
    OBVIOUS
  <2> USE LoginAssumption DEF IInv, AccountsOK
  <2>1. \A i, j \in DOMAIN account :
          i # j => /\ account[i].email # account[j].email
                   /\ account[i].sub = account[j].sub => account[i].sub \in {Absent, "github"}
    <3>1. \A i \in DOMAIN account : account[i] \in AccountRow
      BY DEF RowsOK
    <3>2. \A i \in DOMAIN account : account[i].sub \in Subs \cup {Absent, "github"}
      BY <3>1 DEF AccountRow
    <3>3. \A i, j \in DOMAIN account :
            /\ account[i].email = account[j].email => i = j
            /\ account[i].sub = account[j].sub /\ account[i].sub \in Subs => i = j
      BY DEF RowsOK
    <3> QED BY <3>2, <3>3
  <2>2. ASSUME NEW s \in Subs, NEW q \in Subs, s # q, NEW x \in Own(s), x \in Own(q), x # Absent
        PROVE  FALSE
    <3>1. CASE x = first[s] /\ x = first[q]
      <4>1. \A u, v \in Subs : first[u] = first[v] /\ first[u] # Absent => u = v
        BY DEF FirstOK
      <4> QED BY <2>2, <3>1, <4>1
    <3>2. CASE x = first[s] /\ x # first[q]
      BY <2>2, <3>2 DEF FirstOK, Own, BySub
    <3>3. CASE x # first[s] /\ x = first[q]
      BY <2>2, <3>3 DEF FirstOK, Own, BySub
    <3>4. CASE x # first[s] /\ x # first[q]
      BY <2>2, <3>4 DEF Own, BySub
    <3> QED BY <3>1, <3>2, <3>3, <3>4
  <2> QED BY <2>1, <2>2 DEF OnePersonEach
<1> QED BY <1>1, Invariant, PTL
-----------------------------------------------------------------------------
(* What a visit w that has the cookies j for itself relies on at each of   *)
(* its stops, given the accounts f everyone holds: the stashes lead where  *)
(* it set out for, the state cookie is its own, and so is the session it   *)
(* comes back with.                                                        *)
Arriving(w, j, f) ==
  w.alone =>
    /\ w.at = "rest" /\ w.goal # Absent /\ w.page # "denied" =>
         w.page = w.goal /\ (w.sub # Absent => w.who \in f[w.sub])
    /\ w.at \in {"login", "google"} => Landing(j) = w.goal
    /\ w.at = "google" => j.state = w.nonce
    /\ w.at = "resolving" => Landing(w) = w.goal
    /\ w.at = "landing" => w.next = w.goal /\ j.acct # Absent /\ j.acct.sub = w.sub

AllArriving == \A t \in Tabs : Arriving(tab[t], jar, Held)

(* A visit at rest depends on the accounts alone.                          *)
LEMMA AtRest ==
  ASSUME NEW w \in Tab, w.at = "rest", Arriving(w, jar, Held), HeldKept
  PROVE  Arriving(w, jar', Held')
BY DEF Arriving, HeldKept, Tab

(* A step that touches the cookies marks the visits on their way, and one  *)
(* that does not leaves them what they rely on.                            *)
LEMMA OtherCrowded ==
  ASSUME BrowserOK, AllArriving, HeldKept, NEW ts, NEW t, NEW o \in Tabs,
         o # t, ts[o] = tab[o], tab' = Crowded(ts, t)
  PROVE  Arriving(tab'[o], jar', Held')
<1>1. tab[o] \in Tab /\ Arriving(tab[o], jar, Held)
  BY DEF BrowserOK, TabsOK, AllArriving
<1>2. CASE tab[o].at = "rest"
  <2>1. tab'[o] = tab[o]
    BY <1>2 DEF Crowded
  <2> QED BY <1>1, <1>2, <2>1, AtRest
<1>3. CASE tab[o].at # "rest"
  <2>1. tab'[o] = [tab[o] EXCEPT !.alone = FALSE]
    BY <1>3 DEF Crowded
  <2>2. ~tab'[o].alone
    BY <1>1, <2>1 DEF Tab
  <2> QED BY <2>2 DEF Arriving
<1> QED BY <1>2, <1>3

LEMMA OtherLeft ==
  ASSUME BrowserOK, AllArriving, HeldKept, NEW o \in Tabs, tab'[o] = tab[o], jar' = jar
  PROVE  Arriving(tab'[o], jar', Held')
<1>1. tab[o] \in Tab /\ Arriving(tab[o], jar, Held)
  BY DEF BrowserOK, TabsOK, AllArriving
<1>2. CASE tab[o].at = "rest"
  BY <1>1, <1>2, AtRest
<1>3. CASE tab[o].at # "rest"
  BY <1>1, <1>3 DEF Arriving
<1> QED BY <1>2, <1>3

(* The tab that moved, and the others.                                     *)
LEMMA Moved ==
  ASSUME BrowserOK, AllArriving, HeldKept, NEW t \in Tabs, NEW w,
         \/ tab' = Crowded([tab EXCEPT ![t] = w], t)
         \/ tab' = [tab EXCEPT ![t] = w] /\ jar' = jar,
         Arriving(w, jar', Held')
  PROVE  AllArriving'
<1> SUFFICES ASSUME NEW o \in Tabs PROVE Arriving(tab'[o], jar', Held')
  BY DEF AllArriving
<1>1. tab'[t] = w
  BY DEF Crowded, BrowserOK, TabsOK
<1>2. CASE o = t
  BY <1>1, <1>2
<1>3. CASE o # t /\ tab' = Crowded([tab EXCEPT ![t] = w], t)
  <2>1. [tab EXCEPT ![t] = w][o] = tab[o]
    BY <1>3 DEF BrowserOK, TabsOK
  <2> QED BY <1>3, <2>1, OtherCrowded
<1>4. CASE o # t /\ tab' = [tab EXCEPT ![t] = w] /\ jar' = jar
  <2>1. tab'[o] = tab[o]
    BY <1>4 DEF BrowserOK, TabsOK
  <2> QED BY <1>4, <2>1, OtherLeft
<1> QED BY <1>2, <1>3, <1>4

(* A link is followed: with a session the visit is where it wanted to be,  *)
(* without one the cookies say so.                                         *)
LEMMA FollowOK ==
  ASSUME IInv, AllArriving, UNCHANGED Identities,
         NEW t \in Tabs, NEW d \in Goals, NEW w \in Tab, Request(t, w, d),
         w.alone => /\ w.goal = d
                    /\ IF jar.acct # Absent THEN w.sub # Absent => jar.acct.sub = w.sub
                       ELSE Clear(d)
  PROVE  AllArriving'
<1> USE LoginAssumption DEF Goals, Places
<1>0. BrowserOK /\ Held' = Held /\ HeldKept /\ jar \in Jar /\ logins \in Nat
  BY DEF IInv, BrowserOK, Identities, HeldKept, Held, Own, BySub
<1>1. ASSUME jar.acct # Absent PROVE Arriving(Rested(w, d, jar.acct.id), jar', Held')
  <2> DEFINE r == Rested(w, d, jar.acct.id)
  <2>1. /\ r.at = "rest" /\ r.page = d /\ r.who = jar.acct.id /\ r.goal = w.goal
        /\ r.sub = w.sub /\ r.alone = w.alone
    BY DEF Rested, NewTab
  <2>2. jar.acct.id \in Held[jar.acct.sub]
    BY <1>1 DEF IInv, SessionOK
  <2>3. w.alone /\ w.sub # Absent => jar.acct.id \in Held'[w.sub]
    BY <1>0, <1>1, <2>2
  <2>4. w.alone => w.goal = d
    OBVIOUS
  <2> HIDE DEF r
  <2>5. Arriving(r, jar', Held')
    BY <2>1, <2>3, <2>4 DEF Arriving
  <2> QED BY <2>5 DEF r
<1>2. CASE d \in Tokens /\ JoinInvite(t, w, d) /\ jar.acct # Absent
  <2>1. tab' = Crowded([tab EXCEPT ![t] = Rested(w, d, jar.acct.id)], t)
    BY <1>2 DEF JoinInvite
  <2> QED BY <1>0, <1>1, <1>2, <2>1, Moved
<1>3. CASE d \in Tokens /\ JoinInvite(t, w, d) /\ jar.acct = Absent
  <2>1. jar' = [jar EXCEPT !.join = d, !.state = logins + 1]
        /\ tab' = Crowded([tab EXCEPT ![t] = Begun(w)], t)
    BY <1>3 DEF JoinInvite
  <2>2. Landing(jar') = d /\ jar'.state = logins + 1
    BY <1>0, <1>3, <2>1 DEF Landing, Jar
  <2>3. /\ Begun(w).at = "google" /\ Begun(w).nonce = logins + 1
        /\ Begun(w).goal = w.goal /\ Begun(w).alone = w.alone
    BY DEF Begun, Tab
  <2>4. Arriving(Begun(w), jar', Held')
    BY <2>2, <2>3 DEF Arriving
  <2> QED BY <1>0, <2>1, <2>4, Moved
<1>4. CASE d \in Places /\ Page(t, w, d) /\ jar.acct # Absent
  <2>1. jar' = jar /\ tab' = [tab EXCEPT ![t] = Rested(w, d, jar.acct.id)]
    BY <1>4 DEF Page
  <2> QED BY <1>0, <1>1, <1>4, <2>1, Moved
<1>5. CASE d \in Places /\ Page(t, w, d) /\ jar.acct = Absent
  <2>1. /\ jar' = IF d \in Pages THEN [jar EXCEPT !.ret = d] ELSE jar
        /\ tab' = Crowded([tab EXCEPT ![t] = [w EXCEPT !.at = "login"]], t)
    BY <1>5 DEF Page
  <2>2. Clear(d) => Landing(jar') = d
    <3>1. CASE d \in Pages
      <4>1. jar'.join = jar.join /\ jar'.ret = d
        BY <1>0, <2>1, <3>1 DEF Jar
      <4> QED BY <3>1, <4>1 DEF Landing, Clear
    <3>2. CASE d \notin Pages
      BY <1>5, <2>1, <3>2 DEF Landing, Clear
    <3> QED BY <3>1, <3>2
  <2> DEFINE v == [w EXCEPT !.at = "login"]
  <2>3. v.at = "login" /\ v.goal = w.goal /\ v.alone = w.alone
    BY DEF Tab
  <2>4. tab' = Crowded([tab EXCEPT ![t] = v], t)
    BY <2>1
  <2> HIDE DEF v
  <2>5. Arriving(v, jar', Held')
    BY <1>5, <2>2, <2>3 DEF Arriving
  <2> QED BY <1>0, <2>4, <2>5, Moved
<1> QED BY <1>2, <1>3, <1>4, <1>5 DEF Request

(* A visit Google or the cookie turned away rests.                         *)
LEMMA TurnedAway ==
  ASSUME NEW w \in Tab, NEW j, NEW f, NEW p, p = "denied" \/ ~w.alone
  PROVE  Arriving(Rested(w, p, Absent), j, f)
BY DEF Arriving, Rested, NewTab

LEMMA ArrivalSteps == ASSUME IInv, AllArriving, [LoginNext]_loginVars PROVE AllArriving'
<1> USE LoginAssumption
<1>0. BrowserOK /\ jar \in Jar /\ logins \in Nat /\ \A t \in Tabs : tab[t] \in Tab /\ Arriving(tab[t], jar, Held)
  BY DEF IInv, BrowserOK, TabsOK, AllArriving
<1>00. UNCHANGED Identities => HeldKept
  BY DEF Identities, HeldKept, Held, Own, BySub
<1>1. ASSUME NEW t \in Tabs, NEW d \in Goals, Visit(t, d) PROVE AllArriving'
  <2> DEFINE w == [NewTab EXCEPT !.goal = d, !.alone = Clear(d) \/ jar.acct # Absent]
  <2>1. w.goal = d /\ w.sub = Absent /\ (w.alone => Clear(d) \/ jar.acct # Absent)
    BY DEF NewTab
  <2>2. PICK b \in BOOLEAN : w = [NewTab EXCEPT !.goal = d, !.alone = b]
    OBVIOUS
  <2>3. w \in Tab
    BY <2>2 DEF NewTab, Tab
  <2>4. Request(t, w, d) /\ UNCHANGED Identities
    BY <1>1 DEF Visit
  <2> HIDE DEF w
  <2> QED BY <2>1, <2>3, <2>4, FollowOK
<1>2. ASSUME NEW t \in Tabs, Land(t) PROVE AllArriving'
  <2>1. /\ Request(t, tab[t], tab[t].next) /\ UNCHANGED Identities /\ tab[t].at = "landing"
        /\ tab[t].next \in Goals
    BY <1>2 DEF Land, Request, Goals
  <2>2. tab[t].alone => /\ tab[t].goal = tab[t].next /\ jar.acct # Absent
                        /\ jar.acct.sub = tab[t].sub
    BY <1>0, <2>1 DEF Arriving
  <2> QED BY <1>0, <2>1, <2>2, FollowOK
<1>3. ASSUME NEW t \in Tabs, LoginRoute(t) PROVE AllArriving'
  <2>1. /\ jar' = [jar EXCEPT !.state = logins + 1] /\ HeldKept /\ tab[t].at = "login"
        /\ tab' = Crowded([tab EXCEPT ![t] = Begun(tab[t])], t)
    BY <1>3, <1>00 DEF LoginRoute
  <2>2. /\ Begun(tab[t]).at = "google" /\ Begun(tab[t]).nonce = logins + 1
        /\ Begun(tab[t]).goal = tab[t].goal /\ Begun(tab[t]).alone = tab[t].alone
    BY <1>0 DEF Begun, Tab
  <2>3. Landing(jar') = Landing(jar) /\ jar'.state = logins + 1
    BY <1>0, <2>1 DEF Landing, Jar
  <2>4. Arriving(Begun(tab[t]), jar', Held')
    BY <1>0, <2>1, <2>2, <2>3 DEF Arriving
  <2> QED BY <1>0, <2>1, <2>4, Moved
<1>4. ASSUME NEW t \in Tabs, Mismatch(t) \/ Deny(t) \/ Unresolved(t) PROVE AllArriving'
  <2>1. PICK p \in {"mismatch", "denied"} : Refused(t, p) /\ (p = "denied" \/ Mismatch(t))
    BY <1>4 DEF Mismatch, Deny, Unresolved
  <2>2. p = "denied" \/ ~tab[t].alone
    BY <1>0, <2>1 DEF Mismatch, Arriving
  <2>3. tab' = Crowded([tab EXCEPT ![t] = Rested(tab[t], p, Absent)], t) /\ HeldKept
    BY <1>00, <2>1 DEF Refused
  <2>4. Arriving(Rested(tab[t], p, Absent), jar', Held')
    BY <1>0, <2>2, TurnedAway
  <2> QED BY <1>0, <2>3, <2>4, Moved
<1>5. ASSUME NEW t \in Tabs, Thrown(t) PROVE AllArriving'
  <2>1. tab' = [tab EXCEPT ![t] = Rested(tab[t], "denied", Absent)] /\ jar' = jar /\ HeldKept
    BY <1>00, <1>5 DEF Thrown
  <2>2. Arriving(Rested(tab[t], "denied", Absent), jar', Held')
    BY <1>0, TurnedAway
  <2> QED BY <1>0, <2>1, <2>2, Moved
<1>6. ASSUME NEW t \in Tabs, NEW s \in Subs, Callback(t, s) PROVE AllArriving'
  <2> DEFINE v == [tab[t] EXCEPT !.at = "resolving", !.sub = s,
                                 !.join = jar.join, !.ret = jar.ret]
  <2>1. tab' = [tab EXCEPT ![t] = v] /\ jar' = jar /\ HeldKept /\ tab[t].at = "google"
    BY <1>00, <1>6 DEF Callback
  <2>2. v.at = "resolving" /\ v.goal = tab[t].goal /\ v.alone = tab[t].alone
        /\ v.join = jar.join /\ v.ret = jar.ret
    BY <1>0 DEF Tab
  <2> HIDE DEF v
  <2>3. Landing(v) = Landing(jar)
    BY <2>2 DEF Landing
  <2>4. Arriving(v, jar', Held')
    BY <1>0, <2>1, <2>2, <2>3 DEF Arriving
  <2> QED BY <1>0, <2>1, <2>4, Moved
<1>7. ASSUME NEW t \in Tabs, Resolve(t) PROVE AllArriving'
  <2> DEFINE s == tab[t].sub
             v == [tab[t] EXCEPT !.at = "landing", !.next = Landing(tab[t])]
  <2>1. /\ GiveAccount(s) /\ jar'.acct = [id |-> IdGiven(s), sub |-> s]
        /\ tab' = Crowded([tab EXCEPT ![t].at = "landing", ![t].next = Landing(tab[t])], t)
        /\ tab[t].at = "resolving" /\ s \in Subs
    BY <1>0, <1>7 DEF Resolve, BrowserOK, TabsOK
  <2>2. HeldKept /\ IdGiven(s) \in Nat
    BY <2>1, Given DEF HeldKept, IInv
  <2>3. [tab EXCEPT ![t].at = "landing", ![t].next = Landing(tab[t])] = [tab EXCEPT ![t] = v]
    BY <1>0 DEF BrowserOK, TabsOK
  <2>4. v.at = "landing" /\ v.next = Landing(tab[t]) /\ v.goal = tab[t].goal
        /\ v.alone = tab[t].alone /\ v.sub = s
    BY <1>0 DEF Tab
  <2>5. jar'.acct # Absent /\ jar'.acct.sub = s
    BY <2>1, <2>2, AbsentAssumption
  <2> HIDE DEF v, s
  <2>6. tab[t].alone => Landing(tab[t]) = tab[t].goal
    BY <1>0, <2>1 DEF Arriving
  <2>7. Arriving(v, jar', Held')
    BY ONLY <2>4, <2>5, <2>6 DEF Arriving
  <2> QED BY <1>0, <2>1, <2>2, <2>3, <2>7, Moved
<1>8. ASSUME NEW t \in Tabs, Abandon(t) PROVE AllArriving'
  <2>1. /\ GiveAccount(tab[t].sub) /\ jar' = jar /\ tab' = [tab EXCEPT ![t] = NewTab]
        /\ tab[t].sub \in Subs
    BY <1>0, <1>8 DEF Abandon, BrowserOK, TabsOK
  <2>2. HeldKept
    BY <2>1, Given DEF HeldKept, IInv
  <2>3. Arriving(NewTab, jar', Held')
    BY DEF Arriving, NewTab
  <2> QED BY <1>0, <2>1, <2>2, <2>3, Moved
<1>9. ASSUME NEW c \in {"acct", "state", "join", "ret"}, Expire(c) PROVE AllArriving'
  <2>1. tab' = Crowded(tab, Absent) /\ HeldKept
    BY <1>00, <1>9 DEF Expire
  <2>2. \A o \in Tabs : o # Absent
    BY AbsentAssumption
  <2> QED BY <1>0, <2>1, <2>2, OtherCrowded DEF AllArriving
<1>10. ASSUME UNCHANGED <<tab, jar, Held>> PROVE AllArriving'
  BY <1>10 DEF AllArriving
<1>11. (\E s \in Subs, e \in Emails : ChangeAddress(s, e)) \/ UNCHANGED loginVars
         => UNCHANGED <<tab, jar, Held>>
  <2>1. UNCHANGED <<account, first>> => UNCHANGED Held
    BY DEF Held, Own, BySub
  <2>2. (\E s \in Subs, e \in Emails : ChangeAddress(s, e)) \/ UNCHANGED loginVars
          => UNCHANGED <<tab, jar, account, first>>
    BY DEF ChangeAddress, loginVars
  <2> QED BY <2>1, <2>2
<1> QED BY <1>1, <1>2, <1>3, <1>4, <1>5, <1>6, <1>7, <1>8, <1>9, <1>10, <1>11 DEF LoginNext

(* A visit nothing interferes with ends where it set out for, as whoever   *)
(* signed in, through any number of redirects and whatever other tabs,     *)
(* stashes and sessions there were before it (web.ts, callback).           *)
THEOREM ArrivalCorrect == LoginSpec => []UndisturbedArrives
<1>1. LoginInit => AllArriving
  BY DEF LoginInit, AllArriving, Arriving, NewTab
<1>2. IInv /\ AllArriving /\ [LoginNext]_loginVars => AllArriving'
  BY ArrivalSteps
<1>3. IInv /\ AllArriving => UndisturbedArrives
  BY DEF IInv, BrowserOK, TabsOK, Tab, AllArriving, Arriving, UndisturbedArrives, Held
<1> QED BY <1>1, <1>2, <1>3, Invariant, PTL DEF LoginSpec
=============================================================================
