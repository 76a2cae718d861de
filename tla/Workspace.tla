----------------------------- MODULE Workspace -----------------------------
(***************************************************************************)
(* The gateway's workspace control plane: stores, memberships, invites,    *)
(* source-store claims and sidecar bindings in SQLite, under concurrent    *)
(* HTTP requests.                                                          *)
(* Source: packages/gateway/src/workspace.ts (the handlers), stores.ts,    *)
(* invites.ts, source-stores.ts, derived-stores.ts (the tables), policy.ts *)
(* (authorize), web.ts (the /join page).                                   *)
(*                                                                         *)
(* better-sqlite3 is synchronous, so a handler is atomic between awaits.   *)
(* A handler with a JSON body authorizes its caller, awaits the body, and  *)
(* then acts without looking again: it is two actions, Begin and the       *)
(* handler's own. A handler without a body is one action. Callers hold a   *)
(* session or an unscoped writable key; narrower keys are turned away      *)
(* before anything changes. Names, labels and times are data no property   *)
(* depends on, except whether an invite's expiry has passed.               *)
(*                                                                         *)
(* MCHub extends this module together with RelaySync and Login, so the     *)
(* names the three would share carry the word Roster here.                 *)
(***************************************************************************)
EXTENDS Integers, FiniteSets

CONSTANTS
  Accounts, Stores, Invites,
  Sources,    \* client-minted proj_ ids
  Requests,   \* HTTP requests whose body is awaited
  Null,       \* no row, no request
  Unlimited,  \* max_uses NULL
  Limits,     \* the maxUses values an owner may ask for
  MaxUsed     \* bound: redemptions of one unlimited invite

ASSUME WorkspaceAssumption ==
  /\ Null \notin Accounts
  /\ Unlimited \notin Nat
  /\ Limits \subseteq (Nat \ {0}) \cup {Unlimited}
  /\ MaxUsed \in Nat

VARIABLES
  store,    \* stores: is the row there, and its invite_reachable
  role,     \* memberships
  invite,   \* invites
  claim,    \* source_stores: which account registered a source store
  derived,  \* derived_stores: has the store its sidecar binding
  pending   \* requests authorized, whose body has not arrived

rosterVars == <<store, role, invite, claim, derived, pending>>

(* Ids are random, so a deleted store's is never minted again.             *)
StoreState == {"unminted", "private", "shared", "deleted"}

Invite == [store : Stores, limit : Limits, used : Nat,
           expires : {"never", "later", "past"}, revoked : BOOLEAN]

(* A row is there or it is not.                                            *)
ASSUME RowAssumption == Null \notin Invite

Authorization ==
  [op : {"mintInvite", "setMemberRole", "renameWorkspace", "registerSourceStore"},
   who : Accounts, store : Stores]

Live(s) == store[s] \in {"private", "shared"}
Members(s) == { a \in Accounts : role[s][a] # "none" }
Owners(s) == { a \in Accounts : role[s][a] = "owner" }

-----------------------------------------------------------------------------
RosterInit ==
  /\ store = [s \in Stores |-> "unminted"]
  /\ role = [s \in Stores |-> [a \in Accounts |-> "none"]]
  /\ invite = [i \in Invites |-> Null]
  /\ claim = [s \in Stores |-> [p \in Sources |-> Null]]
  /\ derived = [s \in Stores |-> FALSE]
  /\ pending = [c \in Requests |-> Null]

(* POST /v1/workspaces: a private store with its creator as sole owner.    *)
CreateWorkspace(a, s) ==
  /\ store[s] = "unminted"
  /\ store' = [store EXCEPT ![s] = "private"]
  /\ role' = [role EXCEPT ![s][a] = "owner"]
  /\ UNCHANGED <<invite, claim, derived, pending>>

(* authorize: management asks for an owner, the data plane for a member.   *)
Authorized(op, a, s) ==
  a \in IF op = "registerSourceStore" THEN Members(s) ELSE Owners(s)

Begin(c, q) ==
  /\ pending[c] = Null
  /\ Authorized(q.op, q.who, q.store)
  /\ pending' = [pending EXCEPT ![c] = q]
  /\ UNCHANGED <<store, role, invite, claim, derived>>

(* The body has arrived: the request leaves the pending ones.              *)
Resume(c, op) ==
  /\ pending[c] # Null /\ pending[c].op = op
  /\ pending' = [pending EXCEPT ![c] = Null]

(* The body is refused (400, 413), or the connection or the process goes.  *)
Abort(c) ==
  /\ pending[c] # Null
  /\ pending' = [pending EXCEPT ![c] = Null]
  /\ UNCHANGED <<store, role, invite, claim, derived>>

(* The row a mint inserts: unused, for members only.                       *)
NewInvite(s, limit, expires) ==
  [store |-> s, limit |-> limit, used |-> 0, expires |-> expires, revoked |-> FALSE]

(* Mutant of MintInvite: the connection lacks PRAGMA foreign_keys = ON.    *)
MintInviteUnchecked(c, i, limit, expires) ==
  /\ Resume(c, "mintInvite")
  /\ invite[i] = Null
  /\ invite' = [invite EXCEPT ![i] = NewInvite(pending[c].store, limit, expires)]
  /\ store' = [store EXCEPT ![pending[c].store] = IF Live(pending[c].store) THEN "shared" ELSE @]
  /\ UNCHANGED <<role, claim, derived>>

(* POST .../invites: the first one makes the store invite-reachable for    *)
(* good. When the store has gone meanwhile the foreign key refuses the row *)
(* and the answer is 500.                                                  *)
MintInvite(c, i, limit, expires) ==
  /\ Resume(c, "mintInvite")
  /\ invite[i] = Null
  /\ LET s == pending[c].store
     IN  IF Live(s)
         THEN /\ invite' = [invite EXCEPT ![i] = NewInvite(s, limit, expires)]
              /\ store' = [store EXCEPT ![s] = "shared"]
         ELSE UNCHANGED <<store, invite>>
  /\ UNCHANGED <<role, claim, derived>>

(* Time passes an invite's expiresAt.                                      *)
ExpireInvite(i) ==
  /\ invite[i] # Null /\ invite[i].expires = "later"
  /\ invite' = [invite EXCEPT ![i].expires = "past"]
  /\ UNCHANGED <<store, role, claim, derived, pending>>

(* DELETE .../invites/:id, by an owner of the invite's store.              *)
RevokeInvite(a, i) ==
  /\ invite[i] # Null /\ a \in Owners(invite[i].store)
  /\ invite' = [invite EXCEPT ![i].revoked = TRUE]
  /\ UNCHANGED <<store, role, claim, derived, pending>>

Exhausted(v) == v.limit # Unlimited /\ v.used >= v.limit

Dead(v) == v.revoked \/ v.expires = "past" \/ Exhausted(v)

(* redeemInvite, behind POST /v1/workspaces/join and GET /join: a dead     *)
(* invite is refused before membership is looked at; a member keeps its    *)
(* role and uses nothing up; anyone else becomes a member and it counts.   *)
AnswerJoin == UNCHANGED <<store, claim, derived, pending>>

Refuse(i) ==
  /\ Dead(invite[i])
  /\ AnswerJoin
  /\ UNCHANGED <<role, invite>>

Rejoin(a, i) ==
  /\ ~Dead(invite[i]) /\ a \in Members(invite[i].store)
  /\ AnswerJoin
  /\ UNCHANGED <<role, invite>>

(* Mutants of Redeem: expiry is not looked at; the use is not counted.     *)
RedeemExpired(a, i) ==
  /\ ~invite[i].revoked /\ ~Exhausted(invite[i])
  /\ a \notin Members(invite[i].store)
  /\ role' = [role EXCEPT ![invite[i].store][a] = "member"]
  /\ invite' = [invite EXCEPT ![i].used = @ + 1]
  /\ AnswerJoin
RedeemUncounted(a, i) ==
  /\ ~Dead(invite[i]) /\ a \notin Members(invite[i].store)
  /\ role' = [role EXCEPT ![invite[i].store][a] = "member"]
  /\ AnswerJoin
  /\ UNCHANGED invite

Redeem(a, i) ==
  /\ ~Dead(invite[i]) /\ a \notin Members(invite[i].store)
  /\ invite[i].limit = Unlimited => invite[i].used < MaxUsed
  /\ role' = [role EXCEPT ![invite[i].store][a] = "member"]
  /\ invite' = [invite EXCEPT ![i].used = @ + 1]
  /\ AnswerJoin

JoinWorkspace(a, i) ==
  /\ invite[i] # Null
  /\ Refuse(i) \/ Rejoin(a, i) \/ Redeem(a, i)

(* t is the only owner.                                                    *)
SoleOwner(t, s) == Owners(s) = {t}

(* setRole: a member may get any role, but the sole owner stays owner.     *)
MayHold(t, s, r) == t \in Members(s) /\ ~(r = "member" /\ SoleOwner(t, s))

(* PATCH .../members/:t: promotion or demotion, never of the sole owner.   *)
SetMemberRole(c, t, r) ==
  /\ Resume(c, "setMemberRole")
  /\ LET s == pending[c].store
     IN  IF MayHold(t, s, r)
         THEN role' = [role EXCEPT ![s][t] = r]
         ELSE UNCHANGED role
  /\ UNCHANGED <<store, invite, claim, derived>>

(* removeMember: the sole owner goes last.                                 *)
MayGo(t, s) == t \in Members(s) /\ ~(SoleOwner(t, s) /\ Members(s) # {t})

(* Mutant of RemoveMember: a self-leave skips the last-owner check.        *)
RemoveMemberOrLeave(a, t, s) ==
  /\ a \in Members(s) /\ (a = t \/ a \in Owners(s))
  /\ t \in Members(s) /\ (a = t \/ ~(SoleOwner(t, s) /\ Members(s) # {t}))
  /\ role' = [role EXCEPT ![s][t] = "none"]
  /\ UNCHANGED <<store, invite, claim, derived, pending>>

(* DELETE .../members/:t, by an owner or by t itself: refused to the sole  *)
(* owner while there are other members.                                    *)
RemoveMember(a, t, s) ==
  /\ a \in Members(s) /\ (a = t \/ a \in Owners(s))
  /\ MayGo(t, s)
  /\ role' = [role EXCEPT ![s][t] = "none"]
  /\ UNCHANGED <<store, invite, claim, derived, pending>>

(* PATCH /v1/workspaces/:id: touches the name only, whatever row is left.  *)
RenameWorkspace(c) ==
  /\ Resume(c, "renameWorkspace")
  /\ UNCHANGED <<store, role, invite, claim, derived>>

(* A source store is free, or the account's own already.                   *)
MayClaim(a, s, p) == claim[s][p] \in {Null, a}

(* Mutant of RegisterSourceStore: the last registration wins.              *)
RegisterSourceStoreLast(c, p) ==
  /\ Resume(c, "registerSourceStore")
  /\ LET s == pending[c].store
     IN  IF Live(s) THEN claim' = [claim EXCEPT ![s][p] = pending[c].who]
         ELSE UNCHANGED claim
  /\ UNCHANGED <<store, role, invite, derived>>

(* POST .../source-stores: first registration wins; the same account may   *)
(* register again; a store that has gone is refused by the foreign key.    *)
RegisterSourceStore(c, p) ==
  /\ Resume(c, "registerSourceStore")
  /\ LET s == pending[c].store
     IN  IF Live(s) /\ MayClaim(pending[c].who, s, p)
         THEN claim' = [claim EXCEPT ![s][p] = pending[c].who]
         ELSE UNCHANGED claim
  /\ UNCHANGED <<store, role, invite, derived>>

(* GET /v1/stores/:s/derived/embedding: get-or-create, by a member.        *)
ResolveDerivedStore(a, s) ==
  /\ a \in Members(s)
  /\ derived' = [derived EXCEPT ![s] = TRUE]
  /\ UNCHANGED <<store, role, invite, claim, pending>>

(* DELETE /v1/workspaces/:id, by an owner: one transaction over invites,   *)
(* memberships, sidecar bindings and the store. source_stores rows still   *)
(* reference the store, so with one of them it rolls back and answers 500. *)
DeleteWorkspace(a, s) ==
  /\ a \in Owners(s)
  /\ \/ /\ \E p \in Sources : claim[s][p] # Null
        /\ UNCHANGED <<store, role, invite, derived>>
     \/ /\ \A p \in Sources : claim[s][p] = Null
        /\ store' = [store EXCEPT ![s] = "deleted"]
        /\ role' = [role EXCEPT ![s] = [x \in Accounts |-> "none"]]
        /\ invite' = [i \in Invites |->
             IF invite[i] # Null /\ invite[i].store = s THEN Null ELSE invite[i]]
        /\ derived' = [derived EXCEPT ![s] = FALSE]
  /\ UNCHANGED <<claim, pending>>

RosterNext ==
  \/ \E a \in Accounts, s \in Stores :
       CreateWorkspace(a, s) \/ ResolveDerivedStore(a, s) \/ DeleteWorkspace(a, s)
  \/ \E a, t \in Accounts, s \in Stores : RemoveMember(a, t, s)
  \/ \E a \in Accounts, i \in Invites : JoinWorkspace(a, i) \/ RevokeInvite(a, i)
  \/ \E i \in Invites : ExpireInvite(i)
  \/ \E c \in Requests :
       \/ \E q \in Authorization : Begin(c, q)
       \/ \E i \in Invites, limit \in Limits, expires \in {"never", "later"} :
            MintInvite(c, i, limit, expires)
       \/ \E t \in Accounts, r \in {"owner", "member"} : SetMemberRole(c, t, r)
       \/ \E p \in Sources : RegisterSourceStore(c, p)
       \/ RenameWorkspace(c) \/ Abort(c)

RosterSpec == RosterInit /\ [][RosterNext]_rosterVars

-----------------------------------------------------------------------------
(* Each table holds rows of its type.                                      *)
RosterTypeOK ==
  /\ store \in [Stores -> StoreState]
  /\ role \in [Stores -> [Accounts -> {"none", "member", "owner"}]]
  /\ invite \in [Invites -> Invite \cup {Null}]
  /\ claim \in [Stores -> [Sources -> Accounts \cup {Null}]]
  /\ derived \in [Stores -> BOOLEAN]
  /\ pending \in [Requests -> Authorization \cup {Null}]

(* A store that is not there has no member, invite, source-store claim or  *)
(* sidecar binding: a request that was authorized before the delete and    *)
(* acts after it leaves nothing.                                           *)
TeardownComplete ==
  \A s \in Stores : ~Live(s) =>
    /\ Members(s) = {} /\ ~derived[s]
    /\ \A p \in Sources : claim[s][p] = Null
    /\ \A i \in Invites : invite[i] # Null => invite[i].store # s

(* A store nobody was ever invited to is the private, 1-member case        *)
(* (stores.ts:7-9), whatever joins, promotions and leaves did to it.       *)
PrivateIsSolo ==
  \A s \in Stores : store[s] = "private" =>
    \A a, b \in Members(s) : a = b

(* No invite is used more often than its owner allowed, however joins,     *)
(* removals and rejoins interleave (workspace.md:289).                     *)
UsesBounded ==
  \A i \in Invites : invite[i] # Null /\ invite[i].limit # Unlimited =>
    invite[i].used <= invite[i].limit

(* The counted uses of a store's invites, one element each.                *)
Used(i, s) == IF invite[i] # Null /\ invite[i].store = s THEN invite[i].used ELSE 0
Uses(s) == UNION { {i} \X (1..Used(i, s)) : i \in Invites }

(* Every member but the creator is paid for by a counted use of one of the *)
(* store's invites (workspace.md:282), and no invite is used more often    *)
(* than its owner allowed: removing and rejoining only adds uses.          *)
MembersAccounted ==
  /\ UsesBounded
  /\ \A s \in Stores : Cardinality(Members(s)) <= 1 + Cardinality(Uses(s))

(* Members are never left without an owner: no removal, leave, demotion,   *)
(* or interleaving of requests authorized earlier, takes the last owner of *)
(* a store that still has members (stores.ts:11, last-owner invariant).    *)
HasOwner(s) == Members(s) # {} => Owners(s) # {}

OwnerKept ==
  \A s \in Stores : Owners(s) # {} /\ Members(s)' # {} => Owners(s)' # {}

NeverOrphaned == [][OwnerKept]_rosterVars

(* A revoked, expired or used-up invite admits nobody and never comes back *)
(* to life while its store lasts.                                          *)
DeadStays ==
  \A i \in Invites :
    invite[i] # Null /\ invite'[i] # Null /\ Dead(invite[i]) =>
      Dead(invite'[i]) /\ invite'[i].used = invite[i].used

DeadStaysDead == [][DeadStays]_rosterVars

(* The first account to register a source store keeps it, also when two    *)
(* registrations were authorized before either took effect                 *)
(* (workspace.md:151-154).                                                 *)
ClaimStays ==
  \A s \in Stores, p \in Sources :
    claim[s][p] # Null => claim'[s][p] = claim[s][p]

ClaimsStick == [][ClaimStays]_rosterVars
=============================================================================
