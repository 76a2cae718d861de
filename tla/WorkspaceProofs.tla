-------------------------- MODULE WorkspaceProofs --------------------------
(***************************************************************************)
(* Theorems about Workspace, for any accounts, stores, invites and         *)
(* requests. Each invariant is inductive beside the type invariant (and,   *)
(* for PrivateIsSolo, beside InvitedIsShared); the action properties       *)
(* follow from the handlers' guards in a state of the right type, whatever *)
(* other requests did since the handler's own authorization.               *)
(***************************************************************************)
EXTENDS Workspace, FiniteSetTheorems, TLAPS

-----------------------------------------------------------------------------
(* Every table holds rows of its type, for every interleaving of requests. *)
THEOREM TypeCorrect == RosterSpec => []RosterTypeOK
<1>1. RosterInit => RosterTypeOK
  BY DEF RosterInit, RosterTypeOK, StoreState
<1>2. RosterTypeOK /\ [RosterNext]_rosterVars => RosterTypeOK'
  <2> SUFFICES ASSUME RosterTypeOK, [RosterNext]_rosterVars PROVE RosterTypeOK'
    OBVIOUS
  <2> USE WorkspaceAssumption DEF RosterTypeOK, StoreState
  <2>1. ASSUME NEW a \in Accounts, NEW s \in Stores, CreateWorkspace(a, s) PROVE RosterTypeOK'
    BY <2>1 DEF CreateWorkspace
  <2>2. ASSUME NEW a \in Accounts, NEW s \in Stores, ResolveDerivedStore(a, s) PROVE RosterTypeOK'
    BY <2>2 DEF ResolveDerivedStore
  <2>3. ASSUME NEW a \in Accounts, NEW s \in Stores, DeleteWorkspace(a, s) PROVE RosterTypeOK'
    <3>1. CASE UNCHANGED <<store, role, invite, derived>>
      BY <2>3, <3>1 DEF DeleteWorkspace
    <3>2. CASE ~UNCHANGED <<store, role, invite, derived>>
      <4>1. /\ store' = [store EXCEPT ![s] = "deleted"]
            /\ role' = [role EXCEPT ![s] = [x \in Accounts |-> "none"]]
            /\ invite' = [i \in Invites |->
                 IF invite[i] # Null /\ invite[i].store = s THEN Null ELSE invite[i]]
            /\ derived' = [derived EXCEPT ![s] = FALSE]
            /\ UNCHANGED <<claim, pending>>
        BY <2>3, <3>2 DEF DeleteWorkspace
      <4>2. invite' \in [Invites -> Invite \cup {Null}]
        BY <4>1
      <4> QED BY <4>1, <4>2
    <3> QED BY <3>1, <3>2
  <2>4. ASSUME NEW a \in Accounts, NEW t \in Accounts, NEW s \in Stores, RemoveMember(a, t, s)
        PROVE RosterTypeOK'
    BY <2>4 DEF RemoveMember
  <2>5. ASSUME NEW a \in Accounts, NEW i \in Invites, JoinWorkspace(a, i) PROVE RosterTypeOK'
    <3>1. invite[i] \in Invite
      BY <2>5 DEF JoinWorkspace
    <3>2. CASE Refuse(i) \/ Rejoin(a, i)
      BY <3>2 DEF Refuse, Rejoin, AnswerJoin
    <3>3. CASE Redeem(a, i)
      <4>1. invite[i].used + 1 \in Nat /\ invite[i].store \in Stores
        BY <3>1 DEF Invite
      <4>2. [invite[i] EXCEPT !.used = @ + 1] \in Invite
        BY <3>1, <4>1 DEF Invite
      <4> QED BY <3>3, <4>1, <4>2 DEF Redeem, AnswerJoin
    <3> QED BY <2>5, <3>2, <3>3 DEF JoinWorkspace
  <2>6. ASSUME NEW a \in Accounts, NEW i \in Invites, RevokeInvite(a, i) PROVE RosterTypeOK'
    <3>1. invite[i] \in Invite
      BY <2>6 DEF RevokeInvite
    <3>2. [invite[i] EXCEPT !.revoked = TRUE] \in Invite
      BY <3>1 DEF Invite
    <3> QED BY <2>6, <3>2 DEF RevokeInvite
  <2>7. ASSUME NEW i \in Invites, ExpireInvite(i) PROVE RosterTypeOK'
    <3>1. invite[i] \in Invite
      BY <2>7 DEF ExpireInvite
    <3>2. [invite[i] EXCEPT !.expires = "past"] \in Invite
      BY <3>1 DEF Invite
    <3> QED BY <2>7, <3>2 DEF ExpireInvite
  <2>8. ASSUME NEW c \in Requests, NEW q \in Authorization, Begin(c, q) PROVE RosterTypeOK'
    BY <2>8 DEF Begin
  <2>9. ASSUME NEW c \in Requests, NEW i \in Invites, NEW limit \in Limits,
               NEW expires \in {"never", "later"}, MintInvite(c, i, limit, expires)
        PROVE RosterTypeOK'
    <3>1. pending[c].store \in Stores
      BY <2>9 DEF MintInvite, Resume, Authorization
    <3>2. NewInvite(pending[c].store, limit, expires) \in Invite
      BY <3>1 DEF NewInvite, Invite
    <3>3. \/ invite' = invite
          \/ invite' = [invite EXCEPT ![i] = NewInvite(pending[c].store, limit, expires)]
      BY ONLY <2>9 DEF MintInvite
    <3>4. invite \in [Invites -> Invite \cup {Null}]
      BY DEF RosterTypeOK
    <3>5. invite' \in [Invites -> Invite \cup {Null}]
      BY ONLY <3>2, <3>3, <3>4, i \in Invites
    <3>6. store' = store \/ store' = [store EXCEPT ![pending[c].store] = "shared"]
      BY ONLY <2>9 DEF MintInvite
    <3>7. store' \in [Stores -> StoreState]
      BY <3>1, <3>6
    <3>8. UNCHANGED <<role, claim, derived>>
      BY ONLY <2>9 DEF MintInvite
    <3>9. pending' \in [Requests -> Authorization \cup {Null}]
      BY <2>9 DEF MintInvite, Resume
    <3> QED BY <3>5, <3>7, <3>8, <3>9
  <2>10. ASSUME NEW c \in Requests, NEW t \in Accounts, NEW r \in {"owner", "member"},
                SetMemberRole(c, t, r)
         PROVE RosterTypeOK'
    <3>1. pending[c].store \in Stores
      BY <2>10 DEF SetMemberRole, Resume, Authorization
    <3>2. role' = role \/ role' = [role EXCEPT ![pending[c].store][t] = r]
      BY <2>10 DEF SetMemberRole
    <3>3. role' \in [Stores -> [Accounts -> {"none", "member", "owner"}]]
      <4>1. [role[pending[c].store] EXCEPT ![t] = r] \in [Accounts -> {"none", "member", "owner"}]
        BY <3>1
      <4> QED BY <3>1, <3>2, <4>1
    <3> QED BY <2>10, <3>3 DEF SetMemberRole, Resume
  <2>11. ASSUME NEW c \in Requests, NEW p \in Sources, RegisterSourceStore(c, p) PROVE RosterTypeOK'
    <3>1. pending[c].who \in Accounts /\ pending[c].store \in Stores
      BY <2>11 DEF RegisterSourceStore, Resume, Authorization
    <3>2. claim' = claim \/ claim' = [claim EXCEPT ![pending[c].store][p] = pending[c].who]
      BY <2>11 DEF RegisterSourceStore
    <3>3. claim' \in [Stores -> [Sources -> Accounts \cup {Null}]]
      <4>1. [claim[pending[c].store] EXCEPT ![p] = pending[c].who] \in [Sources -> Accounts \cup {Null}]
        BY <3>1
      <4> QED BY <3>1, <3>2, <4>1
    <3> QED BY <2>11, <3>3 DEF RegisterSourceStore, Resume
  <2>12. ASSUME NEW c \in Requests, RenameWorkspace(c) \/ Abort(c) PROVE RosterTypeOK'
    BY <2>12 DEF RenameWorkspace, Abort, Resume
  <2>13. CASE UNCHANGED rosterVars
    BY <2>13 DEF rosterVars
  <2> QED
    BY <2>1, <2>2, <2>3, <2>4, <2>5, <2>6, <2>7, <2>8, <2>9, <2>10, <2>11, <2>12, <2>13 DEF RosterNext
<1> QED BY <1>1, <1>2, PTL DEF RosterSpec

-----------------------------------------------------------------------------
(* The last-owner rule: no step leaves a store's members without an owner  *)
(* where they had one.                                                     *)
THEOREM OwnerCorrect == RosterSpec => NeverOrphaned
<1>1. RosterTypeOK /\ [RosterNext]_rosterVars => [OwnerKept]_rosterVars
  <2> SUFFICES ASSUME RosterTypeOK, RosterNext, NEW s \in Stores, Owners(s) # {}, Members(s)' # {}
               PROVE Owners(s)' # {}
    BY DEF OwnerKept
  <2>1. CASE role'[s] = role[s]
    BY <2>1 DEF Owners
  <2>2. ASSUME NEW a \in Accounts, NEW z \in Stores, CreateWorkspace(a, z) PROVE Owners(s)' # {}
    BY <2>2 DEF CreateWorkspace, Owners, RosterTypeOK
  <2>3. ASSUME NEW a \in Accounts, NEW z \in Stores, DeleteWorkspace(a, z), role'[s] # role[s]
        PROVE Owners(s)' # {}
    <3>1. role' = [role EXCEPT ![z] = [x \in Accounts |-> "none"]]
      BY <2>3 DEF DeleteWorkspace
    <3>2. role'[s] = [x \in Accounts |-> "none"]
      BY <2>3, <3>1 DEF RosterTypeOK
    <3> QED BY <3>2 DEF Members
  <2>4. ASSUME NEW a \in Accounts, NEW t \in Accounts, NEW z \in Stores, RemoveMember(a, t, z),
               role'[s] # role[s]
        PROVE Owners(s)' # {}
    <3>1. z = s /\ role'[s] = [role[s] EXCEPT ![t] = "none"]
      BY <2>4 DEF RemoveMember, RosterTypeOK
    <3>2. CASE SoleOwner(t, s)
      <4>1. Members(s) = {t}
        BY <2>4, <3>1, <3>2 DEF RemoveMember, MayGo
      <4> QED BY <3>1, <4>1 DEF Members, RosterTypeOK
    <3>3. CASE ~SoleOwner(t, s)
      <4>1. PICK o \in Accounts : o # t /\ role[s][o] = "owner"
        BY <3>3 DEF SoleOwner, Owners
      <4>2. role'[s][o] = "owner"
        BY <3>1, <4>1 DEF RosterTypeOK
      <4> QED BY <4>2 DEF Owners
    <3> QED BY <3>2, <3>3
  <2>5. ASSUME NEW a \in Accounts, NEW i \in Invites, JoinWorkspace(a, i) PROVE Owners(s)' # {}
    <3>1. PICK o \in Accounts : role[s][o] = "owner"
      BY DEF Owners
    <3>2. invite[i].store = s => role'[s] = role[s] \/ (o # a /\ role'[s] = [role[s] EXCEPT ![a] = "member"])
      BY <2>5, <3>1 DEF JoinWorkspace, Refuse, Rejoin, Redeem, Members, RosterTypeOK
    <3>3. invite[i].store # s => role'[s] = role[s]
      BY <2>5 DEF JoinWorkspace, Refuse, Rejoin, Redeem, RosterTypeOK
    <3>4. role'[s][o] = "owner"
      BY <3>1, <3>2, <3>3 DEF RosterTypeOK
    <3> QED BY <3>4 DEF Owners
  <2>6. ASSUME NEW c \in Requests, NEW t \in Accounts, NEW r \in {"owner", "member"},
               SetMemberRole(c, t, r), role'[s] # role[s]
        PROVE Owners(s)' # {}
    <3>1. /\ t \in Members(pending[c].store)
          /\ ~(r = "member" /\ SoleOwner(t, pending[c].store))
          /\ role' = [role EXCEPT ![pending[c].store][t] = r]
      BY <2>6 DEF SetMemberRole, MayHold
    <3>2. pending[c].store = s /\ role'[s] = [role[s] EXCEPT ![t] = r]
      BY <2>6, <3>1 DEF RosterTypeOK
    <3>3. CASE r = "owner"
      BY <3>2, <3>3 DEF Owners, RosterTypeOK
    <3>4. CASE r = "member"
      <4>1. PICK o \in Accounts : o # t /\ role[s][o] = "owner"
        BY <3>1, <3>2, <3>4 DEF SoleOwner, Owners
      <4>2. role'[s][o] = "owner"
        BY <3>2, <4>1 DEF RosterTypeOK
      <4> QED BY <4>2 DEF Owners
    <3> QED BY <3>3, <3>4
  <2>7. role' = role \/ (\E a \in Accounts, z \in Stores : CreateWorkspace(a, z) \/ DeleteWorkspace(a, z))
          \/ (\E a, t \in Accounts, z \in Stores : RemoveMember(a, t, z))
          \/ (\E a \in Accounts, i \in Invites : JoinWorkspace(a, i))
          \/ (\E c \in Requests, t \in Accounts, r \in {"owner", "member"} : SetMemberRole(c, t, r))
    BY DEF RosterNext, ResolveDerivedStore, RevokeInvite, ExpireInvite, Begin, MintInvite,
           RegisterSourceStore, RenameWorkspace, Abort
  <2> QED BY <2>1, <2>2, <2>3, <2>4, <2>5, <2>6, <2>7
<1> QED BY <1>1, TypeCorrect, PTL DEF RosterSpec, NeverOrphaned

(* How a step may change the invites: it leaves one alone, drops its row,  *)
(* mints it, ages it, revokes it, or redeems it while it is not dead.      *)
LEMMA InviteSteps ==
  ASSUME RosterTypeOK, [RosterNext]_rosterVars, NEW i \in Invites
  PROVE  \/ invite'[i] = invite[i]
         \/ invite'[i] = Null
         \/ /\ invite[i] = Null /\ invite'[i].used = 0
            /\ store'[invite'[i].store] = "shared" /\ Live(invite'[i].store)
            /\ invite'[i].store \in Stores
         \/ invite[i] # Null /\ invite'[i] = [invite[i] EXCEPT !.expires = "past"]
         \/ invite[i] # Null /\ invite'[i] = [invite[i] EXCEPT !.revoked = TRUE]
         \/ /\ invite[i] # Null /\ ~Dead(invite[i])
            /\ invite'[i] = [invite[i] EXCEPT !.used = @ + 1]
<1>1. ASSUME NEW a \in Accounts, NEW s \in Stores, DeleteWorkspace(a, s)
      PROVE invite'[i] = invite[i] \/ invite'[i] = Null
  BY <1>1 DEF DeleteWorkspace
<1>2. ASSUME NEW a \in Accounts, NEW j \in Invites, JoinWorkspace(a, j)
      PROVE invite'[i] = invite[i]
            \/ (invite[i] # Null /\ ~Dead(invite[i]) /\ invite'[i] = [invite[i] EXCEPT !.used = @ + 1])
  BY <1>2 DEF JoinWorkspace, Refuse, Rejoin, Redeem, RosterTypeOK
<1>3. ASSUME NEW a \in Accounts, NEW j \in Invites, RevokeInvite(a, j)
      PROVE invite'[i] = invite[i]
            \/ (invite[i] # Null /\ invite'[i] = [invite[i] EXCEPT !.revoked = TRUE])
  BY <1>3 DEF RevokeInvite, RosterTypeOK
<1>4. ASSUME NEW j \in Invites, ExpireInvite(j)
      PROVE invite'[i] = invite[i]
            \/ (invite[i] # Null /\ invite'[i] = [invite[i] EXCEPT !.expires = "past"])
  BY <1>4 DEF ExpireInvite, RosterTypeOK
<1>5. ASSUME NEW c \in Requests, NEW j \in Invites, NEW limit \in Limits,
             NEW expires \in {"never", "later"}, MintInvite(c, j, limit, expires)
      PROVE invite'[i] = invite[i]
            \/ /\ invite[i] = Null /\ invite'[i].used = 0
               /\ store'[invite'[i].store] = "shared" /\ Live(invite'[i].store)
               /\ invite'[i].store \in Stores
  <2>1. pending[c].store \in Stores
    BY <1>5 DEF MintInvite, Resume, RosterTypeOK, Authorization
  <2>2. CASE Live(pending[c].store) /\ i = j
    BY <1>5, <2>1, <2>2 DEF MintInvite, NewInvite, RosterTypeOK
  <2>3. CASE ~(Live(pending[c].store) /\ i = j)
    BY <1>5, <2>3 DEF MintInvite, RosterTypeOK
  <2> QED BY <2>2, <2>3
<1>6. \/ invite' = invite
      \/ \E a \in Accounts, s \in Stores : DeleteWorkspace(a, s)
      \/ \E a \in Accounts, j \in Invites : JoinWorkspace(a, j) \/ RevokeInvite(a, j)
      \/ \E j \in Invites : ExpireInvite(j)
      \/ \E c \in Requests, j \in Invites, limit \in Limits, expires \in {"never", "later"} :
           MintInvite(c, j, limit, expires)
  BY DEF RosterNext, rosterVars, CreateWorkspace, ResolveDerivedStore, RemoveMember, Begin,
         SetMemberRole, RegisterSourceStore, RenameWorkspace, Abort
<1> QED BY <1>1, <1>2, <1>3, <1>4, <1>5, <1>6

(* A limited invite is never used more often than its limit.               *)
THEOREM UsesCorrect == RosterSpec => []UsesBounded
<1>1. RosterInit => UsesBounded
  BY DEF RosterInit, UsesBounded
<1>2. RosterTypeOK /\ RosterTypeOK' /\ UsesBounded /\ [RosterNext]_rosterVars => UsesBounded'
  <2> SUFFICES ASSUME RosterTypeOK, RosterTypeOK', UsesBounded, [RosterNext]_rosterVars, NEW i \in Invites,
                      invite'[i] # Null, invite'[i].limit # Unlimited
               PROVE invite'[i].used <= invite'[i].limit
    BY DEF UsesBounded
  <2>1. invite'[i] \in Invite /\ (invite[i] # Null => invite[i] \in Invite)
    BY DEF RosterTypeOK
  <2>2. invite'[i].limit \in Nat \ {0}
    BY <2>1, WorkspaceAssumption DEF Invite
  <2>3. CASE invite[i] = Null
    <3>1. invite'[i].used = 0
      BY <2>3, InviteSteps
    <3> QED BY <2>2, <3>1
  <2>4. CASE invite[i] # Null /\ ~Dead(invite[i]) /\ invite'[i] = [invite[i] EXCEPT !.used = @ + 1]
    <3>1. invite'[i].limit = invite[i].limit /\ invite'[i].used = invite[i].used + 1
      BY <2>1, <2>4 DEF Invite
    <3>2. ~(invite[i].used >= invite[i].limit)
      BY <2>4, <3>1 DEF Dead, Exhausted
    <3>3. invite[i].used \in Nat
      BY <2>1, <2>4 DEF Invite
    <3> QED BY <2>2, <3>1, <3>2, <3>3
  <2>5. CASE invite[i] # Null /\ invite'[i].limit = invite[i].limit /\ invite'[i].used = invite[i].used
    <3>1. invite[i].limit # Unlimited
      BY <2>5
    <3>2. invite[i].used <= invite[i].limit
      BY <2>5, <3>1 DEF UsesBounded
    <3> QED BY <2>5, <3>2
  <2>6. ASSUME invite[i] # Null
        PROVE \/ ~Dead(invite[i]) /\ invite'[i] = [invite[i] EXCEPT !.used = @ + 1]
              \/ invite'[i].limit = invite[i].limit /\ invite'[i].used = invite[i].used
    BY <2>1, <2>6, InviteSteps DEF Invite
  <2> QED BY <2>3, <2>4, <2>5, <2>6
<1> QED BY <1>1, <1>2, TypeCorrect, PTL DEF RosterSpec

(* A dead invite stays dead and admits nobody.                             *)
THEOREM DeadCorrect == RosterSpec => DeadStaysDead
<1>1. RosterTypeOK /\ [RosterNext]_rosterVars => [DeadStays]_rosterVars
  <2> SUFFICES ASSUME RosterTypeOK, [RosterNext]_rosterVars, NEW i \in Invites,
                      invite[i] # Null, invite'[i] # Null, Dead(invite[i])
               PROVE Dead(invite'[i]) /\ invite'[i].used = invite[i].used
    BY DEF DeadStays
  <2>1. invite[i] \in Invite
    BY DEF RosterTypeOK
  <2>2. \/ invite'[i] = invite[i]
        \/ invite'[i] = [invite[i] EXCEPT !.expires = "past"]
        \/ invite'[i] = [invite[i] EXCEPT !.revoked = TRUE]
    BY InviteSteps
  <2> QED BY <2>1, <2>2 DEF Dead, Exhausted, Invite
<1> QED BY <1>1, TypeCorrect, PTL DEF RosterSpec, DeadStaysDead

(* The first registration of a source store is the one that lasts.         *)
THEOREM ClaimsCorrect == RosterSpec => ClaimsStick
<1>1. RosterTypeOK /\ [RosterNext]_rosterVars => [ClaimStays]_rosterVars
  <2> SUFFICES ASSUME RosterTypeOK, [RosterNext]_rosterVars, NEW s \in Stores, NEW p \in Sources,
                      claim[s][p] # Null
               PROVE claim'[s][p] = claim[s][p]
    BY DEF ClaimStays
  <2>1. ASSUME NEW c \in Requests, NEW x \in Sources, RegisterSourceStore(c, x)
        PROVE claim'[s][p] = claim[s][p]
    <3>1. CASE claim' = claim
      BY <3>1
    <3>2. CASE claim' # claim
      <4>1. /\ claim[pending[c].store][x] \in {Null, pending[c].who}
            /\ claim' = [claim EXCEPT ![pending[c].store][x] = pending[c].who]
        BY <2>1, <3>2 DEF RegisterSourceStore, MayClaim
      <4>2. CASE pending[c].store = s /\ x = p
        BY <4>1, <4>2 DEF RosterTypeOK
      <4>3. CASE ~(pending[c].store = s /\ x = p)
        BY <4>1, <4>3 DEF RosterTypeOK
      <4> QED BY <4>2, <4>3
    <3> QED BY <3>1, <3>2
  <2>2. claim' = claim \/ \E c \in Requests, x \in Sources : RegisterSourceStore(c, x)
    BY DEF RosterNext, rosterVars, CreateWorkspace, ResolveDerivedStore, RemoveMember, Begin, MintInvite,
           SetMemberRole, RenameWorkspace, Abort, DeleteWorkspace, ExpireInvite, RevokeInvite,
           JoinWorkspace, Refuse, Rejoin, Redeem, AnswerJoin
  <2> QED BY <2>1, <2>2
<1> QED BY <1>1, TypeCorrect, PTL DEF RosterSpec, ClaimsStick

(* What is left of a deleted store: nothing. A request authorized before   *)
(* the delete adds nothing after it.                                       *)
THEOREM TeardownCorrect == RosterSpec => []TeardownComplete
<1>1. RosterInit => TeardownComplete
  BY DEF RosterInit, TeardownComplete, Members
<1>2. RosterTypeOK /\ RosterTypeOK' /\ TeardownComplete /\ [RosterNext]_rosterVars => TeardownComplete'
  <2> SUFFICES ASSUME RosterTypeOK, RosterTypeOK', TeardownComplete, [RosterNext]_rosterVars,
                      NEW s \in Stores, ~Live(s)'
               PROVE /\ Members(s)' = {} /\ ~derived'[s]
                     /\ \A p \in Sources : claim'[s][p] = Null
                     /\ \A i \in Invites : invite'[i] # Null => invite'[i].store # s
    BY DEF TeardownComplete
  <2> DEFINE Gone == /\ Members(s) = {} /\ ~derived[s]
                     /\ \A p \in Sources : claim[s][p] = Null
                     /\ \A i \in Invites : invite[i] # Null => invite[i].store # s
  <2>1. ~Live(s) => Gone
    BY DEF TeardownComplete
  <2>2. ASSUME NEW a \in Accounts, NEW z \in Stores, CreateWorkspace(a, z)
        PROVE z # s /\ ~Live(s) /\ role'[s] = role[s] /\ UNCHANGED <<derived, claim, invite>>
    BY <2>2 DEF CreateWorkspace, Live, RosterTypeOK
  <2>3. ASSUME NEW a \in Accounts, NEW z \in Stores, DeleteWorkspace(a, z)
        PROVE /\ Members(s)' = {} /\ ~derived'[s]
              /\ \A p \in Sources : claim'[s][p] = Null
              /\ \A i \in Invites : invite'[i] # Null => invite'[i].store # s
    <3>1. CASE UNCHANGED <<store, role, invite, derived>>
      <4>1. ~Live(s) /\ claim' = claim
        BY <2>3, <3>1 DEF Live, DeleteWorkspace
      <4> QED BY <2>1, <3>1, <4>1 DEF Members
    <3>2. CASE ~UNCHANGED <<store, role, invite, derived>>
      <4>1. /\ \A p \in Sources : claim[z][p] = Null
            /\ store' = [store EXCEPT ![z] = "deleted"]
            /\ role' = [role EXCEPT ![z] = [x \in Accounts |-> "none"]]
            /\ invite' = [i \in Invites |->
                 IF invite[i] # Null /\ invite[i].store = z THEN Null ELSE invite[i]]
            /\ derived' = [derived EXCEPT ![z] = FALSE]
            /\ claim' = claim
        BY <2>3, <3>2 DEF DeleteWorkspace
      <4>2. CASE z = s
        BY <4>1, <4>2 DEF Members, RosterTypeOK
      <4>3. CASE z # s
        <5>1. ~Live(s) /\ role'[s] = role[s] /\ derived'[s] = derived[s]
          BY <4>1, <4>3 DEF Live, RosterTypeOK
        <5> QED BY <2>1, <4>1, <5>1 DEF Members
      <4> QED BY <4>2, <4>3
    <3> QED BY <3>1, <3>2
  <2>4. ASSUME ~Live(s), \/ \E a, t \in Accounts, z \in Stores : RemoveMember(a, t, z)
                         \/ \E a \in Accounts, i \in Invites : JoinWorkspace(a, i)
                         \/ \E c \in Requests, t \in Accounts, r \in {"owner", "member"} :
                              SetMemberRole(c, t, r)
        PROVE role'[s] = role[s]
    <3>1. ASSUME NEW a \in Accounts, NEW t \in Accounts, NEW z \in Stores, RemoveMember(a, t, z)
          PROVE role'[s] = role[s]
      BY <2>1, <2>4, <3>1 DEF RemoveMember, MayGo, RosterTypeOK
    <3>2. ASSUME NEW a \in Accounts, NEW i \in Invites, JoinWorkspace(a, i)
          PROVE role'[s] = role[s]
      <4>1. invite[i].store # s
        BY <2>1, <2>4, <3>2 DEF JoinWorkspace
      <4> QED BY <3>2, <4>1 DEF JoinWorkspace, Refuse, Rejoin, Redeem, RosterTypeOK
    <3>3. ASSUME NEW c \in Requests, NEW t \in Accounts, NEW r \in {"owner", "member"},
                 SetMemberRole(c, t, r)
          PROVE role'[s] = role[s]
      <4>1. CASE t \in Members(pending[c].store)
        <5>1. pending[c].store # s
          BY <2>1, <2>4, <4>1
        <5>2. role' = role \/ role' = [role EXCEPT ![pending[c].store][t] = r]
          BY <3>3 DEF SetMemberRole
        <5> QED BY <5>1, <5>2 DEF RosterTypeOK
      <4>2. CASE t \notin Members(pending[c].store)
        BY <3>3, <4>2 DEF SetMemberRole, MayHold
      <4> QED BY <4>1, <4>2
    <3> QED BY <2>4, <3>1, <3>2, <3>3
  <2>5. ASSUME ~Live(s), NEW c \in Requests, NEW p \in Sources, RegisterSourceStore(c, p)
        PROVE claim'[s] = claim[s]
    <3>1. CASE pending[c].store = s
      BY <2>5, <3>1 DEF RegisterSourceStore
    <3>2. CASE pending[c].store # s
      <4>1. claim' = claim \/ claim' = [claim EXCEPT ![pending[c].store][p] = pending[c].who]
        BY <2>5 DEF RegisterSourceStore
      <4> QED BY <3>2, <4>1 DEF RosterTypeOK
    <3> QED BY <3>1, <3>2
  <2>6. ASSUME NEW i \in Invites, invite'[i] # Null, invite'[i].store = s, ~Live(s)
        PROVE FALSE
    <3>1. invite[i] # Null => invite[i] \in Invite /\ invite[i].store # s
      BY <2>1, <2>6 DEF RosterTypeOK
    <3>2. invite[i] # Null => invite'[i].store = invite[i].store
      BY <2>6, <3>1, InviteSteps DEF Invite
    <3>3. invite[i] = Null => store'[invite'[i].store] = "shared"
      BY <2>6, InviteSteps
    <3>4. store'[s] # "shared"
      BY DEF Live
    <3> QED BY <2>6, <3>1, <3>2, <3>3, <3>4
  <2>7. CASE \E a \in Accounts, z \in Stores : CreateWorkspace(a, z)
    BY <2>1, <2>2, <2>7 DEF Members
  <2>8. CASE \E a \in Accounts, z \in Stores : DeleteWorkspace(a, z)
    BY <2>3, <2>8
  <2>9. CASE ~(\E a \in Accounts, z \in Stores : CreateWorkspace(a, z) \/ DeleteWorkspace(a, z))
    <3>1. ~Live(s)
      BY <2>9 DEF Live, RosterNext, rosterVars, MintInvite, RosterTypeOK, ResolveDerivedStore, RemoveMember, Begin,
           SetMemberRole, RegisterSourceStore, RenameWorkspace, Abort, ExpireInvite, RevokeInvite,
           JoinWorkspace, Refuse, Rejoin, Redeem, AnswerJoin
    <3>2. Members(s)' = {}
      <4>1. role'[s] = role[s]
        BY <2>4, <2>9, <3>1 DEF RosterNext, rosterVars, MintInvite, ResolveDerivedStore, Begin,
           RegisterSourceStore, RenameWorkspace, Abort, ExpireInvite, RevokeInvite
      <4> QED BY <2>1, <3>1, <4>1 DEF Members
    <3>3. ~derived'[s]
      BY <2>1, <2>9, <3>1 DEF RosterNext, rosterVars, MintInvite, RosterTypeOK, ResolveDerivedStore, RemoveMember,
           Begin, SetMemberRole, RegisterSourceStore, RenameWorkspace, Abort, ExpireInvite, RevokeInvite,
           JoinWorkspace, Refuse, Rejoin, Redeem, AnswerJoin
    <3>4. claim'[s] = claim[s]
      BY <2>5, <2>9, <3>1 DEF RosterNext, rosterVars, MintInvite, ResolveDerivedStore, RemoveMember, Begin,
           SetMemberRole, RenameWorkspace, Abort, ExpireInvite, RevokeInvite,
           JoinWorkspace, Refuse, Rejoin, Redeem, AnswerJoin
    <3> QED BY <2>1, <2>6, <3>1, <3>2, <3>3, <3>4
  <2> QED BY <2>7, <2>8, <2>9
<1> QED BY <1>1, <1>2, TypeCorrect, PTL DEF RosterSpec

(* The strengthening of PrivateIsSolo: whoever holds an invite can only    *)
(* enter a store that is already shared.                                   *)
InvitedIsShared ==
  \A i \in Invites : invite[i] # Null => store[invite[i].store] = "shared"

(* A private store never has a second member.                              *)
THEOREM PrivateCorrect == RosterSpec => []PrivateIsSolo
<1>1. RosterInit => PrivateIsSolo /\ InvitedIsShared
  BY DEF RosterInit, PrivateIsSolo, InvitedIsShared
<1>2. RosterTypeOK /\ RosterTypeOK' /\ InvitedIsShared /\ [RosterNext]_rosterVars => InvitedIsShared'
  <2> SUFFICES ASSUME RosterTypeOK, RosterTypeOK', InvitedIsShared, [RosterNext]_rosterVars,
                      NEW i \in Invites, invite'[i] # Null
               PROVE store'[invite'[i].store] = "shared"
    BY DEF InvitedIsShared
  <2>1. CASE invite[i] = Null
    BY <2>1, InviteSteps
  <2>2. CASE invite[i] # Null
    <3>1. invite[i] \in Invite /\ store[invite[i].store] = "shared"
      BY <2>2 DEF RosterTypeOK, InvitedIsShared
    <3>2. invite'[i].store = invite[i].store
      BY <2>2, <3>1, InviteSteps DEF Invite
    <3>3. invite[i].store \in Stores
      BY <3>1 DEF Invite
    <3>4. store'[invite[i].store] # "shared" => \E a \in Accounts : DeleteWorkspace(a, invite[i].store)
      <4>1. \/ store' = store
            \/ \E a \in Accounts, z \in Stores : CreateWorkspace(a, z) \/ DeleteWorkspace(a, z)
            \/ \E c \in Requests, j \in Invites, limit \in Limits, expires \in {"never", "later"} :
                 MintInvite(c, j, limit, expires)
        BY DEF RosterNext, rosterVars, ResolveDerivedStore, RemoveMember, Begin, SetMemberRole,
             RegisterSourceStore, RenameWorkspace, Abort, ExpireInvite, RevokeInvite,
             JoinWorkspace, Refuse, Rejoin, Redeem, AnswerJoin
      <4>2. ASSUME NEW a \in Accounts, NEW z \in Stores, CreateWorkspace(a, z)
            PROVE store'[invite[i].store] = "shared"
        BY <3>1, <3>3, <4>2 DEF CreateWorkspace, RosterTypeOK
      <4>3. ASSUME NEW a \in Accounts, NEW z \in Stores, DeleteWorkspace(a, z), z # invite[i].store
            PROVE store'[invite[i].store] = "shared"
        BY <3>1, <3>3, <4>3 DEF DeleteWorkspace, RosterTypeOK
      <4>4. ASSUME NEW c \in Requests, NEW j \in Invites, NEW limit \in Limits,
                   NEW expires \in {"never", "later"}, MintInvite(c, j, limit, expires)
            PROVE store'[invite[i].store] = "shared"
        BY <3>1, <3>3, <4>4 DEF MintInvite, RosterTypeOK
      <4> QED BY <3>1, <4>1, <4>2, <4>3, <4>4
    <3>5. ASSUME NEW a \in Accounts, DeleteWorkspace(a, invite[i].store)
          PROVE store' = store
      BY <2>2, <3>5 DEF DeleteWorkspace
    <3> QED BY <3>1, <3>2, <3>4, <3>5
  <2> QED BY <2>1, <2>2
<1>3. RosterTypeOK /\ RosterTypeOK' /\ PrivateIsSolo /\ InvitedIsShared /\ TeardownComplete /\ [RosterNext]_rosterVars
        => PrivateIsSolo'
  <2> SUFFICES ASSUME RosterTypeOK, RosterTypeOK', PrivateIsSolo, InvitedIsShared, TeardownComplete,
                      [RosterNext]_rosterVars, NEW s \in Stores, store'[s] = "private",
                      NEW x \in Members(s)', NEW y \in Members(s)'
               PROVE x = y
    BY DEF PrivateIsSolo
  <2>1. CASE \E a \in Accounts : CreateWorkspace(a, s)
    <3>1. PICK a \in Accounts : CreateWorkspace(a, s)
      BY <2>1
    <3>2. Members(s) = {}
      BY <3>1 DEF CreateWorkspace, TeardownComplete, Live
    <3>3. role'[s] = [role[s] EXCEPT ![a] = "owner"]
      BY <3>1 DEF CreateWorkspace, RosterTypeOK
    <3>4. \A b \in Accounts : b # a => role'[s][b] = "none"
      BY <3>2, <3>3 DEF Members, RosterTypeOK
    <3> QED BY <3>4 DEF Members
  <2>2. CASE ~\E a \in Accounts : CreateWorkspace(a, s)
    <3>1. store[s] = "private"
      <4>1. ASSUME NEW z \in Stores, NEW a \in Accounts,
                   CreateWorkspace(a, z) \/ DeleteWorkspace(a, z)
            PROVE store[s] = "private"
        <5>1. \/ z # s /\ store' = [store EXCEPT ![z] = "private"]
              \/ store' = store
              \/ store' = [store EXCEPT ![z] = "deleted"]
          BY <2>2, <4>1 DEF CreateWorkspace, DeleteWorkspace
        <5> QED BY <5>1 DEF RosterTypeOK
      <4>2. ASSUME NEW c \in Requests, NEW i \in Invites, NEW limit \in Limits,
                   NEW expires \in {"never", "later"}, MintInvite(c, i, limit, expires)
            PROVE store[s] = "private"
        <5>1. store' = store \/ store' = [store EXCEPT ![pending[c].store] = "shared"]
          BY <4>2 DEF MintInvite
        <5> QED BY <5>1 DEF RosterTypeOK
      <4> QED BY <4>1, <4>2 DEF RosterNext, rosterVars, ResolveDerivedStore, RemoveMember, Begin,
                 SetMemberRole, RegisterSourceStore, RenameWorkspace, Abort, ExpireInvite,
                 RevokeInvite, JoinWorkspace, Refuse, Rejoin, Redeem, AnswerJoin
    <3>2. Members(s)' \subseteq Members(s)
      <4>1. ASSUME NEW a \in Accounts, NEW i \in Invites, JoinWorkspace(a, i)
            PROVE role'[s] = role[s]
        <5>1. invite[i].store # s
          BY <3>1, <4>1 DEF JoinWorkspace, InvitedIsShared
        <5> QED BY <4>1, <5>1 DEF JoinWorkspace, Refuse, Rejoin, Redeem, RosterTypeOK
      <4>2. ASSUME NEW c \in Requests, NEW t \in Accounts, NEW r \in {"owner", "member"},
                   SetMemberRole(c, t, r)
            PROVE Members(s)' \subseteq Members(s)
        <5>1. role' = role \/ (t \in Members(pending[c].store)
                               /\ role' = [role EXCEPT ![pending[c].store][t] = r])
          BY <4>2 DEF SetMemberRole, MayHold
        <5>2. pending[c].store \in Stores
          BY <4>2 DEF SetMemberRole, Resume, RosterTypeOK, Authorization
        <5> QED BY <5>1, <5>2 DEF Members, RosterTypeOK
      <4>3. ASSUME NEW a \in Accounts, NEW t \in Accounts, NEW z \in Stores, RemoveMember(a, t, z)
            PROVE Members(s)' \subseteq Members(s)
        BY <4>3 DEF RemoveMember, Members, RosterTypeOK
      <4>4. ASSUME NEW a \in Accounts, NEW z \in Stores, DeleteWorkspace(a, z)
            PROVE Members(s)' \subseteq Members(s)
        <5>1. role' = role \/ role' = [role EXCEPT ![z] = [x1 \in Accounts |-> "none"]]
          BY <4>4 DEF DeleteWorkspace
        <5>2. role'[s] = role[s] \/ role'[s] = [x1 \in Accounts |-> "none"]
          BY <5>1 DEF RosterTypeOK
        <5>3. \A b \in Accounts : role'[s][b] # "none" => role[s][b] # "none"
          BY <5>2
        <5> QED BY <5>3 DEF Members
      <4>5. ASSUME NEW a \in Accounts, NEW z \in Stores, CreateWorkspace(a, z)
            PROVE role'[s] = role[s]
        BY <2>2, <4>5 DEF CreateWorkspace, RosterTypeOK
      <4>6. ASSUME NEW c \in Requests,
                   \/ \E q \in Authorization : Begin(c, q)
                   \/ \E i \in Invites, limit \in Limits, expires \in {"never", "later"} :
                        MintInvite(c, i, limit, expires)
                   \/ \E p \in Sources : RegisterSourceStore(c, p)
                   \/ RenameWorkspace(c) \/ Abort(c)
            PROVE role' = role
        BY <4>6 DEF Begin, MintInvite, RegisterSourceStore, RenameWorkspace, Abort
      <4>7. ASSUME \/ \E a \in Accounts, z \in Stores : ResolveDerivedStore(a, z)
                   \/ \E a \in Accounts, i \in Invites : RevokeInvite(a, i)
                   \/ \E i \in Invites : ExpireInvite(i)
                   \/ UNCHANGED rosterVars
            PROVE role' = role
        BY <4>7 DEF ResolveDerivedStore, RevokeInvite, ExpireInvite, rosterVars
      <4> QED BY <4>1, <4>2, <4>3, <4>4, <4>5, <4>6, <4>7 DEF RosterNext, Members
    <3> QED BY <3>1, <3>2 DEF PrivateIsSolo
  <2> QED BY <2>1, <2>2
<1> QED BY <1>1, <1>2, <1>3, TypeCorrect, TeardownCorrect, PTL DEF RosterSpec
-----------------------------------------------------------------------------
(* An invite that a step neither redeems nor drops counts what it counted. *)
LEMMA InviteKept ==
  ASSUME RosterTypeOK, NEW s \in Stores, NEW i \in Invites,
         \/ invite'[i] = invite[i]
         \/ invite[i] # Null /\ invite'[i] = [invite[i] EXCEPT !.expires = "past"]
         \/ invite[i] # Null /\ invite'[i] = [invite[i] EXCEPT !.revoked = TRUE]
         \/ invite[i] = Null /\ invite'[i].used = 0
  PROVE  Used(i, s)' = Used(i, s)
<1>1. invite[i] # Null => invite[i] \in Invite
  BY DEF RosterTypeOK
<1>2. CASE invite'[i] = invite[i]
  BY <1>2 DEF Used
<1>3. CASE invite[i] # Null /\ invite'[i] = [invite[i] EXCEPT !.expires = "past"]
  <2>1. [invite[i] EXCEPT !.expires = "past"] \in Invite
    BY <1>1, <1>3 DEF Invite
  <2>2. invite'[i] # Null /\ invite'[i].store = invite[i].store /\ invite'[i].used = invite[i].used
    BY <1>1, <1>3, <2>1, RowAssumption DEF Invite
  <2> QED BY <1>3, <2>2 DEF Used
<1>4. CASE invite[i] # Null /\ invite'[i] = [invite[i] EXCEPT !.revoked = TRUE]
  <2>1. [invite[i] EXCEPT !.revoked = TRUE] \in Invite
    BY <1>1, <1>4 DEF Invite
  <2>2. invite'[i] # Null /\ invite'[i].store = invite[i].store /\ invite'[i].used = invite[i].used
    BY <1>1, <1>4, <2>1, RowAssumption DEF Invite
  <2> QED BY <1>4, <2>2 DEF Used
<1>5. CASE invite[i] = Null /\ invite'[i].used = 0
  BY <1>5 DEF Used
<1> QED BY <1>2, <1>3, <1>4, <1>5

(* A step takes members and leaves the uses, ends the store and both,      *)
(* makes the creator the only member, or adds one member for one use.      *)
RosterStep(s) ==
  \/ Members(s)' \subseteq Members(s) /\ Uses(s)' = Uses(s)
  \/ Members(s)' = {} /\ Uses(s)' = {}
  \/ Uses(s)' = Uses(s) /\ \E a \in Accounts : Members(s)' = {a}
  \/ \E a \in Accounts : \E u :
       /\ Members(s)' = Members(s) \cup {a}
       /\ u \notin Uses(s) /\ Uses(s)' = Uses(s) \cup {u}

LEMMA UsesKept ==
  ASSUME NEW s \in Stores, \A i \in Invites : Used(i, s)' = Used(i, s)
  PROVE  Uses(s)' = Uses(s)
BY DEF Uses

(* One redemption is one more member of the store and one more use.        *)
LEMMA RedeemStep ==
  ASSUME RosterTypeOK, NEW s \in Stores, NEW a \in Accounts, NEW i \in Invites,
         invite[i] # Null, Redeem(a, i)
  PROVE  RosterStep(s)
<1> DEFINE n == invite[i].used
<1>1. /\ invite[i] \in Invite /\ n \in Nat
      /\ invite' = [invite EXCEPT ![i].used = n + 1]
      /\ role' = [role EXCEPT ![invite[i].store][a] = "member"]
  BY DEF Redeem, RosterTypeOK, Invite
<1>2. \A j \in Invites \ {i} : invite'[j] = invite[j]
  BY <1>1 DEF RosterTypeOK
<1>3. \A j \in Invites \ {i} : Used(j, s)' = Used(j, s)
  BY <1>2 DEF Used
<1>4. invite'[i] = [invite[i] EXCEPT !.used = n + 1] /\ invite'[i] \in Invite
  <2>1. [invite[i] EXCEPT !.used = n + 1] \in Invite
    BY <1>1 DEF Invite
  <2> QED BY <1>1, <2>1 DEF RosterTypeOK
<1>5. invite'[i] # Null /\ invite'[i].store = invite[i].store /\ invite'[i].used = n + 1
  BY <1>1, <1>4, RowAssumption DEF Invite
<1>6. CASE invite[i].store # s
  <2>1. role'[s] = role[s]
    BY <1>1, <1>6 DEF RosterTypeOK
  <2>2. Used(i, s)' = Used(i, s)
    BY <1>5, <1>6 DEF Used
  <2>3. Uses(s)' = Uses(s)
    BY <1>3, <2>2, UsesKept
  <2> QED BY <2>1, <2>3 DEF RosterStep, Members
<1>7. CASE invite[i].store = s
  <2>1. Used(i, s) = n /\ Used(i, s)' = n + 1
    BY <1>5, <1>7 DEF Used
  <2>2. <<i, n + 1>> \notin Uses(s)
    BY <1>1, <2>1 DEF Uses
  <2>3. Uses(s)' = Uses(s) \cup {<<i, n + 1>>}
    <3>1. \A u : u \in Uses(s)' <=>
            \E j \in Invites : u \in {j} \X (1..Used(j, s)')
      BY DEF Uses
    <3>2. {i} \X (1..(n + 1)) = ({i} \X (1..n)) \cup {<<i, n + 1>>}
      <4>1. 1..(n + 1) = (1..n) \cup {n + 1}
        BY <1>1
      <4> QED BY <4>1
    <3>3. \A u : u \in Uses(s)' <=> u \in Uses(s) \/ u = <<i, n + 1>>
      BY <1>3, <2>1, <3>1, <3>2 DEF Uses
    <3> QED BY <3>3
  <2>4. Members(s)' = Members(s) \cup {a}
    BY <1>1, <1>7 DEF Members, RosterTypeOK
  <2> QED BY <2>2, <2>3, <2>4 DEF RosterStep
<1> QED BY <1>6, <1>7

LEMMA RosterSteps ==
  ASSUME RosterTypeOK, RosterTypeOK', TeardownComplete, [RosterNext]_rosterVars, NEW s \in Stores
  PROVE  RosterStep(s)
<1>1. ASSUME NEW a \in Accounts, NEW z \in Stores, CreateWorkspace(a, z) PROVE RosterStep(s)
  <2>1. Uses(s)' = Uses(s)
    BY <1>1, UsesKept DEF CreateWorkspace, Used
  <2>2. CASE z # s
    <3>1. role'[s] = role[s]
      BY <1>1, <2>2 DEF CreateWorkspace, RosterTypeOK
    <3> QED BY <2>1, <3>1 DEF RosterStep, Members
  <2>3. CASE z = s
    <3>1. Members(s) = {}
      BY <1>1, <2>3 DEF CreateWorkspace, TeardownComplete, Live
    <3>2. role'[s] = [role[s] EXCEPT ![a] = "owner"]
      BY <1>1, <2>3 DEF CreateWorkspace, RosterTypeOK
    <3>3. Members(s)' = {a}
      BY <3>1, <3>2 DEF Members, RosterTypeOK
    <3> QED BY <2>1, <3>3 DEF RosterStep
  <2> QED BY <2>2, <2>3
<1>2. ASSUME NEW a \in Accounts, NEW z \in Stores, DeleteWorkspace(a, z) PROVE RosterStep(s)
  <2>1. CASE UNCHANGED <<role, invite>>
    <3>1. Uses(s)' = Uses(s)
      BY <2>1, UsesKept DEF Used
    <3> QED BY <2>1, <3>1 DEF RosterStep, Members
  <2>2. CASE /\ role' = [role EXCEPT ![z] = [x \in Accounts |-> "none"]]
             /\ invite' = [i \in Invites |->
                  IF invite[i] # Null /\ invite[i].store = z THEN Null ELSE invite[i]]
    <3>1. CASE z = s
      <4>1. Members(s)' = {}
        BY <2>2, <3>1 DEF Members, RosterTypeOK
      <4>2. \A i \in Invites : Used(i, s)' = 0
        BY <2>2, <3>1 DEF Used
      <4>3. Uses(s)' = {}
        BY <4>2 DEF Uses
      <4> QED BY <4>1, <4>3 DEF RosterStep
    <3>2. CASE z # s
      <4>1. role'[s] = role[s]
        BY <2>2, <3>2 DEF RosterTypeOK
      <4>2. \A i \in Invites : Used(i, s)' = Used(i, s)
        BY <2>2, <3>2 DEF Used
      <4> QED BY <4>1, <4>2, UsesKept DEF RosterStep, Members
    <3> QED BY <3>1, <3>2
  <2> QED BY <1>2, <2>1, <2>2 DEF DeleteWorkspace
<1>3. ASSUME NEW a \in Accounts, NEW t \in Accounts, NEW z \in Stores, RemoveMember(a, t, z)
      PROVE RosterStep(s)
  <2>1. Uses(s)' = Uses(s)
    BY <1>3, UsesKept DEF RemoveMember, Used
  <2>2. Members(s)' \subseteq Members(s)
    BY <1>3 DEF RemoveMember, Members, RosterTypeOK
  <2> QED BY <2>1, <2>2 DEF RosterStep
<1>4. ASSUME NEW a \in Accounts, NEW i \in Invites, JoinWorkspace(a, i) PROVE RosterStep(s)
  <2>1. CASE UNCHANGED <<role, invite>>
    <3>1. Uses(s)' = Uses(s)
      BY <2>1, UsesKept DEF Used
    <3> QED BY <2>1, <3>1 DEF RosterStep, Members
  <2>2. CASE Redeem(a, i)
    BY <1>4, <2>2, RedeemStep DEF JoinWorkspace
  <2> QED BY <1>4, <2>1, <2>2 DEF JoinWorkspace, Refuse, Rejoin
<1>5. ASSUME role' = role,
             \A i \in Invites :
               \/ invite'[i] = invite[i]
               \/ invite[i] # Null /\ invite'[i] = [invite[i] EXCEPT !.expires = "past"]
               \/ invite[i] # Null /\ invite'[i] = [invite[i] EXCEPT !.revoked = TRUE]
               \/ invite[i] = Null /\ invite'[i].used = 0
      PROVE RosterStep(s)
  <2>1. Uses(s)' = Uses(s)
    BY <1>5, InviteKept, UsesKept
  <2> QED BY <1>5, <2>1 DEF RosterStep, Members
<1>6. ASSUME NEW a \in Accounts, NEW i \in Invites, RevokeInvite(a, i) PROVE RosterStep(s)
  BY <1>5, <1>6 DEF RevokeInvite, RosterTypeOK
<1>7. ASSUME NEW i \in Invites, ExpireInvite(i) PROVE RosterStep(s)
  BY <1>5, <1>7 DEF ExpireInvite, RosterTypeOK
<1>8. ASSUME NEW c \in Requests, NEW i \in Invites, NEW limit \in Limits,
             NEW expires \in {"never", "later"}, MintInvite(c, i, limit, expires)
      PROVE RosterStep(s)
  <2>1. invite[i] = Null /\ role' = role
    BY <1>8 DEF MintInvite
  <2>2. invite' = invite \/ invite' = [invite EXCEPT ![i] = NewInvite(pending[c].store, limit, expires)]
    BY <1>8 DEF MintInvite
  <2> QED BY <1>5, <2>1, <2>2 DEF NewInvite, RosterTypeOK
<1>9. ASSUME NEW c \in Requests, NEW t \in Accounts, NEW r \in {"owner", "member"},
             SetMemberRole(c, t, r)
      PROVE RosterStep(s)
  <2>1. Uses(s)' = Uses(s)
    BY <1>9, UsesKept DEF SetMemberRole, Used
  <2>2. Members(s)' \subseteq Members(s)
    <3>1. role' = role \/ (t \in Members(pending[c].store)
                           /\ role' = [role EXCEPT ![pending[c].store][t] = r])
      BY <1>9 DEF SetMemberRole, MayHold
    <3>2. pending[c].store \in Stores
      BY <1>9 DEF SetMemberRole, Resume, RosterTypeOK, Authorization
    <3>3. role'[s] = role[s] \/ (t \in Members(s) /\ role'[s] = [role[s] EXCEPT ![t] = r])
      BY <3>1, <3>2 DEF RosterTypeOK
    <3> QED BY <3>3 DEF Members, RosterTypeOK
  <2> QED BY <2>1, <2>2 DEF RosterStep
<1>10. ASSUME UNCHANGED <<role, invite>> PROVE RosterStep(s)
  BY <1>5, <1>10
<1>11. \/ UNCHANGED <<role, invite>>
       \/ \E a \in Accounts, z \in Stores : CreateWorkspace(a, z) \/ DeleteWorkspace(a, z)
       \/ \E a, t \in Accounts, z \in Stores : RemoveMember(a, t, z)
       \/ \E a \in Accounts, i \in Invites : JoinWorkspace(a, i) \/ RevokeInvite(a, i)
       \/ \E i \in Invites : ExpireInvite(i)
       \/ \E c \in Requests, i \in Invites, limit \in Limits, expires \in {"never", "later"} :
            MintInvite(c, i, limit, expires)
       \/ \E c \in Requests, t \in Accounts, r \in {"owner", "member"} : SetMemberRole(c, t, r)
  BY DEF RosterNext, rosterVars, ResolveDerivedStore, Begin, RegisterSourceStore, RenameWorkspace, Abort
<1> QED BY <1>1, <1>2, <1>3, <1>4, <1>6, <1>7, <1>8, <1>9, <1>10, <1>11

(* The roster never outgrows what its invites' counters say: the           *)
(* strengthening says that members and uses are finitely many.             *)
Accounted(s) ==
  /\ IsFiniteSet(Members(s)) /\ IsFiniteSet(Uses(s))
  /\ Cardinality(Members(s)) <= 1 + Cardinality(Uses(s))

THEOREM MembersCorrect == RosterSpec => []MembersAccounted
<1> DEFINE IInv == \A s \in Stores : Accounted(s)
<1>1. RosterInit => IInv
  <2> SUFFICES ASSUME RosterInit, NEW s \in Stores PROVE Accounted(s)
    OBVIOUS
  <2>1. Members(s) = {} /\ Uses(s) = {}
    BY DEF RosterInit, Members, Uses, Used
  <2>2. 0 <= 1 + 0
    OBVIOUS
  <2> QED BY <2>1, <2>2, FS_EmptySet DEF Accounted
<1>2. RosterTypeOK /\ RosterTypeOK' /\ TeardownComplete /\ IInv /\ [RosterNext]_rosterVars => IInv'
  <2> SUFFICES ASSUME RosterTypeOK, RosterTypeOK', TeardownComplete, IInv, [RosterNext]_rosterVars,
                      NEW s \in Stores
               PROVE Accounted(s)'
    OBVIOUS
  <2>1. /\ IsFiniteSet(Members(s)) /\ IsFiniteSet(Uses(s))
        /\ Cardinality(Members(s)) <= 1 + Cardinality(Uses(s))
        /\ Cardinality(Members(s)) \in Nat /\ Cardinality(Uses(s)) \in Nat
    BY FS_CardinalityType DEF Accounted
  <2>2. CASE Members(s)' \subseteq Members(s) /\ Uses(s)' = Uses(s)
    <3>1. /\ IsFiniteSet(Members(s)') /\ Cardinality(Members(s)') <= Cardinality(Members(s))
          /\ Cardinality(Members(s)') \in Nat
      BY <2>1, <2>2, FS_Subset, FS_CardinalityType
    <3> QED BY <2>1, <2>2, <3>1 DEF Accounted
  <2>3. CASE Members(s)' = {} /\ Uses(s)' = {}
    BY <2>3, FS_EmptySet DEF Accounted
  <2>4. CASE Uses(s)' = Uses(s) /\ \E a \in Accounts : Members(s)' = {a}
    <3>1. IsFiniteSet(Members(s)') /\ Cardinality(Members(s)') = 1
      BY <2>4, FS_Singleton
    <3> QED BY <2>1, <2>4, <3>1 DEF Accounted
  <2>5. ASSUME NEW a \in Accounts, NEW u, Members(s)' = Members(s) \cup {a},
               u \notin Uses(s), Uses(s)' = Uses(s) \cup {u}
        PROVE Accounted(s)'
    <3>1. IsFiniteSet(Members(s)') /\ Cardinality(Members(s)') <= Cardinality(Members(s)) + 1
      <4>1. /\ IsFiniteSet(Members(s) \cup {a})
            /\ Cardinality(Members(s) \cup {a}) =
                 IF a \in Members(s) THEN Cardinality(Members(s)) ELSE Cardinality(Members(s)) + 1
        BY <2>1, FS_AddElement
      <4> QED BY <2>1, <2>5, <4>1
    <3>2. IsFiniteSet(Uses(s)') /\ Cardinality(Uses(s)') = Cardinality(Uses(s)) + 1
      BY <2>1, <2>5, FS_AddElement
    <3>3. Cardinality(Members(s)') \in Nat
      BY <3>1, FS_CardinalityType
    <3> QED BY <2>1, <3>1, <3>2, <3>3 DEF Accounted
  <2> QED BY <2>2, <2>3, <2>4, <2>5, RosterSteps DEF RosterStep
<1>3. IInv /\ UsesBounded => MembersAccounted
  BY DEF MembersAccounted, Accounted
<1> QED BY <1>1, <1>2, <1>3, TypeCorrect, TeardownCorrect, UsesCorrect, PTL DEF RosterSpec
=============================================================================
