-------------------------------- MODULE Login --------------------------------
(***************************************************************************)
(* Signing in: tabs of one browser that share their cookies, the OAuth     *)
(* redirect through Google and its callback, where the visitor is brought  *)
(* back to, and the account an identity is given.                          *)
(* Source: packages/gateway/src/web.ts (callback, account, device, admin,  *)
(* join and clone pages), oauth.ts, session.ts, accounts.ts.               *)
(*                                                                         *)
(* AccountProofs extends this module together with Access, and MCHub with  *)
(* RelaySync and Workspace, so the names they would share carry the word   *)
(* Login or Account here.                                                  *)
(*                                                                         *)
(* A signed cookie is its payload: nobody forges one. A nonce is the       *)
(* number of the login that issued it. A handler is atomic; the callback   *)
(* reads its cookies, waits for Google, and then answers.                  *)
(***************************************************************************)
EXTENDS Integers, Sequences, FiniteSets

CONSTANTS
  Tabs, Subs, Emails,
  Tokens,     \* invitations: /join?token=...
  Pages,      \* pages that stash the way back: /device?code=..., /clone/...
  Gmail,      \* [Subs -> Emails]: Google's address of each identity at first
  Old,        \* the tables migration v3 may leave: rows without a
              \* provider_sub, or with a GitHub login in its place
  MaxLogins,  \* bound: logins begun
  MaxChanges, \* bound: addresses changed at Google
  MaxLost,    \* bound: cookies that end, and callbacks nobody waits for
  Absent      \* no cookie, no account, no page, NULL

Places == Pages \cup {"app", "admin"}
Goals == Places \cup Tokens
AccountRow == [email : Emails, sub : Subs \cup {Absent, "github"}]

ASSUME LoginAssumption ==
  /\ Gmail \in [Subs -> Emails] /\ Old \subseteq Seq(AccountRow)
  /\ \A o \in Old :
       /\ \A i \in DOMAIN o : /\ o[i].sub \in {Absent, "github"}
                              /\ \E s \in Subs : Gmail[s] = o[i].email
       /\ \A i, j \in DOMAIN o : o[i].email = o[j].email => i = j
  /\ \A s, q \in Subs : Gmail[s] = Gmail[q] => s = q
  /\ MaxLogins \in Nat /\ MaxChanges \in Nat /\ MaxLost \in Nat
  /\ IsFiniteSet(Subs)
  /\ Absent \notin Subs \cup Emails \cup Tokens \cup Pages \cup Int \cup {"github"}
  /\ "github" \notin Subs
  /\ Tokens \cap Places = {}

(* Absent is no session and no tab.                                        *)
ASSUME AbsentAssumption == Absent \notin Tabs \cup [id : Nat, sub : Subs]

VARIABLES
  gmail,    \* Google's address of each identity
  retired,  \* addresses no identity has any more
  account,  \* rows of the accounts table, by id in order of creation
  jar,      \* the browser's cookies
  tab,      \* what each tab is doing
  logins,   \* logins begun so far
  lost,     \* cookies and answers lost so far
  first     \* history: the account each identity was first given

loginVars == <<gmail, retired, account, jar, tab, logins, lost, first>>

(* hub_acct, whose identity is history; hub_oauth_state, hub_join and      *)
(* hub_return.                                                             *)
Jar == [acct : [id : Nat, sub : Subs] \cup {Absent}, state : Nat \cup {Absent},
        join : Tokens \cup {Absent}, ret : Pages \cup {Absent}]

(* `join` and `ret` are cookies the callback was sent with, `goal` where   *)
(* the visitor set out for, `page` what the tab shows at rest and `who` the *)
(* account it was made for. `alone`, a history, is lost when a cookie this *)
(* visit relies on is not its own.                                         *)
Tab == [at : {"rest", "login", "google", "resolving", "landing"},
        nonce : Nat \cup {Absent}, sub : Subs \cup {Absent},
        join : Tokens \cup {Absent}, ret : Pages \cup {Absent},
        goal : Goals \cup {Absent}, next : Goals \cup {Absent},
        page : Goals \cup {Absent, "mismatch", "denied"},
        who : Nat \cup {Absent}, alone : BOOLEAN]

-----------------------------------------------------------------------------
NewTab == [at |-> "rest", nonce |-> Absent, sub |-> Absent, join |-> Absent, ret |-> Absent,
           goal |-> Absent, next |-> Absent, page |-> Absent, who |-> Absent, alone |-> TRUE]

RowOf(e, s) == [email |-> e, sub |-> s]

LoginInit ==
  /\ gmail = Gmail /\ retired = {}
  /\ account \in Old
  /\ jar = [acct |-> Absent, state |-> Absent, join |-> Absent, ret |-> Absent]
  /\ tab = [t \in Tabs |-> NewTab]
  /\ logins = 0 /\ lost = 0
  /\ first = [s \in Subs |-> Absent]

BySub(s) == { i \in DOMAIN account : account[i].sub = s }
ByEmail(e) == { i \in DOMAIN account : account[i].email = e }

(* Mutant of Found: an account is looked for by its address only.          *)
FoundByEmail(s) == ByEmail(gmail[s])

(* upsertAccountByGoogle: the row of the sub; or the row of the address,   *)
(* to which the sub is attached if it has none; or a new row.              *)
Found(s) == IF BySub(s) # {} THEN BySub(s) ELSE ByEmail(gmail[s])

Upserted(s) ==
  IF Found(s) = {} THEN Append(account, RowOf(gmail[s], s))
  ELSE [i \in DOMAIN account |->
          IF i \in Found(s) /\ account[i].sub = Absent
          THEN RowOf(account[i].email, s) ELSE account[i]]

(* Mutant of IdGiven: the newest row's, also when one was found.           *)
IdNewest(s) == Len(Upserted(s))

IdGiven(s) == IF Found(s) = {} THEN Len(account) + 1 ELSE CHOOSE i \in Found(s) : TRUE

(* The other tabs that are on their way no longer have the jar for         *)
(* themselves.                                                             *)
Crowded(ts, t) ==
  [o \in Tabs |-> IF o # t /\ ts[o].at # "rest"
                  THEN [ts[o] EXCEPT !.alone = FALSE] ELSE ts[o]]

Identities == <<gmail, retired, account, first>>

(* beginLogin: a new nonce, in the cookie and in Google's URL.             *)
Begun(w) == [w EXCEPT !.at = "google", !.nonce = logins + 1]

(* What a tab keeps once it is answered.                                   *)
Rested(w, page, who) ==
  [NewTab EXCEPT !.goal = w.goal, !.alone = w.alone, !.page = page, !.who = who,
                 !.sub = w.sub]

(* GET /join with a session redeems (Workspace!Redeem) and forgets the     *)
(* stash; without, it stashes the token and begins a login.                *)
JoinInvite(t, w, k) ==
  IF jar.acct # Absent
  THEN /\ jar' = [jar EXCEPT !.join = Absent]
       /\ tab' = Crowded([tab EXCEPT ![t] = Rested(w, k, jar.acct.id)], t)
       /\ UNCHANGED logins
  ELSE /\ logins < MaxLogins /\ logins' = logins + 1
       /\ jar' = [jar EXCEPT !.join = k, !.state = logins + 1]
       /\ tab' = Crowded([tab EXCEPT ![t] = Begun(w)], t)

(* GET /device, /clone, /admin and /app: with a session the page; without, *)
(* the first two stash the way back and they and /admin go on to           *)
(* /account/login; so does the app's Sign in. What the page says (an       *)
(* approval form, commands, 404 to a stranger) is left out.                *)
Page(t, w, d) ==
  /\ IF jar.acct # Absent
     THEN /\ tab' = [tab EXCEPT ![t] = Rested(w, d, jar.acct.id)]
          /\ UNCHANGED jar
     ELSE /\ tab' = Crowded([tab EXCEPT ![t] = [w EXCEPT !.at = "login"]], t)
          /\ jar' = IF d \in Pages THEN [jar EXCEPT !.ret = d] ELSE jar
  /\ UNCHANGED logins

Request(t, w, d) ==
  \/ d \in Tokens /\ JoinInvite(t, w, d)
  \/ d \in Places /\ Page(t, w, d)

(* Stashes an earlier visit left behind would take this one elsewhere.     *)
Clear(d) ==
  \/ d \in Tokens
  \/ d \in Pages /\ jar.join = Absent
  \/ d = "app" /\ jar.join = Absent /\ jar.ret = Absent

(* The user opens a link in a tab, giving up what it was showing.          *)
Visit(t, d) ==
  /\ tab[t].at \in {"rest", "google"}
  /\ Request(t, [NewTab EXCEPT !.goal = d, !.alone = Clear(d) \/ jar.acct # Absent], d)
  /\ UNCHANGED <<Identities, lost>>

(* GET /account/login.                                                     *)
LoginRoute(t) ==
  /\ tab[t].at = "login"
  /\ logins < MaxLogins /\ logins' = logins + 1
  /\ jar' = [jar EXCEPT !.state = logins + 1]
  /\ tab' = Crowded([tab EXCEPT ![t] = Begun(tab[t])], t)
  /\ UNCHANGED <<Identities, lost>>

(* The browser comes back without a code, or with a state that is not the  *)
(* cookie's: the cookie goes, whoever's it was.                            *)
Refused(t, page) ==
  /\ jar' = [jar EXCEPT !.state = Absent]
  /\ tab' = Crowded([tab EXCEPT ![t] = Rested(tab[t], page, Absent)], t)
  /\ UNCHANGED <<Identities, logins, lost>>

Mismatch(t) ==
  /\ tab[t].at = "google" /\ jar.state # tab[t].nonce
  /\ Refused(t, "mismatch")

Deny(t) ==
  /\ tab[t].at = "google" /\ jar.state = tab[t].nonce
  /\ Refused(t, "denied")

(* The visitor chose an identity, and the state is the cookie's: Google is *)
(* asked who it is.                                                        *)
Callback(t, s) ==
  /\ tab[t].at = "google" /\ jar.state = tab[t].nonce
  /\ tab' = [tab EXCEPT ![t] = [@ EXCEPT !.at = "resolving", !.sub = s,
                                         !.join = jar.join, !.ret = jar.ret]]
  /\ UNCHANGED <<Identities, jar, logins, lost>>

(* resolveLogin gives nothing: an error, a code used before, an address    *)
(* that is not verified.                                                   *)
Unresolved(t) ==
  /\ tab[t].at = "resolving"
  /\ Refused(t, "denied")

(* Google is not reached: the error answers 500 and clears nothing.        *)
Thrown(t) ==
  /\ tab[t].at = "resolving"
  /\ tab' = [tab EXCEPT ![t] = Rested(tab[t], "denied", Absent)]
  /\ UNCHANGED <<Identities, jar, logins, lost>>

(* Mutant of Landing: the way back goes before the invitation.             *)
LandingBack(w) ==
  IF w.ret # Absent THEN w.ret ELSE IF w.join # Absent THEN w.join ELSE "app"

(* Where the callback redirects to, by the cookies it was sent with.       *)
Landing(w) ==
  IF w.join # Absent THEN w.join ELSE IF w.ret # Absent THEN w.ret ELSE "app"

GiveAccount(s) ==
  /\ account' = Upserted(s)
  /\ first' = [first EXCEPT ![s] = IF @ = Absent THEN IdGiven(s) ELSE @]
  /\ UNCHANGED <<gmail, retired>>

(* The account is found or made, its session set, the state cookie and the *)
(* stash that is used dropped.                                             *)
Resolve(t) ==
  /\ tab[t].at = "resolving"
  /\ LET w == tab[t]
         to == Landing(w)
     IN  /\ GiveAccount(w.sub)
         /\ jar' = [acct |-> [id |-> IdGiven(w.sub), sub |-> w.sub], state |-> Absent,
                    join |-> IF to \in Tokens THEN Absent ELSE jar.join,
                    ret |-> IF to \in Pages THEN Absent ELSE jar.ret]
         /\ tab' = Crowded([tab EXCEPT ![t].at = "landing", ![t].next = to], t)
  /\ UNCHANGED <<logins, lost>>

(* The tab is closed or moves on while Google is asked: the account may be *)
(* made, the answer with its cookies is lost.                              *)
Abandon(t) ==
  /\ tab[t].at = "resolving"
  /\ lost < MaxLost /\ lost' = lost + 1
  /\ GiveAccount(tab[t].sub)
  /\ tab' = [tab EXCEPT ![t] = NewTab]
  /\ UNCHANGED <<jar, logins>>

(* The redirect of the callback is followed, with the cookies of that      *)
(* moment.                                                                 *)
Land(t) ==
  /\ tab[t].at = "landing"
  /\ Request(t, tab[t], tab[t].next)
  /\ UNCHANGED <<Identities, lost>>

(* A cookie ends, or GET /account/logout drops the session.                *)
Expire(c) ==
  /\ jar[c] # Absent
  /\ lost < MaxLost /\ lost' = lost + 1
  /\ jar' = [jar EXCEPT ![c] = Absent]
  /\ tab' = Crowded(tab, Absent)
  /\ UNCHANGED <<Identities, logins>>

(* A person's address changes at Google, to one nobody had.                *)
ChangeAddress(s, e) ==
  /\ Cardinality(retired) < MaxChanges
  /\ e \notin retired \cup { gmail[q] : q \in Subs }
  /\ gmail' = [gmail EXCEPT ![s] = e]
  /\ retired' = retired \cup {gmail[s]}
  /\ UNCHANGED <<account, jar, tab, logins, lost, first>>

LoginNext ==
  \/ \E t \in Tabs :
       \/ \E d \in Goals : Visit(t, d)
       \/ \E s \in Subs : Callback(t, s)
       \/ LoginRoute(t) \/ Mismatch(t) \/ Deny(t) \/ Unresolved(t) \/ Thrown(t)
       \/ Resolve(t) \/ Abandon(t) \/ Land(t)
  \/ \E c \in {"acct", "state", "join", "ret"} : Expire(c)
  \/ \E s \in Subs, e \in Emails : ChangeAddress(s, e)

LoginSpec == LoginInit /\ [][LoginNext]_loginVars

-----------------------------------------------------------------------------
(* Each variable has its type.                                             *)
LoginTypeOK ==
  /\ gmail \in [Subs -> Emails] /\ retired \subseteq Emails
  /\ account \in Seq(AccountRow) /\ first \in [Subs -> Nat \cup {Absent}]
  /\ jar \in Jar
  /\ tab \in [Tabs -> Tab]
  /\ logins \in Nat /\ lost \in Nat

(* The accounts of an identity: the one it was first given, and if that is *)
(* a row migrated from GitHub, whose sub is never attached to it, also the *)
(* one it is given when the address has changed.                           *)
Own(s) ==
  {first[s]} \cup IF first[s] # Absent /\ account[first[s]].sub = "github"
                  THEN BySub(s) ELSE {}

(* No two rows share an address or an identity, so no login ever fails on  *)
(* the table's UNIQUE columns, whatever was migrated, abandoned or renamed *)
(* before, and two people never get the same account.                      *)
OnePersonEach ==
  /\ \A i, j \in DOMAIN account :
       i # j => /\ account[i].email # account[j].email
                /\ account[i].sub = account[j].sub => account[i].sub \in {Absent, "github"}
  /\ \A s, q \in Subs : s # q => Own(s) \cap Own(q) \subseteq {Absent}

(* Whoever signs in is given one account for good, whatever became of the  *)
(* address since, in whatever order logins of several tabs end; only who   *)
(* began with a row migrated from GitHub may be given a second one, the    *)
(* one that carries the sub (accounts.ts:17-41).                           *)
AccountKept == jar.acct # Absent => jar.acct.id \in Own(jar.acct.sub)

(* Whoever signs in is given the account of the first time: the sub is     *)
(* "the get-or-create key" (oauth.ts:87) and rows migrated from GitHub are *)
(* "harmless, since Google logins resolve by email anyway" (db.ts:136).    *)
(* The code does not keep this: such a row is lost to its person once the  *)
(* address changes, for no login attaches the sub to it.                   *)
SameAccount == jar.acct # Absent => jar.acct.id = first[jar.acct.sub]

(* A visit that has the cookies for itself arrives where it set out for,   *)
(* as the person who signed in, through a login or without, unless Google  *)
(* refuses: its state is never taken for a foreign one, and stashes        *)
(* abandoned before do not lead it astray.                                 *)
UndisturbedArrives ==
  \A t \in Tabs :
    tab[t].at = "rest" /\ tab[t].goal # Absent /\ tab[t].alone =>
      \/ tab[t].page = "denied"
      \/ /\ tab[t].page = tab[t].goal
         /\ tab[t].sub # Absent => tab[t].who \in Own(tab[t].sub)
=============================================================================
