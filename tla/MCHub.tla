------------------------------- MODULE MCHub -------------------------------
(***************************************************************************)
(* Small instances of three parts of the hub side by side: the relay with  *)
(* its writers, the gateway's rosters, and signing in. No step of one      *)
(* reads or writes what another keeps, so every behaviour of each is seen  *)
(* while the other two are at their start: the states of the three add up  *)
(* where those of a free interleaving would multiply.                      *)
(***************************************************************************)
EXTENDS MCRelaySync, Workspace, MCLogin

VARIABLE part  \* which of the three is moving

HubInit ==
  /\ SyncInit /\ RosterInit /\ LoginInit
  /\ part \in {"relay", "roster", "login"}

HubNext ==
  /\ \/ part = "relay" /\ SyncNext /\ UNCHANGED <<rosterVars, loginVars>>
     \/ part = "roster" /\ RosterNext /\ UNCHANGED <<syncVars, loginVars>>
     \/ part = "login" /\ LoginNext /\ UNCHANGED <<syncVars, rosterVars>>
  /\ UNCHANGED part

HubSpec == HubInit /\ [][HubNext]_<<syncVars, rosterVars, loginVars, part>>

(* Connections, requests and tabs are the same two values: exchanging them *)
(* maps each part onto itself.                                             *)
HubSymm == Permutations(Conns)
=============================================================================
