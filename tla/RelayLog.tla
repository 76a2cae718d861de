------------------------------ MODULE RelayLog ------------------------------
(***************************************************************************)
(* What the relay promises, without files, memory, queues or crashes: one  *)
(* log that only grows at its end and never holds an id twice, and an      *)
(* acknowledgement only for what that log holds. Module Relay is shown to  *)
(* implement it with the durable log, what hydrate would rebuild from the  *)
(* file, in the role of `log`.                                             *)
(***************************************************************************)
EXTENDS Integers, FiniteSets, SequencesExt

CONSTANT Ids

VARIABLES log, acked

NoDuplicates(s) == \A i, j \in DOMAIN s : s[i] = s[j] => i = j

Init == log = << >> /\ acked = {}

(* Some fresh events are stored, at the end and in one step.               *)
Store ==
  /\ IsStrictPrefix(log, log')
  /\ ToSet(log') \subseteq Ids /\ NoDuplicates(log')

(* Clients are told of ids the log holds after the step.                   *)
Acknowledge ==
  /\ acked \subseteq acked'
  /\ acked' \subseteq ToSet(log')

Next == (Store \/ UNCHANGED log) /\ Acknowledge

Spec == Init /\ [][Next]_<<log, acked>>
=============================================================================
