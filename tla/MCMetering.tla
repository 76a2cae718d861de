---------------------------- MODULE MCMetering ----------------------------
(* Small instances of Metering for TLC. *)
EXTENDS Metering, TLC

Symm == Permutations(Stores) \cup Permutations(Calls) \cup Permutations(Accounts)
          \cup Permutations(Events)
=============================================================================
