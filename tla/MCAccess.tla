------------------------------ MODULE MCAccess ------------------------------
(* Small instances of Access for TLC. *)
EXTENDS Access, TLC

MCFounded == [s \in Stores |-> Accounts]

Symm == Permutations(Accounts) \cup Permutations(Keys)
=============================================================================
