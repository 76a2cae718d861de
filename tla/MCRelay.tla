------------------------------ MODULE MCRelay ------------------------------
(* Small instances of Relay for TLC. *)
EXTENDS Relay

(* Every batch of at most two of the ids, repetitions included.            *)
MCBatches == UNION { [1..n -> Ids] : n \in 0..2 }

Symm == Permutations(Ids) \cup Permutations(Conns)
=============================================================================
