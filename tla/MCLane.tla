------------------------------- MODULE MCLane -------------------------------
(* Small instances of Lane for TLC. *)
EXTENDS Lane, TLC

CONSTANTS m1, m2, t1

MCMoved == << [by |-> m1, task |-> t1, starts |-> FALSE],
              [by |-> m2, task |-> t1, starts |-> TRUE],
              [by |-> m1, task |-> t1, starts |-> TRUE] >>

Symm == Permutations(Slots)
=============================================================================
