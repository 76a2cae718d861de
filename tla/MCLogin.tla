------------------------------ MODULE MCLogin ------------------------------
(* Small instances of Login for TLC: two people who had a row before       *)
(* Google, one with a GitHub login in it, the other without. Each change   *)
(* of address is to one that has no row.                                   *)
EXTENDS Login, TLC

CONSTANTS u1, u2, m1, m2, m3

MCGmail == (u1 :> m1) @@ (u2 :> m2)
MCOld == { << [email |-> m1, sub |-> "github"], [email |-> m2, sub |-> Absent] >> }

SymmTabs == Permutations(Tabs)
=============================================================================
