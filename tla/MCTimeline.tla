----------------------------- MODULE MCTimeline -----------------------------
(* Small instances of Timeline for TLC. *)
EXTENDS Timeline, TLC

CONSTANTS A, B

MCInitial == (A :> {1, 2}) @@ (B :> {1, 2})
=============================================================================
