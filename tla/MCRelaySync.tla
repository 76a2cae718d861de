---------------------------- MODULE MCRelaySync ----------------------------
(* Small instances of RelaySync for TLC: two machines whose local logs     *)
(* overlap, pushing what one relay serves to its readers.                  *)
EXTENDS RelaySync

CONSTANTS e1, e2, e3, w1, w2

MCAuthored == (w1 :> <<e1, e2>>) @@ (w2 :> <<e2, e3>>)
MCAuthoredSmall == (w1 :> <<e1, e2>>) @@ (w2 :> <<e2>>)
MCBatches ==
  UNION { { SubSeq(Authored[w], m, n) : m, n \in DOMAIN Authored[w] } : w \in Writers }
=============================================================================
