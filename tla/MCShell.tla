------------------------------ MODULE MCShell ------------------------------
(* Small instances of Shell for TLC. *)
EXTENDS Shell

MCEntrances == {MaxWorkspaces}

MCButtons ==
  {<<"share", "mint">>, <<"share", "leave">>, <<"share", "change">>, <<"settings", "change">>}
=============================================================================
