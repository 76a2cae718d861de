------------------------------ MODULE MCTasks ------------------------------
(* A small instance of Tasks for TLC. *)
EXTENDS Tasks, TLC

CONSTANTS A, B

(* Every dependency graph on three tasks, and every order of its lists.    *)
MCLists == { <<>>, <<1>>, <<2>>, <<3>>, <<1, 2>>, <<2, 1>>, <<1, 3>>, <<3, 1>>, <<2, 3>>, <<3, 2>> }
MCGraphs == { g \in [1..3 -> MCLists] : \A t \in 1..3 : t \notin Range(g[t]) }

CONSTANTS s1, s2
MCSymmetry == Permutations({s1, s2})

MCMemberOf == <<"ann", "bob", "ann">>
MCPriorityOf == <<"high", "high", "low">>
MCLink == <<A, 2>>
MCCreated == <<-2, -1, 1>>
MCEnded == <<None, 0, None>>
=============================================================================
