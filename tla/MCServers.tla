---------------------------- MODULE MCServers -------------------------------
(* Instances of the parts of Servers.                                      *)
EXTENDS Servers

(* Two updates and a stop in one worktree, an update in another.           *)
MCUpdates == {"u1", "u2", "u3"}
MCCall == MCUpdates \cup {"s1"}
MCRepo == [c \in Call |-> IF c = "u3" THEN "w2" ELSE "w1"]

(* Four pull requests, the last in conflict with the first; one or two of  *)
(* the others break the suite, alone, together or with another.            *)
MCBatch == <<"p1", "p2", "p3", "p4">>
MCClash == {{"p1", "p4"}}
MCBreaks == {{}, {{"p1"}}, {{"p3"}}, {{"p1"}, {"p2"}}, {{"p2"}, {"p3"}}, {{"p1", "p2"}},
             {{"p1", "p3"}}, {{"p2"}, {"p1", "p3"}}}

(* Two executions, one named as a task of the other would be; a checkout   *)
(* on the branch of the first, another to come.                            *)
MCId == {<<"a">>, <<"a", "b">>}
MCBranch == {<<"main">>, <<"apv", "a">>, <<"apv", "a", "b">>}
MCOnFirst == [main |-> <<"main">>, w1 |-> <<"apv", "a">>, w2 |-> <<"gone">>]
MCModeAt == [main |-> "final", w1 |-> "unreadable", w2 |-> "each-integration"]

(* The batch, alone.                                                       *)
BatchSpec == Init /\ part = "batch" /\ [][Next]_vars /\ Fairness

(* BatchMerge: `The whole failed while every half passed`.                 *)
InteractionIsOfTheWhole == part = "batch" => BM!InteractionIsOfTheWhole
=============================================================================
