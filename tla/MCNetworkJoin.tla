---------------------------- MODULE MCNetworkJoin ----------------------------
(* Small instances of NetworkJoin for TLC. *)
EXTENDS NetworkJoin

\* A join and a leave in either order, each lost command, kill and power cut.
CommandsLimit == [k \in Budgets |-> 1]
=============================================================================
