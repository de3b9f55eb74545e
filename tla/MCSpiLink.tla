----------------------------- MODULE MCSpiLink -----------------------------
(* A small instance of SpiLink for TLC. *)
EXTENDS SpiLink

\* One ncp_reset, one reset of the NCP's own, one queue of callbacks.
CommandsLimit == [k \in Budgets |-> 1]
=============================================================================
