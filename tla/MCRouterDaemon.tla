--------------------------- MODULE MCRouterDaemon ---------------------------
(* Small instances of RouterDaemon for TLC. *)
EXTENDS RouterDaemon

NoBudget == [k \in Budgets |-> 0]

\* A callback, an NCP reset, a failed SPI transaction, a client that dies.
LoopLimit == [k \in Budgets |-> 1]

CallbackLimit == [NoBudget EXCEPT !["callback"] = 1]
=============================================================================
