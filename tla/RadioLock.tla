----------------------------- MODULE RadioLock -----------------------------
(***************************************************************************)
(* What the GPIO lines are used for: a lock on the radio.  A process takes *)
(* it when nobody has it, uses the radio only while it has it, and gives   *)
(* it back itself when it has stopped; nobody is ever robbed.              *)
(***************************************************************************)
CONSTANTS Procs, Nobody

VARIABLES holder, users

Init == holder = Nobody /\ users = {}

Take(p) == holder = Nobody /\ holder' = p /\ UNCHANGED users

Use(p) == holder = p /\ users' = users \cup {p} /\ UNCHANGED holder

Stop(p) == p \in users /\ users' = users \ {p} /\ UNCHANGED holder

Give(p) == holder = p /\ p \notin users /\ holder' = Nobody /\ UNCHANGED users

Next == \E p \in Procs : Take(p) \/ Use(p) \/ Stop(p) \/ Give(p)

Spec == Init /\ [][Next]_<<holder, users>>
=============================================================================
