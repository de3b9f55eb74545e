--------------------------- MODULE CommandService ---------------------------
(***************************************************************************)
(* What the command layer (do_cmd) promises its callers, whatever the NCP  *)
(* and the wires do: a command is executed at most once and only while its *)
(* caller waits for it, an answer is handed out only for a command that    *)
(* was executed, and every caller hears back.                              *)
(***************************************************************************)
EXTENDS Naturals, Sequences

CONSTANT Ids        \* the commands, numbered from 1

VARIABLES
    cur,            \* the command its caller waits for, 0 if there is none
    executed,       \* the commands the NCP has executed, in that order
    answered        \* the commands whose caller got an answer

svcvars == <<cur, executed, answered>>

Init == cur = 0 /\ executed = <<>> /\ answered = {}

Ran(c) == \E i \in 1..Len(executed) : executed[i] = c

Issue(c) ==
    /\ cur = 0 /\ ~Ran(c)
    /\ cur' = c
    /\ UNCHANGED <<executed, answered>>

Execute ==
    /\ cur # 0 /\ ~Ran(cur)
    /\ executed' = Append(executed, cur)
    /\ UNCHANGED <<cur, answered>>

Answer ==
    /\ cur # 0 /\ Ran(cur)
    /\ answered' = answered \cup {cur} /\ cur' = 0
    /\ UNCHANGED executed

\* Executed or not: the caller cannot tell.
Fail ==
    /\ cur # 0 /\ cur' = 0
    /\ UNCHANGED <<executed, answered>>

Next == (\E c \in Ids : Issue(c)) \/ Execute \/ Answer \/ Fail

Spec == Init /\ [][Next]_svcvars

FairSpec == Spec /\ WF_svcvars(Answer \/ Fail)
=============================================================================
