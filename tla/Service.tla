------------------------------ MODULE Service ------------------------------
(***************************************************************************)
(* The scripts around ezsp-spi: the init script with its start, stop,      *)
(* join, scan and leave, procd that respawns the daemon, the LuCI back end *)
(* whose join runs in the background and leaves its exit code in JOINDONE, *)
(* and ezsp-spi-flash, which takes the lines away from the character       *)
(* device by exporting them through sysfs, transfers the image and puts    *)
(* everything back in an exit trap.                                        *)
(*                                                                         *)
(* The radio is a lock here (RadioLock, which GpioLines implements): a     *)
(* process has it, or the lines are exported, and in either case anybody   *)
(* else who opens them dies of EBUSY.                                      *)
(***************************************************************************)
EXTENDS Naturals

CONSTANTS
    Scripts,      \* scripts that may run at the same time
    MaxOps,       \* bound on the scripts started
    MaxSignals    \* bound on the signals sent to them

ASSUME ServiceAssumption == MaxOps \in Nat /\ MaxSignals \in Nat

VARIABLES
    uci,          \* [enabled, bridge]: /etc/config/ezsp-spi
    inst,         \* procd knows the instance
    svc,          \* the daemon: "gone", "starting", "up", or "term": on its way out
    holder,       \* who has the lines: "nobody", "svc" or a script's command
    exported,     \* the lines are exported through sysfs
    op, pc,       \* what each script is and where it is
    cont,         \* where flash goes on behind its teardown
    owes,         \* STOPPED_SERVICE of flash
    joindone,     \* the file JOINDONE exists
    abandoned,    \* history: a leave, or a killed script, has left the service stopped
    meddled,      \* history: scripts whose lines another script has unexported
    sharing,      \* history: scripts that found the lines exported by another one
    overlap,      \* history: a join was started while another one was running
    nops, nsignals

procd  == <<inst, svc>>
script == <<op, pc, cont, owes>>
hist   == <<abandoned, meddled, sharing, overlap>>
vars   == <<uci, procd, holder, exported, script, joindone, hist, nops, nsignals>>

Free == holder = "nobody" /\ ~exported

Init ==
    /\ uci \in [enabled: BOOLEAN, bridge: BOOLEAN]
    /\ inst = uci.enabled /\ svc = IF uci.enabled THEN "starting" ELSE "gone"
    /\ holder = "nobody" /\ exported = FALSE
    /\ op = [s \in Scripts |-> "none"] /\ pc = [s \in Scripts |-> "done"]
    /\ cont = [s \in Scripts |-> "done"] /\ owes = [s \in Scripts |-> FALSE]
    /\ joindone = FALSE
    /\ abandoned = FALSE /\ meddled = {} /\ sharing = {} /\ overlap = FALSE
    /\ nops = 0 /\ nsignals = 0

Goto(s, l) == pc' = [pc EXCEPT ![s] = l]

(***************************************************************************)
(* start and stop of the init script                                       *)
(***************************************************************************)

\* procd is told to end the daemon, and nobody waits until it has ended.
stop ==
    /\ inst' = FALSE
    /\ svc' = IF svc \in {"starting", "up"} THEN "term" ELSE svc

\* Whoever works with exported lines loses them.
Unexport(s) ==
    /\ exported' = FALSE
    /\ meddled' = meddled \cup {t \in Scripts \ {s} : pc[t] = "transfer"}

start_service(s) ==
    IF uci.enabled
    THEN /\ Unexport(s)
         /\ inst' = TRUE /\ abandoned' = FALSE
         /\ svc' = IF svc = "gone" THEN "starting" ELSE svc
    ELSE UNCHANGED <<procd, exported, meddled, abandoned>>

\* pins_open of the daemon, or its death.
SvcOpens ==
    /\ svc = "starting"
    /\ IF Free THEN svc' = "up" /\ holder' = "svc" ELSE svc' = "gone" /\ UNCHANGED holder
    /\ UNCHANGED <<uci, inst, exported, script, joindone, hist, nops, nsignals>>

SvcExits ==
    /\ svc = "term" /\ svc' = "gone"
    /\ holder' = IF holder = "svc" THEN "nobody" ELSE holder
    /\ UNCHANGED <<uci, inst, exported, script, joindone, hist, nops, nsignals>>

Respawn ==
    /\ inst /\ svc = "gone" /\ svc' = "starting"
    /\ UNCHANGED <<uci, inst, holder, exported, script, joindone, hist, nops, nsignals>>

(***************************************************************************)
(* Scripts begin                                                           *)
(***************************************************************************)
Begins(s, kind, l) ==
    /\ pc[s] = "done" /\ nops < MaxOps
    /\ nops' = nops + 1
    /\ op' = [op EXCEPT ![s] = kind] /\ Goto(s, l)
    /\ cont' = [cont EXCEPT ![s] = "done"] /\ owes' = [owes EXCEPT ![s] = FALSE]

\* join and scan have nothing to do in bridge mode; join returns as well when
\* no channel or no PAN id is configured.
FirstStep(kind) ==
    IF uci.bridge /\ kind # "leave" THEN {"return"}
    ELSE IF kind \in {"join", "rpcjoin"} THEN {"return", "stop"} ELSE {"stop"}

InitScript(s, kind) ==
    /\ \E l \in FirstStep(kind) : Begins(s, kind, l)
    /\ UNCHANGED <<uci, procd, holder, exported, joindone, hist, nsignals>>

Joining(s) == op[s] = "rpcjoin" /\ pc[s] # "done"

\* The join of LuCI, which goes on in the background.
KeepDone == UNCHANGED joindone
ClearDone == joindone' = FALSE

RpcJoin(s) ==
    /\ \E l \in FirstStep("rpcjoin") : Begins(s, "rpcjoin", l)
    /\ ClearDone
    /\ overlap' = (\E t \in Scripts : Joining(t))
    /\ UNCHANGED <<uci, procd, holder, exported, abandoned, meddled, sharing, nsignals>>

Flash(s) ==
    /\ Begins(s, "flash", "stop")
    /\ UNCHANGED <<uci, procd, holder, exported, joindone, hist, nsignals>>

(***************************************************************************)
(* Commands of a script                                                    *)
(***************************************************************************)
Stop(s) ==
    /\ pc[s] = "stop" /\ stop
    /\ Goto(s, IF op[s] = "flash" THEN "stopped" ELSE "open")
    /\ UNCHANGED <<uci, holder, exported, op, cont, owes, joindone, hist, nops, nsignals>>

\* What follows a command that has ended, well or badly.
Behind(s, ok) ==
    CASE pc[s] \in {"info", "infoing"}      -> "start"
      [] op[s] = "flash"                    -> IF ok THEN "prepare" ELSE "trap"
      [] op[s] = "leave"                    -> "return"
      [] OTHER                              -> "start"

\* The command opens the lines, or dies.
Opens(s, from, to) ==
    /\ pc[s] = from
    /\ IF Free THEN holder' = s /\ Goto(s, to)
       ELSE UNCHANGED holder /\ Goto(s, Behind(s, FALSE))
    /\ UNCHANGED <<uci, procd, exported, op, cont, owes, joindone, hist, nops, nsignals>>

Command(s) == Opens(s, "open", "running")

CommandEnds(s, ok) ==
    /\ pc[s] \in {"running", "infoing"}
    /\ holder' = "nobody"
    /\ Goto(s, Behind(s, ok))
    /\ UNCHANGED <<uci, procd, exported, op, cont, owes, joindone, hist, nops, nsignals>>

Start(s) ==
    /\ pc[s] = "start" /\ start_service(s)
    /\ Goto(s, "return")
    /\ UNCHANGED <<uci, holder, op, cont, owes, joindone, sharing, overlap, nops, nsignals>>

Return(s) ==
    /\ pc[s] = "return" /\ Goto(s, "done")
    /\ joindone' = (joindone \/ op[s] = "rpcjoin")
    /\ abandoned' = (abandoned \/ op[s] = "leave")
    /\ UNCHANGED <<uci, procd, holder, exported, op, cont, owes, meddled, sharing, overlap, nops,
                   nsignals>>

(***************************************************************************)
(* ezsp-spi-flash                                                          *)
(***************************************************************************)
Stopped(s) ==
    /\ pc[s] = "stopped" /\ Goto(s, "open")
    /\ owes' = [owes EXCEPT ![s] = TRUE]
    /\ UNCHANGED <<uci, procd, holder, exported, op, cont, joindone, hist, nops, nsignals>>

Prepare(s) ==
    /\ pc[s] = "prepare"
    /\ Goto(s, "export") \/ Goto(s, "trap")     \* unknown board, no tarball, a failed mount
    /\ UNCHANGED <<uci, procd, holder, exported, op, cont, owes, joindone, hist, nops, nsignals>>

\* A line that is exported already is skipped, whoever has exported it.
ExportUnchecked == TRUE
CanExport == exported \/ holder = "nobody"

Export(s) ==
    /\ pc[s] = "export"
    /\ IF CanExport THEN exported' = TRUE /\ Goto(s, "transfer")
       ELSE UNCHANGED exported /\ Goto(s, "trap")
    /\ meddled' = meddled \ {s}
    /\ sharing' = IF exported THEN sharing \cup {s} ELSE sharing \ {s}
    /\ UNCHANGED <<uci, procd, holder, op, cont, owes, joindone, abandoned, overlap, nops,
                   nsignals>>

\* TestNCP_SPI ends; a failure ends the script by set -e.
Transfer(s) ==
    /\ pc[s] = "transfer"
    /\ Goto(s, "transferred") \/ Goto(s, "trap")
    /\ UNCHANGED <<uci, procd, holder, exported, op, cont, owes, joindone, hist, nops, nsignals>>

\* Teardown before the last look at the radio, and the end of the trap.
Transferred(s) ==
    /\ pc[s] = "transferred"
    /\ Goto(s, "teardown") /\ cont' = [cont EXCEPT ![s] = "info"]
    /\ UNCHANGED <<uci, procd, holder, exported, op, owes, joindone, hist, nops, nsignals>>

\* The exit trap.
ExitTrap(s) ==
    /\ pc[s] = "trap"
    /\ Goto(s, "teardown") /\ cont' = [cont EXCEPT ![s] = "done"]
    /\ UNCHANGED <<uci, procd, holder, exported, op, owes, joindone, hist, nops, nsignals>>

NeverRestart(s) == FALSE
Restarts(s) == owes[s]

teardown(s) ==
    /\ pc[s] = "teardown"
    /\ IF Restarts(s) /\ uci.enabled THEN start_service(s)
       ELSE Unexport(s) /\ UNCHANGED <<procd, abandoned>>
    /\ Goto(s, cont[s])
    /\ UNCHANGED <<uci, holder, op, cont, owes, joindone, sharing, overlap, nops, nsignals>>

\* The state of the new firmware is read.
Info(s) == Opens(s, "info", "infoing")

(***************************************************************************)
(* Signals.  One kills an init script, and the command it waits for, on    *)
(* the spot.  Flash runs its trap, without leaving: it goes on behind the  *)
(* command that was running, until the tree that teardown has removed is   *)
(* missed.  Behind the transfer the trap is no longer set.                 *)
(***************************************************************************)
Interrupted(s) ==
    CASE pc[s] = "running"  -> {"prepare", "trap"}
      [] pc[s] = "transfer" -> {"transferred", "trap"}
      [] OTHER              -> {IF pc[s] \in {"prepare", "export"} THEN "trap" ELSE pc[s]}

Trapped == {"stop", "stopped", "open", "running", "prepare", "export", "transfer", "transferred"}

\* The service is left stopped.
Leaves(s) == op[s] = "leave" \/ (op[s] # "flash" /\ pc[s] \in {"open", "running", "start"})

Signal(s) ==
    /\ nsignals < MaxSignals /\ nsignals' = nsignals + 1
    /\ pc[s] # "done" /\ op[s] # "rpcjoin"
    /\ holder' = IF holder = s THEN "nobody" ELSE holder
    /\ IF op[s] = "flash" /\ pc[s] \in Trapped
       THEN /\ Goto(s, "teardown")
            /\ \E l \in Interrupted(s) : cont' = [cont EXCEPT ![s] = l]
            /\ UNCHANGED abandoned
       ELSE /\ pc[s] \notin {"teardown", "trap"}
            /\ Goto(s, "done") /\ UNCHANGED cont
            /\ abandoned' = (abandoned \/ Leaves(s))
    /\ UNCHANGED <<uci, procd, exported, op, owes, joindone, meddled, sharing, overlap, nops>>

Step(s) ==
    \/ Stop(s) \/ Command(s) \/ Start(s) \/ Return(s)
    \/ \E ok \in BOOLEAN : CommandEnds(s, ok)
    \/ Stopped(s) \/ Prepare(s) \/ Export(s) \/ Transfer(s) \/ Transferred(s)
    \/ ExitTrap(s) \/ teardown(s) \/ Info(s)

Next ==
    \/ SvcOpens \/ SvcExits \/ Respawn
    \/ \E s \in Scripts :
         \/ \E kind \in {"join", "scan", "leave"} : InitScript(s, kind)
         \/ RpcJoin(s) \/ Flash(s) \/ Step(s) \/ Signal(s)

\* Commands end by their own timeouts, and so does the transfer on a board
\* whose device tree leaves chip select alone; procd respawns for ever.
Fairness ==
    /\ WF_vars(SvcOpens) /\ WF_vars(SvcExits) /\ WF_vars(Respawn)
    /\ \A s \in Scripts : WF_vars(Step(s))

Spec == Init /\ [][Next]_vars /\ Fairness

-----------------------------------------------------------------------------
\* A transfer has the lines, and nobody has them through the character device.
TransferHasLines ==
    \A s \in Scripts : pc[s] = "transfer" /\ s \notin meddled => exported /\ holder = "nobody"

\* Two transfers at once: the lines of one were unexported under it, or one of
\* them has passed the lines that the other had exported.
TransferSingle ==
    \A s, t \in Scripts :
      pc[s] = "transfer" /\ pc[t] = "transfer" /\ s # t =>
        s \in meddled \cup sharing \/ t \in meddled \cup sharing

\* ezsp-spi-flash:20, "the ezsp-spi service stopped, which this handles": while
\* an image is transferred neither the daemon that was stopped a moment ago or is
\* respawned, nor the command of another script, drives the NCP, however flash
\* got there, unless another script has unexported its lines (start_service and
\* teardown do).  Nor does a second transfer, with two exceptions: the lines of
\* one of the two were unexported, or one of them found the lines exported and
\* went on (ezsp-spi-flash:159).
TransferAlone == TransferHasLines /\ TransferSingle

\* ezsp-spi-flash:59, "the exit trap knows it owes the node a restart": whatever
\* scripts run, overlap, fail or are interrupted, in the end the daemon is up
\* and has the lines, unless a leave or a killed init script came last.
ServiceReturns == <>[](abandoned \/ ~uci.enabled \/ (svc = "up" /\ holder = "svc" /\ ~exported))

\* join_status says that a join has ended only when it has, and not on the
\* strength of the file that an earlier join has left.
JoinStatusFresh == joindone /\ ~overlap => \A s \in Scripts : ~Joining(s)

\* ezsp-spi-flash:192, "Read the state here, while the service is still stopped
\* and we own the GPIO lines".
InfoWhileStopped == \A s \in Scripts : pc[s] \in {"info", "infoing"} => ~inst
=============================================================================
