----------------------------- MODULE GpioLines -----------------------------
(***************************************************************************)
(* Who holds the radio.  Every ezsp-spi process that talks to the NCP      *)
(* requests the GPIO lines one by one (pins_open), uses the radio and      *)
(* gives the lines back one by one (pins_close), or exits with them, in    *)
(* which case the kernel closes the descriptors in the order of their      *)
(* numbers.  A line belongs to one process at a time; a refused request is *)
(* fatal for nRESET, nWAKE and nSSEL_INT and tolerated for nSSEL and       *)
(* nHOST_INT.  procd restarts the service whenever it ends; the other      *)
(* processes are one-off commands.                                         *)
(***************************************************************************)
EXTENDS Integers, Sequences

CONSTANTS
    Procs,         \* processes
    Daemons,       \* those procd restarts without limit
    Unclean,       \* those that may end without pins_close (bridge, probe,
                   \* or anything that is killed)
    Free, Kernel,  \* a line nobody holds; a line the device tree claims
    KernelCs,      \* the device tree still declares cs-gpios
    DrivesNssel,   \* nssel_int_mode is not "input"
    MaxRuns        \* bound on the runs of a one-off command

ASSUME ProcsAssumption ==
    Free \notin Procs /\ Kernel \notin Procs /\ Daemons \subseteq Procs /\ Unclean \subseteq Procs
ASSUME ModeAssumption == KernelCs \in BOOLEAN /\ DrivesNssel \in BOOLEAN /\ MaxRuns \in Nat

Lines == {"reset", "wake", "nssel", "cs", "hint"}

OpenOrderWakeTwice == <<"reset", "wake", "wake", "cs", "hint">>
OpenOrder == <<"reset", "wake", "nssel", "cs", "hint">>
CloseAsOpened == OpenOrder
CloseOrder == <<"cs", "reset", "wake", "nssel", "hint">>

\* Lines a process asks for, and those it cannot do without.
Wanted == IF DrivesNssel THEN Lines ELSE Lines \ {"nssel"}
NothingFatal == {}
FatalLines == {"reset", "wake", "nssel"} \cap Wanted

VARIABLES
    owner,   \* the process that holds a line
    pst,     \* "out", "opening", "using", "closing" or "exiting"
    k,       \* index of the next line to open or close
    runs     \* how often a process has been started (commands only)

vars == <<owner, pst, k, runs>>

Init ==
    /\ owner = [l \in Lines |-> IF l = "cs" /\ KernelCs THEN Kernel ELSE Free]
    /\ pst = [p \in Procs |-> "out"]
    /\ k = [p \in Procs |-> 1]
    /\ runs = [p \in Procs |-> 0]

Becomes(p, st) == pst' = [pst EXCEPT ![p] = st] /\ k' = [k EXCEPT ![p] = 1]

\* procd: respawn with no retry limit.
MayStart(p) == p \in Daemons \/ runs[p] < MaxRuns

Start(p) ==
    /\ pst[p] = "out" /\ MayStart(p)
    /\ Becomes(p, "opening")
    /\ runs' = [runs EXCEPT ![p] = IF p \in Daemons THEN @ ELSE @ + 1]
    /\ UNCHANGED owner

\* One request of pins_open.
Request(p) ==
    /\ pst[p] = "opening" /\ k[p] <= Len(OpenOrder)
    /\ LET l == OpenOrder[k[p]]
           next == k' = [k EXCEPT ![p] = @ + 1] /\ UNCHANGED pst
       IN  \/ /\ l \notin Wanted
              /\ next /\ UNCHANGED owner
           \/ /\ l \in Wanted /\ owner[l] = Free
              /\ owner' = [owner EXCEPT ![l] = p]
              /\ next
           \/ /\ l \in Wanted /\ owner[l] # Free /\ l \notin FatalLines
              /\ next /\ UNCHANGED owner
           \/ /\ l \in Wanted /\ owner[l] # Free /\ l \in FatalLines
              /\ Becomes(p, "exiting")              \* die()
              /\ UNCHANGED owner
    /\ UNCHANGED runs

\* pins_open has been through its lines.
AllRequested(p) == k[p] > Len(OpenOrder)

\* pins_open returns: from here on the process resets and drives the NCP.
Opened(p) ==
    /\ pst[p] = "opening" /\ AllRequested(p)
    /\ Becomes(p, "using")
    /\ UNCHANGED <<owner, runs>>

\* The command is done, or an error path gives up.
Finish(p) ==
    /\ pst[p] = "using"
    /\ Becomes(p, "closing")
    /\ UNCHANGED <<owner, runs>>

\* exit() or a signal with the lines still open.
Quit(p) ==
    /\ p \in Unclean /\ pst[p] \in {"opening", "using", "closing"}
    /\ Becomes(p, "exiting")
    /\ UNCHANGED <<owner, runs>>

Release(p, l) == owner' = IF owner[l] = p THEN [owner EXCEPT ![l] = Free] ELSE owner

\* One close() of pins_close.
Close(p) ==
    /\ pst[p] = "closing"
    /\ IF k[p] <= Len(CloseOrder)
       THEN /\ Release(p, CloseOrder[k[p]])
            /\ k' = [k EXCEPT ![p] = @ + 1] /\ UNCHANGED pst
       ELSE Becomes(p, "exiting") /\ UNCHANGED owner
    /\ UNCHANGED runs

\* The kernel closes what is left, lowest descriptor first.
ExitClose(p) ==
    /\ pst[p] = "exiting"
    /\ IF k[p] <= Len(OpenOrder)
       THEN /\ Release(p, OpenOrder[k[p]])
            /\ k' = [k EXCEPT ![p] = @ + 1] /\ UNCHANGED pst
       ELSE Becomes(p, "out") /\ UNCHANGED owner
    /\ UNCHANGED runs

Step(p) == Request(p) \/ Opened(p) \/ Close(p) \/ ExitClose(p)

Next == \E p \in Procs : Start(p) \/ Step(p) \/ Finish(p) \/ Quit(p)

Spec == Init /\ [][Next]_vars

\* A running process runs, a one-off command ends, procd restarts a daemon.
FairSpec ==
    /\ Spec
    /\ \A p \in Procs : WF_vars(Step(p))
    /\ \A p \in Procs \ Daemons : WF_vars(Finish(p))
    /\ \A p \in Daemons : WF_vars(Start(p))

-----------------------------------------------------------------------------
\* Owners, process states and counters have their types; no list of lines is
\* walked past its end.
TypeOK ==
    /\ owner \in [Lines -> Procs \cup {Free, Kernel}]
    /\ pst \in [Procs -> {"out", "opening", "using", "closing", "exiting"}]
    /\ k \in [Procs -> 1..6]
    /\ runs \in [Procs -> Nat]

\* A process that drives the NCP holds every line pins_open insists on, until
\* it starts to give them back itself.
HeldWhileUsing ==
    \A p \in Procs : pst[p] = "using" => \A l \in FatalLines : owner[l] = p

\* At no time do two processes drive the NCP: no command can reset it, or
\* start a transaction, under the service.
RadioExclusive ==
    \A p, q \in Procs : pst[p] = "using" /\ pst[q] = "using" => p = q

\* While a process drives the NCP nobody else alive drives its chip select.  A
\* refused nSSEL is taken for the kernel's (board.c:105) and the process goes on
\* without it; who has the line can then only be the kernel, or a process that
\* was killed and is losing its lines one by one.  It rests on pins_close, which
\* gives nSSEL back before the lines that let another process in.
ChipSelectAlone ==
    \A p, q \in Procs : pst[p] = "using" /\ owner["cs"] = q => q = p \/ pst[q] = "exiting"

\* The lines as a lock: nRESET is it, the other lines come and go behind it.
Lock == INSTANCE RadioLock WITH
    Nobody <- Free, holder <- owner["reset"], users <- {p \in Procs : pst[p] = "using"}

\* The service gets the radio back after every one-off command, although it is
\* started, refused and restarted at any moment of theirs.
ServiceComesBack == \A d \in Daemons : []<>(pst[d] = "using")
=============================================================================
