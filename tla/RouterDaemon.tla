---------------------------- MODULE RouterDaemon ----------------------------
(***************************************************************************)
(* "ezsp-spi run": the daemon that keeps the NCP a router.  One thread     *)
(* sleeps in poll() on the control socket and, if it is not asserted, on   *)
(* nHOST_INT; then answers one control client, collects every queued       *)
(* callback, and sends a report to the coordinator when one is due.        *)
(*                                                                         *)
(* The control clients (control_query, or anything else that connects to   *)
(* the unix socket) and the NCP are external.  Time is counted in ticks,   *)
(* relative to the next report.  The NCP is reduced to whether a version   *)
(* has been agreed since its last reset, its callback queue and the number *)
(* of unicasts it still has to confirm with a messageSentHandler.          *)
(***************************************************************************)
EXTENDS Integers, Sequences

CONSTANTS
    Clients,        \* control connections; each is made at most once
    None,           \* no control client is being served
    Silent,         \* the clients that connect and never write a request
    HasHint,        \* the nHOST_INT line could be requested (p.hint >= 0)
    EzspVersions,   \* the versions an NCP may speak
    ReportSecs,     \* cfg.report_secs in ticks, 0 for no reports
    FirstSpread,    \* spread of the first report (rand() % 30 in the code)
    PollMax,        \* the poll timeout without a report (30 s in the code)
    MaxSending,     \* unicasts the NCP stack carries at a time
    CounterMax,     \* where the model stops counting failures
    Limit           \* bound on the external events named in Budgets

Budgets == {"callback", "crash", "fault", "hang"}

ASSUME ClientsAssumption == None \notin Clients /\ Silent \subseteq Clients
ASSUME TimeAssumption ==
    /\ ReportSecs \in Nat /\ FirstSpread \in Nat \ {0} /\ PollMax \in Nat \ {0}
ASSUME BoundsAssumption ==
    /\ MaxSending \in Nat /\ CounterMax \in Nat \ {0} /\ Limit \in [Budgets -> Nat]
    /\ HasHint \in BOOLEAN /\ EzspVersions \subseteq 4..8

VARIABLES
    pc,             \* where the loop of cmd_run is
    armed,          \* nHOST_INT is in the poll set
    left,           \* what remains of the poll timeout
    due,            \* next_report - time(NULL), -1 once it has passed
    ctl,            \* the control client being served
    report_failed,  \* sends refused or not confirmed
    conn,           \* client ends of the control connections
    asked,          \* clients whose request has been written
    queue,          \* connections not accepted yet
    ezsp_version, agreed, cbq, sending,     \* the NCP and the version it speaks
    edge,           \* an unread falling edge of nHOST_INT
    used            \* how much of each budget is spent

loop   == <<pc, armed, left, due, ctl>>
peers  == <<conn, asked, queue>>
ncp    == <<ezsp_version, agreed, cbq, sending>>
vars   == <<loop, report_failed, peers, ncp, edge, used>>

Callbacks == {"read", "sentok", "sentfail", "other"}

Spend(k) == used[k] < Limit[k] /\ used' = [used EXCEPT ![k] = @ + 1]
Count(n) == IF n < CounterMax THEN n + 1 ELSE n
Least(a, b) == IF a < b THEN a ELSE b

(***************************************************************************)
(* Reports                                                                 *)
(***************************************************************************)
\* report_interval: the configured period, 20 % more or less.
report_interval ==
    LET span == ReportSecs \div 5 IN (ReportSecs - span)..(ReportSecs + span)

\* The first report of a process is staggered too.
FirstReport == IF ReportSecs = 0 THEN {0} ELSE 0..(FirstSpread - 1)

(***************************************************************************)
(* The poll timeout is cut to the time that is left to the next report.    *)
(***************************************************************************)
FlatTimeout == PollMax
TimeoutUnclamped == IF ReportSecs = 0 THEN PollMax ELSE Least(PollMax, due)
PollTimeout ==
    IF ReportSecs = 0 THEN PollMax ELSE Least(PollMax, IF due < 0 THEN 0 ELSE due)

\* An asserted nHOST_INT (a callback is queued) is left out of the poll set.
Arm == HasHint /\ cbq = <<>>

Poll ==
    /\ pc = "poll"
    /\ armed' = Arm /\ left' = PollTimeout
    /\ pc' = "sleep"
    /\ UNCHANGED <<due, ctl, report_failed, peers, ncp, edge, used>>

\* The drain follows whatever ended the poll(), a timeout included.
AfterWakeByLine == IF armed /\ edge THEN "drain" ELSE "report"
AfterWake == "drain"

\* poll() returns; an edge is consumed, a waiting client is served first.
Wake ==
    /\ pc = "sleep"
    /\ queue # <<>> \/ (armed /\ edge) \/ left = 0
    /\ edge' = (edge /\ ~armed)
    /\ armed' = FALSE /\ left' = 0
    /\ pc' = IF queue # <<>> THEN "accept" ELSE AfterWake
    /\ UNCHANGED <<due, ctl, report_failed, peers, ncp, used>>

Tick ==
    /\ pc = "sleep" => left > 0
    /\ due > -1 \/ pc = "sleep"
    /\ due' = IF due > -1 THEN due - 1 ELSE -1
    /\ left' = IF pc = "sleep" THEN left - 1 ELSE left
    /\ UNCHANGED <<pc, armed, ctl, report_failed, peers, ncp, edge, used>>

(***************************************************************************)
(* control_accept                                                          *)
(***************************************************************************)
Accept ==
    /\ pc = "accept"
    /\ ctl' = Head(queue) /\ queue' = Tail(queue)
    /\ pc' = "read"
    /\ UNCHANGED <<armed, left, due, report_failed, conn, asked, ncp, edge, used>>

\* The blocking read() of the request: it returns when there is one ...
ReadRequest ==
    /\ pc = "read" /\ ctl \in asked
    /\ pc' = "serve"
    /\ UNCHANGED <<armed, left, due, ctl, report_failed, peers, ncp, edge, used>>

\* ... or when the client has gone without one.
ReadNothing ==
    /\ pc = "read" /\ ctl \notin asked /\ conn[ctl] = "gone"
    /\ ctl' = None /\ pc' = "drain"
    /\ conn' = [conn EXCEPT ![ctl] = "closed"]
    /\ UNCHANGED <<armed, left, due, report_failed, asked, queue, ncp, edge, used>>

\* Before a transaction ncp_wake discards the edges it finds, unless the line
\* is asserted.
EdgeAfterSpi == edge /\ cbq # <<>>

\* The EZSP commands behind a request; none of them changes the loop's state.
Serve ==
    /\ pc = "serve"
    /\ edge' = EdgeAfterSpi
    /\ pc' = "reply"
    /\ UNCHANGED <<armed, left, due, ctl, report_failed, peers, ncp, used>>

\* close(): the end of file the client waits for.
LeaveOpen == UNCHANGED conn
CloseReply == conn' = [conn EXCEPT ![ctl] = "answered"]

\* The reply is written and the connection closed.  If the client has hung up
\* that write() raises SIGPIPE; the program neither handles nor ignores it, so
\* it ends the process unless its parent left the signal ignored.
Reply ==
    /\ pc = "reply"
    /\ IF conn[ctl] = "gone"
       THEN pc' \in {"dead", "drain"} /\ conn' = [conn EXCEPT ![ctl] = "closed"]
       ELSE pc' = "drain" /\ CloseReply
    /\ ctl' = None
    /\ UNCHANGED <<armed, left, due, report_failed, asked, queue, ncp, edge, used>>

(***************************************************************************)
(* The callback drain: ezsp_poll_callback until it returns 0               *)
(***************************************************************************)
\* The NCP takes a unicast on, or refuses it; without an agreed version it
\* refuses everything.
zcl_send(accepted) ==
    /\ accepted => agreed /\ sending < MaxSending
    /\ sending' = IF accepted THEN sending + 1 ELSE sending

\* One callback of the queue and what cmd_run does about it.
Drain ==
    /\ pc = "drain" /\ agreed /\ cbq # <<>>
    /\ cbq' = Tail(cbq)
    /\ edge' = EdgeAfterSpi
    /\ report_failed' = IF Head(cbq) = "sentfail" THEN Count(report_failed) ELSE report_failed
    /\ IF Head(cbq) = "read" THEN \E ok \in BOOLEAN : zcl_send(ok)
       ELSE UNCHANGED sending
    /\ UNCHANGED <<loop, peers, ezsp_version, agreed, used>>

\* Without a queued callback the NCP answers noCallbacks or, once it has reset,
\* invalidCommand in the v4 header.  In a v4 session the id of that one is not
\* 0 and counts as one more callback; the longer headers make ezsp_xfer reject
\* the frame.
NoCallbacksIsOne == cbq = <<>> \/ ~agreed
AnswerIsCallback == ~agreed /\ ezsp_version = 4

DrainInvalid ==
    /\ pc = "drain" /\ AnswerIsCallback
    /\ edge' = EdgeAfterSpi
    /\ UNCHANGED <<loop, report_failed, peers, ncp, used>>

DrainEnd ==
    /\ pc = "drain"
    /\ \/ (agreed => cbq = <<>>) /\ ~AnswerIsCallback /\ UNCHANGED used
       \/ Spend("fault")                      \* ezsp_xfer fails on SPI
    /\ edge' = EdgeAfterSpi
    /\ pc' = "report"
    /\ UNCHANGED <<armed, left, due, ctl, report_failed, peers, ncp>>

(***************************************************************************)
(* The report at the end of the loop                                       *)
(***************************************************************************)
ReportDueExactly == ReportSecs # 0 /\ due = 0
ReportDue == ReportSecs # 0 /\ due <= 0

zcl_report ==
    /\ pc = "report" /\ ReportDue
    /\ \E ok \in BOOLEAN :
         /\ zcl_send(ok)
         /\ report_failed' = IF ok THEN report_failed ELSE Count(report_failed)
    /\ edge' = EdgeAfterSpi
    /\ due' \in report_interval       \* whether or not it went out
    /\ pc' = "poll"
    /\ UNCHANGED <<armed, left, ctl, peers, ezsp_version, agreed, cbq, used>>

NoReport ==
    /\ pc = "report" /\ ~ReportDue
    /\ pc' = "poll"
    /\ UNCHANGED <<armed, left, due, ctl, report_failed, peers, ncp, edge, used>>

(***************************************************************************)
(* procd starts the process again: ncp_reset, ezsp_init, networkInit and a *)
(* fresh control socket.  Connections to the old one are closed.  A start  *)
(* that fails ends the process and is a longer "dead" here; one without a  *)
(* control socket is one to which no client connects.                      *)
(***************************************************************************)
Started ==
    /\ agreed' = TRUE /\ cbq' = <<>> /\ sending' = 0 /\ edge' = FALSE
    /\ report_failed' = 0
    /\ due' \in FirstReport

Respawn ==
    /\ pc = "dead"
    /\ pc' = "poll" /\ armed' = FALSE /\ left' = 0 /\ ctl' = None
    /\ Started
    /\ conn' = [c \in Clients |-> IF conn[c] = "open" THEN "closed" ELSE conn[c]]
    /\ queue' = <<>>
    /\ UNCHANGED <<asked, ezsp_version, used>>

Init ==
    /\ pc = "poll" /\ armed = FALSE /\ left = 0 /\ ctl = None
    /\ due \in FirstReport
    /\ report_failed = 0
    /\ conn = [c \in Clients |-> "idle"] /\ asked = {} /\ queue = <<>>
    /\ ezsp_version \in EzspVersions /\ agreed = TRUE /\ cbq = <<>> /\ sending = 0 /\ edge = FALSE
    /\ used = [k \in Budgets |-> 0]

(***************************************************************************)
(* The NCP                                                                 *)
(***************************************************************************)
Queue(cb) == cbq' = Append(cbq, cb) /\ edge' = (edge \/ cbq = <<>>)

NcpCallback ==
    /\ agreed /\ Spend("callback")
    /\ \E cb \in {"read", "other"} : Queue(cb)
    /\ UNCHANGED <<loop, report_failed, peers, ezsp_version, agreed, sending>>

NcpSent ==
    /\ sending > 0 /\ sending' = sending - 1
    /\ \E cb \in {"sentok", "sentfail"} : Queue(cb)
    /\ UNCHANGED <<loop, report_failed, peers, ezsp_version, agreed, used>>

\* A watchdog or assert reset: the stack is down and no version is agreed.
NcpCrash ==
    /\ agreed /\ Spend("crash")
    /\ agreed' = FALSE /\ cbq' = <<>> /\ sending' = 0 /\ edge' = TRUE
    /\ UNCHANGED <<loop, report_failed, peers, ezsp_version>>

(***************************************************************************)
(* control_query                                                           *)
(***************************************************************************)
Connect(c) ==
    /\ pc # "dead" /\ conn[c] = "idle"
    /\ conn' = [conn EXCEPT ![c] = "open"] /\ queue' = Append(queue, c)
    /\ UNCHANGED <<loop, report_failed, asked, ncp, edge, used>>

Ask(c) ==
    /\ conn[c] = "open" /\ c \notin asked \cup Silent
    /\ asked' = asked \cup {c}
    /\ UNCHANGED <<loop, report_failed, conn, queue, ncp, edge, used>>

\* The client is killed before or after it has written its request.
Hangup(c) ==
    /\ conn[c] = "open" /\ Spend("hang")
    /\ conn' = [conn EXCEPT ![c] = "gone"]
    /\ UNCHANGED <<loop, report_failed, asked, queue, ncp, edge>>

-----------------------------------------------------------------------------
DaemonStep ==
    \/ Poll \/ Wake \/ Accept \/ ReadRequest \/ ReadNothing \/ Serve \/ Reply
    \/ Drain \/ DrainInvalid \/ DrainEnd \/ zcl_report \/ NoReport \/ Respawn

Next ==
    \/ DaemonStep \/ Tick
    \/ NcpCallback \/ NcpSent \/ NcpCrash
    \/ \E c \in Clients : Connect(c) \/ Ask(c) \/ Hangup(c)

Spec == Init /\ [][Next]_vars

\* The process runs, time passes, and a client that means to ask does.
FairSpec ==
    /\ Spec /\ WF_vars(DaemonStep) /\ WF_vars(Tick)
    /\ \A c \in Clients : WF_vars(Ask(c))

(***************************************************************************)
(* Properties                                                              *)
(***************************************************************************)
\* Values of the variables.
TypeOK ==
    /\ pc \in {"poll", "sleep", "accept", "read", "serve", "reply", "drain", "report", "dead"}
    /\ armed \in BOOLEAN /\ left \in 0..PollMax
    /\ due \in -1..(2 * ReportSecs + FirstSpread)
    /\ ctl \in Clients \cup {None}
    /\ report_failed \in 0..CounterMax
    /\ conn \in [Clients -> {"idle", "open", "gone", "closed", "answered"}]
    /\ asked \subseteq Clients /\ queue \in Seq(Clients)
    /\ ezsp_version \in EzspVersions /\ agreed \in BOOLEAN /\ cbq \in Seq(Callbacks) /\ sending \in 0..MaxSending
    /\ edge \in BOOLEAN /\ used \in [Budgets -> Nat]

\* control.c:625, "Sleep until the next report is due": however clients,
\* callbacks and the clock interleave, poll() never sleeps past a report.
NeverOversleeps == pc = "sleep" /\ ReportSecs # 0 => left = 0 \/ left <= due

\* An NCP that has reset during a v4 session keeps the drain going.
EndlessDrain == pc = "drain" /\ ~agreed /\ ezsp_version = 4

\* control.c:653, "Drain everything queued before sleeping again": the loop
\* comes back to its poll(), whatever it finds on the way, but for EndlessDrain.
SleepsAgain == (pc # "sleep") ~> (pc = "sleep" \/ EndlessDrain)

\* "this loop exists only to drain callbacks so the queue cannot fill": what
\* the NCP has queued is collected, although an asserted nHOST_INT is left out
\* of the poll set and edges are discarded.
CallbacksCollected == (cbq # <<>>) ~> (cbq = <<>>)

\* A written request is answered, unless its client or the process is gone.
RequestsAnswered ==
    \A c \in Clients : (c \in asked /\ conn[c] = "open") ~> (conn[c] # "open" \/ EndlessDrain)

\* control.c:711, "Periodic report, so the coordinator has a recent frame": one
\* is attempted again and again, also after a turn of the loop took so long
\* that its second has passed.
ReportsFlow == []<><<zcl_report>>_vars \/ []<>EndlessDrain
=============================================================================
