------------------------- MODULE RouterDaemonProofs -------------------------
(***************************************************************************)
(* The daemon's loop for any set of control clients, report period, poll   *)
(* timeout, and any number of callbacks, resets and lost commands.  Beside *)
(* the timeout of poll() this proves the safety half of two liveness       *)
(* properties TLC checks: a callback that is queued during poll() wakes    *)
(* it, and no control connection is forgotten or served twice.             *)
(***************************************************************************)
EXTENDS RouterDaemon, TLAPS

Serving == {"read", "serve", "reply"}

LoopOK ==
    /\ pc \in {"poll", "sleep", "accept", "read", "serve", "reply", "drain", "report", "dead"}
    /\ left \in 0..PollMax /\ due \in -1..(2 * ReportSecs + FirstSpread)
    /\ report_failed \in 0..CounterMax

FlagsOK == armed \in BOOLEAN /\ edge \in BOOLEAN /\ agreed \in BOOLEAN

PeersTyped ==
    /\ ctl \in Clients \cup {None} /\ (pc \in Serving <=> ctl # None)
    /\ conn \in [Clients -> {"idle", "open", "gone", "closed", "answered"}]
    /\ asked \subseteq Clients /\ queue \in Seq(Clients) /\ (pc = "accept" => queue # <<>>)

NcpTyped ==
    /\ ezsp_version \in EzspVersions /\ cbq \in Seq(Callbacks) /\ sending \in 0..MaxSending
    /\ used \in [Budgets -> Nat]

LEMMA TypesSuffice == LoopOK /\ FlagsOK /\ PeersTyped /\ NcpTyped => TypeOK
BY DEF LoopOK, FlagsOK, PeersTyped, NcpTyped, TypeOK

\* The next report is never further away than the type of due allows.
LEMMA Intervals ==
    /\ report_interval \subseteq 0..(2 * ReportSecs + FirstSpread)
    /\ FirstReport \subseteq 0..(2 * ReportSecs + FirstSpread)
<1>1. ReportSecs \div 5 \in Nat /\ ReportSecs \div 5 <= ReportSecs
  BY TimeAssumption
<1>2. report_interval \subseteq 0..(2 * ReportSecs + FirstSpread)
  <2> DEFINE span == ReportSecs \div 5
  <2>1. report_interval = (ReportSecs - span)..(ReportSecs + span)
    BY DEF report_interval
  <2> HIDE DEF span
  <2>2. span \in Nat /\ span <= ReportSecs
    BY <1>1 DEF span
  <2> QED
    BY <2>1, <2>2, TimeAssumption
<1>3. FirstReport \subseteq 0..(2 * ReportSecs + FirstSpread)
  BY TimeAssumption DEF FirstReport
<1> QED
  BY <1>2, <1>3

LEMMA LoopNext == ASSUME LoopOK, [Next]_vars PROVE LoopOK'
<1> USE TimeAssumption, BoundsAssumption DEF LoopOK
<1>1. CASE UNCHANGED <<left, due, report_failed>>
           /\ pc' \in {pc, "accept", "read", "serve", "reply", "drain", "report", "poll", "dead"}
  BY <1>1
<1>2. CASE UNCHANGED vars \/ NcpCallback \/ NcpSent \/ NcpCrash
           \/ \E c \in Clients : Connect(c) \/ Ask(c) \/ Hangup(c)
  BY <1>1, <1>2 DEF vars, loop, NcpCallback, NcpSent, NcpCrash, Connect, Ask, Hangup
<1>3. CASE Poll
  BY <1>3 DEF Poll, PollTimeout, Least
<1>4. CASE Wake
  BY <1>4 DEF Wake, AfterWake
<1>5. CASE Tick
  BY <1>5 DEF Tick
<1>6. CASE Accept \/ ReadRequest \/ ReadNothing \/ Serve \/ Reply \/ DrainInvalid \/ DrainEnd \/ NoReport
  BY <1>1, <1>6 DEF Accept, ReadRequest, ReadNothing, Serve, Reply, DrainInvalid, DrainEnd, NoReport, loop
<1>7. CASE Drain
  BY <1>7 DEF Drain, Count, loop
<1>8. CASE zcl_report
  <2>1. due' \in 0..(2 * ReportSecs + FirstSpread)
    BY <1>8, Intervals DEF zcl_report
  <2>2. report_failed' \in 0..CounterMax
    BY <1>8 DEF zcl_report, Count
  <2> QED
    BY <1>8, <2>1, <2>2 DEF zcl_report
<1>9. CASE Respawn
  <2>1. due' \in 0..(2 * ReportSecs + FirstSpread)
    BY <1>9, Intervals DEF Respawn, Started
  <2> QED
    BY <1>9, <2>1 DEF Respawn, Started
<1> QED
  BY <1>2, <1>3, <1>4, <1>5, <1>6, <1>7, <1>8, <1>9 DEF Next, DaemonStep

LEMMA FlagsNext == ASSUME FlagsOK, [Next]_vars PROVE FlagsOK'
<1> USE DEF FlagsOK
<1>1. CASE UNCHANGED <<armed, agreed>> /\ edge' \in BOOLEAN
  BY <1>1
<1>2. CASE UNCHANGED vars \/ Accept \/ ReadRequest \/ ReadNothing \/ Reply \/ NoReport \/ Tick
           \/ \E c \in Clients : Connect(c) \/ Ask(c) \/ Hangup(c)
  BY <1>1, <1>2 DEF vars, loop, ncp, Accept, ReadRequest, ReadNothing, Reply, NoReport, Tick,
                    Connect, Ask, Hangup
<1>3. CASE Poll
  <2>1. armed' \in BOOLEAN
    BY <1>3, Zenon DEF Poll, Arm
  <2> QED
    BY <1>3, <2>1 DEF Poll, ncp
<1>4. CASE Wake
  <2>1. edge' \in BOOLEAN
    BY <1>4, Zenon DEF Wake
  <2> QED
    BY <1>4, <2>1 DEF Wake, ncp
<1>5. CASE Serve \/ Drain \/ DrainInvalid \/ DrainEnd \/ zcl_report
  <2>1. edge' \in BOOLEAN
    BY <1>5, Zenon DEF Serve, Drain, DrainInvalid, DrainEnd, zcl_report, EdgeAfterSpi
  <2>2. UNCHANGED <<armed, agreed>>
    BY <1>5 DEF Serve, Drain, DrainInvalid, DrainEnd, zcl_report, loop, ncp
  <2> QED
    BY <1>1, <2>1, <2>2
<1>6. CASE NcpCallback \/ NcpSent
  <2>1. edge' \in BOOLEAN
    BY <1>6, Zenon DEF NcpCallback, NcpSent, Queue
  <2> QED
    BY <1>1, <1>6, <2>1 DEF NcpCallback, NcpSent, loop
<1>7. CASE NcpCrash \/ Respawn
  BY <1>7 DEF NcpCrash, Respawn, Started, loop
<1> QED
  BY <1>2, <1>3, <1>4, <1>5, <1>6, <1>7 DEF Next, DaemonStep

LEMMA PeersNext == ASSUME PeersTyped, [Next]_vars PROVE PeersTyped'
<1> USE ClientsAssumption DEF PeersTyped, Serving
<1>1. CASE /\ UNCHANGED <<ctl, conn, asked, queue>> /\ (pc' # "accept" \/ pc' = pc)
           /\ (pc' \in Serving <=> pc \in Serving)
  BY <1>1
<1>2. CASE UNCHANGED vars \/ NcpCallback \/ NcpSent \/ NcpCrash \/ Tick
  BY <1>1, <1>2 DEF vars, loop, peers, NcpCallback, NcpSent, NcpCrash, Tick
<1>3. CASE Poll \/ ReadRequest \/ Serve \/ Drain \/ DrainInvalid \/ DrainEnd \/ zcl_report \/ NoReport
  BY <1>1, <1>3 DEF Poll, ReadRequest, Serve, Drain, DrainInvalid, DrainEnd, zcl_report, NoReport,
                    loop, peers
<1>4. CASE Wake
  BY <1>4 DEF Wake, AfterWake, peers
<1>5. CASE Accept
  <2>1. Head(queue) \in Clients /\ Tail(queue) \in Seq(Clients)
    BY <1>5 DEF Accept
  <2> QED
    BY <1>5, <2>1 DEF Accept
<1>6. CASE ReadNothing \/ Reply
  BY <1>6 DEF ReadNothing, Reply, CloseReply
<1>7. CASE Respawn
  <2>1. queue' \in Seq(Clients)
    BY <1>7 DEF Respawn
  <2>2. conn' \in [Clients -> {"idle", "open", "gone", "closed", "answered"}]
    BY <1>7 DEF Respawn
  <2> QED
    BY <1>7, <2>1, <2>2 DEF Respawn
<1>8. CASE \E c \in Clients : Connect(c) \/ Ask(c) \/ Hangup(c)
  <2>1. PICK c \in Clients : Connect(c) \/ Ask(c) \/ Hangup(c)
    BY <1>8
  <2>2. CASE Connect(c)
    <3>1. Append(queue, c) \in Seq(Clients) /\ Append(queue, c) # <<>>
      OBVIOUS
    <3> QED
      BY <2>2, <3>1 DEF Connect, loop
  <2> QED
    BY <2>1, <2>2 DEF Ask, Hangup, loop
<1> QED
  BY <1>2, <1>3, <1>4, <1>5, <1>6, <1>7, <1>8 DEF Next, DaemonStep

LEMMA NcpNext == ASSUME NcpTyped, [Next]_vars PROVE NcpTyped'
<1> USE BoundsAssumption DEF NcpTyped
<1>1. CASE UNCHANGED <<ncp, used>>
  BY <1>1 DEF ncp
<1>2. CASE \/ UNCHANGED vars \/ Poll \/ Wake \/ Tick \/ Accept \/ ReadRequest \/ ReadNothing
           \/ Serve \/ Reply \/ DrainInvalid \/ NoReport \/ \E c \in Clients : Connect(c) \/ Ask(c)
  BY <1>1, <1>2 DEF vars, Poll, Wake, Tick, Accept, ReadRequest, ReadNothing, Serve, Reply,
                    DrainInvalid, NoReport, Connect, Ask
<1>3. ASSUME NEW k \in Budgets, Spend(k) PROVE used' \in [Budgets -> Nat]
  BY <1>3 DEF Spend
<1>4. CASE DrainEnd \/ \E c \in Clients : Hangup(c)
  <2>1. used' \in [Budgets -> Nat]
    BY <1>3, <1>4 DEF DrainEnd, Hangup, Budgets
  <2> QED
    BY <1>4, <2>1 DEF DrainEnd, Hangup, ncp
<1>5. CASE Drain
  <2>1. sending' \in 0..MaxSending
    BY <1>5 DEF Drain, zcl_send
  <2>2. Tail(cbq) \in Seq(Callbacks)
    BY <1>5 DEF Drain
  <2> QED
    BY <1>5, <2>1, <2>2 DEF Drain
<1>6. CASE zcl_report
  <2>1. sending' \in 0..MaxSending
    BY <1>6 DEF zcl_report, zcl_send
  <2> QED
    BY <1>6, <2>1 DEF zcl_report
<1>7. CASE Respawn \/ NcpCrash
  <2>1. cbq' = <<>> /\ <<>> \in Seq(Callbacks) /\ sending' = 0 /\ ezsp_version' = ezsp_version
    BY <1>7 DEF Respawn, Started, NcpCrash
  <2>2. used' \in [Budgets -> Nat]
    BY <1>3, <1>7 DEF Respawn, NcpCrash, Budgets
  <2>3. cbq' \in Seq(Callbacks)
    BY <2>1, Zenon
  <2> QED
    BY <2>1, <2>2, <2>3
<1>8. CASE NcpCallback \/ NcpSent
  <2>1. PICK cb \in Callbacks : cbq' = Append(cbq, cb)
    BY <1>8 DEF NcpCallback, NcpSent, Queue, Callbacks
  <2>2. cbq' \in Seq(Callbacks)
    BY <2>1
  <2>3. used' \in [Budgets -> Nat]
    BY <1>3, <1>8 DEF NcpCallback, NcpSent, Budgets
  <2> QED
    BY <1>8, <2>2, <2>3 DEF NcpCallback, NcpSent
<1> QED
  BY <1>2, <1>4, <1>5, <1>6, <1>7, <1>8 DEF Next, DaemonStep

(***************************************************************************)
(* poll()                                                                  *)
(***************************************************************************)
\* control.c:602, "nHOST_INT says when there is something to collect": a callback
\* that is queued once the line is in the poll set leaves poll() an edge.
EdgeForCallback == pc = "sleep" /\ armed /\ cbq # <<>> => edge

LEMMA SleepNext ==
    ASSUME LoopOK, NeverOversleeps, [Next]_vars
    PROVE  NeverOversleeps'
<1> USE TimeAssumption DEF NeverOversleeps, LoopOK
<1>1. CASE UNCHANGED <<left, due>> /\ (pc' # "sleep" \/ pc = "sleep")
  BY <1>1
<1>2. CASE pc' # "sleep"
  BY <1>2
<1>3. CASE UNCHANGED vars \/ NcpCallback \/ NcpSent \/ NcpCrash
           \/ \E c \in Clients : Connect(c) \/ Ask(c) \/ Hangup(c)
  BY <1>1, <1>3 DEF vars, loop, NcpCallback, NcpSent, NcpCrash, Connect, Ask, Hangup
<1>4. CASE Poll
  BY <1>4 DEF Poll, PollTimeout, Least
<1>5. CASE Tick
  BY <1>5 DEF Tick
<1>6. CASE \/ Wake \/ Accept \/ ReadRequest \/ ReadNothing \/ Serve \/ Reply \/ Drain
           \/ DrainInvalid \/ DrainEnd \/ zcl_report \/ NoReport \/ Respawn
  BY <1>2, <1>6 DEF Wake, AfterWake, Accept, ReadRequest, ReadNothing, Serve, Reply, Drain,
       DrainInvalid, DrainEnd, zcl_report, NoReport, Respawn, loop
<1> QED
  BY <1>3, <1>4, <1>5, <1>6 DEF Next, DaemonStep

LEMMA EdgeNext == ASSUME FlagsOK, EdgeForCallback, [Next]_vars PROVE EdgeForCallback'
<1> USE DEF EdgeForCallback
<1>1. CASE UNCHANGED <<pc, armed, cbq, edge>>
  BY <1>1
<1>2. CASE pc' # "sleep"
  BY <1>2
<1>3. CASE UNCHANGED vars \/ Tick \/ \E c \in Clients : Connect(c) \/ Ask(c) \/ Hangup(c)
  BY <1>1, <1>3 DEF vars, loop, ncp, Tick, Connect, Ask, Hangup
<1>4. CASE Poll
  BY <1>4 DEF Poll, Arm, ncp
<1>5. CASE NcpCallback \/ NcpSent
  <2>1. edge' = (edge \/ cbq = <<>>) /\ UNCHANGED <<pc, armed>>
    BY <1>5 DEF NcpCallback, NcpSent, Queue, loop
  <2> QED
    BY <2>1, Zenon
<1>6. CASE NcpCrash
  BY <1>6 DEF NcpCrash
<1>7. CASE \/ Wake \/ Accept \/ ReadRequest \/ ReadNothing \/ Serve \/ Reply \/ Drain
           \/ DrainInvalid \/ DrainEnd \/ zcl_report \/ NoReport \/ Respawn
  BY <1>2, <1>7 DEF Wake, AfterWake, Accept, ReadRequest, ReadNothing, Serve, Reply, Drain,
       DrainInvalid, DrainEnd, zcl_report, NoReport, Respawn, loop
<1> QED
  BY <1>3, <1>4, <1>5, <1>6, <1>7 DEF Next, DaemonStep

(***************************************************************************)
(* Control connections                                                     *)
(***************************************************************************)
Waiting(c) == \E k \in 1..Len(queue) : queue[k] = c
Live == {"open", "gone"}

\* A connection that is open is waiting to be accepted or is being served.
NoneForgotten == \A c \in Clients : conn[c] = "open" => ctl = c \/ Waiting(c)

\* Nobody waits twice, or waits while being served, or waits when it is over.
QueueOK ==
    /\ \A k \in 1..Len(queue) : conn[queue[k]] \in Live /\ queue[k] # ctl
    /\ \A k, m \in 1..Len(queue) : queue[k] = queue[m] => k = m
    /\ ctl # None => conn[ctl] \in Live

ConnOK == NoneForgotten /\ QueueOK

\* What has been answered or closed is over.
Final == \A c \in Clients : conn[c] \in {"answered", "closed"} => conn'[c] = conn[c]

\* The client that has been served leaves, and nobody else is touched.
LEMMA ServedLeaves ==
    ASSUME PeersTyped, ConnOK, ctl \in Clients, ctl' = None, queue' = queue,
           NEW end \in {"answered", "closed"}, conn' = [conn EXCEPT ![ctl] = end]
    PROVE  ConnOK' /\ Final
<1>1. queue \in Seq(Clients) /\ conn'[ctl] = end /\ \A c \in Clients \ {ctl} : conn'[c] = conn[c]
  BY DEF PeersTyped
<1>2. \A k \in 1..Len(queue) : queue[k] \in Clients /\ queue[k] # ctl
  BY <1>1 DEF ConnOK, QueueOK
<1>3. QueueOK'
  BY <1>1, <1>2, ClientsAssumption DEF ConnOK, QueueOK
<1>4. NoneForgotten'
  BY <1>1 DEF ConnOK, NoneForgotten, Waiting
<1>5. Final
  <2>1. conn[ctl] \in Live
    BY ClientsAssumption DEF ConnOK, QueueOK
  <2> QED
    BY <1>1, <2>1 DEF Live, Final
<1> QED
  BY <1>3, <1>4, <1>5 DEF ConnOK

LEMMA ConnNext == ASSUME PeersTyped, ConnOK, [Next]_vars PROVE ConnOK' /\ Final
<1>0. queue \in Seq(Clients) /\ (\A k \in 1..Len(queue) : queue[k] \in Clients) /\ None \notin Clients
  BY ClientsAssumption DEF PeersTyped
<1>1. CASE UNCHANGED <<ctl, conn, queue>>
  BY <1>1 DEF ConnOK, NoneForgotten, QueueOK, Waiting, Final
<1>2. CASE \/ UNCHANGED vars \/ NcpCallback \/ NcpSent \/ NcpCrash \/ Tick \/ Poll \/ Wake
           \/ ReadRequest \/ Serve \/ Drain \/ DrainInvalid \/ DrainEnd \/ zcl_report \/ NoReport
  BY <1>1, <1>2 DEF vars, loop, peers, NcpCallback, NcpSent, NcpCrash, Tick, Poll, Wake,
       ReadRequest, Serve, Drain, DrainInvalid, DrainEnd, zcl_report, NoReport
<1>3. CASE Accept
  <2>1. queue # <<>> /\ ctl = None /\ ctl' = Head(queue) /\ queue' = Tail(queue) /\ conn' = conn
    BY <1>3 DEF Accept, PeersTyped, Serving
  <2>2. /\ ctl' = queue[1] /\ 1 \in 1..Len(queue) /\ Len(queue') = Len(queue) - 1
        /\ \A k \in 1..Len(queue') : queue'[k] = queue[k + 1] /\ k + 1 \in 1..Len(queue) /\ k \in Nat
        /\ \A k \in 1..Len(queue) : k = 1 \/ k - 1 \in 1..Len(queue')
        /\ \A k \in 1..Len(queue) : k # 1 => queue'[k - 1] = queue[k]
    BY <1>0, <2>1
  <2>3. QueueOK'
    <3>1. \A k \in 1..Len(queue') : conn[queue'[k]] \in Live /\ queue'[k] # ctl'
      <4> SUFFICES ASSUME NEW k \in 1..Len(queue') PROVE conn[queue'[k]] \in Live /\ queue'[k] # ctl'
        OBVIOUS
      <4>1. k + 1 \in 1..Len(queue) /\ k \in Nat /\ queue'[k] = queue[k + 1] /\ k + 1 # 1
        BY <2>2
      <4> QED
        BY <2>2, <4>1 DEF ConnOK, QueueOK
    <3>2. \A k, m \in 1..Len(queue') : queue'[k] = queue'[m] => k = m
      <4> SUFFICES ASSUME NEW k \in 1..Len(queue'), NEW m \in 1..Len(queue'), queue'[k] = queue'[m]
                   PROVE  k = m
        OBVIOUS
      <4>1. k + 1 = m + 1
        BY <2>2 DEF ConnOK, QueueOK
      <4> QED
        BY <2>2, <4>1
    <3>3. conn[ctl'] \in Live
      BY <2>2 DEF ConnOK, QueueOK
    <3> QED
      BY <2>1, <3>1, <3>2, <3>3 DEF QueueOK
  <2>4. NoneForgotten'
    <3> SUFFICES ASSUME NEW c \in Clients, conn[c] = "open", ctl' # c PROVE Waiting(c)'
      BY <2>1 DEF NoneForgotten
    <3>1. PICK k \in 1..Len(queue) : queue[k] = c
      BY <1>0, <2>1 DEF ConnOK, NoneForgotten, Waiting
    <3>2. k - 1 \in 1..Len(queue') /\ queue'[k - 1] = c
      BY <2>2, <3>1
    <3> QED
      BY <3>2 DEF Waiting
  <2> QED
    BY <2>1, <2>3, <2>4 DEF ConnOK, Final
<1>4. CASE ReadNothing
  BY <1>4, ServedLeaves DEF ReadNothing, PeersTyped, Serving
<1>5. CASE Reply
  BY <1>5, ServedLeaves DEF Reply, CloseReply, PeersTyped, Serving
<1>6. CASE Respawn
  <2>1. ctl' = None /\ queue' = <<>> /\ Len(<<>>) = 0
        /\ conn' = [c \in Clients |-> IF conn[c] = "open" THEN "closed" ELSE conn[c]]
    BY <1>6 DEF Respawn
  <2> QED
    BY <2>1 DEF ConnOK, NoneForgotten, QueueOK, Final
<1>7. CASE \E c \in Clients : Connect(c) \/ Ask(c) \/ Hangup(c)
  <2>1. PICK c \in Clients : Connect(c) \/ Ask(c) \/ Hangup(c)
    BY <1>7
  <2>2. CASE Ask(c)
    BY <1>1, <2>2 DEF Ask, loop
  <2>3. CASE Hangup(c)
    <3>1. /\ conn[c] = "open" /\ UNCHANGED <<ctl, queue>> /\ conn'[c] = "gone"
          /\ \A d \in Clients \ {c} : conn'[d] = conn[d]
      BY <2>3 DEF Hangup, loop, PeersTyped
    <3>2. QueueOK'
      <4>1. ctl' # None => conn'[ctl'] \in Live
        BY <3>1 DEF ConnOK, QueueOK, Live, PeersTyped
      <4> QED
        BY <1>0, <3>1, <4>1 DEF ConnOK, QueueOK, Live
    <3> QED
      BY <3>1, <3>2 DEF ConnOK, NoneForgotten, Waiting, Final
  <2>4. CASE Connect(c)
    <3>1. /\ conn[c] = "idle" /\ queue' = Append(queue, c) /\ ctl' = ctl /\ conn'[c] = "open"
          /\ \A d \in Clients \ {c} : conn'[d] = conn[d]
      BY <2>4 DEF Connect, loop, PeersTyped
    <3>2. /\ Len(queue') = Len(queue) + 1 /\ Len(queue) \in Nat /\ queue'[Len(queue) + 1] = c
          /\ \A k \in 1..Len(queue) : queue'[k] = queue[k]
      BY <1>0, <3>1
    <3>3. \A k \in 1..Len(queue') : k \in 1..Len(queue) \/ k = Len(queue) + 1
      BY <3>2
    <3>4. c # ctl /\ \A k \in 1..Len(queue) : queue[k] # c
      BY <1>0, <3>1 DEF ConnOK, QueueOK, Live
    <3>5. QueueOK'
      <4>1. \A k \in 1..Len(queue') : conn'[queue'[k]] \in Live /\ queue'[k] # ctl'
        BY <1>0, <3>1, <3>2, <3>3, <3>4 DEF ConnOK, QueueOK, Live
      <4>2. \A k, m \in 1..Len(queue') : queue'[k] = queue'[m] => k = m
        BY <3>2, <3>3, <3>4 DEF ConnOK, QueueOK
      <4>3. ctl' # None => conn'[ctl'] \in Live
        BY <3>1, <3>4 DEF ConnOK, QueueOK, PeersTyped
      <4> QED
        BY <4>1, <4>2, <4>3 DEF QueueOK
    <3>6. NoneForgotten'
      <4>1. Waiting(c)'
        BY <3>2 DEF Waiting
      <4>2. \A d : Waiting(d) => Waiting(d)'
        BY <3>2 DEF Waiting
      <4> QED
        BY <3>1, <4>1, <4>2 DEF ConnOK, NoneForgotten
    <3>7. Final
      BY <3>1 DEF Final
    <3> QED
      BY <3>5, <3>6, <3>7 DEF ConnOK
  <2> QED
    BY <2>1, <2>2, <2>3, <2>4
<1> QED
  BY <1>2, <1>3, <1>4, <1>5, <1>6, <1>7 DEF Next, DaemonStep

(***************************************************************************)
(* The theorems                                                            *)
(***************************************************************************)
IInv == LoopOK /\ FlagsOK /\ PeersTyped /\ NcpTyped /\ NeverOversleeps /\ EdgeForCallback /\ ConnOK

LEMMA InitInv == Init => IInv
<1> SUFFICES ASSUME Init PROVE IInv
  OBVIOUS
<1>1. LoopOK
  BY Intervals, TimeAssumption, BoundsAssumption DEF Init, LoopOK
<1>2. PeersTyped
  <2>1. queue \in Seq(Clients) /\ conn \in [Clients -> {"idle", "open", "gone", "closed", "answered"}]
    BY DEF Init
  <2> QED
    BY <2>1 DEF Init, PeersTyped, Serving
<1>3. NcpTyped
  <2>1. cbq \in Seq(Callbacks) /\ used \in [Budgets -> Nat]
    BY DEF Init
  <2> QED
    BY <2>1, BoundsAssumption DEF Init, NcpTyped
<1>4. ConnOK
  BY DEF Init, ConnOK, NoneForgotten, QueueOK
<1> QED
  BY <1>1, <1>2, <1>3, <1>4 DEF Init, IInv, FlagsOK, NeverOversleeps, EdgeForCallback

LEMMA Inductive == Spec => []IInv
<1>1. IInv /\ [Next]_vars => IInv'
  BY LoopNext, FlagsNext, PeersNext, NcpNext, SleepNext, EdgeNext, ConnNext DEF IInv
<1> QED
  BY <1>1, InitInv, PTL DEF Spec

\* Types: among others, next_report is never further away than one interval.
THEOREM TypeCorrect == Spec => []TypeOK
BY Inductive, TypesSuffice, PTL DEF IInv

\* control.c:625: poll() never sleeps past the next report, for every period,
\* spread and interleaving of clients, callbacks and the clock.
THEOREM OnTime == Spec => []NeverOversleeps
BY Inductive, PTL DEF IInv

\* No wakeup is lost between the look at nHOST_INT and poll(), nor to the edges
\* ncp_wake discards.
THEOREM NoLostWakeup == Spec => []EdgeForCallback
BY Inductive, PTL DEF IInv

\* control_accept forgets nobody: an open connection is queued or being served.
THEOREM NobodyForgotten == Spec => []NoneForgotten
BY Inductive, PTL DEF IInv, ConnOK

\* ... and serves nobody twice: an answered or closed connection stays that.
THEOREM ServedOnce == Spec => [][Final]_vars
<1>1. IInv /\ [Next]_vars => [Final]_vars
  BY ConnNext DEF IInv
<1> QED
  BY <1>1, Inductive, PTL DEF Spec
=============================================================================
