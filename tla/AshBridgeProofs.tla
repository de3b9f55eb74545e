-------------------------- MODULE AshBridgeProofs --------------------------
(***************************************************************************)
(* Proofs about the bridge of AshBridge for every number of clients, every *)
(* window, buffer size and drain bound, and every mix of client and NCP    *)
(* behaviour.                                                              *)
(*                                                                         *)
(*   TypeCorrect   TypeOK, with ClientInUse added: the loop reads, feeds   *)
(*                 and answers only while it has a client.                 *)
(*   Handshake     RstackFirst and RunsAfterRst.  Neither is inductive;    *)
(*                 HandshakeInv adds where "ready" and the resend buffer   *)
(*                 come from and that a channel holds only commands of its *)
(*                 own client.                                             *)
(*   Layout        LayoutKnown, inductive as it stands.                    *)
(*   Untruncated   NoTruncation, from the two length checks of the relay.  *)
(*   Ours          SessionOnly: what is in flight belongs to the session.  *)
(*   Kept          UnackedKept: what was not accepted can be resent.       *)
(*   OrderKept     InOrder: what is accepted is what was sent, in order.   *)
(*   ServesStream  the refinement of FrameStream.                          *)
(*   RunOnce       RunsWhatWasSent: no frame is run twice.                 *)
(*   TurnEnds      a turn of the loop has a bounded number of steps, the   *)
(*                 part of LoopReturns that is not about fairness.         *)
(***************************************************************************)
EXTENDS AshBridgeProps, SequenceTheorems, FiniteSetTheorems, TLAPS

\* The descriptor in use: where the loop reads from, feeds or answers a
\* client, there is one.
ClientInUse ==
    /\ pc \in {"feed", "resend", "relay"} => cli # None
    /\ pc = "io" /\ (revents.in \/ revents.hup) => cli # None
    /\ pc = "drain" /\ ret = "feed" => cli # None

TypeInv == TypeOK /\ ClientInUse

-----------------------------------------------------------------------------
\* A frame number stays one.
LEMMA NextNumType == \A n \in Nat : NextNum(n) \in Nums
BY WindowAssumption DEF NextNum, Nums

\* Frame numbers start at 0 and are naturals.
LEMMA ZeroNum == 0 \in Nums /\ Nums \subseteq Nat
BY WindowAssumption DEF Nums

\* Only a DATA or NAK frame carries anything.
LEMMA FrameKinds ==
    /\ \A f \in InFrames : f.t = "DATA" => f \in DataIn
    /\ \A f \in InFrames : f.t = "NAK" => f.num \in Nums
    /\ \A f \in DataIn : f.t = "DATA" /\ f.num \in Nums /\ f.cmd \in Commands
    /\ DataIn \subseteq InFrames /\ [t |-> "RST"] \in InFrames
BY DEF InFrames, DataIn

\* Only DATA and ACK frames to a client carry numbers.
LEMMA OutKinds ==
    /\ \A f \in OutFrames : f.t = "DATA" => f \in DataOut
    /\ \A f \in OutFrames : f.t = "ACK" => f.num \in Nums
    /\ \A f \in DataOut : f.t = "DATA" /\ f.num \in Nums /\ f.ack \in Nums /\ f.body \in Bodies
    /\ DataOut \subseteq OutFrames /\ [t |-> "RSTACK"] \in OutFrames
    /\ \A n \in Nums : [t |-> "ACK", num |-> n] \in OutFrames
BY DEF OutFrames, DataOut

\* What read() leaves and what it returns.
LEMMA Split ==
    ASSUME NEW S, NEW s \in Seq(S), NEW k \in 0..Len(s)
    PROVE  SubSeq(s, 1, k) \in Seq(S) /\ SubSeq(s, k + 1, Len(s)) \in Seq(S)
<1>1. \A i \in 1..Len(s) : s[i] \in S
  BY ElementOfSeq
<1>2. Len(s) \in Nat /\ k \in Int /\ k + 1 \in Int /\ 1 \in Int
  BY LenProperties
<1> QED
  BY <1>1, <1>2, SubSeqProperties

\* The process starts with every field typed and no client.
LEMMA InitType == Init => TypeInv
<1> SUFFICES ASSUME Init PROVE TypeInv
  OBVIOUS
<1> USE ZeroNum, EmptySeq DEF Init
<1>1. LoopType
  BY FrameAssumption DEF LoopType, NoRevents
<1>2. SessionType
  BY DEF SessionType, Nums
<1>3. NoHost \in HostStates
  BY DEF NoHost, HostStates
<1>4. PeerType
  BY <1>3 DEF PeerType
<1>5. HistoryType /\ ClientInUse
  BY DEF HistoryType, ClientInUse
<1> QED
  BY <1>1, <1>2, <1>4, <1>5 DEF TypeInv, TypeOK

-----------------------------------------------------------------------------
\* The pieces the actions are made of.
LEMMA FreshType ==
    ASSUME FreshNumbers
    PROVE  /\ frm' \in Nums /\ ack' \in Nums /\ ver' \in {4, NcpVersion}
           /\ sent' \in [Nums -> DataOut \cup {Empty}]
           /\ log' \in Seq(Bodies) /\ overrun' \in BOOLEAN
BY ZeroNum, EmptySeq DEF FreshNumbers, NoSent

\* ncp_reset leaves a typed NCP.
LEMMA ResetType ==
    ASSUME PeerType, NcpReset
    PROVE  agreed' \in BOOLEAN /\ cbq' \in Seq(Bodies) /\ epoch' \in Nat
<1>1. agreed' \in BOOLEAN
  BY DEF NcpReset
<1>2. cbq' \in Seq(Bodies)
  BY EmptySeq DEF NcpReset
<1>3. epoch' \in Nat
  BY DEF NcpReset, PeerType
<1> QED BY <1>1, <1>2, <1>3

\* Spending from a budget keeps the counters natural.
LEMMA SpendType ==
    ASSUME PeerType, NEW k \in Budgets, Spend(k)
    PROVE  used' \in [Budgets -> Nat]
BY DEF PeerType, Spend

\* ash_send appends a frame to the channel of the client, or the process dies.
LEMMA SendType ==
    ASSUME PeerType, cli \in Clients, NEW f \in OutFrames, NEW next, ash_send(<<f>>, next)
    PROVE  out' \in [Clients -> Seq(OutFrames)] /\ pc' \in {next, "dead"}
<1>1. out[cli] \o <<f>> \in Seq(OutFrames)
  BY ConcatProperties DEF PeerType
<1> QED
  BY <1>1 DEF ash_send, PeerType

\* ash_send_data keeps sent[], the frame number and the channel typed.
LEMMA SendDataType ==
    ASSUME TypeOK, cli \in Clients, NEW b \in Bodies, NEW next, ash_send_data(b, next)
    PROVE  /\ out' \in [Clients -> Seq(OutFrames)] /\ pc' \in {next, "dead"}
           /\ sent' \in [Nums -> DataOut \cup {Empty}] /\ frm' \in Nums
           /\ log' \in Seq(Bodies) /\ overrun' \in BOOLEAN
<1>1. CASE ~Fits(b)
  BY <1>1 DEF ash_send_data, TypeOK, PeerType, SessionType, HistoryType
<1>2. CASE Fits(b)
  <2>1. DataFrame(b, ack) \in DataOut
    BY DEF DataFrame, DataOut, TypeOK, SessionType
  <2>2. ash_send(<<DataFrame(b, ack)>>, next)
    BY <1>2 DEF ash_send_data
  <2>3. out' \in [Clients -> Seq(OutFrames)] /\ pc' \in {next, "dead"}
    BY <2>1, <2>2, OutKinds, SendType DEF TypeOK
  <2>4. sent' \in [Nums -> DataOut \cup {Empty}] /\ frm' \in Nums
    <3>1. frm' = NextNum(frm) /\ sent' = [sent EXCEPT ![frm] = DataFrame(b, ack)]
      BY <1>2 DEF ash_send_data, Slot
    <3>2. frm \in Nums /\ sent \in [Nums -> DataOut \cup {Empty}]
      BY DEF TypeOK, SessionType
    <3>3. frm' \in Nums
      BY <3>1, <3>2, NextNumType, ZeroNum
    <3>4. sent' \in [Nums -> DataOut \cup {Empty}]
      BY <2>1, <3>1, <3>2
    <3> QED BY <3>3, <3>4
  <2>5. log' \in Seq(Bodies)
    <3>1. log' = Append(log, b)
      BY <1>2 DEF ash_send_data
    <3>2. log \in Seq(Bodies)
      BY DEF TypeOK, HistoryType
    <3> QED BY <3>1, <3>2, AppendProperties
  <2>6. overrun' \in BOOLEAN
    BY <1>2, Zenon DEF ash_send_data, TypeOK, HistoryType
  <2> QED BY <2>3, <2>4, <2>5, <2>6
<1> QED BY <1>1, <1>2

\* The cut of ezsp_relay leaves an EZSP frame.
LEMMA RelayedType == \A b \in Bodies : Relayed(b) \in Bodies
BY FrameAssumption DEF Relayed, Bodies

\* The reply of the NCP is an EZSP frame.
LEMMA ReplyType ==
    ASSUME TypeOK, NEW cmd \in Commands, NEW size \in Sizes
    PROVE  Reply(cmd, size) \in Bodies
BY FrameAssumption DEF Reply, Bodies, Commands, TypeOK, PeerType

\* What a callback poll returns is an EZSP frame.
LEMMA PolledType ==
    ASSUME TypeOK, cbq # <<>>
    PROVE  Polled \in Bodies
<1>1. Head(cbq) \in Bodies
  BY HeadTailProperties DEF TypeOK, PeerType
<1> QED
  BY <1>1 DEF Polled, Bodies, TypeOK, PeerType

\* Running a command keeps the NCP and the history typed.
LEMMA ExecutesType ==
    ASSUME TypeOK, NEW cmd \in Commands, NcpExecutes(cmd)
    PROVE  agreed' \in BOOLEAN /\ ran' \in Seq(Commands)
<1>1. agreed' \in BOOLEAN
  BY DEF NcpExecutes, TypeOK, PeerType
<1>2. ran' \in Seq(Commands)
  BY AppendProperties DEF NcpExecutes, TypeOK, HistoryType
<1> QED BY <1>1, <1>2

-----------------------------------------------------------------------------
\* Every step of the process keeps the types and has the client it needs.
LEMMA BridgeType == TypeInv /\ BridgeStep => TypeInv'
<1> SUFFICES ASSUME TypeInv, BridgeStep PROVE TypeInv'
  OBVIOUS
<1> USE ClientsAssumption, ZeroNum
    DEF TypeInv, TypeOK, loop, session, ncp, history
<1>1. CASE PollWake
  <2>1. SessionType' /\ HistoryType' /\ conn' \in [Clients -> {"idle", "backlog", "backgone", "open", "gone", "closed"}]
    <3>1. CASE \E c \in Backlog : cli' = c /\ FreshNumbers /\ AcceptFlags
      BY <1>1, <3>1, FreshType DEF PollWake, AcceptFlags, SessionType, HistoryType, PeerType, Backlog
    <3>2. CASE UNCHANGED <<cli, conn, session, log, overrun>>
      BY <1>1, <3>2 DEF PollWake, SessionType, HistoryType, PeerType
    <3> QED BY <1>1, <3>1, <3>2 DEF PollWake
  <2>2. LoopType' /\ PeerType'
    BY <1>1, <2>1 DEF PollWake, PollRevents, LoopType, PeerType
  <2>3. ClientInUse'
    BY <1>1, <2>1 DEF PollWake, PollRevents, ClientInUse, Backlog
  <2> QED BY <2>1, <2>2, <2>3
<1>2. CASE IoHangup
  BY <1>2 DEF IoHangup, bridge_drop_client, LoopType, SessionType, PeerType, HistoryType, ClientInUse
<1>3. CASE IoRead
  <2>1. cli \in Clients
    BY <1>3 DEF IoRead, ReadReady, ClientInUse, SessionType
  <2>2. ASSUME NEW n \in 1..Len(in[cli]),
               batch' = SubSeq(in[cli], 1, n),
               in' = [in EXCEPT ![cli] = SubSeq(@, n + 1, Len(@))],
               pc' = "feed", UNCHANGED <<cli, conn, ret, guard>>
        PROVE  TypeInv'
    <3>1. in[cli] \in Seq(InFrames) /\ n \in 0..Len(in[cli])
      BY <2>1, LenProperties DEF PeerType
    <3>2. batch' \in Seq(InFrames) /\ in' \in [Clients -> Seq(InFrames)]
      BY <2>1, <2>2, <3>1, Split DEF PeerType
    <3> QED
      BY <1>3, <2>1, <2>2, <3>2 DEF IoRead, LoopType, SessionType, PeerType, HistoryType, ClientInUse
  <2>3. CASE bridge_drop_client /\ EndTurn /\ UNCHANGED <<batch, in>>
    <3>1. LoopType' /\ ClientInUse'
      BY <1>3, <2>3, FrameAssumption DEF IoRead, EndTurn, LoopType, ClientInUse
    <3>2. SessionType' /\ PeerType' /\ HistoryType'
      BY <1>3, <2>3 DEF IoRead, bridge_drop_client, SessionType, PeerType, HistoryType
    <3> QED BY <3>1, <3>2
  <2> QED BY <1>3, <2>2, <2>3 DEF IoRead, Unread
<1>4. CASE IoNone
  BY <1>4, FrameAssumption DEF IoNone, EndTurn, LoopType, SessionType, PeerType, HistoryType, ClientInUse
<1>5. CASE FeedEnd
  BY <1>5, FrameAssumption DEF FeedEnd, EndTurn, LoopType, SessionType, PeerType, HistoryType, ClientInUse
<1>6. ASSUME NEW t, NextIs(t)
      PROVE  /\ cli \in Clients /\ Head(batch) \in InFrames /\ Head(batch).t = t
             /\ batch' \in Seq(InFrames)
  BY <1>6, HeadTailProperties DEF NextIs, LoopType, SessionType, ClientInUse
<1>7. CASE HandleRst
  <2>1. cli \in Clients /\ batch' \in Seq(InFrames)
    BY <1>6, <1>7 DEF HandleRst
  <2>2. out' \in [Clients -> Seq(OutFrames)] /\ pc' \in {"feed", "dead"}
    BY <1>7, <2>1, SendType, OutKinds DEF HandleRst
  <2>3. SessionType' /\ HistoryType'
    BY <1>7, <2>1, FreshType DEF HandleRst, ResetFlags, SessionType, HistoryType
  <2>4. LoopType' /\ ClientInUse'
    BY <1>7, <2>1, <2>2 DEF HandleRst, LoopType, ClientInUse
  <2>5. PeerType'
    <3>1. agreed' \in BOOLEAN /\ cbq' \in Seq(Bodies) /\ epoch' \in Nat
      BY <1>7, ResetType DEF HandleRst
    <3> QED BY <1>7, <2>2, <3>1 DEF HandleRst, PeerType
  <2> QED BY <2>3, <2>4, <2>5
<1>8. CASE HandleIgnored
  <2>1. batch' \in Seq(InFrames)
    BY <1>6, <1>8 DEF HandleIgnored
  <2> QED
    BY <1>8, <2>1 DEF HandleIgnored, LoopType, SessionType, PeerType, HistoryType, ClientInUse
<1>9. CASE HandleNak
  <2>1. batch' \in Seq(InFrames) /\ rn' \in Nums /\ cli \in Clients
    BY <1>6, <1>9, FrameKinds DEF HandleNak
  <2> QED
    BY <1>9, <2>1 DEF HandleNak, LoopType, SessionType, PeerType, HistoryType, ClientInUse
<1>10. CASE ResendSlot
  <2>1. cli \in Clients /\ rn \in Nums /\ rn' \in Nums
    BY <1>10, NextNumType DEF ResendSlot, ClientInUse, SessionType, LoopType
  <2>2. out' \in [Clients -> Seq(OutFrames)] /\ pc' \in {"resend", "dead"}
    <3>1. CASE sent[rn] = Empty
      BY <1>10, <3>1 DEF ResendSlot, PeerType
    <3>2. CASE sent[rn] # Empty
      <4>1. sent[rn] \in DataOut
        BY <2>1, <3>2 DEF SessionType
      <4>2. [sent[rn] EXCEPT !.retx = TRUE] \in DataOut
        BY <4>1 DEF DataOut
      <4>3. ash_send(<<[sent[rn] EXCEPT !.retx = TRUE]>>, "resend")
        BY <1>10, <3>2 DEF ResendSlot
      <4> QED
        BY <2>1, <4>2, <4>3, SendType, OutKinds
    <3> QED BY <3>1, <3>2
  <2> QED
    BY <1>10, <2>1, <2>2 DEF ResendSlot, LoopType, SessionType, PeerType, HistoryType, ClientInUse
<1>11. CASE ResendEnd
  BY <1>11 DEF ResendEnd, LoopType, SessionType, PeerType, HistoryType, ClientInUse
<1>12. CASE HandleDataEarly
  <2>1. batch' \in Seq(InFrames)
    BY <1>6, <1>12 DEF HandleDataEarly
  <2> QED
    BY <1>12, <2>1 DEF HandleDataEarly, LoopType, SessionType, PeerType, HistoryType, ClientInUse
<1>13. CASE HandleData
  <2> DEFINE a == NextNum(Head(batch).num)
  <2>1. cli \in Clients /\ batch' \in Seq(InFrames) /\ Head(batch) \in DataIn
    BY <1>6, <1>13, FrameKinds DEF HandleData
  <2>2. a \in Nums /\ cur' \in Commands
    BY <1>13, <2>1, FrameKinds, NextNumType DEF HandleData
  <2>3. out' \in [Clients -> Seq(OutFrames)] /\ pc' \in {"relay", "dead"}
    <3>1. [t |-> "ACK", num |-> a] \in OutFrames
      BY <2>2, OutKinds
    <3>2. ash_send(<<[t |-> "ACK", num |-> a]>>, "relay")
      BY <1>13 DEF HandleData
    <3> HIDE DEF a
    <3> QED BY <2>1, <3>1, <3>2, SendType
  <2>4. LoopType' /\ ClientInUse'
    BY <1>13, <2>1, <2>2, <2>3 DEF HandleData, LoopType, ClientInUse
  <2>5. SessionType' /\ HistoryType'
    BY <1>13, <2>2 DEF HandleData, SessionType, HistoryType
  <2>6. PeerType'
    BY <1>13, <2>3 DEF HandleData, PeerType
  <2> QED BY <2>4, <2>5, <2>6
<1>14. CASE Relay
  <2>1. cli \in Clients /\ cur \in Commands
    BY <1>14 DEF Relay, LoopType, SessionType, ClientInUse
  <2>2. agreed' \in BOOLEAN /\ ran' \in Seq(Commands)
    BY <1>14, <2>1, ExecutesType DEF Relay
  <2>3. PICK size \in Sizes : ash_send_data(Relayed(Reply(cur, size)), "drain")
    BY <1>14 DEF Relay
  <2>4. Relayed(Reply(cur, size)) \in Bodies
    BY <2>1, ReplyType, RelayedType
  <2>5. /\ out' \in [Clients -> Seq(OutFrames)] /\ pc' \in {"drain", "dead"}
        /\ sent' \in [Nums -> DataOut \cup {Empty}] /\ frm' \in Nums
        /\ log' \in Seq(Bodies) /\ overrun' \in BOOLEAN
    BY <2>1, <2>3, <2>4, SendDataType
  <2>6. negotiated' \in BOOLEAN
    BY <1>14, Zenon DEF Relay
  <2>7. LoopType' /\ ClientInUse'
    BY <1>14, <2>1, <2>5, FrameAssumption DEF Relay, LoopType, ClientInUse
  <2>8. SessionType' /\ HistoryType' /\ PeerType'
    BY <1>14, <2>2, <2>5, <2>6 DEF Relay, SessionType, HistoryType, PeerType
  <2> QED BY <2>7, <2>8
<1>15. CASE RelayFails
  <2>1. cli \in Clients /\ cur \in Commands
    BY <1>15 DEF RelayFails, LoopType, SessionType, ClientInUse
  <2>2. agreed' \in BOOLEAN /\ ran' \in Seq(Commands)
    BY <1>15, <2>1, ExecutesType DEF RelayFails, PeerType, HistoryType
  <2>3. used' \in [Budgets -> Nat]
    BY <1>15, SpendType DEF RelayFails, Budgets
  <2> QED
    BY <1>15, <2>1, <2>2, <2>3 DEF RelayFails, LoopType, SessionType, PeerType, HistoryType, ClientInUse
<1>16. CASE DrainReturns
  BY <1>16 DEF DrainReturns, LoopType, SessionType, PeerType, HistoryType, ClientInUse
<1>17. CASE DrainPoll
  <2>1. cli \in Clients /\ cbq # <<>> /\ guard + 1 \in 0..DrainMax
    BY <1>17, FrameAssumption DEF DrainPoll, DrainStops, SessionType, LoopType
  <2>2. Relayed(Polled) \in Bodies
    BY <2>1, PolledType, RelayedType
  <2>3. ash_send_data(Relayed(Polled), "drain")
    BY <1>17 DEF DrainPoll
  <2>4. /\ out' \in [Clients -> Seq(OutFrames)] /\ pc' \in {"drain", "dead"}
        /\ sent' \in [Nums -> DataOut \cup {Empty}] /\ frm' \in Nums
        /\ log' \in Seq(Bodies) /\ overrun' \in BOOLEAN
    BY <2>1, <2>2, <2>3, SendDataType
  <2>5. cbq' \in Seq(Bodies)
    <3>1. Tail(cbq) \in Seq(Bodies)
      BY <2>1, HeadTailProperties DEF PeerType
    <3> QED BY <1>17, <3>1 DEF DrainPoll, PeerType
  <2>6. used' \in [Budgets -> Nat]
    BY <1>17, SpendType DEF DrainPoll, Budgets, PeerType
  <2>7. LoopType' /\ ClientInUse'
    BY <1>17, <2>1, <2>4 DEF DrainPoll, LoopType, ClientInUse
  <2>8. SessionType' /\ HistoryType' /\ PeerType'
    BY <1>17, <2>4, <2>5, <2>6 DEF DrainPoll, SessionType, HistoryType, PeerType
  <2> QED BY <2>7, <2>8
<1>18. CASE DrainFails
  <2>1. cli \in Clients /\ cbq # <<>>
    BY <1>18 DEF DrainFails, DrainStops, SessionType
  <2>2. cbq' \in Seq(Bodies)
    <3>1. Tail(cbq) \in Seq(Bodies)
      BY <2>1, HeadTailProperties DEF PeerType
    <3> QED BY <1>18, <3>1 DEF DrainFails, PeerType
  <2>3. used' \in [Budgets -> Nat]
    BY <1>18, SpendType DEF DrainFails, Budgets
  <2> QED
    BY <1>18, <2>1, <2>2, <2>3 DEF DrainFails, LoopType, SessionType, PeerType, HistoryType, ClientInUse
<1>19. CASE Respawn
  <2>1. SessionType' /\ HistoryType'
    BY <1>19, FreshType DEF Respawn, AcceptFlags, SessionType, HistoryType
  <2>2. LoopType' /\ ClientInUse' /\ PeerType'
    BY <1>19, EmptySeq, FrameAssumption DEF Respawn, NoRevents, LoopType, ClientInUse, PeerType
  <2> QED BY <2>1, <2>2
<1> QED
  BY <1>1, <1>2, <1>3, <1>4, <1>5, <1>7, <1>8, <1>9, <1>10, <1>11, <1>12, <1>13, <1>14, <1>15,
     <1>16, <1>17, <1>18, <1>19 DEF BridgeStep

\* What a client does to its own channel and state.
LEMMA SendInType ==
    ASSUME PeerType, NEW c \in Clients, NEW f \in InFrames, Send(c, f)
    PROVE  in' \in [Clients -> Seq(InFrames)]
<1>1. Append(in[c], f) \in Seq(InFrames)
  BY AppendProperties DEF PeerType
<1> QED BY <1>1 DEF Send, PeerType

\* The parts of the state of a client.
LEMMA HostParts ==
    ASSUME NEW h \in HostStates
    PROVE  /\ h.st \in {"off", "wait", "on"} /\ h.tx \in Nums
           /\ h.unacked \in Seq(DataIn) /\ h.rej \in BOOLEAN
           /\ \A x \in {"off", "wait", "on"} : [NoHost EXCEPT !.st = x] \in HostStates
           /\ \A u \in Seq(DataIn) : [h EXCEPT !.unacked = u] \in HostStates
           /\ \A u \in Seq(DataIn) : [h EXCEPT !.rej = FALSE, !.unacked = u] \in HostStates
           /\ [h EXCEPT !.rej = TRUE] \in HostStates
           /\ \A u \in Seq(DataIn), n \in Nums :
                 [h EXCEPT !.tx = n, !.unacked = u] \in HostStates
BY EmptySeq, ZeroNum DEF HostStates, NoHost

\* An acknowledgement leaves a sequence of the frames that were unacknowledged.
LEMMA UnackedType ==
    ASSUME PeerType, NEW c \in Clients, NEW a \in Nums, NEW S, host[c].unacked \in Seq(S)
    PROVE  Unacked(c, a) \in Seq(S)
<1> DEFINE u == host[c].unacked
           k == (a - (host[c].tx - Len(u)) + 2 * Window) % Window
<1>1. host[c].tx \in Nums
  BY HostParts DEF PeerType
<1>2. Len(u) \in Nat
  BY LenProperties
<1>3. k \in Nat
  BY <1>1, <1>2, WindowAssumption DEF Nums
<1>4. u \in Seq(S)
  OBVIOUS
<1> HIDE DEF u, k
<1>5. k <= Len(u) => SubSeq(u, k + 1, Len(u)) \in Seq(S)
  BY <1>2, <1>3, <1>4, Split
<1>6. (IF k <= Len(u) THEN SubSeq(u, k + 1, Len(u)) ELSE u) \in Seq(S)
  BY <1>4, <1>5
<1> QED BY <1>6 DEF Unacked, u, k

\* Every step of a client keeps the types.
LEMMA HostType == ASSUME TypeInv, NEW c \in Clients, HostStep(c) PROVE TypeInv'
<1> USE DEF TypeInv, TypeOK, Bridge, loop, session, ncp, history
<1>1. ASSUME UNCHANGED Bridge PROVE LoopType' /\ SessionType' /\ HistoryType' /\ ClientInUse'
  BY <1>1 DEF LoopType, SessionType, HistoryType, ClientInUse
<1>2. host[c] \in HostStates /\ out[c] \in Seq(OutFrames)
  BY DEF PeerType
<1>3. ASSUME NEW k \in Budgets, Spend(k) PROVE used' \in [Budgets -> Nat]
  BY <1>3, SpendType
<1>4. {"rst", "cmd", "retx", "nak", "idle", "lose", "hang"} \subseteq Budgets
  BY DEF Budgets
<1>5. ASSUME NEW h \in HostStates, host' = [host EXCEPT ![c] = h]
      PROVE  host' \in [Clients -> HostStates]
  BY <1>5 DEF PeerType
<1>6. CASE Connect(c)
  BY <1>1, <1>6 DEF Connect, PeerType
<1>7. CASE HostRst(c)
  <2>1. in' \in [Clients -> Seq(InFrames)] /\ used' \in [Budgets -> Nat]
    BY <1>3, <1>4, <1>7, SendInType, FrameKinds DEF HostRst
  <2>2. host' \in [Clients -> HostStates]
    BY <1>2, <1>7, HostParts DEF HostRst, PeerType
  <2> QED BY <1>1, <1>7, <2>1, <2>2 DEF HostRst, PeerType
<1>8. CASE HostSend(c)
  <2>1. used' \in [Budgets -> Nat] /\ used["cmd"] + 1 \in Nat
    <3>1. used' \in [Budgets -> Nat]
      BY <1>3, <1>4, <1>8 DEF HostSend
    <3>2. used["cmd"] \in Nat
      BY <1>4 DEF PeerType
    <3> QED BY <3>1, <3>2
  <2>2. ezsp_layout(HostVersion(c)) \in 2..4
    BY DEF ezsp_layout
  <2> DEFINE F(v) == [t |-> "DATA", num |-> host[c].tx, retx |-> FALSE,
                      cmd |-> [by |-> c, n |-> used["cmd"] + 1, asks |-> v,
                               layout |-> ezsp_layout(HostVersion(c))]]
  <2>3. PICK v \in Versions \cup {0} :
          /\ Send(c, F(v))
          /\ host' = [host EXCEPT ![c].tx = (@ + 1) % Window, ![c].unacked = Append(@, F(v))]
    BY <1>8 DEF HostSend
  <2>4. F(v) \in DataIn
    BY <1>2, <2>1, <2>2, HostParts DEF DataIn, Commands
  <2> HIDE DEF F
  <2>5. in' \in [Clients -> Seq(InFrames)]
    BY <2>3, <2>4, SendInType, FrameKinds
  <2>6. host' \in [Clients -> HostStates]
    <3>1. Append(host[c].unacked, F(v)) \in Seq(DataIn) /\ (host[c].tx + 1) % Window \in Nums
      BY <1>2, <2>4, HostParts, AppendProperties, NextNumType, ZeroNum DEF NextNum
    <3>2. host' = [host EXCEPT ![c] = [host[c] EXCEPT !.tx = (host[c].tx + 1) % Window,
                                                     !.unacked = Append(host[c].unacked, F(v))]]
      BY <1>2, <2>3 DEF PeerType
    <3> QED BY <1>2, <1>5, <3>1, <3>2, HostParts
  <2> QED BY <1>1, <1>8, <2>1, <2>5, <2>6 DEF HostSend, PeerType
<1>9. CASE HostRetransmit(c)
  <2>1. Head(host[c].unacked) \in DataIn
    BY <1>2, <1>9, HostParts, HeadTailProperties DEF HostRetransmit
  <2>2. [Head(host[c].unacked) EXCEPT !.retx = TRUE] \in DataIn
    BY <2>1 DEF DataIn
  <2>3. in' \in [Clients -> Seq(InFrames)] /\ used' \in [Budgets -> Nat]
    BY <1>3, <1>4, <1>9, <2>2, SendInType, FrameKinds DEF HostRetransmit
  <2> QED BY <1>1, <1>9, <2>3 DEF HostRetransmit, PeerType
<1>10. CASE HostNak(c)
  <2>1. \A n \in Nums : [t |-> "NAK", num |-> n] \in InFrames
    BY DEF InFrames
  <2>2. in' \in [Clients -> Seq(InFrames)] /\ used' \in [Budgets -> Nat]
    BY <1>3, <1>4, <1>10, <2>1, SendInType DEF HostNak
  <2> QED BY <1>1, <1>10, <2>2 DEF HostNak, PeerType
<1>11. CASE HostIdleFrame(c)
  <2>1. \A t \in {"ACK", "OTHER"} : [t |-> t] \in InFrames
    BY DEF InFrames
  <2>2. in' \in [Clients -> Seq(InFrames)] /\ used' \in [Budgets -> Nat]
    BY <1>3, <1>4, <1>11, <2>1, SendInType DEF HostIdleFrame
  <2> QED BY <1>1, <1>11, <2>2 DEF HostIdleFrame, PeerType
<1>12. CASE HostReceive(c)
  <2>1. Head(out[c]) \in OutFrames /\ Tail(out[c]) \in Seq(OutFrames)
    BY <1>2, <1>12, HeadTailProperties DEF HostReceive
  <2>2. out' \in [Clients -> Seq(OutFrames)]
    BY <1>12, <2>1 DEF HostReceive, PeerType
  <2> DEFINE f == Head(out[c])
             expected == Len(got[c]) % Window
  <2>3. expected \in Nums
    BY LenProperties, WindowAssumption DEF PeerType, Nums
  <2>4. f.t = "ACK" => Unacked(c, f.num) \in Seq(DataIn)
    BY <1>2, <2>1, OutKinds, HostParts, UnackedType
  <2>5. f.t = "DATA" => Unacked(c, f.ack) \in Seq(DataIn) /\ f.body \in Bodies
    BY <1>2, <2>1, OutKinds, HostParts, UnackedType
  <2>6. ASSUME f.t = "RSTACK", host' = [host EXCEPT ![c] = [NoHost EXCEPT !.st = "on"]],
               got' = [got EXCEPT ![c] = <<>>], in' = in
        PROVE  PeerType'
    <3>1. host' \in [Clients -> HostStates]
      BY <1>2, <1>5, <2>6, HostParts
    <3>2. got' \in [Clients -> Seq(Bodies)]
      BY <2>6, EmptySeq DEF PeerType
    <3> QED BY <1>12, <2>2, <2>6, <3>1, <3>2 DEF HostReceive, PeerType
  <2>7. ASSUME host' = IF f.t = "ACK" /\ host[c].st = "on"
                       THEN [host EXCEPT ![c].unacked = Unacked(c, f.num)] ELSE host,
               UNCHANGED <<got, in>>
        PROVE  PeerType'
    <3>1. CASE f.t = "ACK" /\ host[c].st = "on"
      <4>1. host' = [host EXCEPT ![c] = [host[c] EXCEPT !.unacked = Unacked(c, f.num)]]
        BY <2>7, <3>1 DEF PeerType
      <4>2. host' \in [Clients -> HostStates]
        BY <1>2, <1>5, <2>4, <3>1, <4>1, HostParts
      <4> QED BY <1>12, <2>2, <2>7, <4>2 DEF HostReceive, PeerType
    <3>2. CASE ~(f.t = "ACK" /\ host[c].st = "on")
      BY <1>12, <2>2, <2>7, <3>2 DEF HostReceive, PeerType
    <3> QED BY <3>1, <3>2
  <2>8. ASSUME f.t = "DATA", got' = [got EXCEPT ![c] = Append(@, f.body)],
               host' = [host EXCEPT ![c].rej = FALSE, ![c].unacked = Unacked(c, f.ack)], in' = in
        PROVE  PeerType'
    <3>1. host' = [host EXCEPT ![c] = [host[c] EXCEPT !.rej = FALSE, !.unacked = Unacked(c, f.ack)]]
      BY <2>8 DEF PeerType
    <3>2. host' \in [Clients -> HostStates]
      BY <1>2, <1>5, <2>5, <2>8, <3>1, HostParts
    <3>3. Append(got[c], f.body) \in Seq(Bodies)
      BY <2>5, <2>8, AppendProperties DEF PeerType
    <3> QED BY <1>12, <2>2, <2>8, <3>2, <3>3 DEF HostReceive, PeerType
  <2>9. ASSUME host' = [host EXCEPT ![c].rej = TRUE],
               IF host[c].rej \/ f.retx THEN in' = in ELSE Send(c, [t |-> "NAK", num |-> expected]),
               got' = got
        PROVE  PeerType'
    <3>1. host' = [host EXCEPT ![c] = [host[c] EXCEPT !.rej = TRUE]]
      BY <2>9 DEF PeerType
    <3>2. host' \in [Clients -> HostStates]
      BY <1>2, <1>5, <3>1, HostParts
    <3>3. [t |-> "NAK", num |-> expected] \in InFrames
      BY <2>3 DEF InFrames
    <3>4. in' \in [Clients -> Seq(InFrames)]
      BY <2>9, <3>3, SendInType DEF PeerType
    <3> QED BY <1>12, <2>2, <2>9, <3>2, <3>4 DEF HostReceive, PeerType
  <2>10. PeerType'
    BY <1>12, <2>6, <2>7, <2>8, <2>9 DEF HostReceive
  <2> QED BY <1>1, <1>12, <2>10 DEF HostReceive
<1>13. CASE HostLose(c)
  <2>1. Tail(out[c]) \in Seq(OutFrames)
    BY <1>2, <1>13, HeadTailProperties DEF HostLose
  <2>2. used' \in [Budgets -> Nat]
    BY <1>3, <1>4, <1>13 DEF HostLose
  <2> QED BY <1>1, <1>13, <2>1, <2>2 DEF HostLose, PeerType
<1>14. CASE HostHangup(c)
  <2>1. used' \in [Budgets -> Nat]
    BY <1>3, <1>4, <1>14 DEF HostHangup
  <2>2. <<>> \in Seq(InFrames)
    BY EmptySeq
  <2> QED BY <1>1, <1>14, <2>1, <2>2 DEF HostHangup, PeerType
<1> QED
  BY <1>6, <1>7, <1>8, <1>9, <1>10, <1>11, <1>12, <1>13, <1>14 DEF HostStep

\* Every step the NCP takes by itself keeps the types.
LEMMA NcpType == TypeInv /\ (NcpCallback \/ NcpCrash) => TypeInv'
<1> SUFFICES ASSUME TypeInv, NcpCallback \/ NcpCrash PROVE TypeInv'
  OBVIOUS
<1> USE DEF TypeInv, TypeOK, loop, session, ncp, history
<1>1. CASE NcpCallback
  <2>1. used' \in [Budgets -> Nat] /\ used["callback"] + 1 \in Nat
    <3>1. "callback" \in Budgets
      BY DEF Budgets
    <3>2. used' \in [Budgets -> Nat]
      BY <1>1, <3>1, SpendType DEF NcpCallback
    <3>3. used["callback"] \in Nat
      BY <3>1 DEF PeerType
    <3> QED BY <3>2, <3>3
  <2> DEFINE B(size) == [src |-> "callback", by |-> None, n |-> used["callback"] + 1, ver |-> 0,
                         epoch |-> epoch, full |-> size, len |-> size]
  <2>2. PICK size \in Sizes : cbq' = Append(cbq, B(size))
    BY <1>1 DEF NcpCallback
  <2>3. B(size) \in Bodies
    BY <2>1, FrameAssumption DEF Bodies, PeerType
  <2> HIDE DEF B
  <2>4. cbq' \in Seq(Bodies)
    BY <2>2, <2>3, AppendProperties DEF PeerType
  <2> QED
    BY <1>1, <2>1, <2>4 DEF NcpCallback, LoopType, SessionType, PeerType, HistoryType, ClientInUse
<1>2. CASE NcpCrash
  <2>1. used' \in [Budgets -> Nat]
    BY <1>2, SpendType DEF NcpCrash, Budgets
  <2>2. agreed' \in BOOLEAN /\ cbq' \in Seq(Bodies) /\ epoch' \in Nat
    BY <1>2, ResetType DEF NcpCrash
  <2> QED
    BY <1>2, <2>1, <2>2 DEF NcpCrash, LoopType, SessionType, PeerType, HistoryType, ClientInUse
<1> QED BY <1>1, <1>2

\* TypeInv is inductive.
LEMMA NextType == TypeInv /\ [Next]_vars => TypeInv'
<1>1. ASSUME TypeInv, UNCHANGED vars PROVE TypeInv'
  BY <1>1 DEF vars, loop, session, ncp, history, TypeInv, TypeOK, LoopType, SessionType, PeerType,
      HistoryType, ClientInUse
<1> QED
  BY <1>1, BridgeType, HostType, NcpType DEF Next

\* Whatever clients, NCP and process do, every variable keeps its type: among
\* them the frame numbers (sent[] is never indexed outside the window) and the
\* descriptor, which is valid wherever the loop reads or writes it.
THEOREM TypeCorrect == Spec => []TypeOK
<1>1. TypeInv => TypeOK
  BY DEF TypeInv
<1> QED
  BY <1>1, InitType, NextType, PTL DEF Spec

-----------------------------------------------------------------------------
(***************************************************************************)
(* The handshake.  RstackFirst and RunsAfterRst are not inductive: they    *)
(* rest on the flag ready being true only for a client that has its        *)
(* RSTACK (ReadyMeansReset), on sent[] being empty while it is not, so     *)
(* that a NAK resends nothing (NothingToResend), and on a command being    *)
(* relayed for the client that sent it (OwnFrames, RelayReady).            *)
(***************************************************************************)
\* Frames client c may have sent: a command in them is marked as its own.
Own(c) == {f \in InFrames : f.t = "DATA" => f.cmd.by = c}

ReadyMeansReset == cli # None /\ ready => cli \in rstacked
NothingToResend == cli # None /\ ~ready => sent = [n \in Nums |-> Empty]
RelayReady == pc = "relay" => ready /\ cur.by = cli
OwnFrames ==
    /\ batch \in Seq(Own(cli))
    /\ pc \in {"poll", "io"} \/ (pc = "drain" /\ ret = "poll") => batch = <<>>
    /\ \A c \in Clients : in[c] \in Seq(Own(c)) /\ host[c].unacked \in Seq(Own(c))

HandshakeInv ==
    /\ ReadyMeansReset /\ NothingToResend /\ RelayReady /\ OwnFrames
    /\ RstackFirst /\ RunsAfterRst

\* Frames without a command are everybody's own, as is the empty channel.
LEMMA OwnFacts ==
    ASSUME NEW c
    PROVE  /\ <<>> \in Seq(Own(c)) /\ Own(c) \subseteq InFrames
           /\ \A f \in InFrames : f.t # "DATA" => f \in Own(c)
           /\ \A f \in Own(c) : f.t = "DATA" => f.cmd.by = c
BY EmptySeq DEF Own

\* Nobody has been answered and nothing is under way at the start.
LEMMA InitHandshake == Init => HandshakeInv
<1> SUFFICES ASSUME Init PROVE HandshakeInv
  OBVIOUS
<1>1. OwnFrames
  BY OwnFacts DEF Init, OwnFrames, NoHost
<1>2. RstackFirst /\ RunsAfterRst
  BY DEF Init, RstackFirst, RunsAfterRst
<1>3. ReadyMeansReset /\ NothingToResend /\ RelayReady
  BY DEF Init, ReadyMeansReset, NothingToResend, RelayReady
<1> QED BY <1>1, <1>2, <1>3 DEF HandshakeInv

\* The bridge writes to the client of the moment only.
LEMMA SendOnly ==
    ASSUME PeerType, NEW fs, NEW next, ash_send(fs, next) \/ UNCHANGED out
    PROVE  \A c \in Clients : c # cli => out'[c] = out[c]
BY DEF ash_send, PeerType

\* The same of ash_send_data.
LEMMA SendDataOnly ==
    ASSUME PeerType, NEW b, NEW next, ash_send_data(b, next)
    PROVE  \A c \in Clients : c # cli => out'[c] = out[c]
BY SendOnly DEF ash_send_data

\* Every step of the process keeps the handshake invariant.
LEMMA BridgeHandshake == TypeInv /\ HandshakeInv /\ BridgeStep => HandshakeInv'
<1> SUFFICES ASSUME TypeInv, HandshakeInv, BridgeStep PROVE HandshakeInv'
  OBVIOUS
<1> USE ClientsAssumption DEF TypeInv, TypeOK, HandshakeInv, loop, session, ncp, history
<1>1. ASSUME cli \in rstacked, rstacked \subseteq rstacked', got' = got,
             \A c \in Clients : c # cli => out'[c] = out[c]
      PROVE  RstackFirst'
  BY <1>1 DEF RstackFirst
<1>2. ASSUME UNCHANGED <<in, host, batch, cli>>,
             pc' \in {"poll", "io"} \/ (pc' = "drain" /\ ret' = "poll") => batch = <<>>
      PROVE  OwnFrames'
  BY <1>2 DEF OwnFrames
<1>3. CASE PollWake
  <2>1. batch' = <<>> /\ OwnFrames'
    BY <1>3, OwnFacts DEF PollWake, OwnFrames
  <2>2. RstackFirst' /\ RunsAfterRst' /\ RelayReady'
    BY <1>3 DEF PollWake, RstackFirst, RunsAfterRst, RelayReady
  <2>3. ReadyMeansReset' /\ NothingToResend'
    BY <1>3 DEF PollWake, FreshNumbers, AcceptFlags, NoSent, ReadyMeansReset, NothingToResend
  <2> QED BY <2>1, <2>2, <2>3
<1>4. CASE IoHangup
  <2>1. OwnFrames'
    BY <1>4, OwnFacts DEF IoHangup, OwnFrames
  <2> QED
    BY <1>4, <2>1 DEF IoHangup, bridge_drop_client, RstackFirst, RunsAfterRst, RelayReady,
        ReadyMeansReset, NothingToResend
<1>5. CASE IoRead
  <2>1. cli \in Clients
    BY <1>5 DEF IoRead, ReadReady, ClientInUse, SessionType
  <2>2. OwnFrames'
    <3>1. ASSUME NEW n \in 1..Len(in[cli]),
                 batch' = SubSeq(in[cli], 1, n),
                 in' = [in EXCEPT ![cli] = SubSeq(@, n + 1, Len(@))],
                 pc' = "feed", UNCHANGED <<cli, conn, ret, guard>>
          PROVE  OwnFrames'
      <4>1. in[cli] \in Seq(Own(cli)) /\ n \in 0..Len(in[cli])
        BY <2>1, LenProperties DEF OwnFrames
      <4>2. batch' \in Seq(Own(cli)) /\ SubSeq(in[cli], n + 1, Len(in[cli])) \in Seq(Own(cli))
        BY <3>1, <4>1, Split
      <4> QED
        BY <1>5, <2>1, <3>1, <4>2 DEF IoRead, OwnFrames, PeerType
    <3>2. ASSUME UNCHANGED <<batch, in>>, EndTurn PROVE OwnFrames'
      BY <1>5, <3>2, OwnFacts DEF IoRead, EndTurn, OwnFrames
    <3> QED BY <1>5, <3>1, <3>2 DEF IoRead, Unread
  <2>3. pc' # "relay" /\ (cli' = None \/ cli' = cli)
    BY <1>5 DEF IoRead, bridge_drop_client, EndTurn
  <2> QED
    BY <1>5, <2>2, <2>3 DEF IoRead, RstackFirst, RunsAfterRst, RelayReady, ReadyMeansReset,
        NothingToResend
<1>6. CASE IoNone
  <2>1. OwnFrames'
    BY <1>2, <1>6 DEF IoNone, EndTurn, OwnFrames
  <2> QED
    BY <1>6, <2>1 DEF IoNone, EndTurn, RstackFirst, RunsAfterRst, RelayReady, ReadyMeansReset,
        NothingToResend
<1>7. CASE FeedEnd
  <2>1. OwnFrames'
    BY <1>2, <1>7 DEF FeedEnd, EndTurn
  <2> QED
    BY <1>7, <2>1 DEF FeedEnd, EndTurn, RstackFirst, RunsAfterRst, RelayReady, ReadyMeansReset,
        NothingToResend
<1>8. ASSUME NEW t, NextIs(t), UNCHANGED <<in, host, cli>>,
             pc' \in {"feed", "resend", "relay", "dead"}
      PROVE  OwnFrames' /\ (t = "DATA" => Head(batch).cmd.by = cli)
  <2>1. Head(batch) \in Own(cli) /\ Tail(batch) \in Seq(Own(cli)) /\ batch' = Tail(batch)
    BY <1>8, HeadTailProperties DEF NextIs, OwnFrames
  <2>2. OwnFrames'
    BY <1>8, <2>1 DEF OwnFrames
  <2> QED BY <1>8, <2>1, <2>2, OwnFacts DEF NextIs
<1>9. CASE HandleRst
  <2>1. cli \in Clients /\ pc' \in {"feed", "dead"} /\ out' \in [Clients -> Seq(OutFrames)]
    BY <1>9, SendType, OutKinds DEF HandleRst, NextIs, ClientInUse, SessionType
  <2>2. \A c \in Clients : c # cli => out'[c] = out[c]
    BY <1>9, SendOnly DEF HandleRst
  <2>3. OwnFrames'
    BY <1>8, <1>9, <2>1 DEF HandleRst
  <2>4. RstackFirst' /\ RunsAfterRst'
    BY <1>9, <2>2 DEF HandleRst, RstackFirst, RunsAfterRst
  <2>5. ReadyMeansReset' /\ NothingToResend' /\ RelayReady'
    BY <1>9, <2>1 DEF HandleRst, ResetFlags, ReadyMeansReset, NothingToResend, RelayReady
  <2> QED BY <2>3, <2>4, <2>5
<1>10. CASE HandleIgnored \/ HandleNak \/ HandleDataEarly
  <2>1. pc' \in {"feed", "resend"} /\ UNCHANGED <<in, host, cli>>
    BY <1>10 DEF HandleIgnored, HandleNak, HandleDataEarly, NextIs
  <2>2. OwnFrames'
    BY <1>8, <1>10, <2>1 DEF HandleIgnored, HandleNak, HandleDataEarly
  <2> QED
    BY <1>10, <2>1, <2>2 DEF HandleIgnored, HandleNak, HandleDataEarly, RstackFirst, RunsAfterRst,
        RelayReady, ReadyMeansReset, NothingToResend
<1>11. CASE ResendSlot
  <2>1. cli \in Clients /\ rn \in Nums
    BY <1>11 DEF ResendSlot, ClientInUse, SessionType, LoopType
  <2>2. RstackFirst'
    <3>1. CASE sent[rn] = Empty
      BY <1>11, <3>1 DEF ResendSlot, RstackFirst
    <3>2. CASE sent[rn] # Empty
      <4>1. cli \in rstacked
        BY <2>1, <3>2 DEF NothingToResend, ReadyMeansReset
      <4>2. ash_send(<<[sent[rn] EXCEPT !.retx = TRUE]>>, "resend")
        BY <1>11, <3>2 DEF ResendSlot
      <4>3. \A c \in Clients : c # cli => out'[c] = out[c]
        BY <4>2, SendOnly
      <4> QED BY <1>1, <1>11, <4>1, <4>3 DEF ResendSlot
    <3> QED BY <3>1, <3>2
  <2>3. pc' \in {"resend", "dead"}
    BY <1>11 DEF ResendSlot, ash_send
  <2>4. OwnFrames'
    BY <1>2, <1>11, <2>3 DEF ResendSlot
  <2> QED
    BY <1>11, <2>2, <2>3, <2>4 DEF ResendSlot, RunsAfterRst, RelayReady, ReadyMeansReset,
        NothingToResend
<1>12. CASE ResendEnd
  <2>1. OwnFrames'
    BY <1>2, <1>12 DEF ResendEnd
  <2> QED
    BY <1>12, <2>1 DEF ResendEnd, RstackFirst, RunsAfterRst, RelayReady, ReadyMeansReset,
        NothingToResend
<1>13. CASE HandleData
  <2>1. cli \in Clients /\ cli \in rstacked /\ ready
    BY <1>13 DEF HandleData, MayServe, NextIs, ClientInUse, SessionType, ReadyMeansReset
  <2>2. pc' \in {"relay", "dead"}
    BY <1>13 DEF HandleData, ash_send
  <2>3. \A c \in Clients : c # cli => out'[c] = out[c]
    BY <1>13, SendOnly DEF HandleData
  <2>4. RstackFirst'
    BY <1>1, <1>13, <2>1, <2>3 DEF HandleData
  <2>5. OwnFrames' /\ cur'.by = cli
    BY <1>8, <1>13, <2>2 DEF HandleData
  <2> QED
    BY <1>13, <2>1, <2>4, <2>5 DEF HandleData, RunsAfterRst, RelayReady, ReadyMeansReset,
        NothingToResend
<1>14. ASSUME NEW cmd \in Commands, cmd.by \in rstacked, rstacked' = rstacked,
              NcpExecutes(cmd) \/ UNCHANGED <<agreed, ran>>
       PROVE  RunsAfterRst'
  <2>1. CASE ran' = ran
    BY <1>14, <2>1 DEF RunsAfterRst
  <2>2. CASE ran' = Append(ran, cmd)
    BY <1>14, <2>2, AppendProperties, LenProperties DEF RunsAfterRst, HistoryType
  <2> QED BY <1>14, <2>1, <2>2 DEF NcpExecutes
<1>15. CASE Relay
  <2>1. cli \in Clients /\ cli \in rstacked /\ ready /\ cur.by = cli /\ cur \in Commands
    BY <1>15 DEF Relay, RelayReady, ReadyMeansReset, ClientInUse, SessionType, LoopType
  <2>2. PICK size \in Sizes : ash_send_data(Relayed(Reply(cur, size)), "drain")
    BY <1>15 DEF Relay
  <2>3. \A c \in Clients : c # cli => out'[c] = out[c]
    BY <2>2, SendDataOnly
  <2>4. pc' \in {"drain", "dead"}
    BY <2>2 DEF ash_send_data, ash_send
  <2>5. RstackFirst'
    BY <1>1, <1>15, <2>1, <2>3 DEF Relay
  <2>6. RunsAfterRst'
    BY <1>14, <1>15, <2>1 DEF Relay
  <2>7. OwnFrames'
    BY <1>2, <1>15, <2>4 DEF Relay
  <2> QED
    BY <1>15, <2>1, <2>4, <2>5, <2>6, <2>7 DEF Relay, RelayReady, ReadyMeansReset, NothingToResend
<1>16. CASE RelayFails
  <2>1. cli \in Clients /\ cli \in rstacked /\ cur.by = cli /\ cur \in Commands
    BY <1>16 DEF RelayFails, RelayReady, ReadyMeansReset, ClientInUse, SessionType, LoopType
  <2>2. RunsAfterRst'
    BY <1>14, <1>16, <2>1 DEF RelayFails
  <2>3. OwnFrames'
    BY <1>2, <1>16 DEF RelayFails
  <2> QED
    BY <1>16, <2>2, <2>3 DEF RelayFails, RstackFirst, RelayReady, ReadyMeansReset, NothingToResend
<1>17. CASE DrainReturns \/ DrainFails
  <2>1. OwnFrames'
    BY <1>2, <1>17 DEF DrainReturns, DrainFails, OwnFrames, LoopType
  <2>2. pc' # "relay"
    BY <1>17 DEF DrainReturns, DrainFails, LoopType
  <2> QED
    BY <1>17, <2>1, <2>2 DEF DrainReturns, DrainFails, RstackFirst, RunsAfterRst, RelayReady,
        ReadyMeansReset, NothingToResend
<1>18. CASE DrainPoll
  <2>1. cli \in Clients /\ cli \in rstacked /\ ready
    BY <1>18 DEF DrainPoll, DrainStops, SessionType, ReadyMeansReset
  <2>2. ash_send_data(Relayed(Polled), "drain")
    BY <1>18 DEF DrainPoll
  <2>3. \A c \in Clients : c # cli => out'[c] = out[c]
    BY <2>2, SendDataOnly
  <2>4. pc' \in {"drain", "dead"}
    BY <2>2 DEF ash_send_data, ash_send
  <2>5. RstackFirst'
    BY <1>1, <1>18, <2>1, <2>3 DEF DrainPoll
  <2>6. OwnFrames'
    BY <1>2, <1>18, <2>4 DEF DrainPoll, OwnFrames
  <2> QED
    BY <1>18, <2>1, <2>4, <2>5, <2>6 DEF DrainPoll, RunsAfterRst, RelayReady, ReadyMeansReset,
        NothingToResend
<1>19. CASE Respawn
  <2>1. OwnFrames'
    BY <1>19, OwnFacts DEF Respawn, OwnFrames
  <2> QED
    BY <1>19, <2>1 DEF Respawn, RstackFirst, RunsAfterRst, RelayReady, ReadyMeansReset,
        NothingToResend
<1> QED
  BY <1>3, <1>4, <1>5, <1>6, <1>7, <1>9, <1>10, <1>11, <1>12, <1>13, <1>15, <1>16, <1>17, <1>18,
     <1>19 DEF BridgeStep

\* A client sends only commands of its own.
LEMMA HostHandshake ==
    ASSUME TypeInv, HandshakeInv, NEW c \in Clients, HostStep(c)
    PROVE  HandshakeInv'
<1> USE DEF TypeInv, TypeOK, HandshakeInv, Bridge, loop, session, ncp, history
<1>1. UNCHANGED Bridge
  BY DEF HostStep, Connect, HostRst, HostSend, HostRetransmit, HostNak, HostIdleFrame, HostReceive,
      HostLose, HostHangup
<1>2. ReadyMeansReset' /\ NothingToResend' /\ RelayReady' /\ RunsAfterRst'
  BY <1>1 DEF ReadyMeansReset, NothingToResend, RelayReady, RunsAfterRst
<1>3. RstackFirst'
  <2>1. CASE UNCHANGED <<out, got>>
    BY <1>1, <2>1 DEF RstackFirst
  <2>2. CASE HostReceive(c) \/ HostLose(c)
    <3>1. c \in rstacked
      BY <2>2 DEF HostReceive, HostLose, RstackFirst
    <3>2. \A d \in Clients : d # c => out'[d] = out[d] /\ got'[d] = got[d]
      BY <2>2 DEF HostReceive, HostLose, PeerType
    <3> QED BY <1>1, <3>1, <3>2 DEF RstackFirst
  <2> QED
    BY <2>1, <2>2 DEF HostStep, Connect, HostRst, HostSend, HostRetransmit, HostNak,
        HostIdleFrame, HostHangup
<1>4. ASSUME \A d \in Clients : d # c => in'[d] = in[d] /\ host'[d] = host[d],
             in'[c] \in Seq(Own(c)), host'[c].unacked \in Seq(Own(c))
      PROVE  OwnFrames'
  BY <1>1, <1>4 DEF OwnFrames
<1>5. in[c] \in Seq(Own(c)) /\ host[c].unacked \in Seq(Own(c)) /\ host[c] \in HostStates
  BY DEF OwnFrames, PeerType
<1>6. ASSUME NEW f \in Own(c), Send(c, f)
      PROVE  in'[c] \in Seq(Own(c)) /\ \A d \in Clients : d # c => in'[d] = in[d]
  <2>1. Append(in[c], f) \in Seq(Own(c))
    BY <1>5, AppendProperties
  <2> QED BY <1>6, <2>1 DEF Send, PeerType
<1>7. \A n \in Nums : [t |-> "NAK", num |-> n] \in Own(c)
  BY DEF Own, InFrames
<1>8. \A t \in {"RST", "ACK", "OTHER"} : [t |-> t] \in Own(c)
  BY DEF Own, InFrames
<1>9. CASE Connect(c) \/ HostLose(c)
  BY <1>4, <1>5, <1>9, <1>2, <1>3 DEF Connect, HostLose
<1>10. CASE HostRst(c)
  <2>1. in'[c] \in Seq(Own(c)) /\ \A d \in Clients : d # c => in'[d] = in[d]
    BY <1>6, <1>8, <1>10 DEF HostRst
  <2>2. host'[c].unacked \in Seq(Own(c)) /\ \A d \in Clients : d # c => host'[d] = host[d]
    BY <1>10, OwnFacts DEF HostRst, NoHost, PeerType
  <2> QED BY <1>2, <1>3, <1>4, <2>1, <2>2
<1>11. CASE HostSend(c)
  <2> DEFINE F(v) == [t |-> "DATA", num |-> host[c].tx, retx |-> FALSE,
                      cmd |-> [by |-> c, n |-> used["cmd"] + 1, asks |-> v,
                               layout |-> ezsp_layout(HostVersion(c))]]
  <2>1. PICK v \in Versions \cup {0} :
          /\ Send(c, F(v))
          /\ host' = [host EXCEPT ![c].tx = (@ + 1) % Window, ![c].unacked = Append(@, F(v))]
    BY <1>11 DEF HostSend
  <2>2. F(v) \in Own(c)
    <3>1. used["cmd"] + 1 \in Nat
      BY DEF PeerType, Budgets
    <3>2. ezsp_layout(HostVersion(c)) \in 2..4
      BY DEF ezsp_layout
    <3>3. F(v) \in DataIn /\ F(v).cmd.by = c
      BY <1>5, <3>1, <3>2, HostParts DEF DataIn, Commands
    <3> QED BY <3>3, FrameKinds DEF Own
  <2> HIDE DEF F
  <2>3. in'[c] \in Seq(Own(c)) /\ \A d \in Clients : d # c => in'[d] = in[d]
    BY <1>6, <2>1, <2>2
  <2>4. Append(host[c].unacked, F(v)) \in Seq(Own(c))
    BY <1>5, <2>2, AppendProperties
  <2>5. /\ host'[c].unacked = Append(host[c].unacked, F(v))
        /\ \A d \in Clients : d # c => host'[d] = host[d]
    BY <1>5, <2>1 DEF PeerType, HostStates
  <2> QED BY <1>2, <1>3, <1>4, <2>3, <2>4, <2>5
<1>12. CASE HostRetransmit(c)
  <2>1. Head(host[c].unacked) \in Own(c) /\ Head(host[c].unacked) \in DataIn
    BY <1>5, <1>12, HostParts, HeadTailProperties DEF HostRetransmit
  <2>2. [Head(host[c].unacked) EXCEPT !.retx = TRUE] \in DataIn
    BY <2>1 DEF DataIn
  <2>3. [Head(host[c].unacked) EXCEPT !.retx = TRUE].cmd.by = c
    BY <2>1, FrameKinds DEF Own, DataIn
  <2>4. [Head(host[c].unacked) EXCEPT !.retx = TRUE] \in Own(c)
    BY <2>2, <2>3, FrameKinds DEF Own
  <2>5. in'[c] \in Seq(Own(c)) /\ \A d \in Clients : d # c => in'[d] = in[d]
    BY <1>6, <1>12, <2>4 DEF HostRetransmit
  <2> QED BY <1>2, <1>3, <1>4, <1>5, <1>12, <2>5 DEF HostRetransmit
<1>13. CASE HostNak(c) \/ HostIdleFrame(c)
  <2>1. in'[c] \in Seq(Own(c)) /\ \A d \in Clients : d # c => in'[d] = in[d]
    BY <1>6, <1>7, <1>8, <1>13 DEF HostNak, HostIdleFrame
  <2> QED BY <1>2, <1>3, <1>4, <1>5, <1>13, <2>1 DEF HostNak, HostIdleFrame
<1>14. CASE HostReceive(c)
  <2> DEFINE f == Head(out[c])
             expected == Len(got[c]) % Window
  <2>1. f \in OutFrames
    BY <1>14, HeadTailProperties DEF HostReceive, PeerType
  <2>2. f.t = "ACK" => Unacked(c, f.num) \in Seq(Own(c))
    BY <1>5, <2>1, OutKinds, UnackedType
  <2>3. f.t = "DATA" => Unacked(c, f.ack) \in Seq(Own(c))
    BY <1>5, <2>1, OutKinds, UnackedType
  <2>4. expected \in Nums
    BY LenProperties, WindowAssumption DEF PeerType, Nums
  <2>5. host'[c].unacked \in Seq(Own(c)) /\ \A d \in Clients : d # c => host'[d] = host[d]
    <3>1. \A d \in Clients : d # c => host'[d] = host[d]
      BY <1>14 DEF HostReceive, PeerType
    <3>2. CASE host' = [host EXCEPT ![c] = [NoHost EXCEPT !.st = "on"]]
      BY <3>1, <3>2, OwnFacts DEF PeerType, NoHost
    <3>3. CASE host' = [host EXCEPT ![c].unacked = Unacked(c, f.num)] /\ f.t = "ACK"
      BY <1>5, <2>2, <3>1, <3>3 DEF PeerType, HostStates
    <3>4. CASE host' = [host EXCEPT ![c].rej = FALSE, ![c].unacked = Unacked(c, f.ack)] /\ f.t = "DATA"
      BY <1>5, <2>3, <3>1, <3>4 DEF PeerType, HostStates
    <3>5. CASE host' = [host EXCEPT ![c].rej = TRUE] \/ host' = host
      <4>1. host'[c].unacked = host[c].unacked
        BY <3>5 DEF PeerType, HostStates
      <4> QED BY <1>5, <3>1, <4>1
    <3> QED BY <1>14, <3>2, <3>3, <3>4, <3>5 DEF HostReceive
  <2>6. in'[c] \in Seq(Own(c)) /\ \A d \in Clients : d # c => in'[d] = in[d]
    BY <1>5, <1>6, <1>7, <1>14, <2>4 DEF HostReceive
  <2> QED BY <1>2, <1>3, <1>4, <2>5, <2>6
<1>15. CASE HostHangup(c)
  BY <1>2, <1>3, <1>4, <1>5, <1>15, OwnFacts DEF HostHangup, PeerType
<1> QED
  BY <1>9, <1>10, <1>11, <1>12, <1>13, <1>14, <1>15 DEF HostStep

\* HandshakeInv is inductive relative to TypeInv.
LEMMA NextHandshake == TypeInv /\ HandshakeInv /\ [Next]_vars => HandshakeInv'
<1> SUFFICES ASSUME TypeInv, HandshakeInv, [Next]_vars PROVE HandshakeInv'
  OBVIOUS
<1> USE DEF HandshakeInv
<1>1. CASE UNCHANGED vars \/ NcpCallback \/ NcpCrash
  <2>1. UNCHANGED <<pc, ret, batch, cur, cli, ready, sent, in, out, host, got, ran, rstacked>>
    BY <1>1 DEF vars, loop, session, ncp, history, NcpCallback, NcpCrash
  <2> QED
    BY <2>1 DEF ReadyMeansReset, NothingToResend, RelayReady, OwnFrames, RstackFirst, RunsAfterRst
<1> QED
  BY <1>1, BridgeHandshake, HostHandshake DEF Next

\* DESIGN.md's first ordering rule for any number of clients, replacing each
\* other at any moment, any window and any NCP: a client is sent nothing before
\* its RSTACK, and the NCP runs no command of a client that has not reset it.
THEOREM Handshake == Spec => []ResetFirst
<1>1. TypeInv /\ HandshakeInv => ResetFirst
  BY DEF HandshakeInv, ResetFirst
<1> QED
  BY <1>1, InitType, NextType, InitHandshake, NextHandshake, PTL DEF Spec

-----------------------------------------------------------------------------
\* LayoutKnown needs no other invariant: the two fields change together.
LEMMA NextLayout == LayoutKnown /\ [Next]_vars => LayoutKnown'
<1> SUFFICES ASSUME LayoutKnown, [Next]_vars PROVE LayoutKnown'
  OBVIOUS
<1> USE DEF LayoutKnown, loop, session, ncp, history
<1>1. CASE PollWake \/ HandleRst \/ Respawn
  BY <1>1, ClientsAssumption
     DEF PollWake, HandleRst, Respawn, FreshNumbers, AcceptFlags, ResetFlags
<1>2. CASE Relay
  BY <1>2 DEF Relay, Sniffs
<1>3. CASE IoHangup \/ IoRead
  BY <1>3 DEF IoHangup, IoRead, bridge_drop_client
<1>4. CASE UNCHANGED <<cli, ver, negotiated>>
  BY <1>4
<1>5. ASSUME NEW c \in Clients, HostStep(c) PROVE UNCHANGED <<cli, ver, negotiated>>
  BY <1>5 DEF HostStep, Bridge, Connect, HostRst, HostSend, HostRetransmit, HostNak, HostIdleFrame,
      HostReceive, HostLose, HostHangup
<1>6. CASE BridgeStep
  BY <1>1, <1>2, <1>3, <1>4, <1>6
     DEF BridgeStep, IoNone, FeedEnd, HandleIgnored, HandleNak, ResendSlot, ResendEnd,
         HandleDataEarly, HandleData, RelayFails, DrainReturns, DrainPoll, DrainFails
<1> QED
  BY <1>4, <1>5, <1>6 DEF Next, NcpCallback, NcpCrash, vars

\* The layout a callback poll is built with is the one of the version the NCP
\* reported in this session, and version 4's before it reported any.
THEOREM Layout == Spec => []LayoutKnown
<1>1. Init => LayoutKnown
  BY DEF Init, LayoutKnown
<1> QED
  BY <1>1, NextLayout, PTL DEF Spec

-----------------------------------------------------------------------------
\* The cut of ezsp_relay is always caught by the length check of ash_send_data.
LEMMA FitsUncut ==
    ASSUME NEW b \in Bodies, Fits(Relayed(b))
    PROVE  Relayed(b).len = Relayed(b).full
BY FrameAssumption DEF Fits, Relayed, Bodies

\* Only ash_send_data extends the log, and only by a frame that fits.
LEMMA NextTruncation == TypeInv /\ NoTruncation /\ [Next]_vars => NoTruncation'
<1> SUFFICES ASSUME TypeInv, NoTruncation, [Next]_vars PROVE NoTruncation'
  OBVIOUS
<1> USE DEF NoTruncation
<1>1. CASE log' = log
  BY <1>1
<1>2. CASE log' = <<>>
  BY <1>2
<1>3. ASSUME NEW b \in Bodies, NEW next, ash_send_data(Relayed(b), next) PROVE NoTruncation'
  <2>1. CASE ~Fits(Relayed(b))
    BY <1>1, <1>3, <2>1 DEF ash_send_data
  <2>2. CASE Fits(Relayed(b))
    <3>1. log' = Append(log, Relayed(b)) /\ Relayed(b).len = Relayed(b).full
      BY <1>3, <2>2, FitsUncut DEF ash_send_data
    <3>2. log \in Seq(Bodies) /\ Relayed(b) \in Bodies
      BY RelayedType DEF TypeInv, TypeOK, HistoryType
    <3>3. /\ Len(log') = Len(log) + 1 /\ Len(log) \in Nat
          /\ \A i \in 1..Len(log) : log'[i] = log[i]
          /\ log'[Len(log) + 1] = Relayed(b)
      BY <3>1, <3>2, AppendProperties, LenProperties
    <3> QED BY <3>1, <3>3
  <2> QED BY <2>1, <2>2
<1>4. CASE Relay
  <2>1. cur \in Commands
    BY <1>4 DEF Relay, TypeInv, TypeOK, LoopType
  <2> QED BY <1>3, <1>4, <2>1, ReplyType DEF Relay, TypeInv
<1>5. CASE DrainPoll
  BY <1>3, <1>5, PolledType DEF DrainPoll, DrainStops, TypeInv
<1>6. ASSUME NEW c \in Clients, HostStep(c) PROVE log' = log
  BY <1>6 DEF HostStep, Bridge, history, Connect, HostRst, HostSend, HostRetransmit, HostNak,
      HostIdleFrame, HostReceive, HostLose, HostHangup
<1>7. CASE BridgeStep
  BY <1>1, <1>2, <1>4, <1>5, <1>7
     DEF BridgeStep, history, FreshNumbers, PollWake, IoHangup, IoRead, IoNone, FeedEnd, HandleRst,
         HandleIgnored, HandleNak, ResendSlot, ResendEnd, HandleDataEarly, HandleData, RelayFails,
         DrainReturns, DrainFails, Respawn
<1> QED
  BY <1>1, <1>6, <1>7 DEF Next, NcpCallback, NcpCrash, vars, history

\* A frame is relayed whole or not at all, for every buffer size.
THEOREM Untruncated == Spec => []NoTruncation
<1>1. Init => NoTruncation
  BY DEF Init, NoTruncation
<1> QED
  BY <1>1, InitType, NextType, NextTruncation, PTL DEF Spec

-----------------------------------------------------------------------------
(***************************************************************************)
(* What passes through the bridge in either direction.                     *)
(*                                                                         *)
(* Ours, Kept and OrderKept rest on StreamInv.  A 3-bit number stands for  *)
(* a position in the session's log, and the argument is about which one.   *)
(* Numbered says that sent[] holds the last Window frames, Bounded that    *)
(* fewer than Window of them are outstanding unless the window was         *)
(* overrun, and InFlight that no frame in the channel is so old that the   *)
(* client could take it for the one it expects: ash_retransmit stops short *)
(* of the slot that is reused next.                                        *)
(*                                                                         *)
(* RunOnce keeps an account (Ledger) of the DATA frames in the channels,   *)
(* in the read buffer, being relayed and run; only a client adds to it.    *)
(***************************************************************************)
\* Remainders of numbers written as quotient and rest.
LEMMA Remainder ==
    ASSUME NEW w \in Nat, w > 1, NEW q \in Int, NEW r \in 0..(w - 1)
    PROVE  (w * q + r) % w = r
OBVIOUS

\* Every number is written so.
LEMMA Division ==
    ASSUME NEW w \in Nat, w > 1, NEW a \in Nat
    PROVE  \E q \in Int : \E r \in 0..(w - 1) : a = w * q + r /\ a % w = r
<1>1. a % w = a - w * (a \div w)
  OBVIOUS
<1>2. a \div w \in Int /\ a % w \in 0..(w - 1)
  OBVIOUS
<1> DEFINE q == a \div w
           r == a % w
<1>3. q \in Int /\ r \in 0..(w - 1) /\ r = a - w * q
  BY <1>1, <1>2
<1> HIDE DEF q, r
<1>4. w * q \in Int
  BY <1>3
<1>5. a = w * q + r
  BY <1>3, <1>4
<1> QED
  BY <1>3, <1>5 DEF r

\* Counting in remainders is counting.
LEMMA NextRemainder ==
    ASSUME NEW w \in Nat, w > 1, NEW a \in Nat
    PROVE  ((a % w) + 1) % w = (a + 1) % w
<1>1. PICK q \in Int : \E r \in 0..(w - 1) : a = w * q + r /\ a % w = r
  BY Division
<1>2. PICK r \in 0..(w - 1) : a = w * q + r /\ a % w = r
  BY <1>1
<1>3. CASE r + 1 < w
  <2>1. r + 1 \in 0..(w - 1) /\ a + 1 = w * q + (r + 1)
    BY <1>2, <1>3
  <2>2. (a + 1) % w = r + 1
    BY <2>1, Remainder
  <2>3. w * 0 + (r + 1) = r + 1
    BY <1>2
  <2>4. (r + 1) % w = r + 1
    BY <2>1, <2>3, Remainder
  <2> QED
    BY <1>2, <2>2, <2>4
<1>4. CASE r + 1 = w
  <2>1. a + 1 = w * (q + 1) + 0 /\ q + 1 \in Int /\ 0 \in 0..(w - 1)
    BY <1>2, <1>4
  <2>2. (a + 1) % w = 0
    BY <2>1, Remainder
  <2>3. w = w * 1 + 0
    OBVIOUS
  <2>4. w % w = 0
    BY <2>1, <2>3, Remainder
  <2> QED
    BY <1>2, <1>4, <2>2, <2>4
<1> QED
  BY <1>3, <1>4

\* Numbers a whole window apart share their remainder.
LEMMA WholeWindow ==
    ASSUME NEW w \in Nat, w > 1, NEW a \in Nat
    PROVE  (a + w) % w = a % w
<1>1. PICK q \in Int : \E r \in 0..(w - 1) : a = w * q + r /\ a % w = r
  BY Division
<1>2. PICK r \in 0..(w - 1) : a = w * q + r /\ a % w = r
  BY <1>1
<1>3. a + w = w * (q + 1) + r /\ q + 1 \in Int
  BY <1>2
<1>4. (a + w) % w = r
  BY <1>3, Remainder
<1> QED BY <1>2, <1>4

\* The only multiple of w between -w and w is 0.
LEMMA NoMultiple ==
    ASSUME NEW w \in Nat, w > 1, NEW q \in Int, NEW p \in Int, NEW d \in Int,
           w * (q - p) = d, -w < d, d < w
    PROVE  d = 0
OBVIOUS

\* Two numbers less than a window apart are told apart by their remainders.
LEMMA SameRemainder ==
    ASSUME NEW w \in Nat, w > 1, NEW a \in Nat, NEW b \in Nat,
           a % w = b % w, a < b + w, b < a + w
    PROVE  a = b
<1>1. PICK p \in Int : \E r \in 0..(w - 1) : a = w * p + r /\ a % w = r
  BY Division
<1>2. PICK q \in Int : \E r \in 0..(w - 1) : b = w * q + r /\ b % w = r
  BY Division
<1>3. PICK r \in 0..(w - 1) : a = w * p + r /\ b = w * q + r
  BY <1>1, <1>2
<1>4. w * (q - p) = b - a
  BY <1>3
<1>5. b - a = 0
  BY <1>4, NoMultiple
<1> QED
  BY <1>5

-----------------------------------------------------------------------------
\* A frame is put at the end of a channel.
LEMMA OneMore ==
    ASSUME NEW S, NEW s \in Seq(S), NEW f \in S
    PROVE  /\ Len(s) \in Nat /\ Len(s \o <<f>>) = Len(s) + 1
           /\ \A i \in 1..Len(s) : (s \o <<f>>)[i] = s[i]
           /\ (s \o <<f>>)[Len(s) + 1] = f
           /\ s \o <<f>> \in Seq(S)
<1>1. <<f>> \in Seq(S) /\ Len(<<f>>) = 1 /\ <<f>>[1] = f
  OBVIOUS
<1> DEFINE g == <<f>>
<1>2. g \in Seq(S) /\ Len(g) = 1 /\ g[1] = f
  BY <1>1
<1> HIDE DEF g
<1>3. /\ Len(s) \in Nat /\ Len(s \o g) = Len(s) + 1
      /\ \A i \in 1..Len(s) : (s \o g)[i] = s[i]
      /\ (s \o g)[Len(s) + 1] = f
      /\ s \o g \in Seq(S)
  BY <1>2, ConcatProperties, LenProperties
<1> QED BY <1>3 DEF g

\* The frame at the front leaves the channel.
LEMMA OneLess ==
    ASSUME NEW S, NEW s \in Seq(S), s # <<>>
    PROVE  /\ Len(s) \in Nat /\ Len(s) > 0 /\ Len(Tail(s)) = Len(s) - 1
           /\ \A i \in 1..(Len(s) - 1) : Tail(s)[i] = s[i + 1]
           /\ Head(s) = s[1]
           /\ Tail(s) \in Seq(S)
BY HeadTailProperties, LenProperties, EmptySeq

-----------------------------------------------------------------------------
\* The DATA frames of s behind its last RSTACK.
Live(s) == {i \in 1..Len(s) : s[i].t = "DATA" /\ \A j \in (i + 1)..Len(s) : s[j].t # "RSTACK"}

\* idx tells which position of the log l every one of them carries.  No frame
\* sent earlier, and none of the m frames accepted, is a window ahead of it.
Placed(s, l, m, idx) ==
    /\ \A i \in Live(s) :
         /\ idx[i] \in 1..Len(l)
         /\ s[i].body = l[idx[i]] /\ s[i].num = (idx[i] - 1) % Window
    /\ \A i, j \in Live(s) : j < i => idx[j] + 1 < idx[i] + Window
    /\ \A i \in Live(s) : m + 1 < idx[i] + Window

Traced(s, l, m) == \E idx \in [1..Len(s) -> Nat] : Placed(s, l, m, idx)

\* Without a live frame there is nothing to place.
LEMMA TracedNone ==
    ASSUME NEW S, NEW s \in Seq(S), NEW l, NEW m, Live(s) = {}
    PROVE  Traced(s, l, m)
<1> DEFINE idx == [i \in 1..Len(s) |-> 0]
<1>1. idx \in [1..Len(s) -> Nat]
  OBVIOUS
<1>2. Placed(s, l, m, idx)
  BY DEF Placed
<1> QED BY <1>1, <1>2 DEF Traced

\* Nothing is live in an empty channel or in front of an RSTACK.
LEMMA LiveNone ==
    ASSUME NEW S, NEW s \in Seq(S), NEW f \in S, f.t = "RSTACK"
    PROVE  Live(<<>>) = {} /\ Live(s \o <<f>>) = {}
<1> DEFINE u == s \o <<f>>
<1>1. Len(s) \in Nat /\ Len(u) = Len(s) + 1 /\ u[Len(s) + 1] = f
  BY OneMore
<1> HIDE DEF u
<1>2. Live(u) = {}
  BY <1>1 DEF Live
<1> QED BY <1>2 DEF Live, u

\* What is live in a channel after a frame is put into it.
LEMMA LiveMore ==
    ASSUME NEW S, NEW s \in Seq(S), NEW f \in S
    PROVE  \A i \in Live(s \o <<f>>) :
             \/ i \in Live(s) /\ (s \o <<f>>)[i] = s[i]
             \/ i = Len(s) + 1 /\ f.t = "DATA"
<1> DEFINE u == s \o <<f>>
<1>1. /\ Len(s) \in Nat /\ Len(u) = Len(s) + 1
      /\ \A i \in 1..Len(s) : u[i] = s[i]
      /\ u[Len(s) + 1] = f
  BY OneMore
<1> HIDE DEF u
<1>2. \A i \in Live(u) : (i \in Live(s) /\ u[i] = s[i]) \/ (i = Len(s) + 1 /\ f.t = "DATA")
  BY <1>1 DEF Live
<1> QED BY <1>2 DEF u

\* What is live in a channel after a frame is taken from it.
LEMMA LiveLess ==
    ASSUME NEW S, NEW s \in Seq(S), s # <<>>
    PROVE  \A i \in Live(Tail(s)) : i \in Nat /\ i + 1 \in Live(s) /\ Tail(s)[i] = s[i + 1]
<1> DEFINE u == Tail(s)
<1>1. /\ Len(s) \in Nat /\ Len(s) > 0 /\ Len(u) = Len(s) - 1
      /\ \A i \in 1..(Len(s) - 1) : u[i] = s[i + 1]
  BY OneLess
<1> HIDE DEF u
<1> SUFFICES ASSUME NEW i \in Live(u)
             PROVE  i \in Nat /\ i + 1 \in Live(s) /\ u[i] = s[i + 1]
  BY DEF u
<1>2. i \in 1..(Len(s) - 1) /\ u[i].t = "DATA" /\ \A j \in (i + 1)..(Len(s) - 1) : u[j].t # "RSTACK"
  BY <1>1 DEF Live
<1>3. ASSUME NEW j \in (i + 2)..Len(s) PROVE s[j].t # "RSTACK"
  <2>1. j - 1 \in (i + 1)..(Len(s) - 1) /\ j - 1 \in 1..(Len(s) - 1) /\ (j - 1) + 1 = j
    BY <1>1, <1>2
  <2>2. u[j - 1] = s[j]
    BY <1>1, <2>1
  <2> QED BY <1>2, <2>1, <2>2
<1>4. i + 1 \in 1..Len(s) /\ (i + 1) + 1 = i + 2 /\ s[i + 1].t = "DATA"
  BY <1>1, <1>2
<1> QED BY <1>1, <1>2, <1>3, <1>4 DEF Live

\* An ACK in the channel changes nothing.
LEMMA TracedSkip ==
    ASSUME NEW S, NEW s \in Seq(S), NEW f \in S, f.t # "DATA", NEW l, NEW m, Traced(s, l, m)
    PROVE  Traced(s \o <<f>>, l, m)
<1> DEFINE u == s \o <<f>>
<1>1. PICK idx \in [1..Len(s) -> Nat] : Placed(s, l, m, idx)
  BY DEF Traced
<1>2. Len(s) \in Nat /\ Len(u) = Len(s) + 1
  BY OneMore
<1>3. \A i \in Live(u) : i \in Live(s) /\ u[i] = s[i]
  BY LiveMore
<1> HIDE DEF u
<1> DEFINE jdx == [i \in 1..Len(u) |-> IF i \in 1..Len(s) THEN idx[i] ELSE 0]
<1>4. jdx \in [1..Len(u) -> Nat] /\ \A i \in Live(s) : jdx[i] = idx[i]
  BY <1>2 DEF Live
<1> HIDE DEF jdx
<1>5. Placed(u, l, m, jdx)
  BY <1>1, <1>3, <1>4 DEF Placed
<1>6. Traced(u, l, m)
  BY <1>4, <1>5 DEF Traced
<1> QED BY <1>6 DEF u

\* A DATA frame is put into the channel, fresh or again, but never one the slot
\* of which is reused next: position k - 1 + Window is not the next one.
LEMMA TracedSend ==
    ASSUME NEW S, NEW s \in Seq(S), NEW f \in S, NEW l, Len(l) \in Nat, NEW m \in Nat,
           m <= Len(l), Traced(s, l, m),
           NEW k \in 1..Len(l), f.body = l[k], f.num = (k - 1) % Window,
           Len(l) + 1 < k + Window
    PROVE  Traced(s \o <<f>>, l, m)
<1> DEFINE u == s \o <<f>>
           n == Len(s) + 1
<1>1. PICK idx \in [1..Len(s) -> Nat] : Placed(s, l, m, idx)
  BY DEF Traced
<1>2. Len(s) \in Nat /\ Len(u) = n /\ u[n] = f
  BY OneMore
<1>3. \A i \in Live(u) : i = n \/ (i \in Live(s) /\ u[i] = s[i])
  BY LiveMore
<1>4. Live(s) \subseteq 1..Len(s)
  BY DEF Live
<1>5. n \notin 1..Len(s) /\ n \in Nat /\ \A i \in 1..Len(s) : i < n
  BY <1>2
<1> HIDE DEF u, n
<1> DEFINE jdx == [i \in 1..Len(u) |-> IF i \in 1..Len(s) THEN idx[i] ELSE k]
<1>6. jdx \in [1..Len(u) -> Nat]
  BY <1>2
<1>7. (\A i \in Live(s) : jdx[i] = idx[i]) /\ jdx[n] = k
  <2>1. 1..Len(s) \subseteq 1..Len(u) /\ n \in 1..Len(u)
    BY <1>2, <1>5 DEF n
  <2> QED BY <1>4, <1>5, <2>1
<1> HIDE DEF jdx
<1>8. \A i \in Live(s) : jdx[i] \in 1..Len(l) /\ jdx[i] \in Nat
  BY <1>1, <1>7 DEF Placed
<1>9. \A i \in Live(u) : /\ jdx[i] \in 1..Len(l)
                         /\ u[i].body = l[jdx[i]] /\ u[i].num = (jdx[i] - 1) % Window
  BY <1>1, <1>2, <1>3, <1>7 DEF Placed
<1>10. \A i \in Live(s) : jdx[i] + 1 < k + Window
  BY <1>8, WindowAssumption
<1>11. ASSUME NEW i \in Live(u), NEW j \in Live(u), j < i PROVE jdx[j] + 1 < jdx[i] + Window
  <2>1. CASE i = n
    <3>1. j \in Live(s)
      BY <1>3, <1>5, <1>11, <2>1
    <3> QED BY <1>7, <1>10, <2>1, <3>1
  <2>2. CASE i \in Live(s)
    <3>1. j \in Live(s)
      BY <1>3, <1>4, <1>5, <1>11, <2>2
    <3> QED BY <1>1, <1>7, <1>11, <2>2, <3>1 DEF Placed
  <2> QED BY <1>3, <2>1, <2>2
<1>12. m + 1 < k + Window
  BY WindowAssumption
<1>13. \A i \in Live(u) : m + 1 < jdx[i] + Window
  BY <1>1, <1>3, <1>7, <1>12 DEF Placed
<1>14. Traced(u, l, m)
  BY <1>6, <1>9, <1>11, <1>13 DEF Placed, Traced
<1> QED BY <1>14 DEF u

\* The log grows and the frames in flight keep their places.
LEMMA TracedLog ==
    ASSUME NEW s, NEW B, NEW l \in Seq(B), NEW b \in B, NEW m, Traced(s, l, m)
    PROVE  Traced(s, Append(l, b), m)
<1> DEFINE h == Append(l, b)
<1>1. PICK idx \in [1..Len(s) -> Nat] : Placed(s, l, m, idx)
  BY DEF Traced
<1>2. Len(l) \in Nat /\ Len(h) = Len(l) + 1 /\ \A i \in 1..Len(l) : h[i] = l[i]
  BY AppendProperties, LenProperties
<1> HIDE DEF h
<1>3. Placed(s, h, m, idx)
  BY <1>1, <1>2 DEF Placed
<1>4. Traced(s, h, m)
  BY <1>3 DEF Traced
<1> QED BY <1>4 DEF h

\* The client has accepted less than was assumed.
LEMMA TracedZero ==
    ASSUME NEW s, NEW l, Len(l) \in Nat, NEW m, Traced(s, l, m)
    PROVE  Traced(s, l, 0)
<1>1. PICK idx \in [1..Len(s) -> Nat] : Placed(s, l, m, idx)
  BY DEF Traced
<1>2. \A i \in Live(s) : 0 + 1 < idx[i] + Window
  BY <1>1, WindowAssumption DEF Placed
<1>3. Placed(s, l, 0, idx)
  BY <1>1, <1>2 DEF Placed
<1> QED BY <1>3 DEF Traced

\* A frame is taken from the channel: the others keep their places.
LEMMA TracedTail ==
    ASSUME NEW S, NEW s \in Seq(S), s # <<>>, NEW l, NEW m, Traced(s, l, m)
    PROVE  Traced(Tail(s), l, m)
<1> DEFINE u == Tail(s)
<1>1. PICK idx \in [1..Len(s) -> Nat] : Placed(s, l, m, idx)
  BY DEF Traced
<1>2. Len(s) \in Nat /\ Len(u) = Len(s) - 1
  BY OneLess
<1>3. \A i \in Live(u) : i \in Nat /\ i + 1 \in Live(s) /\ u[i] = s[i + 1]
  BY LiveLess
<1> HIDE DEF u
<1> DEFINE jdx == [i \in 1..Len(u) |-> idx[i + 1]]
<1>4. jdx \in [1..Len(u) -> Nat]
  BY <1>2
<1>5. \A i \in Live(u) : jdx[i] = idx[i + 1]
  BY DEF Live
<1> HIDE DEF jdx
<1>6. \A i \in Live(u) : /\ jdx[i] \in 1..Len(l)
                         /\ u[i].body = l[jdx[i]] /\ u[i].num = (jdx[i] - 1) % Window
                         /\ m + 1 < jdx[i] + Window
  BY <1>1, <1>3, <1>5 DEF Placed
<1>7. ASSUME NEW i \in Live(u), NEW j \in Live(u), j < i PROVE jdx[j] + 1 < jdx[i] + Window
  <2>1. j + 1 < i + 1
    BY <1>3, <1>7
  <2> QED BY <1>1, <1>3, <1>5, <2>1 DEF Placed
<1>8. Traced(u, l, m)
  BY <1>4, <1>6, <1>7 DEF Placed, Traced
<1> QED BY <1>8 DEF u

\* If it is the one the client expects, it carries the position the client is
\* waiting for, because both are less than a window apart.
LEMMA TracedAccept ==
    ASSUME NEW S, NEW s \in Seq(S), s # <<>>, NEW l, Len(l) \in Nat, NEW m \in Nat,
           Traced(s, l, m), 1 \in Live(s), s[1].num = m % Window, Len(l) < m + Window
    PROVE  /\ m + 1 \in 1..Len(l) /\ s[1].body = l[m + 1]
           /\ Traced(Tail(s), l, m + 1)
<1> DEFINE u == Tail(s)
<1>1. PICK idx \in [1..Len(s) -> Nat] : Placed(s, l, m, idx)
  BY DEF Traced
<1>2. Len(s) \in Nat /\ Len(u) = Len(s) - 1
  BY OneLess
<1>3. \A i \in Live(u) : i \in Nat /\ i + 1 \in Live(s) /\ u[i] = s[i + 1]
  BY LiveLess
<1> HIDE DEF u
<1>4. idx[1] = m + 1
  <2> DEFINE k == idx[1]
  <2>1. /\ k \in 1..Len(l) /\ (k - 1) % Window = m % Window /\ m + 1 < k + Window
    BY <1>1 DEF Placed
  <2> HIDE DEF k
  <2>2. k - 1 \in Nat /\ k - 1 < m + Window /\ m < (k - 1) + Window
    BY <2>1, WindowAssumption
  <2>3. k - 1 = m
    BY <2>1, <2>2, SameRemainder, WindowAssumption
  <2>4. k = m + 1
    BY <2>1, <2>3
  <2> QED BY <2>4 DEF k
<1>5. m + 1 \in 1..Len(l) /\ s[1].body = l[m + 1]
  BY <1>1, <1>4 DEF Placed
<1> DEFINE jdx == [i \in 1..Len(u) |-> idx[i + 1]]
<1>6. jdx \in [1..Len(u) -> Nat]
  BY <1>2
<1>7. \A i \in Live(u) : jdx[i] = idx[i + 1] /\ i >= 1
  BY DEF Live
<1> HIDE DEF jdx
<1>8. \A i \in Live(u) : /\ jdx[i] \in 1..Len(l)
                         /\ u[i].body = l[jdx[i]] /\ u[i].num = (jdx[i] - 1) % Window
  BY <1>1, <1>3, <1>7 DEF Placed
<1>9. ASSUME NEW i \in Live(u), NEW j \in Live(u), j < i PROVE jdx[j] + 1 < jdx[i] + Window
  <2>1. j + 1 < i + 1
    BY <1>3, <1>9
  <2> QED BY <1>1, <1>3, <1>7, <2>1 DEF Placed
<1>10. ASSUME NEW i \in Live(u) PROVE (m + 1) + 1 < jdx[i] + Window
  <2>1. i + 1 \in Live(s) /\ 1 < i + 1
    BY <1>3, <1>7
  <2>2. idx[1] + 1 < idx[i + 1] + Window
    BY <1>1, <2>1 DEF Placed
  <2> QED BY <1>4, <1>7, <2>2
<1>11. Traced(u, l, m + 1)
  BY <1>6, <1>8, <1>9, <1>10 DEF Placed, Traced
<1> QED BY <1>5, <1>11 DEF u

-----------------------------------------------------------------------------
\* No RSTACK is in s.
Settled(s) == \A i \in 1..Len(s) : s[i].t # "RSTACK"

\* Whether an RSTACK is in flight, after a frame is put into the channel.
LEMMA SettledMore ==
    ASSUME NEW S, NEW s \in Seq(S), NEW f \in S
    PROVE  Settled(s \o <<f>>) <=> Settled(s) /\ f.t # "RSTACK"
<1> DEFINE u == s \o <<f>>
<1>1. /\ Len(s) \in Nat /\ Len(u) = Len(s) + 1
      /\ \A i \in 1..Len(s) : u[i] = s[i]
      /\ u[Len(s) + 1] = f
  BY OneMore
<1> HIDE DEF u
<1>2. ASSUME Settled(u) PROVE Settled(s) /\ f.t # "RSTACK"
  <2>1. Len(s) + 1 \in 1..Len(u) /\ 1..Len(s) \subseteq 1..Len(u)
    BY <1>1
  <2> QED BY <1>1, <1>2, <2>1 DEF Settled
<1>3. ASSUME Settled(s), f.t # "RSTACK" PROVE Settled(u)
  BY <1>1, <1>3 DEF Settled
<1> QED BY <1>2, <1>3 DEF u

\* The same, after a frame is taken from it.
LEMMA SettledLess ==
    ASSUME NEW S, NEW s \in Seq(S), s # <<>>
    PROVE  Settled(s) <=> Settled(Tail(s)) /\ Head(s).t # "RSTACK"
<1> DEFINE u == Tail(s)
<1>1. /\ Len(s) \in Nat /\ Len(s) > 0 /\ Len(u) = Len(s) - 1
      /\ \A i \in 1..(Len(s) - 1) : u[i] = s[i + 1]
      /\ Head(s) = s[1]
  BY OneLess
<1> HIDE DEF u
<1>2. ASSUME Settled(s) PROVE Settled(u) /\ Head(s).t # "RSTACK"
  <2>1. 1 \in 1..Len(s) /\ \A i \in 1..Len(u) : i + 1 \in 1..Len(s) /\ u[i] = s[i + 1]
    BY <1>1
  <2> QED BY <1>1, <1>2, <2>1 DEF Settled
<1>3. ASSUME Settled(u), Head(s).t # "RSTACK", NEW i \in 1..Len(s) PROVE s[i].t # "RSTACK"
  <2>1. CASE i = 1
    BY <1>1, <1>3, <2>1
  <2>2. CASE i > 1
    <3>1. i - 1 \in 1..Len(u) /\ (i - 1) + 1 = i
      BY <1>1, <2>2
    <3>2. u[i - 1] = s[i]
      BY <1>1, <3>1
    <3> QED BY <1>3, <3>1, <3>2 DEF Settled
  <2> QED BY <2>1, <2>2
<1> QED BY <1>2, <1>3 DEF u, Settled

\* In a channel without RSTACK every DATA frame is live.
LEMMA SettledLive ==
    ASSUME NEW S, NEW s \in Seq(S), s # <<>>, Settled(s), Head(s).t = "DATA"
    PROVE  1 \in Live(s)
<1>1. Len(s) \in Nat /\ Len(s) > 0 /\ Head(s) = s[1]
  BY OneLess
<1> QED BY <1>1 DEF Live, Settled

-----------------------------------------------------------------------------
(***************************************************************************)
(* The invariant                                                           *)
(***************************************************************************)
\* Position k of the log is in the slot of its number.
KeptAt(k) ==
    /\ sent[(k - 1) % Window] # Empty
    /\ sent[(k - 1) % Window].num = (k - 1) % Window
    /\ sent[(k - 1) % Window].body = log[k]

\* sent[] holds the last Window frames of the session and nothing else.
Numbered ==
    /\ frm = Len(log) % Window
    /\ \A k \in 1..Len(log) : k + Window > Len(log) => KeptAt(k)
    /\ \A n \in Nums : sent[n] # Empty =>
         \E k \in 1..Len(log) : n = (k - 1) % Window /\ k + Window > Len(log)

\* Callbacks are no replies, and replies are to the connected client.
Queued == \A k \in 1..Len(cbq) : cbq[k].src # "reply"
OwnReplies ==
    cli # None => \A k \in 1..Len(log) : log[k].src = "reply" => log[k].by = cli

\* The descriptor is a connection that was accepted, and only those are answered.
Connected ==
    /\ cli # None => conn[cli] \in {"open", "gone"}
    /\ \A c \in Clients : conn[c] \in {"idle", "backlog", "backgone"} => c \notin rstacked

\* Fewer than Window frames are outstanding, unless that was noticed.
Bounded ==
    cli # None /\ ~overrun /\ (host[cli].st = "on" \/ ~Settled(out[cli]))
      => Len(log) < Accepted(cli) + Window

\* The frames a synchronised client has accepted.
Heard == IF Synced(cli) /\ ~overrun THEN Len(got[cli]) ELSE 0

InFlight == Listening => Traced(out[cli], log, Heard)

Stream == Numbered /\ OwnReplies /\ Connected /\ Bounded /\ InFlight /\ InOrder

StreamInv == Queued /\ Stream

(***************************************************************************)
(* What a step of the bridge can do to the stream                          *)
(***************************************************************************)
Unseen == UNCHANGED <<cli, conn, rstacked, frm, sent, log, overrun, out, got, host>>

\* bridge_drop_client, and the end of the process.
Drops ==
    /\ cli' = None
    /\ UNCHANGED <<frm, sent, log, overrun>> \/ FreshNumbers
    /\ \A c \in Clients : conn'[c] = conn[c] \/ conn'[c] = "closed"
    /\ UNCHANGED <<rstacked, out, got, host>>

Accepts(c) ==
    /\ cli' = c /\ conn'[c] \in {"open", "gone"} /\ FreshNumbers
    /\ \A d \in Clients : d # c => conn'[d] = conn[d] \/ conn'[d] = "closed"
    /\ UNCHANGED <<rstacked, out, got, host>>

Resets ==
    /\ cli \in Clients /\ rstacked' = rstacked \cup {cli}
    /\ FreshNumbers /\ \E next : ash_send(<<[t |-> "RSTACK"]>>, next)
    /\ UNCHANGED <<cli, conn, got, host>>

Resends ==
    /\ cli \in Clients /\ rn \in Nums /\ rn # frm /\ sent[rn] # Empty
    /\ \E next : ash_send(<<[sent[rn] EXCEPT !.retx = TRUE]>>, next)
    /\ UNCHANGED <<cli, conn, rstacked, frm, sent, log, overrun, got, host>>

Acks ==
    /\ cli \in Clients
    /\ \E n \in Nums : \E next : ash_send(<<[t |-> "ACK", num |-> n]>>, next)
    /\ UNCHANGED <<cli, conn, rstacked, frm, sent, log, overrun, got, host>>

Sends(b) ==
    /\ cli \in Clients /\ (b.src = "reply" => b.by = cli)
    /\ Fits(b) /\ \E next : ash_send_data(b, next)
    /\ UNCHANGED <<cli, conn, rstacked, got, host>>

\* The NCP takes no part in it; every other step is one of these.
LEMMA Kinds ==
    ASSUME TypeInv, HandshakeInv, Queued, Connected, BridgeStep
    PROVE  \/ Unseen \/ Drops \/ Resets \/ Resends \/ Acks
           \/ \E c \in Backlog : Accepts(c)
           \/ \E b \in Bodies : Sends(b)
<1> USE ClientsAssumption DEF TypeInv, TypeOK, loop, session, ncp, history
<1>1. CASE PollWake
  <2>1. CASE \E c \in Backlog :
            /\ cli' = c
            /\ conn' = [d \in Clients |->
                           CASE d = c   -> IF conn[c] = "backlog" THEN "open" ELSE "gone"
                             [] d = cli -> "closed"
                             [] OTHER   -> conn[d]]
            /\ FreshNumbers /\ AcceptFlags
    <3>1. PICK c \in Backlog :
            /\ cli' = c
            /\ conn' = [d \in Clients |->
                           CASE d = c   -> IF conn[c] = "backlog" THEN "open" ELSE "gone"
                             [] d = cli -> "closed"
                             [] OTHER   -> conn[d]]
            /\ FreshNumbers
      BY <2>1
    <3>2. c \in Clients /\ c # cli
      BY DEF Backlog, Connected
    <3>3. conn'[c] \in {"open", "gone"}
      BY <3>1, <3>2
    <3>4. \A d \in Clients : d # c => conn'[d] = conn[d] \/ conn'[d] = "closed"
      BY <3>1, <3>2
    <3>5. UNCHANGED <<rstacked, out, got, host>>
      BY <1>1 DEF PollWake
    <3>6. Accepts(c)
      BY <3>1, <3>3, <3>4, <3>5 DEF Accepts
    <3> QED BY <3>6
  <2>2. CASE UNCHANGED <<cli, conn, session, log, overrun>>
    BY <1>1, <2>2 DEF PollWake, Unseen
  <2> QED BY <1>1, <2>1, <2>2 DEF PollWake
<1>2. CASE IoHangup \/ IoRead
  <2>1. CASE bridge_drop_client /\ UNCHANGED <<rstacked, out, got, host, frm, sent, log, overrun>>
    BY <2>1 DEF Drops, bridge_drop_client, PeerType
  <2>2. CASE IoRead /\ UNCHANGED <<cli, conn>>
    BY <2>2 DEF IoRead, Unseen
  <2> QED BY <1>2, <2>1, <2>2 DEF IoHangup, IoRead
<1>3. CASE IoNone \/ FeedEnd \/ HandleIgnored \/ HandleNak \/ ResendEnd \/ HandleDataEarly
             \/ RelayFails \/ DrainReturns \/ DrainFails
  BY <1>3 DEF IoNone, FeedEnd, HandleIgnored, HandleNak, ResendEnd, HandleDataEarly, RelayFails,
      DrainReturns, DrainFails, Unseen
<1>4. CASE HandleRst
  BY <1>4 DEF HandleRst, NextIs, ClientInUse, SessionType, Resets
<1>5. CASE ResendSlot
  <2>1. cli \in Clients /\ rn \in Nums /\ rn # frm
    BY <1>5 DEF ResendSlot, ResendDone, ClientInUse, SessionType, LoopType
  <2>2. CASE sent[rn] = Empty
    BY <1>5, <2>2 DEF ResendSlot, Unseen
  <2>3. CASE sent[rn] # Empty
    BY <1>5, <2>1, <2>3 DEF ResendSlot, Resends
  <2> QED BY <2>2, <2>3
<1>6. CASE HandleData
  <2>1. cli \in Clients /\ Head(batch) \in DataIn
    BY <1>6, HeadTailProperties, FrameKinds DEF HandleData, NextIs, ClientInUse, SessionType, LoopType
  <2>2. NextNum(Head(batch).num) \in Nums
    BY <2>1, FrameKinds, NextNumType, ZeroNum
  <2> QED BY <1>6, <2>1, <2>2 DEF HandleData, Acks
<1>7. ASSUME NEW b \in Bodies, NEW next, ash_send_data(b, next), cli \in Clients,
             b.src = "reply" => b.by = cli, UNCHANGED <<cli, conn, rstacked, got, host>>
      PROVE  Unseen \/ Sends(b)
  BY <1>7 DEF ash_send_data, Unseen, Sends
<1>8. CASE Relay
  <2>1. cli \in Clients /\ cur \in Commands /\ cur.by = cli
    BY <1>8 DEF Relay, LoopType, SessionType, ClientInUse, HandshakeInv, RelayReady
  <2>2. PICK size \in Sizes : ash_send_data(Relayed(Reply(cur, size)), "drain")
    BY <1>8 DEF Relay
  <2>3. Relayed(Reply(cur, size)) \in Bodies /\ Relayed(Reply(cur, size)).by = cur.by
    <3>1. Reply(cur, size) \in Bodies
      BY <2>1, ReplyType
    <3>2. Reply(cur, size).by = cur.by
      BY DEF Reply
    <3> QED BY <3>1, <3>2, RelayedType DEF Relayed, Bodies
  <2> QED BY <1>7, <1>8, <2>1, <2>2, <2>3 DEF Relay
<1>9. CASE DrainPoll
  <2>1. cli \in Clients /\ cbq # <<>>
    BY <1>9 DEF DrainPoll, DrainStops, SessionType
  <2>2. Polled \in Bodies /\ Polled.src # "reply"
    <3>1. Head(cbq).src # "reply"
      BY <2>1, OneLess DEF Queued, PeerType
    <3> QED BY <2>1, <3>1, PolledType DEF Polled
  <2>3. Relayed(Polled) \in Bodies /\ Relayed(Polled).src # "reply"
    BY <2>2, RelayedType DEF Relayed, Bodies
  <2>4. ash_send_data(Relayed(Polled), "drain")
    BY <1>9 DEF DrainPoll
  <2> QED BY <1>7, <1>9, <2>1, <2>3, <2>4 DEF DrainPoll
<1>10. CASE Respawn
  BY <1>10 DEF Respawn, Drops
<1> QED
  BY <1>1, <1>2, <1>3, <1>4, <1>5, <1>6, <1>8, <1>9, <1>10 DEF BridgeStep

(***************************************************************************)
(* What a client can do to the stream of the connected one                 *)
(***************************************************************************)
HostQuiet == UNCHANGED <<out[cli], got[cli], host[cli].st, conn[cli]>>

HostWaits == host'[cli].st = "wait" /\ UNCHANGED <<out[cli], got[cli], conn[cli]>>

HostLeaves == conn'[cli] = "gone" /\ UNCHANGED <<out[cli], got[cli], host[cli].st>>

HostTakes ==
    /\ out[cli] # <<>> /\ out'[cli] = Tail(out[cli]) /\ conn[cli] = "open"
    /\ UNCHANGED conn[cli]
    /\ LET f == Head(out[cli])
       IN  \/ f.t = "RSTACK" /\ host'[cli].st = "on" /\ got'[cli] = <<>>
           \/ f.t # "RSTACK" /\ UNCHANGED <<got[cli], host[cli].st>>
           \/ /\ f.t = "DATA" /\ f.num = Len(got[cli]) % Window /\ host[cli].st = "on"
              /\ got'[cli] = Append(got[cli], f.body) /\ host'[cli].st = "on"

\* Every step of a client is one of these for the connected client.
LEMMA HostKinds ==
    ASSUME TypeInv, Connected, NEW c \in Clients, HostStep(c)
    PROVE  /\ UNCHANGED <<cli, rstacked, frm, sent, log, overrun, cbq>>
           /\ cli # None => HostQuiet \/ HostWaits \/ HostLeaves \/ HostTakes
           /\ \A d \in Clients : conn'[d] \in {"idle", "backlog", "backgone"} =>
                                   conn[d] \in {"idle", "backlog", "backgone"}
<1> USE ClientsAssumption DEF TypeInv, TypeOK, Bridge, loop, session, ncp, history
<1>1. UNCHANGED <<cli, rstacked, frm, sent, log, overrun, cbq>>
  BY DEF HostStep, Connect, HostRst, HostSend, HostRetransmit, HostNak, HostIdleFrame, HostReceive,
      HostLose, HostHangup
<1>2. \A d \in Clients : conn'[d] \in {"idle", "backlog", "backgone"} =>
                           conn[d] \in {"idle", "backlog", "backgone"}
  <2>1. CASE UNCHANGED conn
    BY <2>1
  <2>2. CASE Connect(c) \/ HostHangup(c)
    BY <2>2 DEF Connect, HostHangup, Usable, PeerType
  <2> QED
    BY <2>1, <2>2 DEF HostStep, HostRst, HostSend, HostRetransmit, HostNak, HostIdleFrame,
        HostReceive, HostLose
<1>3. ASSUME cli # None, c # cli PROVE HostQuiet
  <2>1. cli \in Clients
    BY <1>3 DEF SessionType
  <2>2. UNCHANGED <<out[cli], got[cli], conn[cli]>>
    BY <1>3, <2>1 DEF HostStep, Connect, HostRst, HostSend, HostRetransmit, HostNak, HostIdleFrame,
        HostReceive, HostLose, HostHangup, PeerType
  <2>3. UNCHANGED host[cli]
    <3>1. host \in [Clients -> HostStates] /\ cli' = cli
      BY <1>1 DEF PeerType
    <3>2. CASE HostReceive(c)
      BY <1>3, <2>1, <3>1, <3>2 DEF HostReceive
    <3>3. CASE HostSend(c) \/ HostRst(c)
      BY <1>3, <2>1, <3>1, <3>3 DEF HostSend, HostRst
    <3>4. CASE host' = host
      BY <3>1, <3>4
    <3> QED
      BY <3>2, <3>3, <3>4 DEF HostStep, Connect, HostRetransmit, HostNak, HostIdleFrame, HostLose,
          HostHangup
  <2> QED BY <2>2, <2>3 DEF HostQuiet
<1>4. ASSUME cli # None, c = cli PROVE HostQuiet \/ HostWaits \/ HostLeaves \/ HostTakes
  <2>1. cli \in Clients /\ host[cli] \in HostStates /\ conn[cli] \in {"open", "gone"}
    BY <1>4 DEF SessionType, PeerType, Connected
  <2>2. ~Connect(c)
    BY <1>4, <2>1 DEF Connect
  <2>3. CASE HostRst(c)
    BY <1>1, <1>4, <2>1, <2>3 DEF HostRst, HostWaits, PeerType, NoHost
  <2>4. CASE HostSend(c)
    BY <1>1, <1>4, <2>1, <2>4 DEF HostSend, HostQuiet, PeerType, HostStates
  <2>5. CASE HostRetransmit(c) \/ HostNak(c) \/ HostIdleFrame(c)
    BY <1>1, <1>4, <2>5 DEF HostRetransmit, HostNak, HostIdleFrame, HostQuiet
  <2>6. CASE HostHangup(c)
    BY <1>1, <1>4, <2>1, <2>6 DEF HostHangup, Usable, HostLeaves, PeerType
  <2>7. CASE HostLose(c)
    BY <1>1, <1>4, <2>1, <2>7 DEF HostLose, Usable, HostTakes, PeerType
  <2>8. CASE HostReceive(c)
    <3>1. /\ out[cli] # <<>> /\ out'[cli] = Tail(out[cli]) /\ conn[cli] = "open"
          /\ UNCHANGED conn[cli] /\ cli' = cli
      BY <1>1, <1>4, <2>1, <2>8 DEF HostReceive, Usable, PeerType
    <3> DEFINE f == Head(out[cli])
    <3>2. CASE f.t = "RSTACK" /\ host' = [host EXCEPT ![c] = [NoHost EXCEPT !.st = "on"]]
                 /\ got' = [got EXCEPT ![c] = <<>>]
      BY <1>4, <2>1, <3>1, <3>2 DEF HostTakes, PeerType, NoHost
    <3>3. CASE f.t = "ACK" /\ host' = [host EXCEPT ![c].unacked = Unacked(c, f.num)] /\ got' = got
      BY <1>4, <2>1, <3>1, <3>3 DEF HostTakes, PeerType, HostStates
    <3>4. CASE f.t # "RSTACK" /\ host' = host /\ got' = got
      BY <3>1, <3>4 DEF HostTakes
    <3>5. CASE /\ f.t = "DATA" /\ host[c].st = "on" /\ f.num = Len(got[c]) % Window
               /\ got' = [got EXCEPT ![c] = Append(@, f.body)]
               /\ host' = [host EXCEPT ![c].rej = FALSE, ![c].unacked = Unacked(c, f.ack)]
      BY <1>4, <2>1, <3>1, <3>5 DEF HostTakes, PeerType, HostStates
    <3>6. CASE f.t = "DATA" /\ host' = [host EXCEPT ![c].rej = TRUE] /\ got' = got
      BY <1>4, <2>1, <3>1, <3>6 DEF HostTakes, PeerType, HostStates
    <3> QED BY <1>4, <2>8, <3>2, <3>3, <3>4, <3>5, <3>6 DEF HostReceive
  <2> QED
    BY <2>2, <2>3, <2>4, <2>5, <2>6, <2>7, <2>8 DEF HostStep
<1> QED BY <1>1, <1>2, <1>3, <1>4

-----------------------------------------------------------------------------
\* The frame a slot holds is one of the last Window frames; one that is not
\* about to be replaced is one of the last Window - 1.
LEMMA SlotPosition ==
    ASSUME TypeInv, Numbered, NEW n \in Nums, sent[n] # Empty, n # frm
    PROVE  \E k \in 1..Len(log) :
             n = (k - 1) % Window /\ Len(log) + 1 < k + Window /\ KeptAt(k)
<1>1. PICK k \in 1..Len(log) : n = (k - 1) % Window /\ k + Window > Len(log)
  BY DEF Numbered
<1>2. KeptAt(k)
  BY <1>1 DEF Numbered
<1>3. Len(log) \in Nat
  BY LenProperties DEF TypeInv, TypeOK, HistoryType
<1>4. ASSUME k + Window = Len(log) + 1 PROVE FALSE
  <2>1. (k - 1) + Window = Len(log) /\ k - 1 \in Nat
    BY <1>3, <1>4, WindowAssumption
  <2>2. Len(log) % Window = (k - 1) % Window
    BY <2>1, WholeWindow, WindowAssumption
  <2> QED BY <1>1, <2>2 DEF Numbered
<1>5. Len(log) + 1 < k + Window
  BY <1>1, <1>3, <1>4, WindowAssumption
<1> QED BY <1>1, <1>2, <1>5

\* ash_send_data gives the next position the next number and its slot.
LEMMA SendsNumbered ==
    ASSUME TypeInv, Numbered, NEW b \in Bodies, Sends(b)
    PROVE  Numbered'
<1> DEFINE L == Len(log)
           W == Window
<1>1. /\ sent' = [sent EXCEPT ![frm] = DataFrame(b, ack)]
      /\ frm' = (frm + 1) % W /\ log' = Append(log, b)
  BY DEF Sends, ash_send_data, Slot, NextNum
<1>2. log \in Seq(Bodies) /\ frm \in Nums /\ sent \in [Nums -> DataOut \cup {Empty}]
  BY DEF TypeInv, TypeOK, HistoryType, SessionType
<1>3. /\ L \in Nat /\ Len(log') = L + 1
      /\ \A i \in 1..L : log'[i] = log[i]
      /\ log'[L + 1] = b
  BY <1>1, <1>2, AppendProperties, LenProperties
<1>4. frm = L % W /\ W \in Nat /\ W > 1
  BY WindowAssumption DEF Numbered
<1>5. frm' = Len(log') % W
  BY <1>1, <1>3, <1>4, NextRemainder
<1>6. \A k \in 1..L : (k - 1) % W \in Nums
  BY <1>3, <1>4 DEF Nums
<1>7. ASSUME NEW k \in 1..(L + 1), k + W > L + 1 PROVE KeptAt(k)'
  <2>1. CASE k = L + 1
    <3>1. (k - 1) % W = frm
      BY <1>3, <1>4, <2>1
    <3>2. sent'[frm] = DataFrame(b, ack)
      BY <1>1, <1>2
    <3>3. DataFrame(b, ack) # Empty /\ DataFrame(b, ack).num = frm /\ DataFrame(b, ack).body = b
      BY DEF DataFrame, Empty
    <3> QED BY <1>3, <2>1, <3>1, <3>2, <3>3 DEF KeptAt
  <2>2. CASE k \in 1..L
    <3>1. (k - 1) % W # frm
      <4>1. k - 1 \in Nat /\ k - 1 < L + W /\ L < (k - 1) + W /\ k - 1 # L
        BY <1>3, <1>4, <1>7, <2>2
      <4> QED BY <1>3, <1>4, <4>1, SameRemainder
    <3>2. sent'[(k - 1) % W] = sent[(k - 1) % W]
      BY <1>1, <1>2, <1>6, <2>2, <3>1
    <3>3. KeptAt(k)
      BY <1>3, <1>4, <1>7, <2>2 DEF Numbered
    <3> QED BY <1>3, <2>2, <3>2, <3>3 DEF KeptAt
  <2> QED BY <1>3, <2>1, <2>2
<1>8. ASSUME NEW n \in Nums, sent'[n] # Empty
      PROVE  \E k \in 1..(L + 1) : n = (k - 1) % W /\ k + W > L + 1
  <2>1. CASE n = frm
    <3>1. L + 1 \in 1..(L + 1) /\ n = ((L + 1) - 1) % W /\ (L + 1) + W > L + 1
      BY <1>3, <1>4, <2>1
    <3> QED BY <3>1
  <2>2. CASE n # frm
    <3>1. sent[n] # Empty
      BY <1>1, <1>2, <1>8, <2>2
    <3>2. PICK k \in 1..L : n = (k - 1) % W /\ L + 1 < k + W
      BY <2>2, <3>1, SlotPosition
    <3>3. k \in 1..(L + 1) /\ k + W > L + 1
      BY <1>3, <1>4, <3>2
    <3> QED BY <3>2, <3>3
  <2> QED BY <2>1, <2>2
<1>9. \A k \in 1..Len(log') : k + W > Len(log') => KeptAt(k)'
  BY <1>3, <1>7
<1>10. \A n \in Nums : sent'[n] # Empty =>
         \E k \in 1..Len(log') : n = (k - 1) % W /\ k + W > Len(log')
  BY <1>3, <1>8
<1> QED BY <1>5, <1>9, <1>10 DEF Numbered

\* An empty log has no number to remember.
LEMMA FreshNumbered == ASSUME FreshNumbers PROVE Numbered'
<1>1. frm' = 0 /\ log' = <<>> /\ sent' = [n \in Nums |-> Empty] /\ Len(log') = 0
  BY DEF FreshNumbers, NoSent
<1>2. 0 % Window = 0
  <2>1. 0 \in 0..(Window - 1) /\ Window * 0 + 0 = 0
    BY WindowAssumption
  <2> QED BY <2>1, Remainder, WindowAssumption
<1> QED BY <1>1, <1>2 DEF Numbered

-----------------------------------------------------------------------------
\* The definitions of the invariant in terms of Settled, before and after a step.
LEMMA Unfolded ==
    /\ Synced(cli) <=> host[cli].st = "on" /\ Settled(out[cli])
    /\ Accepted(cli) = IF Synced(cli) THEN Len(got[cli]) ELSE 0
    /\ Synced(cli)' <=> host'[cli'].st = "on" /\ Settled(out'[cli'])
    /\ Accepted(cli)' = IF Synced(cli)' THEN Len(got'[cli']) ELSE 0
BY DEF Synced, Settled, Accepted

\* Types of the connected client's part of the state, before and after a step.
LEMMA CliTypes ==
    ASSUME TypeInv, cli \in Clients
    PROVE  /\ out[cli] \in Seq(OutFrames) /\ got[cli] \in Seq(Bodies) /\ log \in Seq(Bodies)
           /\ Len(got[cli]) \in Nat /\ Len(log) \in Nat
           /\ Accepted(cli) \in Nat /\ Heard \in Nat
<1>1. out[cli] \in Seq(OutFrames) /\ got[cli] \in Seq(Bodies) /\ log \in Seq(Bodies)
  BY DEF TypeInv, TypeOK, PeerType, HistoryType
<1>2. Len(got[cli]) \in Nat /\ Len(log) \in Nat
  BY <1>1, LenProperties
<1> QED BY <1>1, <1>2 DEF Accepted, Heard

\* Nothing the stream depends on changes.
LEMMA UnseenStream ==
    ASSUME Stream, Unseen
    PROVE  Stream'
<1> USE DEF Stream, Unseen
<1>1. Numbered'
  BY DEF Numbered, KeptAt
<1>2. OwnReplies' /\ Connected'
  BY DEF OwnReplies, Connected
<1>3. Synced(cli)' <=> Synced(cli)
  BY DEF Synced
<1>4. Accepted(cli)' = Accepted(cli)
  BY <1>3, Unfolded
<1>5. Bounded'
  BY <1>4 DEF Bounded
<1>6. InFlight' /\ InOrder'
  BY <1>3 DEF InFlight, InOrder, Heard, Listening
<1> QED BY <1>1, <1>2, <1>5, <1>6

\* Without a client only the numbering matters.
LEMMA DropsStream ==
    ASSUME TypeInv, Stream, Drops
    PROVE  Stream'
<1>1. Numbered'
  <2>1. CASE UNCHANGED <<frm, sent, log, overrun>>
    BY <2>1 DEF Stream, Numbered, KeptAt
  <2> QED BY <2>1, FreshNumbered DEF Drops
<1>2. Connected'
  BY DEF Drops, Stream, Connected
<1>3. OwnReplies' /\ Bounded' /\ InFlight' /\ InOrder'
  BY DEF Drops, OwnReplies, Bounded, InFlight, InOrder, Listening
<1> QED BY <1>1, <1>2, <1>3 DEF Stream

\* A new client has been sent nothing and has accepted nothing.
LEMMA AcceptsStream ==
    ASSUME TypeInv, TypeInv', HandshakeInv, Stream, NEW c \in Backlog, Accepts(c)
    PROVE  Stream'
<1>1. c \in Clients /\ c \notin rstacked
  BY DEF Backlog, Stream, Connected
<1>2. out'[cli'] = <<>> /\ got'[cli'] = <<>> /\ cli' \in Clients
  BY <1>1 DEF Accepts, HandshakeInv, RstackFirst
<1>3. log' = <<>> /\ Len(log') = 0 /\ Len(got'[cli']) = 0
  BY <1>2 DEF Accepts, FreshNumbers
<1>4. Numbered' /\ OwnReplies'
  BY <1>3, FreshNumbered DEF Accepts, OwnReplies
<1>5. Connected'
  BY <1>1 DEF Accepts, Stream, Connected
<1>6. Accepted(cli)' = 0
  BY <1>3, Unfolded
<1>7. Bounded'
  BY <1>3, <1>6, WindowAssumption DEF Bounded
<1>8. Live(<<>>) = {}
  BY DEF Live
<1>9. InFlight'
  <2>1. <<>> \in Seq(OutFrames)
    BY EmptySeq
  <2>2. Traced(<<>>, log', Heard')
    BY <1>8, <2>1, TracedNone
  <2> QED BY <1>2, <2>2 DEF InFlight
<1>10. InOrder'
  BY <1>2, <1>3 DEF InOrder, Prefix
<1> QED BY <1>4, <1>5, <1>7, <1>9, <1>10 DEF Stream

\* The answer to an RST starts the stream over, for the client too.
LEMMA ResetsStream ==
    ASSUME TypeInv, TypeInv', Stream, Resets
    PROVE  Stream'
<1>1. cli \in Clients /\ cli' = cli /\ conn' = conn /\ log' = <<>> /\ Len(log') = 0
  BY DEF Resets, FreshNumbers
<1>2. Numbered' /\ OwnReplies'
  BY <1>1, FreshNumbered DEF Resets, OwnReplies
<1>3. Connected'
  BY <1>1, ClientsAssumption DEF Resets, Stream, Connected
<1>4. Accepted(cli)' \in Nat
  <2>1. Len(got'[cli']) \in Nat
    BY <1>1, LenProperties DEF TypeInv, TypeOK, PeerType
  <2> QED BY <2>1, Unfolded
<1>5. Bounded'
  BY <1>1, <1>4, WindowAssumption DEF Bounded
<1>6. ASSUME Listening'
      PROVE  Live(out'[cli']) = {} /\ ~Settled(out'[cli']) /\ out'[cli'] \in Seq(OutFrames)
  <2> DEFINE f == [t |-> "RSTACK"]
  <2>1. out[cli] \in Seq(OutFrames) /\ f \in OutFrames /\ f.t = "RSTACK"
    BY <1>1, CliTypes, OutKinds
  <2>2. out'[cli'] = out[cli] \o <<f>>
    BY <1>1, <1>6 DEF Resets, ash_send, Listening, TypeInv, TypeOK, PeerType
  <2> HIDE DEF f
  <2>3. Live(out[cli] \o <<f>>) = {} /\ ~Settled(out[cli] \o <<f>>)
    BY <2>1, LiveNone, SettledMore
  <2>4. out[cli] \o <<f>> \in Seq(OutFrames)
    BY <2>1, OneMore
  <2> QED BY <2>2, <2>3, <2>4
<1>7. InFlight'
  BY <1>6, TracedNone DEF InFlight
<1>8. InOrder'
  BY <1>6, Unfolded DEF InOrder
<1> QED BY <1>2, <1>3, <1>5, <1>7, <1>8 DEF Stream

\* Sending anything but an RSTACK leaves the client as synchronised as it was.
LEMMA SentFrame ==
    ASSUME TypeInv, cli \in Clients, cli' = cli, conn' = conn, got' = got, host' = host,
           NEW f \in OutFrames, f.t # "RSTACK", NEW next, ash_send(<<f>>, next)
    PROVE  /\ Settled(out'[cli]) <=> Settled(out[cli])
           /\ Synced(cli)' <=> Synced(cli)
           /\ Accepted(cli)' = Accepted(cli)
           /\ conn[cli] = "open" => out'[cli] = out[cli] \o <<f>>
<1>1. out[cli] \in Seq(OutFrames)
  BY CliTypes
<1>2. out'[cli] = IF conn[cli] = "open" THEN out[cli] \o <<f>> ELSE out[cli]
  BY DEF ash_send, TypeInv, TypeOK, PeerType
<1>3. Settled(out[cli] \o <<f>>) <=> Settled(out[cli])
  BY <1>1, SettledMore
<1>4. Settled(out'[cli]) <=> Settled(out[cli])
  BY <1>2, <1>3
<1>5. Synced(cli)' <=> Synced(cli)
  BY <1>4, Unfolded
<1>6. Accepted(cli)' = Accepted(cli)
  BY <1>5, Unfolded
<1> QED BY <1>2, <1>4, <1>5, <1>6

\* A client that accepts in order has accepted no more than was sent.
LEMMA HeardBound ==
    ASSUME TypeInv, Stream, Listening
    PROVE  Heard <= Len(log)
<1>1. Len(log) \in Nat
  BY LenProperties DEF TypeInv, TypeOK, HistoryType
<1> QED BY <1>1 DEF Heard, Stream, InOrder, Prefix

\* An acknowledgement carries no DATA.
LEMMA AcksStream ==
    ASSUME TypeInv, Stream, Acks
    PROVE  Stream'
<1>1. /\ cli \in Clients /\ cli' = cli
      /\ UNCHANGED <<conn, rstacked, frm, sent, log, overrun, got, host>>
  BY DEF Acks
<1>2. PICK n \in Nums : \E next : ash_send(<<[t |-> "ACK", num |-> n]>>, next)
  BY DEF Acks
<1> DEFINE f == [t |-> "ACK", num |-> n]
<1>3. f \in OutFrames /\ f.t = "ACK"
  BY OutKinds
<1>4. PICK next : ash_send(<<f>>, next)
  BY <1>2
<1> HIDE DEF f
<1>5. /\ Settled(out'[cli]) <=> Settled(out[cli])
      /\ Synced(cli)' <=> Synced(cli)
      /\ Accepted(cli)' = Accepted(cli)
      /\ conn[cli] = "open" => out'[cli] = out[cli] \o <<f>>
  BY <1>1, <1>3, <1>4, SentFrame
<1>6. Numbered' /\ OwnReplies' /\ Connected'
  BY <1>1 DEF Stream, Numbered, KeptAt, OwnReplies, Connected
<1>7. Bounded'
  BY <1>1, <1>5 DEF Stream, Bounded
<1>8. InOrder'
  BY <1>1, <1>5 DEF Stream, InOrder, Listening
<1>9. Heard' = Heard
  BY <1>1, <1>5 DEF Heard
<1>10. InFlight'
  <2> SUFFICES ASSUME Listening PROVE Traced(out'[cli], log, Heard)
    BY <1>1, <1>9 DEF InFlight, Listening
  <2>1. Traced(out[cli], log, Heard) /\ out[cli] \in Seq(OutFrames)
    BY <1>1, CliTypes DEF Stream, InFlight
  <2>2. Traced(out[cli] \o <<f>>, log, Heard)
    BY <1>3, <2>1, TracedSkip
  <2> QED BY <1>5, <2>2 DEF Listening
<1> QED BY <1>6, <1>7, <1>8, <1>10 DEF Stream

\* ash_retransmit stops at frm: the slot it never resends is the one whose frame
\* the client could take for the next one.
LEMMA ResendsStream ==
    ASSUME TypeInv, Stream, Resends
    PROVE  Stream'
<1>1. /\ cli \in Clients /\ cli' = cli
      /\ UNCHANGED <<conn, rstacked, frm, sent, log, overrun, got, host>>
      /\ rn \in Nums /\ rn # frm /\ sent[rn] # Empty
  BY DEF Resends
<1>2. PICK k \in 1..Len(log) :
        rn = (k - 1) % Window /\ Len(log) + 1 < k + Window /\ KeptAt(k)
  BY <1>1, SlotPosition DEF Stream
<1> DEFINE f == [sent[rn] EXCEPT !.retx = TRUE]
<1>3. f \in OutFrames /\ f.t = "DATA" /\ f.body = log[k] /\ f.num = (k - 1) % Window
  <2>1. sent[rn] \in DataOut
    BY <1>1 DEF TypeInv, TypeOK, SessionType
  <2>2. sent[rn].body = log[k] /\ sent[rn].num = (k - 1) % Window
    BY <1>2 DEF KeptAt
  <2>3. f \in DataOut /\ f.body = sent[rn].body /\ f.num = sent[rn].num
    BY <2>1 DEF DataOut
  <2> HIDE DEF f
  <2> QED BY <2>2, <2>3, OutKinds
<1>4. PICK next : ash_send(<<f>>, next)
  BY DEF Resends
<1> HIDE DEF f
<1>5. /\ Settled(out'[cli]) <=> Settled(out[cli])
      /\ Synced(cli)' <=> Synced(cli)
      /\ Accepted(cli)' = Accepted(cli)
      /\ conn[cli] = "open" => out'[cli] = out[cli] \o <<f>>
  BY <1>1, <1>3, <1>4, SentFrame
<1>6. Numbered' /\ OwnReplies' /\ Connected'
  BY <1>1 DEF Stream, Numbered, KeptAt, OwnReplies, Connected
<1>7. Bounded'
  BY <1>1, <1>5 DEF Stream, Bounded
<1>8. InOrder'
  BY <1>1, <1>5 DEF Stream, InOrder, Listening
<1>9. Heard' = Heard
  BY <1>1, <1>5 DEF Heard
<1>10. InFlight'
  <2> SUFFICES ASSUME Listening PROVE Traced(out'[cli], log, Heard)
    BY <1>1, <1>9 DEF InFlight, Listening
  <2>1. Traced(out[cli], log, Heard)
    BY DEF Stream, InFlight
  <2>2. out[cli] \in Seq(OutFrames) /\ Heard \in Nat /\ Len(log) \in Nat
    BY <1>1, CliTypes
  <2>3. Heard <= Len(log)
    BY HeardBound
  <2>4. Traced(out[cli] \o <<f>>, log, Heard)
    BY <1>2, <1>3, <2>1, <2>2, <2>3, TracedSend
  <2> QED BY <1>5, <2>4 DEF Listening
<1> QED BY <1>6, <1>7, <1>8, <1>10 DEF Stream

\* A fresh frame is the next position of the log.
LEMMA SendsStream ==
    ASSUME TypeInv, Stream, NEW b \in Bodies, Sends(b)
    PROVE  Stream'
<1> DEFINE L == Len(log)
           f == DataFrame(b, ack)
<1>1. /\ cli \in Clients /\ cli' = cli /\ (b.src = "reply" => b.by = cli)
      /\ UNCHANGED <<conn, rstacked, got, host>>
  BY DEF Sends
<1>2. PICK next :
        /\ log' = Append(log, b) /\ ash_send(<<f>>, next)
        /\ overrun' = (overrun \/ L + 1 - Accepted(cli) >= Window)
  BY DEF Sends, ash_send_data
<1>3. frm = L % Window /\ frm \in Nums /\ ack \in Nums
  BY DEF Stream, Numbered, TypeInv, TypeOK, SessionType
<1>4. f \in OutFrames /\ f.t = "DATA" /\ f.body = b /\ f.num = frm
  <2>1. f \in DataOut /\ f.t = "DATA" /\ f.body = b /\ f.num = frm
    BY <1>3 DEF DataFrame, DataOut
  <2> QED BY <2>1, OutKinds
<1> HIDE DEF f
<1>5. /\ out[cli] \in Seq(OutFrames) /\ log \in Seq(Bodies) /\ L \in Nat
      /\ Accepted(cli) \in Nat /\ Heard \in Nat
  BY <1>1, CliTypes
<1>6. /\ Len(log') = L + 1 /\ log'[L + 1] = b
      /\ \A i \in 1..L : log'[i] = log[i]
  BY <1>2, <1>5, AppendProperties
<1>7. /\ Settled(out'[cli]) <=> Settled(out[cli])
      /\ Synced(cli)' <=> Synced(cli)
      /\ Accepted(cli)' = Accepted(cli)
      /\ conn[cli] = "open" => out'[cli] = out[cli] \o <<f>>
  BY <1>1, <1>2, <1>4, SentFrame
<1>8. Numbered'
  BY SendsNumbered DEF Stream
<1>9. OwnReplies'
  <2>1. \A k \in 1..Len(log') : log'[k].src = "reply" => log'[k].by = cli
    BY <1>1, <1>5, <1>6, ClientsAssumption DEF Stream, OwnReplies
  <2> QED BY <1>1, <2>1 DEF OwnReplies
<1>10. Connected'
  BY <1>1 DEF Stream, Connected
<1>11. ~overrun' => ~overrun /\ L + 1 < Accepted(cli) + Window
  <2>1. ~overrun' => ~overrun /\ ~(L + 1 - Accepted(cli) >= Window)
    BY <1>2, Zenon
  <2>2. ~(L + 1 - Accepted(cli) >= Window) => L + 1 < Accepted(cli) + Window
    BY <1>5, WindowAssumption
  <2> QED BY <2>1, <2>2, Zenon
<1>12. Bounded'
  BY <1>1, <1>6, <1>7, <1>11 DEF Bounded
<1>13. InOrder'
  <2> SUFFICES ASSUME Listening, Synced(cli), ~overrun' PROVE Prefix(got[cli], log')
    BY <1>1, <1>7 DEF InOrder, Listening
  <2>1. Prefix(got[cli], log)
    BY <1>11 DEF Stream, InOrder
  <2>2. Len(got[cli]) \in Nat
    BY <1>1, CliTypes
  <2> QED BY <1>5, <1>6, <2>1, <2>2 DEF Prefix
<1>14. InFlight'
  <2> SUFFICES ASSUME Listening PROVE Traced(out'[cli], log', Heard')
    BY <1>1 DEF InFlight, Listening
  <2>1. Traced(out[cli], log', Heard)
    BY <1>2, <1>5, TracedLog DEF Stream, InFlight
  <2>2. Heard <= Len(log')
    BY <1>5, <1>6, HeardBound
  <2>3. /\ L + 1 \in 1..Len(log') /\ (L + 1) - 1 = L /\ Len(log') \in Nat
        /\ Len(log') + 1 < (L + 1) + Window
    BY <1>5, <1>6, WindowAssumption
  <2>4. f.body = log'[L + 1] /\ f.num = ((L + 1) - 1) % Window
    BY <1>3, <1>4, <1>6, <2>3
  <2> DEFINE h == log'
             m == Heard
             k == L + 1
  <2>5. /\ k \in 1..Len(h) /\ Len(h) \in Nat /\ Len(h) + 1 < k + Window /\ m \in Nat
        /\ m <= Len(h) /\ f.body = h[k] /\ f.num = (k - 1) % Window
        /\ Traced(out[cli], h, m) /\ out[cli] \in Seq(OutFrames)
    BY <1>5, <2>1, <2>2, <2>3, <2>4
  <2> HIDE DEF h, m, k
  <2>6. Traced(out[cli] \o <<f>>, h, m)
    BY <1>4, <2>5, TracedSend
  <2>7. Traced(out'[cli], h, m)
    BY <1>7, <2>6 DEF Listening
  <2>8. Traced(out'[cli], h, 0)
    BY <2>5, <2>7, TracedZero
  <2>9. Heard' \in {m, 0}
    BY <1>1, <1>7, <1>11 DEF Heard, m
  <2> QED BY <2>7, <2>8, <2>9 DEF h
<1> QED BY <1>8, <1>9, <1>10, <1>12, <1>13, <1>14 DEF Stream

\* What a client does.
LEMMA HostStream ==
    ASSUME TypeInv, Stream, NEW c \in Clients, HostStep(c)
    PROVE  Stream'
<1>1. /\ UNCHANGED <<cli, rstacked, frm, sent, log, overrun>>
      /\ cli # None => HostQuiet \/ HostWaits \/ HostLeaves \/ HostTakes
      /\ \A d \in Clients : conn'[d] \in {"idle", "backlog", "backgone"} =>
                              conn[d] \in {"idle", "backlog", "backgone"}
  BY HostKinds DEF Stream
<1>2. Numbered' /\ OwnReplies'
  BY <1>1 DEF Stream, Numbered, KeptAt, OwnReplies
<1>3. Connected'
  BY <1>1 DEF Stream, Connected, HostQuiet, HostWaits, HostLeaves, HostTakes
<1>4. CASE cli = None
  BY <1>1, <1>2, <1>3, <1>4 DEF Stream, Bounded, InFlight, InOrder, Listening
<1>5. CASE cli # None
  <2>1. cli \in Clients
    BY <1>5 DEF TypeInv, TypeOK, SessionType
  <2>2. /\ out[cli] \in Seq(OutFrames) /\ got[cli] \in Seq(Bodies) /\ log \in Seq(Bodies)
        /\ Len(got[cli]) \in Nat /\ Len(log) \in Nat
        /\ Accepted(cli) \in Nat /\ Heard \in Nat
    BY <2>1, CliTypes
  <2>3. CASE HostQuiet \/ HostLeaves
    <3>1. Synced(cli)' <=> Synced(cli)
      BY <1>1, <2>3, Unfolded DEF HostQuiet, HostLeaves
    <3>2. Accepted(cli)' = Accepted(cli)
      BY <1>1, <2>3, <3>1, Unfolded DEF HostQuiet, HostLeaves
    <3>3. Bounded'
      BY <1>1, <2>3, <3>2 DEF Stream, Bounded, HostQuiet, HostLeaves
    <3>4. InFlight' /\ InOrder'
      BY <1>1, <2>3, <3>1 DEF Stream, InFlight, InOrder, Heard, Listening, HostQuiet, HostLeaves
    <3> QED BY <1>2, <1>3, <3>3, <3>4 DEF Stream
  <2>4. CASE HostWaits
    <3>1. /\ host'[cli].st = "wait" /\ out'[cli] = out[cli] /\ got'[cli] = got[cli]
          /\ conn'[cli] = conn[cli] /\ cli' = cli /\ log' = log /\ overrun' = overrun
      BY <1>1, <2>4 DEF HostWaits
    <3>2. ~Synced(cli)'
      BY <3>1, Unfolded
    <3>3. Accepted(cli)' = 0
      BY <3>2, Unfolded
    <3>4. ~Settled(out[cli]) => Accepted(cli) = 0
      BY Unfolded
    <3>5. Bounded'
      BY <3>1, <3>3, <3>4 DEF Stream, Bounded
    <3>6. InOrder'
      BY <3>2 DEF InOrder
    <3>7. Heard' = 0
      BY <3>2 DEF Heard
    <3>8. InFlight'
      BY <2>2, <3>1, <3>7, TracedZero DEF Stream, InFlight, Listening
    <3> QED BY <1>2, <1>3, <3>5, <3>6, <3>8 DEF Stream
  <2>5. CASE HostTakes
    <3> DEFINE f == Head(out[cli])
               g == Len(got[cli])
    <3>1. /\ out[cli] # <<>> /\ out'[cli] = Tail(out[cli]) /\ conn[cli] = "open"
          /\ conn'[cli] = conn[cli] /\ cli' = cli /\ log' = log /\ overrun' = overrun
          /\ Listening
      BY <1>1, <1>5, <2>5 DEF HostTakes, Listening
    <3>2. Settled(out[cli]) <=> Settled(out'[cli]) /\ f.t # "RSTACK"
      BY <2>2, <3>1, SettledLess
    <3>3. Traced(out[cli], log, Heard)
      BY <3>1 DEF Stream, InFlight
    <3>4. Traced(out'[cli], log, Heard)
      BY <2>2, <3>1, <3>3, TracedTail
    <3>5. Traced(out'[cli], log, 0)
      BY <2>2, <3>4, TracedZero
    <3>6. CASE f.t = "RSTACK" /\ host'[cli].st = "on" /\ got'[cli] = <<>>
      <4>1. Len(got'[cli]) = 0 /\ Accepted(cli)' = 0 /\ Heard' = 0
        BY <3>1, <3>6, Unfolded DEF Heard
      <4>2. ~Settled(out[cli]) /\ Accepted(cli) = 0
        BY <3>2, <3>6, Unfolded
      <4>3. Bounded'
        BY <1>5, <3>1, <4>1, <4>2 DEF Stream, Bounded
      <4>4. InFlight'
        BY <3>1, <3>5, <4>1 DEF InFlight
      <4>5. InOrder'
        BY <2>2, <3>1, <3>6, <4>1 DEF InOrder, Prefix
      <4> QED BY <1>2, <1>3, <4>3, <4>4, <4>5 DEF Stream
    <3>7. CASE f.t # "RSTACK" /\ got'[cli] = got[cli] /\ host'[cli].st = host[cli].st
      <4>1. Synced(cli)' <=> Synced(cli)
        BY <3>1, <3>2, <3>7, Unfolded
      <4>2. Accepted(cli)' = Accepted(cli) /\ Heard' = Heard
        BY <3>1, <3>7, <4>1, Unfolded DEF Heard
      <4>3. Bounded'
        BY <3>1, <3>2, <3>7, <4>2 DEF Stream, Bounded
      <4>4. InFlight'
        BY <3>1, <3>4, <4>2 DEF InFlight
      <4>5. InOrder'
        BY <3>1, <3>7, <4>1 DEF Stream, InOrder, Listening
      <4> QED BY <1>2, <1>3, <4>3, <4>4, <4>5 DEF Stream
    <3>8. CASE /\ f.t = "DATA" /\ f.num = g % Window /\ host[cli].st = "on"
               /\ got'[cli] = Append(got[cli], f.body) /\ host'[cli].st = "on"
      <4>1. Synced(cli)' <=> Synced(cli)
        BY <3>1, <3>2, <3>8, Unfolded
      <4>2. f.body \in Bodies /\ f = out[cli][1]
        <5>1. f \in OutFrames /\ f = out[cli][1]
          BY <2>2, <3>1, HeadTailProperties, OneLess
        <5> QED BY <3>8, <5>1, OutKinds
      <4>3. /\ Len(got'[cli]) = g + 1 /\ got'[cli][g + 1] = f.body
            /\ \A i \in 1..g : got'[cli][i] = got[cli][i]
        BY <2>2, <3>8, <4>2, AppendProperties
      <4>4. Accepted(cli)' \in {Accepted(cli), Accepted(cli) + 1}
        BY <2>2, <3>1, <4>1, <4>3, Unfolded
      <4>5. Bounded'
        BY <2>2, <3>1, <3>2, <3>8, <4>4, WindowAssumption DEF Stream, Bounded
      <4>6. CASE Synced(cli) /\ ~overrun
        <5>1. Heard = g /\ Heard' = g + 1 /\ Accepted(cli) = g
          BY <3>1, <4>1, <4>3, <4>6, Unfolded DEF Heard
        <5>2. Len(log) < g + Window
          BY <1>5, <3>8, <4>6, <5>1 DEF Stream, Bounded
        <5>3. 1 \in Live(out[cli])
          BY <2>2, <3>1, <3>8, <4>6, SettledLive, Unfolded
        <5>4. out[cli][1].num = g % Window /\ Traced(out[cli], log, g)
          BY <3>3, <3>8, <4>2, <5>1
        <5> HIDE DEF f, g
        <5>5. g \in Nat
          BY <2>2 DEF g
        <5>6. /\ g + 1 \in 1..Len(log) /\ out[cli][1].body = log[g + 1]
              /\ Traced(Tail(out[cli]), log, g + 1)
          BY <2>2, <3>1, <5>2, <5>3, <5>4, <5>5, TracedAccept
        <5>7. InFlight'
          BY <3>1, <5>1, <5>6 DEF InFlight
        <5>8. Prefix(got[cli], log)
          BY <3>1, <4>6 DEF Stream, InOrder
        <5>9. Prefix(got'[cli], log)
          BY <2>2, <4>2, <4>3, <5>5, <5>6, <5>8 DEF Prefix, g
        <5>10. InOrder'
          BY <3>1, <5>9 DEF InOrder
        <5> QED BY <1>2, <1>3, <4>5, <5>7, <5>10 DEF Stream
      <4>7. CASE ~(Synced(cli) /\ ~overrun)
        <5>1. Heard' = 0 /\ InOrder'
          BY <3>1, <4>1, <4>7 DEF Heard, InOrder
        <5>2. InFlight'
          BY <3>1, <3>5, <5>1 DEF InFlight
        <5> QED BY <1>2, <1>3, <4>5, <5>1, <5>2 DEF Stream
      <4> QED BY <4>6, <4>7
    <3> QED BY <1>1, <2>5, <3>6, <3>7, <3>8 DEF HostTakes
  <2> QED BY <1>1, <1>5, <2>3, <2>4, <2>5
<1> QED BY <1>4, <1>5

-----------------------------------------------------------------------------
\* The NCP queues callbacks only, and a reset empties the queue.
LEMMA NextQueued ==
    ASSUME TypeInv, Queued, [Next]_vars
    PROVE  Queued'
<1> USE DEF loop, session, ncp, history, Bridge
<1>1. cbq \in Seq(Bodies)
  BY DEF TypeInv, TypeOK, PeerType
<1>2. CASE cbq' = cbq \/ cbq' = <<>>
  BY <1>2 DEF Queued
<1>3. CASE cbq # <<>> /\ cbq' = Tail(cbq)
  <2>1. /\ Len(cbq) \in Nat /\ Len(cbq') = Len(cbq) - 1
        /\ \A i \in 1..(Len(cbq) - 1) : cbq'[i] = cbq[i + 1]
    BY <1>1, <1>3, OneLess
  <2>2. \A i \in 1..(Len(cbq) - 1) : i + 1 \in 1..Len(cbq)
    BY <2>1
  <2> QED BY <2>1, <2>2 DEF Queued
<1>4. CASE NcpCallback
  <2> DEFINE B(size) == [src |-> "callback", by |-> None, n |-> used["callback"] + 1, ver |-> 0,
                         epoch |-> epoch, full |-> size, len |-> size]
  <2>1. PICK size \in Sizes : cbq' = Append(cbq, B(size))
    BY <1>4 DEF NcpCallback
  <2>2. B(size).src = "callback"
    OBVIOUS
  <2> HIDE DEF B
  <2>3. /\ Len(cbq) \in Nat /\ Len(cbq') = Len(cbq) + 1
        /\ \A i \in 1..Len(cbq) : cbq'[i] = cbq[i]
        /\ cbq'[Len(cbq) + 1] = B(size)
    <3>1. cbq \in Seq(Bodies \cup {B(size)})
      BY <1>1, ElementOfSeq, LenProperties
    <3> QED BY <2>1, <3>1, AppendProperties, LenProperties
  <2> QED BY <2>2, <2>3 DEF Queued
<1>5. CASE NcpCrash \/ HandleRst
  BY <1>2, <1>5 DEF NcpCrash, HandleRst, NcpReset
<1>6. CASE DrainPoll \/ DrainFails
  BY <1>2, <1>3, <1>6 DEF DrainPoll, DrainFails, DrainStops
<1>7. ASSUME NEW c \in Clients, HostStep(c) PROVE cbq' = cbq
  BY <1>7 DEF HostStep, Connect, HostRst, HostSend, HostRetransmit, HostNak, HostIdleFrame,
      HostReceive, HostLose, HostHangup
<1>8. CASE BridgeStep
  BY <1>2, <1>5, <1>6, <1>8
     DEF BridgeStep, PollWake, IoHangup, IoRead, IoNone, FeedEnd, HandleIgnored, HandleNak,
         ResendSlot, ResendEnd, HandleDataEarly, HandleData, Relay, RelayFails, DrainReturns, Respawn
<1> QED
  BY <1>2, <1>4, <1>5, <1>7, <1>8 DEF Next, vars

\* StreamInv is inductive relative to TypeInv and HandshakeInv.
LEMMA NextStream == TypeInv /\ HandshakeInv /\ StreamInv /\ [Next]_vars => StreamInv'
<1> SUFFICES ASSUME TypeInv, HandshakeInv, StreamInv, [Next]_vars PROVE StreamInv'
  OBVIOUS
<1>1. TypeInv' /\ Queued' /\ Stream /\ Queued /\ Connected
  BY NextType, NextQueued DEF StreamInv, Stream
<1>2. CASE BridgeStep
  <2>1. \/ Unseen \/ Drops \/ Resets \/ Resends \/ Acks
        \/ \E c \in Backlog : Accepts(c)
        \/ \E b \in Bodies : Sends(b)
    BY <1>1, <1>2, Kinds
  <2> QED
    BY <1>1, <2>1, UnseenStream, DropsStream, ResetsStream, ResendsStream, AcksStream,
       AcceptsStream, SendsStream DEF StreamInv
<1>3. CASE NcpCallback \/ NcpCrash \/ UNCHANGED vars
  <2>1. Unseen
    BY <1>3 DEF NcpCallback, NcpCrash, vars, loop, session, ncp, history, Unseen
  <2> QED BY <1>1, <2>1, UnseenStream DEF StreamInv
<1>4. ASSUME NEW c \in Clients, HostStep(c) PROVE StreamInv'
  BY <1>1, <1>4, HostStream DEF StreamInv
<1> QED BY <1>2, <1>3, <1>4 DEF Next

\* Nothing has been sent yet.
LEMMA InitStream == Init => StreamInv
<1> SUFFICES ASSUME Init PROVE StreamInv
  OBVIOUS
<1>1. log = <<>> /\ Len(log) = 0 /\ frm = 0 /\ sent = [n \in Nums |-> Empty] /\ cli = None
  BY DEF Init
<1>2. 0 % Window = 0
  <2>1. 0 \in 0..(Window - 1) /\ Window * 0 + 0 = 0
    BY WindowAssumption
  <2> QED BY <2>1, Remainder, WindowAssumption
<1>3. Numbered
  BY <1>1, <1>2 DEF Numbered
<1>4. Queued /\ OwnReplies /\ Connected
  BY <1>1 DEF Init, Queued, OwnReplies, Connected
<1>5. Bounded /\ InFlight /\ InOrder
  BY <1>1 DEF Bounded, InFlight, InOrder, Listening
<1> QED BY <1>3, <1>4, <1>5 DEF StreamInv, Stream

\* All that holds of the bridge, always.
LEMMA StreamAlways == Spec => [](TypeInv /\ StreamInv)
BY InitType, NextType, InitHandshake, NextHandshake, InitStream, NextStream, PTL DEF Spec

\* Every DATA frame in flight behind the last RSTACK has a position in the log of
\* this session and its number, fresh or resent, and a reply answers the client
\* it is sent to: ash_retransmit never sends what a former client was sent.
THEOREM Ours == Spec => []SessionOnly
<1>1. TypeInv /\ StreamInv => SessionOnly
  <2> SUFFICES ASSUME StreamInv, Listening, NEW i \in 1..Len(out[cli]),
                      out[cli][i].t = "DATA", CurrentSession(cli, i)
               PROVE  /\ \E k \in 1..Len(log) :
                           out[cli][i].body = log[k] /\ out[cli][i].num = (k - 1) % Window
                      /\ out[cli][i].body.src = "reply" => out[cli][i].body.by = cli
    BY DEF SessionOnly
  <2>1. PICK idx \in [1..Len(out[cli]) -> Nat] : Placed(out[cli], log, Heard, idx)
    BY DEF StreamInv, Stream, InFlight, Traced
  <2>2. i \in Live(out[cli])
    BY DEF Live, CurrentSession
  <2>3. /\ idx[i] \in 1..Len(log) /\ out[cli][i].body = log[idx[i]]
        /\ out[cli][i].num = (idx[i] - 1) % Window
    BY <2>1, <2>2 DEF Placed
  <2> QED BY <2>3 DEF StreamInv, Stream, OwnReplies, Listening
<1> QED
  BY <1>1, StreamAlways, PTL

\* Whatever the window, a frame the client has not accepted is still in sent[]
\* under its number, unless the bridge ran a window ahead of the client.
THEOREM Kept == Spec => []UnackedKept
<1>1. TypeInv /\ StreamInv => UnackedKept
  <2> SUFFICES ASSUME TypeInv, StreamInv, cli # None, Synced(cli), ~overrun,
                      NEW k \in (Len(got[cli]) + 1)..Len(log)
               PROVE  sent[(k - 1) % Window] # Empty /\ sent[(k - 1) % Window].body = log[k]
    BY DEF UnackedKept
  <2>1. cli \in Clients
    BY DEF TypeInv, TypeOK, SessionType
  <2>2. Len(got[cli]) \in Nat /\ Len(log) \in Nat
    BY <2>1, CliTypes
  <2>3. Len(log) < Len(got[cli]) + Window
    BY Unfolded DEF StreamInv, Stream, Bounded
  <2>4. k \in 1..Len(log) /\ k + Window > Len(log)
    BY <2>2, <2>3, WindowAssumption
  <2> QED BY <2>4 DEF StreamInv, Stream, Numbered, KeptAt
<1> QED
  BY <1>1, StreamAlways, PTL

\* A client accepts what the bridge sent, in order, without gap or repetition:
\* a 3-bit number never passes for another position, however many frames are
\* lost, resent or asked for by a NAK with an arbitrary number.
THEOREM OrderKept == Spec => []InOrder
<1>1. TypeInv /\ StreamInv => InOrder
  BY DEF StreamInv, Stream
<1> QED
  BY <1>1, StreamAlways, PTL

-----------------------------------------------------------------------------
(***************************************************************************)
(* The session of FrameStream                                              *)
(***************************************************************************)
SessionStep == [Session!Next]_(Session!stream)

LEMMA SessionSame ==
    ASSUME Owner' = Owner, Produced' = Produced, Delivered' = Delivered
    PROVE  SessionStep
BY DEF SessionStep, Session!stream

\* Nobody listens, or a number was reused too early.
LEMMA SessionEnds ==
    ASSUME ~Undisturbed'
    PROVE  SessionStep
<1>1. Owner' = None /\ Produced' = <<>> /\ Delivered' = <<>>
  BY DEF Owner, Produced, Delivered
<1> QED
  BY <1>1 DEF SessionStep, Session!Next, Session!End

LEMMA SessionBegins ==
    ASSUME NEW c \in Clients, cli' = c, log' = <<>>, Synced(cli)' => got'[cli'] = <<>>
    PROVE  SessionStep
<1>1. CASE ~Undisturbed'
  BY <1>1, SessionEnds
<1>2. CASE Undisturbed'
  <2>1. Owner' = c /\ Produced' = <<>> /\ Delivered' = <<>>
    BY <1>2 DEF Owner, Produced, Delivered
  <2> QED
    BY <2>1 DEF SessionStep, Session!Next, Session!Begin
<1> QED
  BY <1>1, <1>2

\* Frames in flight do not matter, only whether the client is synchronised.
LEMMA SessionKept ==
    ASSUME UNCHANGED <<cli, conn, log, overrun, got>>, Synced(cli)' <=> Synced(cli)
    PROVE  SessionStep
<1>1. Undisturbed' <=> Undisturbed
  BY DEF Undisturbed, Listening
<1>2. Owner' = Owner /\ Produced' = Produced /\ Delivered' = Delivered
  BY <1>1 DEF Owner, Produced, Delivered
<1> QED
  BY <1>2, SessionSame

\* A step of the bridge.
LEMMA SessionBridge ==
    ASSUME TypeInv, HandshakeInv, StreamInv, BridgeStep
    PROVE  SessionStep
<1>0. Stream /\ Queued /\ Connected
  BY DEF StreamInv, Stream
<1>1. \/ Unseen \/ Drops \/ Resets \/ Resends \/ Acks
      \/ \E c \in Backlog : Accepts(c)
      \/ \E b \in Bodies : Sends(b)
  BY <1>0, Kinds
<1>2. CASE Unseen
  <2>1. Synced(cli)' <=> Synced(cli)
    BY <1>2 DEF Unseen, Synced
  <2> QED
    BY <1>2, <2>1, SessionKept DEF Unseen
<1>3. CASE Drops
  <2>1. ~Undisturbed'
    BY <1>3 DEF Drops, Undisturbed, Listening
  <2> QED
    BY <2>1, SessionEnds
<1>4. ASSUME NEW c \in Backlog, Accepts(c) PROVE SessionStep
  <2>1. c \in Clients /\ c \notin rstacked
    BY <1>0 DEF Backlog, Connected
  <2>2. cli' = c /\ log' = <<>> /\ got'[c] = <<>>
    BY <1>4, <2>1 DEF Accepts, FreshNumbers, HandshakeInv, RstackFirst
  <2> QED
    BY <2>1, <2>2, SessionBegins
<1>5. CASE Resets
  <2>1. cli \in Clients /\ cli' = cli /\ log' = <<>> /\ UNCHANGED <<conn, got, host>>
    BY <1>5 DEF Resets, FreshNumbers
  <2>2. CASE conn[cli] = "open"
    <3>1. PICK f \in OutFrames : f = [t |-> "RSTACK"] /\ f.t = "RSTACK"
      <4>1. [t |-> "RSTACK"] \in OutFrames
        BY DEF OutFrames
      <4>2. [t |-> "RSTACK"].t = "RSTACK"
        OBVIOUS
      <4> QED
        BY <4>1, <4>2
    <3>2. PICK next : ash_send(<<f>>, next)
      BY <1>5, <3>1 DEF Resets
    <3>3. out \in [Clients -> Seq(OutFrames)]
      BY DEF TypeInv, TypeOK, PeerType
    <3>4. out'[cli] = out[cli] \o <<f>>
      BY <2>1, <2>2, <3>2, <3>3 DEF ash_send
    <3>5. ~Settled(out'[cli])
      BY <2>1, <3>1, <3>3, <3>4, SettledMore
    <3>6. ~Synced(cli)'
      BY <2>1, <3>5, Unfolded
    <3> QED
      BY <2>1, <3>6, SessionBegins
  <2>3. CASE conn[cli] # "open"
    BY <2>1, <2>3, SessionEnds DEF Undisturbed, Listening
  <2> QED
    BY <2>2, <2>3
<1>6. CASE Resends
  <2>1. cli \in Clients /\ sent[rn] \in DataOut /\ UNCHANGED <<cli, conn, log, overrun, got, host>>
    BY <1>6 DEF Resends, TypeInv, TypeOK, SessionType
  <2>2. PICK f : f = [sent[rn] EXCEPT !.retx = TRUE]
    OBVIOUS
  <2>3. f \in OutFrames /\ f.t # "RSTACK"
    <3>1. f \in DataOut
      BY <2>1, <2>2 DEF DataOut
    <3> QED
      BY <3>1, OutKinds
  <2>4. PICK next : ash_send(<<f>>, next)
    BY <1>6, <2>2 DEF Resends
  <2>5. Synced(cli)' <=> Synced(cli)
    BY <2>1, <2>3, <2>4, SentFrame
  <2> QED
    BY <2>1, <2>5, SessionKept
<1>7. CASE Acks
  <2>1. cli \in Clients /\ UNCHANGED <<cli, conn, log, overrun, got, host>>
    BY <1>7 DEF Acks
  <2>2. PICK f \in OutFrames : f.t # "RSTACK" /\ \E next : ash_send(<<f>>, next)
    <3>1. PICK n \in Nums : \E next : ash_send(<<[t |-> "ACK", num |-> n]>>, next)
      BY <1>7 DEF Acks
    <3>2. [t |-> "ACK", num |-> n] \in OutFrames
      BY DEF OutFrames
    <3>3. [t |-> "ACK", num |-> n].t # "RSTACK"
      OBVIOUS
    <3> QED
      BY <3>1, <3>2, <3>3
  <2>3. PICK next : ash_send(<<f>>, next)
    BY <2>2
  <2>4. Synced(cli)' <=> Synced(cli)
    BY <2>1, <2>2, <2>3, SentFrame
  <2> QED
    BY <2>1, <2>4, SessionKept
<1>8. ASSUME NEW b \in Bodies, Sends(b) PROVE SessionStep
  <2>1. /\ cli \in Clients /\ (b.src = "reply" => b.by = cli)
        /\ UNCHANGED <<cli, conn, got, host>>
    BY <1>8 DEF Sends
  <2>2. PICK next : /\ log' = Append(log, b) /\ (overrun => overrun')
                    /\ ash_send(<<DataFrame(b, ack)>>, next)
    BY <1>8 DEF Sends, ash_send_data
  <2>3. DataFrame(b, ack) \in OutFrames /\ DataFrame(b, ack).t # "RSTACK"
    <3>1. DataFrame(b, ack) \in DataOut
      BY DEF TypeInv, TypeOK, SessionType, DataFrame, DataOut
    <3> QED
      BY <3>1, OutKinds
  <2>4. Synced(cli)' <=> Synced(cli)
    BY <2>1, <2>2, <2>3, SentFrame
  <2>5. CASE Undisturbed'
    <3>1. Undisturbed /\ cli # None
      BY <2>1, <2>2, <2>5, ClientsAssumption DEF Undisturbed, Listening
    <3>2. /\ Owner = cli /\ Owner' = Owner /\ Delivered' = Delivered
          /\ Produced' = Append(Produced, b)
      BY <2>1, <2>2, <2>4, <2>5, <3>1 DEF Owner, Produced, Delivered
    <3>3. Session!Produce(b)
      BY <2>1, <3>1, <3>2 DEF Session!Produce
    <3> QED
      BY <3>3 DEF SessionStep, Session!Next
  <2> QED
    BY <2>5, SessionEnds
<1> QED
  BY <1>1, <1>2, <1>3, <1>4, <1>5, <1>6, <1>7, <1>8

\* A step of a client.
LEMMA SessionHost ==
    ASSUME TypeInv, StreamInv, StreamInv', NEW c \in Clients, HostStep(c)
    PROVE  SessionStep
<1>1. /\ UNCHANGED <<cli, log, overrun>>
      /\ cli # None => HostQuiet \/ HostWaits \/ HostLeaves \/ HostTakes
  BY HostKinds DEF StreamInv, Stream
<1>2. CASE ~Undisturbed'
  BY <1>2, SessionEnds
<1>3. CASE Undisturbed'
  <2>1. cli \in Clients /\ cli # None /\ conn'[cli] = "open" /\ ~overrun
    BY <1>1, <1>3 DEF Undisturbed, Listening, TypeInv, TypeOK, SessionType
  <2>2. Undisturbed /\ ~HostLeaves
    BY <1>1, <2>1 DEF Undisturbed, Listening, HostQuiet, HostWaits, HostTakes, HostLeaves
  <2>3. out[cli] \in Seq(OutFrames) /\ got[cli] \in Seq(Bodies) /\ Len(got[cli]) \in Nat
    BY <2>1, CliTypes
  <2>4. Owner' = Owner /\ Produced' = Produced /\ Owner = cli /\ Produced = log
    BY <1>1, <1>3, <2>2 DEF Owner, Produced
  <2>5. CASE HostQuiet
    <3>1. Synced(cli)' <=> Synced(cli)
      BY <1>1, <2>5, Unfolded DEF HostQuiet
    <3>2. Delivered' = Delivered
      BY <1>1, <1>3, <2>2, <2>5, <3>1 DEF Delivered, HostQuiet
    <3> QED
      BY <2>4, <3>2, SessionSame
  <2>6. CASE HostWaits
    <3>1. ~Synced(cli)'
      BY <1>1, <2>6, Unfolded DEF HostWaits
    <3>2. Delivered' = <<>>
      BY <3>1 DEF Delivered
    <3> QED
      BY <2>4, <3>2 DEF SessionStep, Session!Next, Session!Forget
  <2>7. CASE HostTakes
    <3>1. out[cli] # <<>> /\ out'[cli] = Tail(out[cli])
      BY <2>7 DEF HostTakes
    <3>2. PICK f : f = Head(out[cli])
      OBVIOUS
    <3>3. Settled(out[cli]) <=> Settled(out'[cli]) /\ f.t # "RSTACK"
      BY <2>3, <3>1, <3>2, SettledLess
    <3>4. CASE f.t = "RSTACK" /\ host'[cli].st = "on" /\ got'[cli] = <<>>
      <4>1. ~Synced(cli)
        BY <3>3, <3>4, Unfolded
      <4>2. Delivered = <<>> /\ Delivered' = <<>>
        BY <1>1, <3>4, <4>1 DEF Delivered
      <4> QED
        BY <2>4, <4>2, SessionSame
    <3>5. CASE f.t # "RSTACK" /\ UNCHANGED <<got[cli], host[cli].st>>
      <4>1. Synced(cli)' <=> Synced(cli)
        BY <1>1, <3>3, <3>5, Unfolded
      <4>2. Delivered' = Delivered
        BY <1>1, <1>3, <2>2, <3>5, <4>1 DEF Delivered
      <4> QED
        BY <2>4, <4>2, SessionSame
    <3>6. CASE /\ f.t = "DATA" /\ host[cli].st = "on"
               /\ got'[cli] = Append(got[cli], f.body) /\ host'[cli].st = "on"
      <4>1. Synced(cli)' <=> Synced(cli)
        BY <1>1, <3>3, <3>6, Unfolded
      <4>2. CASE ~Synced(cli)
        <5>1. Delivered' = Delivered
          BY <1>1, <4>1, <4>2 DEF Delivered
        <5> QED
          BY <2>4, <5>1, SessionSame
      <4>3. CASE Synced(cli)
        <5>1. Delivered = got[cli] /\ Delivered' = got'[cli]
          BY <1>1, <1>3, <2>2, <4>1, <4>3 DEF Delivered
        <5>2. Prefix(got'[cli], log)
          BY <1>1, <1>3, <4>1, <4>3 DEF StreamInv, Stream, InOrder, Undisturbed
        <5>3. PICK n \in Nat : n = Len(got[cli])
          BY <2>3
        <5>4. Len(got'[cli]) = n + 1 /\ got'[cli][n + 1] = f.body /\ n + 1 \in 1..Len(got'[cli])
          BY <2>3, <3>6, <5>3
        <5>5. n + 1 <= Len(log) /\ f.body = log[n + 1]
          BY <5>2, <5>4 DEF Prefix
        <5>6. n < Len(log)
          BY <5>5, <1>1 DEF TypeInv, TypeOK, HistoryType
        <5>7. Session!Deliver
          BY <2>1, <2>4, <3>6, <5>1, <5>3, <5>5, <5>6 DEF Session!Deliver
        <5> QED
          BY <5>7 DEF SessionStep, Session!Next
      <4> QED
        BY <4>2, <4>3
    <3> QED
      BY <2>7, <3>2, <3>4, <3>5, <3>6 DEF HostTakes
  <2> QED
    BY <1>1, <2>1, <2>2, <2>5, <2>6, <2>7
<1> QED
  BY <1>2, <1>3

\* The bridge implements FrameStream: behind connections that replace each
\* other, lost, repeated and resent frames, NAKs and resets, each client sees a
\* session of its own that starts empty, grows frame by frame and is delivered
\* in order, until it goes or is overrun.
THEOREM ServesStream == Spec => Session!Spec
<1>1. Init => Session!Init
  BY DEF Init, Session!Init, Owner, Produced, Delivered, Undisturbed, Listening
<1>2. ASSUME TypeInv, HandshakeInv, StreamInv, StreamInv', [Next]_vars
      PROVE  [Session!Next]_(Session!stream)
  <2>1. CASE BridgeStep
    BY <1>2, <2>1, SessionBridge DEF SessionStep
  <2>2. CASE NcpCallback \/ NcpCrash \/ UNCHANGED vars
    <3>1. Unseen
      BY <2>2 DEF NcpCallback, NcpCrash, vars, loop, session, ncp, history, Unseen
    <3>2. Synced(cli)' <=> Synced(cli)
      BY <3>1 DEF Unseen, Synced
    <3> QED
      BY <3>1, <3>2, SessionKept DEF Unseen, SessionStep
  <2>3. ASSUME NEW c \in Clients, HostStep(c) PROVE [Session!Next]_(Session!stream)
    BY <1>2, <2>3, SessionHost DEF SessionStep
  <2> QED
    BY <1>2, <2>1, <2>2, <2>3 DEF Next
<1>3. Spec => [](TypeInv /\ HandshakeInv /\ StreamInv)
  BY InitType, NextType, InitHandshake, NextHandshake, InitStream, NextStream, PTL DEF Spec
<1> QED
  BY <1>1, <1>2, <1>3, PTL DEF Spec, Session!Spec

-----------------------------------------------------------------------------
(***************************************************************************)
(* The other direction: how often a command is run                         *)
(***************************************************************************)
\* The DATA frames waiting in the channels q of all clients.
Waiting(q) == UNION {{c} \X Datas(q[c]) : c \in Clients}

\* A waiting frame is a client and a place in its channel.
LEMMA WaitingIs ==
    ASSUME NEW q
    PROVE  /\ \A c \in Clients : \A i \in Datas(q[c]) : <<c, i>> \in Waiting(q)
           /\ \A p \in Waiting(q) : p[1] \in Clients /\ p[2] \in Datas(q[p[1]]) /\ p = <<p[1], p[2]>>
BY DEF Waiting

\* A set that can be told apart inside a finite one has no more elements.
LEMMA NoMore ==
    ASSUME NEW S, NEW T, IsFiniteSet(T), NEW F \in [S -> T],
           \A a, b \in S : F[a] = F[b] => a = b
    PROVE  IsFiniteSet(S) /\ Cardinality(S) \in Nat /\ Cardinality(S) <= Cardinality(T)
<1>1. F \in Injection(S, T)
  BY DEF Injection, IsInjective
<1> QED BY <1>1, FS_Injection, FS_CardinalityType

\* The frames of a sequence can be counted.
LEMMA DatasFinite ==
    ASSUME NEW S, NEW s \in Seq(S)
    PROVE  IsFiniteSet(Datas(s)) /\ Cardinality(Datas(s)) \in Nat
<1>1. Datas(s) \in SUBSET (1..Len(s)) /\ Len(s) \in Int
  BY LenProperties DEF Datas
<1>2. IsFiniteSet(1..Len(s))
  BY <1>1, FS_Interval
<1> QED BY <1>1, <1>2, FS_Subset, FS_CardinalityType

\* bridge_handle_frame takes one frame off what was read.
LEMMA DatasTail ==
    ASSUME NEW S, NEW s \in Seq(S), s # <<>>
    PROVE  /\ Cardinality(Datas(Tail(s))) <= Cardinality(Datas(s))
           /\ Head(s).t = "DATA" => Cardinality(Datas(Tail(s))) + 1 <= Cardinality(Datas(s))
<1> DEFINE u == Tail(s)
           X == Datas(s) \ {1}
<1>1. /\ Len(s) \in Nat /\ Len(s) > 0 /\ Len(u) = Len(s) - 1
      /\ \A i \in 1..(Len(s) - 1) : u[i] = s[i + 1]
      /\ Head(s) = s[1]
  BY OneLess
<1>2. IsFiniteSet(Datas(s)) /\ Cardinality(Datas(s)) \in Nat
  BY DatasFinite
<1>3. /\ IsFiniteSet(X)
      /\ Cardinality(X) = IF 1 \in Datas(s) THEN Cardinality(Datas(s)) - 1
                                            ELSE Cardinality(Datas(s))
  BY <1>2, FS_RemoveElement
<1> HIDE DEF u
<1> DEFINE F == [i \in Datas(u) |-> i + 1]
<1>4. F \in [Datas(u) -> X]
  BY <1>1 DEF Datas
<1>5. \A a, b \in Datas(u) : F[a] = F[b] => a = b
  BY DEF Datas
<1> HIDE DEF F, X
<1>6. Cardinality(Datas(u)) \in Nat /\ Cardinality(Datas(u)) <= Cardinality(X)
  BY <1>3, <1>4, <1>5, NoMore
<1>7. Head(s).t = "DATA" => 1 \in Datas(s)
  BY <1>1 DEF Datas
<1>8. /\ Cardinality(Datas(u)) <= Cardinality(Datas(s))
      /\ Head(s).t = "DATA" => Cardinality(Datas(u)) + 1 <= Cardinality(Datas(s))
  BY <1>2, <1>3, <1>6, <1>7
<1> QED BY <1>8 DEF u

\* A client puts one frame into its channel.
LEMMA WaitingMore ==
    ASSUME NEW q \in [Clients -> Seq(InFrames)], IsFiniteSet(Waiting(q)),
           NEW c \in Clients, NEW f \in InFrames
    PROVE  /\ IsFiniteSet(Waiting([q EXCEPT ![c] = Append(@, f)]))
           /\ Cardinality(Waiting([q EXCEPT ![c] = Append(@, f)])) <= Cardinality(Waiting(q)) + 1
           /\ f.t # "DATA" =>
                Cardinality(Waiting([q EXCEPT ![c] = Append(@, f)])) <= Cardinality(Waiting(q))
<1> DEFINE s == q[c]
           u == Append(s, f)
           r == [q EXCEPT ![c] = u]
           x == <<c, Len(s) + 1>>
           W == Waiting(q)
<1>1. s \in Seq(InFrames)
  OBVIOUS
<1>2. /\ Len(s) \in Nat /\ Len(u) = Len(s) + 1 /\ u[Len(s) + 1] = f
      /\ \A i \in 1..Len(s) : u[i] = s[i]
  BY <1>1, AppendProperties, LenProperties
<1>3. r[c] = u /\ \A d \in Clients : d # c => r[d] = q[d]
  OBVIOUS
<1> HIDE DEF u, r
<1>4. \A i \in Datas(u) : i \in Datas(s) \/ (i = Len(s) + 1 /\ f.t = "DATA")
  BY <1>2 DEF Datas
<1>5. ASSUME NEW p \in Waiting(r) PROVE p \in W \/ (p = x /\ f.t = "DATA")
  <2>1. p[1] \in Clients /\ p[2] \in Datas(r[p[1]]) /\ p = <<p[1], p[2]>>
    BY WaitingIs
  <2>2. CASE p[1] # c
    BY <1>3, <2>1, <2>2, WaitingIs
  <2>3. CASE p[1] = c
    BY <1>3, <1>4, <2>1, <2>3, WaitingIs
  <2> QED BY <2>2, <2>3
<1> HIDE DEF x, W
<1>6. IsFiniteSet(W) /\ Cardinality(W) \in Nat
  BY FS_CardinalityType DEF W
<1>7. IsFiniteSet(W \cup {x}) /\ Cardinality(W \cup {x}) <= Cardinality(W) + 1
  <2>1. /\ IsFiniteSet(W \cup {x})
        /\ Cardinality(W \cup {x}) = IF x \in W THEN Cardinality(W) ELSE Cardinality(W) + 1
    BY <1>6, FS_AddElement, Zenon
  <2> QED BY <1>6, <2>1
<1>8. Waiting(r) \in SUBSET (W \cup {x}) /\ (f.t # "DATA" => Waiting(r) \in SUBSET W)
  BY <1>5
<1>9. IsFiniteSet(Waiting(r)) /\ Cardinality(Waiting(r)) <= Cardinality(W \cup {x})
  BY <1>7, <1>8, FS_Subset
<1>10. Cardinality(Waiting(r)) \in Nat /\ Cardinality(W \cup {x}) \in Nat
  BY <1>7, <1>9, FS_CardinalityType
<1>11. Cardinality(Waiting(r)) <= Cardinality(W) + 1
  BY <1>6, <1>7, <1>9, <1>10
<1>12. f.t # "DATA" => Cardinality(Waiting(r)) <= Cardinality(W)
  BY <1>6, <1>8, FS_Subset
<1> QED BY <1>9, <1>11, <1>12 DEF r, u, W

\* A TCP reset loses what a client sent last.
LEMMA WaitingCut ==
    ASSUME NEW q \in [Clients -> Seq(InFrames)], IsFiniteSet(Waiting(q)), NEW c \in Clients
    PROVE  /\ IsFiniteSet(Waiting([q EXCEPT ![c] = <<>>]))
           /\ Cardinality(Waiting([q EXCEPT ![c] = <<>>])) <= Cardinality(Waiting(q))
<1> DEFINE r == [q EXCEPT ![c] = <<>>]
<1>1. r[c] = <<>> /\ \A d \in Clients : d # c => r[d] = q[d]
  OBVIOUS
<1>2. Datas(<<>>) = {}
  BY DEF Datas
<1> HIDE DEF r
<1>3. ASSUME NEW p \in Waiting(r) PROVE p \in Waiting(q)
  <2>1. p[1] \in Clients /\ p[2] \in Datas(r[p[1]]) /\ p = <<p[1], p[2]>>
    BY WaitingIs
  <2>2. p[1] # c
    BY <1>1, <1>2, <2>1
  <2> QED BY <1>1, <2>1, <2>2, WaitingIs
<1>4. Waiting(r) \in SUBSET Waiting(q)
  BY <1>3
<1>5. IsFiniteSet(Waiting(r)) /\ Cardinality(Waiting(r)) <= Cardinality(Waiting(q))
  BY <1>4, FS_Subset
<1> QED BY <1>5 DEF r

\* read() moves frames from a channel to the buffer and duplicates none.
LEMMA WaitingRead ==
    ASSUME NEW q \in [Clients -> Seq(InFrames)], IsFiniteSet(Waiting(q)), NEW c \in Clients,
           NEW n \in 1..Len(q[c]), NEW b, b = SubSeq(q[c], 1, n),
           NEW r, r = [q EXCEPT ![c] = SubSeq(@, n + 1, Len(@))]
    PROVE  /\ IsFiniteSet(Waiting(r))
           /\ Cardinality(Datas(b)) + Cardinality(Waiting(r)) <= Cardinality(Waiting(q))
<1> DEFINE s == q[c]
           u == r[c]
           W == Waiting(q)
           A == {p \in W : p[1] = c /\ p[2] <= n}
           B == W \ A
<1>1. s \in Seq(InFrames) /\ Len(s) \in Nat /\ n \in 1..Len(s)
  BY LenProperties
<1>2. b = SubSeq(s, 1, n) /\ u = SubSeq(s, n + 1, Len(s)) /\ \A d \in Clients : d # c => r[d] = q[d]
  OBVIOUS
<1>3. \A i \in 1..Len(s) : s[i] \in InFrames
  BY <1>1, ElementOfSeq
<1> HIDE DEF s, u
<1>4. Len(b) = n /\ \A i \in 1..n : b[i] = s[i]
  BY <1>1, <1>2, <1>3, SubSeqProperties
<1>5. Len(u) = Len(s) - n /\ \A i \in 1..(Len(s) - n) : u[i] = s[i + n]
  <2>1. Len(u) = Len(s) - n
    BY <1>1, <1>2, <1>3, SubSeqProperties
  <2>2. \A i \in 1..(Len(s) - n) : u[i] = s[(n + 1) + i - 1]
    BY <1>1, <1>2, <1>3, SubSeqProperties
  <2>3. \A i \in 1..(Len(s) - n) : (n + 1) + i - 1 = i + n
    BY <1>1
  <2> QED BY <2>1, <2>2, <2>3
<1>6. \A i \in Datas(b) : i \in Datas(s) /\ i <= n /\ i \in Nat
  BY <1>1, <1>4 DEF Datas
<1>7. \A i \in Datas(u) : i + n \in Datas(s) /\ i \in Nat /\ ~(i + n <= n)
  BY <1>1, <1>5 DEF Datas
<1>8. IsFiniteSet(W) /\ A \in SUBSET W /\ B \in SUBSET W /\ A \cup B = W /\ A \cap B = {}
  OBVIOUS
<1>9. IsFiniteSet(A) /\ IsFiniteSet(B)
  BY <1>8, FS_Subset
<1>10. Cardinality(A) + Cardinality(B) = Cardinality(W)
  <2>1. Cardinality(A \cup B) = Cardinality(A) + Cardinality(B) - Cardinality(A \cap B)
    BY <1>9, FS_Union
  <2>2. Cardinality(A \cap B) = 0 /\ Cardinality(A) \in Nat /\ Cardinality(B) \in Nat
    BY <1>8, <1>9, FS_EmptySet, FS_CardinalityType
  <2>3. A \cup B = W
    BY <1>8
  <2> HIDE DEF A, B, W
  <2>4. Cardinality(W) = Cardinality(A) + Cardinality(B) - Cardinality(A \cap B)
    BY <2>1, <2>3, Zenon
  <2> DEFINE x == Cardinality(A)
             y == Cardinality(B)
             z == Cardinality(A \cap B)
  <2>5. x \in Nat /\ y \in Nat /\ z = 0
    BY <2>2, Zenon
  <2>6. x + y - z = x + y
    <3> HIDE DEF x, y, z
    <3> QED BY <2>5
  <2> QED BY <2>4, <2>6, Zenon
<1>11. Cardinality(Datas(b)) \in Nat /\ Cardinality(Datas(b)) <= Cardinality(A)
  <2> DEFINE F == [i \in Datas(b) |-> <<c, i>>]
  <2>1. \A i \in Datas(b) : <<c, i>> \in W /\ <<c, i>>[1] = c /\ <<c, i>>[2] = i
    BY <1>6, WaitingIs DEF s
  <2>2. F \in [Datas(b) -> A]
    BY <1>6, <2>1
  <2>3. \A x, y \in Datas(b) : F[x] = F[y] => x = y
    OBVIOUS
  <2> HIDE DEF F, A
  <2> QED BY <1>9, <2>2, <2>3, NoMore
<1>12. IsFiniteSet(Waiting(r)) /\ Cardinality(Waiting(r)) \in Nat /\ Cardinality(Waiting(r)) <= Cardinality(B)
  <2> DEFINE F == [p \in Waiting(r) |-> IF p[1] = c THEN <<c, p[2] + n>> ELSE p]
  <2>1. ASSUME NEW p \in Waiting(r) PROVE F[p] \in B
    <3>1. p[1] \in Clients /\ p[2] \in Datas(r[p[1]]) /\ p = <<p[1], p[2]>>
      BY WaitingIs
    <3>2. CASE p[1] = c
      <4>1. p[2] + n \in Datas(s) /\ ~(p[2] + n <= n) /\ F[p] = <<c, p[2] + n>>
        BY <1>7, <3>1, <3>2 DEF u
      <4>2. <<c, p[2] + n>> \in W /\ <<c, p[2] + n>>[2] = p[2] + n
        BY <4>1, WaitingIs DEF s
      <4> QED BY <4>1, <4>2
    <3>3. CASE p[1] # c
      <4>1. F[p] = p /\ p \in W
        BY <1>2, <3>1, <3>3, WaitingIs
      <4> QED BY <3>3, <4>1
    <3> QED BY <3>2, <3>3
  <2>2. ASSUME NEW x \in Waiting(r), NEW y \in Waiting(r), F[x] = F[y] PROVE x = y
    <3>1. /\ x[2] \in Datas(r[x[1]]) /\ x = <<x[1], x[2]>>
          /\ y[2] \in Datas(r[y[1]]) /\ y = <<y[1], y[2]>>
      BY WaitingIs
    <3>2. F[x][1] = x[1] /\ F[y][1] = y[1]
      OBVIOUS
    <3>3. CASE x[1] = c
      <4>1. y[1] = c /\ F[x] = <<c, x[2] + n>> /\ F[y] = <<c, y[2] + n>>
        BY <2>2, <3>2, <3>3
      <4>2. x[2] + n = y[2] + n
        <5>1. F[x][2] = x[2] + n /\ F[y][2] = y[2] + n
          BY <4>1
        <5> QED BY <2>2, <5>1
      <4>3. x[2] \in Nat /\ y[2] \in Nat
        BY <1>7, <3>1, <3>3, <4>1 DEF u
      <4>4. x[2] = y[2]
        BY <1>1, <4>2, <4>3
      <4> QED BY <3>1, <3>3, <4>1, <4>4
    <3>4. CASE x[1] # c
      BY <2>2, <3>2, <3>4
    <3> QED BY <3>3, <3>4
  <2>3. F \in [Waiting(r) -> B]
    BY <2>1
  <2> HIDE DEF F, B
  <2> QED BY <1>9, <2>2, <2>3, NoMore
<1>13. Cardinality(A) \in Nat /\ Cardinality(B) \in Nat
  BY <1>9, FS_CardinalityType
<1> HIDE DEF A, B, W
<1>14. Cardinality(Datas(b)) + Cardinality(Waiting(r)) <= Cardinality(W)
  BY <1>10, <1>11, <1>12, <1>13
<1> QED BY <1>12, <1>14 DEF W

\* Both sides of the account RunsWhatWasSent keeps.
NRead  == Cardinality(Datas(batch))
NWait  == Cardinality(Waiting(in))
NRelay == IF pc = "relay" THEN 1 ELSE 0
NSent  == used["cmd"] + used["retx"]

Ledger == IsFiniteSet(Waiting(in)) /\ Len(ran) + NRead + NWait + NRelay <= NSent

\* The account says what RunsWhatWasSent says.
LEMMA LedgerIs == Ledger => RunsWhatWasSent
BY DEF Ledger, RunsWhatWasSent, NRead, NWait, NRelay, NSent, Waiting

\* Its entries are numbers.
LEMMA LedgerType ==
    ASSUME TypeInv, IsFiniteSet(Waiting(in))
    PROVE  /\ Len(ran) \in Nat /\ NRead \in Nat /\ NWait \in Nat
           /\ NRelay \in {0, 1} /\ NSent \in Nat
<1>1. Len(ran) \in Nat
  BY LenProperties DEF TypeInv, TypeOK, HistoryType
<1>2. NRead \in Nat
  BY DatasFinite DEF NRead, TypeInv, TypeOK, LoopType
<1>3. NWait \in Nat
  BY FS_CardinalityType DEF NWait
<1>4. NSent \in Nat
  BY DEF NSent, TypeInv, TypeOK, PeerType, Budgets
<1> QED BY <1>1, <1>2, <1>3, <1>4 DEF NRelay

\* Frames that move from the channel to the buffer leave the sum as it is.
LEMMA Moved ==
    ASSUME NEW a \in Nat, NEW b \in Nat, NEW c \in Nat, NEW x \in Nat, NEW y \in Nat,
           NEW s \in Nat, a + b + c + 0 <= s
    PROVE  x + y <= c => a + x + y + 0 <= s
OBVIOUS

\* Only sending a command or repeating one adds to what may be run.
LEMMA SpendOther ==
    ASSUME TypeInv, used' = used \/ \E k \in Budgets \ {"cmd", "retx"} : Spend(k)
    PROVE  NSent' = NSent
BY DEF NSent, Spend, TypeInv, TypeOK, PeerType, Budgets

\* A command that is sent or repeated counts once.
LEMMA SpendCommand ==
    ASSUME TypeInv, Spend("cmd") \/ Spend("retx")
    PROVE  NSent' = NSent + 1
<1>1. /\ used \in [Budgets -> Nat] /\ "cmd" \in Budgets /\ "retx" \in Budgets
  BY DEF TypeInv, TypeOK, PeerType, Budgets
<1>2. CASE Spend("cmd")
  <2>1. used'["cmd"] = used["cmd"] + 1 /\ used'["retx"] = used["retx"]
    BY <1>1, <1>2 DEF Spend
  <2> QED BY <1>1, <2>1 DEF NSent
<1>3. CASE Spend("retx")
  <2>1. used'["retx"] = used["retx"] + 1 /\ used'["cmd"] = used["cmd"]
    BY <1>1, <1>3 DEF Spend
  <2> QED BY <1>1, <2>1 DEF NSent
<1> QED BY <1>2, <1>3

\* Steps that leave the account alone, or at most forget a frame.
LEMMA LedgerKept ==
    ASSUME TypeInv, TypeInv', Ledger, ran' = ran, NSent' = NSent, in' = in,
           batch' = batch \/ batch' = <<>>, pc' = "relay" => pc = "relay"
    PROVE  Ledger'
<1>1. IsFiniteSet(Waiting(in))' /\ NWait' = NWait
  BY DEF Ledger, NWait
<1>2. NRead' = NRead \/ NRead' = 0
  <2>1. Datas(<<>>) = {}
    BY DEF Datas
  <2> QED BY <2>1, FS_EmptySet DEF NRead
<1>3. NRelay' <= NRelay
  BY DEF NRelay
<1>4. /\ Len(ran) \in Nat /\ NRead \in Nat /\ NWait \in Nat
      /\ NRelay \in {0, 1} /\ NSent \in Nat /\ NRelay' \in {0, 1}
  BY LedgerType DEF Ledger, NRelay
<1> QED BY <1>1, <1>2, <1>3, <1>4 DEF Ledger

\* bridge_handle_frame: a DATA frame leaves the buffer before it is relayed.
LEMMA LedgerHandled ==
    ASSUME TypeInv, Ledger, pc = "feed", batch # <<>>, batch' = Tail(batch),
           UNCHANGED <<ran, in, used>>, pc' = "relay" => Head(batch).t = "DATA"
    PROVE  Ledger'
<1>1. IsFiniteSet(Waiting(in))' /\ NWait' = NWait /\ NSent' = NSent
  BY DEF Ledger, NWait, NSent
<1>2. batch \in Seq(InFrames) /\ Tail(batch) \in Seq(InFrames)
  BY HeadTailProperties DEF TypeInv, TypeOK, LoopType
<1>3. NRead' \in Nat /\ NRead' <= NRead /\ (Head(batch).t = "DATA" => NRead' + 1 <= NRead)
  BY <1>2, DatasTail, DatasFinite DEF NRead
<1>4. NRelay = 0 /\ NRelay' \in {0, 1} /\ (NRelay' = 1 => pc' = "relay")
  BY DEF NRelay
<1>5. Len(ran) \in Nat /\ NRead \in Nat /\ NWait \in Nat /\ NSent \in Nat
  BY LedgerType DEF Ledger
<1>6. NRead' + NRelay' <= NRead
  <2>1. CASE NRelay' = 1
    BY <1>3, <1>4, <2>1
  <2>2. CASE NRelay' = 0
    <3>1. NRead' \in Nat /\ NRead' <= NRead
      BY <1>3, Zenon
    <3>2. \A m \in Nat : m + 0 = m
      OBVIOUS
    <3>3. NRead' + 0 = NRead'
      BY <3>1, <3>2, Zenon
    <3> QED BY <2>2, <3>1, <3>3, Zenon
  <2> QED BY <1>4, <2>1, <2>2
<1>7. Len(ran) + NRead + NWait + 0 <= NSent
  BY <1>4 DEF Ledger
<1>8. Len(ran) + NRead' + NWait + NRelay' <= NSent
  <2>1. NRelay' \in Nat
    BY <1>4
  <2>2. NRead' \in Nat
    BY <1>3, Zenon
  <2> DEFINE a == Len(ran)
             b == NRead
             w == NWait
             x == NRead'
             y == NRelay'
             n == NSent
  <2>3. /\ a \in Nat /\ b \in Nat /\ w \in Nat /\ x \in Nat /\ y \in Nat /\ n \in Nat
        /\ a + b + w + 0 <= n /\ x + y <= b
    BY <1>5, <1>6, <1>7, <2>1, <2>2, Zenon
  <2> HIDE DEF a, b, w, x, y, n
  <2>4. a + x + w + y <= n
    BY <2>3
  <2> QED BY <2>4, Zenon DEF a, b, w, x, y, n
<1> QED BY <1>1, <1>8 DEF Ledger

\* The NCP runs the command being relayed, or does not.
LEMMA LedgerRelayed ==
    ASSUME TypeInv, Ledger, pc = "relay", pc' # "relay", NcpExecutes(cur) \/ ran' = ran,
           UNCHANGED <<in, batch>>, NSent' = NSent
    PROVE  Ledger'
<1>1. IsFiniteSet(Waiting(in))' /\ NWait' = NWait /\ NRead' = NRead
  BY DEF Ledger, NWait, NRead
<1>2. NRelay = 1 /\ NRelay' = 0
  BY DEF NRelay
<1>3. ran \in Seq(Commands) /\ cur \in Commands
  BY DEF TypeInv, TypeOK, HistoryType, LoopType
<1>4. Len(ran') \in {Len(ran), Len(ran) + 1}
  BY <1>3, AppendProperties DEF NcpExecutes
<1>5. Len(ran) \in Nat /\ NRead \in Nat /\ NWait \in Nat /\ NSent \in Nat
  BY LedgerType DEF Ledger
<1> QED BY <1>1, <1>2, <1>4, <1>5 DEF Ledger

\* A client sends a frame.
LEMMA LedgerSent ==
    ASSUME TypeInv, Ledger, NEW c \in Clients, NEW f \in InFrames, Send(c, f),
           UNCHANGED <<pc, batch, ran>>,
           NSent' = NSent + 1 \/ (NSent' = NSent /\ f.t # "DATA")
    PROVE  Ledger'
<1>1. in \in [Clients -> Seq(InFrames)] /\ in' = [in EXCEPT ![c] = Append(@, f)]
  BY DEF Send, TypeInv, TypeOK, PeerType
<1>2. /\ IsFiniteSet(Waiting(in'))
      /\ Cardinality(Waiting(in')) <= Cardinality(Waiting(in)) + 1
      /\ f.t # "DATA" => Cardinality(Waiting(in')) <= Cardinality(Waiting(in))
  BY <1>1, WaitingMore DEF Ledger
<1>3. NWait' \in Nat /\ NWait' <= NWait + 1 /\ (f.t # "DATA" => NWait' <= NWait)
  BY <1>2, FS_CardinalityType DEF NWait
<1>4. NRead' = NRead /\ NRelay' = NRelay
  BY DEF NRead, NRelay
<1>5. /\ Len(ran) \in Nat /\ NRead \in Nat /\ NWait \in Nat /\ NRelay \in {0, 1} /\ NSent \in Nat
  BY LedgerType DEF Ledger
<1>6. Len(ran) + NRead + NWait' + NRelay <= NSent'
  BY <1>3, <1>5 DEF Ledger
<1> QED BY <1>2, <1>4, <1>6 DEF Ledger

\* Every step of the process keeps the account.
LEMMA BridgeLedger ==
    ASSUME TypeInv, TypeInv', HandshakeInv, Ledger, BridgeStep
    PROVE  Ledger'
<1> USE DEF loop, session, ncp, history
<1>1. CASE IoRead
  <2>1. cli \in Clients /\ batch = <<>>
    BY <1>1 DEF IoRead, ReadReady, TypeInv, TypeOK, ClientInUse, SessionType, HandshakeInv, OwnFrames
  <2>2. CASE UNCHANGED <<batch, in>> /\ pc' = "drain"
    BY <1>1, <2>2, LedgerKept DEF IoRead, NSent
  <2>3. ASSUME NEW n \in 1..Len(in[cli]), batch' = SubSeq(in[cli], 1, n), pc' = "feed",
               in' = [in EXCEPT ![cli] = SubSeq(@, n + 1, Len(@))]
        PROVE  Ledger'
    <3>1. in \in [Clients -> Seq(InFrames)]
      BY DEF TypeInv, TypeOK, PeerType
    <3>2. /\ IsFiniteSet(Waiting(in'))
          /\ Cardinality(Datas(batch')) + Cardinality(Waiting(in')) <= Cardinality(Waiting(in))
      BY <2>1, <2>3, <3>1, WaitingRead DEF Ledger
    <3>3. NRead' + NWait' <= NWait /\ NRead' \in Nat /\ NWait' \in Nat
      <4>1. batch' \in Seq(InFrames)
        BY DEF TypeInv, TypeOK, LoopType
      <4> QED BY <3>2, <4>1, DatasFinite, FS_CardinalityType DEF NRead, NWait
    <3>4. NRelay = 0 /\ NRelay' = 0 /\ NSent' = NSent /\ ran' = ran
      BY <1>1, <2>3 DEF IoRead, NRelay, NSent
    <3>5. Len(ran) \in Nat /\ NRead \in Nat /\ NWait \in Nat /\ NSent \in Nat
      BY LedgerType DEF Ledger
    <3>6. Len(ran) + NRead + NWait + 0 <= NSent
      BY <3>4 DEF Ledger
    <3>7. Len(ran) + NRead' + NWait' + 0 <= NSent
      BY <3>3, <3>5, <3>6, Moved
    <3> QED BY <3>2, <3>4, <3>7 DEF Ledger
  <2> QED BY <1>1, <2>2, <2>3 DEF IoRead, EndTurn, Unread
<1>2. CASE PollWake \/ IoHangup \/ IoNone \/ FeedEnd \/ ResendEnd \/ DrainReturns \/ Respawn
  <2>1. UNCHANGED <<ran, used, in>> /\ (batch' = batch \/ batch' = <<>>)
    BY <1>2 DEF PollWake, IoHangup, IoNone, FeedEnd, ResendEnd, DrainReturns, Respawn
  <2>2. pc' # "relay"
    BY <1>2 DEF PollWake, IoHangup, IoNone, FeedEnd, EndTurn, ResendEnd, DrainReturns, Respawn,
        TypeInv, TypeOK, LoopType
  <2> QED BY <2>1, <2>2, LedgerKept DEF NSent
<1>3. CASE ResendSlot
  <2>1. UNCHANGED <<ran, used, in, batch>> /\ pc' # "relay"
    BY <1>3 DEF ResendSlot, ash_send
  <2> QED BY <2>1, LedgerKept DEF NSent
<1>4. CASE DrainPoll \/ DrainFails
  <2>1. UNCHANGED <<ran, in, batch>>
    BY <1>4 DEF DrainPoll, DrainFails
  <2>2. pc' # "relay"
    BY <1>4 DEF DrainPoll, ash_send_data, ash_send, DrainFails, TypeInv, TypeOK, LoopType
  <2>3. used' = used \/ Spend("kept") \/ Spend("fault")
    BY <1>4 DEF DrainPoll, DrainFails
  <2>4. NSent' = NSent
    BY <2>3, SpendOther DEF Budgets
  <2> QED BY <2>1, <2>2, <2>4, LedgerKept
<1>5. CASE HandleRst \/ HandleIgnored \/ HandleNak \/ HandleDataEarly \/ HandleData
  <2>1. pc = "feed" /\ batch # <<>> /\ batch' = Tail(batch)
    BY <1>5 DEF HandleRst, HandleIgnored, HandleNak, HandleDataEarly, HandleData, NextIs
  <2>2. UNCHANGED <<ran, in, used>>
    BY <1>5 DEF HandleRst, HandleIgnored, HandleNak, HandleDataEarly, HandleData
  <2>3. pc' = "relay" => Head(batch).t = "DATA"
    BY <1>5, <2>1 DEF HandleRst, HandleIgnored, HandleNak, HandleDataEarly, HandleData, NextIs,
        ash_send
  <2> QED BY <2>1, <2>2, <2>3, LedgerHandled
<1>6. CASE Relay \/ RelayFails
  <2>1. pc = "relay" /\ UNCHANGED <<in, batch>> /\ (NcpExecutes(cur) \/ ran' = ran)
    BY <1>6 DEF Relay, RelayFails
  <2>2. pc' # "relay"
    BY <1>6 DEF Relay, ash_send_data, ash_send, RelayFails
  <2>3. used' = used \/ Spend("fault")
    BY <1>6 DEF Relay, RelayFails
  <2>4. NSent' = NSent
    BY <2>3, SpendOther DEF Budgets
  <2> QED BY <2>1, <2>2, <2>4, LedgerRelayed
<1> QED
  BY <1>1, <1>2, <1>3, <1>4, <1>5, <1>6 DEF BridgeStep

\* Every step of a client keeps the account.
LEMMA HostLedger ==
    ASSUME TypeInv, TypeInv', Ledger, NEW c \in Clients, HostStep(c)
    PROVE  Ledger'
<1> USE DEF Bridge, loop, session, ncp, history
<1>1. UNCHANGED <<pc, batch, ran>>
  BY DEF HostStep, Connect, HostRst, HostSend, HostRetransmit, HostNak, HostIdleFrame, HostReceive,
      HostLose, HostHangup
<1>2. ASSUME in' = in, NSent' = NSent PROVE Ledger'
  BY <1>1, <1>2, LedgerKept
<1>3. ASSUME NEW f \in InFrames, Send(c, f), f.t # "DATA", NSent' = NSent PROVE Ledger'
  BY <1>1, <1>3, LedgerSent
<1>4. ASSUME NEW f \in InFrames, Send(c, f), NSent' = NSent + 1 PROVE Ledger'
  BY <1>1, <1>4, LedgerSent
<1>5. CASE Connect(c) \/ HostLose(c)
  <2>1. NSent' = NSent
    BY <1>5, SpendOther DEF Connect, HostLose, Budgets
  <2> QED BY <1>2, <1>5, <2>1 DEF Connect, HostLose
<1>6. CASE HostRst(c) \/ HostNak(c) \/ HostIdleFrame(c)
  <2>1. NSent' = NSent
    BY <1>6, SpendOther DEF HostRst, HostNak, HostIdleFrame, Budgets
  <2>2. /\ \A t \in {"RST", "ACK", "OTHER"} : [t |-> t] \in InFrames
        /\ \A n \in Nums : [t |-> "NAK", num |-> n] \in InFrames
    BY DEF InFrames
  <2>3. \E f \in InFrames : Send(c, f) /\ f.t # "DATA"
    BY <1>6, <2>2 DEF HostRst, HostNak, HostIdleFrame
  <2> QED BY <1>3, <2>1, <2>3
<1>7. CASE HostSend(c)
  <2> DEFINE F(v) == [t |-> "DATA", num |-> host[c].tx, retx |-> FALSE,
                      cmd |-> [by |-> c, n |-> used["cmd"] + 1, asks |-> v,
                               layout |-> ezsp_layout(HostVersion(c))]]
  <2>1. PICK v \in Versions \cup {0} : Send(c, F(v))
    BY <1>7 DEF HostSend
  <2>2. F(v) \in InFrames
    <3>1. used["cmd"] + 1 \in Nat
      <4>1. used \in [Budgets -> Nat] /\ "cmd" \in Budgets
        BY DEF TypeInv, TypeOK, PeerType, Budgets
      <4>2. used["cmd"] \in Nat
        BY <4>1
      <4> QED BY <4>2
    <3>2. ezsp_layout(HostVersion(c)) \in 2..4
      BY DEF ezsp_layout
    <3>3. host[c] \in HostStates
      BY DEF TypeInv, TypeOK, PeerType
    <3>4. F(v) \in DataIn
      BY <3>1, <3>2, <3>3, HostParts DEF DataIn, Commands
    <3> QED BY <3>4, FrameKinds
  <2> HIDE DEF F
  <2>3. NSent' = NSent + 1
    BY <1>7, SpendCommand DEF HostSend
  <2> QED BY <1>4, <2>1, <2>2, <2>3
<1>8. CASE HostRetransmit(c)
  <2> DEFINE f == [Head(host[c].unacked) EXCEPT !.retx = TRUE]
  <2>1. Head(host[c].unacked) \in DataIn
    BY <1>8, HostParts, HeadTailProperties DEF HostRetransmit, TypeInv, TypeOK, PeerType
  <2>2. f \in DataIn
    BY <2>1 DEF DataIn
  <2>3. Send(c, f) /\ NSent' = NSent + 1
    BY <1>8, SpendCommand DEF HostRetransmit
  <2> HIDE DEF f
  <2> QED BY <1>4, <2>2, <2>3, FrameKinds
<1>9. CASE HostReceive(c)
  <2> DEFINE f == [t |-> "NAK", num |-> Len(got[c]) % Window]
  <2>1. NSent' = NSent
    BY <1>9 DEF HostReceive, NSent
  <2>2. f \in InFrames /\ f.t # "DATA"
    <3>1. Len(got[c]) % Window \in Nums
      BY LenProperties, WindowAssumption DEF TypeInv, TypeOK, PeerType, Nums
    <3> QED BY <3>1 DEF InFrames
  <2>3. in' = in \/ Send(c, f)
    BY <1>9 DEF HostReceive
  <2> HIDE DEF f
  <2> QED BY <1>2, <1>3, <2>1, <2>2, <2>3
<1>10. CASE HostHangup(c)
  <2>1. NSent' = NSent
    BY <1>10, SpendOther DEF HostHangup, Budgets
  <2>2. CASE in' = [in EXCEPT ![c] = <<>>]
    <3>1. IsFiniteSet(Waiting(in')) /\ Cardinality(Waiting(in')) <= Cardinality(Waiting(in))
      BY <2>2, WaitingCut DEF Ledger, TypeInv, TypeOK, PeerType
    <3>2. NWait' \in Nat /\ NWait' <= NWait
      BY <3>1, FS_CardinalityType DEF NWait
    <3>3. NRead' = NRead /\ NRelay' = NRelay
      BY <1>1 DEF NRead, NRelay
    <3>4. Len(ran) \in Nat /\ NRead \in Nat /\ NWait \in Nat /\ NRelay \in {0, 1} /\ NSent \in Nat
      BY LedgerType DEF Ledger
    <3>5. Len(ran) + NRead + NWait' + NRelay <= NSent
      BY <3>2, <3>4 DEF Ledger
    <3> QED BY <1>1, <2>1, <3>1, <3>3, <3>5 DEF Ledger
  <2> QED BY <1>2, <1>10, <2>1, <2>2 DEF HostHangup
<1> QED
  BY <1>5, <1>6, <1>7, <1>8, <1>9, <1>10 DEF HostStep

\* Every DATA frame a client sends is run by the NCP at most once, for any
\* number of clients and wherever the process, a client or the NCP fails: the
\* account of frames run, being relayed, read and in flight never exceeds what
\* was sent.
THEOREM RunOnce == Spec => []RunsWhatWasSent
<1>1. Init => Ledger
  <2> SUFFICES ASSUME Init PROVE Ledger
    OBVIOUS
  <2>1. Datas(<<>>) = {}
    BY DEF Datas
  <2>2. Waiting(in) = {}
    BY <2>1 DEF Init, Waiting
  <2>3. NWait = 0 /\ NRead = 0 /\ IsFiniteSet(Waiting(in))
    BY <2>1, <2>2, FS_EmptySet DEF Init, NWait, NRead
  <2>4. NRelay = 0 /\ NSent = 0 /\ Len(ran) = 0
    BY DEF Init, NRelay, NSent, Budgets
  <2> QED BY <2>3, <2>4 DEF Ledger
<1>2. TypeInv /\ TypeInv' /\ HandshakeInv /\ Ledger /\ [Next]_vars => Ledger'
  <2> SUFFICES ASSUME TypeInv, TypeInv', HandshakeInv, Ledger, [Next]_vars PROVE Ledger'
    OBVIOUS
  <2>1. CASE NcpCallback \/ NcpCrash \/ UNCHANGED vars
    <3>1. UNCHANGED <<pc, batch, in, ran>> /\ NSent' = NSent
      BY <2>1, SpendOther DEF NcpCallback, NcpCrash, vars, loop, history, Budgets
    <3> QED BY <3>1, LedgerKept
  <2> QED BY <2>1, BridgeLedger, HostLedger DEF Next
<1> QED
  BY <1>1, <1>2, LedgerIs, InitType, NextType, InitHandshake, NextHandshake, PTL DEF Spec

-----------------------------------------------------------------------------
(***************************************************************************)
(* The length of a turn.  Handling a frame takes at most PerFrame steps    *)
(* (a NAK resends less than a window, a command is followed by a drain),   *)
(* and a turn ends with a drain, which DrainMax bounds.                    *)
(***************************************************************************)
PerFrame == Window + DrainMax + 4

\* Slots that ash_retransmit has not looked at yet.
Slots == IF rn <= frm THEN frm - rn ELSE (frm - rn) + Window

\* What is left of the turn once the frame at hand is done.
Later == Len(batch) * PerFrame + (DrainMax + 2)

Rank ==
    CASE pc = "feed"   -> Later
      [] pc = "resend" -> Later + 1 + Slots
      [] pc = "relay"  -> Later + DrainMax + 3
      [] pc = "drain"  -> (IF ret = "feed" THEN Later + 1 ELSE 1) + (DrainMax - guard)
      [] OTHER         -> 0

Busy == pc \in {"feed", "resend", "relay", "drain"}

\* The process has Rank steps left at most: each of its steps ends the turn
\* or lowers Rank, and nobody else's step changes it.
Shortens ==
    Busy => /\ Rank \in Nat
            /\ BridgeStep => pc' \in {"poll", "dead"} \/ (Busy' /\ Rank' < Rank)
            /\ ~BridgeStep => Busy' /\ Rank' = Rank

\* The parts of Rank are numbers.
LEMMA RankType ==
    ASSUME TypeInv
    PROVE  /\ Len(batch) \in Nat /\ PerFrame \in Nat /\ Later \in Nat /\ Slots \in 0..(Window - 1)
           /\ DrainMax \in Nat /\ guard \in 0..DrainMax
<1>1. Len(batch) \in Nat /\ PerFrame \in Nat /\ DrainMax \in Nat
  BY FrameAssumption, WindowAssumption DEF TypeInv, TypeOK, LoopType, PerFrame
<1>2. Later \in Nat
  <2>1. PICK n \in Nat, k \in Nat : n = Len(batch) /\ k = PerFrame
    BY <1>1
  <2>2. n * k \in Nat
    OBVIOUS
  <2> QED
    BY <1>1, <2>1, <2>2 DEF Later
<1>3. rn \in 0..(Window - 1) /\ frm \in 0..(Window - 1) /\ guard \in 0..DrainMax
  BY DEF TypeInv, TypeOK, LoopType, SessionType, Nums
<1>4. Slots \in 0..(Window - 1)
  BY <1>3, WindowAssumption DEF Slots
<1> QED
  BY <1>1, <1>2, <1>3, <1>4

\* One frame less to handle.
LEMMA LaterLess ==
    ASSUME TypeInv, batch # <<>>, batch' = Tail(batch)
    PROVE  Later = Later' + PerFrame /\ Later' \in Nat
<1>1. PICK n \in Nat, k \in Nat : n = Len(batch) /\ k = PerFrame
  BY RankType
<1>2. n > 0 /\ Len(batch') = n - 1
  BY <1>1 DEF TypeInv, TypeOK, LoopType
<1>3. n * k = (n - 1) * k + k /\ (n - 1) * k \in Nat
  BY <1>2
<1>4. PICK x \in Nat : x = (n - 1) * k
  BY <1>3
<1>5. Later = (x + k) + (DrainMax + 2) /\ Later' = x + (DrainMax + 2)
  BY <1>1, <1>2, <1>3, <1>4 DEF Later, PerFrame
<1>6. DrainMax \in Nat
  BY RankType
<1> QED
  BY <1>1, <1>5, <1>6

\* rn moves towards frm, around the window.
LEMMA SlotsLess ==
    ASSUME TypeInv, rn # frm, rn' = NextNum(rn), frm' = frm
    PROVE  Slots = Slots' + 1
<1>1. rn \in 0..(Window - 1) /\ frm \in 0..(Window - 1)
  BY DEF TypeInv, TypeOK, LoopType, SessionType, Nums
<1>2. CASE rn < Window - 1
  <2>1. rn' = rn + 1
    <3>1. rn + 1 \in 0..(Window - 1) /\ Window * 0 + (rn + 1) = rn + 1
      BY <1>1, <1>2, WindowAssumption
    <3>2. (rn + 1) % Window = rn + 1
      BY <3>1, Remainder, WindowAssumption
    <3> QED
      BY <3>2 DEF NextNum
  <2> QED
    BY <1>1, <1>2, <2>1, WindowAssumption DEF Slots
<1>3. CASE rn = Window - 1
  <2>1. rn' = 0
    <3>1. 0 \in 0..(Window - 1) /\ Window * 1 + 0 = rn + 1
      BY <1>1, <1>3, WindowAssumption
    <3>2. (rn + 1) % Window = 0
      BY <3>1, Remainder, WindowAssumption
    <3> QED
      BY <3>2 DEF NextNum
  <2> QED
    BY <1>1, <1>3, <2>1, WindowAssumption DEF Slots
<1> QED
  BY <1>1, <1>2, <1>3, WindowAssumption

\* And after a step.
LEMMA SlotsNext ==
    ASSUME TypeInv'
    PROVE  \E x \in Nat : x = Slots' /\ x < Window
<1>1. PICK r \in 0..(Window - 1), q \in 0..(Window - 1) : r = rn' /\ q = frm'
  BY DEF TypeInv, TypeOK, LoopType, SessionType, Nums
<1>2. Slots' = (IF r <= q THEN q - r ELSE (q - r) + Window)
  BY <1>1 DEF Slots
<1>3. CASE r <= q
  <2>1. q - r \in Nat /\ q - r < Window /\ Slots' = q - r
    BY <1>2, <1>3, WindowAssumption
  <2> QED
    BY <2>1
<1>4. CASE r > q
  <2>1. (q - r) + Window \in Nat /\ (q - r) + Window < Window /\ Slots' = (q - r) + Window
    BY <1>2, <1>4, WindowAssumption
  <2> QED
    BY <2>1
<1> QED
  BY <1>3, <1>4, WindowAssumption

\* There is a number of steps left.
LEMMA RankNat ==
    ASSUME TypeInv, Busy
    PROVE  Rank \in Nat
<1>1. PICK l \in Nat, s \in Nat, d \in Nat, g \in Nat :
        l = Later /\ s = Slots /\ d = DrainMax /\ g = guard /\ g <= d
  BY RankType, WindowAssumption
<1>2. /\ pc = "feed" => Rank = l
      /\ pc = "resend" => Rank = l + 1 + s
      /\ pc = "relay" => Rank = l + d + 3
      /\ pc = "drain" => Rank = (IF ret = "feed" THEN l + 1 ELSE 1) + (d - g)
  BY <1>1 DEF Rank
<1>3. d - g \in Nat
  BY <1>1
<1>4. l + 1 + s \in Nat /\ l + d + 3 \in Nat /\ (IF ret = "feed" THEN l + 1 ELSE 1) + (d - g) \in Nat
  BY <1>3
<1> QED
  BY <1>2, <1>4 DEF Busy

\* Each step of the process counts.
LEMMA TurnStep ==
    ASSUME TypeInv, TypeInv', BridgeStep, Busy, pc' \notin {"poll", "dead"}
    PROVE  Busy' /\ Rank' < Rank
<1>0. PICK l \in Nat, s \in Nat, d \in Nat, g \in Nat :
        /\ l = Later /\ s = Slots /\ d = DrainMax /\ g = guard /\ g <= d /\ s < Window
  BY RankType, WindowAssumption
<1>1. CASE FeedEnd
  <2>1. pc = "feed" /\ pc' = "drain" /\ ret' = "poll" /\ guard' = 0
    BY <1>1 DEF FeedEnd, EndTurn
  <2>2. Rank = l /\ Rank' = 1 + (d - 0) /\ Busy' /\ batch = <<>>
    BY <1>0, <1>1, <2>1 DEF FeedEnd, Rank, Busy
  <2>3. l >= d + 2
    <3>1. PICK k \in Nat : k = PerFrame
      BY RankType
    <3>2. 0 * k = 0 /\ Len(batch) = 0
      BY <2>2
    <3> QED
      BY <1>0, <3>1, <3>2 DEF Later
  <2> QED
    BY <2>2, <2>3
<1>2. CASE HandleRst \/ HandleIgnored \/ HandleDataEarly
  <2>1. pc = "feed" /\ pc' = "feed" /\ batch # <<>> /\ batch' = Tail(batch)
    BY <1>2 DEF HandleRst, HandleIgnored, HandleDataEarly, NextIs, ash_send
  <2>2. Later = Later' + PerFrame /\ Later' \in Nat
    BY <2>1, LaterLess
  <2>3. Rank = Later /\ Rank' = Later' /\ Busy'
    BY <2>1 DEF Rank, Busy
  <2>4. PICK x \in Nat, w \in Nat : x = Later' /\ w = Window
    BY <2>2, WindowAssumption
  <2>5. Later = x + (w + d + 4)
    BY <1>0, <2>2, <2>4 DEF PerFrame
  <2>6. Rank = x + (w + d + 4) /\ Rank' = x
    BY <2>3, <2>4, <2>5
  <2>7. x < x + (w + d + 4)
    OBVIOUS
  <2> QED
    BY <2>3, <2>6, <2>7
<1>3. CASE HandleNak
  <2>1. pc = "feed" /\ pc' = "resend" /\ batch # <<>> /\ batch' = Tail(batch)
    BY <1>3 DEF HandleNak, NextIs
  <2>2. Later = Later' + PerFrame /\ Later' \in Nat
    BY <2>1, LaterLess
  <2>3. PICK y \in Nat : y = Slots' /\ y < Window
    BY SlotsNext
  <2>4. PICK x \in Nat, w \in Nat : x = Later' /\ w = Window
    BY <2>2, WindowAssumption
  <2>5. Later = x + (w + d + 4)
    BY <1>0, <2>2, <2>4 DEF PerFrame
  <2>6. Rank = Later /\ Rank' = x + 1 + y /\ Busy'
    BY <2>1, <2>3, <2>4 DEF Rank, Busy
  <2>7. y < w
    BY <2>3, <2>4
  <2> QED
    BY <2>5, <2>6, <2>7
<1>4. CASE HandleData
  <2>1. pc = "feed" /\ pc' = "relay" /\ batch # <<>> /\ batch' = Tail(batch)
    BY <1>4 DEF HandleData, NextIs, ash_send
  <2>2. Later = Later' + PerFrame /\ Later' \in Nat
    BY <2>1, LaterLess
  <2>3. Rank = Later /\ Rank' = Later' + d + 3 /\ Busy'
    BY <1>0, <2>1 DEF Rank, Busy
  <2>4. PICK x \in Nat, w \in Nat : x = Later' /\ w = Window
    BY <2>2, WindowAssumption
  <2>5. Later = x + (w + d + 4)
    BY <1>0, <2>2, <2>4 DEF PerFrame
  <2>6. Rank = x + (w + d + 4) /\ Rank' = x + d + 3
    BY <2>3, <2>4, <2>5
  <2>7. x + d + 3 < x + (w + d + 4)
    OBVIOUS
  <2> QED
    BY <2>3, <2>6, <2>7
<1>5. CASE ResendSlot
  <2>1. /\ pc = "resend" /\ pc' = "resend" /\ rn # frm /\ rn' = NextNum(rn) /\ frm' = frm
        /\ batch' = batch
    BY <1>5 DEF ResendSlot, ResendDone, ash_send, session
  <2>2. Slots = Slots' + 1 /\ Later' = Later
    BY <2>1, SlotsLess DEF Later, PerFrame
  <2>3. Rank = l + 1 + s /\ Rank' = l + 1 + Slots' /\ Busy'
    BY <1>0, <2>1, <2>2 DEF Rank, Busy
  <2>4. PICK y \in Nat : y = Slots'
    BY SlotsNext
  <2>5. s = y + 1
    BY <1>0, <2>2, <2>4
  <2>6. Rank = l + 1 + (y + 1) /\ Rank' = l + 1 + y
    BY <2>3, <2>4, <2>5
  <2>7. l + 1 + y < l + 1 + (y + 1)
    OBVIOUS
  <2> QED
    BY <2>3, <2>6, <2>7
<1>6. CASE ResendEnd \/ RelayFails
  <2>1. /\ pc \in {"resend", "relay"} /\ pc' = "feed" /\ batch' = batch
    BY <1>6 DEF ResendEnd, RelayFails
  <2>2. Later' = Later
    BY <2>1 DEF Later, PerFrame
  <2>3. /\ pc = "resend" => Rank = l + 1 + s
        /\ pc = "relay" => Rank = l + d + 3
        /\ Rank' = l /\ Busy'
    BY <1>0, <2>1, <2>2 DEF Rank, Busy
  <2> QED
    BY <1>0, <2>1, <2>3
<1>7. CASE Relay
  <2>1. pc = "relay" /\ pc' = "drain" /\ ret' = "feed" /\ guard' = 0 /\ batch' = batch
    BY <1>7 DEF Relay, ash_send_data, ash_send
  <2>2. Later' = Later
    BY <2>1 DEF Later, PerFrame
  <2>3. Rank = l + d + 3 /\ Rank' = (l + 1) + (d - 0) /\ Busy'
    BY <1>0, <2>1, <2>2 DEF Rank, Busy
  <2> QED
    BY <2>3
<1>8. CASE DrainReturns \/ DrainFails
  <2>1. pc = "drain" /\ pc' = ret /\ ret = "feed" /\ batch' = batch
    BY <1>8 DEF DrainReturns, DrainFails, TypeInv, TypeOK, LoopType
  <2>2. Later' = Later
    BY <2>1 DEF Later, PerFrame
  <2>3. Rank = (l + 1) + (d - g) /\ Rank' = l /\ Busy'
    BY <1>0, <2>1, <2>2 DEF Rank, Busy
  <2> QED
    BY <1>0, <2>3
<1>9. CASE DrainPoll
  <2>1. /\ pc = "drain" /\ pc' = "drain" /\ ret' = ret /\ batch' = batch
        /\ guard' = guard + 1
    BY <1>9 DEF DrainPoll, ash_send_data, ash_send
  <2>2. Later' = Later
    BY <2>1 DEF Later, PerFrame
  <2>3. PICK a \in Nat : a = IF ret = "feed" THEN l + 1 ELSE 1
    OBVIOUS
  <2>4. Rank = a + (d - g) /\ Rank' = a + (d - (g + 1)) /\ Busy'
    BY <1>0, <2>1, <2>2, <2>3 DEF Rank, Busy
  <2> QED
    BY <1>0, <2>4
<1> QED
  BY <1>1, <1>2, <1>3, <1>4, <1>5, <1>6, <1>7, <1>8, <1>9
     DEF BridgeStep, Busy, PollWake, IoHangup, IoRead, IoNone, Respawn

\* Between two calls of poll() the process takes a bounded number of steps,
\* however fast the client sends and the NCP calls back: each step outside
\* poll() and read() lowers Rank or ends the turn.  This is the part of
\* LoopReturns that fairness adds nothing to.
THEOREM TurnEnds == Spec => [][Shortens]_vars
<1>1. ASSUME TypeInv, TypeInv', [Next]_vars PROVE [Shortens]_vars
  <2>1. BridgeStep /\ Busy => pc' \in {"poll", "dead"} \/ (Busy' /\ Rank' < Rank)
    BY <1>1, TurnStep
  <2>2. ASSUME UNCHANGED <<loop, session>>, Busy PROVE Busy' /\ Rank' = Rank
    BY <2>2 DEF loop, session, Rank, Busy, Later, Slots, PerFrame
  <2>3. NcpCallback \/ NcpCrash \/ (\E c \in Clients : HostStep(c)) => UNCHANGED <<loop, session>>
    BY DEF NcpCallback, NcpCrash, HostStep, Connect, HostRst, HostSend, HostRetransmit, HostNak,
           HostIdleFrame, HostReceive, HostLose, HostHangup, Bridge
  <2>4. ~BridgeStep => UNCHANGED <<loop, session>> \/ UNCHANGED vars
    BY <1>1, <2>3 DEF Next
  <2> QED
    BY <1>1, <2>1, <2>2, <2>4, RankNat DEF Shortens
<1> QED
  BY <1>1, InitType, NextType, PTL DEF Spec
=============================================================================
