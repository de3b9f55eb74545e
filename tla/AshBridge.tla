----------------------------- MODULE AshBridge -----------------------------
(***************************************************************************)
(* The ASH-over-TCP bridge of bridge.c: one single-threaded process that   *)
(* relays EZSP frames between at most one TCP client and the Zigbee NCP.   *)
(*                                                                         *)
(* The bridge runs  poll -> accept -> read -> feed -> drain  for ever; the *)
(* variable pc says where in that loop it is, and the actions are cut      *)
(* where another party can act in between: the NCP queues a callback, a    *)
(* client sends, hangs up or connects.  The two peers are external.  The   *)
(* NCP is reduced to the version agreement, a callback queue and the       *)
(* nHOST_INT line (asserted while the queue is not empty).  The client is  *)
(* an ASH host: it numbers its DATA frames, keeps the unacknowledged ones, *)
(* may repeat the oldest when its timer fires, and answers a gap in the    *)
(* numbers it receives with a NAK.                                         *)
(*                                                                         *)
(* Byte stuffing and the CRC are the subject of AshFraming; here a frame   *)
(* is a record.  An EZSP payload is reduced to what the bridge looks at:   *)
(* whether it is a version command, in which header layout it is written,  *)
(* and the length of the reply.                                            *)
(***************************************************************************)
EXTENDS Integers, Sequences, FiniteSets

CONSTANTS
    Clients,      \* TCP connections; each connects at most once
    None,         \* no client connected (cli = -1)
    Window,       \* number of frame numbers (ASH_WINDOW, 8 in the code)
    MaxFrame,     \* ASH_MAX_FRAME: control byte plus EZSP frame
    DrainMax,     \* callbacks collected by one drain (32 in the code)
    HasHint,      \* the nHOST_INT line could be requested (p->hint >= 0)
    NcpVersion,   \* the EZSP version of the NCP firmware
    Versions,     \* the versions a client may ask for
    Sizes,        \* lengths of the EZSP frames the NCP sends
    Limit         \* bound on every kind of external event, see Budgets

\* What the environment may do only a bounded number of times.
Budgets == {"rst", "cmd", "retx", "nak", "idle", "lose", "hang",
            "callback", "kept", "fault", "crash"}

ASSUME ClientsAssumption == None \notin Clients
ASSUME WindowAssumption == Window \in Nat /\ Window > 1
ASSUME FrameAssumption == MaxFrame \in Nat /\ DrainMax \in Nat /\ Sizes \subseteq Nat \ {0}
ASSUME VersionAssumption ==
    NcpVersion \in 4..13 /\ Versions \subseteq Nat \ {0} /\ HasHint \in BOOLEAN
ASSUME LimitAssumption == Limit \in [Budgets -> Nat]

VARIABLES
    pc,          \* where the loop of cmd_bridge is
    ret,         \* where bridge_drain_callbacks returns to
    revents,     \* what poll() reported for the client it was called with
    batch,       \* complete frames of the last read() not handled yet
    cur,         \* the EZSP command ezsp_relay is working on
    guard,       \* iterations of the running drain
    rn,          \* the slot ash_retransmit looks at next
    cli, ready, negotiated, frm, ack, ver, sent,   \* struct bridge
    conn,        \* state of every TCP connection
    in, out,     \* frames in flight, client to bridge and bridge to client
    agreed,      \* NCP: the version negotiation has converged
    cbq,         \* NCP: queued callbacks
    host,        \* the ASH state of every client
    got,         \* DATA bodies every client accepted in its ASH session
    used,        \* how much of each budget is spent
    epoch,       \* history: number of NCP resets
    log,         \* history: DATA bodies sent since the last RST or accept
    ran,         \* history: commands the NCP has executed
    rstacked,    \* history: connections that have been sent an RSTACK
    overrun      \* history: a frame number was reused before its client
                 \* had accepted the frame that used it before

loop    == <<pc, ret, revents, batch, cur, guard, rn>>
session == <<ready, negotiated, frm, ack, ver, sent>>
ncp     == <<agreed, cbq, epoch>>
history == <<log, ran, rstacked, overrun>>
vars    == <<loop, cli, session, conn, in, out, ncp, host, got, used, history>>

(***************************************************************************)
(* Frames                                                                  *)
(***************************************************************************)
Nums == 0..(Window - 1)

\* An EZSP command of a client: asks = 0 for an ordinary command, else the
\* version a version command requests; layout is the frame-id offset of the
\* header it is written with.
Commands == [by: Clients, n: Nat, asks: Versions \cup {0}, layout: 2..4]

\* An EZSP frame from the NCP: the reply to command n of client by, queued
\* callback n, or the invalidCommand that answers a poll before agreement.
\* ver is the version a version reply reports, full its length at the NCP and
\* len the length that is forwarded.
Bodies == [src: {"reply", "callback", "invalid"}, by: Clients \cup {None}, n: Nat,
           ver: {0, NcpVersion}, epoch: Nat, full: Nat, len: Nat]

DataIn    == [t: {"DATA"}, num: Nums, retx: BOOLEAN, cmd: Commands]
InFrames  == [t: {"RST", "ACK", "OTHER"}] \cup [t: {"NAK"}, num: Nums] \cup DataIn
DataOut   == [t: {"DATA"}, num: Nums, ack: Nums, retx: BOOLEAN, body: Bodies]
OutFrames == [t: {"RSTACK"}] \cup [t: {"ACK"}, num: Nums] \cup DataOut

Empty == [t |-> "EMPTY"]        \* a slot of sent[] whose len is 0

Spend(k) == used[k] < Limit[k] /\ used' = [used EXCEPT ![k] = @ + 1]

\* Offset of the frame id for an EZSP version.
ezsp_layout(v) == IF v >= 8 THEN 3 ELSE IF v >= 5 THEN 4 ELSE 2

(***************************************************************************)
(* Sending.  A write to a client that has hung up is either lost or, once  *)
(* its TCP reset has arrived, raises SIGPIPE, which nothing handles.       *)
(***************************************************************************)
\* The successor of a 3-bit frame number.
NextNumUnwrapped(n) == n + 1
NextNum(n) == (n + 1) % Window

\* Hand frames fs to the client and continue at next.
ash_send(fs, next) ==
    /\ out' = [out EXCEPT ![cli] = IF conn[cli] = "open" THEN @ \o fs ELSE @]
    /\ \/ pc' = next
       \/ conn[cli] = "gone" /\ pc' = "dead"

\* The frame ash_send_data builds from an EZSP frame under ack number a.
DataFrame(b, a) == [t |-> "DATA", num |-> frm, ack |-> a, retx |-> FALSE, body |-> b]

\* The client's count of accepted frames, as the RSTACK in flight will leave it.
Accepted(c) ==
    IF host[c].st = "on" /\ \A i \in 1..Len(out[c]) : out[c][i].t # "RSTACK"
    THEN Len(got[c]) ELSE 0

\* What is forwarded of an EZSP frame: ezsp_relay cuts it to its buffer.
Relayed(b) == [b EXCEPT !.len = IF b.full > MaxFrame THEN MaxFrame ELSE b.full]

\* The body[] of ash_send_data has room for the control byte and the frame.
FitsLoosely(b) == b.len <= MaxFrame
Fits(b) == b.len + 1 <= MaxFrame

\* The slot of sent[] a frame is kept in.
SlotBehind == NextNum(frm)
Slot == frm

ash_send_data(b, next) ==
    IF ~Fits(b)
    THEN pc' = next /\ UNCHANGED <<out, sent, frm, log, overrun>>
    ELSE /\ sent' = [sent EXCEPT ![Slot] = DataFrame(b, ack)]
         /\ frm' = NextNum(frm)
         /\ log' = Append(log, b)
         /\ overrun' = (overrun \/ Len(log) + 1 - Accepted(cli) >= Window)
         /\ ash_send(<<DataFrame(b, ack)>>, next)

(***************************************************************************)
(* Initial state: the process has opened its pins and is listening; the    *)
(* NCP has been powered up and nobody has connected yet.                   *)
(***************************************************************************)
NoRevents == [in |-> FALSE, hup |-> FALSE]
NoHost == [st |-> "off", tx |-> 0, unacked |-> <<>>, rej |-> FALSE]

Init ==
    /\ pc = "poll" /\ ret = "poll" /\ revents = NoRevents
    /\ batch = <<>> /\ cur = None /\ guard = 0 /\ rn = 0
    /\ cli = None /\ ready = FALSE /\ negotiated = FALSE
    /\ frm = 0 /\ ack = 0 /\ ver = 4 /\ sent = [n \in Nums |-> Empty]
    /\ conn = [c \in Clients |-> "idle"]
    /\ in = [c \in Clients |-> <<>>] /\ out = [c \in Clients |-> <<>>]
    /\ agreed = FALSE /\ cbq = <<>> /\ epoch = 0
    /\ host = [c \in Clients |-> NoHost] /\ got = [c \in Clients |-> <<>>]
    /\ used = [k \in Budgets |-> 0]
    /\ log = <<>> /\ ran = <<>> /\ rstacked = {} /\ overrun = FALSE

\* memset(b->sent, 0, ...), by a new client and by its RST.
KeepSent == sent
NoSent == [n \in Nums |-> Empty]

\* Numbering starts over.
FreshNumbers ==
    /\ frm' = 0 /\ ack' = 0 /\ ver' = 4 /\ sent' = NoSent
    /\ log' = <<>> /\ overrun' = FALSE

\* What accepting a client and answering its RST do to the two flags.
AcceptKeepsFlags == UNCHANGED <<ready, negotiated>>
AcceptFlags == ready' = FALSE /\ negotiated' = FALSE

ResetKeepsNegotiated == ready' = TRUE /\ UNCHANGED negotiated
ResetFlags == ready' = TRUE /\ negotiated' = FALSE

(***************************************************************************)
(* The main loop                                                           *)
(***************************************************************************)
\* poll() always returns, at the latest after its timeout.  The revents it
\* reports belong to the client of that moment; a pending connection is
\* accepted before they are looked at, and replaces that client.
PollRevents ==
    {r \in [in: BOOLEAN, hup: BOOLEAN] :
        /\ r.in  => cli # None /\ (in[cli] # <<>> \/ conn[cli] = "gone")
        /\ r.hup => cli # None /\ conn[cli] = "gone"
        /\ cli # None /\ in[cli] # <<>> => r.in
        /\ cli # None /\ conn[cli] = "gone" => r.in \/ r.hup}

\* Connections the kernel has completed; some may have hung up already.
Backlog == {c \in Clients : conn[c] \in {"backlog", "backgone"}}

PollWake ==
    /\ pc = "poll"
    /\ pc' = "io"
    /\ revents' \in PollRevents
    /\ \/ \E c \in Backlog :
            /\ cli' = c
            /\ conn' = [d \in Clients |->
                           CASE d = c   -> IF conn[c] = "backlog" THEN "open" ELSE "gone"
                             [] d = cli -> "closed"
                             [] OTHER   -> conn[d]]
            /\ FreshNumbers /\ AcceptFlags
       \/ /\ Backlog = {}
          /\ UNCHANGED <<cli, conn, session, log, overrun>>
    /\ UNCHANGED <<ret, batch, cur, guard, rn, in, out, ncp, host, got, used, ran, rstacked>>

\* bridge_drop_client: the session fields keep their values until the next
\* accept; only the receive buffer is cleared.
bridge_drop_client ==
    /\ conn' = [conn EXCEPT ![cli] = "closed"]
    /\ cli' = None

\* The drain at the end of every turn of the loop.
EndTurnWithoutDrain == pc' = "poll" /\ UNCHANGED <<ret, guard>>
EndTurn == pc' = "drain" /\ ret' = "poll" /\ guard' = 0

\* read() is called only when poll() saw data or the end of the stream.
ReadUnchecked == cli # None
ReadReady == revents.in

\* What a read() of k frames leaves behind.
UnreadOverlaps(s, k) == SubSeq(s, k, Len(s))
Unread(s, k) == SubSeq(s, k + 1, Len(s))

\* POLLERR or POLLHUP: drop the client and start the loop over.
IoHangup ==
    /\ pc = "io" /\ revents.hup
    /\ bridge_drop_client
    /\ pc' = "poll"
    /\ UNCHANGED <<ret, revents, batch, cur, guard, rn, session, in, out, ncp, host, got,
                   used, history>>

\* POLLIN: a blocking read() of whatever has arrived, or the end of file.
IoRead ==
    /\ pc = "io" /\ ~revents.hup /\ ReadReady
    /\ \/ \E k \in 1..Len(in[cli]) :
            /\ batch' = SubSeq(in[cli], 1, k)
            /\ in' = [in EXCEPT ![cli] = Unread(@, k)]
            /\ pc' = "feed"
            /\ UNCHANGED <<cli, conn, ret, guard>>
       \/ /\ in[cli] = <<>> /\ conn[cli] = "gone"
          /\ bridge_drop_client
          /\ EndTurn
          /\ UNCHANGED <<batch, in>>
    /\ UNCHANGED <<revents, cur, rn, session, out, ncp, host, got, used, history>>

\* Nothing from the client: the timeout, an nHOST_INT edge or an accept.
IoNone ==
    /\ pc = "io" /\ ~revents.hup /\ ~ReadReady
    /\ EndTurn
    /\ UNCHANGED <<revents, batch, cur, rn, cli, session, conn, in, out, ncp, host, got,
                   used, history>>

\* bridge_feed has handled everything that was read.
FeedEnd ==
    /\ pc = "feed" /\ batch = <<>>
    /\ EndTurn
    /\ UNCHANGED <<revents, batch, cur, rn, cli, session, conn, in, out, ncp, host, got,
                   used, history>>

(***************************************************************************)
(* bridge_handle_frame                                                     *)
(***************************************************************************)
\* The next frame of what was read is handled once.
NextIs(t) == pc = "feed" /\ batch # <<>> /\ Head(batch).t = t /\ batch' = Tail(batch)

NcpReset == agreed' = FALSE /\ cbq' = <<>> /\ epoch' = epoch + 1

\* bridge_reset
HandleRst ==
    /\ NextIs("RST")
    /\ NcpReset
    /\ FreshNumbers /\ ResetFlags
    /\ ash_send(<<[t |-> "RSTACK"]>>, "feed")
    /\ rstacked' = rstacked \cup {cli}
    /\ UNCHANGED <<ret, revents, cur, guard, rn, cli, conn, in, host, got, used, ran>>

\* An ACK, a control frame only an NCP sends, or DATA without a payload: ignored.
HandleIgnored ==
    /\ NextIs("ACK") \/ NextIs("OTHER")
    /\ UNCHANGED <<pc, ret, revents, cur, guard, rn, cli, session, conn, in, out, ncp, host,
                   got, used, history>>

HandleNak ==
    /\ NextIs("NAK")
    /\ rn' = Head(batch).num /\ pc' = "resend"
    /\ UNCHANGED <<ret, revents, cur, guard, cli, session, conn, in, out, ncp, host, got,
                   used, history>>

\* ash_retransmit: every slot from the one asked for up to, not including, frm.
ResendDoneLate == rn = NextNum(frm)
ResendDone == rn = frm

ResendSlot ==
    /\ pc = "resend" /\ ~ResendDone
    /\ IF sent[rn] = Empty THEN UNCHANGED <<pc, out>>
       ELSE ash_send(<<[sent[rn] EXCEPT !.retx = TRUE]>>, "resend")
    /\ rn' = NextNum(rn)
    /\ UNCHANGED <<ret, revents, batch, cur, guard, cli, session, conn, in, ncp, host, got,
                   used, history>>

ResendEnd ==
    /\ pc = "resend" /\ ResendDone
    /\ rn' = 0 /\ pc' = "feed"
    /\ UNCHANGED <<ret, revents, batch, cur, guard, cli, session, conn, in, out, ncp, host,
                   got, used, history>>

\* DATA is served only once the client's RST has been answered.
MayServeAlways == TRUE
MayServe == ready

\* DATA before RST: the client skipped the handshake.
HandleDataEarly ==
    /\ NextIs("DATA") /\ ~MayServe
    /\ UNCHANGED <<pc, ret, revents, cur, guard, rn, cli, session, conn, in, out, ncp, host,
                   got, used, history>>

\* DATA: acknowledge, then touch SPI (Relay).
HandleData ==
    /\ NextIs("DATA") /\ MayServe
    /\ LET a == NextNum(Head(batch).num)
       IN  /\ ack' = a
           /\ ash_send(<<[t |-> "ACK", num |-> a]>>, "relay")
    /\ cur' = Head(batch).cmd
    /\ UNCHANGED <<ret, revents, guard, rn, cli, ready, negotiated, frm, ver, sent, conn, in,
                   ncp, host, got, used, history>>

\* The NCP's side of one command.
NcpExecutes(cmd) ==
    /\ agreed' = IF cmd.asks # 0 THEN cmd.asks = NcpVersion ELSE agreed
    /\ ran' = IF cmd.asks # 0 \/ agreed THEN Append(ran, cmd) ELSE ran

Reply(cmd, size) ==
    [src |-> "reply", by |-> cmd.by, n |-> cmd.n, epoch |-> epoch, full |-> size,
     len |-> size, ver |-> IF cmd.asks # 0 THEN NcpVersion ELSE 0]

\* Adopt the version the NCP reports when the command was a version command.
Sniffs(cmd) == cmd.asks # 0 /\ ezsp_layout(ver) = cmd.layout

Relay ==
    /\ pc = "relay"
    /\ NcpExecutes(cur)
    /\ \E size \in Sizes : ash_send_data(Relayed(Reply(cur, size)), "drain")
    /\ ver' = IF Sniffs(cur) THEN NcpVersion ELSE ver
    /\ negotiated' = (negotiated \/ Sniffs(cur))
    /\ cur' = None /\ ret' = "feed" /\ guard' = 0
    /\ UNCHANGED <<revents, batch, rn, cli, ready, ack, conn, in, cbq, epoch, host, got, used,
                   rstacked>>

\* do_cmd ends in anything but an EZSP frame, whether or not the NCP has
\* executed the command: the bridge says nothing.
RelayFails ==
    /\ pc = "relay"
    /\ Spend("fault")
    /\ NcpExecutes(cur) \/ UNCHANGED <<agreed, ran>>
    /\ cur' = None /\ pc' = "feed"
    /\ UNCHANGED <<ret, revents, batch, guard, rn, cli, session, conn, in, out, cbq, epoch,
                   host, got, log, rstacked, overrun>>

(***************************************************************************)
(* bridge_drain_callbacks                                                  *)
(***************************************************************************)
DrainStops ==
    \/ cli = None \/ ~ready \/ ~negotiated \/ ~HasHint
    \/ guard >= DrainMax
    \/ cbq = <<>>                       \* nHOST_INT is released

DrainReturns ==
    /\ pc = "drain" /\ DrainStops
    /\ pc' = ret
    /\ UNCHANGED <<ret, revents, batch, cur, guard, rn, cli, session, conn, in, out, ncp, host,
                   got, used, history>>

\* The answer to one callback poll.
Polled ==
    IF agreed THEN Head(cbq)
    ELSE [src |-> "invalid", by |-> None, n |-> 0, ver |-> 0, epoch |-> epoch,
          full |-> 1, len |-> 1]

\* A poll the NCP rejects leaves the callback queued or discards it; the
\* model bounds how often it stays.
DrainPoll ==
    /\ pc = "drain" /\ ~DrainStops
    /\ ash_send_data(Relayed(Polled), "drain")
    /\ \/ cbq' = Tail(cbq) /\ used' = used
       \/ ~agreed /\ Spend("kept") /\ cbq' = cbq
    /\ guard' = guard + 1
    /\ UNCHANGED <<ret, revents, batch, cur, rn, cli, ready, negotiated, ack, ver, conn, in,
                   agreed, epoch, host, got, ran, rstacked>>

\* The poll fails on SPI, before or after the NCP took the callback off.
DrainFails ==
    /\ pc = "drain" /\ ~DrainStops
    /\ Spend("fault")
    /\ cbq' \in {cbq, Tail(cbq)}
    /\ pc' = ret
    /\ UNCHANGED <<ret, revents, batch, cur, guard, rn, cli, session, conn, in, out, agreed,
                   epoch, host, got, history>>

\* procd starts a new process; the kernel has closed the old one's sockets.
Respawn ==
    /\ pc = "dead"
    /\ pc' = "poll" /\ ret' = "poll" /\ revents' = NoRevents
    /\ batch' = <<>> /\ cur' = None /\ guard' = 0 /\ rn' = 0
    /\ cli' = None
    /\ conn' = [c \in Clients |-> IF conn[c] = "idle" THEN "idle" ELSE "closed"]
    /\ FreshNumbers /\ AcceptFlags
    /\ UNCHANGED <<in, out, ncp, host, got, used, ran, rstacked>>

(***************************************************************************)
(* The NCP                                                                 *)
(***************************************************************************)
NcpCallback ==
    /\ Spend("callback")
    /\ \E size \in Sizes :
         cbq' = Append(cbq, [src |-> "callback", by |-> None, n |-> used["callback"] + 1,
                             ver |-> 0, epoch |-> epoch, full |-> size, len |-> size])
    /\ UNCHANGED <<loop, cli, session, conn, in, out, agreed, epoch, host, got, history>>

\* A watchdog or assert reset; do_cmd swallows the notification it leaves.
NcpCrash ==
    /\ Spend("crash")
    /\ NcpReset
    /\ UNCHANGED <<loop, cli, session, conn, in, out, host, got, history>>

(***************************************************************************)
(* The clients                                                             *)
(***************************************************************************)
Send(c, f) == in' = [in EXCEPT ![c] = Append(@, f)]
Bridge == <<loop, cli, session, ncp, history>>      \* not touched by a client

Connect(c) ==
    /\ conn[c] = "idle"
    /\ conn' = [conn EXCEPT ![c] = "backlog"]
    /\ UNCHANGED <<Bridge, in, out, host, got, used>>

Usable(c) == conn[c] \in {"backlog", "open"}

HostRst(c) ==
    /\ Usable(c) /\ Spend("rst")
    /\ host' = [host EXCEPT ![c] = [NoHost EXCEPT !.st = "wait"]]
    /\ Send(c, [t |-> "RST"])
    /\ UNCHANGED <<Bridge, conn, out, got>>

\* The version the client knows the NCP to speak decides its header layout.
HostVersion(c) ==
    IF \E i \in 1..Len(got[c]) : got[c][i].ver # 0 THEN NcpVersion ELSE 4

HostSend(c) ==
    /\ Usable(c) /\ host[c].st # "wait" /\ Spend("cmd")
    /\ Len(host[c].unacked) < Window - 1
    /\ \E v \in Versions \cup {0} :
         LET f == [t |-> "DATA", num |-> host[c].tx, retx |-> FALSE,
                   cmd |-> [by |-> c, n |-> used["cmd"] + 1, asks |-> v,
                            layout |-> ezsp_layout(HostVersion(c))]]
         IN  /\ Send(c, f)
             /\ host' = [host EXCEPT ![c].tx = (@ + 1) % Window,
                                     ![c].unacked = Append(@, f)]
    /\ UNCHANGED <<Bridge, conn, out, got>>

\* The acknowledgement timer of the oldest frame expires.
HostRetransmit(c) ==
    /\ Usable(c) /\ host[c].unacked # <<>> /\ Spend("retx")
    /\ Send(c, [Head(host[c].unacked) EXCEPT !.retx = TRUE])
    /\ UNCHANGED <<Bridge, conn, out, host, got>>

\* A NAK out of the blue, with any number.
HostNak(c) ==
    /\ Usable(c) /\ host[c].st # "wait" /\ Spend("nak")
    /\ \E n \in Nums : Send(c, [t |-> "NAK", num |-> n])
    /\ UNCHANGED <<Bridge, conn, out, host, got>>

\* Control frames without effect on the bridge.
HostIdleFrame(c) ==
    /\ Usable(c) /\ host[c].st = "on" /\ Spend("idle")
    /\ \E t \in {"ACK", "OTHER"} : Send(c, [t |-> t])
    /\ UNCHANGED <<Bridge, conn, out, host, got>>

\* ackNum a acknowledges the frames before it, if it is in the window.
Unacked(c, a) ==
    LET u == host[c].unacked
        k == (a - (host[c].tx - Len(u)) + 2 * Window) % Window
    IN  IF k <= Len(u) THEN SubSeq(u, k + 1, Len(u)) ELSE u

HostReceive(c) ==
    /\ Usable(c) /\ out[c] # <<>>
    /\ out' = [out EXCEPT ![c] = Tail(@)]
    /\ LET f == Head(out[c])
           expected == Len(got[c]) % Window
       IN  \/ /\ f.t = "RSTACK"
              /\ host' = [host EXCEPT ![c] = [NoHost EXCEPT !.st = "on"]]
              /\ got' = [got EXCEPT ![c] = <<>>]
              /\ in' = in
           \/ /\ f.t = "ACK" \/ (f.t = "DATA" /\ host[c].st # "on")
              /\ host' = IF f.t = "ACK" /\ host[c].st = "on"
                         THEN [host EXCEPT ![c].unacked = Unacked(c, f.num)] ELSE host
              /\ UNCHANGED <<got, in>>
           \/ /\ f.t = "DATA" /\ host[c].st = "on" /\ f.num = expected
              /\ got' = [got EXCEPT ![c] = Append(@, f.body)]
              /\ host' = [host EXCEPT ![c].rej = FALSE,
                                      ![c].unacked = Unacked(c, f.ack)]
              /\ in' = in
           \/ /\ f.t = "DATA" /\ host[c].st = "on" /\ f.num # expected
              /\ host' = [host EXCEPT ![c].rej = TRUE]
              /\ IF host[c].rej \/ f.retx THEN in' = in
                 ELSE Send(c, [t |-> "NAK", num |-> expected])
              /\ got' = got
    /\ UNCHANGED <<Bridge, conn, used>>

\* The client's end discards a DATA frame (its own framing error or overflow).
HostLose(c) ==
    /\ Usable(c) /\ out[c] # <<>> /\ Head(out[c]).t = "DATA" /\ Spend("lose")
    /\ out' = [out EXCEPT ![c] = Tail(@)]
    /\ UNCHANGED <<Bridge, conn, in, host, got>>

\* Hanging up; with a TCP reset what the client sent last is lost too.
HostHangup(c) ==
    /\ Usable(c) /\ Spend("hang")
    /\ conn' = [conn EXCEPT ![c] = IF @ = "open" THEN "gone" ELSE "backgone"]
    /\ in' \in {in, [in EXCEPT ![c] = <<>>]}
    /\ UNCHANGED <<Bridge, out, host, got>>

-----------------------------------------------------------------------------
BridgeStep ==
    \/ PollWake \/ IoHangup \/ IoRead \/ IoNone
    \/ FeedEnd \/ HandleRst \/ HandleIgnored \/ HandleNak \/ ResendSlot \/ ResendEnd
    \/ HandleDataEarly \/ HandleData
    \/ Relay \/ RelayFails
    \/ DrainReturns \/ DrainPoll \/ DrainFails
    \/ Respawn

HostStep(c) ==
    \/ Connect(c) \/ HostRst(c) \/ HostSend(c) \/ HostRetransmit(c) \/ HostNak(c)
    \/ HostIdleFrame(c) \/ HostReceive(c) \/ HostLose(c) \/ HostHangup(c)

Next == BridgeStep \/ NcpCallback \/ NcpCrash \/ \E c \in Clients : HostStep(c)

Spec == Init /\ [][Next]_vars

\* The process keeps running: poll() has a timeout and nothing but a read()
\* on a client without data blocks (the model's IoRead is disabled there).
FairSpec == Spec /\ WF_vars(BridgeStep)
=============================================================================
