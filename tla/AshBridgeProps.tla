--------------------------- MODULE AshBridgeProps ---------------------------
(***************************************************************************)
(* What the bridge of AshBridge has to guarantee.                          *)
(***************************************************************************)
EXTENDS AshBridge

HostStates == [st: {"off", "wait", "on"}, tx: Nums, unacked: Seq(DataIn), rej: BOOLEAN]

LoopType ==
    /\ pc \in {"poll", "io", "feed", "resend", "relay", "drain", "dead"}
    /\ ret \in {"poll", "feed"}
    /\ revents \in [in: BOOLEAN, hup: BOOLEAN]
    /\ batch \in Seq(InFrames)
    /\ cur \in Commands \cup {None}
    /\ pc = "relay" => cur \in Commands
    /\ guard \in 0..DrainMax /\ rn \in Nums

SessionType ==
    /\ cli \in Clients \cup {None}
    /\ ready \in BOOLEAN /\ negotiated \in BOOLEAN
    /\ frm \in Nums /\ ack \in Nums /\ ver \in {4, NcpVersion}
    /\ sent \in [Nums -> DataOut \cup {Empty}]

PeerType ==
    /\ conn \in [Clients -> {"idle", "backlog", "backgone", "open", "gone", "closed"}]
    /\ in \in [Clients -> Seq(InFrames)]
    /\ out \in [Clients -> Seq(OutFrames)]
    /\ agreed \in BOOLEAN /\ cbq \in Seq(Bodies) /\ epoch \in Nat
    /\ host \in [Clients -> HostStates]
    /\ got \in [Clients -> Seq(Bodies)]
    /\ used \in [Budgets -> Nat]

HistoryType ==
    /\ log \in Seq(Bodies) /\ ran \in Seq(Commands)
    /\ rstacked \subseteq Clients /\ overrun \in BOOLEAN

\* Values of every variable of the bridge, of the channels and of the peers.
TypeOK == LoopType /\ SessionType /\ PeerType /\ HistoryType

(***************************************************************************)
(* Sessions                                                                *)
(***************************************************************************)
\* DESIGN.md, first ordering rule: nothing at all (no reply, no callback, no
\* resent frame of a former client) reaches a client before the RSTACK that
\* answers its RST.
RstackFirst ==
    \A c \in Clients : c \notin rstacked => out[c] = <<>> /\ got[c] = <<>>

\* bridge_handle_frame ignores DATA until the client has reset the NCP: every
\* command the NCP ran came from a client whose RST had been answered.
RunsAfterRst == \A i \in 1..Len(ran) : ran[i].by \in rstacked

\* The handshake comes first, in both directions: a client neither hears from
\* the bridge nor reaches the NCP before its RST has been answered, however
\* clients replace each other.
ResetFirst == RstackFirst /\ RunsAfterRst

\* Position i of out[c] is behind every RSTACK still in flight to c.
CurrentSession(c, i) == \A j \in (i + 1)..Len(out[c]) : out[c][j].t # "RSTACK"

\* The client is still there: what is in flight to one that has hung up, and the
\* answer to its last RST, reach nobody.
Listening == cli # None /\ conn[cli] = "open"

\* Every DATA frame in flight to the connected client, fresh or resent, is one
\* this ASH session produced, under the number it was produced with, and a
\* reply among them answers a command of that very client.
SessionOnly ==
    Listening =>
      \A i \in 1..Len(out[cli]) :
        out[cli][i].t = "DATA" /\ CurrentSession(cli, i) =>
          /\ \E k \in 1..Len(log) :
               out[cli][i].body = log[k] /\ out[cli][i].num = (k - 1) % Window
          /\ out[cli][i].body.src = "reply" => out[cli][i].body.by = cli

\* DESIGN.md, second ordering rule: callbacks are polled in a known layout, the
\* one of the version the NCP itself reported in this session.
LayoutKnown ==
    cli # None => ver = IF negotiated THEN NcpVersion ELSE 4

(***************************************************************************)
(* The relayed stream                                                      *)
(***************************************************************************)
\* "The relay never rewrites a payload": a frame too long for ASH is dropped,
\* never cut, although ezsp_relay truncates to its buffer.
NoTruncation == \A i \in 1..Len(log) : log[i].len = log[i].full

\* The client has consumed every RSTACK that was sent to it.
Synced(c) == host[c].st = "on" /\ \A i \in 1..Len(out[c]) : out[c][i].t # "RSTACK"

Prefix(s, t) == Len(s) <= Len(t) /\ \A i \in 1..Len(s) : s[i] = t[i]

\* As long as fewer than Window frames are outstanding, the client receives
\* what the bridge sent in order, without gap or repetition, whatever it loses
\* and however often it has frames resent.
InOrder == Listening /\ Synced(cli) /\ ~overrun => Prefix(got[cli], log)

\* The abstract session: the connected client's, unless the window was overrun.
Undisturbed == Listening /\ ~overrun
Owner == IF Undisturbed THEN cli ELSE None
Produced == IF Undisturbed THEN log ELSE <<>>
Delivered == IF Undisturbed /\ Synced(cli) THEN got[cli] ELSE <<>>
Session == INSTANCE FrameStream WITH
    owner <- Owner, produced <- Produced, delivered <- Delivered

\* ezsp-spi.h: sent[] holds the "Unacked DATA frames, indexed by frame number,
\* for NAK replies": a frame its client has not accepted can still be resent,
\* as long as the window was not overrun.  Nothing in the bridge prevents that:
\* acknowledgements are ignored, and one drain may send more than a window.
UnackedKept ==
    cli # None /\ Synced(cli) /\ ~overrun =>
      \A k \in (Len(got[cli]) + 1)..Len(log) :
        sent[(k - 1) % Window] # Empty /\ sent[(k - 1) % Window].body = log[k]

\* DATA frames of s.
Datas(s) == {i \in 1..Len(s) : s[i].t = "DATA"}

\* Every DATA frame a client sends is run at most once, wherever the bridge is
\* interrupted.  (Two frames with the same number are two: the bridge does not
\* look at the number, so a command the client repeats is run again.)
RunsWhatWasSent ==
    LET inFlight == UNION {{c} \X Datas(in[c]) : c \in Clients}
    IN  Len(ran) + Cardinality(Datas(batch)) + Cardinality(inFlight)
          + (IF pc = "relay" THEN 1 ELSE 0) <= used["cmd"] + used["retx"]

\* bridge.c:526, "One client owns the radio": a healthy connection is closed
\* only to make room for a newer one (or by the death of the process).
ClosedOnlyToReplace ==
    [][\A c \in Clients :
         conn[c] = "open" /\ conn'[c] = "closed" => pc = "dead" \/ cli' \notin {c, None}]_vars

(***************************************************************************)
(* Progress                                                                *)
(***************************************************************************)
\* A queued callback is collected although an asserted nHOST_INT is not part
\* of the poll set: the timeout and the drain at the end of the loop see to it.
CallbacksDrained ==
    (cli # None /\ negotiated /\ cbq # <<>>) ~> (cli = None \/ ~negotiated \/ cbq = <<>>)

\* The single thread always comes back to poll(), the only place where a new
\* client is accepted.  One thing can hold it up: the revents of a replaced
\* client send it into a read() on its successor, which blocks until that one
\* sends its RST.  Nothing holds it up once a client has been reset.
LoopReturns ==
    (pc # "poll") ~>
      (pc = "poll" \/ (pc = "io" /\ cli # None /\ ~ready /\ conn[cli] = "open" /\ in[cli] = <<>>))
=============================================================================
