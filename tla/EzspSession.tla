---------------------------- MODULE EzspSession ----------------------------
(***************************************************************************)
(* The EZSP session: ezsp_init and its two-step version negotiation, the   *)
(* version-dependent frame header of ezsp_xfer, and the commands that run  *)
(* on top of them (scan, neighbors, keys, policy, config, info, status,    *)
(* permit, power, verify, bootloader, and run with its control requests),  *)
(* each a program of EZSP queries.                                         *)
(*                                                                         *)
(* The NCP (external) takes version() only as the first command after a    *)
(* reset, in the v4 layout; it answers anything else it does not accept -  *)
(* a frame in another layout, or any command before a version is agreed -  *)
(* with invalidCommand, in the layout it is using itself.  It may reset by *)
(* itself, which do_cmd hides: it repeats the command that met the reset   *)
(* notification (SpiLink).                                                 *)
(***************************************************************************)
EXTENDS ZclBasic

CONSTANTS
    NcpVersions,   \* EZSP versions an NCP may speak
    Wants,         \* cfg.ezsp_want
    Chips, Image,  \* chips (platform, micro, phy), and the one an image is built for
    Counts,        \* table sizes an NCP reports
    HostLens,      \* lengths of the host name
    Messages,      \* incoming messages
    ScanPolls,     \* callbacks polled for by scan: 240
    ConfigIds,     \* ids read by config: 64
    MaxCmds,       \* bound on the commands
    Limit          \* bound on the other events named in Budgets

Budgets == {"fault", "event"}

ASSUME EzspAssumption ==
    /\ NcpVersions \subseteq 4..255 /\ Wants \subseteq 4..255
    /\ Chips \subseteq [1..3 -> 0..255] /\ Image \in [1..3 -> 0..255]
    /\ Counts \subseteq 0..255 /\ HostLens \subseteq 0..31
    /\ {ScanPolls, ConfigIds} \subseteq 1..255
    /\ MaxCmds \in Nat \ {0} /\ Limit \in [Budgets -> Nat]

\* A message has its header and at most a stray byte, or is cut short inside it.
ASSUME MessageAssumption ==
    \A m \in Messages :
        /\ m.hdr \in Nat /\ m.manuf \in BOOLEAN /\ m.attrs \in Seq(Nat)
        /\ \/ m.hdr \in {FirstId(m), FirstId(m) + 1}
           \/ m.hdr < FirstId(m) /\ m.attrs = <<>>

VARIABLES
    pc,            \* where it is: in ezsp_init, a query, the daemon's loop
    cmd,           \* the command that runs
    prog, k, i,    \* the queries it makes; the current one and its repetition
    count,         \* the table size read last, or the networks found
    ver,           \* cfg.ezsp_version: the layout the host uses
    want,          \* params[0] of version()
    rc,            \* what the last command returned
    setup,         \* [speaks, chip: what the NCP is; want: cfg.ezsp_want]
    ncp,           \* NCP: [agreed: version or 0, first: no command since reset]
    crashed,       \* history: the NCP has reset since it was asked its version
    shown,         \* history: the result just used, and what it came from
    ans,           \* a Read Attributes request and the response about to be sent
    ncmds, used

session == <<pc, cmd, prog, k, i, count>>
vars    == <<session, ver, want, rc, setup, ncp, crashed, shown, ans, ncmds, used>>

Spend(b) == used[b] < Limit[b] /\ used' = [used EXCEPT ![b] = @ + 1]

(***************************************************************************)
(* Frames                                                                  *)
(***************************************************************************)
Id == [version |-> 0, addEndpoint |-> 2, callback |-> 6, noCallbacks |-> 7,
       networkInit |-> 23, networkState |-> 24, startScan |-> 26, networkFound |-> 27,
       scanComplete |-> 28, permit |-> 34, eui64 |-> 38, nodeId |-> 39, parameters |-> 40,
       parentChild |-> 41, sendUnicast |-> 52, child |-> 74, config |-> 82, setConfig |-> 83,
       policy |-> 86, invalid |-> 88, key |-> 106, neighbor |-> 121, neighborCount |-> 122,
       route |-> 123, bootloader |-> 145, power |-> 153]

Hdr(v) == IF v >= 5 THEN 5 ELSE 3
IdOff(v) == IF v >= 8 THEN 3 ELSE IF v >= 5 THEN 4 ELSE 2

\* Sequence number and frame control of a reply are of no consequence.
Header(v, id) ==
    IF v >= 8 THEN <<0, 128, 1, id, 0>>
    ELSE IF v >= 5 THEN <<0, 128, 255, 0, id>>
    ELSE <<0, 128, id>>

SameLayout(v, w) == Hdr(v) = Hdr(w) /\ IdOff(v) = IdOff(w)

OutLen == 40       \* as much of out[] as any command looks at

\* What ezsp_xfer makes of a frame.  What the frame does not reach of out[] is
\* an earlier reply's or uninitialised: 0, EMBER_SUCCESS, is the worst it can
\* hold.
Parsed(v, frame) == Len(frame) - Hdr(v)
Copied(v, frame) ==
    [j \in 1..OutLen |-> IF j <= Parsed(v, frame) THEN frame[Hdr(v) + j] ELSE 0]

(***************************************************************************)
(* The NCP                                                                 *)
(***************************************************************************)
Fill(l, b) == [j \in 1..l |-> b]

\* Length of an answer, and whether it starts with a status.
AnswerLen ==
    [addEndpoint |-> 1, networkInit |-> 1, networkState |-> 1, startScan |-> 1, permit |-> 1,
     eui64 |-> 8, nodeId |-> 2, parameters |-> 14, parentChild |-> 11, sendUnicast |-> 2,
     child |-> 12, config |-> 3, setConfig |-> 1, policy |-> 2, key |-> 37, neighbor |-> 15,
     neighborCount |-> 1, route |-> 7, bootloader |-> 5, power |-> 1]
Plain == {"networkState", "eui64", "nodeId", "parentChild", "neighborCount", "bootloader"}

\* Unjoined, the fields behind a bad status are uninitialised fill.
Payloads(q) ==
    IF q = "bootloader" THEN {<<0, 84>> \o setup.chip}
    ELSE IF q \in Plain THEN {Fill(AnswerLen[q], c) : c \in Counts}
    ELSE {<<s>> \o Fill(AnswerLen[q] - 1, 7) : s \in {0, 147}}

Layout == IF ncp.agreed = 0 THEN 4 ELSE ncp.agreed

Accepts(q) ==
    /\ SameLayout(ver, Layout)
    /\ IF q = "version" THEN ncp.first ELSE ncp.agreed # 0

Callbacks == {<<Id.networkFound, Fill(16, 1)>>, <<Id.scanComplete, <<11, 0>>>>,
              <<Id.noCallbacks, <<>>>>}

\* The answers the NCP may give to query q: the frame and what was carried out.
NcpAnswers(q) ==
    IF ~Accepts(q)
    THEN {[by |-> "nothing", frame |-> Header(Layout, Id.invalid) \o <<48>>]}
    ELSE IF q = "version"
    THEN {[by |-> q, frame |-> Header(Layout, Id.version) \o <<setup.speaks, 2, 128, 88>>]}
    ELSE IF q = "callback"
    THEN {[by |-> q, frame |-> Header(Layout, c[1]) \o c[2]] : c \in Callbacks}
    ELSE {[by |-> IF q \in Plain \/ p[1] = 0 THEN q ELSE "refused",
           frame |-> Header(Layout, Id[q]) \o p] : p \in Payloads(q)}

\* A version is agreed when it is asked for by its own number; arg is 0 for any
\* other command.
NcpHears(q, arg) ==
    /\ ncp' = [agreed |-> IF q = "version" /\ Accepts(q) /\ arg = setup.speaks THEN arg
                          ELSE ncp.agreed,
               first |-> FALSE]
    /\ crashed' = (crashed /\ arg = 0)

Fresh == [agreed |-> 0, first |-> TRUE]

NcpCrash ==
    /\ Spend("fault")
    /\ ncp' = Fresh /\ crashed' = TRUE
    /\ UNCHANGED <<session, ver, want, rc, setup, shown, ans, ncmds>>

(***************************************************************************)
(* ezsp_xfer, through do_cmd: answered, or lost before or behind the NCP.  *)
(* A result is the length, -1 for none, the frame id and the payload;      *)
(* history: `by' is the query the NCP carried out.                         *)
(***************************************************************************)
NoReply == [n |-> -1, got |-> 0, out |-> Fill(OutLen, 0), by |-> "nothing"]

Received(a) ==
    IF Parsed(ver, a.frame) < 0 THEN NoReply
    ELSE [n |-> Parsed(ver, a.frame), got |-> a.frame[IdOff(ver) + 1],
          out |-> Copied(ver, a.frame), by |-> a.by]

Replies(q) == {Received(a) : a \in NcpAnswers(q)} \cup {NoReply}

ezsp_xfer(q, arg, res) ==
    \/ /\ res \in {Received(a) : a \in NcpAnswers(q)}
       /\ NcpHears(q, arg) /\ UNCHANGED used
    \/ /\ res = NoReply /\ Spend("fault")
       /\ NcpHears(q, arg) \/ UNCHANGED <<ncp, crashed>>

(***************************************************************************)
(* The commands.  min: bytes a reply needs to be used; status: its first   *)
(* byte must be EMBER_SUCCESS; stop: what ends the command early; reps:    *)
(* how often it is asked, Table meaning the size read just before.         *)
(***************************************************************************)
Table == -1
Ask(q, min) == [q |-> q, min |-> min, status |-> FALSE, stop |-> "never", reps |-> 1]
Checked(q, min) == [Ask(q, min) EXCEPT !.status = TRUE]
Until(s, stop) == [s EXCEPT !.stop = stop]
Times(s, reps) == [s EXCEPT !.reps = reps]

ezsp_poll_callback == Ask("callback", 0)
ezsp_set_config == Checked("setConfig", 1)
ezsp_add_endpoint == Checked("addEndpoint", 1)
ezsp_permit == Checked("permit", 1)
ezsp_set_power == Checked("power", 1)

ezsp_apply_config == <<Times(ezsp_set_config, 4), ezsp_add_endpoint>>
StackUp(stop) == ezsp_apply_config \o <<Until(Checked("networkInit", 1), stop)>>

control_status ==
    <<Ask("networkState", 1), Ask("eui64", 8), Ask("nodeId", 2), Checked("parameters", 14)>>
cmd_info ==
    StackUp("never")
    \o <<Ask("eui64", 8), Ask("nodeId", 2), Ask("networkState", 1), Checked("parameters", 14)>>
cmd_status == StackUp("never") \o control_status
Neighbors ==
    <<Ask("neighborCount", 1), Times(Checked("neighbor", 15), Table), Times(Checked("route", 7), 16)>>
cmd_neighbors == StackUp("refused") \o <<Ask("parentChild", 11)>> \o Neighbors
cmd_keys == StackUp("never") \o <<Times(Checked("key", 37), 2)>>
cmd_policy == <<Times(Checked("policy", 2), 9)>>
cmd_config == <<Times(Checked("config", 3), ConfigIds)>>
cmd_permit == StackUp("refused") \o <<Until(ezsp_permit, "failed")>>
cmd_power == StackUp("never") \o <<Until(ezsp_set_power, "failed")>>
cmd_scan ==
    <<Until(Checked("startScan", 1), "failed"), Times(Until(ezsp_poll_callback, "complete"), ScanPolls)>>
cmd_verify == <<Until(Ask("bootloader", 5), "failed")>>
cmd_bootloader == <<Until(Ask("bootloader", 5), "failed")>>
cmd_run ==
    ezsp_apply_config
    \o <<Ask("eui64", 8), Until(Checked("networkInit", 1), "done"), Ask("networkState", 1)>>

Program ==
    [scan |-> cmd_scan, neighbors |-> cmd_neighbors, keys |-> cmd_keys, policy |-> cmd_policy,
     config |-> cmd_config, info |-> cmd_info, status |-> cmd_status, permit |-> cmd_permit,
     power |-> cmd_power, verify |-> cmd_verify, bootloader |-> cmd_bootloader, run |-> cmd_run]

\* Requests on the control socket of a running daemon.
control_accept ==
    [status |-> control_status, scan |-> <<Checked("startScan", 1)>>, neighbors |-> Neighbors,
     children |-> <<Ask("parentChild", 1), Times(Checked("child", 12), Table)>>,
     power |-> <<ezsp_set_power>>, permit |-> <<ezsp_permit>>]

Nothing == [q |-> "nothing", by |-> "nothing", bare |-> FALSE]
NoAnswer == [asked |-> <<>>, ids |-> <<>>, long |-> FALSE]

Init ==
    /\ pc = "idle" /\ cmd = "info" /\ prog = <<>> /\ k = 1 /\ i = 0 /\ count = 0
    /\ ver = 4 /\ rc = 0
    /\ setup \in [speaks: NcpVersions, chip: Chips, want: Wants]
    /\ want = setup.want /\ ncp = Fresh /\ crashed = FALSE
    /\ shown = Nothing /\ ans = NoAnswer /\ ncmds = 0 /\ used = [b \in Budgets |-> 0]

\* pins_open, ncp_reset unless --no-reset, and into ezsp_init.
Start(c, noReset) ==
    /\ pc = "idle" /\ ncmds < MaxCmds
    /\ ncmds' = ncmds + 1
    /\ cmd' = c /\ pc' = "ask" /\ prog' = <<>> /\ k' = 1 /\ i' = 0 /\ count' = 0
    /\ ver' = 4 /\ want' = setup.want
    /\ rc' = 0 /\ shown' = Nothing /\ ans' = NoAnswer
    /\ IF noReset THEN UNCHANGED <<ncp, crashed>> ELSE ncp' = Fresh /\ crashed' = FALSE
    /\ UNCHANGED <<setup, used>>

Fails == pc' = "idle" /\ rc' = 1 /\ UNCHANGED <<prog, ver>>

\* The version is settled; one newer than 8 is refused.
AnyKnown(v) == TRUE
Known(v) == v <= 8

Agreed(v) ==
    /\ ver' = v
    /\ IF Known(v) THEN pc' = "step" /\ prog' = Program[cmd] /\ UNCHANGED rc
       ELSE pc' = "idle" /\ rc' = 1 /\ UNCHANGED prog

\* ezsp_init asks for the version it was configured with.
AskVersion ==
    /\ pc = "ask"
    /\ \E res \in Replies("version") :
         /\ ezsp_xfer("version", want, res)
         /\ \/ res.n < 3 /\ Fails /\ UNCHANGED want
            \/ res.n >= 3 /\ res.out[1] = want /\ Agreed(want) /\ UNCHANGED want
            \/ /\ res.n >= 3 /\ res.out[1] # want
               /\ want' = res.out[1] /\ pc' = "reset" /\ UNCHANGED <<rc, prog, ver>>
    /\ UNCHANGED <<cmd, k, i, count, setup, shown, ans, ncmds>>

\* ... and once more, behind a reset, for the version it was told.
ResetToAskAgain ==
    /\ pc = "reset"
    /\ ncp' = Fresh /\ crashed' = FALSE
    /\ pc' = "again"
    /\ UNCHANGED <<cmd, prog, k, i, count, ver, want, rc, setup, shown, ans, ncmds, used>>

AnyVersion(res) == TRUE
Converged(res) == res.out[1] = want

AskAgain ==
    /\ pc = "again"
    /\ \E res \in Replies("version") :
         /\ ezsp_xfer("version", want, res)
         /\ IF res.n >= 3 /\ Converged(res) THEN Agreed(res.out[1]) ELSE Fails
    /\ UNCHANGED <<cmd, k, i, count, want, setup, shown, ans, ncmds>>

(***************************************************************************)
(* One query of a command                                                  *)
(***************************************************************************)
Reps(s) ==
    IF s.reps # Table THEN s.reps
    ELSE IF s.q = "child" /\ count > 8 THEN 8 ELSE count

TakenUnchecked(s, res) == res.n >= 1
Taken(s, res) ==
    IF s.q = "callback" THEN res.n >= 0 /\ res.got = Id.networkFound
    ELSE res.n >= s.min /\ (s.status => res.out[1] = 0)

\* The query is the last one of the command.
Stops(s, res) ==
    CASE s.stop = "never"    -> FALSE
      [] s.stop = "refused"  -> res.n >= 1 /\ res.out[1] # 0
      [] s.stop = "failed"   -> ~Taken(s, res)
      [] s.stop = "done"     -> Taken(s, res)
      [] s.stop = "complete" -> res.n >= 0 /\ res.got = Id.scanComplete

\* The image is for this chip.
MatchesMicro(res) == \A j \in 1..2 : res.out[j + 2] = Image[j]
Matches(res) == \A j \in 1..3 : res.out[j + 2] = Image[j]

Counted(s, res) ==
    CASE s.q \in {"neighborCount", "parentChild"} -> IF res.n >= 1 THEN res.out[1] ELSE 0
      [] s.q = "callback" /\ Taken(s, res)        -> 1
      [] OTHER                                    -> count

Code(s, res) ==
    CASE cmd = "scan"   -> IF s.q = "callback" /\ Counted(s, res) > 0 THEN 0 ELSE 1
      [] cmd = "verify" -> IF Taken(s, res) /\ Matches(res) THEN 0 ELSE 1
      [] OTHER          -> IF s.stop # "done" /\ Stops(s, res) THEN 1 ELSE 0

Home == IF cmd = "run" THEN "serve" ELSE "idle"

Query ==
    /\ pc = "step" /\ Reps(prog[k]) > i
    /\ LET s == prog[k]
           last == i + 1 >= Reps(s)
       IN  \E res \in Replies(s.q) :
           /\ ezsp_xfer(s.q, 0, res)
           /\ shown' = IF ~Taken(s, res) THEN Nothing
                       ELSE [q |-> s.q, by |-> res.by, bare |-> ~s.status /\ s.min = 1]
           /\ count' = Counted(s, res)
           /\ i' = IF last THEN 0 ELSE i + 1
           /\ k' = IF last THEN k + 1 ELSE k
           /\ IF Stops(s, res) \/ (last /\ k = Len(prog))
              THEN pc' = Home /\ rc' = Code(s, res)
              ELSE UNCHANGED <<pc, rc>>
    /\ UNCHANGED <<cmd, prog, ver, want, setup, ans, ncmds>>

\* An empty table.
NoEntries ==
    /\ pc = "step" /\ Reps(prog[k]) = 0
    /\ k' = k + 1
    /\ pc' = IF k < Len(prog) THEN pc ELSE Home
    /\ UNCHANGED <<cmd, prog, i, count, ver, want, rc, setup, ncp, crashed, shown, ans,
                   ncmds, used>>

(***************************************************************************)
(* The daemon                                                              *)
(***************************************************************************)
Serve(r) ==
    /\ pc = "serve" /\ Spend("event")
    /\ prog' = control_accept[r] /\ k' = 1 /\ i' = 0 /\ pc' = "step"
    /\ UNCHANGED <<cmd, count, ver, want, rc, setup, ncp, crashed, shown, ans, ncmds>>

\* A message that was polled for; a request is worth a response.
Incoming(m) ==
    /\ pc = "serve" /\ Accepts("callback") /\ Spend("event")
    /\ \E hostlen \in HostLens :
         LET resp == zcl_handle_incoming(m, hostlen)
         IN  IF IsRead(m) /\ UnicastFits(resp.at)
             THEN /\ pc' = "unicast"
                  /\ ans' = [asked |-> m.attrs, ids |-> resp.ids, long |-> hostlen > 27]
             ELSE UNCHANGED <<pc, ans>>
    /\ UNCHANGED <<cmd, prog, k, i, count, ver, want, rc, setup, ncp, crashed, shown, ncmds>>

\* What becomes of it is not looked at.
zcl_send ==
    /\ pc = "unicast"
    /\ \E res \in Replies("sendUnicast") : ezsp_xfer("sendUnicast", 0, res)
    /\ pc' = "serve" /\ ans' = NoAnswer
    /\ UNCHANGED <<cmd, prog, k, i, count, ver, want, rc, setup, shown, ncmds>>

\* procd ends the daemon for the next command.
Stop ==
    /\ pc = "serve" /\ pc' = "idle"
    /\ UNCHANGED <<cmd, prog, k, i, count, ver, want, rc, setup, ncp, crashed, shown, ans,
                   ncmds, used>>

Next ==
    \/ \E c \in DOMAIN Program, noReset \in BOOLEAN : Start(c, noReset)
    \/ AskVersion \/ ResetToAskAgain \/ AskAgain \/ Query \/ NoEntries
    \/ \E r \in DOMAIN control_accept : Serve(r)
    \/ \E m \in Messages : Incoming(m)
    \/ zcl_send \/ Stop \/ NcpCrash

Spec == Init /\ [][Next]_vars

-----------------------------------------------------------------------------
\* Every variable has its type: a program of queries is never read past its
\* last one, and commands run only in a version whose layout is known.
TypeOK ==
    /\ pc \in {"idle", "ask", "reset", "again", "step", "serve", "unicast"}
    /\ pc = "step" => k \in 1..Len(prog) /\ i \in 0..255
    /\ pc \in {"step", "serve", "unicast"} => ver \in 4..8
    /\ ver \in 0..255 /\ want \in 0..255 /\ rc \in {0, 1} /\ count \in 0..255
    /\ ncp \in [agreed: NcpVersions \cup {0}, first: BOOLEAN]

\* ezsp.c:143, "Negotiation has to converge": once ezsp_init has succeeded, the
\* NCP has agreed to the version whose layout the host uses, whether the NCP
\* was reset before, was left in another session (--no-reset), whose answer is
\* misread, or spoke another version than the configured one.
InitMeansAgreed == pc \in {"step", "serve", "unicast"} /\ ~crashed => ncp.agreed = ver

\* A result that a command prints or acts on was given by the NCP for that very
\* query, and with success: neither invalidCommand in whatever layout, nor the
\* fill behind a bad status, nor the rest of an earlier reply is taken for one.
\* The single bytes that are used unchecked, in a v4 session whose NCP has
\* reset, are the exception: there invalidCommand looks like an answer.
ReportsGenuine == shown.by = shown.q \/ (shown.bare /\ ver < 5 /\ crashed)

\* A command that returns 0 without the help of a daemon has done what it is
\* for: the window is open, the power is set, the bootloader has answered, and
\* an image that verify calls "safe to flash on this chip" is for this chip.
ExitZeroIsTrue ==
    pc = "idle" /\ rc = 0 /\ ncmds > 0 =>
        /\ cmd \in {"permit", "power"} => shown.by = cmd
        /\ cmd \in {"bootloader", "verify"} => shown.by = "bootloader"
        /\ cmd = "verify" => Image = setup.chip

\* The answer to Read Attributes has a record for each attribute that was
\* asked for, in that order, and for nothing else, or is not sent at all.
\* With a host name longer than 27 bytes its record can be left out.
AnswersWhatWasAsked == ~ans.long => ans.ids = ans.asked
=============================================================================
