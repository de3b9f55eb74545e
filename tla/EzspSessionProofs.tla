------------------------- MODULE EzspSessionProofs -------------------------
(***************************************************************************)
(* Sessions with the NCP, for every set of NCP versions, every configured  *)
(* version, any table and poll limits and any number of commands, losses   *)
(* and resets:                                                             *)
(*                                                                         *)
(*   Negotiated    InitMeansAgreed, from IInv.                             *)
(*   TypeCorrect   TypeOK.                                                 *)
(*   Genuine       ReportsGenuine: what is shown is what the NCP sent.     *)
(*   ExitZero      ExitZeroIsTrue: status 0 means the command was done.    *)
(*   InFull        AnswersWhatWasAsked: a Read Attributes request is       *)
(*                 answered in full or not at all.                         *)
(*                                                                         *)
(* The heart of the first is what a reply to version() can be taken for.   *)
(* An NCP that was left in a session of version 5 or later refuses         *)
(* version() in its own layout, which read in the v4 layout is a reply of  *)
(* three bytes that claims version 88 or 0.  The first is too new; the     *)
(* second must be kept out by the reset in front of the second attempt.    *)
(*                                                                         *)
(* The others rest on SInv: in a session both ends use one layout, so that *)
(* a reply is the answer to its own query, an invalidCommand or nothing    *)
(* (ReplyIs, TakenIs), and every program that promises something checks    *)
(* the answers it depends on (PromiseKept).                                *)
(***************************************************************************)
EXTENDS EzspSession, SequenceTheorems, WellFoundedInduction, TLAPS

Asking == {"ask", "reset", "again"}
Talking == {"step", "serve", "unicast"}

NegotiationOK ==
    /\ pc \in {"idle"} \cup Asking \cup Talking
    /\ ver \in Int /\ want \in Int /\ crashed \in BOOLEAN
    /\ setup \in [speaks: NcpVersions, chip: Chips, want: Wants]
    /\ ncp \in [agreed: NcpVersions \cup {0}, first: BOOLEAN]

IInv ==
    /\ NegotiationOK
    /\ ncp.first => ncp.agreed = 0
    /\ pc \in Asking => ver = 4
    /\ pc = "ask" => want \in Wants
    /\ pc = "again" => ncp.agreed = 0
    /\ InitMeansAgreed

LEMMA Ranges == /\ \A w \in Wants : w \in Int /\ w >= 4
                /\ \A w \in NcpVersions : w \in Int /\ w >= 4
BY EzspAssumption

LEMMA InitInv == Init => IInv
<1> SUFFICES ASSUME Init PROVE IInv
  OBVIOUS
<1>1. ncp = Fresh /\ ncp.agreed = 0 /\ ncp.first
  BY DEF Init, Fresh
<1>2. ncp \in [agreed: NcpVersions \cup {0}, first: BOOLEAN]
  BY <1>1 DEF Fresh
<1>3. setup \in [speaks: NcpVersions, chip: Chips, want: Wants] /\ want \in Int
  BY Ranges DEF Init
<1>4. pc = "idle" /\ ver = 4 /\ crashed = FALSE
  BY DEF Init
<1>5. NegotiationOK
  <2>1. pc \in {"idle"} \cup Asking \cup Talking /\ ver \in Int
    BY <1>4
  <2>2. crashed \in BOOLEAN
    BY <1>4, Zenon
  <2> QED
    BY <1>2, <1>3, <2>1, <2>2, Zenon DEF NegotiationOK
<1>6. pc \notin Asking /\ InitMeansAgreed
  BY <1>4 DEF Asking, InitMeansAgreed
<1> QED
  BY <1>1, <1>4, <1>5, <1>6 DEF IInv, Asking

\* The frames an NCP may answer version() with.
LEMMA VersionFrame ==
    ASSUME NEW v \in Int, NEW x \in Int
    PROVE  /\ Len(Header(4, v) \o <<x, 2, 128, 88>>) = 7
           /\ (Header(4, v) \o <<x, 2, 128, 88>>)[4] = x
<1>1. Header(4, v) = <<0, 128, v>>
  BY DEF Header
<1>2. Len(<<0, 128, v>> \o <<x, 2, 128, 88>>) = 7
  OBVIOUS
<1>3. (<<0, 128, v>> \o <<x, 2, 128, 88>>)[4] = x
  OBVIOUS
<1> QED
  BY <1>1, <1>2, <1>3

LEMMA InvalidFrame ==
    ASSUME NEW v \in Int, v >= 4
    PROVE  /\ v < 5 => Len(Header(v, 88) \o <<48>>) = 4
           /\ v >= 5 => /\ Len(Header(v, 88) \o <<48>>) = 6
                        /\ (Header(v, 88) \o <<48>>)[4] \in {0, 88}
<1>1. CASE v < 5
  <2>1. Header(v, 88) = <<0, 128, 88>>
    BY <1>1 DEF Header
  <2>2. Len(<<0, 128, 88>> \o <<48>>) = 4
    OBVIOUS
  <2>3. Len(Header(v, 88) \o <<48>>) = 4
    BY <2>1, <2>2, Zenon
  <2> QED
    BY <1>1, <2>3
<1>2. CASE v >= 8
  <2>1. Header(v, 88) = <<0, 128, 1, 88, 0>>
    BY <1>2 DEF Header
  <2>2. Len(<<0, 128, 1, 88, 0>> \o <<48>>) = 6
    OBVIOUS
  <2>3. (<<0, 128, 1, 88, 0>> \o <<48>>)[4] = 88
    OBVIOUS
  <2>4. Len(Header(v, 88) \o <<48>>) = 6 /\ (Header(v, 88) \o <<48>>)[4] \in {0, 88}
    BY <2>1, <2>2, <2>3, Zenon
  <2> QED
    BY <1>2, <2>4
<1>3. CASE v >= 5 /\ v < 8
  <2>1. Header(v, 88) = <<0, 128, 255, 0, 88>>
    BY <1>3 DEF Header
  <2>2. Len(<<0, 128, 255, 0, 88>> \o <<48>>) = 6
    OBVIOUS
  <2>3. (<<0, 128, 255, 0, 88>> \o <<48>>)[4] = 0
    OBVIOUS
  <2>4. Len(Header(v, 88) \o <<48>>) = 6 /\ (Header(v, 88) \o <<48>>)[4] \in {0, 88}
    BY <2>1, <2>2, <2>3, Zenon
  <2> QED
    BY <1>3, <2>4
<1> QED
  BY <1>1, <1>2, <1>3

\* What is left of a frame in the v4 layout.
LEMMA ReadAsV4 ==
    ASSUME ver = 4, NEW a, Len(a.frame) \in Int
    PROVE  /\ Received(a).n >= 3 => Len(a.frame) >= 6 /\ Received(a).out[1] = a.frame[4]
           /\ Len(a.frame) < 3 \/ Received(a).n = Len(a.frame) - 3
<1>1. Hdr(ver) = 3 /\ Parsed(ver, a.frame) = Len(a.frame) - 3
  BY DEF Hdr, Parsed
<1>2. CASE Parsed(ver, a.frame) < 0
  BY <1>1, <1>2 DEF Received, NoReply
<1>3. CASE ~(Parsed(ver, a.frame) < 0)
  <2>1. Received(a).n = Len(a.frame) - 3 /\ Received(a).out = Copied(ver, a.frame)
    BY <1>1, <1>3 DEF Received
  <2>2. Len(a.frame) >= 6 => Copied(ver, a.frame)[1] = a.frame[4]
    BY <1>1 DEF Copied, OutLen
  <2> QED
    BY <1>1, <2>1, <2>2
<1> QED
  BY <1>2, <1>3

\* A reply to version() that is long enough is the NCP's version, or the claim
\* of version 88 or 0 of one that was left in a later session.
LEMMA VersionReply ==
    ASSUME IInv, ver = 4,
           NEW res \in {Received(a) : a \in NcpAnswers("version")}, res.n >= 3
    PROVE  \/ Accepts("version") /\ res.out[1] = setup.speaks
           \/ ~Accepts("version") /\ ncp.agreed # 0 /\ res.out[1] \in {0, 88}
<1>1. PICK a \in NcpAnswers("version") : res = Received(a)
  OBVIOUS
<1>2. CASE Accepts("version")
  <2>1. a = [by |-> "version", frame |-> Header(Layout, 0) \o <<setup.speaks, 2, 128, 88>>]
    BY <1>2 DEF NcpAnswers, Id
  <2>2. Layout = 4 /\ setup.speaks \in Int
    <3>1. ncp.first
      BY <1>2 DEF Accepts
    <3> QED
      BY <3>1, Ranges DEF IInv, NegotiationOK, Layout
  <2>3. Len(a.frame) = 7 /\ a.frame[4] = setup.speaks
    BY <2>1, <2>2, VersionFrame
  <2> QED
    BY <1>1, <1>2, <2>3, ReadAsV4
<1>3. CASE ~Accepts("version")
  <2>1. a = [by |-> "nothing", frame |-> Header(Layout, 88) \o <<48>>]
    BY <1>3 DEF NcpAnswers, Id
  <2>2. Layout \in Int /\ Layout >= 4 /\ (Layout >= 5 => ncp.agreed # 0)
    BY Ranges DEF IInv, NegotiationOK, Layout
  <2>3. CASE Layout < 5
    <3>1. Len(a.frame) = 4
      BY <2>1, <2>2, <2>3, InvalidFrame
    <3>2. Len(a.frame) \in Int /\ ~(Len(a.frame) < 3)
      BY <3>1
    <3>3. Received(a).n = Len(a.frame) - 3
      BY <3>2, ReadAsV4, Zenon
    <3> QED
      BY <1>1, <3>1, <3>3
  <2>4. CASE Layout >= 5
    <3>1. Len(a.frame) = 6 /\ a.frame[4] \in {0, 88}
      BY <2>1, <2>2, <2>4, InvalidFrame
    <3> QED
      BY <1>1, <1>3, <2>2, <2>4, <3>1, ReadAsV4
  <2> QED
    BY <2>2, <2>3, <2>4
<1> QED
  BY <1>2, <1>3

\* The NCP, behind any ezsp_xfer.
LEMMA NcpStep ==
    ASSUME IInv, NEW q, NEW arg \in Int, NEW res, ezsp_xfer(q, arg, res)
    PROVE  /\ ncp' \in [agreed: NcpVersions \cup {0}, first: BOOLEAN]
           /\ ncp'.first => ncp'.agreed = 0
           /\ crashed' \in BOOLEAN
           /\ ncp'.agreed # ncp.agreed => ncp'.agreed = arg /\ arg = setup.speaks
           /\ arg = 0 => crashed' = crashed
<1>1. CASE NcpHears(q, arg)
  <2>1. ncp'.first = FALSE /\ ncp'.agreed \in {ncp.agreed, arg}
    BY <1>1 DEF NcpHears
  <2>2. ncp'.agreed # ncp.agreed => ncp'.agreed = arg /\ arg = setup.speaks
    BY <1>1 DEF NcpHears
  <2>3. ncp' \in [agreed: NcpVersions \cup {0}, first: BOOLEAN]
    BY <1>1 DEF NcpHears, IInv, NegotiationOK
  <2>4. crashed' \in BOOLEAN /\ (arg = 0 => crashed' = crashed)
    BY <1>1 DEF NcpHears, IInv, NegotiationOK
  <2> QED
    BY <2>1, <2>2, <2>3, <2>4
<1>2. CASE UNCHANGED <<ncp, crashed>>
  BY <1>2 DEF IInv, NegotiationOK
<1> QED
  BY <1>1, <1>2 DEF ezsp_xfer

LEMMA FreshNcp ==
    /\ Fresh \in [agreed: NcpVersions \cup {0}, first: BOOLEAN]
    /\ Fresh.agreed = 0
BY DEF Fresh

LEMMA StartInv ==
    ASSUME IInv, NEW c, NEW noReset, Start(c, noReset)
    PROVE  IInv'
<1>1. pc' = "ask" /\ ver' = 4 /\ want' = setup.want /\ UNCHANGED setup
  BY DEF Start
<1>2. \/ ncp' = Fresh /\ crashed' = FALSE
      \/ UNCHANGED <<ncp, crashed>>
  BY DEF Start
<1>3. want' \in Wants /\ want' \in Int
  BY <1>1, Ranges DEF IInv, NegotiationOK
<1>4. /\ ncp' \in [agreed: NcpVersions \cup {0}, first: BOOLEAN] /\ crashed' \in BOOLEAN
      /\ ncp'.first => ncp'.agreed = 0
  BY <1>2, FreshNcp DEF IInv, NegotiationOK
<1>5. NegotiationOK'
  BY <1>1, <1>3, <1>4 DEF IInv, NegotiationOK, Asking
<1> QED
  BY <1>1, <1>3, <1>4, <1>5 DEF IInv, InitMeansAgreed

\* The answer of an NCP that accepts is the agreement.
LEMMA AgreedHere ==
    ASSUME IInv, ver = 4, want \in Int, NEW res, ezsp_xfer("version", want, res), res.n >= 3
    PROVE  /\ res.out[1] \in Int
           /\ \/ res.out[1] = want => ncp'.agreed = want
              \/ ncp.agreed # 0 /\ res.out[1] \in {0, 88}
<1>1. res \in {Received(a) : a \in NcpAnswers("version")} /\ NcpHears("version", want)
  BY DEF ezsp_xfer, NoReply
<1>2. \/ Accepts("version") /\ res.out[1] = setup.speaks
      \/ ~Accepts("version") /\ ncp.agreed # 0 /\ res.out[1] \in {0, 88}
  BY <1>1, VersionReply
<1>3. setup.speaks \in Int
  BY Ranges DEF IInv, NegotiationOK
<1>4. Accepts("version") /\ setup.speaks = want => ncp'.agreed = want
  BY <1>1 DEF NcpHears
<1> QED
  BY <1>2, <1>3, <1>4

LEMMA AskInv == ASSUME IInv, AskVersion PROVE IInv'
<1>1. pc = "ask" /\ ver = 4 /\ want \in Int /\ want >= 4 /\ UNCHANGED setup
  BY Ranges DEF AskVersion, IInv, Asking
<1>2. PICK res \in Replies("version") :
        /\ ezsp_xfer("version", want, res)
        /\ \/ res.n < 3 /\ Fails /\ UNCHANGED want
           \/ res.n >= 3 /\ res.out[1] = want /\ Agreed(want) /\ UNCHANGED want
           \/ /\ res.n >= 3 /\ res.out[1] # want
              /\ want' = res.out[1] /\ pc' = "reset" /\ UNCHANGED <<rc, prog, ver>>
  BY DEF AskVersion
<1>3. /\ ncp' \in [agreed: NcpVersions \cup {0}, first: BOOLEAN] /\ crashed' \in BOOLEAN
      /\ ncp'.first => ncp'.agreed = 0
  BY <1>1, <1>2, NcpStep
<1>4. CASE res.n < 3 /\ Fails /\ UNCHANGED want
  BY <1>1, <1>3, <1>4 DEF Fails, IInv, NegotiationOK, Asking, InitMeansAgreed
<1>5. CASE res.n >= 3 /\ res.out[1] = want /\ Agreed(want) /\ UNCHANGED want
  <2>1. ncp'.agreed = want \/ want = 88
    BY <1>1, <1>2, <1>5, AgreedHere
  <2>2. ver' = want /\ (pc' = "idle" \/ (pc' = "step" /\ want <= 8))
    BY <1>5 DEF Agreed, Known
  <2>3. InitMeansAgreed'
    BY <2>1, <2>2 DEF InitMeansAgreed
  <2>4. NegotiationOK'
    BY <1>1, <1>3, <1>5, <2>2 DEF IInv, NegotiationOK, Talking
  <2> QED
    BY <1>3, <2>2, <2>3, <2>4 DEF IInv, Asking
<1>6. CASE res.n >= 3 /\ want' = res.out[1] /\ pc' = "reset" /\ UNCHANGED ver
  <2>1. want' \in Int
    BY <1>1, <1>2, <1>6, AgreedHere
  <2> QED
    BY <1>1, <1>3, <1>6, <2>1 DEF IInv, NegotiationOK, Asking, InitMeansAgreed
<1> QED
  BY <1>2, <1>4, <1>5, <1>6

LEMMA ResetInv == ASSUME IInv, ResetToAskAgain PROVE IInv'
<1>1. pc = "reset" /\ pc' = "again" /\ ncp' = Fresh /\ crashed' = FALSE /\ UNCHANGED <<ver, want, setup>>
  BY DEF ResetToAskAgain
<1> QED
  BY <1>1, FreshNcp DEF IInv, NegotiationOK, Asking, InitMeansAgreed

LEMMA AgainInv == ASSUME IInv, AskAgain PROVE IInv'
<1>1. pc = "again" /\ ver = 4 /\ want \in Int /\ ncp.agreed = 0 /\ UNCHANGED <<setup, want>>
  BY DEF AskAgain, IInv, NegotiationOK, Asking
<1>2. PICK res \in Replies("version") :
        /\ ezsp_xfer("version", want, res)
        /\ IF res.n >= 3 /\ Converged(res) THEN Agreed(res.out[1]) ELSE Fails
  BY DEF AskAgain
<1>3. /\ ncp' \in [agreed: NcpVersions \cup {0}, first: BOOLEAN] /\ crashed' \in BOOLEAN
      /\ ncp'.first => ncp'.agreed = 0
  BY <1>1, <1>2, NcpStep
<1>4. CASE Fails
  BY <1>1, <1>3, <1>4 DEF Fails, IInv, NegotiationOK, Asking, InitMeansAgreed
<1>5. CASE res.n >= 3 /\ Converged(res) /\ Agreed(res.out[1])
  <2>1. res.out[1] = want /\ ncp'.agreed = want
    BY <1>1, <1>2, <1>5, AgreedHere DEF Converged
  <2>2. ver' = want /\ pc' \in {"idle", "step"}
    BY <1>5, <2>1 DEF Agreed
  <2>3. InitMeansAgreed'
    BY <2>1, <2>2 DEF InitMeansAgreed
  <2>4. NegotiationOK'
    BY <1>1, <1>3, <2>2 DEF IInv, NegotiationOK, Talking
  <2> QED
    BY <1>3, <2>2, <2>3, <2>4 DEF IInv, Asking
<1> QED
  BY <1>2, <1>4, <1>5

\* A command other than version() changes nothing that was agreed.
LEMMA TalkInv ==
    ASSUME IInv, pc \in Talking, pc' \in Talking \cup {"idle"}, UNCHANGED <<ver, want, setup>>,
           UNCHANGED <<ncp, crashed>> \/ \E q, res : ezsp_xfer(q, 0, res)
    PROVE  IInv'
<1>1. /\ ncp' \in [agreed: NcpVersions \cup {0}, first: BOOLEAN] /\ crashed' \in BOOLEAN
      /\ ncp'.first => ncp'.agreed = 0
      /\ ncp'.agreed = ncp.agreed /\ crashed' = crashed
  <2>1. CASE UNCHANGED <<ncp, crashed>>
    BY <2>1 DEF IInv, NegotiationOK
  <2>2. ASSUME NEW q, NEW res, ezsp_xfer(q, 0, res)
        PROVE  /\ ncp' \in [agreed: NcpVersions \cup {0}, first: BOOLEAN] /\ crashed' \in BOOLEAN
               /\ ncp'.first => ncp'.agreed = 0
               /\ ncp'.agreed = ncp.agreed /\ crashed' = crashed
    <3>1. setup.speaks # 0
      BY Ranges DEF IInv, NegotiationOK
    <3> QED
      BY <2>2, <3>1, NcpStep
  <2> QED
    BY <2>1, <2>2
<1>2. NegotiationOK'
  BY <1>1 DEF IInv, NegotiationOK
<1>3. pc' \notin Asking /\ InitMeansAgreed'
  BY <1>1 DEF IInv, Asking, Talking, InitMeansAgreed
<1> QED
  BY <1>1, <1>2, <1>3 DEF IInv, Asking

LEMMA HomeIs == Home \in {"serve", "idle"}
BY DEF Home

LEMMA QueryInv == ASSUME IInv, Query PROVE IInv'
<1>1. pc = "step" /\ UNCHANGED <<ver, want, setup>>
  BY DEF Query
<1>2. PICK res \in Replies(prog[k].q) :
        /\ ezsp_xfer(prog[k].q, 0, res)
        /\ pc' = Home \/ pc' = pc
  BY DEF Query
<1>3. pc \in Talking /\ pc' \in Talking \cup {"idle"}
  BY <1>1, <1>2, HomeIs DEF Talking
<1> QED
  BY <1>1, <1>2, <1>3, TalkInv

LEMMA DaemonInv ==
    ASSUME IInv, \/ NoEntries \/ zcl_send \/ Stop
                 \/ \E r \in DOMAIN control_accept : Serve(r)
                 \/ \E m \in Messages : Incoming(m)
    PROVE  IInv'
<1>1. CASE NoEntries
  <2>1. /\ pc = "step" /\ (pc' = pc \/ pc' = Home)
        /\ UNCHANGED <<ver, want, setup, ncp, crashed>>
    BY <1>1 DEF NoEntries
  <2>2. pc \in Talking /\ pc' \in Talking \cup {"idle"}
    BY <2>1, HomeIs DEF Talking
  <2> QED
    BY <2>1, <2>2, TalkInv
<1>2. CASE zcl_send
  <2>1. pc = "unicast" /\ pc' = "serve" /\ UNCHANGED <<ver, want, setup>>
    BY <1>2 DEF zcl_send
  <2>2. \E q, res : ezsp_xfer(q, 0, res)
    BY <1>2 DEF zcl_send
  <2> QED
    BY <2>1, <2>2, TalkInv DEF Talking
<1>3. CASE Stop
  <2>1. pc = "serve" /\ pc' = "idle" /\ UNCHANGED <<ver, want, setup, ncp, crashed>>
    BY <1>3 DEF Stop
  <2> QED
    BY <2>1, TalkInv DEF Talking
<1>4. CASE \E r \in DOMAIN control_accept : Serve(r)
  <2>1. pc = "serve" /\ pc' = "step" /\ UNCHANGED <<ver, want, setup, ncp, crashed>>
    BY <1>4 DEF Serve
  <2> QED
    BY <2>1, TalkInv DEF Talking
<1>5. ASSUME NEW m \in Messages, Incoming(m) PROVE IInv'
  <2>1. /\ pc = "serve" /\ (pc' = pc \/ pc' = "unicast")
        /\ UNCHANGED <<ver, want, setup, ncp, crashed>>
    BY <1>5 DEF Incoming
  <2> QED
    BY <2>1, TalkInv DEF Talking
<1> QED
  BY <1>1, <1>2, <1>3, <1>4, <1>5

LEMMA CrashInv == ASSUME IInv, NcpCrash PROVE IInv'
<1>1. ncp' = Fresh /\ crashed' = TRUE /\ UNCHANGED <<pc, ver, want, setup>>
  BY DEF NcpCrash, session
<1>2. /\ ncp' \in [agreed: NcpVersions \cup {0}, first: BOOLEAN] /\ crashed' \in BOOLEAN
      /\ ncp'.agreed = 0
  BY <1>1, FreshNcp
<1>3. InitMeansAgreed'
  BY <1>1 DEF InitMeansAgreed
<1> QED
  BY <1>1, <1>2, <1>3 DEF IInv, NegotiationOK

LEMMA StutterInv == ASSUME IInv, UNCHANGED vars PROVE IInv'
<1>1. UNCHANGED <<pc, ver, want, setup, ncp, crashed>>
  BY DEF vars, session
<1> QED
  BY <1>1 DEF IInv, NegotiationOK, InitMeansAgreed

LEMMA NextInv == IInv /\ [Next]_vars => IInv'
<1> SUFFICES ASSUME IInv, [Next]_vars PROVE IInv'
  OBVIOUS
<1>1. CASE \E c \in DOMAIN Program, noReset \in BOOLEAN : Start(c, noReset)
  BY <1>1, StartInv
<1>2. CASE AskVersion \/ ResetToAskAgain \/ AskAgain
  BY <1>2, AskInv, ResetInv, AgainInv
<1>3. CASE Query
  BY <1>3, QueryInv
<1>4. CASE \/ NoEntries \/ zcl_send \/ Stop
           \/ \E r \in DOMAIN control_accept : Serve(r)
           \/ \E m \in Messages : Incoming(m)
  BY <1>4, DaemonInv
<1>5. CASE NcpCrash
  BY <1>5, CrashInv
<1>6. CASE UNCHANGED vars
  BY <1>6, StutterInv
<1> QED
  BY <1>1, <1>2, <1>3, <1>4, <1>5, <1>6 DEF Next

\* Once ezsp_init has returned 0 (ezsp.c:127-190), the NCP has agreed to the
\* version whose frame layout ezsp_xfer uses, for every version the NCP may
\* speak or be asked for, with or without --no-reset, whatever is lost.
THEOREM Negotiated == Spec => []InitMeansAgreed
<1>1. IInv => InitMeansAgreed
  BY DEF IInv
<1> QED
  BY <1>1, InitInv, NextInv, PTL DEF Spec

(***************************************************************************)
(* The commands                                                            *)
(***************************************************************************)
Queries == {"addEndpoint", "networkInit", "networkState", "startScan", "permit", "eui64", "nodeId",
            "parameters", "parentChild", "child", "config", "setConfig", "policy", "key", "neighbor",
            "neighborCount", "route", "bootloader", "power"}

\* A query whose result can be told from a failure: one that may be refused has
\* its status checked, and none is used without a byte of payload.
Steps ==
    {s \in [q: Queries \cup {"callback"}, min: Nat, status: BOOLEAN,
            stop: {"never", "refused", "failed", "done", "complete"}, reps: Int] :
        /\ s.q # "callback" => s.min >= 1
        /\ s.q \notin Plain \cup {"callback"} => s.status
        /\ s.reps = Table \/ s.reps \in 1..255}

Programs == {p \in Seq(Steps) : Len(p) >= 1}

LEMMA Joined ==
    ASSUME NEW p \in Programs, NEW r \in Programs
    PROVE  p \o r \in Programs
BY DEF Programs

LEMMA Listed ==
    ASSUME NEW a \in Steps, NEW b \in Steps, NEW c \in Steps, NEW d \in Steps
    PROVE  /\ <<a>> \in Programs /\ <<a, b>> \in Programs
           /\ <<a, b, c>> \in Programs /\ <<a, b, c, d>> \in Programs
BY DEF Programs

LEMMA AskStep ==
    ASSUME NEW q \in Queries \cap Plain, NEW min \in Nat, min >= 1
    PROVE  Ask(q, min) \in Steps
BY DEF Ask, Steps, Plain, Queries

LEMMA CheckedStep ==
    ASSUME NEW q \in Queries, NEW min \in Nat, min >= 1
    PROVE  Checked(q, min) \in Steps
<1>1. ASSUME NEW st \in BOOLEAN
      PROVE  [Ask(q, min) EXCEPT !.status = st]
               = [q |-> q, min |-> min, status |-> st, stop |-> "never", reps |-> 1]
  BY DEF Ask
<1>2. TRUE \in BOOLEAN
  OBVIOUS
<1>3. Checked(q, min) = [q |-> q, min |-> min, status |-> TRUE, stop |-> "never", reps |-> 1]
  BY <1>1, <1>2, Zenon DEF Checked
<1>4. q # "callback"
  BY DEF Queries
<1>5. ASSUME NEW st \in BOOLEAN, st
      PROVE  [q |-> q, min |-> min, status |-> st, stop |-> "never", reps |-> 1] \in Steps
  BY <1>4, <1>5 DEF Steps
<1> QED
  BY <1>2, <1>3, <1>5, Zenon

LEMMA UntilStep ==
    ASSUME NEW s \in Steps, NEW stop \in {"never", "refused", "failed", "done", "complete"}
    PROVE  Until(s, stop) \in Steps
BY DEF Until, Steps

LEMMA TimesStep ==
    ASSUME NEW s \in Steps, NEW reps \in Int, reps = Table \/ reps \in 1..255
    PROVE  Times(s, reps) \in Steps
BY DEF Times, Steps

LEMMA ApplySteps == ezsp_apply_config \in Programs
<1>1. ezsp_set_config \in Steps /\ ezsp_add_endpoint \in Steps
  BY CheckedStep DEF ezsp_set_config, ezsp_add_endpoint, Queries
<1>2. Times(ezsp_set_config, 4) \in Steps
  BY <1>1, TimesStep
<1> QED
  BY <1>1, <1>2, Listed DEF ezsp_apply_config

LEMMA StackUpSteps ==
    ASSUME NEW stop \in {"never", "refused", "failed", "done", "complete"}
    PROVE  StackUp(stop) \in Programs
<1>1. Until(Checked("networkInit", 1), stop) \in Steps
  BY CheckedStep, UntilStep DEF Queries
<1> QED
  BY <1>1, ApplySteps, Listed, Joined DEF StackUp

LEMMA StatusSteps == control_status \in Programs
<1>1. /\ Ask("networkState", 1) \in Steps /\ Ask("eui64", 8) \in Steps
      /\ Ask("nodeId", 2) \in Steps /\ Checked("parameters", 14) \in Steps
  BY AskStep, CheckedStep DEF Queries, Plain
<1> QED
  BY <1>1, Listed DEF control_status

LEMMA NeighborSteps == Neighbors \in Programs
<1>1. /\ Ask("neighborCount", 1) \in Steps
      /\ Times(Checked("neighbor", 15), Table) \in Steps /\ Times(Checked("route", 7), 16) \in Steps
  <2>1. /\ Ask("neighborCount", 1) \in Steps
        /\ Checked("neighbor", 15) \in Steps /\ Checked("route", 7) \in Steps
    BY AskStep, CheckedStep DEF Queries, Plain
  <2>2. Table \in Int
    BY DEF Table
  <2> QED
    BY <2>1, <2>2, TimesStep
<1> QED
  BY <1>1, Listed DEF Neighbors

LEMMA ProgramSteps == \A c \in DOMAIN Program : Program[c] \in Programs
<1> USE DEF Queries, Plain
<1>1. cmd_info \in Programs
  <2>1. <<Ask("eui64", 8), Ask("nodeId", 2), Ask("networkState", 1), Checked("parameters", 14)>>
          \in Programs
    <3>1. /\ Ask("networkState", 1) \in Steps /\ Ask("eui64", 8) \in Steps
          /\ Ask("nodeId", 2) \in Steps /\ Checked("parameters", 14) \in Steps
      BY AskStep, CheckedStep
    <3> QED
      BY <3>1, Listed
  <2> QED
    BY <2>1, StackUpSteps, Joined DEF cmd_info
<1>2. cmd_status \in Programs
  BY StackUpSteps, StatusSteps, Joined DEF cmd_status
<1>3. cmd_neighbors \in Programs
  <2>1. Ask("parentChild", 11) \in Steps
    BY AskStep
  <2>2. <<Ask("parentChild", 11)>> \in Programs
    BY <2>1, Listed
  <2> QED
    BY <2>2, StackUpSteps, NeighborSteps, Joined DEF cmd_neighbors
<1>4. cmd_keys \in Programs
  <2>1. Times(Checked("key", 37), 2) \in Steps
    BY CheckedStep, TimesStep
  <2>2. <<Times(Checked("key", 37), 2)>> \in Programs
    BY <2>1, Listed
  <2> QED
    BY <2>2, StackUpSteps, Joined DEF cmd_keys
<1>5. cmd_policy \in Programs /\ cmd_config \in Programs
  <2>1. Times(Checked("policy", 2), 9) \in Steps /\ Times(Checked("config", 3), ConfigIds) \in Steps
    <3>1. Checked("policy", 2) \in Steps /\ Checked("config", 3) \in Steps
      BY CheckedStep
    <3>2. ConfigIds \in 1..255 /\ ConfigIds \in Int
      BY EzspAssumption
    <3> QED
      BY <3>1, <3>2, TimesStep
  <2> QED
    BY <2>1, Listed DEF cmd_policy, cmd_config
<1>6. cmd_permit \in Programs /\ cmd_power \in Programs
  <2>1. Until(ezsp_permit, "failed") \in Steps /\ Until(ezsp_set_power, "failed") \in Steps
    BY CheckedStep, UntilStep DEF ezsp_permit, ezsp_set_power
  <2>2. <<Until(ezsp_permit, "failed")>> \in Programs /\ <<Until(ezsp_set_power, "failed")>> \in Programs
    BY <2>1, Listed
  <2> QED
    BY <2>2, StackUpSteps, Joined DEF cmd_permit, cmd_power
<1>7. cmd_scan \in Programs
  <2>1. Until(Checked("startScan", 1), "failed") \in Steps
    BY CheckedStep, UntilStep
  <2>2. ezsp_poll_callback \in Steps
    BY DEF ezsp_poll_callback, Ask, Steps
  <2>3. Times(Until(ezsp_poll_callback, "complete"), ScanPolls) \in Steps
    <3>1. ScanPolls \in 1..255 /\ ScanPolls \in Int
      BY EzspAssumption
    <3>2. Until(ezsp_poll_callback, "complete") \in Steps
      BY <2>2, UntilStep
    <3> QED
      BY <3>1, <3>2, TimesStep
  <2> QED
    BY <2>1, <2>3, Listed DEF cmd_scan
<1>8. cmd_verify \in Programs /\ cmd_bootloader \in Programs
  <2>1. Until(Ask("bootloader", 5), "failed") \in Steps
    BY AskStep, UntilStep
  <2> QED
    BY <2>1, Listed DEF cmd_verify, cmd_bootloader
<1>9. cmd_run \in Programs
  <2>1. /\ Ask("eui64", 8) \in Steps /\ Until(Checked("networkInit", 1), "done") \in Steps
        /\ Ask("networkState", 1) \in Steps
    BY AskStep, CheckedStep, UntilStep
  <2>2. <<Ask("eui64", 8), Until(Checked("networkInit", 1), "done"), Ask("networkState", 1)>> \in Programs
    BY <2>1, Listed
  <2> QED
    BY <2>2, ApplySteps, Joined DEF cmd_run
<1> QED
  BY <1>1, <1>2, <1>3, <1>4, <1>5, <1>6, <1>7, <1>8, <1>9 DEF Program

LEMMA RequestSteps == \A r \in DOMAIN control_accept : control_accept[r] \in Programs
<1> USE DEF Queries, Plain
<1>1. <<Checked("startScan", 1)>> \in Programs
  <2>1. Checked("startScan", 1) \in Steps
    BY CheckedStep
  <2> QED
    BY <2>1, Listed
<1>2. <<Ask("parentChild", 1), Times(Checked("child", 12), Table)>> \in Programs
  <2>0. Table \in Int
    BY DEF Table
  <2>1. Ask("parentChild", 1) \in Steps /\ Times(Checked("child", 12), Table) \in Steps
    BY <2>0, AskStep, CheckedStep, TimesStep
  <2> QED
    BY <2>1, Listed
<1>3. <<ezsp_set_power>> \in Programs /\ <<ezsp_permit>> \in Programs
  <2>1. ezsp_set_power \in Steps /\ ezsp_permit \in Steps
    BY CheckedStep DEF ezsp_set_power, ezsp_permit
  <2> QED
    BY <2>1, Listed
<1> DEFINE scan == <<Checked("startScan", 1)>>
           children == <<Ask("parentChild", 1), Times(Checked("child", 12), Table)>>
           power == <<ezsp_set_power>>
           permit == <<ezsp_permit>>
<1>4. control_accept = [status |-> control_status, scan |-> scan, neighbors |-> Neighbors,
                        children |-> children, power |-> power, permit |-> permit]
  BY DEF control_accept
<1> HIDE DEF scan, children, power, permit, Queries, Plain
<1>5. {control_status, scan, Neighbors, children, power, permit} \subseteq Programs
  BY <1>1, <1>2, <1>3, StatusSteps, NeighborSteps DEF scan, children, power, permit
<1> QED
  BY <1>4, <1>5

\* What a command is at, on top of the negotiation.
SessionOK ==
    /\ cmd \in DOMAIN Program
    /\ ver \in 0..255 /\ want \in 0..255 /\ rc \in {0, 1} /\ count \in 0..255
    /\ pc \in Talking => ver \in 4..8 /\ ncp.agreed \in {0, ver}
    /\ pc \in {"serve", "unicast"} => cmd = "run"
    /\ pc \in Asking => k = 1 /\ i = 0 /\ shown = Nothing
    /\ pc = "step" => prog \in Programs /\ k \in 1..Len(prog) /\ i \in 0..255
    /\ pc = "step" /\ cmd # "run" => prog = Program[cmd]

SInv == IInv /\ SessionOK /\ ReportsGenuine /\ ExitZeroIsTrue

(***************************************************************************)
(* What ezsp_xfer makes of an answer                                       *)
(***************************************************************************)
LEMMA HeaderLen ==
    ASSUME NEW v \in Int, NEW id \in Int
    PROVE  Len(Header(v, id)) = Hdr(v) /\ Header(v, id) \in Seq(Int)
<1>1. CASE v >= 8
  <2>1. Header(v, id) = <<0, 128, 1, id, 0>> /\ Hdr(v) = 5
    BY <1>1 DEF Header, Hdr
  <2> QED
    BY <2>1
<1>2. CASE v >= 5 /\ v < 8
  <2>1. Header(v, id) = <<0, 128, 255, 0, id>> /\ Hdr(v) = 5
    BY <1>2 DEF Header, Hdr
  <2> QED
    BY <2>1
<1>3. CASE v < 5
  <2>1. Header(v, id) = <<0, 128, id>> /\ Hdr(v) = 3
    BY <1>3 DEF Header, Hdr
  <2> QED
    BY <2>1
<1> QED
  BY <1>1, <1>2, <1>3

LEMMA IdRange == Id.networkFound = 27 /\ \A q \in Queries : Id[q] \in Int
BY DEF Id, Queries

LEMMA Catenated ==
    ASSUME NEW s \in Seq(Int), NEW t \in Seq(Int)
    PROVE  /\ s \o t \in Seq(Int) /\ Len(s \o t) = Len(s) + Len(t)
           /\ \A j \in 1..Len(s) : (s \o t)[j] = s[j]
           /\ \A j \in 1..Len(t) : (s \o t)[Len(s) + j] = t[j]
OBVIOUS

LEMMA ReceivedIs ==
    ASSUME NEW b, NEW f, NEW n \in Nat, Parsed(ver, f) = n
    PROVE  /\ Received([by |-> b, frame |-> f]).n = n
           /\ Received([by |-> b, frame |-> f]).by = b
           /\ Received([by |-> b, frame |-> f]).got = f[IdOff(ver) + 1]
           /\ Received([by |-> b, frame |-> f]).out = Copied(ver, f)
BY DEF Received

LEMMA FrameIs ==
    ASSUME NEW v \in Int, NEW id \in Int, NEW p \in Seq(Int)
    PROVE  /\ Len(Header(v, id) \o p) = Hdr(v) + Len(p)
           /\ \A j \in 1..Len(p) : (Header(v, id) \o p)[Hdr(v) + j] = p[j]
<1> DEFINE h == Header(v, id)
<1>1. h \in Seq(Int) /\ Len(h) = Hdr(v)
  BY HeaderLen
<1>2. Len(h \o p) = Len(h) + Len(p) /\ \A j \in 1..Len(p) : (h \o p)[Len(h) + j] = p[j]
  BY <1>1, Catenated, Zenon
<1> HIDE DEF h
<1>3. Len(h \o p) = Hdr(v) + Len(p) /\ \A j \in 1..Len(p) : (h \o p)[Hdr(v) + j] = p[j]
  BY <1>1, <1>2, Zenon
<1> QED
  BY <1>3 DEF h

LEMMA FrameRead ==
    ASSUME NEW a, Len(a.frame) \in Int, Hdr(ver) \in Int, Len(a.frame) >= Hdr(ver)
    PROVE  /\ Received(a).n = Len(a.frame) - Hdr(ver) /\ Received(a).by = a.by
           /\ \A j \in 1..OutLen :
                j <= Len(a.frame) - Hdr(ver) => Received(a).out[j] = a.frame[Hdr(ver) + j]
<1>1. Parsed(ver, a.frame) = Len(a.frame) - Hdr(ver) /\ ~(Parsed(ver, a.frame) < 0)
  BY DEF Parsed
<1>2. Received(a) = [n |-> Parsed(ver, a.frame), got |-> a.frame[IdOff(ver) + 1],
                     out |-> Copied(ver, a.frame), by |-> a.by]
  BY <1>1, Zenon DEF Received
<1>3. \A j \in 1..OutLen :
        j <= Len(a.frame) - Hdr(ver) => Copied(ver, a.frame)[j] = a.frame[Hdr(ver) + j]
  BY <1>1 DEF Copied, OutLen
<1> QED
  BY <1>1, <1>2, <1>3

\* invalidCommand of an NCP that has lost its session: nothing to a host of
\* version 5 or later, a single byte to one of version 4.
InvalidCommand == [by |-> "nothing", frame |-> Header(4, 88) \o <<48>>]

LEMMA InvalidRead ==
    ASSUME ver \in 4..8, NEW res, res = Received(InvalidCommand)
    PROVE  \/ ver >= 5 /\ res.n = -1
           \/ ver < 5 /\ res.n = 1 /\ res.out[1] = 48 /\ res.got = 88
<1> DEFINE f == <<0, 128, 88>> \o <<48>>
<1>1. Header(4, 88) = <<0, 128, 88>>
  BY DEF Header
<1>2. Len(f) = 4 /\ f[4] = 48 /\ f[3] = 88
  OBVIOUS
<1>3. res = Received([by |-> "nothing", frame |-> f])
  BY <1>1 DEF InvalidCommand
<1> HIDE DEF f
<1>4. CASE ver >= 5
  <2>1. Parsed(ver, f) < 0
    BY <1>2, <1>4 DEF Parsed, Hdr
  <2> QED
    BY <1>3, <1>4, <2>1 DEF Received, NoReply
<1>5. CASE ver < 5
  <2>1. Hdr(ver) = 3 /\ IdOff(ver) = 2 /\ Parsed(ver, f) = 1
    BY <1>2, <1>5 DEF Parsed, Hdr, IdOff
  <2>2. Copied(ver, f)[1] = 48
    BY <1>2, <2>1 DEF Copied, OutLen
  <2>3. res.n = Parsed(ver, f) /\ res.got = f[IdOff(ver) + 1] /\ res.out = Copied(ver, f)
    BY <1>3, <2>1, ReceivedIs
  <2> QED
    BY <1>2, <1>5, <2>1, <2>2, <2>3
<1> QED
  BY <1>4, <1>5

LEMMA FillIs ==
    ASSUME NEW l \in Nat, NEW b \in Int
    PROVE  Fill(l, b) \in Seq(Int) /\ Len(Fill(l, b)) = l /\ \A j \in 1..l : Fill(l, b)[j] = b
BY DEF Fill

LEMMA AnswerLens == \A q \in Queries : AnswerLen[q] \in Nat /\ AnswerLen[q] >= 1
BY DEF AnswerLen, Queries

LEMMA BootloaderAnswer ==
    ASSUME NEW c \in [1..3 -> 0..255]
    PROVE  /\ <<0, 84>> \o c \in Seq(Int) /\ Len(<<0, 84>> \o c) = 5
           /\ (<<0, 84>> \o c)[1] = 0
           /\ \A j \in 1..3 : (<<0, 84>> \o c)[j + 2] = c[j]
<1>1. c \in Seq(Int) /\ DOMAIN c = 1..3
  <2>1. c \in [1..3 -> Int] /\ DOMAIN c = 1..3 /\ 3 \in Nat
    OBVIOUS
  <2>2. c \in UNION {[1..n -> Int] : n \in Nat}
    BY <2>1, Zenon
  <2> QED
    BY <2>1, <2>2, SeqDef, Zenon
<1>2. Len(c) = 3
  BY <1>1, LenProperties
<1>3. <<0, 84>> \in Seq(Int) /\ Len(<<0, 84>>) = 2 /\ <<0, 84>>[1] = 0
  OBVIOUS
<1> DEFINE a == <<0, 84>>
<1> HIDE DEF a
<1>4. a \o c \in Seq(Int) /\ Len(a \o c) = 5 /\ (a \o c)[1] = 0
  <2>1. a \in Seq(Int) /\ Len(a) = 2 /\ a[1] = 0
    BY <1>3 DEF a
  <2>2. /\ a \o c \in Seq(Int) /\ Len(a \o c) = Len(a) + Len(c)
        /\ \A j \in 1..Len(a) : (a \o c)[j] = a[j]
    BY <1>1, <2>1, Catenated, Zenon
  <2> QED
    BY <1>2, <2>1, <2>2
<1>5. \A j \in 1..3 : (a \o c)[2 + j] = c[j]
  BY <1>1, <1>2, <1>3, Catenated DEF a
<1> QED
  BY <1>4, <1>5 DEF a

\* What the NCP may answer an accepted query with.
LEMMA PayloadIs ==
    ASSUME setup.chip \in [1..3 -> 0..255], NEW q \in Queries, NEW p \in Payloads(q)
    PROVE  /\ p \in Seq(Int) /\ Len(p) >= 1
           /\ p[1] \in 0..255
           /\ q = "bootloader" => Len(p) = 5 /\ \A j \in 1..3 : p[j + 2] = setup.chip[j]
<1>1. AnswerLen[q] \in Nat /\ AnswerLen[q] >= 1
  BY AnswerLens
<1>2. CASE q = "bootloader"
  <2>1. p = <<0, 84>> \o setup.chip
    BY <1>2 DEF Payloads
  <2> QED
    <3>1. p \in Seq(Int) /\ Len(p) = 5 /\ p[1] = 0 /\ \A j \in 1..3 : p[j + 2] = setup.chip[j]
      BY <2>1, BootloaderAnswer, Zenon
    <3> QED
      BY <3>1
<1>3. CASE q # "bootloader" /\ q \in Plain
  <2>1. PICK c \in Counts : p = Fill(AnswerLen[q], c)
    BY <1>3 DEF Payloads
  <2>2. c \in Int /\ c \in 0..255
    BY EzspAssumption
  <2> QED
    <3> DEFINE l == AnswerLen[q]
    <3>1. l \in Nat /\ l >= 1 /\ p = Fill(l, c)
      BY <1>1, <2>1
    <3> HIDE DEF l
    <3>2. Fill(l, c) \in Seq(Int) /\ Len(Fill(l, c)) = l /\ \A j \in 1..l : Fill(l, c)[j] = c
      BY <2>2, <3>1, FillIs
    <3>3. p \in Seq(Int) /\ Len(p) >= 1 /\ p[1] = c
      BY <3>1, <3>2
    <3> QED
      BY <1>3, <2>2, <3>3, Zenon
<1>4. CASE q # "bootloader" /\ q \notin Plain
  <2>1. PICK s \in {0, 147} : p = <<s>> \o Fill(AnswerLen[q] - 1, 7)
    BY <1>4 DEF Payloads
  <2> DEFINE f == Fill(AnswerLen[q] - 1, 7)
  <2>2. f \in Seq(Int) /\ Len(f) = AnswerLen[q] - 1
    <3>1. AnswerLen[q] - 1 \in Nat /\ 7 \in Int
      BY <1>1
    <3>2. \A m \in Nat : Fill(m, 7) \in Seq(Int) /\ Len(Fill(m, 7)) = m
      BY DEF Fill
    <3> QED
      BY <3>1, <3>2
  <2> HIDE DEF f
  <2>3. p \in Seq(Int) /\ Len(p) = AnswerLen[q] /\ p[1] = s
    BY <1>1, <2>1, <2>2 DEF f
  <2> QED
    BY <1>1, <1>4, <2>3
<1> QED
  BY <1>2, <1>3, <1>4

LEMMA ChipRange == ASSUME IInv PROVE setup.chip \in [1..3 -> 0..255]
BY EzspAssumption DEF IInv, NegotiationOK

\* An NCP that does not take the query has reset since it agreed.
LEMMA RefusedIsCrashed ==
    ASSUME SInv, pc \in Talking, NEW q, q # "version", ~Accepts(q)
    PROVE  Layout = 4 /\ crashed
<1>1. ver \in 4..8 /\ ncp.agreed \in {0, ver}
  BY DEF SInv, SessionOK
<1>2. ncp.agreed = 0
  BY <1>1 DEF Accepts, Layout, SameLayout
<1>3. crashed
  BY <1>1, <1>2 DEF SInv, IInv, InitMeansAgreed, Talking
<1> QED
  BY <1>2, <1>3 DEF Layout

Answered(q, res) ==
    /\ q \in Queries /\ res.n >= 1 /\ res.out[1] \in 0..255
    /\ res.by = q \/ (q \notin Plain /\ res.out[1] # 0)
    /\ q = "bootloader" => \A j \in 1..3 : res.out[j + 2] = setup.chip[j]

Refused(res) == ver < 5 /\ crashed /\ res.n = 1 /\ res.out[1] = 48 /\ res.got = 88

\* All that a query of a command can come back with.
LEMMA ReplyIs ==
    ASSUME SInv, pc \in Talking, NEW q \in Queries \cup {"callback"}, NEW res \in Replies(q)
    PROVE  res.n = -1 \/ Refused(res) \/ (q = "callback" /\ res.by = q) \/ Answered(q, res)
<1>0. q # "version"
  BY DEF Queries
<1>1. CASE res = NoReply
  BY <1>1 DEF NoReply
<1>2. ASSUME NEW a \in NcpAnswers(q), res = Received(a), ~Accepts(q)
      PROVE  res.n = -1 \/ Refused(res)
  <2>1. Layout = 4 /\ crashed /\ ver \in 4..8
    BY <1>0, <1>2, RefusedIsCrashed DEF SInv, SessionOK
  <2>2. a = InvalidCommand
    BY <1>2, <2>1 DEF NcpAnswers, Id, InvalidCommand
  <2> QED
    BY <1>2, <2>1, <2>2, InvalidRead DEF Refused
<1>3. ASSUME NEW a \in NcpAnswers(q), res = Received(a), Accepts(q), q = "callback"
      PROVE  res.n = -1 \/ res.by = q
  <2>0. PICK c \in Callbacks : a = [by |-> q, frame |-> Header(Layout, c[1]) \o c[2]]
    BY <1>3 DEF NcpAnswers
  <2>1. a.by = q
    BY <2>0
  <2> QED
    BY <1>3, <2>1 DEF Received, NoReply
<1>4. ASSUME NEW a \in NcpAnswers(q), res = Received(a), Accepts(q), q # "callback"
      PROVE  Answered(q, res)
  <2>1. PICK p \in Payloads(q) :
          a = [by |-> IF q \in Plain \/ p[1] = 0 THEN q ELSE "refused",
               frame |-> Header(Layout, Id[q]) \o p]
    BY <1>0, <1>4 DEF NcpAnswers
  <2> DEFINE b == IF q \in Plain \/ p[1] = 0 THEN q ELSE "refused"
  <2>2. q \in Queries /\ Id[q] \in Int
    BY <1>4, IdRange
  <2>3. Layout \in Int /\ ver \in Int /\ SameLayout(ver, Layout)
    BY <1>4, Ranges DEF SInv, IInv, NegotiationOK, Layout, Accepts
  <2>4. /\ p \in Seq(Int) /\ Len(p) >= 1 /\ p[1] \in 0..255
        /\ q = "bootloader" => Len(p) = 5 /\ \A j \in 1..3 : p[j + 2] = setup.chip[j]
    BY <2>2, ChipRange, PayloadIs DEF SInv
  <2> HIDE DEF b
  <2>6. /\ res.n = Len(p) /\ res.by = b
        /\ \A j \in 1..OutLen : j <= Len(p) => res.out[j] = p[j]
    <3>1. a.frame = Header(Layout, Id[q]) \o p /\ a.by = b /\ res = Received(a)
      BY <1>4, <2>1 DEF b
    <3>2. /\ Len(a.frame) = Hdr(Layout) + Len(p)
          /\ \A j \in 1..Len(p) : a.frame[Hdr(Layout) + j] = p[j]
      <4> DEFINE l == Layout
                 id == Id[q]
      <4>1. l \in Int /\ id \in Int /\ p \in Seq(Int)
        BY <2>2, <2>3, <2>4
      <4>2. a.frame = Header(l, id) \o p
        BY <3>1
      <4> HIDE DEF l, id
      <4>3. /\ Len(Header(l, id) \o p) = Hdr(l) + Len(p)
            /\ \A j \in 1..Len(p) : (Header(l, id) \o p)[Hdr(l) + j] = p[j]
        BY <4>1, FrameIs
      <4>4. /\ Len(a.frame) = Hdr(l) + Len(p)
            /\ \A j \in 1..Len(p) : a.frame[Hdr(l) + j] = p[j]
        BY <4>2, <4>3, Zenon
      <4> QED
        BY <4>4 DEF l
    <3>3. Hdr(ver) = Hdr(Layout) /\ Hdr(ver) \in Int
      BY <2>3 DEF SameLayout, Hdr
    <3>4. /\ Received(a).n = Len(a.frame) - Hdr(ver) /\ Received(a).by = a.by
          /\ \A j \in 1..OutLen :
               j <= Len(a.frame) - Hdr(ver) => Received(a).out[j] = a.frame[Hdr(ver) + j]
      BY <2>4, <3>2, <3>3, FrameRead
    <3>5. Len(p) \in Nat /\ Len(a.frame) - Hdr(ver) = Len(p)
      BY <2>4, <3>2, <3>3
    <3>6. ASSUME NEW j \in 1..OutLen, j <= Len(p) PROVE res.out[j] = p[j]
      <4>1. j \in 1..Len(p)
        BY <3>5, <3>6
      <4> QED
        BY <3>1, <3>2, <3>3, <3>4, <3>5, <3>6, <4>1
    <3> QED
      BY <3>1, <3>4, <3>5, <3>6
  <2>7. res.n >= 1 /\ res.out[1] = p[1]
    BY <2>4, <2>6 DEF OutLen
  <2>8. ASSUME q = "bootloader", NEW j \in 1..3 PROVE res.out[j + 2] = setup.chip[j]
    <3>0. Len(p) = 5
      BY <2>4, <2>8
    <3>1. j + 2 \in 1..OutLen /\ j + 2 <= Len(p)
      BY <3>0 DEF OutLen
    <3> QED
      BY <2>4, <2>6, <2>8, <3>1
  <2> QED
    BY <2>2, <2>4, <2>6, <2>7, <2>8 DEF Answered, b
<1> QED
  BY <1>1, <1>2, <1>3, <1>4 DEF Replies

(***************************************************************************)
(* The commands whose return code is a promise                             *)
(***************************************************************************)
Promises == {"permit", "power", "verify", "bootloader"}

Sure == {s \in Steps : s.reps # Table /\ s.stop # "done"}

LEMMA SureSeq ==
    ASSUME NEW p \in Seq(Sure), NEW s \in Sure
    PROVE  /\ p \o <<s>> \in Seq(Sure) /\ Len(p \o <<s>>) = Len(p) + 1
           /\ (p \o <<s>>)[Len(p) + 1] = s
<1>1. <<s>> \in Seq(Sure) /\ Len(<<s>>) = 1 /\ <<s>>[1] = s
  OBVIOUS
<1> DEFINE t == <<s>>
<1> HIDE DEF t
<1>2. t \in Seq(Sure) /\ Len(t) = 1 /\ t[1] = s
  BY <1>1 DEF t
<1>3. /\ p \o t \in Seq(Sure) /\ Len(p \o t) = Len(p) + 1 /\ (p \o t)[Len(p) + 1] = t[1]
  BY <1>2, ConcatProperties
<1> QED
  BY <1>2, <1>3 DEF t

\* Such a command asks everything at least once, never takes success for the
\* reason to stop, and ends with the query it is for.
Keeps(c, p) ==
    /\ p \in Seq(Sure) /\ Len(p) >= 1
    /\ p[Len(p)].stop = "failed"
    /\ p[Len(p)].q = (IF c \in {"permit", "power"} THEN c ELSE "bootloader")
    /\ c \in {"permit", "power"} => p[Len(p)].status
    /\ c \in {"verify", "bootloader"} => Len(p) = 1 /\ p[1].min # 1

LEMMA FieldsOf ==
    ASSUME NEW q, NEW min, NEW stop, NEW s
    PROVE  /\ Ask(q, min).q = q /\ Ask(q, min).min = min
           /\ Ask(q, min).stop = "never" /\ Ask(q, min).reps = 1
           /\ Checked(q, min).q = q /\ Checked(q, min).status
           /\ Checked(q, min).stop = "never" /\ Checked(q, min).reps = 1
BY DEF Checked, Ask

LEMMA UntilFields ==
    ASSUME NEW s \in Steps, NEW stop
    PROVE  /\ Until(s, stop).stop = stop /\ Until(s, stop).q = s.q /\ Until(s, stop).min = s.min
           /\ Until(s, stop).status = s.status /\ Until(s, stop).reps = s.reps
BY DEF Until, Steps

LEMMA StackProgram ==
    ASSUME NEW c \in {"permit", "power"}, NEW stop \in {"never", "refused"}, NEW p,
           p = StackUp(stop) \o <<Until(Checked(c, 1), "failed")>>
    PROVE  Keeps(c, p)
<1> DEFINE s1 == Times(ezsp_set_config, 4)
           s2 == ezsp_add_endpoint
           s3 == Until(Checked("networkInit", 1), stop)
           s4 == Until(Checked(c, 1), "failed")
<1>1. p = (<<s1, s2>> \o <<s3>>) \o <<s4>>
  BY DEF StackUp, ezsp_apply_config
<1>2. /\ Checked("setConfig", 1) \in Steps /\ Checked("networkInit", 1) \in Steps
      /\ Checked(c, 1) \in Steps
  BY CheckedStep DEF Queries
<1>3. s1.reps = 4 /\ s1.stop = "never"
  BY <1>2, FieldsOf DEF Times, ezsp_set_config, Steps
<1>4. s2.reps = 1 /\ s2.stop = "never"
  BY FieldsOf DEF ezsp_add_endpoint
<1>5. s3.reps = 1 /\ s3.stop = stop
  BY <1>2, FieldsOf, UntilFields
<1>6. s4.reps = 1 /\ s4.stop = "failed" /\ s4.q = c /\ s4.status
  BY <1>2, FieldsOf, UntilFields
<1>7. s1 \in Sure /\ s2 \in Sure /\ s3 \in Sure /\ s4 \in Sure
  <2>1. ezsp_set_config \in Steps /\ s2 \in Steps
    BY CheckedStep DEF ezsp_set_config, ezsp_add_endpoint, Queries
  <2>2. s1 \in Steps /\ s3 \in Steps /\ s4 \in Steps
    BY <1>2, <2>1, TimesStep, UntilStep
  <2> HIDE DEF s1, s2, s3, s4
  <2> QED
    BY <1>3, <1>4, <1>5, <1>6, <2>1, <2>2 DEF Sure, Table
<1> HIDE DEF s1, s2, s3, s4
<1>8. <<s1, s2>> \in Seq(Sure)
  BY <1>7
<1>9. <<s1, s2>> \o <<s3>> \in Seq(Sure)
  BY <1>7, <1>8, SureSeq, Zenon
<1> DEFINE u == <<s1, s2>> \o <<s3>>
<1>10. u \in Seq(Sure) /\ p = u \o <<s4>>
  BY <1>1, <1>9, Zenon
<1> HIDE DEF u
<1>11. p \in Seq(Sure) /\ Len(p) = Len(u) + 1 /\ p[Len(u) + 1] = s4
  BY <1>7, <1>10, SureSeq, Zenon
<1>12. Len(p) >= 1 /\ p[Len(p)] = s4
  BY <1>10, <1>11
<1> QED
  BY <1>6, <1>11, <1>12 DEF Keeps

LEMMA PromiseKept == \A c \in Promises : Keeps(c, Program[c])
<1>1. Program.permit = cmd_permit /\ Program.power = cmd_power
      /\ Program.verify = cmd_verify /\ Program.bootloader = cmd_bootloader
  BY DEF Program
<1>2. Keeps("permit", cmd_permit) /\ Keeps("power", cmd_power)
  BY StackProgram DEF cmd_permit, cmd_power, ezsp_permit, ezsp_set_power
<1>3. ASSUME NEW c \in {"verify", "bootloader"}, NEW p, p = <<Until(Ask("bootloader", 5), "failed")>>
      PROVE  Keeps(c, p)
  <2> DEFINE s == Until(Ask("bootloader", 5), "failed")
  <2>1. Ask("bootloader", 5) \in Steps
    BY AskStep DEF Queries, Plain
  <2>2. s.stop = "failed" /\ s.q = "bootloader" /\ s.min = 5 /\ s.reps = 1
    BY <2>1, FieldsOf, UntilFields
  <2>3. s \in Sure
    <3>1. s \in Steps
      BY <2>1, UntilStep
    <3> HIDE DEF s
    <3> QED
      BY <2>2, <3>1 DEF Sure, Table
  <2> HIDE DEF s
  <2>4. p \in Seq(Sure) /\ Len(p) = 1 /\ p[1] = s
    BY <1>3, <2>3 DEF s
  <2> QED
    BY <2>2, <2>4 DEF Keeps
<1> QED
  BY <1>1, <1>2, <1>3 DEF Promises, cmd_verify, cmd_bootloader

(***************************************************************************)
(* One query of a command                                                  *)
(***************************************************************************)
LEMMA StepFields ==
    ASSUME NEW s \in Steps
    PROVE  /\ s.q \in Queries \cup {"callback"} /\ s.min \in Nat /\ s.status \in BOOLEAN
           /\ s.q # "callback" => s.min >= 1
           /\ s.q \notin Plain \cup {"callback"} => s.status
           /\ s.reps = Table \/ s.reps \in 1..255
BY DEF Steps

\* What is used of a query is what the NCP did for it, or the byte 48 of
\* invalidCommand where a single byte is used unchecked.
LEMMA TakenIs ==
    ASSUME SInv, pc = "step", NEW s \in Steps, NEW res \in Replies(s.q), Taken(s, res)
    PROVE  /\ res.by = s.q \/ (~s.status /\ s.min = 1 /\ ver < 5 /\ crashed)
           /\ s.q = "bootloader" /\ s.min # 1 => \A j \in 1..3 : res.out[j + 2] = setup.chip[j]
<1>0. pc \in Talking
  BY DEF Talking
<1>1. \/ res.n = -1 \/ Refused(res) \/ (s.q = "callback" /\ res.by = s.q) \/ Answered(s.q, res)
  BY <1>0, StepFields, ReplyIs
<1>2. CASE s.q = "callback"
  <2>1. res.n >= 0 /\ res.got = 27
    BY <1>2, IdRange DEF Taken
  <2> QED
    BY <1>1, <1>2, <2>1 DEF Refused, Answered, Queries
<1>3. CASE s.q # "callback"
  <2>1. res.n >= s.min /\ (s.status => res.out[1] = 0)
    BY <1>3 DEF Taken
  <2>2. s.min \in Nat /\ s.min >= 1 /\ (s.q \notin Plain => s.status)
    BY <1>3, StepFields
  <2>3. res.n # -1
    BY <2>1, <2>2
  <2>4. CASE Refused(res)
    BY <2>1, <2>2, <2>4 DEF Refused
  <2>5. CASE Answered(s.q, res)
    BY <2>1, <2>2, <2>5 DEF Answered
  <2> QED
    BY <1>1, <1>3, <2>3, <2>4, <2>5
<1> QED
  BY <1>2, <1>3

LEMMA CountIs ==
    ASSUME SInv, pc = "step", NEW s \in Steps, NEW res \in Replies(s.q)
    PROVE  Counted(s, res) \in 0..255
<1>0. pc \in Talking /\ count \in 0..255
  BY DEF Talking, SInv, SessionOK
<1>1. \/ res.n = -1 \/ Refused(res) \/ (s.q = "callback" /\ res.by = s.q) \/ Answered(s.q, res)
  BY <1>0, StepFields, ReplyIs
<1>2. CASE s.q \in {"neighborCount", "parentChild"}
  <2>1. Counted(s, res) = IF res.n >= 1 THEN res.out[1] ELSE 0
    BY <1>2 DEF Counted
  <2>2. res.n >= 1 => res.out[1] \in 0..255
    BY <1>1, <1>2 DEF Refused, Answered
  <2> QED
    BY <2>1, <2>2
<1>3. CASE s.q \notin {"neighborCount", "parentChild"}
  <2>1. Counted(s, res) \in {1, count}
    BY <1>3 DEF Counted
  <2> QED
    BY <1>0, <2>1
<1> QED
  BY <1>2, <1>3

LEMMA CodeIs == ASSUME NEW s, NEW res PROVE Code(s, res) \in {0, 1}
BY DEF Code

\* A query fails a command that keeps its promise, or leaves it unfinished, or
\* is the one the promise is about.
LEMMA CodeZero ==
    ASSUME NEW c \in Promises, cmd = c, Keeps(c, prog), k \in 1..Len(prog), NEW res,
           \/ Stops(prog[k], res)
           \/ (i + 1 >= Reps(prog[k])) /\ k = Len(prog),
           Code(prog[k], res) = 0
    PROVE  /\ Taken(prog[k], res) /\ k = Len(prog)
           /\ c = "verify" => Matches(res)
<1>1. prog[k] \in Sure /\ prog[k].stop # "done"
  BY DEF Keeps, Sure
<1>2. CASE c = "verify"
  <2>1. Taken(prog[k], res) /\ Matches(res)
    BY <1>2 DEF Code
  <2>2. Len(prog) = 1
    BY <1>2 DEF Keeps
  <2>3. k = Len(prog)
    BY <2>2
  <2> QED
    BY <2>1, <2>3
<1>3. CASE c # "verify"
  <2>1. ~Stops(prog[k], res)
    BY <1>1, <1>3 DEF Code, Promises
  <2>2. k = Len(prog) /\ prog[k].stop = "failed"
    BY <2>1 DEF Keeps
  <2>3. Taken(prog[k], res)
    BY <2>1, <2>2 DEF Stops
  <2> QED
    BY <1>3, <2>2, <2>3
<1> QED
  BY <1>2, <1>3

Rest == SessionOK /\ ReportsGenuine /\ ExitZeroIsTrue

LEMMA QueryRest == ASSUME SInv, IInv', Query PROVE Rest'
<1> DEFINE s == prog[k]
           last == i + 1 >= Reps(s)
<1>1. /\ pc = "step" /\ Reps(s) > i /\ UNCHANGED <<cmd, prog, ver, want, setup>>
  BY DEF Query
<1>2. PICK res \in Replies(s.q) :
        /\ ezsp_xfer(s.q, 0, res)
        /\ shown' = IF ~Taken(s, res) THEN Nothing
                    ELSE [q |-> s.q, by |-> res.by, bare |-> ~s.status /\ s.min = 1]
        /\ count' = Counted(s, res)
        /\ i' = IF last THEN 0 ELSE i + 1
        /\ k' = IF last THEN k + 1 ELSE k
        /\ IF Stops(s, res) \/ (last /\ k = Len(prog))
           THEN pc' = Home /\ rc' = Code(s, res)
           ELSE UNCHANGED <<pc, rc>>
  BY DEF Query
<1>3. /\ cmd \in DOMAIN Program /\ ver \in 4..8 /\ want \in 0..255 /\ rc \in {0, 1}
      /\ count \in 0..255 /\ ncp.agreed \in {0, ver}
      /\ prog \in Programs /\ k \in 1..Len(prog) /\ i \in 0..255
      /\ cmd # "run" => prog = Program[cmd]
  BY <1>1 DEF SInv, SessionOK, Talking
<1>4. s \in Steps /\ Len(prog) \in Nat
  BY <1>3 DEF Programs
<1>5. ncp'.agreed = ncp.agreed /\ crashed' = crashed
  <2>1. setup.speaks # 0 /\ IInv
    BY Ranges DEF SInv, IInv, NegotiationOK
  <2> QED
    BY <1>2, <2>1, NcpStep
<1>6. count' \in 0..255 /\ rc' \in {0, 1}
  BY <1>1, <1>2, <1>3, <1>4, CountIs, CodeIs
<1>7. Reps(s) \in Int /\ Reps(s) <= 255
  <2>1. CASE s.reps # Table
    <3>1. s.reps \in 1..255 /\ Reps(s) = s.reps
      BY <1>4, <2>1, StepFields DEF Reps
    <3> QED
      BY <3>1
  <2>2. CASE s.reps = Table
    <3>1. Reps(s) \in {8, count}
      BY <2>2 DEF Reps
    <3> QED
      BY <1>3, <3>1
  <2> QED
    BY <2>1, <2>2
<1>8. pc' = "step" => k' \in 1..Len(prog) /\ i' \in 0..255
  <2>2. i' \in 0..255
    BY <1>1, <1>2, <1>3, <1>7
  <2>3. pc' = "step" => ~(last /\ k = Len(prog))
    BY <1>2, HomeIs
  <2>4. pc' = "step" => k' \in 1..Len(prog)
    BY <1>2, <1>3, <1>4, <2>3
  <2> QED
    BY <2>2, <2>4
<1>9. /\ pc' \in {"step", "serve", "idle"} /\ (pc' = "serve" => cmd = "run")
      /\ pc' \notin Asking /\ pc' # "unicast"
  BY <1>1, <1>2 DEF Home, Asking
<1>10. SessionOK'
  <2>1. /\ (cmd \in DOMAIN Program)' /\ (ver \in 0..255)' /\ (want \in 0..255)'
        /\ (ver \in 4..8)' /\ (ncp.agreed \in {0, ver})' /\ (prog \in Programs)'
        /\ (cmd # "run" => prog = Program[cmd])'
    BY <1>1, <1>3, <1>5
  <2>2. (pc = "step" => k \in 1..Len(prog) /\ i \in 0..255)'
    BY <1>1, <1>8
  <2>3. (pc \in {"serve", "unicast"} => cmd = "run")'
    BY <1>1, <1>9
  <2> QED
    BY <1>6, <1>9, <2>1, <2>2, <2>3 DEF SessionOK
<1>11. ReportsGenuine'
  <2>1. CASE ~Taken(s, res)
    BY <1>2, <2>1 DEF ReportsGenuine, Nothing
  <2>2. CASE Taken(s, res)
    <3>1. res.by = s.q \/ (~s.status /\ s.min = 1 /\ ver < 5 /\ crashed)
      BY <1>1, <1>2, <1>4, <2>2, TakenIs
    <3>2. shown'.q = s.q /\ shown'.by = res.by /\ (~s.status /\ s.min = 1 => shown'.bare)
      BY <1>2, <2>2
    <3> QED
      BY <1>1, <1>5, <3>1, <3>2 DEF ReportsGenuine
  <2> QED
    BY <2>1, <2>2
<1>12. ExitZeroIsTrue'
  <2> SUFFICES ASSUME pc' = "idle", rc' = 0, cmd \in Promises
               PROVE  /\ cmd \in {"permit", "power"} => shown'.by = cmd
                      /\ cmd \in {"bootloader", "verify"} => shown'.by = "bootloader"
                      /\ cmd = "verify" => Image = setup.chip
    BY <1>1 DEF ExitZeroIsTrue, Promises
  <2>1. Keeps(cmd, prog)
    BY <1>3, PromiseKept DEF Promises
  <2>2. /\ Stops(s, res) \/ (last /\ k = Len(prog))
        /\ Code(s, res) = 0
    BY <1>1, <1>2
  <2>3. Taken(s, res) /\ k = Len(prog) /\ (cmd = "verify" => Matches(res))
    BY <1>3, <2>1, <2>2, CodeZero
  <2>4. /\ s.q = (IF cmd \in {"permit", "power"} THEN cmd ELSE "bootloader")
        /\ s.status \/ s.min # 1
    BY <2>1, <2>3 DEF Keeps, Promises
  <2>5. shown'.by = s.q
    <3>1. res.by = s.q
      BY <1>1, <1>2, <1>4, <2>3, <2>4, TakenIs
    <3> QED
      BY <1>2, <2>3, <3>1
  <2>6. ASSUME cmd = "verify" PROVE Image = setup.chip
    <3>1. \A j \in 1..3 : res.out[j + 2] = setup.chip[j]
      <4>1. s.min # 1
        BY <2>1, <2>3, <2>6 DEF Keeps
      <4> QED
        BY <1>1, <1>2, <1>4, <2>3, <2>4, <2>6, <4>1, TakenIs
    <3>2. \A j \in 1..3 : res.out[j + 2] = Image[j]
      BY <2>3, <2>6 DEF Matches
    <3>3. setup.chip \in [1..3 -> 0..255] /\ Image \in [1..3 -> 0..255]
      BY ChipRange, EzspAssumption DEF SInv
    <3> QED
      BY <3>1, <3>2, <3>3
  <2> QED
    BY <2>4, <2>5, <2>6
<1> QED
  BY <1>10, <1>11, <1>12 DEF Rest

(***************************************************************************)
(* The other steps                                                         *)
(***************************************************************************)
LEMMA WantRange == \A w \in Wants : w \in 4..255 /\ w \in 0..255 /\ w \in Int
BY EzspAssumption

LEMMA SessionInit == Init => SInv
<1> SUFFICES ASSUME Init PROVE SInv
  OBVIOUS
<1>1. /\ pc = "idle" /\ cmd = "info" /\ count = 0 /\ ver = 4 /\ rc = 0 /\ ncmds = 0
      /\ shown = Nothing /\ want = setup.want /\ setup.want \in Wants
  BY DEF Init
<1>2. want \in 0..255 /\ "info" \in DOMAIN Program
  BY <1>1, WantRange DEF Program
<1>3. SessionOK
  BY <1>1, <1>2 DEF SessionOK, Talking, Asking
<1>4. ReportsGenuine /\ ExitZeroIsTrue
  BY <1>1 DEF ReportsGenuine, ExitZeroIsTrue, Nothing
<1> QED
  BY <1>3, <1>4, InitInv DEF SInv

\* Nothing is claimed of a command that has not found its version yet.
LEMMA AskingRest ==
    ASSUME pc' \in Asking, cmd' \in DOMAIN Program, ver' \in 0..255, want' \in 0..255,
           rc' \in {0, 1}, count' \in 0..255, k' = 1, i' = 0, shown' = Nothing
    PROVE  Rest'
<1>1. SessionOK'
  BY DEF SessionOK, Asking, Talking
<1>2. ReportsGenuine' /\ ExitZeroIsTrue'
  BY DEF ReportsGenuine, ExitZeroIsTrue, Nothing, Asking
<1> QED
  BY <1>1, <1>2 DEF Rest

LEMMA StartRest ==
    ASSUME SInv, NEW c \in DOMAIN Program, NEW noReset, Start(c, noReset)
    PROVE  Rest'
<1>1. /\ pc' = "ask" /\ cmd' = c /\ ver' = 4 /\ want' = setup.want /\ rc' = 0 /\ count' = 0
      /\ k' = 1 /\ i' = 0 /\ shown' = Nothing
  BY DEF Start
<1>2. setup.want \in 0..255
  BY WantRange DEF SInv, IInv, NegotiationOK
<1> QED
  BY <1>1, <1>2, AskingRest DEF Asking

LEMMA FailsRest ==
    ASSUME SInv, pc \in Asking, pc' = "idle", rc' = 1, ver' \in 0..255, want' \in 0..255,
           UNCHANGED <<cmd, count, shown>>
    PROVE  Rest'
<1>1. cmd \in DOMAIN Program /\ count \in 0..255 /\ shown = Nothing
  BY DEF SInv, SessionOK
<1>2. SessionOK'
  BY <1>1 DEF SessionOK, Asking, Talking
<1>3. ReportsGenuine' /\ ExitZeroIsTrue'
  BY <1>1 DEF ReportsGenuine, ExitZeroIsTrue, Nothing
<1> QED
  BY <1>2, <1>3 DEF Rest

LEMMA AgreedRest ==
    ASSUME SInv, pc \in Asking, NEW v \in 0..255, Agreed(v), want' \in 0..255,
           v <= 8 => v >= 4 /\ ncp'.agreed = v,
           UNCHANGED <<cmd, k, i, count, shown>>
    PROVE  Rest'
<1>1. /\ cmd \in DOMAIN Program /\ rc \in {0, 1} /\ count \in 0..255
      /\ k = 1 /\ i = 0 /\ shown = Nothing
  BY DEF SInv, SessionOK
<1>2. CASE ~Known(v)
  BY <1>2, FailsRest DEF Agreed
<1>3. CASE Known(v)
  <2>1. v \in 4..8 /\ ncp'.agreed = v
    BY <1>3 DEF Known
  <2>2. ver' = v /\ pc' = "step" /\ prog' = Program[cmd] /\ rc' = rc
    BY <1>3 DEF Agreed
  <2>3. Program[cmd] \in Programs /\ 1 \in 1..Len(Program[cmd])
    BY <1>1, ProgramSteps DEF Programs
  <2>4. /\ (cmd \in DOMAIN Program)' /\ (ver \in 0..255)' /\ (ver \in 4..8)'
        /\ (ncp.agreed \in {0, ver})' /\ (rc \in {0, 1})' /\ (count \in 0..255)'
    BY <1>1, <2>1, <2>2
  <2>5. /\ (prog \in Programs)' /\ (k \in 1..Len(prog))' /\ (i \in 0..255)'
        /\ (prog = Program[cmd])'
    BY <1>1, <2>2, <2>3
  <2>6. SessionOK'
    BY <2>2, <2>4, <2>5 DEF SessionOK, Asking
  <2>7. ReportsGenuine' /\ ExitZeroIsTrue'
    BY <1>1, <2>2 DEF ReportsGenuine, ExitZeroIsTrue, Nothing
  <2> QED
    BY <2>6, <2>7 DEF Rest
<1> QED
  BY <1>2, <1>3

\* The version an NCP claims fits a byte.
LEMMA ClaimRange ==
    ASSUME IInv, ver = 4, NEW res, ezsp_xfer("version", want, res), res.n >= 3
    PROVE  /\ res.out[1] \in 0..255
           /\ ncp.agreed = 0 => res.out[1] >= 4
<1>1. res \in {Received(a) : a \in NcpAnswers("version")}
  BY DEF ezsp_xfer, NoReply
<1>2. setup.speaks \in 4..255
  BY EzspAssumption DEF IInv, NegotiationOK
<1> QED
  BY <1>1, <1>2, VersionReply

LEMMA AskRest == ASSUME SInv, AskVersion PROVE Rest'
<1>1. /\ IInv /\ pc = "ask" /\ pc \in Asking /\ ver = 4 /\ want \in Int /\ want \in 4..255
      /\ UNCHANGED <<cmd, k, i, count, shown>>
  BY WantRange DEF AskVersion, SInv, IInv, Asking
<1>2. PICK res \in Replies("version") :
        /\ ezsp_xfer("version", want, res)
        /\ \/ res.n < 3 /\ Fails /\ UNCHANGED want
           \/ res.n >= 3 /\ res.out[1] = want /\ Agreed(want) /\ UNCHANGED want
           \/ /\ res.n >= 3 /\ res.out[1] # want
              /\ want' = res.out[1] /\ pc' = "reset" /\ UNCHANGED <<rc, prog, ver>>
  BY DEF AskVersion
<1>3. CASE res.n < 3 /\ Fails /\ UNCHANGED want
  <2>1. pc' = "idle" /\ rc' = 1 /\ ver' \in 0..255 /\ want' \in 0..255
    BY <1>1, <1>3 DEF Fails
  <2> QED
    BY <1>1, <2>1, FailsRest
<1>4. CASE res.n >= 3 /\ res.out[1] = want /\ Agreed(want) /\ UNCHANGED want
  <2>1. want <= 8 => ncp'.agreed = want
    BY <1>1, <1>2, <1>4, AgreedHere
  <2>2. want \in 0..255 /\ want >= 4 /\ want' \in 0..255
    BY <1>1, <1>4
  <2> QED
    BY <1>1, <1>4, <2>1, <2>2, AgreedRest
<1>5. CASE res.n >= 3 /\ want' = res.out[1] /\ pc' = "reset" /\ UNCHANGED <<rc, prog, ver>>
  <2>1. want' \in 0..255
    BY <1>1, <1>2, <1>5, ClaimRange
  <2>2. /\ cmd' \in DOMAIN Program /\ ver' \in 0..255 /\ rc' \in {0, 1} /\ count' \in 0..255
        /\ k' = 1 /\ i' = 0 /\ shown' = Nothing
    BY <1>1, <1>5 DEF SInv, SessionOK
  <2> QED
    BY <1>5, <2>1, <2>2, AskingRest DEF Asking
<1> QED
  BY <1>2, <1>3, <1>4, <1>5

LEMMA ResetRest == ASSUME SInv, ResetToAskAgain PROVE Rest'
<1>1. /\ pc = "reset" /\ pc \in Asking /\ pc' = "again"
      /\ UNCHANGED <<cmd, k, i, count, ver, want, rc, shown>>
  BY DEF ResetToAskAgain, Asking
<1>2. /\ cmd' \in DOMAIN Program /\ ver' \in 0..255 /\ want' \in 0..255 /\ rc' \in {0, 1}
      /\ count' \in 0..255 /\ k' = 1 /\ i' = 0 /\ shown' = Nothing
  BY <1>1 DEF SInv, SessionOK
<1> QED
  BY <1>1, <1>2, AskingRest DEF Asking

LEMMA AgainRest == ASSUME SInv, AskAgain PROVE Rest'
<1>1. /\ IInv /\ pc = "again" /\ pc \in Asking /\ ver = 4 /\ want \in Int /\ want \in 0..255
      /\ ncp.agreed = 0 /\ UNCHANGED <<cmd, k, i, count, shown, want>>
  BY DEF AskAgain, SInv, SessionOK, IInv, NegotiationOK, Asking
<1>2. PICK res \in Replies("version") :
        /\ ezsp_xfer("version", want, res)
        /\ IF res.n >= 3 /\ Converged(res) THEN Agreed(res.out[1]) ELSE Fails
  BY DEF AskAgain
<1>3. CASE Fails
  <2>1. pc' = "idle" /\ rc' = 1 /\ ver' \in 0..255 /\ want' \in 0..255
    BY <1>1, <1>3 DEF Fails
  <2> QED
    BY <1>1, <2>1, FailsRest
<1>4. CASE res.n >= 3 /\ Converged(res) /\ Agreed(res.out[1])
  <2>1. res.out[1] = want /\ ncp'.agreed = want
    BY <1>1, <1>2, <1>4, AgreedHere DEF Converged
  <2>2. want >= 4 /\ want' \in 0..255
    BY <1>1, <1>2, <1>4, <2>1, ClaimRange
  <2> QED
    BY <1>1, <1>4, <2>1, <2>2, AgreedRest
<1> QED
  BY <1>2, <1>3, <1>4

LEMMA TalkRest ==
    ASSUME SInv, pc \in Talking, pc' \in Talking \cup {"idle"},
           UNCHANGED <<cmd, ver, want, rc, setup, shown>>, count' \in 0..255,
           ncp'.agreed \in {0, ver}, crashed => crashed',
           pc' \in {"serve", "unicast"} => cmd = "run",
           pc' = "idle" => cmd \notin Promises,
           pc' = "step" => /\ prog' \in Programs /\ k' \in 1..Len(prog') /\ i' \in 0..255
                           /\ cmd # "run" => prog' = Program[cmd]
    PROVE  Rest'
<1>1. pc' \notin Asking
  BY DEF Talking, Asking
<1>2. SessionOK'
  BY <1>1 DEF SInv, SessionOK
<1>3. ReportsGenuine'
  BY DEF SInv, ReportsGenuine
<1>4. ExitZeroIsTrue'
  BY DEF ExitZeroIsTrue, Promises
<1> QED
  BY <1>2, <1>3, <1>4 DEF Rest

LEMMA NoEntriesRest == ASSUME SInv, NoEntries PROVE Rest'
<1>1. /\ pc = "step" /\ Reps(prog[k]) = 0 /\ k' = k + 1
      /\ pc' = IF k < Len(prog) THEN pc ELSE Home
      /\ UNCHANGED <<cmd, prog, i, count, ver, want, rc, setup, ncp, crashed, shown>>
  BY DEF NoEntries
<1>2. /\ ncp.agreed \in {0, ver} /\ count \in 0..255
      /\ prog \in Programs /\ k \in 1..Len(prog) /\ i \in 0..255
      /\ cmd # "run" => prog = Program[cmd]
  BY <1>1 DEF SInv, SessionOK, Talking
<1>3. Len(prog) \in Nat
  BY <1>2 DEF Programs
<1>4. cmd \notin Promises
  <2> SUFFICES ASSUME cmd \in Promises PROVE FALSE
    OBVIOUS
  <2>1. prog \in Seq(Sure)
    BY <1>2, PromiseKept DEF Promises, Keeps
  <2>2. prog[k] \in Sure
    BY <1>2, <2>1
  <2>3. prog[k] \in Steps /\ prog[k].reps # Table
    BY <2>2 DEF Sure
  <2>4. prog[k].reps \in 1..255 /\ Reps(prog[k]) = prog[k].reps
    BY <2>3, StepFields DEF Reps
  <2>5. prog[k].reps # 0
    BY <2>4
  <2> QED
    BY <1>1, <2>4, <2>5, Zenon
<1>5. pc' \in {"step", "serve", "idle"} /\ (pc' = "serve" => cmd = "run")
  BY <1>1 DEF Home
<1>6. pc' = "step" => k' \in 1..Len(prog)
  BY <1>1, <1>2, <1>3, HomeIs
<1> QED
  BY <1>1, <1>2, <1>4, <1>5, <1>6, TalkRest DEF Talking

LEMMA DaemonRest ==
    ASSUME SInv, \/ zcl_send \/ Stop
                 \/ \E r \in DOMAIN control_accept : Serve(r)
                 \/ \E m \in Messages : Incoming(m)
    PROVE  Rest'
<1>1. pc \in {"serve", "unicast"} /\ UNCHANGED <<cmd, ver, want, rc, setup, shown, count>>
  BY DEF zcl_send, Stop, Serve, Incoming
<1>2. /\ pc \in Talking /\ cmd = "run" /\ cmd \notin Promises
      /\ ncp.agreed \in {0, ver} /\ count \in 0..255
  BY <1>1 DEF SInv, SessionOK, Talking, Promises
<1>3. CASE zcl_send
  <2>1. pc' = "serve"
    BY <1>3 DEF zcl_send
  <2>2. ncp'.agreed = ncp.agreed /\ crashed' = crashed
    <3>1. setup.speaks # 0 /\ IInv
      BY Ranges DEF SInv, IInv, NegotiationOK
    <3>2. PICK res : ezsp_xfer("sendUnicast", 0, res)
      BY <1>3 DEF zcl_send
    <3> QED
      BY <3>1, <3>2, NcpStep
  <2> QED
    BY <1>1, <1>2, <2>1, <2>2, TalkRest DEF Talking
<1>4. CASE Stop
  <2>1. pc' = "idle" /\ UNCHANGED <<ncp, crashed>>
    BY <1>4 DEF Stop
  <2> QED
    BY <1>1, <1>2, <2>1, TalkRest DEF Talking
<1>5. ASSUME NEW r \in DOMAIN control_accept, Serve(r) PROVE Rest'
  <2>1. /\ pc' = "step" /\ prog' = control_accept[r] /\ k' = 1 /\ i' = 0
        /\ UNCHANGED <<ncp, crashed>>
    BY <1>5 DEF Serve
  <2>2. prog' \in Programs /\ k' \in 1..Len(prog')
    BY <2>1, RequestSteps DEF Programs
  <2> QED
    BY <1>1, <1>2, <2>1, <2>2, TalkRest DEF Talking
<1>6. ASSUME NEW m \in Messages, Incoming(m) PROVE Rest'
  <2>1. pc' \in {"serve", "unicast"} /\ UNCHANGED <<ncp, crashed>>
    BY <1>6 DEF Incoming
  <2> QED
    BY <1>1, <1>2, <2>1, TalkRest DEF Talking
<1> QED
  BY <1>3, <1>4, <1>5, <1>6

LEMMA CrashRest == ASSUME SInv, NcpCrash PROVE Rest'
<1>1. /\ ncp'.agreed = 0 /\ crashed'
      /\ UNCHANGED <<pc, cmd, prog, k, i, count, ver, want, rc, setup, shown, ncmds>>
  BY FreshNcp DEF NcpCrash, session
<1>2. SessionOK'
  BY <1>1 DEF SInv, SessionOK
<1>3. ReportsGenuine' /\ ExitZeroIsTrue'
  BY <1>1 DEF SInv, ReportsGenuine, ExitZeroIsTrue
<1> QED
  BY <1>2, <1>3 DEF Rest

LEMMA StutterRest == ASSUME SInv, UNCHANGED vars PROVE Rest'
<1>1. UNCHANGED <<pc, cmd, prog, k, i, count, ver, want, rc, setup, ncp, crashed, shown, ncmds>>
  BY DEF vars, session
<1>2. SessionOK'
  BY <1>1 DEF SInv, SessionOK
<1>3. ReportsGenuine' /\ ExitZeroIsTrue'
  BY <1>1 DEF SInv, ReportsGenuine, ExitZeroIsTrue
<1> QED
  BY <1>2, <1>3 DEF Rest

LEMMA SessionNext == SInv /\ [Next]_vars => SInv'
<1> SUFFICES ASSUME SInv, [Next]_vars PROVE SInv'
  OBVIOUS
<1>1. IInv'
  BY NextInv DEF SInv
<1>2. Rest'
  <2>1. CASE \E c \in DOMAIN Program, noReset \in BOOLEAN : Start(c, noReset)
    BY <2>1, StartRest
  <2>2. CASE AskVersion \/ ResetToAskAgain \/ AskAgain
    BY <2>2, AskRest, ResetRest, AgainRest
  <2>3. CASE Query
    BY <1>1, <2>3, QueryRest
  <2>4. CASE NoEntries
    BY <2>4, NoEntriesRest
  <2>5. CASE \/ zcl_send \/ Stop
             \/ \E r \in DOMAIN control_accept : Serve(r)
             \/ \E m \in Messages : Incoming(m)
    BY <2>5, DaemonRest
  <2>6. CASE NcpCrash
    BY <2>6, CrashRest
  <2>7. CASE UNCHANGED vars
    BY <2>7, StutterRest
  <2> QED
    BY <2>1, <2>2, <2>3, <2>4, <2>5, <2>6, <2>7 DEF Next
<1> QED
  BY <1>1, <1>2 DEF SInv, Rest

\* The commands never read past their last query, talk in a version whose
\* layout is known, and keep every variable in its type, for every table size
\* an NCP may report.
THEOREM TypeCorrect == Spec => []TypeOK
<1>1. SInv => TypeOK
  BY DEF SInv, IInv, NegotiationOK, SessionOK, TypeOK, Asking, Talking
<1> QED
  BY <1>1, SessionInit, SessionNext, PTL DEF Spec

\* What a command prints or acts on (main.c and control.c, behind ezsp_xfer)
\* is the NCP's answer to that very query, or a single byte of invalidCommand
\* in a v4 session whose NCP has reset.
THEOREM Genuine == Spec => []ReportsGenuine
<1>1. SInv => ReportsGenuine
  BY DEF SInv
<1> QED
  BY <1>1, SessionInit, SessionNext, PTL DEF Spec

\* permit, power, bootloader and verify return 0 only when the NCP has done
\* what they are for, and verify only for an image made for this chip.
THEOREM ExitZero == Spec => []ExitZeroIsTrue
<1>1. SInv => ExitZeroIsTrue
  BY DEF SInv
<1> QED
  BY <1>1, SessionInit, SessionNext, PTL DEF Spec

(***************************************************************************)
(* Induction over a range.                                                 *)
(***************************************************************************)
LEMMA Least ==
    ASSUME NEW T \in SUBSET Nat, T # {}
    PROVE  \E m \in T : \A j \in T : m <= j
<1> DEFINE R == OpToRel(<, Nat)
<1>1. IsWellFoundedOn(R, Nat)
  BY NatLessThanWellFounded
<1>2. \A a, b \in Nat : a < b => <<a, b>> \in R
  BY DEF OpToRel
<1> HIDE DEF R
<1>3. PICK m \in T : \A j \in T : ~(<<j, m>> \in R)
  BY <1>1, WFMin
<1>4. m \in Nat /\ \A j \in T : j \in Nat /\ ~(j < m)
  BY <1>2, <1>3
<1> QED
  BY <1>4

LEMMA UpTo ==
    ASSUME NEW n \in Nat, NEW T, 0 \in T, \A j \in 1..n : j - 1 \in T => j \in T
    PROVE  \A j \in 0..n : j \in T
<1> SUFFICES ASSUME (0..n) \ T # {} PROVE FALSE
  OBVIOUS
<1>0. (0..n) \ T \in SUBSET Nat
  OBVIOUS
<1>1. PICK m \in (0..n) \ T : \A j \in (0..n) \ T : m <= j
  BY <1>0, Least, Zenon
<1>2. m \in 1..n /\ m - 1 \in 0..n /\ ~(m <= m - 1)
  BY <1>1
<1> QED
  BY <1>1, <1>2

(***************************************************************************)
(* The response                                                            *)
(***************************************************************************)
Response == [at: Nat, ids: Seq(Nat)]

\* g goes through the first n attributes the way zcl_handle_incoming does.
Goes(g, n, ids, h) ==
    g = [j \in 0..n |-> IF j = 0 THEN [at |-> 3, ids |-> <<>>]
                        ELSE zcl_append_attr(g[j - 1], ids[j], h)]

Record(ids, h) == CHOOSE g : Goes(g, Len(ids), ids, h)

LEMMA HandleIs ==
    ASSUME NEW m, NEW h
    PROVE  zcl_handle_incoming(m, h) = Record(AskedIds(m), h)[Len(AskedIds(m))]
BY DEF zcl_handle_incoming, Record, Goes

\* It can, for every list.
LEMMA RecordIs ==
    ASSUME NEW ids \in Seq(Nat), NEW h
    PROVE  /\ Record(ids, h)[0] = [at |-> 3, ids |-> <<>>]
           /\ \A j \in 1..Len(ids) :
                Record(ids, h)[j] = zcl_append_attr(Record(ids, h)[j - 1], ids[j], h)
<1> DEFINE b == [at |-> 3, ids |-> <<>>]
           T == {n \in Nat : \E g : Goes(g, n, ids, h)}
           N == Len(ids)
<1>1. 0 \in T
  <2> DEFINE g == [j \in 0..0 |-> b]
  <2>1. g = [j \in 0..0 |-> IF j = 0 THEN b ELSE zcl_append_attr(g[j - 1], ids[j], h)]
    OBVIOUS
  <2>2. Goes(g, 0, ids, h)
    BY <2>1 DEF Goes
  <2> QED
    BY <2>2
<1>2. ASSUME NEW n \in 1..N, n - 1 \in T PROVE n \in T
  <2>1. PICK g : Goes(g, n - 1, ids, h)
    BY <1>2
  <2> DEFINE s(r, j) == zcl_append_attr(r, ids[j], h)
             f == [j \in 0..n |-> IF j < n THEN g[j] ELSE s(g[n - 1], n)]
  <2>2. g = [j \in 0..(n - 1) |-> IF j = 0 THEN b ELSE s(g[j - 1], j)]
    BY <2>1 DEF Goes
  <2> HIDE DEF s, b
  <2>3. \A j \in 0..n : f[j] = IF j = 0 THEN b ELSE s(f[j - 1], j)
    <3> TAKE j \in 0..n
    <3>1. CASE j = 0
      BY <2>2, <3>1
    <3>2. CASE j # 0 /\ j < n
      <4>1. j \in 0..(n - 1) /\ j - 1 \in 0..n /\ j - 1 < n
        BY <3>2
      <4>2. f[j] = g[j] /\ f[j - 1] = g[j - 1]
        BY <3>2, <4>1
      <4> QED
        BY <2>2, <3>2, <4>1, <4>2
    <3>3. CASE j = n
      <4>1. n - 1 \in 0..n /\ n - 1 < n /\ ~(n < n) /\ n # 0
        OBVIOUS
      <4>2. f[n] = s(g[n - 1], n) /\ f[n - 1] = g[n - 1]
        BY <4>1
      <4> QED
        BY <3>3, <4>1, <4>2
    <3> QED
      BY <3>1, <3>2, <3>3
  <2>4. f = [j \in 0..n |-> IF j = 0 THEN b ELSE s(f[j - 1], j)]
    <3> HIDE DEF f
    <3>1. f = [j \in 0..n |-> f[j]]
      BY DEF f
    <3> QED
      BY <2>3, <3>1
  <2>5. Goes(f, n, ids, h)
    <3> HIDE DEF f
    <3> QED
      BY <2>4 DEF Goes, s, b
  <2> QED
    BY <2>5
<1>3. N \in T
  <2> HIDE DEF T
  <2>1. N \in Nat /\ N \in 0..N
    OBVIOUS
  <2> QED
    BY <1>1, <1>2, <2>1, UpTo
<1>4. Goes(Record(ids, h), N, ids, h)
  BY <1>3 DEF Record
<1> HIDE DEF T
<1>5. Record(ids, h) = [j \in 0..N |-> IF j = 0 THEN b
                                       ELSE zcl_append_attr(Record(ids, h)[j - 1], ids[j], h)]
  BY <1>4 DEF Goes
<1> HIDE DEF b
<1>6. Record(ids, h)[0] = b
  BY <1>5
<1>7. ASSUME NEW j \in 1..N
      PROVE Record(ids, h)[j] = zcl_append_attr(Record(ids, h)[j - 1], ids[j], h)
  <2>1. j \in 0..N /\ j # 0
    OBVIOUS
  <2> QED
    BY <1>5, <2>1
<1> QED
  BY <1>6, <1>7 DEF b

\* With a host name of up to 27 bytes no record is longer than 32.
LEMMA RecordSizes ==
    ASSUME NEW id \in Nat, NEW h \in 0..27
    PROVE  RecordSize(id, h) \in 3..32
BY DEF RecordSize, Strings

\* What one more record makes of a response of which nothing was left out, unless
\* it is too long for a unicast already.
LEMMA OneMore ==
    ASSUME NEW x \in Response, NEW id \in Nat, NEW h \in 0..27, NEW y,
           y = zcl_append_attr(x, id, h)
    PROVE  /\ y \in Response
           /\ x.at > UnicastMax => y.at > UnicastMax
           /\ y.ids = Append(x.ids, id) \/ y.at > UnicastMax
<1> DEFINE z == RecordSize(id, h)
<1>1. z \in 3..32
  BY RecordSizes
<1>2. UnicastMax \in Nat /\ RespMax \in Nat /\ UnicastMax + 32 <= RespMax
  BY ZclAssumption
<1>3. x.at \in Nat /\ x.ids \in Seq(Nat)
  BY DEF Response
<1>4. y = IF x.at + z > RespMax THEN x ELSE [at |-> x.at + z, ids |-> Append(x.ids, id)]
  BY DEF zcl_append_attr
<1> HIDE DEF z
<1>5. CASE x.at + z > RespMax
  <2>1. y = x
    BY <1>4, <1>5
  <2>2. x.at > UnicastMax
    BY <1>1, <1>2, <1>3, <1>5
  <2> QED
    BY <2>1, <2>2
<1>6. CASE ~(x.at + z > RespMax)
  <2>1. y = [at |-> x.at + z, ids |-> Append(x.ids, id)]
    BY <1>4, <1>6
  <2>2. x.at + z \in Nat /\ Append(x.ids, id) \in Seq(Nat)
    BY <1>1, <1>3
  <2>3. y \in Response /\ y.at = x.at + z /\ y.ids = Append(x.ids, id)
    BY <2>1, <2>2 DEF Response
  <2>4. x.at > UnicastMax => x.at + z > UnicastMax
    BY <1>1, <1>2, <1>3
  <2> QED
    BY <2>3, <2>4
<1> QED
  BY <1>5, <1>6

\* A response that fits a unicast has a record for each attribute.
LEMMA FitsMeansAll ==
    ASSUME NEW ids \in Seq(Nat), NEW h \in 0..27,
           NEW r, r = Record(ids, h)
    PROVE  UnicastFits(r[Len(ids)].at) => r[Len(ids)].ids = ids
<1> DEFINE N == Len(ids)
           Good(x, j) == /\ x \in Response
                         /\ x.ids = SubSeq(ids, 1, j) \/ x.at > UnicastMax
           T == {j \in 0..N : Good(r[j], j)}
<1>0. N \in Nat /\ 0 \in 0..N /\ N \in 0..N /\ UnicastMax \in Nat
  BY ZclAssumption
<1>1. 0 \in T
  <2>1. r[0] = [at |-> 3, ids |-> <<>>]
    BY RecordIs
  <2>2. SubSeq(ids, 1, 0) = <<>> /\ <<>> \in Seq(Nat)
    OBVIOUS
  <2>3. r[0] \in Response /\ r[0].ids = SubSeq(ids, 1, 0)
    BY <2>1, <2>2 DEF Response
  <2> QED
    BY <1>0, <2>3
<1>2. ASSUME NEW j \in 1..N, j - 1 \in T PROVE j \in T
  <2>1. r[j] = zcl_append_attr(r[j - 1], ids[j], h) /\ ids[j] \in Nat /\ j \in 0..N
    BY RecordIs
  <2>2. Good(r[j - 1], j - 1)
    BY <1>2
  <2>3. /\ r[j] \in Response
        /\ r[j - 1].at > UnicastMax => r[j].at > UnicastMax
        /\ r[j].ids = Append(r[j - 1].ids, ids[j]) \/ r[j].at > UnicastMax
    <3>1. PICK y : y = r[j]
      OBVIOUS
    <3>2. PICK x \in Response, id \in Nat : x = r[j - 1] /\ id = ids[j]
      BY <2>1, <2>2
    <3>3. y = zcl_append_attr(x, id, h)
      BY <2>1, <3>1, <3>2
    <3>4. /\ y \in Response
          /\ x.at > UnicastMax => y.at > UnicastMax
          /\ y.ids = Append(x.ids, id) \/ y.at > UnicastMax
      BY <3>3, OneMore
    <3> QED
      BY <3>1, <3>2, <3>4
  <2>4. Append(SubSeq(ids, 1, j - 1), ids[j]) = SubSeq(ids, 1, j)
    OBVIOUS
  <2>5. r[j].ids = SubSeq(ids, 1, j) \/ r[j].at > UnicastMax
    BY <2>2, <2>3, <2>4
  <2> QED
    BY <2>1, <2>3, <2>5
<1>3. N \in T
  <2> HIDE DEF T
  <2> QED
    BY <1>0, <1>1, <1>2, UpTo
<1>4. SubSeq(ids, 1, N) = ids
  OBVIOUS
<1>5. r[N] \in Response /\ (r[N].ids = ids \/ r[N].at > UnicastMax)
  BY <1>3, <1>4
<1>6. r[N].at \in Nat
  BY <1>5 DEF Response
<1> QED
  BY <1>0, <1>5, <1>6 DEF UnicastFits

\* The ids are read where they are, and all of them.
LEMMA AskedAll ==
    ASSUME NEW m \in Messages, IsRead(m)
    PROVE  AskedIds(m) = m.attrs /\ m.attrs \in Seq(Nat)
<1> DEFINE a == m.attrs
           L == Len(a)
<1>0. /\ m.hdr \in Nat /\ m.manuf \in BOOLEAN /\ a \in Seq(Nat)
      /\ \/ m.hdr \in {FirstId(m), FirstId(m) + 1}
         \/ m.hdr < FirstId(m) /\ a = <<>>
  BY MessageAssumption, Zenon
<1>1. m.hdr \in Nat /\ a \in Seq(Nat) /\ L \in Nat
  BY <1>0
<1>2. ZLen(m) = m.hdr + 2 * L
  BY DEF ZLen
<1>3. ~TooShort(m) /\ ~Truncated(m)
  BY DEF IsRead
<1>4. /\ FirstId(m) \in {3, 5}
      /\ FirstId(m) = (IF m.manuf THEN 3 ELSE 1) + 2
  BY DEF FirstId
<1> HIDE DEF a, L
<1>5. ~(m.hdr < FirstId(m))
  <2> SUFFICES ASSUME m.hdr < FirstId(m) PROVE FALSE
    OBVIOUS
  <2>1. a = <<>> /\ L = 0 /\ ZLen(m) = m.hdr
    BY <1>0, <1>1, <1>2, <1>4 DEF L
  <2> QED
    BY <1>1, <1>3, <1>4, <2>1 DEF TooShort
<1>6. (ZLen(m) - FirstId(m)) \div 2 = L
  <2>1. m.hdr \in {FirstId(m), FirstId(m) + 1}
    BY <1>0, <1>5
  <2>2. ZLen(m) - FirstId(m) \in {2 * L, 2 * L + 1}
    BY <1>1, <1>2, <1>4, <2>1
  <2> QED
    BY <1>1, <2>2
<1>7. OutMax \in Nat /\ ~(OutMax < 19 + ZLen(m))
  BY <1>3, ZclAssumption DEF Truncated
<1>8. \A j \in 1..L : ~(19 + FirstId(m) + 2 * j > OutMax \/ j > L)
  BY <1>1, <1>2, <1>4, <1>5, <1>7
<1>9. AskedIds(m) = [j \in 1..L |->
                       IF 19 + FirstId(m) + 2 * j > OutMax \/ j > L THEN Junk ELSE a[j]]
  BY <1>6 DEF AskedIds, a, L
<1>10. AskedIds(m) = [j \in 1..L |-> a[j]]
  BY <1>8, <1>9
<1>11. a = [j \in 1..L |-> a[j]]
  BY <1>1 DEF L
<1> QED
  BY <1>1, <1>10, <1>11 DEF a

\* zcl.c:229, for every list of attributes: a response that is sent has a record
\* for each attribute that was asked for, in that order, and for nothing else,
\* unless the host name is longer than 27 bytes.
THEOREM InFull == Spec => []AnswersWhatWasAsked
<1>1. Init => AnswersWhatWasAsked
  BY DEF Init, AnswersWhatWasAsked, NoAnswer
<1>2. AnswersWhatWasAsked /\ [Next]_vars => AnswersWhatWasAsked'
  <2> SUFFICES ASSUME AnswersWhatWasAsked, [Next]_vars PROVE AnswersWhatWasAsked'
    OBVIOUS
  <2>1. CASE ans' = ans \/ ans' = NoAnswer
    BY <2>1 DEF AnswersWhatWasAsked, NoAnswer
  <2>2. ASSUME NEW m \in Messages, Incoming(m) PROVE AnswersWhatWasAsked'
    <3>1. PICK h \in HostLens :
            \/ ans' = ans
            \/ /\ IsRead(m) /\ UnicastFits(zcl_handle_incoming(m, h).at)
               /\ ans' = [asked |-> m.attrs, ids |-> zcl_handle_incoming(m, h).ids, long |-> h > 27]
      BY <2>2 DEF Incoming
    <3>2. CASE ans' = ans
      BY <2>1, <3>2
    <3>3. CASE /\ IsRead(m) /\ UnicastFits(zcl_handle_incoming(m, h).at) /\ ~(h > 27)
               /\ ans' = [asked |-> m.attrs, ids |-> zcl_handle_incoming(m, h).ids, long |-> h > 27]
      <4>1. h \in 0..27
        BY <3>3, EzspAssumption
      <4>2. AskedIds(m) = m.attrs /\ m.attrs \in Seq(Nat)
        BY <3>3, AskedAll
      <4>3. zcl_handle_incoming(m, h) = Record(m.attrs, h)[Len(m.attrs)]
        BY <4>2, HandleIs
      <4>4. zcl_handle_incoming(m, h).ids = m.attrs
        BY <3>3, <4>1, <4>2, <4>3, FitsMeansAll
      <4> QED
        BY <3>3, <4>4 DEF AnswersWhatWasAsked
    <3>4. CASE h > 27 /\ ans' = [asked |-> m.attrs, ids |-> zcl_handle_incoming(m, h).ids, long |-> h > 27]
      BY <3>4 DEF AnswersWhatWasAsked
    <3> QED
      BY <3>1, <3>2, <3>3, <3>4
  <2>3. ASSUME NEW c \in DOMAIN Program, NEW noReset \in BOOLEAN, Start(c, noReset)
        PROVE  AnswersWhatWasAsked'
    BY <2>1, <2>3 DEF Start
  <2>4. CASE AskVersion \/ ResetToAskAgain \/ AskAgain \/ Query \/ NoEntries
    BY <2>1, <2>4 DEF AskVersion, ResetToAskAgain, AskAgain, Query, NoEntries
  <2>5. CASE zcl_send \/ Stop \/ NcpCrash \/ UNCHANGED vars
    BY <2>1, <2>5 DEF zcl_send, Stop, NcpCrash, vars
  <2>6. ASSUME NEW r \in DOMAIN control_accept, Serve(r) PROVE AnswersWhatWasAsked'
    BY <2>1, <2>6 DEF Serve
  <2> QED
    BY <2>2, <2>3, <2>4, <2>5, <2>6 DEF Next
<1> QED
  BY <1>1, <1>2, PTL DEF Spec
=============================================================================
