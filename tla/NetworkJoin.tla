----------------------------- MODULE NetworkJoin -----------------------------
(***************************************************************************)
(* How the NCP gets onto a Zigbee network, is brought back onto it and is  *)
(* taken off: the commands join, leave and run (up to its loop), and the   *)
(* init script that runs them one after the other.  Each command is a      *)
(* sequence of EZSP commands interleaved with what the NCP's stack does by *)
(* itself; a command, the script with it, can be killed anywhere, and the  *)
(* power can fail anywhere.                                                *)
(*                                                                         *)
(* The stack is external: its configuration is lost by every reset, the    *)
(* network it has joined is kept in NVM, and networkInit restores it only  *)
(* under the configuration it was joined with.                             *)
(***************************************************************************)
EXTENDS Integers, Sequences

CONSTANTS
    Retries,        \* cfg.join_retries
    JoinPolls,      \* callback polls of one wait for the join (join_timeout * 4)
    LeavePolls,     \* callback polls of leave (40 in the code)
    ScanPolls,      \* callback polls of scan_find (80 in the code)
    Precheck,       \* scan before joining (not --no-precheck)
    Limit           \* bound on the external events named in Budgets

Budgets == {"join", "leave", "fault", "noise", "beacon", "kill", "power"}

ASSUME BoundsAssumption ==
    /\ Retries \in Nat /\ JoinPolls \in Nat \ {0} /\ LeavePolls \in Nat \ {0}
    /\ ScanPolls \in Nat \ {0} /\ Precheck \in BOOLEAN /\ Limit \in [Budgets -> Nat]

VARIABLES
    cmd, pc,            \* the command that has the radio, and where it is
    attempts_left, i,   \* cmd_join's counters; i counts polls
    done,               \* history: the last command that returned, and its code
    attempts,           \* history: joinNetwork commands of this join
    svc,                \* procd keeps the service running
    config,             \* NCP: what of ezsp_apply_config it has
    net, nvm, cbq,      \* NCP: network state, stored network, callbacks
    used

host == <<cmd, pc, attempts_left, i, done, attempts, svc>>
ncp  == <<config, net, nvm, cbq>>
vars == <<host, ncp, used>>

\* EmberStatus of a stackStatusHandler: network up (0x90), network down
\* (0x91), no network key (0xAD), join failed (0x94), one of the hopeless ones
\* (0xAB, 0x98, 0xAF); a beacon of the wanted pan that allows joining or not;
\* the end of a scan; any other callback.
Callbacks == {"up", "down", "nokey", "failed", "hopeless",
              "open", "closed", "scandone", "other"}

Spend(k) == used[k] < Limit[k] /\ used' = [used EXCEPT ![k] = @ + 1]

At(c, l) == cmd = c /\ pc = l

\* The command goes on at l.
Goto(l) == pc' = l /\ UNCHANGED <<cmd, svc, done>>

\* The command returns rc.  The script starts the service after a join, not
\* after a leave; a run that ends is respawned.
Exit(rc) ==
    /\ cmd' = "none" /\ pc' = "off" /\ done' = [cmd |-> cmd, rc |-> rc]
    /\ svc' = (svc \/ cmd = "join")

\* One EZSP command: carried out by the NCP, or lost on SPI.
Answered == UNCHANGED used
Lost == Spend("fault")

\* The callback ezsp_poll_callback takes off the queue.
Pops(cb) == cbq # <<>> /\ Head(cbq) = cb /\ cbq' = Tail(cbq)

\* Polls are counted.
SamePoll == UNCHANGED i
NextPoll == i' = i + 1

(***************************************************************************)
(* The init script and procd                                               *)
(***************************************************************************)
Begin(c) ==
    /\ cmd' = c /\ pc' = "reset" /\ done' = [cmd |-> "none", rc |-> 0]
    /\ attempts_left' = Retries /\ i' = 0 /\ attempts' = 0

\* join() and leave(): stop the service, run the command.
ScriptJoin ==
    /\ cmd \in {"none", "run"} /\ Spend("join")
    /\ Begin("join") /\ svc' = FALSE
    /\ UNCHANGED ncp

ScriptLeave ==
    /\ cmd \in {"none", "run"} /\ Spend("leave")
    /\ Begin("leave") /\ svc' = FALSE
    /\ UNCHANGED ncp

StartService ==
    /\ cmd = "none" /\ svc
    /\ cmd' = "run" /\ pc' = "reset"
    /\ UNCHANGED <<attempts_left, i, done, attempts, svc, ncp, used>>

\* ^C: the command and the script that called it end; the radio is left as is.
Kill ==
    /\ cmd \in {"join", "leave"} /\ Spend("kill")
    /\ cmd' = "none" /\ pc' = "off"
    /\ UNCHANGED <<attempts_left, i, done, attempts, svc, ncp>>

\* A power cut, and the boot after it, which starts the service.
PowerCut ==
    /\ Spend("power")
    /\ cmd' = "none" /\ pc' = "off" /\ svc' = TRUE
    /\ config' = "none" /\ net' = "down" /\ cbq' = <<>>
    /\ UNCHANGED <<attempts_left, i, done, attempts, nvm>>

(***************************************************************************)
(* What every command begins with                                          *)
(***************************************************************************)
ncp_reset ==
    /\ pc = "reset"
    /\ config' = "none" /\ net' = "down" /\ cbq' = <<>>
    /\ Goto("init")
    /\ UNCHANGED <<attempts_left, i, attempts, nvm, used>>

ezsp_init ==
    /\ pc = "init"
    /\ \/ Answered /\ Goto(IF cmd = "join" /\ Precheck THEN "scan" ELSE "config")
       \/ Lost /\ Exit(1)
    /\ UNCHANGED <<attempts_left, i, attempts, ncp>>

\* The one configuration every command applies.
ConfigByCommand == IF cmd = "run" THEN "partial" ELSE "full"
Configuration == "full"

\* A value that cannot be set is only reported: "profile" if the stack profile
\* is missing, "partial" if one of the others is.
ezsp_apply_config ==
    /\ pc = "config"
    /\ \/ Answered /\ config' = Configuration
       \/ Lost /\ config' \in {"profile", "partial"}
    /\ Goto(IF cmd = "join" THEN "readback" ELSE "netinit")
    /\ UNCHANGED <<attempts_left, i, attempts, net, nvm, cbq>>

\* networkInit for run and leave; neither stops when it fails.
NetworkInit ==
    /\ pc = "netinit"
    /\ \/ /\ Answered
          /\ IF nvm /\ config = "full"
             THEN net' = "up" /\ cbq' = Append(cbq, "up")
             ELSE UNCHANGED <<net, cbq>>
       \/ Lost /\ UNCHANGED <<net, cbq>>
    /\ Goto(IF cmd = "run" THEN "loop" ELSE "leave")
    /\ UNCHANGED <<attempts_left, i, attempts, config, nvm>>

(***************************************************************************)
(* scan_find                                                               *)
(***************************************************************************)
ScanStart ==
    /\ At("join", "scan")
    /\ \/ Answered /\ Goto("scanning") /\ net' = "scanning"
       \/ Lost /\ Goto("config") /\ UNCHANGED net         \* "skipping the check"
    /\ i' = 0
    /\ UNCHANGED <<attempts_left, attempts, config, nvm, cbq>>

\* A beacon of the pan that allows joining: go on.
ScanOpen ==
    /\ At("join", "scanning") /\ i < ScanPolls /\ Pops("open")
    /\ Goto("config") /\ i' = 0
    /\ UNCHANGED <<attempts_left, attempts, config, net, nvm, used>>

\* The first beacon decides: if it does not allow joining, give up.
ScanClosed ==
    /\ At("join", "scanning") /\ i < ScanPolls /\ Pops("closed")
    /\ Exit(1)
    /\ UNCHANGED <<attempts_left, i, attempts, config, net, nvm, used>>

\* Nothing, or something else, in this poll.
ScanNext ==
    /\ At("join", "scanning") /\ i < ScanPolls
    /\ \/ cbq = <<>> /\ UNCHANGED cbq
       \/ Pops("other")
    /\ NextPoll
    /\ UNCHANGED <<cmd, pc, attempts_left, done, attempts, svc, config, net, nvm, used>>

\* The scan is over, or polled long enough, without such a beacon.
ScanNothing ==
    /\ At("join", "scanning")
    /\ (i < ScanPolls /\ Pops("scandone")) \/ (i = ScanPolls /\ UNCHANGED cbq)
    /\ Exit(1)
    /\ UNCHANGED <<attempts_left, i, attempts, config, net, nvm, used>>

(***************************************************************************)
(* The join itself                                                         *)
(***************************************************************************)
\* "Setting reported success is not proof": the stack profile is read back.
Readback ==
    /\ At("join", "readback")
    /\ \/ Answered /\ config = "profile" /\ Exit(1)
       \/ Answered /\ config # "profile" /\ Goto("security")
       \/ Lost /\ Goto("security")
    /\ UNCHANGED <<attempts_left, i, attempts, ncp>>

SetSecurity ==
    /\ At("join", "security")
    /\ \/ Answered /\ Goto("attempt")
       \/ Lost /\ Exit(1)
    /\ UNCHANGED <<attempts_left, i, attempts, ncp>>

JoinNetwork ==
    /\ At("join", "attempt")
    /\ \/ Answered /\ net' = "joining" /\ Goto("wait")
       \/ Lost /\ Exit(1) /\ net' \in {net, "joining"}
    /\ i' = 0 /\ attempts' = attempts + 1
    /\ UNCHANGED <<attempts_left, config, nvm, cbq>>

Polling == At("join", "wait") /\ i < JoinPolls

\* Which stack status is what to cmd_join.
AnyStatusIsUp == {"up", "down"}
IsUp == {"up"}
DownIsTransient == {"nokey", "failed", "down"}
Transient == {"nokey", "failed"}

JoinUp ==
    /\ Polling /\ \E cb \in IsUp : Pops(cb)
    /\ Exit(0)
    /\ UNCHANGED <<attempts_left, i, attempts, config, net, nvm, used>>

\* attempts_left-- > 0
RetryOnceMore == attempts_left >= 0 /\ attempts_left' = attempts_left - 1
Retry == attempts_left > 0 /\ attempts_left' = attempts_left - 1

JoinRetry ==
    /\ Polling /\ \E cb \in Transient : Pops(cb)
    /\ Retry
    /\ Goto("attempt")
    /\ UNCHANGED <<i, attempts, config, net, nvm, used>>

\* Out of retries, or a failure no retry can mend.
JoinFailed ==
    /\ Polling
    /\ (attempts_left = 0 /\ \E cb \in Transient : Pops(cb)) \/ Pops("hopeless")
    /\ Exit(1)
    /\ UNCHANGED <<attempts_left, i, attempts, config, net, nvm, used>>

JoinNext ==
    /\ Polling
    /\ \/ cbq = <<>> /\ UNCHANGED cbq
       \/ \E cb \in Callbacks \ (IsUp \cup Transient \cup {"hopeless"}) : Pops(cb)
    /\ NextPoll
    /\ UNCHANGED <<cmd, pc, attempts_left, done, attempts, svc, config, net, nvm, used>>

JoinTimesOut ==
    /\ At("join", "wait") /\ i = JoinPolls
    /\ Exit(1)
    /\ UNCHANGED <<attempts_left, i, attempts, ncp, used>>

(***************************************************************************)
(* leave                                                                   *)
(***************************************************************************)
LeaveNetwork ==
    /\ At("leave", "leave")
    /\ \/ Answered /\ net = "up" /\ net' = "leaving" /\ Goto("leaving")
       \/ Answered /\ net # "up" /\ UNCHANGED net /\ Exit(1)
       \/ Lost /\ net' \in {net, IF net = "up" THEN "leaving" ELSE net} /\ Exit(1)
    /\ i' = 0
    /\ UNCHANGED <<attempts_left, attempts, config, nvm, cbq>>

\* The stack status leave waits for.
LeftOnAnyStatus == {"down", "up"}
LeftOn == {"down"}

LeaveDown ==
    /\ At("leave", "leaving") /\ i < LeavePolls /\ \E cb \in LeftOn : Pops(cb)
    /\ Exit(0)
    /\ UNCHANGED <<attempts_left, i, attempts, config, net, nvm, used>>

LeaveNext ==
    /\ At("leave", "leaving") /\ i < LeavePolls
    /\ \/ cbq = <<>> /\ UNCHANGED cbq
       \/ \E cb \in Callbacks \ LeftOn : Pops(cb)
    /\ NextPoll
    /\ UNCHANGED <<cmd, pc, attempts_left, done, attempts, svc, config, net, nvm, used>>

LeaveTimesOut ==
    /\ At("leave", "leaving") /\ i = LeavePolls
    /\ Exit(1)
    /\ UNCHANGED <<attempts_left, i, attempts, ncp, used>>

(***************************************************************************)
(* The NCP's stack                                                         *)
(***************************************************************************)
StackQueues(cb) == cbq' = Append(cbq, cb)

\* Without the right tables the trust centre's key has nowhere to go.
StackJoins ==
    /\ net = "joining" /\ config = "full"
    /\ net' = "up" /\ nvm' = TRUE /\ StackQueues("up")
    /\ UNCHANGED <<host, config, used>>

StackFailsToJoin ==
    /\ net = "joining" /\ net' = "down"
    /\ \E cb \in {"nokey", "failed", "hopeless"} : StackQueues(cb)
    /\ UNCHANGED <<host, config, nvm, used>>

StackLeaves ==
    /\ net = "leaving"
    /\ net' = "down" /\ nvm' = FALSE /\ StackQueues("down")
    /\ UNCHANGED <<host, config, used>>

StackHears ==
    /\ net = "scanning"
    /\ \/ Spend("beacon") /\ (\E cb \in {"open", "closed"} : StackQueues(cb)) /\ net' = net
       \/ StackQueues("scandone") /\ net' = "down" /\ used' = used
    /\ UNCHANGED <<host, config, nvm>>

\* Other callbacks at any time; a passing NETWORK_DOWN while it is associating.
StackNoise ==
    /\ net # "scanning" /\ Spend("noise")
    /\ \E cb \in {"other", "down"} : (cb = "down" => net = "joining") /\ StackQueues(cb)
    /\ UNCHANGED <<host, config, net, nvm>>

-----------------------------------------------------------------------------
Init ==
    /\ cmd = "none" /\ pc = "off" /\ attempts_left = Retries /\ i = 0
    /\ done = [cmd |-> "none", rc |-> 0] /\ attempts = 0 /\ svc = TRUE
    /\ config = "none" /\ net = "down" /\ nvm = FALSE /\ cbq = <<>>
    /\ used = [k \in Budgets |-> 0]

HostStep ==
    \/ ncp_reset \/ ezsp_init \/ ezsp_apply_config \/ NetworkInit
    \/ ScanStart \/ ScanOpen \/ ScanClosed \/ ScanNext \/ ScanNothing
    \/ Readback \/ SetSecurity \/ JoinNetwork \/ JoinUp \/ JoinRetry \/ JoinFailed
    \/ JoinNext \/ JoinTimesOut
    \/ LeaveNetwork \/ LeaveDown \/ LeaveNext \/ LeaveTimesOut
    \/ StartService

StackStep == StackJoins \/ StackFailsToJoin \/ StackLeaves \/ StackHears \/ StackNoise

Next == HostStep \/ StackStep \/ ScriptJoin \/ ScriptLeave \/ Kill \/ PowerCut

Spec == Init /\ [][Next]_vars

\* Every poll sleeps a quarter of a second and every EZSP command returns.
FairSpec == Spec /\ WF_vars(HostStep)

(***************************************************************************)
(* Properties                                                              *)
(***************************************************************************)
\* Values of the variables.
TypeOK ==
    /\ cmd \in {"none", "join", "leave", "run"}
    /\ pc \in {"off", "reset", "init", "scan", "scanning", "config", "readback", "security",
               "attempt", "wait", "netinit", "loop", "leave", "leaving"}
    /\ attempts_left \in 0..Retries /\ i \in 0..(JoinPolls + LeavePolls + ScanPolls)
    /\ done \in [cmd: {"none", "join", "leave", "run"}, rc: {0, 1}]
    /\ attempts \in Nat /\ svc \in BOOLEAN
    /\ config \in {"none", "full", "partial", "profile"}
    /\ net \in {"down", "scanning", "joining", "up", "leaving"}
    /\ nvm \in BOOLEAN /\ cbq \in Seq(Callbacks) /\ used \in [Budgets -> Nat]

\* "NETWORK UP -- joined as a router" and "network down -- left, NVM state
\* cleared": a join that returned 0 has left the network in NVM, also when the
\* power fails right after, and a leave that returned 0 has cleared it, whatever
\* callbacks of an earlier command were still queued.
SuccessIsStored ==
    done.rc = 0 => (done.cmd = "join" => nvm) /\ (done.cmd = "leave" => ~nvm)

\* No joinNetwork while the stack is still working on the one before, and no
\* more of them than --join-retries allows, whichever statuses arrive when.
OneAttemptAtATime ==
    /\ At("join", "attempt") => net # "joining"
    /\ attempts <= Retries + 1

\* zcl.c:292: join and run apply one and the same configuration, so a stored
\* network is always restored, as long as no EZSP command is lost on the way.
RestoredIfHealthy ==
    used["fault"] = 0 /\ At("run", "loop") /\ nvm => net = "up"

\* A command always gives the radio back.
CommandEnds == (cmd \in {"join", "leave"}) ~> (cmd \in {"none", "run"})
=============================================================================
