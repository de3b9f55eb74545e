------------------------- MODULE NetworkJoinProofs -------------------------
(***************************************************************************)
(* Joining, leaving and restoring for any number of retries, polls, lost   *)
(* commands, kills and power cuts.                                         *)
(*                                                                         *)
(* ncp_reset empties the callback queue, so behind it a status in the      *)
(* queue speaks of this command: NETWORK_UP is there only if the network   *)
(* is stored, NETWORK_DOWN in a leave only if it is not, and there is one  *)
(* failure at most for each joinNetwork.                                   *)
(***************************************************************************)
EXTENDS NetworkJoin, TLAPS

Failures == {"nokey", "failed", "hopeless"}

Has(cb) == \E k \in 1..Len(cbq) : cbq[k] = cb
NoFailure == \A k \in 1..Len(cbq) : cbq[k] \notin Failures
OneFailure ==
    \A k, m \in 1..Len(cbq) : cbq[k] \in Failures /\ cbq[m] \in Failures => k = m

\* A result of 0 speaks of the network in NVM, and nothing is under way to change it.
DoneOK ==
    /\ cmd \in {"join", "leave"} => done.cmd = "none"
    /\ done.cmd = "join" /\ done.rc = 0 => nvm /\ net # "leaving"
    /\ done.cmd = "leave" /\ done.rc = 0 => ~nvm /\ net # "joining"

JoinOK == cmd = "join" /\ pc # "reset" =>
    /\ net # "leaving" /\ (Has("up") => nvm)
    /\ pc # "wait" => net # "joining"
    /\ pc # "wait" \/ net = "joining" => NoFailure
    /\ OneFailure

LeaveOK == cmd = "leave" /\ pc # "reset" => net # "joining" /\ (Has("down") => ~nvm)

RunOK == cmd = "run" /\ pc # "reset" =>
    /\ net \in {"down", "up"}
    /\ used["fault"] = 0 /\ pc = "loop" /\ nvm => net = "up"

ConfigOK == used["fault"] = 0 /\ pc = "netinit" => config = "full"

CountOK ==
    /\ attempts + attempts_left <= Retries + 1
    /\ cmd = "join" /\ pc # "wait" => attempts + attempts_left <= Retries

IInv == TypeOK /\ DoneOK /\ JoinOK /\ LeaveOK /\ RunOK /\ ConfigOK /\ CountOK

(***************************************************************************)
(* The callback queue                                                      *)
(***************************************************************************)
LEMMA Popped ==
    ASSUME cbq \in Seq(Callbacks), NEW cb, Pops(cb)
    PROVE  /\ cbq' \in Seq(Callbacks) /\ Has(cb)
           /\ \A c : Has(c)' => Has(c)
           /\ NoFailure => NoFailure'
           /\ OneFailure => OneFailure' /\ (cb \in Failures => NoFailure')
<1>1. cbq # <<>> /\ cbq' = Tail(cbq) /\ Head(cbq) = cb
  BY DEF Pops
<1>2. /\ cbq' \in Seq(Callbacks) /\ Len(cbq) \in Nat /\ Len(cbq) >= 1 /\ Len(cbq') = Len(cbq) - 1
      /\ cbq[1] = cb /\ \A k \in 1..Len(cbq') : cbq'[k] = cbq[k + 1]
  BY <1>1
<1>3. \A k \in 1..Len(cbq') : k + 1 \in 1..Len(cbq) /\ cbq'[k] = cbq[k + 1] /\ k \in Nat
  BY <1>2
<1>4. 1 \in 1..Len(cbq)
  BY <1>2
<1>5. Has(cb) /\ (NoFailure => NoFailure')
  BY <1>2, <1>3, <1>4 DEF Has, NoFailure
<1>6. \A c : Has(c)' => Has(c)
  BY <1>3 DEF Has
<1>7. ASSUME OneFailure PROVE OneFailure' /\ (cb \in Failures => NoFailure')
  <2>1. ASSUME NEW k \in 1..Len(cbq'), NEW m \in 1..Len(cbq'),
               cbq'[k] \in Failures, cbq'[m] \in Failures
        PROVE  k = m
    <3>1. k + 1 = m + 1
      BY <1>3, <1>7, <2>1 DEF OneFailure
    <3> QED
      BY <1>3, <3>1
  <2>2. ASSUME cb \in Failures, NEW k \in 1..Len(cbq'), cbq'[k] \in Failures PROVE FALSE
    <3>1. k + 1 = 1
      BY <1>2, <1>3, <1>4, <1>7, <2>2 DEF OneFailure
    <3> QED
      BY <2>2, <1>3, <3>1
  <2> QED
    BY <2>1, <2>2 DEF OneFailure, NoFailure
<1> QED
  BY <1>2, <1>5, <1>6, <1>7

LEMMA Queued ==
    ASSUME cbq \in Seq(Callbacks), NEW cb \in Callbacks, cbq' = Append(cbq, cb)
    PROVE  /\ cbq' \in Seq(Callbacks)
           /\ \A c : Has(c)' => Has(c) \/ c = cb
           /\ cb \notin Failures => (NoFailure => NoFailure') /\ (OneFailure => OneFailure')
           /\ NoFailure => OneFailure'
<1>1. /\ cbq' \in Seq(Callbacks) /\ Len(cbq) \in Nat /\ Len(cbq') = Len(cbq) + 1
      /\ cbq'[Len(cbq) + 1] = cb /\ \A k \in 1..Len(cbq) : cbq'[k] = cbq[k]
  OBVIOUS
<1>2. \A k \in 1..Len(cbq') : k \in 1..Len(cbq) \/ k = Len(cbq) + 1
  BY <1>1
<1>3. \A c : Has(c)' => Has(c) \/ c = cb
  BY <1>1, <1>2 DEF Has
<1>4. cb \notin Failures => (NoFailure => NoFailure') /\ (OneFailure => OneFailure')
  BY <1>1, <1>2 DEF NoFailure, OneFailure
<1>5. NoFailure => OneFailure'
  BY <1>1, <1>2 DEF NoFailure, OneFailure
<1> QED
  BY <1>1, <1>3, <1>4, <1>5

LEMMA EmptyQueue ==
    ASSUME cbq' = <<>>
    PROVE  NoFailure' /\ OneFailure' /\ \A c : ~Has(c)'
BY DEF NoFailure, OneFailure, Has

LEMMA SameQueue ==
    ASSUME cbq' = cbq
    PROVE  NoFailure' = NoFailure /\ OneFailure' = OneFailure /\ \A c : Has(c)' = Has(c)
BY DEF NoFailure, OneFailure, Has

LEMMA Spent ==
    ASSUME used \in [Budgets -> Nat], NEW k \in Budgets, Spend(k)
    PROVE  used' \in [Budgets -> Nat] /\ used'[k] # 0 /\ (used'["fault"] = 0 => used["fault"] = 0)
BY DEF Spend, Budgets

\* An EZSP command, carried out or lost.
LEMMA Sent ==
    ASSUME used \in [Budgets -> Nat], Answered \/ Lost
    PROVE  /\ used' \in [Budgets -> Nat] /\ (used'["fault"] = 0 => used["fault"] = 0)
           /\ Lost => used'["fault"] # 0
BY Spent DEF Answered, Lost, Budgets

(***************************************************************************)
(* Types                                                                   *)
(***************************************************************************)
Labels == {"off", "reset", "init", "scan", "scanning", "config", "readback", "security",
           "attempt", "wait", "netinit", "loop", "leave", "leaving"}

\* Every step of a command goes somewhere, returns, or stays.
Moves ==
    \/ \E l \in Labels : Goto(l)
    \/ \E rc \in {0, 1} : Exit(rc)
    \/ UNCHANGED <<cmd, pc, done, svc>>

PlaceOK ==
    /\ cmd \in {"none", "join", "leave", "run"} /\ pc \in Labels
    /\ done \in [cmd: {"none", "join", "leave", "run"}, rc: {0, 1}] /\ svc \in BOOLEAN

ReplyOK ==
    /\ attempts_left \in 0..Retries /\ i \in 0..(JoinPolls + LeavePolls + ScanPolls)
    /\ attempts \in Nat /\ config \in {"none", "full", "partial", "profile"}
    /\ net \in {"down", "scanning", "joining", "up", "leaving"} /\ nvm \in BOOLEAN

LEMMA TypeParts ==
    TypeOK <=> PlaceOK /\ ReplyOK /\ cbq \in Seq(Callbacks) /\ used \in [Budgets -> Nat]
BY DEF TypeOK, PlaceOK, ReplyOK, Labels

LEMMA Moved == ASSUME PlaceOK, Moves PROVE PlaceOK'
<1>1. CASE \E l \in Labels : Goto(l)
  BY <1>1 DEF Goto, PlaceOK
<1>2. CASE \E rc \in {0, 1} : Exit(rc)
  <2>1. svc' \in BOOLEAN
    BY <1>2, Zenon DEF Exit
  <2>2. cmd' = "none" /\ pc' = "off" /\ done' \in [cmd: {"none", "join", "leave", "run"}, rc: {0, 1}]
    BY <1>2 DEF Exit, PlaceOK
  <2> QED
    BY <2>1, <2>2 DEF PlaceOK, Labels
<1>3. CASE UNCHANGED <<cmd, pc, done, svc>>
  BY <1>3 DEF PlaceOK
<1> QED
  BY <1>1, <1>2, <1>3 DEF Moves

LEMMA TypeNext == ASSUME TypeOK, [Next]_vars PROVE TypeOK'
<1> USE BoundsAssumption
<1>0. PlaceOK /\ ReplyOK /\ cbq \in Seq(Callbacks) /\ used \in [Budgets -> Nat]
  BY TypeParts
<1> SUFFICES PlaceOK' /\ ReplyOK' /\ cbq' \in Seq(Callbacks) /\ used' \in [Budgets -> Nat]
  BY DEF TypeOK, PlaceOK, ReplyOK, Labels
<1>1. CASE UNCHANGED vars
  BY <1>0, <1>1 DEF vars, host, ncp, PlaceOK, ReplyOK
<1>2. CASE ncp_reset \/ PowerCut
  <2>1. cbq' \in Seq(Callbacks)
    <3>1. cbq' = <<>> /\ <<>> \in Seq(Callbacks)
      BY <1>2 DEF ncp_reset, PowerCut
    <3> QED
      BY <3>1, Zenon
  <2>2. used' \in [Budgets -> Nat]
    BY <1>0, <1>2, Spent DEF ncp_reset, PowerCut, Budgets
  <2>3. PlaceOK' /\ ReplyOK'
    BY <1>0, <1>2 DEF ncp_reset, PowerCut, Goto, PlaceOK, ReplyOK, Labels
  <2> QED
    BY <2>1, <2>2, <2>3
<1>3. CASE ezsp_init \/ ezsp_apply_config \/ Readback \/ SetSecurity
  <2>1. used' \in [Budgets -> Nat]
    BY <1>0, <1>3, Sent DEF ezsp_init, ezsp_apply_config, Readback, SetSecurity
  <2>2. Moves
    BY <1>3 DEF ezsp_init, ezsp_apply_config, Readback, SetSecurity, Moves, Labels
  <2>3. ReplyOK' /\ cbq' = cbq
    BY <1>0, <1>3 DEF ezsp_init, ezsp_apply_config, Readback, SetSecurity, ncp, Configuration,
                      ReplyOK
  <2> QED
    BY <1>0, <2>1, <2>2, <2>3, Moved
<1>4. CASE NetworkInit
  <2>1. cbq' \in Seq(Callbacks) /\ used' \in [Budgets -> Nat]
    BY <1>0, <1>4, Sent, Queued DEF NetworkInit, Callbacks
  <2>2. Moves /\ ReplyOK'
    BY <1>0, <1>4 DEF NetworkInit, Moves, Labels, ReplyOK
  <2> QED
    BY <1>0, <2>1, <2>2, Moved
<1>5. CASE ScanStart \/ JoinNetwork \/ LeaveNetwork
  <2>1. used' \in [Budgets -> Nat]
    BY <1>0, <1>5, Sent DEF ScanStart, JoinNetwork, LeaveNetwork
  <2>2. Moves
    BY <1>5 DEF ScanStart, JoinNetwork, LeaveNetwork, Moves, Labels
  <2>3. ReplyOK' /\ cbq' = cbq
    BY <1>0, <1>5 DEF ScanStart, JoinNetwork, LeaveNetwork, ReplyOK
  <2> QED
    BY <1>0, <2>1, <2>2, <2>3, Moved
<1>6. CASE ScanOpen \/ ScanClosed \/ ScanNext \/ ScanNothing
  <2>1. cbq' \in Seq(Callbacks)
    BY <1>0, <1>6, Popped DEF ScanOpen, ScanClosed, ScanNext, ScanNothing
  <2>2. Moves /\ used' = used
    BY <1>6 DEF ScanOpen, ScanClosed, ScanNext, ScanNothing, Moves, Labels
  <2>3. ReplyOK'
    BY <1>0, <1>6 DEF ScanOpen, ScanClosed, ScanNext, ScanNothing, NextPoll, ReplyOK
  <2> QED
    BY <1>0, <2>1, <2>2, <2>3, Moved
<1>7. CASE JoinUp \/ JoinRetry \/ JoinFailed \/ JoinNext \/ JoinTimesOut
  <2>1. cbq' \in Seq(Callbacks)
    BY <1>0, <1>7, Popped DEF JoinUp, JoinRetry, JoinFailed, JoinNext, JoinTimesOut, ncp
  <2>2. Moves /\ used' = used
    BY <1>7 DEF JoinUp, JoinRetry, JoinFailed, JoinNext, JoinTimesOut, Moves, Labels
  <2>3. ReplyOK'
    BY <1>0, <1>7 DEF JoinUp, JoinRetry, JoinFailed, JoinNext, JoinTimesOut, Polling, Retry,
                      NextPoll, ncp, ReplyOK
  <2> QED
    BY <1>0, <2>1, <2>2, <2>3, Moved
<1>8. CASE LeaveDown \/ LeaveNext \/ LeaveTimesOut
  <2>1. cbq' \in Seq(Callbacks)
    BY <1>0, <1>8, Popped DEF LeaveDown, LeaveNext, LeaveTimesOut, ncp
  <2>2. Moves /\ used' = used
    BY <1>8 DEF LeaveDown, LeaveNext, LeaveTimesOut, Moves, Labels
  <2>3. ReplyOK'
    BY <1>0, <1>8 DEF LeaveDown, LeaveNext, LeaveTimesOut, NextPoll, ncp, ReplyOK
  <2> QED
    BY <1>0, <2>1, <2>2, <2>3, Moved
<1>9. CASE StackStep
  <2> USE <1>0, <1>9 DEF StackStep, StackJoins, StackFailsToJoin, StackLeaves, StackHears, StackNoise
  <2>1. cbq' \in Seq(Callbacks)
    BY Queued DEF StackQueues, Callbacks
  <2>2. used' \in [Budgets -> Nat]
    BY Spent DEF Budgets
  <2>3. Moves /\ ReplyOK'
    BY DEF host, Moves, ReplyOK
  <2> QED
    BY <2>1, <2>2, <2>3, Moved
<1>10. CASE ScriptJoin \/ ScriptLeave \/ Kill \/ StartService
  <2>1. used' \in [Budgets -> Nat]
    BY <1>0, <1>10, Spent DEF ScriptJoin, ScriptLeave, Kill, StartService, Budgets
  <2>2. PlaceOK'
    <3>1. CASE ScriptJoin \/ ScriptLeave
      <4>1. cmd' \in {"join", "leave"} /\ pc' = "reset" /\ svc' = FALSE
            /\ done' = [cmd |-> "none", rc |-> 0]
        BY <3>1 DEF ScriptJoin, ScriptLeave, Begin
      <4> QED
        BY <4>1 DEF PlaceOK, Labels
    <3>2. CASE Kill \/ StartService
      BY <1>0, <3>2 DEF Kill, StartService, PlaceOK, Labels
    <3> QED
      BY <1>10, <3>1, <3>2
  <2>3. ReplyOK' /\ cbq' = cbq
    BY <1>0, <1>10 DEF ScriptJoin, ScriptLeave, Kill, StartService, Begin, ncp, ReplyOK
  <2> QED
    BY <1>0, <2>1, <2>2, <2>3
<1> QED
  BY <1>1, <1>2, <1>3, <1>4, <1>5, <1>6, <1>7, <1>8, <1>9, <1>10 DEF Next, HostStep

(***************************************************************************)
(* Counters and configuration                                              *)
(***************************************************************************)
LEMMA CountInv == ASSUME TypeOK, CountOK, [Next]_vars PROVE CountOK'
<1> USE BoundsAssumption DEF CountOK
<1>0. attempts \in Nat /\ attempts_left \in Nat /\ Retries \in Nat /\ attempts_left <= Retries
  BY DEF TypeOK
<1>1. CASE /\ UNCHANGED <<attempts, attempts_left>>
           /\ cmd' = "join" /\ pc' # "wait" => cmd = "join" /\ pc # "wait"
  BY <1>1
<1>2. CASE UNCHANGED vars \/ StackStep
  BY <1>1, <1>2 DEF vars, host, StackStep, StackJoins, StackFailsToJoin, StackLeaves, StackHears,
                    StackNoise
<1>3. CASE ncp_reset \/ ezsp_init \/ ezsp_apply_config \/ NetworkInit
  BY <1>1, <1>3 DEF ncp_reset, ezsp_init, ezsp_apply_config, NetworkInit, Goto, Exit
<1>4. CASE ScanStart \/ ScanOpen \/ ScanClosed \/ ScanNext \/ ScanNothing \/ Readback \/ SetSecurity
  BY <1>1, <1>4 DEF ScanStart, ScanOpen, ScanClosed, ScanNext, ScanNothing, Readback, SetSecurity,
                    At, Goto, Exit
<1>5. CASE JoinNetwork
  <2>1. cmd = "join" /\ pc = "attempt" /\ attempts' = attempts + 1 /\ attempts_left' = attempts_left
    BY <1>5 DEF JoinNetwork, At
  <2>2. cmd' = "join" => pc' = "wait"
    BY <1>5 DEF JoinNetwork, Goto, Exit
  <2> QED
    BY <1>0, <2>1, <2>2
<1>6. CASE JoinRetry
  <2>1. attempts_left' = attempts_left - 1 /\ attempts' = attempts
    BY <1>6 DEF JoinRetry, Retry
  <2> QED
    BY <1>0, <2>1
<1>7. CASE JoinUp \/ JoinFailed \/ JoinNext \/ JoinTimesOut
  BY <1>1, <1>7 DEF JoinUp, JoinFailed, JoinNext, JoinTimesOut, Exit
<1>8. CASE LeaveNetwork \/ LeaveDown \/ LeaveNext \/ LeaveTimesOut \/ StartService \/ Kill \/ PowerCut
  BY <1>1, <1>8 DEF LeaveNetwork, LeaveDown, LeaveNext, LeaveTimesOut, StartService, Kill, PowerCut,
                    At, Goto, Exit
<1>9. CASE ScriptJoin \/ ScriptLeave
  <2>1. attempts' = 0 /\ attempts_left' = Retries
    BY <1>9 DEF ScriptJoin, ScriptLeave, Begin
  <2> QED
    BY <1>0, <2>1
<1> QED
  BY <1>2, <1>3, <1>4, <1>5, <1>6, <1>7, <1>8, <1>9 DEF Next, HostStep

\* Faults are counted and never forgotten.
LEMMA FaultsStay == ASSUME TypeOK, [Next]_vars PROVE used'["fault"] = 0 => used["fault"] = 0
<1>0. used \in [Budgets -> Nat]
  BY DEF TypeOK
<1>1. CASE used' = used \/ Answered \/ Lost
  BY <1>0, <1>1, Sent DEF Answered
<1>2. CASE \E k \in Budgets : Spend(k)
  BY <1>0, <1>2, Spent
<1>3. CASE UNCHANGED vars \/ HostStep
  BY <1>1, <1>3 DEF vars, HostStep, ncp_reset, ezsp_init, ezsp_apply_config, NetworkInit, ScanStart,
       ScanOpen, ScanClosed, ScanNext, ScanNothing, Readback, SetSecurity, JoinNetwork, JoinUp,
       JoinRetry, JoinFailed, JoinNext, JoinTimesOut, LeaveNetwork, LeaveDown, LeaveNext,
       LeaveTimesOut, StartService
<1>4. CASE StackStep \/ ScriptJoin \/ ScriptLeave \/ Kill \/ PowerCut
  BY <1>1, <1>2, <1>4 DEF StackStep, StackJoins, StackFailsToJoin, StackLeaves, StackHears,
       StackNoise, ScriptJoin, ScriptLeave, Kill, PowerCut, Budgets
<1> QED
  BY <1>3, <1>4 DEF Next

LEMMA ConfigInv == ASSUME TypeOK, ConfigOK, [Next]_vars PROVE ConfigOK'
<1>0. used \in [Budgets -> Nat] /\ (used'["fault"] = 0 => used["fault"] = 0)
  BY FaultsStay DEF TypeOK
<1>1. CASE pc' # "netinit"
  BY <1>1 DEF ConfigOK
<1>2. CASE UNCHANGED <<pc, config>>
  BY <1>0, <1>2 DEF ConfigOK
<1>3. CASE UNCHANGED vars \/ StackStep
  BY <1>2, <1>3 DEF vars, host, ncp, StackStep, StackJoins, StackFailsToJoin, StackLeaves,
                    StackHears, StackNoise
<1>4. CASE ezsp_apply_config
  <2>1. Lost => used'["fault"] # 0
    BY <1>0, Sent
  <2> QED
    BY <1>4, <2>1 DEF ezsp_apply_config, ConfigOK, Configuration
<1>5. CASE ScanNext \/ JoinNext \/ LeaveNext
  BY <1>2, <1>5 DEF ScanNext, JoinNext, LeaveNext
<1>6. CASE \/ ncp_reset \/ ezsp_init \/ NetworkInit \/ ScanStart \/ ScanOpen \/ ScanClosed
           \/ ScanNothing \/ Readback \/ SetSecurity \/ JoinNetwork \/ JoinUp \/ JoinRetry
           \/ JoinFailed \/ JoinTimesOut \/ LeaveNetwork \/ LeaveDown \/ LeaveTimesOut
  BY <1>1, <1>6 DEF ncp_reset, ezsp_init, NetworkInit, ScanStart, ScanOpen, ScanClosed, ScanNothing,
       Readback, SetSecurity, JoinNetwork, JoinUp, JoinRetry, JoinFailed, JoinTimesOut,
       LeaveNetwork, LeaveDown, LeaveTimesOut, Goto, Exit
<1>7. CASE StartService \/ ScriptJoin \/ ScriptLeave \/ Kill \/ PowerCut
  BY <1>1, <1>7 DEF StartService, ScriptJoin, ScriptLeave, Kill, PowerCut, Begin
<1> QED
  BY <1>3, <1>4, <1>5, <1>6, <1>7 DEF Next, HostStep

(***************************************************************************)
(* join, leave and run                                                     *)
(***************************************************************************)
LEMMA JoinInv == ASSUME TypeOK, JoinOK, [Next]_vars PROVE JoinOK'
<1> USE DEF JoinOK
<1>0. cbq \in Seq(Callbacks)
  BY DEF TypeOK
<1>1. CASE cmd' # "join" \/ pc' = "reset"
  BY <1>1
<1>2. CASE /\ UNCHANGED <<cmd, net, nvm>> /\ pc # "reset" /\ (pc' = pc \/ (pc # "wait" /\ pc' # "wait"))
           /\ UNCHANGED cbq \/ \E cb : Pops(cb)
  BY <1>0, <1>2, Popped, SameQueue
<1>3. CASE UNCHANGED vars
  BY <1>3, SameQueue DEF vars, host, ncp
<1>4. CASE ncp_reset
  <2>1. cmd' = cmd /\ pc' = "init" /\ net' = "down" /\ cbq' = <<>>
    BY <1>4 DEF ncp_reset, Goto
  <2> QED
    BY <2>1, EmptyQueue
<1>5. CASE ezsp_init \/ ezsp_apply_config \/ Readback \/ SetSecurity
  BY <1>1, <1>2, <1>5 DEF ezsp_init, ezsp_apply_config, Readback, SetSecurity, At, Goto, Exit, ncp
<1>6. CASE NetworkInit
  <2>1. pc = "netinit" /\ cmd' = cmd /\ pc' \in {"loop", "leave"} /\ nvm' = nvm
    BY <1>6 DEF NetworkInit, Goto
  <2>2. CASE nvm /\ net' = "up" /\ cbq' = Append(cbq, "up")
    BY <1>0, <2>1, <2>2, Queued DEF Callbacks, Failures
  <2>3. CASE UNCHANGED <<net, cbq>>
    BY <2>1, <2>3, SameQueue
  <2> QED
    BY <1>6, <2>2, <2>3 DEF NetworkInit
<1>7. CASE ScanStart
  <2>1. pc = "scan" /\ pc' \in {"scanning", "config"} /\ UNCHANGED <<cmd, nvm, cbq>>
        /\ net' \in {net, "scanning"}
    BY <1>7 DEF ScanStart, At, Goto
  <2> QED
    BY <2>1, SameQueue
<1>8. CASE ScanOpen \/ ScanClosed \/ ScanNext \/ ScanNothing
  BY <1>1, <1>2, <1>8 DEF ScanOpen, ScanClosed, ScanNext, ScanNothing, At, Goto, Exit
<1>9. CASE JoinNetwork
  <2>1. CASE net' = "joining" /\ Goto("wait")
    <3>1. pc = "attempt" /\ cmd' = cmd /\ pc' = "wait" /\ UNCHANGED <<nvm, cbq>>
      BY <1>9, <2>1 DEF JoinNetwork, At, Goto
    <3> QED
      BY <2>1, <3>1, SameQueue
  <2> QED
    BY <1>1, <1>9, <2>1 DEF JoinNetwork, Exit
<1>10. CASE JoinUp \/ JoinFailed \/ JoinTimesOut
  BY <1>1, <1>10 DEF JoinUp, JoinFailed, JoinTimesOut, Exit
<1>11. CASE JoinNext
  BY <1>2, <1>11 DEF JoinNext, Polling, At
<1>12. CASE JoinRetry
  <2>1. /\ cmd = "join" /\ pc = "wait" /\ pc' = "attempt" /\ UNCHANGED <<net, nvm>>
        /\ \E cb \in Failures : Pops(cb)
    BY <1>12 DEF JoinRetry, Polling, At, Goto, Transient, Failures
  <2>2. NoFailure' /\ OneFailure' /\ (Has("up")' => Has("up"))
    BY <1>0, <2>1, Popped
  <2>3. Has("up")' => nvm
    BY <2>1, <2>2
  <2>4. net # "joining"
    <3>1. PICK cb \in Failures : Pops(cb)
      BY <2>1
    <3>2. Has(cb)
      BY <1>0, <3>1, Popped
    <3> QED
      BY <2>1, <3>1, <3>2 DEF Has, NoFailure
  <2> QED
    BY <2>1, <2>2, <2>3, <2>4
<1>13. CASE \/ LeaveNetwork \/ LeaveDown \/ LeaveNext \/ LeaveTimesOut \/ StartService
            \/ ScriptJoin \/ ScriptLeave \/ Kill \/ PowerCut
  BY <1>1, <1>13 DEF LeaveNetwork, LeaveDown, LeaveNext, LeaveTimesOut, StartService, ScriptJoin,
       ScriptLeave, Kill, PowerCut, At, Goto, Exit, Begin
<1>14. CASE StackStep
  <2>0. UNCHANGED <<cmd, pc>>
    BY <1>14 DEF StackStep, StackJoins, StackFailsToJoin, StackLeaves, StackHears, StackNoise, host
  <2>1. CASE StackJoins
    <3>1. net = "joining" /\ net' = "up" /\ nvm' = TRUE /\ cbq' = Append(cbq, "up")
      BY <2>1 DEF StackJoins, StackQueues
    <3> QED
      BY <1>0, <2>0, <3>1, Queued DEF Callbacks, Failures
  <2>2. CASE StackFailsToJoin
    <3>1. PICK cb \in Failures : cbq' = Append(cbq, cb)
      BY <2>2 DEF StackFailsToJoin, StackQueues, Failures
    <3>2. net = "joining" /\ net' = "down" /\ nvm' = nvm
      BY <2>2 DEF StackFailsToJoin
    <3> QED
      BY <1>0, <2>0, <3>1, <3>2, Queued DEF Callbacks, Failures
  <2>3. CASE StackLeaves
    BY <1>1, <2>0, <2>3 DEF StackLeaves
  <2>4. CASE StackHears \/ StackNoise
    <3>1. PICK cb \in {"open", "closed", "scandone", "other", "down"} : cbq' = Append(cbq, cb)
      BY <2>4 DEF StackHears, StackNoise, StackQueues
    <3>2. nvm' = nvm /\ (net' = net \/ (net = "scanning" /\ net' = "down"))
      BY <2>4 DEF StackHears, StackNoise
    <3> QED
      BY <1>0, <2>0, <3>1, <3>2, Queued DEF Callbacks, Failures
  <2> QED
    BY <1>14, <2>1, <2>2, <2>3, <2>4 DEF StackStep
<1> QED
  BY <1>3, <1>4, <1>5, <1>6, <1>7, <1>8, <1>9, <1>10, <1>11, <1>12, <1>13, <1>14
     DEF Next, HostStep

LEMMA LeaveInv == ASSUME TypeOK, LeaveOK, [Next]_vars PROVE LeaveOK'
<1> USE DEF LeaveOK
<1>0. cbq \in Seq(Callbacks)
  BY DEF TypeOK
<1>1. CASE cmd' # "leave" \/ pc' = "reset"
  BY <1>1
<1>2. CASE /\ UNCHANGED <<cmd, nvm>> /\ pc # "reset" /\ (net' = net \/ net' # "joining")
           /\ UNCHANGED cbq \/ (\E cb : Pops(cb)) \/ cbq' = Append(cbq, "up")
  <2>1. Has("down")' => Has("down")
    BY <1>0, <1>2, Popped, SameQueue, Queued DEF Callbacks
  <2> QED
    BY <1>2, <2>1
<1>3. CASE UNCHANGED vars
  BY <1>3, SameQueue DEF vars, host, ncp
<1>4. CASE ncp_reset
  <2>1. net' = "down" /\ cbq' = <<>>
    BY <1>4 DEF ncp_reset
  <2> QED
    BY <2>1, EmptyQueue
<1>5. CASE ezsp_init \/ ezsp_apply_config \/ NetworkInit
  BY <1>1, <1>2, <1>5 DEF ezsp_init, ezsp_apply_config, NetworkInit, Goto, Exit, ncp
<1>6. CASE \/ ScanStart \/ ScanOpen \/ ScanClosed \/ ScanNext \/ ScanNothing \/ Readback
           \/ SetSecurity \/ JoinNetwork \/ JoinUp \/ JoinRetry \/ JoinFailed \/ JoinNext
           \/ JoinTimesOut
  BY <1>1, <1>6 DEF ScanStart, ScanOpen, ScanClosed, ScanNext, ScanNothing, Readback, SetSecurity,
       JoinNetwork, JoinUp, JoinRetry, JoinFailed, JoinNext, JoinTimesOut, Polling, At, Goto, Exit
<1>7. CASE LeaveNetwork \/ LeaveDown \/ LeaveNext \/ LeaveTimesOut
  BY <1>1, <1>2, <1>7 DEF LeaveNetwork, LeaveDown, LeaveNext, LeaveTimesOut, At, Goto, Exit
<1>8. CASE StartService \/ ScriptJoin \/ ScriptLeave \/ Kill \/ PowerCut
  BY <1>1, <1>8 DEF StartService, ScriptJoin, ScriptLeave, Kill, PowerCut, Begin
<1>9. CASE StackStep
  <2>0. UNCHANGED <<cmd, pc>>
    BY <1>9 DEF StackStep, StackJoins, StackFailsToJoin, StackLeaves, StackHears, StackNoise, host
  <2>1. CASE StackJoins \/ StackFailsToJoin
    BY <2>0, <2>1, <1>1 DEF StackJoins, StackFailsToJoin
  <2>2. CASE StackLeaves
    BY <2>2 DEF StackLeaves
  <2>3. CASE StackHears \/ StackNoise
    <3>1. PICK cb \in {"open", "closed", "scandone", "other", "down"} :
               cbq' = Append(cbq, cb) /\ (cb = "down" => net = "joining")
      BY <2>3 DEF StackHears, StackNoise, StackQueues
    <3>2. nvm' = nvm /\ (net' = net \/ net' = "down")
      BY <2>3 DEF StackHears, StackNoise
    <3>3. Has("down")' => Has("down") \/ cb = "down"
      BY <1>0, <3>1, Queued DEF Callbacks
    <3> QED
      BY <2>0, <3>1, <3>2, <3>3
  <2> QED
    BY <1>9, <2>1, <2>2, <2>3 DEF StackStep
<1> QED
  BY <1>3, <1>4, <1>5, <1>6, <1>7, <1>8, <1>9 DEF Next, HostStep

LEMMA RunInv == ASSUME TypeOK, RunOK, ConfigOK, [Next]_vars PROVE RunOK'
<1> USE DEF RunOK
<1>0. used \in [Budgets -> Nat] /\ (used'["fault"] = 0 => used["fault"] = 0)
  BY FaultsStay DEF TypeOK
<1>1. CASE cmd' # "run" \/ pc' = "reset"
  BY <1>1
<1>2. CASE UNCHANGED <<cmd, net, nvm>> /\ pc # "reset" /\ (pc' = pc \/ pc' # "loop")
  BY <1>0, <1>2
<1>3. CASE UNCHANGED vars
  BY <1>3 DEF vars, host, ncp
<1>4. CASE ncp_reset
  BY <1>4 DEF ncp_reset, Goto
<1>5. CASE ezsp_init \/ ezsp_apply_config
  BY <1>1, <1>2, <1>5 DEF ezsp_init, ezsp_apply_config, Goto, Exit, ncp
<1>6. CASE NetworkInit
  <2>1. pc = "netinit" /\ cmd' = cmd /\ nvm' = nvm /\ net' \in {net, "up"}
    BY <1>6 DEF NetworkInit, Goto
  <2>2. used'["fault"] = 0 /\ nvm => net' = "up"
    BY <1>0, <1>6, Sent DEF NetworkInit, ConfigOK
  <2> QED
    BY <2>1, <2>2
<1>7. CASE \/ ScanStart \/ ScanOpen \/ ScanClosed \/ ScanNext \/ ScanNothing \/ Readback
           \/ SetSecurity \/ JoinNetwork \/ JoinUp \/ JoinRetry \/ JoinFailed \/ JoinNext
           \/ JoinTimesOut \/ LeaveNetwork \/ LeaveDown \/ LeaveNext \/ LeaveTimesOut
  BY <1>1, <1>7 DEF ScanStart, ScanOpen, ScanClosed, ScanNext, ScanNothing, Readback, SetSecurity,
       JoinNetwork, JoinUp, JoinRetry, JoinFailed, JoinNext, JoinTimesOut, LeaveNetwork, LeaveDown,
       LeaveNext, LeaveTimesOut, Polling, At, Goto, Exit
<1>8. CASE StartService \/ ScriptJoin \/ ScriptLeave \/ Kill \/ PowerCut
  BY <1>1, <1>8 DEF StartService, ScriptJoin, ScriptLeave, Kill, PowerCut, Begin
<1>9. CASE StackStep
  <2>1. UNCHANGED <<cmd, pc>>
    BY <1>9 DEF StackStep, StackJoins, StackFailsToJoin, StackLeaves, StackHears, StackNoise, host
  <2>2. net \in {"joining", "leaving", "scanning"} \/ UNCHANGED <<net, nvm>>
    BY <1>9 DEF StackStep, StackJoins, StackFailsToJoin, StackLeaves, StackHears, StackNoise
  <2> QED
    BY <1>0, <2>1, <2>2
<1> QED
  BY <1>3, <1>4, <1>5, <1>6, <1>7, <1>8, <1>9 DEF Next, HostStep

LEMMA DoneInv == ASSUME TypeOK, DoneOK, JoinOK, LeaveOK, [Next]_vars PROVE DoneOK'
<1> USE DEF DoneOK
<1>0. cbq \in Seq(Callbacks)
  BY DEF TypeOK
<1>1. CASE /\ UNCHANGED <<done, nvm>> /\ (cmd' = cmd \/ cmd' \in {"none", "run"})
           /\ net' = net \/ net' \notin {"joining", "leaving"}
  BY <1>1
<1>2. CASE done'.cmd = "none" \/ (cmd' = "none" /\ done'.rc = 1)
  BY <1>2
<1>3. CASE UNCHANGED vars \/ ncp_reset \/ StartService \/ Kill \/ PowerCut
  BY <1>1, <1>3 DEF vars, host, ncp, ncp_reset, Goto, StartService, Kill, PowerCut
<1>4. CASE Exit(1)
  <2>1. done' = [cmd |-> cmd, rc |-> 1] /\ cmd' = "none"
    BY <1>4 DEF Exit
  <2> QED
    BY <1>2, <2>1
<1>5. CASE ezsp_init \/ ezsp_apply_config \/ Readback \/ SetSecurity
  BY <1>1, <1>4, <1>5 DEF ezsp_init, ezsp_apply_config, Readback, SetSecurity, Goto, ncp
<1>6. CASE NetworkInit \/ ScanStart \/ ScanOpen \/ ScanNext
  BY <1>1, <1>6 DEF NetworkInit, ScanStart, ScanOpen, ScanNext, Goto
<1>7. CASE JoinNetwork \/ LeaveNetwork
  <2>1. cmd \in {"join", "leave"}
    BY <1>7 DEF JoinNetwork, LeaveNetwork, At
  <2> QED
    BY <1>2, <1>4, <1>7, <2>1 DEF JoinNetwork, LeaveNetwork, Goto
<1>8. CASE JoinRetry \/ JoinNext \/ LeaveNext
  BY <1>1, <1>8 DEF JoinRetry, JoinNext, LeaveNext, Goto
<1>9. CASE ScanClosed \/ ScanNothing \/ JoinFailed \/ JoinTimesOut \/ LeaveTimesOut
  BY <1>4, <1>9 DEF ScanClosed, ScanNothing, JoinFailed, JoinTimesOut, LeaveTimesOut
<1>10. CASE JoinUp
  <2>1. /\ cmd = "join" /\ pc = "wait" /\ Pops("up") /\ UNCHANGED <<net, nvm>>
        /\ cmd' = "none" /\ done' = [cmd |-> "join", rc |-> 0]
    BY <1>10 DEF JoinUp, Polling, At, IsUp, Exit
  <2>2. nvm /\ net # "leaving"
    BY <1>0, <2>1, Popped DEF JoinOK
  <2> QED
    BY <2>1, <2>2
<1>11. CASE LeaveDown
  <2>1. /\ cmd = "leave" /\ pc = "leaving" /\ Pops("down") /\ UNCHANGED <<net, nvm>>
        /\ cmd' = "none" /\ done' = [cmd |-> "leave", rc |-> 0]
    BY <1>11 DEF LeaveDown, At, LeftOn, Exit
  <2>2. ~nvm /\ net # "joining"
    BY <1>0, <2>1, Popped DEF LeaveOK
  <2> QED
    BY <2>1, <2>2
<1>12. CASE ScriptJoin \/ ScriptLeave
  <2>1. done' = [cmd |-> "none", rc |-> 0]
    BY <1>12 DEF ScriptJoin, ScriptLeave, Begin
  <2> QED
    BY <1>2, <2>1
<1>13. CASE StackStep
  <2>1. UNCHANGED <<cmd, done>>
    BY <1>13 DEF StackStep, StackJoins, StackFailsToJoin, StackLeaves, StackHears, StackNoise, host
  <2>2. \/ net = "joining" /\ net' = "up" /\ nvm' = TRUE
        \/ net = "leaving" /\ net' = "down" /\ nvm' = FALSE
        \/ nvm' = nvm /\ (net' = net \/ net' = "down")
    BY <1>13 DEF StackStep, StackJoins, StackFailsToJoin, StackLeaves, StackHears, StackNoise
  <2> QED
    BY <2>1, <2>2
<1> QED
  BY <1>3, <1>5, <1>6, <1>7, <1>8, <1>9, <1>10, <1>11, <1>12, <1>13 DEF Next, HostStep

(***************************************************************************)
(* The theorems                                                            *)
(***************************************************************************)
LEMMA InitInv == Init => IInv
<1> SUFFICES ASSUME Init PROVE IInv
  OBVIOUS
<1>1. cbq \in Seq(Callbacks) /\ used \in [Budgets -> Nat]
  BY DEF Init
<1>2. PlaceOK /\ ReplyOK
  <2>1. PlaceOK
    BY DEF Init, PlaceOK, Labels
  <2>2. attempts_left \in 0..Retries /\ i \in 0..(JoinPolls + LeavePolls + ScanPolls)
    BY BoundsAssumption DEF Init
  <2> QED
    BY <2>1, <2>2 DEF Init, ReplyOK
<1>3. CountOK
  BY BoundsAssumption DEF Init, CountOK
<1> QED
  BY <1>1, <1>2, <1>3, TypeParts DEF Init, IInv, DoneOK, JoinOK, LeaveOK, RunOK, ConfigOK

LEMMA Inductive == Spec => []IInv
<1>1. IInv /\ [Next]_vars => IInv'
  BY TypeNext, DoneInv, JoinInv, LeaveInv, RunInv, ConfigInv, CountInv DEF IInv
<1> QED
  BY <1>1, InitInv, PTL DEF Spec

\* Types; the poll counters and the retries stay within their limits.
THEOREM TypeCorrect == Spec => []TypeOK
BY Inductive, PTL DEF IInv

\* cmd_join and cmd_leave report success only for a network that is in NVM, or
\* gone from it, and it stays so until the next command, through power cuts too.
THEOREM Stored == Spec => []SuccessIsStored
<1>1. IInv => SuccessIsStored
  BY DEF IInv, DoneOK, SuccessIsStored
<1> QED
  BY <1>1, Inductive, PTL

\* joinNetwork is never sent over one the stack is still working on, nor more
\* often than --join-retries allows.
THEOREM OneAttempt == Spec => []OneAttemptAtATime
<1>1. IInv => OneAttemptAtATime
  <2>1. TypeOK /\ CountOK => attempts <= Retries + 1
    BY BoundsAssumption DEF TypeOK, CountOK
  <2> QED
    BY <2>1 DEF IInv, JoinOK, At, OneAttemptAtATime
<1> QED
  BY <1>1, Inductive, PTL

\* zcl.c:292: run, configured like join, comes up on the stored network unless an
\* EZSP command was lost.
THEOREM Restored == Spec => []RestoredIfHealthy
<1>1. IInv => RestoredIfHealthy
  BY DEF IInv, RunOK, At, RestoredIfHealthy
<1> QED
  BY <1>1, Inductive, PTL
=============================================================================
