# ezsp-spi: a TLA+ verification project

`ezsp-spi` lets an OpenWrt router use the Silicon Labs Zigbee NCP soldered to its
SPI bus. One C program (`package/ezsp-spi/src`) holds all of it: a bridge that
offers the NCP to Zigbee2MQTT or ZHA as if it were on a serial line, a daemon
that keeps the NCP a Zigbee router, and commands to join, leave, scan and probe.
An init script starts one of the two long-running modes under procd.

This directory models that program in TLA+, checks the models with TLC and
proves the central invariants with TLAPS. `PROJECT.json` lists the runs, the
source lines behind every definition, the hazards, the findings and the theorems.

## 1. Inventory

### The parts and how they interact

| Part | Source | State | Operations | Interacts with |
|---|---|---|---|---|
| ASH bridge | `bridge.c` `cmd_bridge`, `bridge_handle_frame`, `bridge_drain_callbacks` | `struct bridge`: client, `ready`, `negotiated`, frame numbers, version, `sent[]` | accept, read, RST, ACK, NAK, DATA, relay, drain, drop | TCP clients; NCP through `do_cmd`; nHOST_INT |
| ASH framing | `bridge.c` `ash_send`, `bridge_feed` | `rx[]`, `esc` | encode; one step per received byte | the bridge above, the socket below |
| SPI transaction and command | `spi.c`, `probe.c` `do_cmd` | receive buffer; on the NCP: pending reset, aborted transaction | transmit, wait, fetch, classify, retry | NCP over the bus |
| GPIO lines | `board.c`, `gpio.c` | which process holds which line | request, give back, exit | every process; kernel; procd |
| Router daemon | `control.c` `cmd_run`, `control_accept`, `control_query` | loop position, next report, counters | poll, serve a request, drain callbacks, report | unix-socket clients; NCP |
| Join, leave, restore | `zcl.c`, `control.c`, `ezsp.c` `scan_find`, the init script | retry and poll counters; on the NCP: configuration, network, NVM | join, leave, start of run | NCP stack; procd |
| EZSP commands | `ezsp.c` | version, sequence number | negotiation, headers, transfers | all commands |
| Reset and wake | `board.c` `ncp_reset`, `ncp_wake` | line levels, queued edges | reset, wake handshake | NCP |
| Query commands | `ezsp.c`, `control.c` | the reply buffer `out[]` | scan, neighbors, keys, policy, config, info, status, permit, power, verify, bootloader | EZSP commands; the daemon's control socket |
| ZCL Basic cluster | `zcl.c` | report counters | attribute read, report | coordinator |
| Service and flash scripts, LuCI | `ezsp-spi.init`, `ezsp-spi-flash`, rpcd back end, views | procd's instance, exported lines, `STOPPED_SERVICE`, `JOINDONE` | start, stop, join, scan, leave, flash | procd, the commands |

### What is hard

* **One thread, many parties.** Both long-running modes are a single-threaded
  `poll()` loop. Between any two of its steps a client sends, hangs up or is
  replaced, and the NCP queues a callback or resets. What `poll()` reported is
  stale by the time it is used.
* **A shared radio without a lock.** The only thing that keeps two processes off
  the NCP is that a GPIO line can be requested once; five lines are requested one
  after the other and given back one after the other.
* **A protocol in a protocol.** The bridge terminates ASH itself (numbers, NAK,
  resending) on top of a bus whose transactions must end on an exact byte.
* **Losses.** SPI transactions fail after the NCP has acted; the NCP resets by
  itself; commands are killed and the power is cut in the middle of a join.
* **Three header layouts.** The version that is being negotiated decides how the
  negotiation itself is read; a reply in the wrong layout is not an error but a
  wrong value.
* **Scripts without a lock.** `stop` does not wait, scripts overlap, and the
  flash script's trap can run in its middle and return into it.
* **Timing.** nHOST_INT edges are discarded, an asserted line is left out of the
  poll set, and a report may fall due while something else is being done.

### What makes each part correct

* Bridge: nothing reaches a client before its RSTACK, and nothing of it reaches
  the NCP before its RST; every frame belongs to the current session, is whole
  and in order; queued callbacks are collected; the loop comes back.
* Framing: `rx[]` is never overrun and a clean frame is never lost, whatever
  preceded it.
* SPI: no transaction meets an NCP that sleeps although nHOST_INT allowed it; a
  transaction ends on the terminator, a reply belongs to its command, a retry
  never runs a command twice, an aborted transaction costs one command.
* GPIO: the lines are a lock on the radio; nobody else drives the chip select of
  the process that has it; the service gets it back.
* EZSP: a session that is reported is one the NCP has agreed to; what a command
  reports was answered to that very query; exit code 0 means it was done.
* ZCL: a Read Attributes request is answered in full or not at all.
* Scripts: no daemon, no command and no second transfer meets the transfer of an
  image, the status of a join is that of this join, and the daemon comes back.
* Daemon: it sleeps again, collects every callback, answers every request, keeps
  reporting and never sleeps past a report.
* Join: a join that reports success has stored the network, a leave that reports
  success has cleared it, attempts do not overlap, a stored network is restored.

`PROJECT.json` lists the individual hazards, each at its line and with the
properties aimed at it.

## 2. Modules

| Module | Models | Role |
|---|---|---|
| `AshBridge` | the bridge, its clients and the NCP as it sees them | component |
| `AshBridgeProps` | its type invariant, safety, action and liveness properties | properties |
| `AshBridgeProofs` | TLAPS proofs about it: types, handshake, layout, lengths, the frames in both directions, the length of a turn | proofs |
| `FrameStream` | what the bridge promises the client that owns the radio | abstract specification |
| `MCAshBridge` | budgets for TLC | instances |
| `AshFraming`, `MCAshFraming`, `AshFramingProofs` | bytes, CRC, stuffing, the decoder | component, instances, proofs |
| `SpiLink`, `MCSpiLink`, `SpiLinkProofs` | reset, wake handshake, transaction and `do_cmd` | component, instance, proofs |
| `CommandService` | what `do_cmd` promises its callers | abstract specification |
| `GpioLines`, `GpioLinesProofs` | line ownership among processes | component, proofs |
| `RadioLock` | what the lines are used for: a lock | abstract specification |
| `EzspSession`, `MCEzspSession` | negotiation, headers, every query command, control requests | component, instance |
| `ZclBasic` | incoming messages and the Read Attributes response | part of `EzspSession` |
| `EzspSessionProofs` | TLAPS proofs about the negotiation and what commands report | proofs |
| `RouterDaemon`, `MCRouterDaemon`, `RouterDaemonProofs` | `ezsp-spi run` and its control socket | component, instances, proofs |
| `NetworkJoin`, `MCNetworkJoin`, `NetworkJoinProofs` | join, leave, restore, the init script | component, instances, proofs |
| `Service`, `ServiceProofs` | init script, procd, LuCI join, flash script | component, proofs |

How they stack: `Service` uses the radio as a lock, which `GpioLines` implements
(`RadioLock`); `EzspSession`, `RouterDaemon` and `NetworkJoin` use commands that
are answered or lost and never run twice, which `SpiLink` implements
(`CommandService`); `AshBridge` stands on the same command layer and on the
frames of `AshFraming`, and implements `FrameStream`.

### Correspondence with the code

**AshBridge.** `pc` is the position in `cmd_bridge`: `poll`, `io` (behind
`poll()` and `accept()`), `feed` (in `bridge_feed`), `resend` (in
`ash_retransmit`), `relay` (between the ACK and the SPI transaction), `drain`
(in `bridge_drain_callbacks`), `dead` (after SIGPIPE). `cli`, `ready`,
`negotiated`, `frm`, `ack`, `ver` and `sent` are the fields of `struct bridge`.
Actions are cut where another party can act. `PollWake` contains the accept,
because the code accepts before it looks at the client's `revents`; these belong
to the client `poll()` was called with, hence the variable `revents`. `IoRead`
takes any non-empty part of what is in flight, or is blocked if a stale POLLIN
sends it to a client that has sent nothing. `HandleData` answers with the ACK
and `Relay` does the transaction. A `write()` to a client that has hung up is
lost or kills the process; `Respawn` is procd. An EZSP payload is reduced to
what the bridge looks at: is it a version command, in which layout, how long is
the reply. `Bodies` carry the NCP's session (`epoch`) and length so that
properties can tell frames apart; `log`, `ran`, `rstacked` and `overrun` are
history variables no action of the bridge reads. `Sniffs` leaves out the length
and the range (4 to 13) of a version reply, and so sets a layout more often than
the code.

For `FrameStream` the owner is the connected client, `produced` the log of its
session and `delivered` what it has accepted, as long as it listens and the window
was not overrun; otherwise the session is over.

The client is an ASH host (external): it numbers, keeps and repeats DATA, and
answers a gap with one NAK. The NCP is the version agreement, a queue and the
nHOST_INT line, which is asserted while the queue is not empty.

**AshFraming.** Real bytes and the real CRC. `Xor` computes an exclusive or
digit by digit, in arithmetic the provers know; that it is the bitwise one is
checked as an assumption of `MCAshFraming`. `SendFrame` is `ash_send`;
`FeedFlow`, `FeedCancel`, `FeedSub`, `FeedEsc`, `FeedFlag` and `FeedByte` are the
cases of the loop of `bridge_feed`. Two constants are checked as assumptions: RST
encodes to `C0 38 BC 7E`, and the transmit buffer holds the worst case.

**SpiLink.** `hpc` is the position in `do_cmd` or `ncp_reset`. `WakeLevel`,
`WakeDrain`, `WakeAssert`, `WakeWait` and `WakeRelease` are `ncp_wake`, cut where
the NCP can move nHOST_INT; `edges` is the kernel's event buffer, from which
`gpio_wait_falling` takes one edge after the other and which
`gpio_drain_events` empties. `Transmit`, `WaitState`, `FirstByte`, `WaitExpires`
and `Body` are `spi_txn_framed` with the host driving nSSEL; `Resend` and
`Return` are the loop of `do_cmd`. The NCP sleeps, queues callbacks, boots and
resets by itself; it answers the first command after a reset with a reset
notification, and one that finds it asleep or follows a transaction that did not
end on the terminator with error 0x02 (`docs/DESIGN.md`). The refinement to
`CommandService` maps `cur` to the command while `do_cmd` is in it, `executed` to
what the NCP ran and `answered` to the commands whose reply had the right class.

**GpioLines.** `Request` and `Close` take one line at a time in the order of
`pins_open` and `pins_close`; `ExitClose` is the kernel closing what is left,
lowest descriptor first. For `RadioLock` the holder is the owner of nRESET, the
first line of `pins_open`, and the users are the processes behind `pins_open`.

**EzspSession, ZclBasic.** `pc` is the position in `ezsp_init` (`ask`, `reset`,
`again`), in a command's queries (`step`) or in the daemon (`serve`, `unicast`).
A command is data: a sequence of queries, each with the number of bytes its reply
needs (`min`), whether its first byte must be EMBER_SUCCESS (`status`), what ends
the command early (`stop`) and how often it is made (`reps`). This is all the
control these functions have; `Query` interprets it. Frames are real bytes:
`Header` builds them in the NCP's layout, `Received` takes them apart in the
host's, so that a reply in the wrong layout becomes the value the code would
read, and bytes the reply does not reach are whatever `out[]` held before, for
which 0, success, is the worst case. `by` in a result is history: the query the
NCP really carried out. A Read Attributes request is reduced to its header length
and attribute ids, a record to its size; `AskedIds` reads past the end of a
message where the code does.

**RouterDaemon.** `pc` is the position in the loop of `cmd_run`. Time is counted
in ticks relative to the next report (`due`); `left` is what remains of the poll
timeout. `EdgeAfterSpi` is what `ncp_wake` does to a queued edge; only falling
edges are kept, and a rising one, which also ends `poll()`, would only wake the
daemon more often. `Started` is a start that succeeds. One that fails in
`ezsp_init` ends the process again, which is a longer `dead`; without a control
socket nobody can connect, which is what a client that never connects is.

**NetworkJoin.** `cmd` and `pc` say which command has the radio and where it is.
Every EZSP command is `Answered` or `Lost`; the stack acts by itself between
any two. A configuration is abstracted to *full*, *profile* (the stack profile is
missing) or *partial* (another value is missing), which is what the read-back of
`cmd_join` and the restoring of a network tell apart. `ezsp_apply_config` is one
step with any of these outcomes, whichever of its commands was lost.

**Service.** One script per element of `Scripts`; `pc` is its next command.
`FirstStep` is the early return of `join` and `scan`: the mode, or, either way, a
channel or PAN id that is not configured. `stop`
tells procd to end the daemon and returns (`term`); `SvcExits` comes later.
`Opens` is `pins_open` of any command: it gets the lock or dies of EBUSY, and
`Behind` says what the script does then. `Export`, `Transfer`, `teardown` and
`Info` are the flash script. A signal runs its trap and then, because the trap
does not exit, goes on behind the interrupted command (`Interrupted`) until
something `teardown` has removed is missed; any other script just dies. Export
and teardown are single steps: what matters here is who has the lines.

## 3. Runs

"Budgets" (`Limit`) bound how often the environment does each thing; everything
the program does is unbounded. State counts are those of a complete search.

### Runs that pass

| Run | Checks | Instance |
|---|---|---|
| `bridge_session` | `TypeOK`, `SessionOnly`, `InOrder`, `NoTruncation`, `UnackedKept`, `RunsWhatWasSent`, `LayoutKnown` | 1 client; 2 RST, 1 command and its repetition, 1 lost frame, 1 stray NAK, 2 callbacks, 1 hang-up; 5.56 M states |
| `bridge_live` | `ResetFirst`, `CallbacksDrained`, `LoopReturns` | 2 clients that replace each other, one hang-up; 2 callbacks (one more than a drain takes), SPI fault, NCP reset; 970 k |
| `framing_stream` | `RxBounded`, `CleanFramesArrive` | 2 frames among RST, ACK and DATA that need every kind of stuffing; 2 stray bytes; 179 k |
| `spi_commands` | `TypeOK`, `AwakeWhenGranted`, `EndsOnTerminator`, `ReplyIsMine`, `AbortCostsOne`, `ImplementsCommandService` | 3 commands, with and without nHOST_INT; 1 `ncp_reset`, 1 reset of the NCP's own at any moment, 1 burst of callbacks, answers before and after the wait limit; 996 k |
| `gpio_commands` | `RadioExclusive`, `ChipSelectAlone`, `ServiceComesBack` | the service and 2 commands, run twice each, that finish or are killed anywhere; 94 k |
| `ezsp_commands` | `TypeOK`, `InitMeansAgreed`, `ReportsGenuine`, `ExitZeroIsTrue`, `AnswersWhatWasAsked` | any 2 of the 12 commands, with and without `--no-reset`; NCPs of version 4, 6, 8 and 9, two chips; 2 lost transactions or resets, 1 control request or incoming message out of some 800; 492 k |
| `daemon_loop` | `TypeOK`, `NeverOversleeps`, `SleepsAgain`, `CallbacksCollected`, `RequestsAnswered`, `ReportsFlow` | a v4 or v8 NCP; 1 callback, 1 NCP reset, 1 SPI fault, 1 client that asks or dies; 598 k |
| `join_commands` | `TypeOK`, `SuccessIsStored`, `OneAttemptAtATime`, `RestoredIfHealthy`, `CommandEnds` | 1 join and 1 leave in either order, 1 lost command, 1 kill, 1 power cut, 1 stray callback; 31 k |
| `service_scripts` | `TransferAlone`, `JoinStatusFresh`, `ServiceReturns` | 3 scripts of any kind, 2 at a time, 2 signals, router and bridge mode, enabled or not; 1.22 M |

Some properties say less than one might expect, because the code does:

* `InOrder` and `UnackedKept` exempt sessions in which a frame number was reused
  before its client had accepted the frame that used it before (`overrun`).
  Nothing in the bridge prevents that: ACKs are ignored (`bridge.c:291`) and one
  drain may send 32 frames into 8 slots of `sent[]`.
* `SessionOnly` and `InOrder` speak of a client that is still there (`Listening`).
  A client that sends another RST and hangs up before it is answered leaves the
  frames of the old session in its channel, with no RSTACK behind them; nobody
  reads them.
* `RunsWhatWasSent` allows one run for every DATA frame the client sends. The
  bridge does not look at the frame number, so a command the client repeats
  because its ACK was late is run again (`bridge.c:321`).
* `LoopReturns` exempts the blocking `read()` on a client that has just replaced
  another and has not sent its RST.
* `CallbacksDrained` is checked with nHOST_INT present. Without that line the
  bridge never polls (`bridge.c:238`), although it announces a timer
  (`bridge.c:470`).
* `LayoutKnown` is about the layout only: any version reply sets `negotiated`,
  also one that settles nothing (`bridge.c:344`), after which polls are answered
  with `invalidCommand`.
* `CleanFramesArrive` says nothing of what SUB leaves in front of the next flag:
  SUB empties `rx[]` but goes on collecting (`bridge.c:370`), so the rest of the
  frame it was meant to void can still be taken for one.
* `AwakeWhenGranted` is about transactions nHOST_INT has allowed. Without the
  line, or after the 100 ms of `ncp_wake`, the transaction goes ahead anyway.
* `EndsOnTerminator` and `ReplyIsMine` exempt an answer that a reset of the NCP
  has cut in the middle (`torn`).
* `SleepsAgain`, `RequestsAnswered` and `ReportsFlow` exempt `EndlessDrain`: in a
  v4 session an NCP that has reset answers every poll with `invalidCommand`,
  which `ezsp_poll_callback` returns as a callback (`control.c:709`).
* `RequestsAnswered` lets the process die: SIGPIPE is not handled
  (`control.c:228`), and procd starts the daemon again.
* `RestoredIfHealthy` speaks of histories in which no EZSP command was lost: a
  lost `setConfigurationValue` or `networkInit` is only reported, and the daemon
  stays off a stored network until its next start (`control.c:568`).
* `ReportsGenuine` exempts values of one byte that carry no status (the network
  state, the neighbour and child counts) in a v4 session whose NCP has reset:
  there the reason byte of `invalidCommand` is read as the value
  (`control.c:47`, `ezsp.c:473`).
* `ExitZeroIsTrue` is about commands that have the radio themselves: `permit` and
  `power` that go through the daemon exit 0 whatever the daemon answered
  (`control.c:323`), and the daemon's answer to `scan` says that it was refused
  even when the status is 0.
* `AnswersWhatWasAsked` exempts host names longer than 27 bytes, whose record can
  be left out of a response that still fits (`zcl.c:169`).
* `TransferAlone` exempts lines that another script has unexported: a join or scan
  started during a flash dies of EBUSY, but the `start` at its end unexports the
  lines of the transfer and brings the daemon back, which resets the NCP. It also
  exempts a second transfer that found the lines exported: two flash scripts that
  have both verified before either exports skip the lines the other has exported
  (`ezsp-spi-flash:159`) and drive the NCP together. `meddled` and `sharing` record
  the two cases; both occur in the run.
* `ChipSelectAlone` exempts a process that was killed and is being torn down: the
  kernel closes nRESET before nSSEL, so the next process can get nRESET and be
  refused nSSEL, take that for the kernel's refusal and go on without it
  (`board.c:108`).
* `ServiceReturns` exempts what a `leave`, or an init script that was killed
  between `stop` and `start`, leaves behind: a stopped service.
* `JoinStatusFresh` exempts joins started over each other: they share the file.

### Why these bounds are enough

* `Window` = 3 and `MaxFrame` = 3 (8 and 140 in the code): frame numbers wrap
  after three frames, so wrapping and reuse happen within the budgets, and sizes
  2 and 4 lie on both sides of the length check. The proofs cover every value.
* `DrainMax` = 2, and 1 in `bridge_live` (32): with more callbacks than that one
  drain stops at its bound.
* `WaitBytes` = 2, delays 0 and 2: answers come at once and too late; a sleeping
  or booting NCP answers not at all.
* `ScanPolls` = 3 and `ConfigIds` = 4 (240 and 64): loops of the same query. The
  limits of the response (96, 64, 64 bytes) are those of the code; the messages
  include every list of up to four attributes of five record sizes and responses
  on both sides of each limit.
* Two commands of `EzspSession` in a row are enough for a session to be found by
  the next one; two faults for both halves of a negotiation.
* Two scripts at a time and three in all: an overlap, and what the third finds.
* `PollMax` = 3, `ReportSecs` = 5, `FirstSpread` = 3 ticks: a report falls due
  within one sleep, after several, and while something else is being done.
* `Retries` = 1 and two polls per wait: the last retry, the last poll and the
  status that arrives after it all occur.
* Model values are not declared symmetric: several runs check liveness.

Where a run says `CHECK_DEADLOCK FALSE` its model can really stop: the budgets
of an environment are used up (`framing_stream`, `spi_commands`, `join_commands`,
`ezsp_commands`, and `service_*` with the service disabled or up), or the process
blocks in a `read()` (`bridge_live`, `bridge_hangup`, `daemon_silent`).

### Fairness

* Bridge and daemon: weak fairness of the process's own step. `poll()` has a
  timeout, every ioctl returns, and procd respawns a process that died. A
  blocking `read()` is a disabled action, so fairness does not unblock it.
* Daemon: time passes, and a control client that means to ask writes its request
  (`control_query` does so right after `connect()`). `Silent` clients do not.
* GPIO: a running process runs, one-off commands finish, procd restarts the
  service (`respawn 3600 10 0`: no retry limit).
* Join: every poll sleeps 250 ms and every EZSP command returns. Nothing is
  assumed of the stack.
* SPI: every step of `do_cmd` and `ncp_reset` is taken (each wait in them has a
  timeout); when a command is issued is free, and nothing is assumed of the NCP.
* Scripts: each goes on, a stopped daemon ends, procd respawns. That the transfer
  ends assumes it of the vendor's binary.

No fairness is assumed of TCP clients, the NCP, faults or crashes.

### Runs that show a disagreement

Each states what a comment, message or document of the repository says; the
counterexample is what the code does instead.

| Run | Property | What the counterexample shows |
|---|---|---|
| `bridge_hangup` | `ClosedOnlyToReplace` | `poll()` reports the hang-up of a client and a new connection at once; the new one is accepted and then dropped for its predecessor's POLLHUP. |
| `daemon_silent` | `CallbacksCollected` | A client that connects and says nothing stops the daemon. |
| `service_flash` | `InfoWhileStopped` | `teardown`, called before the state of the new firmware is read, restarts the service; `info` then competes with the daemon for the lines, and when it loses, the version is not adopted and the node is reported as off the network. |

Met while modelling and not given a run: `probe` decodes the whole zeroed buffer,
so a silent bus reads as a reset notification (`probe.c:95`); undelivered answers
to attribute reads count as failed reports (`control.c:693`); a callback that
arrives between the drain and the level check waits for the poll timeout
(`control.c:617`); the first beacon decides whether a network is joinable
(`ezsp.c:261`); an oversized ASH frame is dropped but its tail is collected as a
new one (`bridge.c:405`); with `--no-reset` and an agreed session of version 5 or later
`ezsp_init` fails, because the refusal is read as version 88 or 0, so the "network
already up" path of `control.c:573` is hardly ever taken; `leave` does not look
at the mode (`ezsp-spi.init:120`).

## 4. Theorems

The proofs hold for every number of clients, processes or scripts, every window,
buffer size, drain bound, wait limit, period and retry count, every set of EZSP
versions and every budget. They assume only the named ASSUMEs of the component
modules, which TLC evaluates in every run: `Window > 1`, natural-number bounds,
model values that are not clients; a payload is 1 to 254 bytes long, at least one
length is possible and each fits in `rx[]` (`spi.c` reads the length from one
byte); `ScanPolls` and `ConfigIds` are 1 to 255, so that the index of a query
stays a byte (240 and 64 in the code); a response buffer of `UnicastMax` + 32
bytes (96 and 64); an incoming message that ends in its header, behind its last
attribute id or one byte after that; and frames of 1 to 140 bytes
(`ASH_MAX_FRAME`) that fit in `rx[]` with their CRC.

| Theorem | Statement | Argument |
|---|---|---|
| `AshBridgeProofs!TypeCorrect` | `Spec => []TypeOK` | `TypeOK` is not inductive: a step that uses the client needs there to be one. `TypeInv` adds `ClientInUse`, which says where in the loop that is. One lemma per kind of step (bridge, client, NCP), one case per action. |
| `AshBridgeProofs!Handshake` | `Spec => []ResetFirst` | `HandshakeInv` adds that `ready` is set only for a client whose RST was answered, that `sent[]` is empty before that, so that a NAK resends nothing, that a command is only relayed for a ready client, and that a channel holds only commands of its own client. |
| `AshBridgeProofs!Layout` | `Spec => []LayoutKnown` | Inductive as it stands. |
| `AshBridgeProofs!Untruncated` | `Spec => []NoTruncation` | Follows from the two length checks: what `ezsp_relay` cuts is exactly what `ash_send_data` refuses. |
| `AshBridgeProofs!Ours` | `Spec => []SessionOnly` | From `StreamInv`, see below. |
| `AshBridgeProofs!Kept` | `Spec => []UnackedKept` | From `StreamInv`. |
| `AshBridgeProofs!OrderKept` | `Spec => []InOrder` | From `StreamInv`. |
| `AshBridgeProofs!RunOnce` | `Spec => []RunsWhatWasSent` | From `Ledger`, see below. |
| `AshBridgeProofs!ServesStream` | `Spec => Session!Spec` | The refinement of `FrameStream`, from `StreamInv` in both states of a step: each step maps to the beginning or end of a session, one frame produced (a reply is then to its owner), one delivered (by `InOrder'` the next one), the client forgetting what it has, or a stutter. |
| `AshBridgeProofs!TurnEnds` | `Spec => [][Shortens]_vars` | `Rank`, a natural number: what is left of the batch, of the resending and of the drain. Each step of the process between two calls of `poll()` ends the turn or lowers it, and no step of anybody else changes it. |
| `AshFramingProofs!NoOverflow` | `Spec => []RxBounded` | From the types in `FInv`; the room is checked before each byte is stored. |
| `AshFramingProofs!Intact` | `Spec => []CleanFramesArrive` | From `FInv`, see below. |
| `SpiLinkProofs!TypeCorrect` | `Spec => []TypeOK` | `rx[]` is indexed by what the first two bytes of an answer say; the types need `AnswerOK`, that an answer of the NCP is as long as it says. |
| `SpiLinkProofs!WakeSafe` | `Spec => []AwakeWhenGranted` | See below (`LevelOK`, `EdgeOK`). |
| `SpiLinkProofs!Terminated` | `Spec => []EndsOnTerminator` | `AnswerOK` follows an answer from the NCP (`WaitOK`) over its first byte (`BodyOK`) into the buffer (`ClassOK`) and to the caller (`IdleOK`): what is still to come is exactly what the length says, and its last byte is the terminator. |
| `SpiLinkProofs!Mine` | `Spec => []ReplyIsMine` | The same invariant: the frame on its way carries the number of the command `do_cmd` is in. |
| `SpiLinkProofs!OneEach` | `Spec => []AbortCostsOne` | `LateOK`: every 0x02 handed out, on its way or still to come has its own transaction that was cut short or that nobody heard. |
| `SpiLinkProofs!ServesCommands` | `Spec => Service!Spec` | The safety part of `ImplementsCommandService`. Every step of `SpiLink` is a step of `CommandService` or a stutter; that the retry of `do_cmd` runs nothing twice needs that a reset notification or an error is only answered when the command has not run (`ClassTells`). |
| `NetworkJoinProofs!TypeCorrect` | `Spec => []TypeOK` | Inductive with `CountOK`. |
| `NetworkJoinProofs!Stored` | `Spec => []SuccessIsStored` | A status in the callback queue speaks of this command, because `ncp_reset` has emptied the queue: `JoinOK` says that NETWORK_UP is queued only if the network is stored, `LeaveOK` that NETWORK_DOWN is queued only if it is not, and `DoneOK` that nothing is under way that could change it after the command. |
| `NetworkJoinProofs!OneAttempt` | `Spec => []OneAttemptAtATime` | `JoinOK` adds that at most one failure is queued, and none while the stack is joining: a late failure can therefore not start a second attempt. `CountOK` balances attempts made and left. |
| `NetworkJoinProofs!Restored` | `Spec => []RestoredIfHealthy` | `ConfigOK`: without a lost command the configuration is full where `networkInit` is called; `RunOK`: the stack is then up in the loop. |
| `RouterDaemonProofs!TypeCorrect` | `Spec => []TypeOK` | Inductive in four parts; the next report is drawn from an interval that the type of `due` allows (`Intervals`). |
| `RouterDaemonProofs!OnTime` | `Spec => []NeverOversleeps` | Inductive with the types. |
| `RouterDaemonProofs!NoLostWakeup` | `Spec => []EdgeForCallback` | The safety half of `CallbacksCollected`: a callback queued while nHOST_INT is in the poll set leaves `poll()` an edge, so that no order of the level check, the SPI transaction and the callback loses it. |
| `RouterDaemonProofs!NobodyForgotten` | `Spec => []NoneForgotten` | The safety half of `RequestsAnswered`, with `QueueOK`: nobody waits twice or while being served. |
| `RouterDaemonProofs!ServedOnce` | `Spec => [][Final]_vars` | An action property from the same invariant: a connection that was answered or closed stays that. |
| `GpioLinesProofs!Exclusive` | `Spec => [](TypeOK /\ HeldWhileUsing /\ RadioExclusive)` | `IInv` adds `HeldWhileOpening`: a process that has passed a fatal line in `pins_open` holds it. Two processes that use the radio would then both hold nRESET. |
| `GpioLinesProofs!SelectAlone` | `Spec => []ChipSelectAlone` | Adds `CsHeld`: until it is killed, a process that has chip select also has nRESET, because `pins_open` takes nRESET first and `pins_close` gives chip select back first; a killed one loses it as its fourth line. The user has nRESET, so a live owner of chip select is the user. |
| `GpioLinesProofs!Implements` | `Spec => Lock!Spec` | The refinement of `RadioLock`: the request of nRESET takes the lock, the return of `pins_open` begins the use (by `HeldWhileOpening` the process has nRESET), `Finish` or a kill ends it, and the close of nRESET gives the lock back, by a process that has stopped; every other step is a stutter. |
| `EzspSessionProofs!Negotiated` | `Spec => []InitMeansAgreed` | What a reply to `version()` can be taken for: the NCP's version, or, from an NCP in a later session, 88 or 0 (`VersionReply`, on the bytes of the frames). 88 is refused by `Known`. 0 is only believed on the second attempt, in front of which the NCP is reset; `IInv` therefore adds that the NCP has agreed to nothing at `again`, that the host uses the v4 layout until it has succeeded, and that an NCP that takes `version()` has agreed to nothing. |
| `EzspSessionProofs!TypeCorrect` | `Spec => []TypeOK` | From `SInv`; the position in a program stays inside it. |
| `EzspSessionProofs!Genuine` | `Spec => []ReportsGenuine` | `SInv` adds to `IInv` that in a session both ends use one layout or the NCP has reset (`SessionOK`). Then a reply is the answer to its own query, an `invalidCommand` or nothing (`ReplyIs`, on the bytes of the frames), and the length and status checks of every query of every program reject the latter two (`TakenIs`), except for the bare bytes the property names. |
| `EzspSessionProofs!ExitZero` | `Spec => []ExitZeroIsTrue` | A program that promises something ends with the query it depends on and checks its status (`Programs`, `PromiseKept`), and `rc` becomes 0 only there (`CodeZero`). |
| `EzspSessionProofs!InFull` | `Spec => []AnswersWhatWasAsked` | The response is built record by record, and a record that does not fit is skipped. `FitsMeansAll`: if what was built is at most `UnicastMax` bytes, none was skipped, because a record has at most 32; `AskedAll`: the ids the code reads from a message it has kept whole are those of the message. |
| `ServiceProofs!Alone` | `Spec => []TransferAlone` | Inductive with the ranges of the labels and `ExportedUnheld`, that nobody holds exported lines: whoever takes the lines needs them not to be exported, export needs them to be free or exported, and every unexport records whom it robs. A second transfer begins with an export, which finds the lines exported unless the first has been robbed. |
| `ServiceProofs!StatusFresh` | `Spec => []JoinStatusFresh` | `OneJoin` is added: without an overlap at most one join of LuCI runs, so the one that writes JOINDONE is the last. |

### The stream of frames

A 3-bit number says nothing until it is known which frame it stands for. `StreamInv`
gives each frame in the channel to a client a position in the session's log:

* `Numbered`: `frm` is the length of the log modulo the window, and `sent[]` holds
  the last `Window` frames of the log and nothing else.
* `Bounded`: unless the window was overrun, fewer than `Window` frames are
  outstanding.
* `InFlight`: the frames behind the last RSTACK in the channel have positions
  (`Traced`); a frame carries the body and the number of its position; and no
  frame, fresh or resent, is a whole window behind one in front of it or behind
  what the client has accepted. This is what makes the number the client expects
  mean one position only, and it holds because `ash_retransmit` stops at the number
  that is used next.
* `OwnReplies`, `Connected` and `Queued`: replies are to the connected client,
  callbacks are no replies, and only an accepted connection is answered.
* `InOrder` itself, which the acceptance of one more frame extends.

It needs facts about remainders for every window (`SameRemainder`: two numbers
less than a window apart with the same remainder are equal), which are proved
first. TLC checked `StreamInv` on the instance of `bridge_session` before it was
proved. The attempt to prove it also showed that `SessionOnly` and `InOrder` had
been stated too widely, for clients that have hung up.

The other direction is an account. `Ledger` says that the commands run, the one
being relayed, the DATA frames that have been read and those that wait in all the
channels together are no more than the clients have sent; every step of the bridge
moves a frame from one place to the next or drops it, and only a client adds one.
The frames that wait are a set of pairs, of which the proof compares cardinalities
through injections.

`FrameStream` says the same without numbers, windows and channels. TLC checked the
refinement on the instances of `bridge_session` and `bridge_live` before it was
proved, and that of `RadioLock` on the instance of `gpio_commands`; no run keeps
either.

### Bytes and frames

The encoding of a frame is computed by three recursions: the CRC, the
pseudo-random sequence and the stuffing loop. The provers have no induction over
data, but they have its consequence that a non-empty set of natural numbers has a
least element (`Least`, from the well-foundedness of `<`). `UpTo` is ordinary
induction over a range, stated of a set in place of a predicate, and `Recursion`
says that a function defined by recursion from 0 exists and satisfies its
definition. With these, `CrcType`, `RandType` and `BufIs` give each computation its
type and its steps, and `EncodingIs` sums up what the receiver meets: which bytes
on the wire stand for which byte of the frame, and that none of them is reserved
except the ESC in front of an escaped one and the flag at the end. `XorTwice` makes
the mask and the escape undo themselves. The value of the CRC plays no part:
both ends compute the same function of the same bytes.

`FInv` then follows the receiver. `Clean`: if the line is not dirty, the receiver
is ready for a frame once it has taken what is on the wire. `Owed`: each frame that
is due lies ahead as a whole, behind bytes that leave the receiver ready, or is
being taken, with `rx[]` holding what it should up to some byte of the frame, or up
to the ESC in front of it. TLC checked `FInv` on the instance of `framing_stream`.

The same induction proves `InFull`: the response of `zcl_handle_incoming` is a
recursive function of the list of attributes.

### The wake handshake

An edge in the kernel's buffer may be old, so it proves nothing by itself.
`LevelOK` says that nHOST_INT is only low while the NCP has a reason to be up: it
was roused, or it has a callback or a reset to report and keeps it until it hears a
command. `EdgeOK` says that behind `gpio_drain_events` a falling edge was produced
by such a reason, which still stands when the transaction starts unless the NCP has
reset in between; then it is booting, which is not sleeping either.

### Only model-checked

The liveness properties, among them the fairness of `CommandService` in
`ImplementsCommandService`: fairness and ENABLED are outside what TLAPS proves
here. `NoLostWakeup`, `NobodyForgotten` and `TurnEnds` are the part of them that is
safety: a wake-up is not lost, a connection is not forgotten, and a turn of the
bridge's loop cannot go on for ever. Every invariant a passing run checks is also
a theorem.

## 5. Not modelled

* The `cs_change` path of a kernel-owned nSSEL and the gap between
  transactions: the kernel's SPI driver decides what happens there.
* `write_all` blocking on a client that stops reading: a channel to a client has
  unbounded room in `AshBridge`.
* The text the commands print, the reading of a firmware image by `verify`, and
  the lines `bootloader` toggles once the NCP has answered.
* The daemon's neighbour and route loops also end when the text buffer is nearly
  full; in the model they always run to the size of the table.
* The sequence number of EZSP: the code sends one and compares none.
* Argument parsing, the defaults of lines and bus, the JSON of the rpcd back end,
  the LuCI views, the device-tree patch and the build files.

## 6. Plan

Order: the bridge first, since it carries most of the state and of the
concurrency; then the layers it stands on; then the daemon and the commands.
These are done, down to the scripts and the abstract specification of the bridge.
Left is a bounded TCP buffer in `AshBridge`, for `write_all` on a client that stops
reading.
