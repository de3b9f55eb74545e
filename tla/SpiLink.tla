------------------------------ MODULE SpiLink ------------------------------
(***************************************************************************)
(* The command layer: do_cmd with the wake handshake (ncp_wake, board.c)   *)
(* and the EZSP-SPI transaction (spi_txn_framed, spi.c) it is made of, and *)
(* ncp_reset, against the NCP's side of the wires.                         *)
(*                                                                         *)
(* The NCP sleeps between transactions.  Before each one the host asserts  *)
(* nWAKE and waits for a falling edge of nHOST_INT, which it reads from    *)
(* the kernel's event buffer.  It then asserts nSSEL, clocks the command   *)
(* out, clocks idle bytes until the NCP starts to answer, works out from   *)
(* the first bytes how many are left, fetches those and releases nSSEL.    *)
(*                                                                         *)
(* The NCP (external) holds nHOST_INT low while it has a callback or a     *)
(* reset to report, and answers nWAKE with it.  It runs a command once its *)
(* terminator has arrived and answers after some delay; it answers the     *)
(* first command after a reset with a reset notification instead, and one  *)
(* that finds it asleep, or follows a transaction that did not end exactly *)
(* on the terminator, with error 0x02: none of these runs the command.     *)
(***************************************************************************)
EXTENDS Integers, Sequences

CONSTANTS
    WaitBytes,     \* cfg.wait_bytes: idle bytes clocked before giving up
    RxLen,         \* size of the caller's rx[]
    PayloadLens,   \* lengths of the EZSP frames the NCP answers with
    Delays,        \* idle bytes before the NCP answers
    MaxCmds,       \* bound on the number of commands
    Limit          \* bound on the other events named in Budgets

Budgets == {"reset", "crash", "callback"}

ASSUME SpiAssumption ==
    /\ WaitBytes \in Nat \ {0} /\ Delays \subseteq Nat
    /\ MaxCmds \in Nat /\ Limit \in [Budgets -> Nat]
    \* 0xFE, the length byte, the payload and the terminator fit in rx[]
    /\ RxLen \in Nat /\ PayloadLens \subseteq 1..254 /\ PayloadLens # {}
    /\ \A l \in PayloadLens : l + 3 <= RxLen

IDLE == 255     \* 0xFF
FRAME == 254    \* 0xFE
TERM == 167     \* 0xA7

VARIABLES
    hpc,           \* where do_cmd or ncp_reset is
    cmd,           \* the command being sent: its kind and its number
    attempt,       \* 1, or 2 after a reset notification
    waited,        \* wait states clocked in this transaction
    rx, n,         \* receive buffer and number of bytes in it
    cls,           \* what do_cmd returned last
    hasHint,       \* the nHOST_INT line could be requested (p->hint >= 0)
    nwake, hint,   \* levels of nWAKE and nHOST_INT, both active low
    edges,         \* unread edges of nHOST_INT in the kernel's event buffer
    ncp,           \* NCP: "down", "booting", "asleep", "awake" or "roused"
    pend,          \* NCP: callbacks are queued
    delay,         \* NCP: idle bytes until it answers
    stream,        \* NCP: bytes of the answer not clocked out yet
    resetPending,  \* NCP: a reset has not been reported yet
    poisoned,      \* NCP: the last transaction was aborted
    ran,           \* history: numbers of the commands the NCP ran
    answered,      \* history: numbers of the commands do_cmd got an answer to
    ncmds, used,
    granted,       \* history: nHOST_INT has allowed this transaction
    late, aborted, \* history: transactions cut short or not heard, 0x02 answers
    clocked,       \* history: bytes clocked past the end of this answer
    torn           \* history: the NCP has reset in the middle of this answer

txn    == <<cmd, attempt, waited, rx, n>>
lines  == <<hasHint, nwake, hint, edges>>
queues == <<delay, stream, resetPending, poisoned>>
hist   == <<ran, answered, late, aborted, clocked, torn>>
vars   == <<hpc, txn, cls, lines, ncp, pend, queues, hist, granted, ncmds, used>>

Kinds == {"ezsp", "version", "status"}

\* A payload byte is the number of the command it answers.
Bytes == 0..255 \cup 1..MaxCmds
Zeros == [i \in 1..RxLen |-> 0]
Padded(s) == [i \in 1..RxLen |-> IF i <= Len(s) THEN s[i] ELSE 0]
Spend(k) == used[k] < Limit[k] /\ used' = [used EXCEPT ![k] = @ + 1]

\* nHOST_INT takes a level; a change of it is an event.
HintTo(level) ==
    /\ hint' = level
    /\ edges' = IF level = hint THEN edges
                ELSE Append(edges, IF level = 0 THEN "fall" ELSE "rise")

Init ==
    /\ hpc = "idle" /\ cmd = [kind |-> "status", id |-> 0] /\ attempt = 1 /\ waited = 0
    /\ rx = Zeros /\ n = 0 /\ cls = "none"
    /\ hasHint \in BOOLEAN /\ nwake = 1 /\ hint = 0 /\ edges = <<>>
    /\ ncp = "awake" /\ pend = FALSE
    /\ delay = 0 /\ stream = <<>> /\ resetPending = TRUE /\ poisoned = FALSE
    /\ ran = <<>> /\ answered = {} /\ ncmds = 0 /\ used = [k \in Budgets |-> 0]
    /\ granted = FALSE /\ late = 0 /\ aborted = 0 /\ clocked = 0 /\ torn = FALSE

(***************************************************************************)
(* Reading a reply                                                         *)
(***************************************************************************)
\* Index of the first byte that is not idle, 0 if there is none.
spi_first_response(buf, len) ==
    IF \E i \in 1..len : buf[i] # IDLE
    THEN CHOOSE i \in 1..len : buf[i] # IDLE /\ \A j \in 1..(i - 1) : buf[j] = IDLE
    ELSE 0

ResponseClass(b) ==
    CASE b = FRAME        -> "ezsp"
      [] b \div 64 = 2    -> "version"
      [] b \div 2 = 96    -> "status"
      [] b = 0            -> "reset"
      [] b \in 1..4       -> "error"
      [] OTHER            -> "other"

classify(buf, len) ==
    LET i == spi_first_response(buf, len)
    IN  IF i = 0 THEN "idle" ELSE ResponseClass(buf[i])

\* Bytes still to fetch after first byte b, and length byte l of a frame.
RemainNoTerm(b, l) == IF b = FRAME THEN 1 + l ELSE IF b <= 4 THEN 1 ELSE 0
Remain(b, l) == IF b = FRAME THEN 1 + l + 1 ELSE IF b <= 4 THEN 2 ELSE 1
Clamped(k) == IF k > RxLen - 1 THEN RxLen - 1 ELSE k

(***************************************************************************)
(* The NCP                                                                 *)
(***************************************************************************)
Up == ncp \in {"asleep", "awake", "roused"}

NcpSleeps ==
    /\ ncp = "awake" /\ ~pend /\ ~resetPending /\ nwake = 1
    /\ hpc \notin {"wait", "body"}
    /\ ncp' = "asleep"
    /\ UNCHANGED <<hpc, txn, cls, lines, pend, queues, hist, granted, ncmds, used>>

\* nWAKE is answered by nHOST_INT; until the next transaction it stays awake.
NcpAcks ==
    /\ nwake = 0 /\ ncp \in {"asleep", "awake"}
    /\ ncp' = "roused" /\ HintTo(0)
    /\ UNCHANGED <<hpc, txn, cls, hasHint, nwake, pend, queues, hist, granted, ncmds, used>>

NcpCallback ==
    /\ Up /\ ~resetPending /\ Spend("callback")
    /\ ncp' = IF ncp = "asleep" THEN "awake" ELSE ncp
    /\ pend' = TRUE /\ HintTo(0)
    /\ UNCHANGED <<hpc, txn, cls, hasHint, nwake, queues, hist, granted, ncmds>>

\* A watchdog or assert reset.
NcpCrash ==
    /\ Up /\ Spend("crash")
    /\ torn' = (torn \/ hpc = "body")
    /\ ncp' = "booting" /\ pend' = FALSE /\ HintTo(1)
    /\ resetPending' = FALSE /\ poisoned' = FALSE /\ stream' = <<>> /\ delay' = 0
    /\ UNCHANGED <<hpc, txn, cls, hasHint, nwake, ran, answered, late, aborted, clocked,
                   granted, ncmds>>

NcpBoots ==
    /\ ncp = "booting"
    /\ ncp' = "awake" /\ resetPending' = TRUE /\ HintTo(0)
    /\ UNCHANGED <<hpc, txn, cls, hasHint, nwake, pend, delay, stream, poisoned, hist,
                   granted, ncmds, used>>

Answer(c, l) ==
    CASE c.kind = "ezsp"    -> <<FRAME, l>> \o [i \in 1..l |-> c.id] \o <<TERM>>
      [] c.kind = "version" -> <<130, TERM>>
      [] c.kind = "status"  -> <<193, TERM>>

\* What a complete command meets: nobody (a booting NCP), a reset to report, a
\* sleeper or a transaction that was cut short, or an NCP that runs it.  An EZSP
\* command may be the one that collects the last callback.
NcpHears ==
    \/ /\ ncp = "booting"
       /\ stream' = <<>> /\ late' = late + 1
       /\ UNCHANGED <<ncp, pend, resetPending, poisoned, ran, hint, edges>>
    \/ /\ Up /\ resetPending
       /\ stream' = <<0, 2, TERM>> /\ resetPending' = FALSE
       /\ ncp' = "awake" /\ HintTo(1)
       /\ UNCHANGED <<pend, poisoned, ran, late>>
    \/ /\ Up /\ ~resetPending /\ (ncp = "asleep" \/ poisoned)
       /\ stream' = <<2, 0, TERM>> /\ poisoned' = FALSE /\ ncp' = "awake"
       /\ late' = IF ncp = "asleep" /\ ~poisoned THEN late + 1 ELSE late
       /\ HintTo(IF pend THEN 0 ELSE 1)
       /\ UNCHANGED <<pend, resetPending, ran>>
    \/ /\ Up /\ ~resetPending /\ ncp # "asleep" /\ ~poisoned
       /\ \E l \in PayloadLens : stream' = Answer(cmd, l)
       /\ ran' = Append(ran, cmd.id) /\ ncp' = "awake"
       /\ pend' \in (IF cmd.kind = "ezsp" THEN {pend, FALSE} ELSE {pend})
       /\ HintTo(IF pend' THEN 0 ELSE 1)
       /\ UNCHANGED <<resetPending, poisoned, late>>

(***************************************************************************)
(* ncp_reset: nWAKE high, nRESET low, discard old edges, nRESET high, wait *)
(* for nHOST_INT (2 s), or half a second without the line.                 *)
(***************************************************************************)
\* An edge is taken from the buffer; a falling one ends the wait, as does the
\* timeout when the buffer is empty.
gpio_wait_falling(there, then) ==
    /\ hpc = there
    /\ \/ /\ edges # <<>>
          /\ edges' = Tail(edges)
          /\ IF Head(edges) = "fall" THEN hpc' = then /\ granted' = TRUE
             ELSE UNCHANGED <<hpc, granted>>
       \/ /\ edges = <<>>
          /\ hpc' = then /\ UNCHANGED <<granted, edges>>

KeepEvents == UNCHANGED edges
gpio_drain_events == edges' = <<>>

NcpReset ==
    /\ hpc = "idle" /\ Spend("reset")
    /\ nwake' = 1 /\ ncp' = "down" /\ pend' = FALSE /\ HintTo(1)
    /\ resetPending' = FALSE /\ poisoned' = FALSE /\ stream' = <<>> /\ delay' = 0
    /\ hpc' = "held"
    /\ UNCHANGED <<txn, cls, hasHint, hist, granted, ncmds>>

ResetRelease ==
    /\ hpc = "held"
    /\ gpio_drain_events
    /\ ncp' = "booting" /\ hpc' = IF hasHint THEN "boot" ELSE "idle"
    /\ UNCHANGED <<txn, cls, hasHint, nwake, hint, pend, queues, hist, granted, ncmds, used>>

ResetWait ==
    /\ gpio_wait_falling("boot", "idle")
    /\ UNCHANGED <<txn, cls, hasHint, nwake, hint, ncp, pend, queues, hist, ncmds, used>>

(***************************************************************************)
(* ncp_wake                                                                *)
(***************************************************************************)
Outside == <<ncp, pend, queues, hist, ncmds, used>>

\* gpio_get: an asserted nHOST_INT makes the handshake unnecessary.
WakeLevel ==
    /\ hpc = "wake" /\ hasHint
    /\ granted' = (hint = 0)
    /\ hpc' = IF hint = 0 THEN "send" ELSE "drain"
    /\ UNCHANGED <<txn, cls, lines, Outside>>

WakeDrain ==
    /\ hpc = "drain"
    /\ gpio_drain_events
    /\ hpc' = "pull"
    /\ UNCHANGED <<txn, cls, hasHint, nwake, hint, granted, Outside>>

\* Without nHOST_INT a timed pulse has to do.
WakeAssert ==
    /\ hpc = "pull" \/ (hpc = "wake" /\ ~hasHint)
    /\ nwake' = 0
    /\ hpc' = IF hasHint THEN "ack" ELSE "release"
    /\ granted' = FALSE
    /\ UNCHANGED <<txn, cls, hasHint, hint, edges, Outside>>

\* Returns with the edge or after 100 ms; ncp_wake goes on either way.
WakeWait ==
    /\ gpio_wait_falling("ack", "release")
    /\ UNCHANGED <<txn, cls, hasHint, nwake, hint, Outside>>

\* The 500 us behind it are for the NCP to take nHOST_INT back.
WakeRelease ==
    /\ hpc = "release"
    /\ nwake' = 1
    /\ IF ncp = "roused" /\ ~pend /\ ~resetPending THEN HintTo(1) ELSE UNCHANGED <<hint, edges>>
    /\ hpc' = "send"
    /\ UNCHANGED <<txn, cls, hasHint, granted, Outside>>

(***************************************************************************)
(* The transaction                                                         *)
(***************************************************************************)
Wires == <<lines, ncp, pend, granted, ncmds, used>>

Start(kind) ==
    /\ hpc = "idle" /\ ncmds < MaxCmds
    /\ ncmds' = ncmds + 1
    /\ cmd' = [kind |-> kind, id |-> ncmds + 1]
    /\ attempt' = 1 /\ hpc' = "wake"
    /\ UNCHANGED <<waited, rx, n, cls, lines, ncp, pend, queues, hist, granted, used>>

\* The receive buffer at the start of a transaction.
StaleRx == UNCHANGED <<rx, n>>
EmptyRx == rx' = Zeros /\ n' = 0

\* cs_assert and the command bytes.
Transmit ==
    /\ hpc = "send"
    /\ EmptyRx /\ waited' = 0 /\ clocked' = 0 /\ torn' = FALSE
    /\ NcpHears
    /\ delay' \in Delays
    /\ hpc' = "wait"
    /\ UNCHANGED <<cmd, attempt, cls, hasHint, nwake, answered, aborted, granted, ncmds, used>>

\* Wait states are counted.
WaitCounted == waited + 1

\* One wait state: the NCP is not answering yet.
WaitState ==
    /\ hpc = "wait" /\ waited < WaitBytes
    /\ delay > 0 \/ stream = <<>>
    /\ waited' = WaitCounted
    /\ delay' = IF delay > 0 THEN delay - 1 ELSE 0
    /\ UNCHANGED <<hpc, cmd, attempt, rx, n, cls, stream, resetPending, poisoned, hist, Wires>>

\* The first byte of the answer.
FirstByte ==
    /\ hpc = "wait" /\ waited < WaitBytes
    /\ delay = 0 /\ stream # <<>>
    /\ rx' = Padded(<<Head(stream)>>) /\ n' = 1
    /\ stream' = Tail(stream)
    /\ hpc' = "body"
    /\ UNCHANGED <<cmd, attempt, waited, cls, delay, resetPending, poisoned, hist, Wires>>

\* No answer within wait_bytes: nSSEL is released under the NCP's feet.
WaitExpires ==
    /\ hpc = "wait" /\ waited = WaitBytes
    /\ poisoned' = (poisoned \/ stream # <<>>)
    /\ late' = IF stream # <<>> THEN late + 1 ELSE late
    /\ stream' = <<>> /\ delay' = 0
    /\ hpc' = "classify"
    /\ UNCHANGED <<txn, cls, resetPending, ran, answered, aborted, clocked, torn, Wires>>

\* The rest of the answer, fetched in one go; nSSEL is released behind it.
Body ==
    /\ hpc = "body"
    /\ LET l == IF stream # <<>> THEN Head(stream) ELSE IDLE
           k == Clamped(Remain(rx[1], l))
           bytes == [i \in 1..k |-> IF i <= Len(stream) THEN stream[i] ELSE IDLE]
       IN  /\ rx' = Padded(<<rx[1]>> \o bytes)
           /\ n' = 1 + k
           /\ poisoned' = (k # Len(stream) /\ Up /\ ~resetPending)
           /\ clocked' = IF k > Len(stream) THEN k - Len(stream) ELSE 0
    /\ stream' = <<>>
    /\ hpc' = "classify"
    /\ UNCHANGED <<cmd, attempt, waited, cls, delay, resetPending, ran, answered, late,
                   aborted, torn, Wires>>

\* A reset notification is worth a second try.
RetryForever(c) == c = "reset"
RetryAnyFailure(c) == c \in {"reset", "idle", "error"} /\ attempt <= 2
Retry(c) == c = "reset" /\ attempt = 1

Resend ==
    /\ hpc = "classify" /\ Retry(classify(rx, n))
    /\ attempt' = attempt + 1 /\ hpc' = "wake"
    /\ UNCHANGED <<cmd, waited, rx, n, cls, queues, hist, Wires>>

Return ==
    /\ hpc = "classify" /\ ~Retry(classify(rx, n))
    /\ cls' = classify(rx, n)
    /\ aborted' = IF cls' = "error" THEN aborted + 1 ELSE aborted
    /\ answered' = IF cls' = cmd.kind THEN answered \cup {cmd.id} ELSE answered
    /\ hpc' = "idle"
    /\ UNCHANGED <<txn, queues, ran, late, clocked, torn, Wires>>

HostStep ==
    \/ ResetRelease \/ ResetWait
    \/ WakeLevel \/ WakeDrain \/ WakeAssert \/ WakeWait \/ WakeRelease
    \/ Transmit \/ WaitState \/ FirstByte \/ WaitExpires \/ Body \/ Resend \/ Return

Next ==
    \/ \E kind \in Kinds : Start(kind)
    \/ NcpReset \/ HostStep
    \/ NcpSleeps \/ NcpAcks \/ NcpCallback \/ NcpCrash \/ NcpBoots

Spec == Init /\ [][Next]_vars

\* Nothing here waits without a timeout: every ioctl and every poll returns.
FairSpec == Spec /\ WF_vars(HostStep)

-----------------------------------------------------------------------------
\* Every variable has its type; do_cmd tries at most twice, waits for at most
\* wait_bytes and never writes past rx[].
TypeOK ==
    /\ hpc \in {"idle", "held", "boot", "wake", "drain", "pull", "ack", "release", "send",
                "wait", "body", "classify"}
    /\ cmd \in [kind: Kinds, id: 0..MaxCmds]
    /\ attempt \in 1..2 /\ waited \in 0..WaitBytes
    /\ rx \in [1..RxLen -> Bytes] /\ n \in 0..RxLen
    /\ cls \in {"none", "idle", "ezsp", "version", "status", "reset", "error", "other"}
    /\ hasHint \in BOOLEAN /\ nwake \in {0, 1} /\ hint \in {0, 1}
    /\ edges \in Seq({"fall", "rise"}) /\ granted \in BOOLEAN
    /\ ncp \in {"down", "booting", "asleep", "awake", "roused"} /\ pend \in BOOLEAN
    /\ delay \in Nat /\ resetPending \in BOOLEAN /\ poisoned \in BOOLEAN

\* board.c:177, "Only then is it safe to start a transaction": with the leave of
\* nHOST_INT, whether that was for the wake, for a callback that arrived in the
\* middle of the handshake or left over from an earlier one, no transaction
\* finds the NCP asleep.
AwakeWhenGranted == hpc = "send" /\ granted => ncp # "asleep"

\* The reply do_cmd has just classified was clocked in completely.
Answered == hpc = "classify" /\ n > 0

\* spi.c:47, "A whole EZSP-SPI transaction, ending exactly on the frame
\* terminator": no answer is cut short and no byte is clocked behind it, unless
\* the NCP resets in the middle of it.
EndsOnTerminator == Answered /\ ~torn => rx[n] = TERM /\ clocked = 0

\* A frame handed to the caller answers the caller's own command, and the NCP
\* ran that command: late answers are never taken for the next one's.
ReplyIsMine ==
    cls = "ezsp" /\ hpc = "idle" /\ ~torn =>
        rx[3] = cmd.id /\ ran # <<>> /\ ran[Len(ran)] = cmd.id

\* DESIGN.md, "one transaction late": an aborted transaction costs exactly one
\* later command, so error 0x02 never outnumbers the transactions that were
\* given up or found nobody awake.
AbortCostsOne == aborted <= late

Service == INSTANCE CommandService WITH
    Ids <- 1..MaxCmds,
    cur <- IF hpc \in {"idle", "held", "boot"} THEN 0 ELSE cmd.id,
    executed <- ran

\* The two attempts, the late answers and the resets of do_cmd add up to a
\* command service: at most one execution, none behind the caller's back, no
\* answer without one, and every caller hears back.
ImplementsCommandService == Service!FairSpec
=============================================================================
