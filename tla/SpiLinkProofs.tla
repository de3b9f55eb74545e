--------------------------- MODULE SpiLinkProofs ---------------------------
(***************************************************************************)
(* The command layer for every buffer, wait limit, set of payloads and     *)
(* delays, and any number of commands, resets and callbacks.               *)
(*                                                                         *)
(* The invariant comes in four parts: types; the wires, which say why an   *)
(* edge of nHOST_INT proves that the NCP is awake; the transaction, which  *)
(* follows an answer from the NCP through the buffer to the caller; and    *)
(* the account of aborted transactions.                                    *)
(***************************************************************************)
EXTENDS SpiLink, SequenceTheorems, TLAPS

Resting == {"idle", "held", "boot"}
Waking  == {"wake", "drain", "pull", "ack", "release", "send"}

\* A complete answer: it fits in rx[] and is as long as its first two bytes say.
Whole(st) ==
    /\ st \in Seq(Bytes) /\ Len(st) \in 2..RxLen
    /\ Len(st) = 1 + Remain(st[1], st[2])
    /\ st[Len(st)] = TERM

\* ... and what is left of it behind its first byte b.
Rest(b, st) ==
    /\ st \in Seq(Bytes) /\ Len(st) \in 1..(RxLen - 1)
    /\ Len(st) = Remain(b, st[1])
    /\ st[Len(st)] = TERM

LEMMA RxRoom == RxLen \in Nat /\ RxLen >= 4
<1>1. PICK l \in PayloadLens : TRUE
  BY SpiAssumption
<1>2. l \in 1..254 /\ l + 3 <= RxLen /\ RxLen \in Nat
  BY <1>1, SpiAssumption
<1> QED
  BY <1>2

LEMMA ByteValues == {IDLE, FRAME, TERM, 0, 2, 130, 193} \subseteq Bytes
BY DEF Bytes, IDLE, FRAME, TERM

LEMMA ByteNat == \A b \in Bytes : b \in Nat
BY SpiAssumption DEF Bytes

Frame(id, l) == <<FRAME, l>> \o [i \in 1..l |-> id] \o <<TERM>>

LEMMA EmptyStream == <<>> \in Seq(Bytes)
OBVIOUS

\* The NCP's answers are complete, and a frame carries the command's number.
LEMMA FrameWhole ==
    ASSUME NEW id \in Bytes, NEW l \in PayloadLens
    PROVE  /\ Whole(Frame(id, l)) /\ Frame(id, l)[1] = FRAME
           /\ Len(Frame(id, l)) >= 4 /\ Frame(id, l)[3] = id
<1> DEFINE st == Frame(id, l)
<1> DEFINE pay == [i \in 1..l |-> id]
<1>1. l \in 1..254 /\ l \in Nat /\ l + 3 <= RxLen /\ l \in Bytes
  BY SpiAssumption DEF Bytes
<1>2. pay \in Seq(Bytes) /\ Len(pay) = l /\ pay[1] = id
  BY <1>1
<1>3. <<FRAME, l>> \in Seq(Bytes) /\ <<TERM>> \in Seq(Bytes)
  BY <1>1, ByteValues
<1> HIDE DEF pay
<1> DEFINE front == <<FRAME, l>> \o pay
<1>4. front \in Seq(Bytes) /\ Len(front) = 2 + l /\ front[1] = FRAME /\ front[2] = l /\ front[3] = id
  BY <1>1, <1>2, <1>3
<1>5. st = front \o <<TERM>>
  BY DEF pay, Frame
<1> HIDE DEF front, st
<1>6. st \in Seq(Bytes) /\ Len(st) = 3 + l /\ st[1] = FRAME /\ st[2] = l /\ st[3] = id
      /\ st[3 + l] = TERM
  BY <1>1, <1>3, <1>4, <1>5
<1>7. Whole(st) /\ st[1] = FRAME /\ Len(st) >= 4 /\ st[3] = id
  BY <1>1, <1>6, RxRoom DEF Whole, Remain
<1> QED
  BY <1>7 DEF st

LEMMA ShortWhole ==
    /\ Whole(<<130, TERM>>) /\ Whole(<<193, TERM>>)
    /\ Whole(<<0, 2, TERM>>) /\ Whole(<<2, 0, TERM>>)
BY RxRoom, ByteValues DEF Whole, Remain, TERM, FRAME

LEMMA AnswerWhole ==
    ASSUME NEW c \in [kind: Kinds, id: 0..MaxCmds], c.id # 0, NEW l \in PayloadLens
    PROVE  /\ Whole(Answer(c, l)) /\ Answer(c, l)[1] \in {FRAME, 130, 193}
           /\ Answer(c, l)[1] = FRAME => Len(Answer(c, l)) >= 4 /\ Answer(c, l)[3] = c.id
<1>1. c.id \in Bytes
  BY SpiAssumption DEF Bytes
<1>2. CASE c.kind = "ezsp"
  <2>1. Answer(c, l) = Frame(c.id, l)
    BY <1>2 DEF Answer, Frame
  <2>2. /\ Whole(Answer(c, l)) /\ Answer(c, l)[1] = FRAME
        /\ Len(Answer(c, l)) >= 4 /\ Answer(c, l)[3] = c.id
    BY <1>1, <2>1, FrameWhole
  <2> QED
    BY <2>2
<1>3. CASE c.kind = "version"
  BY <1>3, ShortWhole DEF Answer, FRAME
<1>4. CASE c.kind = "status"
  BY <1>4, ShortWhole DEF Answer, FRAME
<1> QED
  BY <1>2, <1>3, <1>4 DEF Kinds

LEMMA WholeSplits ==
    ASSUME NEW st, Whole(st)
    PROVE  /\ st # <<>> /\ Head(st) = st[1] /\ Rest(st[1], Tail(st))
           /\ \A i \in 1..(Len(st) - 1) : Tail(st)[i] = st[i + 1]
<1>1. st \in Seq(Bytes) /\ Len(st) >= 2 /\ st # <<>>
  BY DEF Whole
<1>2. /\ Tail(st) \in Seq(Bytes) /\ Len(Tail(st)) = Len(st) - 1
      /\ \A i \in 1..(Len(st) - 1) : Tail(st)[i] = st[i + 1]
  BY <1>1
<1>3. Len(Tail(st)) \in 1..(RxLen - 1) /\ Tail(st)[1] = st[2]
  BY <1>1, <1>2, RxRoom DEF Whole
<1>4. Remain(st[1], st[2]) = Len(st) - 1 /\ st[Len(st)] = TERM
  <2>1. st[1] \in Nat /\ st[2] \in Nat
    <3>1. st[1] \in Bytes /\ st[2] \in Bytes
      BY <1>1
    <3> QED
      BY <3>1, SpiAssumption DEF Bytes
  <2>2. Remain(st[1], st[2]) \in Nat
    BY <2>1 DEF Remain, FRAME
  <2> QED
    BY <1>1, <2>2 DEF Whole
<1>5. Tail(st)[Len(Tail(st))] = TERM
  BY <1>1, <1>2, <1>4
<1> QED
  BY <1>1, <1>2, <1>3, <1>4, <1>5 DEF Rest

\* What ends up in rx[]: the first byte, and k bytes behind it.
LEMMA Filled ==
    ASSUME NEW b \in Bytes, NEW k \in 0..(RxLen - 1), NEW f \in [1..k -> Bytes]
    PROVE  /\ Padded(<<b>> \o f) \in [1..RxLen -> Bytes]
           /\ Padded(<<b>> \o f)[1] = b
           /\ \A i \in 1..k : Padded(<<b>> \o f)[i + 1] = f[i]
<1>1. f \in Seq(Bytes) /\ Len(f) = k
  BY RxRoom
<1>2. /\ <<b>> \o f \in Seq(Bytes) /\ Len(<<b>> \o f) = 1 + k
      /\ (<<b>> \o f)[1] = b /\ \A i \in 1..k : (<<b>> \o f)[i + 1] = f[i]
  BY <1>1, RxRoom
<1> QED
  BY <1>2, RxRoom, ByteValues DEF Padded

\* classify looks at the first byte of an answer and at nothing else.
LEMMA Classified ==
    ASSUME NEW buf \in [1..RxLen -> Bytes], NEW len \in 0..RxLen
    PROVE  /\ len = 0 => classify(buf, len) = "idle"
           /\ len > 0 /\ buf[1] # IDLE => classify(buf, len) = ResponseClass(buf[1])
<1>1. CASE len = 0
  <2>1. spi_first_response(buf, len) = 0
    BY <1>1 DEF spi_first_response
  <2> QED
    BY <1>1, <2>1 DEF classify
<1>2. CASE len > 0 /\ buf[1] # IDLE
  <2> DEFINE P(i) == buf[i] # IDLE /\ \A j \in 1..(i - 1) : buf[j] = IDLE
  <2>1. 1 \in 1..len /\ P(1)
    BY <1>2, RxRoom
  <2>2. \A i \in 1..len : P(i) => i = 1
    BY <1>2, RxRoom
  <2>3. spi_first_response(buf, len) = 1
    <3>1. spi_first_response(buf, len) = CHOOSE i \in 1..len : P(i)
      BY <2>1 DEF spi_first_response
    <3>2. \E i \in 1..len : P(i)
      BY <2>1
    <3> HIDE DEF P
    <3>3. (CHOOSE i \in 1..len : P(i)) \in 1..len /\ P(CHOOSE i \in 1..len : P(i))
      BY <3>2, Zenon
    <3> QED
      BY <2>2, <3>1, <3>3, Zenon
  <2> QED
    BY <1>2, <2>3 DEF classify
<1> QED
  BY <1>1, <1>2, RxRoom

LEMMA Classes ==
    /\ ResponseClass(FRAME) = "ezsp" /\ ResponseClass(130) = "version"
    /\ ResponseClass(193) = "status" /\ ResponseClass(0) = "reset" /\ ResponseClass(2) = "error"
BY DEF ResponseClass, FRAME

(***************************************************************************)
(* Types                                                                   *)
(***************************************************************************)
\* The host: its position, its command and its buffer.
HostOK ==
    /\ hpc \in Resting \cup Waking \cup {"wait", "body", "classify"}
    /\ cmd \in [kind: Kinds, id: 0..MaxCmds] /\ (hpc \notin Resting => cmd.id # 0)
    /\ attempt \in 1..2 /\ waited \in 0..WaitBytes /\ ncmds \in 0..MaxCmds
    /\ rx \in [1..RxLen -> Bytes] /\ n \in 0..RxLen
    /\ cls \in {"none", "idle", "ezsp", "version", "status", "reset", "error", "other"}
    /\ stream \in Seq(Bytes) /\ ran \in Seq(1..MaxCmds) /\ delay \in Nat

\* The lines and the NCP's state.
LinesOK ==
    /\ hasHint \in BOOLEAN /\ nwake \in {0, 1} /\ hint \in {0, 1}
    /\ edges \in Seq({"fall", "rise"}) /\ granted \in BOOLEAN
    /\ ncp \in {"down", "booting", "asleep", "awake", "roused"} /\ pend \in BOOLEAN
    /\ resetPending \in BOOLEAN /\ poisoned \in BOOLEAN /\ torn \in BOOLEAN

LEMMA TypesSuffice == HostOK /\ LinesOK => TypeOK
BY DEF HostOK, LinesOK, TypeOK, Resting, Waking

LEMMA AnyClass ==
    ASSUME NEW buf, NEW len
    PROVE  classify(buf, len) \in {"idle", "ezsp", "version", "status", "reset", "error", "other"}
BY DEF classify, ResponseClass

LEMMA HintStep ==
    ASSUME LinesOK, NEW level \in {0, 1}, HintTo(level)
    PROVE  /\ hint' = level /\ edges' \in Seq({"fall", "rise"})
           /\ edges' = edges \/ edges' = Append(edges, IF level = 0 THEN "fall" ELSE "rise")
           /\ level = 1 \/ hint = 0 => edges' = edges \/ edges' = Append(edges, "rise")
BY DEF LinesOK, HintTo

\* What NcpHears makes of the NCP.
LEMMA HearsLines ==
    ASSUME LinesOK, NcpHears
    PROVE  /\ ncp' \in {"booting", "awake"} /\ pend' \in BOOLEAN /\ hint' \in {0, 1}
           /\ resetPending' \in BOOLEAN /\ poisoned' \in BOOLEAN
           /\ edges' \in Seq({"fall", "rise"})
<1>1. CASE ncp = "booting" /\ UNCHANGED <<ncp, pend, resetPending, poisoned, ran, hint, edges>>
  BY <1>1 DEF LinesOK
<1>2. CASE ncp' = "awake" /\ HintTo(1) /\ resetPending' = FALSE /\ UNCHANGED <<pend, poisoned>>
  BY <1>2, HintStep DEF LinesOK
<1>3. CASE /\ poisoned' = FALSE /\ ncp' = "awake" /\ HintTo(IF pend THEN 0 ELSE 1)
           /\ UNCHANGED <<pend, resetPending>>
  BY <1>3, HintStep DEF LinesOK
<1>4. CASE /\ ncp' = "awake" /\ pend' \in {pend, FALSE} /\ HintTo(IF pend' THEN 0 ELSE 1)
           /\ UNCHANGED <<resetPending, poisoned>>
  BY <1>4, HintStep DEF LinesOK
<1> QED
  BY <1>1, <1>2, <1>3, <1>4 DEF NcpHears

\* gpio_wait_falling ends on a falling edge or on an empty buffer.
LEMMA WaitEdge ==
    ASSUME LinesOK, NEW there, NEW then, gpio_wait_falling(there, then)
    PROVE  /\ edges' \in Seq({"fall", "rise"}) /\ granted' \in BOOLEAN
           /\ hpc = there /\ hpc' \in {there, then}
           /\ \A j \in 1..Len(edges') : j + 1 \in 1..Len(edges) /\ edges'[j] = edges[j + 1]
           /\ \/ granted' = granted
              \/ granted' = TRUE /\ 1 \in 1..Len(edges) /\ edges[1] = "fall"
<1>1. CASE edges # <<>>
  <2>1. /\ edges' = Tail(edges) /\ hpc = there
        /\ IF Head(edges) = "fall" THEN hpc' = then /\ granted' = TRUE
           ELSE UNCHANGED <<hpc, granted>>
    BY <1>1 DEF gpio_wait_falling
  <2>2. edges \in Seq({"fall", "rise"})
    BY DEF LinesOK
  <2>3. /\ edges' \in Seq({"fall", "rise"})
        /\ \A j \in 1..Len(edges') : j + 1 \in 1..Len(edges) /\ edges'[j] = edges[j + 1]
        /\ 1 \in 1..Len(edges) /\ Head(edges) = edges[1]
    BY <1>1, <2>1, <2>2
  <2> QED
    BY <2>1, <2>3 DEF LinesOK
<1>2. CASE edges = <<>>
  <2>1. hpc = there /\ hpc' = then /\ granted' = granted /\ edges' = <<>>
    BY <1>2 DEF gpio_wait_falling
  <2> QED
    BY <2>1 DEF LinesOK
<1> QED
  BY <1>1, <1>2

LEMMA LinesNext == ASSUME LinesOK, [Next]_vars PROVE LinesOK'
<1>1. CASE UNCHANGED vars
  BY <1>1 DEF vars, lines, queues, hist, LinesOK
<1>2. CASE NcpSleeps
  BY <1>2 DEF NcpSleeps, lines, queues, hist, LinesOK
<1>3. CASE NcpAcks
  BY <1>3, HintStep DEF NcpAcks, queues, hist, LinesOK
<1>4. CASE NcpCallback
  BY <1>4, HintStep DEF NcpCallback, queues, hist, LinesOK
<1>5. CASE NcpCrash
  <2>1. torn' \in BOOLEAN
    BY <1>5, Zenon DEF NcpCrash
  <2> QED
    BY <1>5, <2>1, HintStep DEF NcpCrash, LinesOK
<1>6. CASE NcpBoots
  BY <1>6, HintStep DEF NcpBoots, hist, LinesOK
<1>7. CASE NcpReset
  BY <1>7, HintStep DEF NcpReset, hist, LinesOK
<1>8. CASE ResetRelease
  BY <1>8 DEF ResetRelease, gpio_drain_events, queues, hist, LinesOK
<1>9. CASE ResetWait \/ WakeWait
  <2>1. granted' \in BOOLEAN /\ edges' \in Seq({"fall", "rise"})
    BY <1>9, WaitEdge DEF ResetWait, WakeWait
  <2> QED
    BY <1>9, <2>1 DEF ResetWait, WakeWait, Outside, queues, hist, LinesOK
<1>10. CASE WakeLevel
  <2>1. granted' \in BOOLEAN
    BY <1>10, Zenon DEF WakeLevel
  <2> QED
    BY <1>10, <2>1 DEF WakeLevel, Outside, lines, queues, hist, LinesOK
<1>11. CASE WakeDrain
  BY <1>11 DEF WakeDrain, gpio_drain_events, Outside, queues, hist, LinesOK
<1>12. CASE WakeAssert
  BY <1>12 DEF WakeAssert, Outside, queues, hist, LinesOK
<1>13. CASE WakeRelease
  BY <1>13, HintStep DEF WakeRelease, Outside, queues, hist, LinesOK
<1>14. CASE \E kind \in Kinds : Start(kind)
  BY <1>14 DEF Start, lines, queues, hist, LinesOK
<1>15. CASE Transmit
  BY <1>15, HearsLines DEF Transmit, LinesOK
<1>16. CASE WaitState \/ FirstByte \/ Resend \/ Return
  BY <1>16 DEF WaitState, FirstByte, Resend, Return, Wires, lines, queues, hist, LinesOK
<1>17. CASE WaitExpires \/ Body
  <2>1. poisoned' \in BOOLEAN
    BY <1>17, Zenon DEF WaitExpires, Body
  <2> QED
    BY <1>17, <2>1 DEF WaitExpires, Body, Wires, lines, LinesOK
<1> QED
  BY <1>1, <1>2, <1>3, <1>4, <1>5, <1>6, <1>7, <1>8, <1>9, <1>10, <1>11, <1>12, <1>13, <1>14,
     <1>15, <1>16, <1>17 DEF Next, HostStep

\* What a command meets: silence, an answer that did not run it, or one that did.
LEMMA HearsAnswer ==
    ASSUME HostOK, cmd.id # 0, NcpHears
    PROVE  \/ stream' = <<>> /\ ran' = ran
           \/ Whole(stream') /\ stream'[1] \in {0, 2} /\ ran' = ran
           \/ /\ Whole(stream') /\ stream'[1] \in {FRAME, 130, 193} /\ ran' = Append(ran, cmd.id)
              /\ stream'[1] = FRAME => Len(stream') >= 4 /\ stream'[3] = cmd.id
<1>1. CASE stream' = <<>> /\ ran' = ran
  BY <1>1
<1>2. CASE stream' \in {<<0, 2, TERM>>, <<2, 0, TERM>>} /\ ran' = ran
  <2>1. <<0, 2, TERM>>[1] = 0 /\ <<2, 0, TERM>>[1] = 2
    OBVIOUS
  <2> QED
    BY <1>2, <2>1, ShortWhole
<1>3. CASE (\E l \in PayloadLens : stream' = Answer(cmd, l)) /\ ran' = Append(ran, cmd.id)
  <2>1. PICK l \in PayloadLens : stream' = Answer(cmd, l)
    BY <1>3
  <2>2. cmd \in [kind: Kinds, id: 0..MaxCmds]
    BY DEF HostOK
  <2> QED
    BY <1>3, <2>1, <2>2, AnswerWhole
<1> QED
  BY <1>1, <1>2, <1>3 DEF NcpHears

LEMMA HostNext == ASSUME HostOK, [Next]_vars PROVE HostOK'
<1> USE DEF Resting, Waking
<1>1. CASE UNCHANGED <<hpc, txn, cls, ncmds>> /\ (UNCHANGED stream \/ stream' = <<>>)
           /\ (UNCHANGED delay \/ delay' = 0) /\ UNCHANGED ran
  <2>1. stream' \in Seq(Bytes) /\ delay' \in Nat
    <3>1. stream \in Seq(Bytes) /\ delay \in Nat
      BY DEF HostOK
    <3>2. stream' \in Seq(Bytes)
      BY <1>1, <3>1, EmptyStream, Zenon
    <3>3. delay' \in Nat
      BY <1>1, <3>1
    <3> QED
      BY <3>2, <3>3
  <2> QED
    BY <1>1, <2>1 DEF txn, HostOK
<1>2. CASE UNCHANGED vars \/ NcpSleeps \/ NcpAcks \/ NcpCallback \/ NcpCrash \/ NcpBoots
  BY <1>1, <1>2 DEF vars, NcpSleeps, NcpAcks, NcpCallback, NcpCrash, NcpBoots, queues, hist
<1>3. CASE NcpReset
  BY <1>3 DEF NcpReset, txn, hist, HostOK
<1>4. CASE /\ hpc \in Waking \cup {"held", "boot"} /\ UNCHANGED <<txn, cls, stream, delay, ran, ncmds>>
           /\ \/ hpc \in Waking /\ hpc' \in Waking
              \/ hpc \in Resting /\ hpc' \in Resting
  BY <1>4 DEF txn, HostOK
<1>5. CASE ResetRelease \/ WakeLevel \/ WakeDrain \/ WakeAssert \/ WakeRelease
  BY <1>4, <1>5 DEF ResetRelease, WakeLevel, WakeDrain, WakeAssert, WakeRelease,
                    Outside, queues, hist
<1>6. CASE ResetWait \/ WakeWait
  <2>1. \/ hpc = "boot" /\ hpc' \in Resting
        \/ hpc = "ack" /\ hpc' \in Waking
    BY <1>6 DEF ResetWait, WakeWait, gpio_wait_falling
  <2> QED
    BY <1>4, <1>6, <2>1 DEF ResetWait, WakeWait, Outside, queues, hist
<1>7. CASE \E kind \in Kinds : Start(kind)
  BY <1>7, SpiAssumption DEF Start, queues, hist, HostOK
<1>8. CASE Transmit
  <2>1. cmd.id # 0 /\ cmd \in [kind: Kinds, id: 0..MaxCmds] /\ ran \in Seq(1..MaxCmds)
    BY <1>8 DEF Transmit, HostOK
  <2>2. stream' \in Seq(Bytes) /\ (ran' = ran \/ ran' = Append(ran, cmd.id))
    <3>1. \/ stream' = <<>> /\ ran' = ran
          \/ stream' \in Seq(Bytes) /\ (ran' = ran \/ ran' = Append(ran, cmd.id))
      BY <1>8, <2>1, HearsAnswer DEF Transmit, Whole
    <3> QED
      BY <3>1, EmptyStream
  <2>3. ran' \in Seq(1..MaxCmds)
    <3>1. cmd.id \in 1..MaxCmds
      BY <2>1, SpiAssumption
    <3>2. Append(ran, cmd.id) \in Seq(1..MaxCmds)
      BY <2>1, <3>1
    <3> QED
      BY <2>1, <2>2, <3>2, Zenon
  <2>4. rx' \in [1..RxLen -> Bytes] /\ n' = 0 /\ delay' \in Nat
    BY <1>8, SpiAssumption, ByteValues DEF Transmit, EmptyRx, Zeros
  <2> QED
    BY <1>8, <2>2, <2>3, <2>4, RxRoom, SpiAssumption DEF Transmit, HostOK
<1>9. CASE WaitState
  <2>1. delay' \in Nat /\ waited' \in 0..WaitBytes
    BY <1>9, SpiAssumption DEF WaitState, WaitCounted, HostOK
  <2> QED
    BY <1>9, <2>1 DEF WaitState, Wires, hist, HostOK
<1>10. CASE FirstByte
  <2>1. Head(stream) \in Bytes /\ Tail(stream) \in Seq(Bytes)
    BY <1>10 DEF FirstByte, HostOK
  <2>2. rx' \in [1..RxLen -> Bytes]
    <3>1. Len(<<Head(stream)>>) = 1 /\ <<Head(stream)>>[1] = Head(stream)
      OBVIOUS
    <3>2. rx' = [i \in 1..RxLen |-> IF i <= 1 THEN Head(stream) ELSE 0]
      BY <1>10, <3>1, RxRoom DEF FirstByte, Padded
    <3> QED
      BY <2>1, <3>2, ByteValues
  <2> QED
    BY <1>10, <2>1, <2>2, RxRoom DEF FirstByte, Wires, hist, HostOK
<1>11. CASE WaitExpires
  BY <1>11 DEF WaitExpires, txn, Wires, HostOK
<1>12. CASE Body
  <2> DEFINE l == IF stream # <<>> THEN Head(stream) ELSE IDLE
             k == Clamped(Remain(rx[1], l))
             bytes == [i \in 1..k |-> IF i <= Len(stream) THEN stream[i] ELSE IDLE]
  <2>1. rx[1] \in Bytes /\ l \in Bytes
    <3>1. rx[1] \in Bytes /\ stream \in Seq(Bytes)
      BY RxRoom DEF HostOK
    <3>2. stream # <<>> => Head(stream) \in Bytes
      BY <3>1
    <3> QED
      BY <3>1, <3>2, ByteValues
  <2>2. k \in 0..(RxLen - 1)
    <3> HIDE DEF l
    <3>1. rx[1] \in Nat /\ l \in Nat
      BY <2>1, SpiAssumption DEF Bytes
    <3> QED
      BY <3>1, RxRoom DEF Remain, Clamped, FRAME
  <2>3. bytes \in [1..k -> Bytes]
    <3> HIDE DEF k
    <3> QED
      BY <2>2, RxRoom, ByteValues DEF HostOK
  <2>4. rx' = Padded(<<rx[1]>> \o bytes) /\ n' = 1 + k
    BY <1>12, Zenon DEF Body
  <2> HIDE DEF k, bytes
  <2>5. rx' \in [1..RxLen -> Bytes] /\ n' \in 0..RxLen
    BY <2>1, <2>2, <2>3, <2>4, Filled, RxRoom
  <2>6. hpc' = "classify" /\ hpc = "body" /\ stream' = <<>>
        /\ UNCHANGED <<cmd, attempt, waited, cls, delay, ran, ncmds>>
    BY <1>12 DEF Body, Wires
  <2> QED
    BY <2>5, <2>6 DEF HostOK
<1>13. CASE Resend
  BY <1>13 DEF Resend, Retry, Wires, queues, hist, HostOK
<1>14. CASE Return
  <2>1. cls' \in {"idle", "ezsp", "version", "status", "reset", "error", "other"}
    BY <1>14, AnyClass DEF Return
  <2> QED
    BY <1>14, <2>1 DEF Return, Wires, queues, txn, HostOK
<1> QED
  BY <1>2, <1>3, <1>5, <1>6, <1>7, <1>8, <1>9, <1>10, <1>11, <1>12, <1>13, <1>14
     DEF Next, HostStep

(***************************************************************************)
(* The wires                                                               *)
(***************************************************************************)
\* The NCP has a reason to be up, and keeps it until it hears a command.
Reason == ncp = "roused" \/ (ncp = "awake" /\ (pend \/ resetPending))
Stays  == ncp = "booting" \/ Reason

Fell == \E j \in 1..Len(edges) : edges[j] = "fall"

\* nHOST_INT is asserted for a reason only, and a sleeping NCP has none; while
\* nRESET is held the NCP does nothing.
LevelOK ==
    /\ hint = 0 => Reason
    /\ hpc = "held" => ncp = "down"
    /\ ncp = "asleep" => ~pend /\ ~resetPending

\* Behind gpio_drain_events a falling edge means that the NCP stays up.
EdgeOK ==
    /\ hpc \in {"pull", "ack"} /\ Fell => Stays
    /\ hpc = "ack" => ~granted
    /\ hpc \in {"release", "send"} /\ granted => Stays

LEMMA FellStep ==
    ASSUME LinesOK, NEW level \in {0, 1}, HintTo(level)
    PROVE  Fell' => Fell \/ hint' = 0
<1> SUFFICES ASSUME hint' # 0 PROVE Fell' => Fell
  OBVIOUS
<1>1. edges \in Seq({"fall", "rise"})
  BY DEF LinesOK
<1>2. edges' = edges \/ edges' = Append(edges, "rise")
  BY HintStep
<1>3. CASE edges' = edges
  BY <1>3 DEF Fell
<1>4. CASE edges' = Append(edges, "rise")
  <2>1. Len(edges') = Len(edges) + 1 /\ edges'[Len(edges) + 1] = "rise"
        /\ \A j \in 1..Len(edges) : edges'[j] = edges[j]
    BY <1>1, <1>4
  <2> QED
    BY <1>1, <2>1 DEF Fell
<1> QED
  BY <1>2, <1>3, <1>4

LEMMA LevelNext == ASSUME LinesOK, LevelOK, [Next]_vars PROVE LevelOK'
<1> USE DEF LevelOK, Reason
<1>1. CASE UNCHANGED <<hint, ncp, pend, resetPending>> /\ (hpc' = hpc \/ hpc' # "held")
  BY <1>1
<1>2. CASE UNCHANGED vars
  BY <1>1, <1>2 DEF vars, lines, queues
<1>3. CASE NcpSleeps
  BY <1>3 DEF NcpSleeps, lines, queues
<1>4. CASE NcpAcks
  BY <1>4 DEF NcpAcks, HintTo, queues
<1>5. CASE NcpCallback
  BY <1>5 DEF NcpCallback, HintTo, Up, queues, LinesOK
<1>6. CASE NcpCrash
  BY <1>6 DEF NcpCrash, HintTo, Up
<1>7. CASE NcpBoots
  BY <1>7 DEF NcpBoots, HintTo
<1>8. CASE NcpReset
  BY <1>8 DEF NcpReset, HintTo
<1>9. CASE ResetRelease
  BY <1>9 DEF ResetRelease, queues
<1>10. CASE ResetWait \/ WakeLevel \/ WakeDrain \/ WakeAssert \/ WakeWait
  BY <1>1, <1>10 DEF ResetWait, WakeLevel, WakeDrain, WakeAssert, WakeWait, gpio_wait_falling,
                     lines, Outside, queues
<1>11. CASE WakeRelease
  BY <1>11 DEF WakeRelease, HintTo, Outside, queues
<1>12. CASE Transmit
  <2>0. hpc' = "wait"
    BY <1>12 DEF Transmit
  <2>1. CASE ncp = "booting" /\ UNCHANGED <<ncp, pend, resetPending, poisoned, ran, hint, edges>>
    BY <1>1, <2>0, <2>1
  <2>2. CASE ncp' = "awake" /\ HintTo(1)
    BY <2>0, <2>2 DEF HintTo
  <2>3. CASE ncp' = "awake" /\ HintTo(IF pend THEN 0 ELSE 1) /\ UNCHANGED pend
    BY <2>0, <2>3 DEF HintTo
  <2>4. CASE ncp' = "awake" /\ HintTo(IF pend' THEN 0 ELSE 1)
    BY <2>0, <2>4 DEF HintTo
  <2> QED
    BY <1>12, <2>1, <2>2, <2>3, <2>4 DEF Transmit, NcpHears
<1>13. CASE (\E kind \in Kinds : Start(kind)) \/ WaitState \/ FirstByte \/ WaitExpires \/ Body
            \/ Resend \/ Return
  BY <1>1, <1>13 DEF Start, WaitState, FirstByte, WaitExpires, Body, Resend, Return, Wires,
                     lines, queues
<1> QED
  BY <1>2, <1>3, <1>4, <1>5, <1>6, <1>7, <1>8, <1>9, <1>10, <1>11, <1>12, <1>13
     DEF Next, HostStep

LEMMA EdgeNext ==
    ASSUME LinesOK, LevelOK, EdgeOK, [Next]_vars, LinesOK', LevelOK'
    PROVE  EdgeOK'
<1> USE DEF EdgeOK
<1>1. ASSUME Stays => Stays', Fell' => Fell \/ hint' = 0, UNCHANGED <<hpc, granted>>
      PROVE  EdgeOK'
  BY <1>1 DEF LevelOK, Stays
<1>2. CASE UNCHANGED vars
  BY <1>1, <1>2 DEF vars, lines, queues, Fell, Stays, Reason
<1>3. CASE NcpSleeps
  BY <1>3, <1>1 DEF NcpSleeps, lines, queues, Fell, Stays, Reason
<1>4. CASE NcpAcks
  BY <1>4, <1>1, FellStep DEF NcpAcks, queues, Stays, Reason
<1>5. CASE NcpCallback
  BY <1>5, <1>1, FellStep DEF NcpCallback, Up, queues, Stays, Reason
<1>6. CASE NcpCrash
  BY <1>6, <1>1, FellStep DEF NcpCrash, Stays, Reason
<1>7. CASE NcpBoots
  BY <1>7, <1>1, FellStep DEF NcpBoots, Stays, Reason
<1>8. CASE hpc' \notin {"pull", "ack", "release", "send"}
  BY <1>8
<1>9. CASE NcpReset \/ ResetRelease \/ (\E kind \in Kinds : Start(kind)) \/ Transmit
           \/ FirstByte \/ WaitExpires \/ Body \/ Resend \/ Return
  BY <1>8, <1>9 DEF NcpReset, ResetRelease, Start, Transmit, FirstByte, WaitExpires, Body,
                    Resend, Return
<1>10. CASE ResetWait
  BY <1>8, <1>10 DEF ResetWait, gpio_wait_falling
<1>11. CASE WaitState
  BY <1>8, <1>11 DEF WaitState
<1>12. CASE WakeLevel
  BY <1>12 DEF WakeLevel, LevelOK, Stays, Reason, lines, Outside, queues
<1>13. CASE WakeDrain
  <2>1. hpc' = "pull" /\ edges' = <<>>
    BY <1>13 DEF WakeDrain, gpio_drain_events
  <2> QED
    BY <2>1 DEF Fell
<1>14. CASE WakeAssert
  <2>1. UNCHANGED <<edges, ncp, pend, resetPending>> /\ granted' = FALSE
    BY <1>14 DEF WakeAssert, Outside, queues
  <2>2. hpc' = "release" \/ (hpc' = "ack" /\ hpc = "pull")
    BY <1>14 DEF WakeAssert
  <2>3. Fell' = Fell /\ Stays' = Stays
    BY <2>1 DEF Fell, Stays, Reason
  <2> QED
    BY <2>1, <2>2, <2>3
<1>15. CASE WakeWait
  <2>1. Stays' = Stays
    BY <1>15 DEF WakeWait, Outside, queues, Stays, Reason
  <2>2. hpc = "ack" /\ hpc' \in {"ack", "release"} /\ ~granted
    BY <1>15, WaitEdge DEF WakeWait
  <2>3. Fell' => Fell
    BY <1>15, WaitEdge DEF WakeWait, Fell
  <2>4. granted' => Fell
    BY <1>15, <2>2, WaitEdge DEF WakeWait, Fell
  <2>5. hpc' = "ack" => ~granted'
    BY <1>15, <2>2 DEF WakeWait, gpio_wait_falling
  <2> QED
    BY <2>1, <2>2, <2>3, <2>4, <2>5
<1>16. CASE WakeRelease
  <2>1. UNCHANGED <<ncp, pend, resetPending, granted>> /\ hpc = "release" /\ hpc' = "send"
    BY <1>16 DEF WakeRelease, Outside, queues
  <2> QED
    BY <2>1 DEF Stays, Reason
<1> QED
  BY <1>2, <1>3, <1>4, <1>5, <1>6, <1>7, <1>9, <1>10, <1>11, <1>12, <1>13, <1>14, <1>15, <1>16
     DEF Next, HostStep

(***************************************************************************)
(* The transaction                                                         *)
(***************************************************************************)
HasRun  == \E i \in 1..Len(ran) : ran[i] = cmd.id
LastRan == ran # <<>> /\ ran[Len(ran)] = cmd.id

\* The first byte of an answer tells whether the NCP ran the command.
Tells(b) ==
    /\ b \in {FRAME, 130, 193, 0, 2}
    /\ b = 0 => ~HasRun
    /\ b \in {FRAME, 130, 193} => LastRan

\* Commands are numbered as they come, and one that is still to be sent (for the
\* first or for the second time) has not been run.
OrderOK ==
    /\ hpc \notin Resting => cmd.id = ncmds
    /\ \A i \in 1..Len(ran) : ran[i] <= ncmds
    /\ hpc \in Waking => ~HasRun

WaitOK == hpc = "wait" =>
    /\ n = 0 /\ ~torn
    /\ stream # <<>> => /\ Whole(stream) /\ Tells(stream[1])
                        /\ stream[1] = FRAME => Len(stream) >= 4 /\ stream[3] = cmd.id

BodyOK == hpc = "body" =>
    /\ n = 1 /\ Tells(rx[1])
    /\ torn => stream = <<>> /\ (ncp = "booting" \/ resetPending)
    /\ ~torn => Rest(rx[1], stream) /\ (rx[1] = FRAME => stream[2] = cmd.id)

ClassOK == hpc = "classify" /\ n > 0 =>
    /\ Tells(rx[1])
    /\ ~torn => rx[n] = TERM /\ clocked = 0 /\ (rx[1] = FRAME => rx[3] = cmd.id)

IdleOK == hpc \in Resting /\ cls = "ezsp" /\ ~torn => rx[3] = cmd.id /\ LastRan

\* An answer on its way: at the NCP, half fetched, fetched, handed out.
AnswerOK == WaitOK /\ BodyOK /\ ClassOK /\ IdleOK

\* What do_cmd makes of a buffer that holds an answer.
LEMMA ClassTells ==
    ASSUME HostOK, ClassOK, hpc = "classify"
    PROVE  /\ n = 0 => classify(rx, n) = "idle"
           /\ n > 0 => classify(rx, n) = ResponseClass(rx[1])
           /\ classify(rx, n) = "reset" => n > 0 /\ rx[1] = 0 /\ ~HasRun
           /\ classify(rx, n) = "error" => n > 0 /\ rx[1] = 2
           /\ classify(rx, n) = "ezsp" => n > 0 /\ rx[1] = FRAME
           /\ classify(rx, n) \in Kinds => LastRan
<1>1. /\ n \in 0..RxLen /\ rx \in [1..RxLen -> Bytes]
      /\ n > 0 => Tells(rx[1])
  BY DEF HostOK, ClassOK
<1>2. n > 0 => rx[1] # IDLE
  BY <1>1 DEF Tells, IDLE, FRAME
<1>3. /\ n = 0 => classify(rx, n) = "idle"
      /\ n > 0 => classify(rx, n) = ResponseClass(rx[1])
  BY <1>1, <1>2, Classified
<1>4. n = 0 \/ n > 0
  BY <1>1, RxRoom
<1> QED
  BY <1>1, <1>3, <1>4, Classes DEF Tells, Kinds

\* A command that has run is in the list, and the list only grows.
LEMMA RanGrows ==
    ASSUME HostOK, OrderOK, hpc \notin Resting, ran' = Append(ran, cmd.id)
    PROVE  /\ ran' # <<>> /\ ran'[Len(ran')] = cmd.id
           /\ \A i \in 1..Len(ran') : ran'[i] <= ncmds
<1>1. ran \in Seq(1..MaxCmds) /\ cmd.id = ncmds /\ ncmds \in Nat
  BY SpiAssumption DEF HostOK, OrderOK
<1>2. /\ Len(ran') = Len(ran) + 1 /\ ran'[Len(ran) + 1] = cmd.id /\ ran' # <<>>
      /\ \A i \in 1..Len(ran) : ran'[i] = ran[i]
  BY <1>1
<1> QED
  BY <1>1, <1>2 DEF OrderOK

LEMMA LastHasRun == ASSUME HostOK, LastRan PROVE HasRun
<1>1. ran \in Seq(1..MaxCmds)
  BY DEF HostOK
<1> QED
  BY <1>1 DEF LastRan, HasRun

LEMMA OrderNext == ASSUME HostOK, OrderOK, AnswerOK, [Next]_vars PROVE OrderOK'
<1> USE DEF Resting, Waking
<1>1. CASE /\ UNCHANGED <<cmd, ran, ncmds>>
           /\ hpc' \in Resting \/ hpc \notin Resting
           /\ hpc' \in Waking => hpc \in Waking
  BY <1>1 DEF OrderOK, HasRun
<1>2. CASE UNCHANGED vars \/ NcpSleeps \/ NcpAcks \/ NcpCallback \/ NcpCrash \/ NcpBoots
  BY <1>1, <1>2 DEF vars, NcpSleeps, NcpAcks, NcpCallback, NcpCrash, NcpBoots, txn, hist
<1>3. CASE NcpReset \/ ResetRelease \/ WakeLevel \/ WakeDrain \/ WakeAssert \/ WakeRelease
  BY <1>1, <1>3 DEF NcpReset, ResetRelease, WakeLevel, WakeDrain, WakeAssert, WakeRelease,
                    Outside, txn, hist
<1>4. CASE ResetWait \/ WakeWait
  BY <1>1, <1>4 DEF ResetWait, WakeWait, gpio_wait_falling, Outside, txn, hist
<1>5. CASE WaitState \/ FirstByte \/ WaitExpires \/ Body \/ Return
  BY <1>1, <1>5 DEF WaitState, FirstByte, WaitExpires, Body, Return, Wires, txn, hist
<1>6. CASE \E kind \in Kinds : Start(kind)
  <2>1. cmd'.id = ncmds + 1 /\ ncmds' = ncmds + 1 /\ hpc' = "wake" /\ ran' = ran
    BY <1>6 DEF Start, hist
  <2>2. ran \in Seq(1..MaxCmds) /\ ncmds \in Nat
    BY SpiAssumption DEF HostOK
  <2>3. \A i \in 1..Len(ran) : ran[i] \in Nat /\ ran[i] <= ncmds
    <3>1. \A i \in 1..Len(ran) : ran[i] \in 1..MaxCmds
      BY <2>2, ElementOfSeq
    <3> QED
      BY <3>1, SpiAssumption DEF OrderOK
  <2> QED
    BY <2>1, <2>2, <2>3 DEF OrderOK, HasRun
<1>7. CASE Transmit
  <2>1. hpc' = "wait" /\ hpc = "send" /\ UNCHANGED <<cmd, ncmds>> /\ cmd.id # 0
    BY <1>7 DEF Transmit, HostOK
  <2>2. ran' = ran \/ ran' = Append(ran, cmd.id)
    BY <1>7, <2>1, HearsAnswer DEF Transmit
  <2>3. \A i \in 1..Len(ran') : ran'[i] <= ncmds
    BY <2>1, <2>2, RanGrows DEF OrderOK
  <2> QED
    BY <2>1, <2>3 DEF OrderOK
<1>8. CASE Resend
  <2>1. hpc = "classify" /\ hpc' = "wake" /\ UNCHANGED <<cmd, ncmds, ran>>
        /\ classify(rx, n) = "reset"
    BY <1>8 DEF Resend, Retry, Wires, hist
  <2>2. ~HasRun
    BY <2>1, ClassTells DEF AnswerOK
  <2> QED
    BY <2>1, <2>2 DEF OrderOK, HasRun
<1> QED
  BY <1>2, <1>3, <1>4, <1>5, <1>6, <1>7, <1>8 DEF Next, HostStep

\* Bytes that complete an answer, as Body fetches them.
LEMMA Fetched ==
    ASSUME NEW b \in Bytes, NEW st, Rest(b, st)
    PROVE  /\ st # <<>> /\ Head(st) = st[1] /\ Clamped(Remain(b, st[1])) = Len(st)
           /\ b = FRAME => Len(st) >= 2
<1>1. st \in Seq(Bytes) /\ Len(st) \in 1..(RxLen - 1) /\ Len(st) = Remain(b, st[1])
  BY DEF Rest
<1>2. st # <<>> /\ Head(st) = st[1] /\ st[1] \in Bytes
  BY <1>1, RxRoom
<1>3. st[1] \in Nat
  BY <1>2, ByteNat
<1>4. Clamped(Remain(b, st[1])) = Len(st)
  BY <1>1, RxRoom DEF Clamped
<1>5. b = FRAME => Len(st) >= 2
  BY <1>1, <1>3 DEF Remain
<1> QED
  BY <1>2, <1>4, <1>5

\* Body on a complete answer: all of it, and nothing behind it.
LEMMA BodyWhole ==
    ASSUME HostOK, BodyOK, Body, ~torn
    PROVE  /\ rx'[1] = rx[1] /\ n' > 0 /\ rx'[n'] = TERM /\ clocked' = 0 /\ ~poisoned'
           /\ rx[1] = FRAME => rx'[3] = cmd.id
<1> DEFINE l == IF stream # <<>> THEN Head(stream) ELSE IDLE
           k == Clamped(Remain(rx[1], l))
           bytes == [i \in 1..k |-> IF i <= Len(stream) THEN stream[i] ELSE IDLE]
<1>1. rx[1] \in Bytes /\ Rest(rx[1], stream) /\ (rx[1] = FRAME => stream[2] = cmd.id)
  BY RxRoom DEF HostOK, BodyOK, Body
<1>2. stream \in Seq(Bytes) /\ Len(stream) \in 1..(RxLen - 1) /\ stream[Len(stream)] = TERM
  BY <1>1 DEF Rest
<1>3. k = Len(stream) /\ (rx[1] = FRAME => Len(stream) >= 2)
  BY <1>1, Fetched
<1>4. /\ rx' = Padded(<<rx[1]>> \o bytes) /\ n' = 1 + k
      /\ poisoned' = (k # Len(stream) /\ Up /\ ~resetPending)
      /\ clocked' = IF k > Len(stream) THEN k - Len(stream) ELSE 0
  BY Zenon DEF Body
<1> HIDE DEF k
<1>5. bytes \in [1..k -> Bytes] /\ k \in 0..(RxLen - 1) /\ \A i \in 1..k : bytes[i] = stream[i]
  BY <1>2, <1>3, RxRoom
<1> HIDE DEF bytes
<1>6. rx'[1] = rx[1] /\ \A i \in 1..k : rx'[i + 1] = stream[i]
  BY <1>1, <1>4, <1>5, Filled
<1>7. ~poisoned'
  BY <1>3, <1>4, Zenon
<1>8. clocked' = 0
  BY <1>2, <1>3, <1>4
<1>9. rx'[n'] = TERM /\ n' > 0
  BY <1>2, <1>3, <1>4, <1>6
<1>10. rx[1] = FRAME => rx'[3] = cmd.id
  BY <1>1, <1>2, <1>3, <1>6
<1> QED
  BY <1>6, <1>7, <1>8, <1>9, <1>10

\* Body after a reset in the middle of the answer: the NCP owes nothing.
LEMMA BodyTorn ==
    ASSUME HostOK, BodyOK, Body, torn
    PROVE  rx'[1] = rx[1] /\ n' > 0 /\ ~poisoned'
<1> DEFINE k == Clamped(Remain(rx[1], IDLE))
           bytes == [i \in 1..k |-> IF i <= Len(stream) THEN stream[i] ELSE IDLE]
<1>1. stream = <<>> /\ (ncp = "booting" \/ resetPending) /\ rx[1] \in Bytes /\ stream \in Seq(Bytes)
  BY RxRoom DEF HostOK, BodyOK, Body
<1>2. k \in 0..(RxLen - 1)
  <2>1. rx[1] \in Nat
    BY <1>1, ByteNat
  <2> QED
    BY <2>1, RxRoom DEF Remain, Clamped, FRAME, IDLE
<1>3. /\ rx' = Padded(<<rx[1]>> \o bytes) /\ n' = 1 + k
      /\ poisoned' = (k # Len(stream) /\ Up /\ ~resetPending)
  BY <1>1, Zenon DEF Body
<1> HIDE DEF k
<1>4. bytes \in [1..k -> Bytes]
  BY <1>1, <1>2, RxRoom, ByteValues
<1> HIDE DEF bytes
<1>5. rx'[1] = rx[1]
  BY <1>1, <1>2, <1>3, <1>4, Filled
<1>6. ~poisoned'
  BY <1>1, <1>3 DEF Up
<1> QED
  BY <1>2, <1>3, <1>5, <1>6, RxRoom

LEMMA AnswerNext == ASSUME HostOK, OrderOK, AnswerOK, [Next]_vars PROVE AnswerOK'
<1> USE DEF Resting, Waking
<1>0. WaitOK /\ BodyOK /\ ClassOK /\ IdleOK
  BY DEF AnswerOK
<1> DEFINE Same == UNCHANGED <<hpc, cmd, rx, n, cls, ran, clocked>>
<1>1. CASE /\ Same /\ UNCHANGED <<stream, torn>>
           /\ ncp = "booting" \/ resetPending => (ncp = "booting" \/ resetPending)'
  BY <1>0, <1>1 DEF AnswerOK, WaitOK, BodyOK, ClassOK, IdleOK, Tells, HasRun, LastRan
<1>2. CASE UNCHANGED vars \/ NcpSleeps \/ NcpAcks \/ NcpCallback
  BY <1>1, <1>2 DEF vars, NcpSleeps, NcpAcks, NcpCallback, Up, txn, queues, hist
<1>3. CASE NcpBoots
  BY <1>1, <1>3 DEF NcpBoots, txn, hist
<1>4. CASE NcpCrash
  <2>1. Same /\ stream' = <<>> /\ ncp' = "booting" /\ torn' = (torn \/ hpc = "body")
    BY <1>4 DEF NcpCrash, txn
  <2>2. (hpc = "body" => torn') /\ (hpc # "body" => (torn' <=> torn))
    BY <2>1
  <2> QED
    BY <1>0, <2>1, <2>2 DEF AnswerOK, WaitOK, BodyOK, ClassOK, IdleOK, Tells, HasRun, LastRan
<1>5. CASE /\ UNCHANGED <<cmd, rx, cls, ran, torn>>
           /\ hpc \in Resting /\ hpc' \in Resting
  BY <1>0, <1>5 DEF AnswerOK, WaitOK, BodyOK, ClassOK, IdleOK, LastRan
<1>6. CASE NcpReset \/ ResetRelease \/ ResetWait
  BY <1>5, <1>6 DEF NcpReset, ResetRelease, ResetWait, gpio_wait_falling, txn, hist
<1>7. CASE hpc' \in Waking
  BY <1>7 DEF AnswerOK, WaitOK, BodyOK, ClassOK, IdleOK
<1>8. CASE WakeLevel \/ WakeDrain \/ WakeAssert \/ WakeWait \/ WakeRelease
           \/ (\E kind \in Kinds : Start(kind)) \/ Resend
  BY <1>7, <1>8 DEF WakeLevel, WakeDrain, WakeAssert, WakeWait, gpio_wait_falling, WakeRelease,
                    Start, Resend
<1>9. CASE Transmit
  <2>1. /\ hpc = "send" /\ hpc' = "wait" /\ n' = 0 /\ torn' = FALSE /\ cmd' = cmd /\ NcpHears
    BY <1>9 DEF Transmit, EmptyRx
  <2>2. cmd.id # 0 /\ ~HasRun
    BY <2>1 DEF HostOK, OrderOK
  <2>3. CASE stream' = <<>>
    BY <2>1, <2>3 DEF AnswerOK, WaitOK, BodyOK, ClassOK, IdleOK
  <2>4. CASE Whole(stream') /\ stream'[1] \in {0, 2} /\ ran' = ran
    <3>1. Tells(stream[1])' /\ Whole(stream)' /\ stream'[1] # FRAME
      BY <2>1, <2>2, <2>4 DEF Tells, HasRun, FRAME, Whole
    <3> QED
      BY <2>1, <3>1 DEF AnswerOK, WaitOK, BodyOK, ClassOK, IdleOK
  <2>5. CASE /\ Whole(stream') /\ stream'[1] \in {FRAME, 130, 193} /\ ran' = Append(ran, cmd.id)
             /\ stream'[1] = FRAME => Len(stream') >= 4 /\ stream'[3] = cmd.id
    <3>1. LastRan'
      BY <2>1, <2>5, RanGrows DEF LastRan
    <3>2. Tells(stream[1])' /\ Whole(stream)'
      BY <2>5, <3>1 DEF Tells, FRAME, Whole
    <3> QED
      BY <2>1, <2>5, <3>2 DEF AnswerOK, WaitOK, BodyOK, ClassOK, IdleOK
  <2> QED
    BY <2>1, <2>2, <2>3, <2>4, <2>5, HearsAnswer
<1>10. CASE WaitState
  BY <1>1, <1>10 DEF WaitState, Wires, hist
<1>11. CASE FirstByte
  <2>1. /\ hpc = "wait" /\ hpc' = "body" /\ stream # <<>> /\ stream' = Tail(stream) /\ n' = 1
        /\ rx' = Padded(<<Head(stream)>>) /\ UNCHANGED <<cmd, ran, torn>>
    BY <1>11 DEF FirstByte, hist
  <2>2. /\ Whole(stream) /\ Tells(stream[1]) /\ ~torn
        /\ stream[1] = FRAME => Len(stream) >= 4 /\ stream[3] = cmd.id
    BY <1>0, <2>1 DEF WaitOK
  <2>3. Head(stream) = stream[1] /\ Rest(stream[1], stream')
        /\ (stream[1] = FRAME => stream'[2] = cmd.id)
    <3>1. stream \in Seq(Bytes)
      BY <2>2 DEF Whole
    <3> QED
      BY <2>1, <2>2, <3>1, WholeSplits
  <2>4. rx'[1] = stream[1]
    <3>1. Len(<<Head(stream)>>) = 1 /\ <<Head(stream)>>[1] = Head(stream)
      OBVIOUS
    <3> QED
      BY <2>1, <2>3, <3>1, RxRoom DEF Padded
  <2>5. Tells(rx[1])' /\ Rest(rx[1], stream)' /\ ~torn'
    BY <2>1, <2>2, <2>3, <2>4 DEF Tells, HasRun, LastRan, Rest
  <2> QED
    BY <2>1, <2>3, <2>4, <2>5 DEF AnswerOK, WaitOK, BodyOK, ClassOK, IdleOK
<1>12. CASE WaitExpires
  <2>1. hpc' = "classify" /\ n' = 0
    BY <1>0, <1>12 DEF WaitExpires, txn, WaitOK
  <2> QED
    BY <2>1 DEF AnswerOK, WaitOK, BodyOK, ClassOK, IdleOK
<1>13. CASE Body
  <2>1. hpc = "body" /\ hpc' = "classify" /\ UNCHANGED <<cmd, ran, torn>>
    BY <1>13 DEF Body
  <2>2. rx'[1] = rx[1]
    BY <1>0, <1>13, BodyWhole, BodyTorn
  <2>3. Tells(rx[1])'
    BY <1>0, <2>1, <2>2 DEF BodyOK, Tells, HasRun, LastRan
  <2>4. ~torn' => rx'[n'] = TERM /\ clocked' = 0 /\ (rx'[1] = FRAME => rx'[3] = cmd'.id)
    BY <1>0, <1>13, <2>1, <2>2, BodyWhole
  <2> QED
    BY <2>1, <2>3, <2>4 DEF AnswerOK, WaitOK, BodyOK, ClassOK, IdleOK
<1>14. CASE Return
  <2>1. /\ hpc = "classify" /\ hpc' = "idle" /\ cls' = classify(rx, n)
        /\ UNCHANGED <<cmd, rx, n, ran, torn>>
    BY <1>14 DEF Return, txn
  <2>2. cls' = "ezsp" => n > 0 /\ rx[1] = FRAME /\ LastRan
    BY <1>0, <2>1, ClassTells DEF Kinds
  <2> QED
    BY <1>0, <2>1, <2>2 DEF AnswerOK, WaitOK, BodyOK, ClassOK, IdleOK, LastRan
<1> QED
  BY <1>2, <1>3, <1>4, <1>6, <1>8, <1>9, <1>10, <1>11, <1>12, <1>13, <1>14 DEF Next, HostStep

(***************************************************************************)
(* The account of aborted transactions                                     *)
(***************************************************************************)
\* An 0x02 is on its way to do_cmd.
Owed ==
    \/ hpc = "wait" /\ stream # <<>> /\ stream[1] = 2
    \/ hpc \in {"body", "classify"} /\ n > 0 /\ rx[1] = 2

\* Each 0x02 handed out, on its way or still to come has its own transaction that
\* was cut short or that nobody heard.
LateOK ==
    /\ late \in Nat /\ aborted \in Nat /\ aborted <= late
    /\ poisoned \/ Owed => aborted < late
    /\ ~(poisoned /\ Owed)

LEMMA LateNext ==
    ASSUME HostOK, LinesOK, AnswerOK, LateOK, [Next]_vars
    PROVE  LateOK'
<1> USE DEF Resting, Waking
<1>0. WaitOK /\ BodyOK /\ ClassOK
  BY DEF AnswerOK
<1>1. CASE UNCHANGED <<late, aborted>> /\ (poisoned' => poisoned) /\ (Owed' => Owed)
  BY <1>1 DEF LateOK
<1>2. CASE UNCHANGED vars \/ NcpSleeps \/ NcpAcks \/ NcpCallback \/ NcpBoots \/ WaitState
  <2>1. UNCHANGED <<hpc, stream, n, rx, late, aborted, poisoned>>
    BY <1>2 DEF vars, NcpSleeps, NcpAcks, NcpCallback, NcpBoots, WaitState, queues, hist, txn, Wires
  <2> QED
    BY <1>1, <2>1 DEF Owed
<1>3. CASE NcpCrash
  <2>1. UNCHANGED <<hpc, n, rx, late, aborted>> /\ stream' = <<>> /\ poisoned' = FALSE
    BY <1>3 DEF NcpCrash, txn
  <2> QED
    BY <1>1, <2>1 DEF Owed
<1>4. CASE hpc' \notin {"wait", "body", "classify"} /\ (UNCHANGED poisoned \/ poisoned' = FALSE)
           /\ UNCHANGED <<late, aborted>>
  BY <1>1, <1>4 DEF Owed
<1>5. CASE NcpReset \/ ResetRelease \/ WakeLevel \/ WakeDrain \/ WakeAssert \/ WakeRelease
           \/ (\E kind \in Kinds : Start(kind)) \/ Resend
  BY <1>4, <1>5 DEF NcpReset, ResetRelease, WakeLevel, WakeDrain, WakeAssert, WakeRelease, Start,
                    Resend, Outside, queues, hist
<1>6. CASE ResetWait \/ WakeWait
  BY <1>4, <1>6 DEF ResetWait, WakeWait, gpio_wait_falling, Outside, queues, hist
<1>7. CASE Transmit
  <2>1. hpc = "send" /\ hpc' = "wait" /\ aborted' = aborted /\ NcpHears /\ cmd.id # 0
    BY <1>7 DEF Transmit, HostOK
  <2>2. CASE stream' = <<>> /\ late' = late + 1 /\ UNCHANGED poisoned
    BY <2>1, <2>2 DEF LateOK, Owed
  <2>3. CASE stream' = <<0, 2, TERM>> /\ UNCHANGED <<poisoned, late>>
    BY <2>1, <2>3, <1>1 DEF Owed
  <2>4. CASE /\ ncp = "asleep" \/ poisoned
             /\ poisoned' = FALSE /\ late' = IF ncp = "asleep" /\ ~poisoned THEN late + 1 ELSE late
    BY <2>1, <2>4 DEF LateOK
  <2>5. CASE /\ \E l \in PayloadLens : stream' = Answer(cmd, l)
             /\ UNCHANGED <<poisoned, late>>
    <3>1. stream'[1] \in {FRAME, 130, 193}
      BY <2>1, <2>5, AnswerWhole DEF HostOK
    <3> QED
      BY <2>1, <2>5, <3>1, <1>1 DEF Owed, FRAME
  <2> QED
    BY <2>1, <2>2, <2>3, <2>4, <2>5 DEF NcpHears
<1>8. CASE FirstByte
  <2>1. /\ hpc = "wait" /\ hpc' = "body" /\ stream # <<>> /\ n' = 1
        /\ rx' = Padded(<<Head(stream)>>) /\ UNCHANGED <<poisoned, late, aborted>>
    BY <1>8 DEF FirstByte, hist
  <2>2. rx'[1] = stream[1]
    <3>1. Len(<<Head(stream)>>) = 1 /\ <<Head(stream)>>[1] = Head(stream)
      OBVIOUS
    <3>2. Head(stream) = stream[1]
      BY <1>0, <2>1, WholeSplits DEF WaitOK
    <3> QED
      BY <2>1, <3>1, <3>2, RxRoom DEF Padded
  <2> QED
    BY <1>1, <2>1, <2>2 DEF Owed
<1>9. CASE WaitExpires
  <2>1. /\ hpc' = "classify" /\ n' = 0 /\ aborted' = aborted
        /\ late' = IF stream # <<>> THEN late + 1 ELSE late
    BY <1>0, <1>9 DEF WaitExpires, WaitOK, txn
  <2>2. poisoned' => poisoned \/ stream # <<>>
    BY <1>9, Zenon DEF WaitExpires
  <2>3. ~Owed'
    BY <2>1 DEF Owed
  <2> QED
    BY <2>1, <2>2, <2>3 DEF LateOK
<1>10. CASE Body
  <2>1. rx'[1] = rx[1] /\ n' > 0 /\ ~poisoned'
    BY <1>0, <1>10, BodyWhole, BodyTorn
  <2>2. hpc = "body" /\ hpc' = "classify" /\ n = 1 /\ UNCHANGED <<late, aborted>>
    BY <1>0, <1>10 DEF Body, BodyOK
  <2>3. Owed' => Owed
    BY <2>1, <2>2 DEF Owed
  <2> QED
    BY <1>1, <2>1, <2>2, <2>3
<1>11. CASE Return
  <2>1. /\ hpc = "classify" /\ hpc' = "idle" /\ cls' = classify(rx, n)
        /\ aborted' = IF cls' = "error" THEN aborted + 1 ELSE aborted
        /\ UNCHANGED <<late, poisoned>>
    BY <1>11 DEF Return, queues
  <2>2. cls' = "error" => Owed
    BY <1>0, <2>1, ClassTells DEF Owed
  <2>3. ~Owed'
    BY <2>1 DEF Owed
  <2> QED
    BY <2>1, <2>2, <2>3 DEF LateOK
<1> QED
  BY <1>2, <1>3, <1>5, <1>6, <1>7, <1>8, <1>9, <1>10, <1>11 DEF Next, HostStep

(***************************************************************************)
(* The theorems                                                            *)
(***************************************************************************)
IInv == HostOK /\ LinesOK /\ LevelOK /\ EdgeOK /\ OrderOK /\ AnswerOK /\ LateOK

LEMMA InitInv == Init => IInv
<1> SUFFICES ASSUME Init PROVE IInv
  OBVIOUS
<1>1. HostOK
  <2>1. rx \in [1..RxLen -> Bytes] /\ stream \in Seq(Bytes) /\ ran \in Seq(1..MaxCmds)
    BY EmptyStream, ByteValues DEF Init, Zeros
  <2>2. n \in 0..RxLen /\ waited \in 0..WaitBytes /\ ncmds \in 0..MaxCmds /\ delay \in Nat
    BY SpiAssumption, RxRoom DEF Init
  <2>3. cmd \in [kind: Kinds, id: 0..MaxCmds]
    BY SpiAssumption DEF Init, Kinds
  <2>4. /\ attempt \in 1..2 /\ hpc \in Resting
        /\ cls \in {"none", "idle", "ezsp", "version", "status", "reset", "error", "other"}
    BY DEF Init, Resting
  <2> QED
    BY <2>1, <2>2, <2>3, <2>4 DEF HostOK
<1>2. LinesOK
  <2>1. edges \in Seq({"fall", "rise"})
    BY DEF Init
  <2> QED
    BY <2>1 DEF Init, LinesOK
<1>3. LevelOK /\ EdgeOK /\ LateOK
  BY DEF Init, LevelOK, Reason, EdgeOK, LateOK, Owed
<1>4. OrderOK /\ AnswerOK
  BY DEF Init, OrderOK, AnswerOK, WaitOK, BodyOK, ClassOK, IdleOK, Resting, Waking
<1> QED
  BY <1>1, <1>2, <1>3, <1>4 DEF IInv

LEMMA NextInv == IInv /\ [Next]_vars => IInv'
BY HostNext, LinesNext, LevelNext, EdgeNext, OrderNext, AnswerNext, LateNext DEF IInv

LEMMA Inductive == Spec => []IInv
BY InitInv, NextInv, PTL DEF Spec

\* Types; do_cmd tries at most twice, waits for at most wait_bytes and stays
\* within rx[].
THEOREM TypeCorrect == Spec => []TypeOK
BY Inductive, TypesSuffice, PTL DEF IInv

\* board.c:177: a transaction started with the leave of nHOST_INT never finds the
\* NCP asleep, whichever edge or level gave it.
THEOREM WakeSafe == Spec => []AwakeWhenGranted
<1>1. IInv => AwakeWhenGranted
  BY DEF IInv, EdgeOK, Stays, Reason, AwakeWhenGranted
<1> QED
  BY <1>1, Inductive, PTL

\* spi.c:47: every transaction the NCP survives ends exactly on the terminator.
THEOREM Terminated == Spec => []EndsOnTerminator
<1>1. IInv => EndsOnTerminator
  BY DEF IInv, AnswerOK, ClassOK, EndsOnTerminator, Answered
<1> QED
  BY <1>1, Inductive, PTL

\* A frame do_cmd hands out answers the caller's command, which was the last one
\* the NCP ran.
THEOREM Mine == Spec => []ReplyIsMine
<1>1. IInv => ReplyIsMine
  BY DEF IInv, AnswerOK, IdleOK, LastRan, ReplyIsMine, Resting
<1> QED
  BY <1>1, Inductive, PTL

\* Error 0x02 never outnumbers the transactions that were given up or not heard.
THEOREM OneEach == Spec => []AbortCostsOne
<1>1. IInv => AbortCostsOne
  BY DEF IInv, LateOK, AbortCostsOne
<1> QED
  BY <1>1, Inductive, PTL

(***************************************************************************)
(* The command service                                                     *)
(***************************************************************************)
\* Every step of do_cmd is a step of the service its callers see, or none.
LEMMA ServiceStep == IInv /\ IInv' /\ [Next]_vars => [Service!Next]_Service!svcvars
<1> SUFFICES ASSUME IInv, IInv', [Next]_vars PROVE [Service!Next]_Service!svcvars
  OBVIOUS
<1> USE DEF Resting, Waking
<1> DEFINE now == IF hpc \in {"idle", "held", "boot"} THEN 0 ELSE cmd.id
<1>0. HostOK /\ OrderOK /\ ClassOK
  BY DEF IInv, AnswerOK
<1>1. CASE UNCHANGED <<ran, answered, cmd>> /\ (hpc \in Resting <=> hpc' \in Resting)
  BY <1>1 DEF Service!svcvars
<1>2. CASE UNCHANGED vars \/ NcpSleeps \/ NcpAcks \/ NcpCallback \/ NcpCrash \/ NcpBoots
  BY <1>1, <1>2 DEF vars, NcpSleeps, NcpAcks, NcpCallback, NcpCrash, NcpBoots, txn, hist
<1>3. CASE NcpReset \/ ResetRelease \/ WakeLevel \/ WakeDrain \/ WakeAssert \/ WakeRelease
  BY <1>1, <1>3 DEF NcpReset, ResetRelease, WakeLevel, WakeDrain, WakeAssert, WakeRelease,
                    Outside, txn, hist
<1>4. CASE ResetWait \/ WakeWait
  BY <1>1, <1>4 DEF ResetWait, WakeWait, gpio_wait_falling, Outside, txn, hist
<1>5. CASE WaitState \/ FirstByte \/ WaitExpires \/ Body \/ Resend
  BY <1>1, <1>5 DEF WaitState, FirstByte, WaitExpires, Body, Resend, Wires, txn, hist
<1>6. CASE \E kind \in Kinds : Start(kind)
  <2>1. /\ hpc = "idle" /\ hpc' = "wake" /\ cmd'.id = ncmds + 1 /\ UNCHANGED <<ran, answered>>
        /\ ncmds < MaxCmds /\ ncmds' = ncmds + 1
    BY <1>6 DEF Start, hist
  <2>2. cmd'.id \in 1..MaxCmds
    BY <1>0, <2>1, SpiAssumption DEF HostOK
  <2>3. ~Service!Ran(cmd'.id)
    <3>1. ~HasRun'
      BY <2>1 DEF IInv, OrderOK
    <3> QED
      BY <2>1, <3>1 DEF HasRun, Service!Ran
  <2>4. Service!Issue(cmd'.id)
    BY <2>1, <2>3 DEF Service!Issue
  <2> QED
    BY <2>2, <2>4 DEF Service!Next
<1>7. CASE Transmit
  <2>1. /\ hpc = "send" /\ hpc' = "wait" /\ UNCHANGED <<cmd, answered>> /\ cmd.id # 0
        /\ NcpHears /\ ~HasRun
    BY <1>0, <1>7 DEF Transmit, HostOK, OrderOK
  <2>2. CASE ran' = ran
    BY <1>1, <2>1, <2>2
  <2>3. CASE ran' = Append(ran, cmd.id)
    <3>1. Service!Execute
      BY <2>1, <2>3 DEF Service!Execute, Service!Ran, HasRun
    <3> QED
      BY <3>1 DEF Service!Next
  <2> QED
    BY <1>0, <2>1, <2>2, <2>3, HearsAnswer
<1>8. CASE Return
  <2>1. /\ hpc = "classify" /\ hpc' = "idle" /\ cls' = classify(rx, n)
        /\ answered' = IF cls' = cmd.kind THEN answered \cup {cmd.id} ELSE answered
        /\ UNCHANGED <<ran, cmd>> /\ cmd.id # 0 /\ cmd.kind \in Kinds
    BY <1>0, <1>8 DEF Return, txn, HostOK
  <2>2. CASE cls' = cmd.kind
    <3>1. HasRun
      BY <1>0, <2>1, <2>2, ClassTells, LastHasRun
    <3>2. Service!Answer
      BY <2>1, <2>2, <3>1 DEF Service!Answer, Service!Ran, HasRun
    <3> QED
      BY <3>2 DEF Service!Next
  <2>3. CASE cls' # cmd.kind
    <3>1. Service!Fail
      BY <2>1, <2>3 DEF Service!Fail
    <3> QED
      BY <3>1 DEF Service!Next
  <2> QED
    BY <2>2, <2>3
<1> QED
  BY <1>2, <1>3, <1>4, <1>5, <1>6, <1>7, <1>8 DEF Next, HostStep

\* The safety part of ImplementsCommandService: whatever resets, timeouts and
\* retries do, a command is executed at most once and only while its caller
\* waits, and an answer is handed out only for a command that was executed.
THEOREM ServesCommands == Spec => Service!Spec
<1>1. Init => Service!Init
  BY DEF Init, Service!Init
<1> QED
  BY <1>1, Inductive, ServiceStep, PTL DEF Spec, Service!Spec
=============================================================================
