----------------------------- MODULE AshFraming -----------------------------
(***************************************************************************)
(* The byte layer of the ASH link of bridge.c: ash_send stuffs a frame and *)
(* its CRC into bytes, bridge_feed turns a byte stream back into frames.   *)
(*                                                                         *)
(* A sender that encodes exactly as ash_send does (the bridge towards its  *)
(* client; the client's own encoder is the mirror image) puts frames on a  *)
(* wire, interleaved with stray bytes; the receiver takes the wire byte by *)
(* byte.  Bytes are the numbers 0..255, and the CRC is the real one.       *)
(***************************************************************************)
EXTENDS Integers, Sequences

CONSTANTS
    Frames,      \* bodies a sender may send (control byte first, unmasked)
    Noise,       \* stray bytes that may be put on the wire
    RxSize,      \* capacity of rx[] (ASH_MAX_FRAME * 2)
    MaxSend,     \* bound on the number of frames
    MaxNoise     \* bound on the number of stray bytes

ASSUME FramingAssumption ==
    /\ RxSize \in Nat /\ MaxSend \in Nat /\ MaxNoise \in Nat
    /\ Noise \subseteq 0..255
    \* what ash_send lets pass (ASH_MAX_FRAME), and rx[] holds with its CRC
    /\ \A f \in Frames : f \in Seq(0..255) /\ Len(f) \in 1..140 /\ Len(f) + 2 <= RxSize

FLAG == 126     \* 0x7E
ESC == 125      \* 0x7D
XON == 17       \* 0x11
XOFF == 19      \* 0x13
SUB == 24       \* 0x18
CANCEL == 26    \* 0x1A
Reserved == {FLAG, ESC, XON, XOFF, SUB, CANCEL}

(***************************************************************************)
(* Pure functions                                                          *)
(***************************************************************************)
\* a ^ b, bit by bit, for bytes and for 16 bits.
Xor(a, b) ==
    LET d(k) == ((a \div k) + (b \div k)) % 2
    IN  d(1) + 2 * d(2) + 4 * d(4) + 8 * d(8) + 16 * d(16) + 32 * d(32) + 64 * d(64) + 128 * d(128)
Xor16(a, b) == 256 * Xor(a \div 256, b \div 256) + Xor(a % 256, b % 256)

\* CRC-16/CCITT-FALSE.
CrcBit(c) == IF c >= 32768 THEN Xor16((c * 2) % 65536, 4129) ELSE c * 2
TwoBits(c) == CrcBit(CrcBit(c))
CrcByte(c, byte) == TwoBits(TwoBits(TwoBits(TwoBits(Xor16(c, byte * 256)))))
ash_crc(d) ==
    LET crc[i \in 0..Len(d)] == IF i = 0 THEN 65535 ELSE CrcByte(crc[i - 1], d[i])
    IN  crc[Len(d)]
CrcBytes(d) == LET c == ash_crc(d) IN <<c \div 256, c % 256>>

\* The pseudo-random sequence DATA payloads are XORed with (0-based).
ash_rand[i \in 0..255] ==
    IF i = 0 THEN 66
    ELSE LET r == ash_rand[i - 1]
         IN  IF r % 2 = 1 THEN Xor(r \div 2, 184) ELSE r \div 2

\* Masks the payload of a DATA frame; its own inverse.
Mask(f) == [i \in 1..Len(f) |-> IF i > 1 /\ f[1] < 128 THEN Xor(f[i], ash_rand[i - 2]) ELSE f[i]]

Escape(byte) == Xor(byte, 32)

\* A reserved byte is sent as ESC and the byte with bit 5 flipped.
Stuff(byte) == IF byte \in Reserved THEN <<ESC, Escape(byte)>> ELSE <<byte>>

\* ash_send: body and CRC, stuffed, then the flag.
Encode(f) ==
    LET whole == f \o CrcBytes(f)
        buf[i \in 0..Len(whole)] == IF i = 0 THEN <<>> ELSE buf[i - 1] \o Stuff(whole[i])
    IN  buf[Len(whole)] \o <<FLAG>>
Encoding == [f \in Frames |-> Encode(Mask(f))]

(***************************************************************************)
(* The link                                                                *)
(***************************************************************************)
VARIABLES
    wire,       \* bytes in flight; the flag of a frame that was sent on a clean
                \* line carries that frame in its field due
    rx, esc,    \* the receiver: struct bridge
    handled,    \* bodies given to bridge_handle_frame, unmasked
    dirty,      \* history: a stray byte has been sent since the last flag
    nsent, nnoise

vars == <<wire, rx, esc, handled, dirty, nsent, nnoise>>

Nothing == <<>>
Plain(byte) == [b |-> byte, due |-> Nothing]

Init ==
    /\ wire = <<>> /\ rx = <<>> /\ esc = FALSE /\ handled = <<>>
    /\ dirty = FALSE /\ nsent = 0 /\ nnoise = 0

SendFrame(f) ==
    /\ nsent < MaxSend /\ nsent' = nsent + 1
    /\ LET bytes == Encoding[f]
       IN  wire' = wire \o [i \in 1..Len(bytes) |->
                              IF i = Len(bytes) /\ ~dirty THEN [b |-> FLAG, due |-> f]
                              ELSE Plain(bytes[i])]
    /\ dirty' = FALSE
    /\ UNCHANGED <<rx, esc, handled, nnoise>>

\* A stray byte.  Flow control bytes do no harm, a flag or a CANCEL cleans up.
SendNoise(byte) ==
    /\ nnoise < MaxNoise /\ nnoise' = nnoise + 1
    /\ wire' = Append(wire, Plain(byte))
    /\ dirty' = IF byte \in {FLAG, CANCEL} THEN FALSE
                ELSE dirty \/ byte \notin {XON, XOFF}
    /\ UNCHANGED <<rx, esc, handled, nsent>>

(***************************************************************************)
(* bridge_feed, one byte at a time                                         *)
(***************************************************************************)
Arrives(byte) == wire # <<>> /\ Head(wire).b = byte /\ wire' = Tail(wire)
Sender == <<dirty, nsent, nnoise>>

FeedFlow ==
    /\ Arrives(XON) \/ Arrives(XOFF)
    /\ UNCHANGED <<rx, esc, handled, Sender>>

FeedCancel ==
    /\ Arrives(CANCEL)
    /\ rx' = <<>> /\ esc' = FALSE
    /\ UNCHANGED <<handled, Sender>>

FeedSub ==
    /\ Arrives(SUB)
    /\ rx' = <<>> /\ esc' = TRUE
    /\ UNCHANGED <<handled, Sender>>

FeedEsc ==
    /\ Arrives(ESC)
    /\ esc' = TRUE
    /\ UNCHANGED <<rx, handled, Sender>>

\* What rx[] holds in front of its last two bytes, and whether they match it.
Received == SubSeq(rx, 1, Len(rx) - 2)
Complete == Len(rx) >= 3 /\ SubSeq(rx, Len(rx) - 1, Len(rx)) = CrcBytes(Received)

\* The state a flag leaves behind.
FlagKeepsEscape == rx' = <<>> /\ UNCHANGED esc
FlagResets == rx' = <<>> /\ esc' = FALSE

FeedFlag ==
    /\ Arrives(FLAG)
    /\ handled' = IF Complete THEN Append(handled, Mask(Received)) ELSE handled
    /\ FlagResets
    /\ UNCHANGED Sender

\* Room for one more byte.
HasRoomUnchecked == TRUE
HasRoom == Len(rx) < RxSize

FeedByte ==
    /\ wire # <<>> /\ Head(wire).b \notin Reserved
    /\ wire' = Tail(wire)
    /\ esc' = FALSE
    /\ LET c == IF esc THEN Escape(Head(wire).b) ELSE Head(wire).b
       IN  rx' = IF HasRoom THEN Append(rx, c) ELSE <<>>
    /\ UNCHANGED <<handled, Sender>>

Next ==
    \/ \E f \in Frames : SendFrame(f)
    \/ \E byte \in Noise : SendNoise(byte)
    \/ FeedFlow \/ FeedCancel \/ FeedSub \/ FeedEsc \/ FeedFlag \/ FeedByte

Spec == Init /\ [][Next]_vars

-----------------------------------------------------------------------------
\* rx[] never holds more bytes than it has room for, whatever arrives.
RxBounded == Len(rx) <= RxSize

\* A frame that was sent on a clean line arrives whole, whatever went wrong
\* before it: when its flag is next, the receiver holds exactly its bytes.
CleanFramesArrive ==
    wire # <<>> /\ Head(wire).due # Nothing =>
        Complete /\ ~esc /\ Mask(Received) = Head(wire).due
=============================================================================
