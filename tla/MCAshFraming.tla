---------------------------- MODULE MCAshFraming ----------------------------
(* Small instances of AshFraming for TLC. *)
EXTENDS AshFraming

\* RST, an ACK, and DATA frames whose masked payload needs stuffing: with
\* ash_rand[0] = 66 and ash_rand[1] = 33 these become reserved bytes.
MCFrames ==
    {<<192>>, <<129>>} \cup {<<0, Xor(r, 66)>> : r \in Reserved} \cup {<<24, 1, Xor(126, 33)>>}

\* Every reserved byte, and 0xE0, which an escape turns into the RST 0xC0.
MCNoise == Reserved \cup {224}

\* The arithmetic Xor against the definition by binary digits.
ASSUME XorIsBitwise ==
    \A a \in 0..255, b \in {0, 1, 32, 66, 126, 129, 184, 255} : \A j \in 0..7 :
        (Xor(a, b) \div 2^j) % 2 = 1 <=> ((a \div 2^j) % 2 # (b \div 2^j) % 2)

\* The RST of ASH is C0 38 BC 7E on the wire.
ASSUME RstOnTheWire == Encode(<<192>>) = <<192, 56, 188, 126>>

\* The buffer of ash_send has room for the worst case: every byte stuffed.
ASSUME WorstCaseFits == 2 * (140 + 2) + 1 <= 140 * 2 + 8
=============================================================================
