-------------------------- MODULE AshFramingProofs --------------------------
(***************************************************************************)
(* What ash_send puts on the wire and bridge_feed takes off it, for every  *)
(* set of frames, every noise and any number of either:                    *)
(*                                                                         *)
(*   NoOverflow    RxBounded: rx[] holds no more than it has room for.     *)
(*   Intact        CleanFramesArrive: a frame sent on a clean line is      *)
(*                 received as it was.                                     *)
(*                                                                         *)
(* The encoding is computed by three recursions (the CRC, ash_rand and the *)
(* stuffing loop).  Recursion says that such a definition has the function *)
(* it describes, UpTo is the induction that gives its type, and EncodingIs *)
(* sums up what the receiver meets: Layout, which bytes stand for which    *)
(* byte of the frame.  Xor and Escape undo themselves.                     *)
(*                                                                         *)
(* FInv follows the receiver: Clean says that it is ready for a frame when *)
(* the bytes in front of it are taken and the line is not dirty, Owed that *)
(* each frame which is due either still lies ahead as a whole, behind      *)
(* bytes that leave the receiver ready, or has been taken up to some byte  *)
(* (or up to the ESC in front of it).                                      *)
(***************************************************************************)
EXTENDS AshFraming, SequenceTheorems, WellFoundedInduction, TLAPS

Byte == 0..255

-----------------------------------------------------------------------------
\* Induction up to n, from the existence of least elements.
LEMMA Least ==
    ASSUME NEW T \in SUBSET Nat, T # {}
    PROVE  \E m \in T : \A j \in T : m <= j
<1> DEFINE R == OpToRel(<, Nat)
<1>1. IsWellFoundedOn(R, Nat)
  BY NatLessThanWellFounded
<1>2. \A a, b \in Nat : a < b => <<a, b>> \in R
  BY DEF OpToRel
<1> HIDE DEF R
<1>3. PICK m \in T : \A j \in T : ~(<<j, m>> \in R)
  BY <1>1, WFMin
<1>4. m \in Nat /\ \A j \in T : j \in Nat /\ ~(j < m)
  BY <1>2, <1>3
<1> QED
  BY <1>4

LEMMA UpTo ==
    ASSUME NEW n \in Nat, NEW T, 0 \in T, \A j \in 1..n : j - 1 \in T => j \in T
    PROVE  \A j \in 0..n : j \in T
<1> SUFFICES ASSUME (0..n) \ T # {} PROVE FALSE
  OBVIOUS
<1>0. (0..n) \ T \in SUBSET Nat
  OBVIOUS
<1>1. PICK m \in (0..n) \ T : \A j \in (0..n) \ T : m <= j
  BY <1>0, Least, Zenon
<1>2. m \in 1..n /\ m - 1 \in 0..n /\ ~(m <= m - 1)
  BY <1>1
<1> QED
  BY <1>1, <1>2

-----------------------------------------------------------------------------
(***************************************************************************)
(* Exclusive or                                                            *)
(***************************************************************************)
\* One bit of a ^ b.
Bit(a, b, k) == ((a \div k) + (b \div k)) % 2

Number(b1, b2, b3, b4, b5, b6, b7, b8) ==
    b1 + 2 * b2 + 4 * b3 + 8 * b4 + 16 * b5 + 32 * b6 + 64 * b7 + 128 * b8

LEMMA XorIs ==
    ASSUME NEW a, NEW b
    PROVE  Xor(a, b) = Number(Bit(a, b, 1), Bit(a, b, 2), Bit(a, b, 4), Bit(a, b, 8),
                              Bit(a, b, 16), Bit(a, b, 32), Bit(a, b, 64), Bit(a, b, 128))
BY DEF Xor, Number, Bit

LEMMA BitType ==
    ASSUME NEW a \in Byte, NEW b \in Byte, NEW k \in {1, 2, 4, 8, 16, 32, 64, 128}
    PROVE  Bit(a, b, k) \in 0..1
<1>1. a \div k \in Int /\ b \div k \in Int
  BY DEF Byte
<1> QED
  BY <1>1 DEF Bit

LEMMA NumberType ==
    ASSUME NEW b1 \in 0..1, NEW b2 \in 0..1, NEW b3 \in 0..1, NEW b4 \in 0..1,
           NEW b5 \in 0..1, NEW b6 \in 0..1, NEW b7 \in 0..1, NEW b8 \in 0..1
    PROVE  Number(b1, b2, b3, b4, b5, b6, b7, b8) \in Byte
BY DEF Number, Byte

LEMMA XorType ==
    ASSUME NEW a \in Byte, NEW b \in Byte
    PROVE  Xor(a, b) \in Byte
<1>1. /\ Bit(a, b, 1) \in 0..1 /\ Bit(a, b, 2) \in 0..1 /\ Bit(a, b, 4) \in 0..1
      /\ Bit(a, b, 8) \in 0..1 /\ Bit(a, b, 16) \in 0..1 /\ Bit(a, b, 32) \in 0..1
      /\ Bit(a, b, 64) \in 0..1 /\ Bit(a, b, 128) \in 0..1
  BY BitType
<1>2. Number(Bit(a, b, 1), Bit(a, b, 2), Bit(a, b, 4), Bit(a, b, 8),
             Bit(a, b, 16), Bit(a, b, 32), Bit(a, b, 64), Bit(a, b, 128)) \in Byte
  BY <1>1, NumberType
<1> QED
  BY <1>2, XorIs

\* The bits of a number are the ones it was made of.
LEMMA NumberBits ==
    ASSUME NEW b1 \in 0..1, NEW b2 \in 0..1, NEW b3 \in 0..1, NEW b4 \in 0..1,
           NEW b5 \in 0..1, NEW b6 \in 0..1, NEW b7 \in 0..1, NEW b8 \in 0..1,
           NEW x, x = Number(b1, b2, b3, b4, b5, b6, b7, b8)
    PROVE  /\ (x \div 1) % 2 = b1 /\ (x \div 2) % 2 = b2
           /\ (x \div 4) % 2 = b3 /\ (x \div 8) % 2 = b4
           /\ (x \div 16) % 2 = b5 /\ (x \div 32) % 2 = b6
           /\ (x \div 64) % 2 = b7 /\ (x \div 128) % 2 = b8
BY DEF Number

\* A byte is made of its bits.
LEMMA ByteIsNumber ==
    ASSUME NEW a \in Byte
    PROVE  a = Number((a \div 1) % 2, (a \div 2) % 2, (a \div 4) % 2, (a \div 8) % 2,
                      (a \div 16) % 2, (a \div 32) % 2, (a \div 64) % 2, (a \div 128) % 2)
BY DEF Number, Byte

LEMMA Parity ==
    ASSUME NEW p \in Int, NEW q \in Int, NEW r \in Int, p % 2 = (q + r) % 2
    PROVE  (p + r) % 2 = q % 2
OBVIOUS

\* Masking with the same byte again undoes it.
LEMMA XorTwice ==
    ASSUME NEW a \in Byte, NEW b \in Byte
    PROVE  Xor(Xor(a, b), b) = a
<1> DEFINE x == Xor(a, b)
<1>1. x \in Byte
  BY XorType
<1>2. /\ (x \div 1) % 2 = Bit(a, b, 1) /\ (x \div 2) % 2 = Bit(a, b, 2)
      /\ (x \div 4) % 2 = Bit(a, b, 4) /\ (x \div 8) % 2 = Bit(a, b, 8)
      /\ (x \div 16) % 2 = Bit(a, b, 16) /\ (x \div 32) % 2 = Bit(a, b, 32)
      /\ (x \div 64) % 2 = Bit(a, b, 64) /\ (x \div 128) % 2 = Bit(a, b, 128)
  BY XorIs, BitType, NumberBits
<1> HIDE DEF x
<1>3. ASSUME NEW k \in {1, 2, 4, 8, 16, 32, 64, 128}, (x \div k) % 2 = Bit(a, b, k)
      PROVE  Bit(x, b, k) = (a \div k) % 2
  <2>1. x \div k \in Int /\ a \div k \in Int /\ b \div k \in Int
    BY <1>1 DEF Byte
  <2> QED
    BY <1>3, <2>1, Parity DEF Bit
<1>4. Xor(x, b) = Number((a \div 1) % 2, (a \div 2) % 2, (a \div 4) % 2, (a \div 8) % 2,
                         (a \div 16) % 2, (a \div 32) % 2, (a \div 64) % 2, (a \div 128) % 2)
  BY <1>2, <1>3, XorIs
<1>5. Xor(x, b) = a
  BY <1>4, ByteIsNumber
<1> QED
  BY <1>5 DEF x

\* An escaped byte is never one that has a meaning of its own.
LEMMA Escaped ==
    ASSUME NEW b \in Reserved
    PROVE  Escape(b) \in Byte \ Reserved
<1>1. /\ Escape(126) = 94 /\ Escape(125) = 93 /\ Escape(17) = 49
      /\ Escape(19) = 51 /\ Escape(24) = 56 /\ Escape(26) = 58
  BY DEF Escape, Xor
<1> QED
  BY <1>1 DEF Reserved, FLAG, ESC, XON, XOFF, SUB, CANCEL, Byte

LEMMA EscapeType ==
    ASSUME NEW b \in Byte
    PROVE  Escape(b) \in Byte /\ Escape(Escape(b)) = b
<1>1. 32 \in Byte
  BY DEF Byte
<1> QED
  BY <1>1, XorType, XorTwice DEF Escape

-----------------------------------------------------------------------------
(***************************************************************************)
(* Recursive functions.  A definition f[j \in 0..n] is the function its    *)
(* equation describes, because there is one.                               *)
(***************************************************************************)
Steps(n, S, b, F) == n \in Nat /\ b \in S /\ F \in [1..n -> [S -> S]]
Runs(f, n, S, b, F) ==
    f \in [0..n -> S] /\ f[0] = b /\ \A j \in 1..n : f[j] = F[j][f[j - 1]]

LEMMA Recursion ==
    ASSUME NEW n, NEW S, NEW b, NEW F, Steps(n, S, b, F)
    PROVE  \E f : Runs(f, n, S, b, F)
<1>0. n \in Nat /\ b \in S /\ F \in [1..n -> [S -> S]]
  BY DEF Steps
<1> USE <1>0
<1> DEFINE Good(g, m) == /\ g \in [0..m -> S] /\ g[0] = b
                         /\ \A j \in 1..m : g[j] = F[j][g[j - 1]]
           T == {m \in 0..n : \E g : Good(g, m)}
<1>1. 0 \in T
  <2> DEFINE g == [j \in 0..0 |-> b]
  <2>1. Good(g, 0)
    OBVIOUS
  <2> HIDE DEF Good
  <2> QED
    BY <2>1
<1>2. ASSUME NEW m \in 1..n, m - 1 \in T PROVE m \in T
  <2>1. PICK g : Good(g, m - 1)
    BY <1>2
  <2> DEFINE f == [j \in 0..m |-> IF j < m THEN g[j] ELSE F[m][g[m - 1]]]
  <2>2. g[m - 1] \in S /\ F[m][g[m - 1]] \in S
    <3>1. m - 1 \in 0..(m - 1)
      OBVIOUS
    <3>2. g[m - 1] \in S
      BY <2>1, <3>1
    <3> QED
      BY <3>2
  <2>3. f \in [0..m -> S]
    BY <2>1, <2>2
  <2>4. f[0] = b
    BY <2>1
  <2>5. ASSUME NEW j \in 1..m PROVE f[j] = F[j][f[j - 1]]
    <3>1. CASE j < m
      BY <2>1, <3>1
    <3>2. CASE j = m
      BY <3>2
    <3> QED
      BY <3>1, <3>2
  <2>6. Good(f, m)
    <3> HIDE DEF f
    <3> QED
      BY <2>3, <2>4, <2>5
  <2> HIDE DEF Good
  <2> QED
    BY <2>6
<1>3. n \in T
  <2> HIDE DEF T
  <2>1. n \in 0..n
    OBVIOUS
  <2> QED
    BY <1>1, <1>2, <2>1, UpTo
<1>4. PICK f : Good(f, n)
  BY <1>3
<1> QED
  BY <1>4 DEF Runs

-----------------------------------------------------------------------------
(***************************************************************************)
(* The checksum is two bytes.                                              *)
(***************************************************************************)
Word == {c \in Nat : c < 65536}

LEMMA Halves ==
    ASSUME NEW c \in Word
    PROVE  c \div 256 \in Byte /\ c % 256 \in Byte
<1>1. c \in Int /\ 0 <= c /\ c < 65536
  BY DEF Word
<1>2. c \div 256 \in Int /\ 0 <= c \div 256 /\ c \div 256 <= 255
  BY <1>1
<1>3. c % 256 \in 0..255
  BY <1>1
<1> QED
  BY <1>2, <1>3 DEF Byte

LEMMA Xor16Type ==
    ASSUME NEW a \in Word, NEW b \in Word
    PROVE  Xor16(a, b) \in Word
<1> DEFINE h == Xor(a \div 256, b \div 256)
           l == Xor(a % 256, b % 256)
<1>2. h \in Byte /\ l \in Byte
  BY Halves, XorType
<1>3. Xor16(a, b) = 256 * h + l
  BY DEF Xor16
<1> HIDE DEF h, l
<1>4. 256 * h + l \in Word
  BY <1>2 DEF Word, Byte
<1> QED
  BY <1>3, <1>4

LEMMA TwoBitsType ==
    ASSUME NEW c \in Word
    PROVE  TwoBits(c) \in Word
<1>1. ASSUME NEW d \in Word PROVE CrcBit(d) \in Word
  <2>1. (d * 2) % 65536 \in Word /\ 4129 \in Word
    BY DEF Word
  <2>2. Xor16((d * 2) % 65536, 4129) \in Word
    BY <2>1, Xor16Type
  <2>3. ~(d >= 32768) => d * 2 \in Word
    <3>1. d \in Int /\ 0 <= d
      BY DEF Word
    <3>2. d * 2 \in Int /\ 0 <= d * 2 /\ (~(d >= 32768) => d * 2 < 65536)
      BY <3>1
    <3> QED
      BY <3>2 DEF Word
  <2> QED
    BY <2>2, <2>3 DEF CrcBit
<1> QED
  BY <1>1 DEF TwoBits

LEMMA CrcByteType ==
    ASSUME NEW c \in Word, NEW b \in Byte
    PROVE  CrcByte(c, b) \in Word
<1>1. b * 256 \in Word
  BY DEF Byte, Word
<1>2. Xor16(c, b * 256) \in Word
  BY <1>1, Xor16Type
<1> QED
  BY <1>2, TwoBitsType DEF CrcByte

CrcGoes(g, d) == g = [i \in 0..Len(d) |-> IF i = 0 THEN 65535 ELSE CrcByte(g[i - 1], d[i])]
Crc(d) == CHOOSE g : CrcGoes(g, d)

LEMMA CrcType ==
    ASSUME NEW d \in Seq(Byte)
    PROVE  ash_crc(d) \in Word
<1>0. PICK n \in Nat : n = Len(d)
  OBVIOUS
<1> DEFINE F == [i \in 1..n |-> [c \in Word |-> CrcByte(c, d[i])]]
<1>1. PICK b \in Word : b = 65535
  BY DEF Word
<1>2. F \in [1..n -> [Word -> Word]]
  BY <1>0, CrcByteType
<1>3. \E f : Runs(f, n, Word, b, F)
  <2> HIDE DEF F
  <2>1. Steps(n, Word, b, F)
    BY <1>2 DEF Steps
  <2> QED
    BY <2>1, Recursion
<1>4. PICK f \in [0..n -> Word] : f[0] = b /\ \A i \in 1..n : f[i] = F[i][f[i - 1]]
  <2> HIDE DEF F
  <2> QED
    BY <1>3 DEF Runs
<1>5. ASSUME NEW i \in 1..n PROVE f[i] = CrcByte(f[i - 1], d[i])
  <2>1. i - 1 \in 0..n
    BY <1>1
  <2>2. F[i] = [c \in Word |-> CrcByte(c, d[i])] /\ f[i - 1] \in Word
    BY <1>4, <2>1
  <2> HIDE DEF F
  <2> QED
    BY <1>4, <2>2
<1>6. CrcGoes(f, d)
  <2> HIDE DEF F
  <2>1. \A i \in 0..n : f[i] = IF i = 0 THEN 65535 ELSE CrcByte(f[i - 1], d[i])
    BY <1>1, <1>4, <1>5
  <2>2. f = [i \in 0..n |-> f[i]]
    OBVIOUS
  <2> QED
    BY <1>0, <2>1, <2>2 DEF CrcGoes
<1>7. CrcGoes(Crc(d), d)
  BY <1>6 DEF Crc
<1> DEFINE crc == Crc(d)
<1>8. ash_crc(d) = crc[n]
  BY <1>0 DEF ash_crc, Crc, CrcGoes
<1> HIDE DEF crc
<1>9. crc = [i \in 0..n |-> IF i = 0 THEN 65535 ELSE CrcByte(crc[i - 1], d[i])]
  BY <1>0, <1>7 DEF crc, CrcGoes
<1> DEFINE T == {i \in 0..n : crc[i] \in Word}
<1>10. 0 \in T
  BY <1>1, <1>9
<1>11. ASSUME NEW i \in 1..n, i - 1 \in T PROVE i \in T
  <2>1. d[i] \in Byte
    BY <1>0
  <2>2. crc[i] = CrcByte(crc[i - 1], d[i])
    BY <1>1, <1>9
  <2> QED
    BY <1>11, <2>1, <2>2, CrcByteType
<1>12. n \in T
  <2>1. n \in 0..n
    BY <1>1
  <2> HIDE DEF T
  <2> QED
    BY <1>10, <1>11, <2>1, UpTo
<1> QED
  BY <1>8, <1>12

LEMMA CrcBytesType ==
    ASSUME NEW d \in Seq(Byte)
    PROVE  CrcBytes(d) \in Seq(Byte) /\ Len(CrcBytes(d)) = 2
<1> DEFINE c == ash_crc(d)
<1>1. c \in Word
  BY CrcType
<1>2. CrcBytes(d) = <<c \div 256, c % 256>>
  BY DEF CrcBytes
<1> HIDE DEF c
<1>3. c \div 256 \in Byte /\ c % 256 \in Byte
  BY <1>1, Halves
<1> QED
  BY <1>2, <1>3

-----------------------------------------------------------------------------
(***************************************************************************)
(* Masking                                                                 *)
(***************************************************************************)
Shift(r) == IF r % 2 = 1 THEN Xor(r \div 2, 184) ELSE r \div 2
RandGoes(g) == g = [i \in 0..255 |-> IF i = 0 THEN 66 ELSE Shift(g[i - 1])]

LEMMA ShiftType ==
    ASSUME NEW r \in Byte
    PROVE  Shift(r) \in Byte
<1>1. r \div 2 \in Byte /\ 184 \in Byte
  BY DEF Byte
<1> QED
  BY <1>1, XorType DEF Shift

LEMMA RandType == \A i \in 0..255 : ash_rand[i] \in Byte
<1>1. PICK b \in Byte : b = 66
  BY DEF Byte
<1>2. PICK n \in Nat : n = 255
  OBVIOUS
<1> DEFINE F == [i \in 1..n |-> [r \in Byte |-> Shift(r)]]
<1>3. F \in [1..n -> [Byte -> Byte]]
  BY ShiftType
<1>4. \E f : Runs(f, n, Byte, b, F)
  <2> HIDE DEF F
  <2>1. Steps(n, Byte, b, F)
    BY <1>3 DEF Steps
  <2> QED
    BY <2>1, Recursion
<1>5. PICK f \in [0..n -> Byte] : f[0] = b /\ \A i \in 1..n : f[i] = F[i][f[i - 1]]
  <2> HIDE DEF F
  <2> QED
    BY <1>4 DEF Runs
<1>6. ASSUME NEW i \in 1..n PROVE f[i] = Shift(f[i - 1])
  <2>1. i - 1 \in 0..n
    OBVIOUS
  <2>2. F[i] = [r \in Byte |-> Shift(r)] /\ f[i - 1] \in Byte
    BY <1>5, <2>1
  <2> HIDE DEF F
  <2> QED
    BY <1>5, <2>2
<1>7. RandGoes(f)
  <2> HIDE DEF F
  <2>1. \A i \in 0..n : f[i] = IF i = 0 THEN 66 ELSE Shift(f[i - 1])
    BY <1>1, <1>5, <1>6
  <2>2. f = [i \in 0..n |-> f[i]]
    OBVIOUS
  <2> QED
    BY <1>2, <2>1, <2>2 DEF RandGoes
<1>8. ash_rand = CHOOSE g : RandGoes(g)
  BY DEF ash_rand, RandGoes, Shift
<1>9. RandGoes(ash_rand)
  BY <1>7, <1>8
<1>10. ash_rand = [i \in 0..n |-> IF i = 0 THEN 66 ELSE Shift(ash_rand[i - 1])]
  BY <1>2, <1>9 DEF RandGoes
<1> DEFINE T == {i \in 0..n : ash_rand[i] \in Byte}
<1>11. 0 \in T
  BY <1>1, <1>10
<1>12. ASSUME NEW i \in 1..n, i - 1 \in T PROVE i \in T
  BY <1>10, <1>12, ShiftType
<1>13. \A i \in 0..n : i \in T
  <2> HIDE DEF T
  <2> QED
    BY <1>11, <1>12, UpTo
<1> QED
  BY <1>2, <1>13

\* A masked body has the same control byte, and masking it again restores it.
LEMMA MaskTwice ==
    ASSUME NEW f \in Seq(Byte), Len(f) \in 1..140
    PROVE  Mask(f) \in Seq(Byte) /\ Len(Mask(f)) = Len(f) /\ Mask(Mask(f)) = f
<1> DEFINE m == Mask(f)
<1>0. PICK n \in 1..140 : n = Len(f)
  OBVIOUS
<1>1. m = [i \in 1..n |-> IF i > 1 /\ f[1] < 128 THEN Xor(f[i], ash_rand[i - 2]) ELSE f[i]]
  BY <1>0 DEF Mask
<1> HIDE DEF m
<1>2. \A i \in 1..n : f[i] \in Byte
  BY <1>0
<1>3. \A i \in 1..n : i > 1 => ash_rand[i - 2] \in Byte
  <2>1. \A i \in 1..n : i > 1 => i - 2 \in 0..255
    OBVIOUS
  <2> QED
    BY <2>1, RandType
<1>4. \A i \in 1..n : m[i] \in Byte
  BY <1>1, <1>2, <1>3, XorType
<1>5. m \in Seq(Byte) /\ Len(m) = n
  <2>1. m = [i \in 1..n |-> m[i]]
    BY <1>1
  <2>2. m \in [1..n -> Byte]
    BY <1>4, <2>1
  <2>3. n \in Nat
    OBVIOUS
  <2> QED
    BY <2>2, <2>3
<1>6. 1 \in 1..n /\ ~(1 > 1) /\ m[1] = f[1]
  BY <1>1
<1>7. Mask(m) = [i \in 1..n |-> IF i > 1 /\ f[1] < 128 THEN Xor(m[i], ash_rand[i - 2]) ELSE m[i]]
  BY <1>5, <1>6 DEF Mask
<1>8. ASSUME NEW i \in 1..n
      PROVE  f[i] = IF i > 1 /\ f[1] < 128 THEN Xor(m[i], ash_rand[i - 2]) ELSE m[i]
  <2>1. CASE i > 1 /\ f[1] < 128
    <3>1. m[i] = Xor(f[i], ash_rand[i - 2])
      BY <1>1, <2>1
    <3> QED
      BY <1>2, <1>3, <2>1, <3>1, XorTwice
  <2>2. CASE ~(i > 1 /\ f[1] < 128)
    BY <1>1, <2>2
  <2> QED
    BY <2>1, <2>2
<1>9. f = [i \in 1..n |-> f[i]]
  BY <1>0
<1>10. Mask(m) = f
  BY <1>7, <1>8, <1>9
<1> QED
  BY <1>0, <1>5, <1>10 DEF m

-----------------------------------------------------------------------------
(***************************************************************************)
(* Stuffing.  Buf(w)[i] is what ash_send has written for the first i bytes *)
(* of w; the bytes for w[i] begin behind Len(Buf(w)[i - 1]).               *)
(***************************************************************************)
Add(o, w, i) == o \o Stuff(w[i])
BufGoes(g, w) == g = [i \in 0..Len(w) |-> IF i = 0 THEN <<>> ELSE Add(g[i - 1], w, i)]
Buf(w) == CHOOSE g : BufGoes(g, w)

LEMMA StuffType ==
    ASSUME NEW b \in Byte
    PROVE  /\ Stuff(b) \in Seq(Byte)
           /\ b \in Reserved => Len(Stuff(b)) = 2 /\ Stuff(b)[1] = ESC /\ Stuff(b)[2] = Escape(b)
           /\ b \notin Reserved => Len(Stuff(b)) = 1 /\ Stuff(b)[1] = b
<1>1. ESC \in Byte
  BY DEF ESC, Byte
<1>2. Escape(b) \in Byte
  BY EscapeType
<1>3. CASE b \in Reserved
  <2>1. Stuff(b) = <<ESC, Escape(b)>>
    BY <1>3 DEF Stuff
  <2> QED
    BY <1>1, <1>2, <1>3, <2>1
<1>4. CASE b \notin Reserved
  <2>1. Stuff(b) = <<b>>
    BY <1>4 DEF Stuff
  <2> QED
    BY <1>4, <2>1
<1> QED
  BY <1>3, <1>4

LEMMA BufIs ==
    ASSUME NEW w \in Seq(Byte)
    PROVE  /\ Buf(w)[0] = <<>>
           /\ \A i \in 0..Len(w) : Buf(w)[i] \in Seq(Byte)
           /\ \A i \in 1..Len(w) : Buf(w)[i] = Buf(w)[i - 1] \o Stuff(w[i])
<1>1. PICK n \in Nat : n = Len(w)
  OBVIOUS
<1> DEFINE F == [i \in 1..n |-> [o \in Seq(Byte) |-> Add(o, w, i)]]
<1>2. \A i \in 1..n : Stuff(w[i]) \in Seq(Byte)
  BY <1>1, StuffType
<1>3. F \in [1..n -> [Seq(Byte) -> Seq(Byte)]]
  <2>1. ASSUME NEW i \in 1..n, NEW o \in Seq(Byte) PROVE Add(o, w, i) \in Seq(Byte)
    BY <1>2 DEF Add
  <2> QED
    BY <2>1
<1>4. PICK b \in Seq(Byte) : b = <<>>
  <2>1. <<>> \in Seq(Byte)
    OBVIOUS
  <2> QED
    BY <2>1
<1>5. \E f : Runs(f, n, Seq(Byte), b, F)
  <2> HIDE DEF F
  <2>1. Steps(n, Seq(Byte), b, F)
    BY <1>3 DEF Steps
  <2> QED
    BY <2>1, Recursion
<1>6. PICK f \in [0..n -> Seq(Byte)] : f[0] = b /\ \A i \in 1..n : f[i] = F[i][f[i - 1]]
  <2> HIDE DEF F
  <2> QED
    BY <1>5 DEF Runs
<1>7. ASSUME NEW i \in 1..n PROVE f[i] = Add(f[i - 1], w, i)
  <2>1. i - 1 \in 0..n
    OBVIOUS
  <2>2. F[i] = [o \in Seq(Byte) |-> Add(o, w, i)] /\ f[i - 1] \in Seq(Byte)
    BY <1>6, <2>1
  <2> HIDE DEF F
  <2> QED
    BY <1>6, <2>2
<1>8. BufGoes(f, w)
  <2> HIDE DEF F
  <2>1. ASSUME NEW i \in 0..n PROVE f[i] = IF i = 0 THEN b ELSE Add(f[i - 1], w, i)
    <3>1. i # 0 => i \in 1..n
      OBVIOUS
    <3> QED
      BY <1>6, <1>7, <3>1
  <2>2. f = [i \in 0..n |-> f[i]]
    OBVIOUS
  <2> QED
    BY <1>1, <1>4, <2>1, <2>2 DEF BufGoes
<1>9. BufGoes(Buf(w), w)
  BY <1>8 DEF Buf
<1> DEFINE o == Buf(w)
<1> HIDE DEF o, F
<1>10. o = [i \in 0..n |-> IF i = 0 THEN b ELSE Add(o[i - 1], w, i)]
  BY <1>1, <1>4, <1>9 DEF o, BufGoes
<1>11. o[0] = b
  BY <1>10
<1>12. \A i \in 1..n : o[i] = Add(o[i - 1], w, i)
  BY <1>10
<1> DEFINE T == {i \in 0..n : o[i] \in Seq(Byte)}
<1>13. 0 \in T
  BY <1>11
<1>14. ASSUME NEW i \in 1..n, i - 1 \in T PROVE i \in T
  <2>1. o[i - 1] \in Seq(Byte)
    BY <1>14
  <2>2. Add(o[i - 1], w, i) \in Seq(Byte)
    BY <1>2, <2>1 DEF Add
  <2> QED
    BY <1>12, <2>2
<1>15. \A i \in 0..n : i \in T
  <2> HIDE DEF T
  <2> QED
    BY <1>13, <1>14, UpTo
<1> QED
  BY <1>1, <1>4, <1>11, <1>12, <1>15 DEF o, Add

\* The bytes e hold w[1] .. w[j], stuffed, each behind at[i - 1].
Holds(e, w, at, j) ==
    /\ at[j] = Len(e)
    /\ \A i \in 1..j :
        /\ at[i] <= Len(e)
        /\ w[i] \in Reserved => /\ at[i] = at[i - 1] + 2
                                /\ e[at[i - 1] + 1] = ESC
                                /\ e[at[i - 1] + 2] = Escape(w[i])
        /\ w[i] \notin Reserved => /\ at[i] = at[i - 1] + 1
                                   /\ e[at[i - 1] + 1] = w[i]

\* Where each byte of w begins.
At(w) == [i \in 0..Len(w) |-> Len(Buf(w)[i])]

LEMMA Laid ==
    ASSUME NEW w \in Seq(Byte), NEW j \in 0..Len(w)
    PROVE  Holds(Buf(w)[j], w, At(w), j)
<1>1. PICK n \in Nat : n = Len(w)
  OBVIOUS
<1>2. PICK o : o = Buf(w)
  OBVIOUS
<1>3. PICK at : at = At(w)
  OBVIOUS
<1>4. /\ o[0] = <<>> /\ \A i \in 0..n : o[i] \in Seq(Byte)
      /\ \A i \in 1..n : o[i] = o[i - 1] \o Stuff(w[i])
  BY <1>1, <1>2, BufIs
<1>5. \A i \in 0..n : at[i] = Len(o[i]) /\ at[i] \in Nat
  <2>1. \A i \in 0..n : at[i] = Len(o[i])
    BY <1>1, <1>2, <1>3 DEF At
  <2> QED
    BY <1>4, <2>1
<1> DEFINE T == {k \in 0..n : Holds(o[k], w, at, k)}
<1>6. 0 \in T
  BY <1>4, <1>5 DEF Holds
<1>7. ASSUME NEW k \in 1..n, k - 1 \in T PROVE k \in T
  <2>1. Holds(o[k - 1], w, at, k - 1)
    BY <1>7
  <2>2. k \in 0..n /\ k - 1 \in 0..n
    OBVIOUS
  <2>3. PICK e \in Seq(Byte) : e = o[k - 1]
    BY <1>4, <2>2
  <2>4. PICK t \in Seq(Byte) : t = Stuff(w[k])
    BY <1>1, StuffType
  <2>5. PICK x \in Seq(Byte) : x = e \o t
    <3>1. e \o t \in Seq(Byte)
      OBVIOUS
    <3> QED
      BY <3>1
  <2>6. o[k] = x /\ at[k] = Len(x) /\ at[k - 1] = Len(e)
    BY <1>4, <1>5, <2>2, <2>3, <2>4, <2>5
  <2>7. Len(x) = Len(e) + Len(t)
    BY <2>5
  <2>8. \A i \in 1..Len(e) : x[i] = e[i]
    BY <2>5
  <2>9. \A i \in 1..Len(t) : x[Len(e) + i] = t[i]
    BY <2>5
  <2>10. /\ w[k] \in Reserved => Len(t) = 2 /\ t[1] = ESC /\ t[2] = Escape(w[k])
         /\ w[k] \notin Reserved => Len(t) = 1 /\ t[1] = w[k]
    BY <1>1, <2>4, StuffType
  <2>11. ASSUME NEW i \in 1..k
         PROVE  /\ at[i] <= Len(x)
                /\ w[i] \in Reserved => /\ at[i] = at[i - 1] + 2
                                        /\ x[at[i - 1] + 1] = ESC
                                        /\ x[at[i - 1] + 2] = Escape(w[i])
                /\ w[i] \notin Reserved => /\ at[i] = at[i - 1] + 1
                                           /\ x[at[i - 1] + 1] = w[i]
    <3>1. CASE i = k
      <4>1. w[k] \in Reserved => 1 \in 1..Len(t) /\ 2 \in 1..Len(t)
        BY <2>10
      <4>2. w[k] \notin Reserved => 1 \in 1..Len(t)
        BY <2>10
      <4>3. w[k] \in Reserved => x[Len(e) + 1] = ESC /\ x[Len(e) + 2] = Escape(w[k])
        BY <2>9, <2>10, <4>1
      <4>4. w[k] \notin Reserved => x[Len(e) + 1] = w[k]
        BY <2>9, <2>10, <4>2
      <4>5. Len(e) \in Nat /\ Len(x) \in Nat
        OBVIOUS
      <4>6. at[i] <= Len(x) /\ at[i] = at[i - 1] + Len(t)
        BY <2>6, <2>7, <3>1, <4>5
      <4> QED
        BY <2>6, <2>10, <3>1, <4>3, <4>4, <4>6
    <3>2. CASE i < k
      <4>1. i \in 1..(k - 1) /\ i \in 0..n /\ i - 1 \in 0..n
        BY <3>2
      <4>2. at[i] \in Nat /\ at[i - 1] \in Nat
        BY <1>5, <4>1
      <4>3. /\ at[i] <= Len(e)
            /\ w[i] \in Reserved => /\ at[i] = at[i - 1] + 2
                                    /\ e[at[i - 1] + 1] = ESC
                                    /\ e[at[i - 1] + 2] = Escape(w[i])
            /\ w[i] \notin Reserved => /\ at[i] = at[i - 1] + 1
                                       /\ e[at[i - 1] + 1] = w[i]
        BY <2>1, <2>3, <4>1 DEF Holds
      <4>4. PICK a \in Nat, l \in Nat : a = at[i - 1] /\ l = Len(e)
        BY <4>2
      <4>5. a + 1 \in 1..l /\ (w[i] \in Reserved => a + 2 \in 1..l)
        <5>1. w[i] \in Reserved => a + 2 <= l
          BY <4>3, <4>4
        <5>2. w[i] \notin Reserved => a + 1 <= l
          BY <4>3, <4>4
        <5> QED
          BY <5>1, <5>2
      <4>6. at[i] <= Len(x)
        <5>1. Len(e) <= Len(x) /\ Len(e) \in Nat /\ Len(x) \in Nat
          BY <2>7
        <5> QED
          BY <4>2, <4>3, <5>1
      <4>7. x[a + 1] = e[a + 1] /\ (w[i] \in Reserved => x[a + 2] = e[a + 2])
        BY <2>8, <4>4, <4>5
      <4> QED
        BY <4>3, <4>4, <4>6, <4>7
    <3> QED
      BY <3>1, <3>2
  <2>12. Holds(x, w, at, k)
    BY <2>6, <2>11 DEF Holds
  <2> QED
    BY <2>2, <2>6, <2>12
<1>8. \A k \in 0..n : k \in T
  <2> HIDE DEF T
  <2> QED
    BY <1>6, <1>7, UpTo
<1> QED
  BY <1>1, <1>2, <1>3, <1>8

\* A frame as ash_send stuffs it: masked, with its CRC.
Whole(f) == Mask(f) \o CrcBytes(Mask(f))

\* e is w, stuffed, and a flag; the bytes for w[i + 1] begin behind at[i].
Layout(e, w, at, n) ==
    /\ e \in Seq(Byte) /\ at \in [0..n -> Nat] /\ at[0] = 0
    /\ Len(e) = at[n] + 1 /\ e[at[n] + 1] = FLAG
    /\ \A i \in 0..(n - 1) :
        /\ w[i + 1] \in Reserved => /\ at[i + 1] = at[i] + 2
                                    /\ e[at[i] + 1] = ESC
                                    /\ e[at[i] + 2] = Escape(w[i + 1])
        /\ w[i + 1] \notin Reserved => /\ at[i + 1] = at[i] + 1
                                       /\ e[at[i] + 1] = w[i + 1]

LEMMA WholeType ==
    ASSUME NEW f \in Frames
    PROVE  /\ Whole(f) \in Seq(Byte) /\ Len(Whole(f)) = Len(f) + 2 /\ Len(f) + 2 <= RxSize
           /\ SubSeq(Whole(f), 1, Len(f)) = Mask(f)
           /\ SubSeq(Whole(f), Len(f) + 1, Len(f) + 2) = CrcBytes(Mask(f))
           /\ Mask(Mask(f)) = f /\ Len(f) \in Nat /\ Len(f) >= 1
<1>1. f \in Seq(Byte) /\ Len(f) \in 1..140 /\ Len(f) + 2 <= RxSize
  BY FramingAssumption DEF Byte
<1>2. Mask(f) \in Seq(Byte) /\ Len(Mask(f)) = Len(f) /\ Mask(Mask(f)) = f
  BY <1>1, MaskTwice
<1>3. CrcBytes(Mask(f)) \in Seq(Byte) /\ Len(CrcBytes(Mask(f))) = 2
  BY <1>2, CrcBytesType
<1>4. PICK m \in Seq(Byte) : m = Mask(f)
  BY <1>2
<1>5. PICK c \in Seq(Byte) : c = CrcBytes(Mask(f))
  BY <1>3
<1>6. Whole(f) = m \o c
  BY <1>4, <1>5 DEF Whole
<1>7. m \o c \in Seq(Byte) /\ Len(m \o c) = Len(m) + Len(c) /\ Len(c) = 2 /\ Len(m) = Len(f)
  BY <1>2, <1>3, <1>4, <1>5
<1>8. SubSeq(m \o c, 1, Len(m)) = m
  OBVIOUS
<1>9. SubSeq(m \o c, Len(m) + 1, Len(m) + 2) = c
  BY <1>7
<1>10. Len(f) \in Nat /\ Len(f) >= 1
  <2>1. \A k \in 1..140 : k \in Nat /\ k >= 1
    OBVIOUS
  <2> QED
    BY <1>1, <2>1
<1>11. Whole(f) \in Seq(Byte) /\ Len(Whole(f)) = Len(f) + 2
  BY <1>6, <1>7
<1>12. SubSeq(Whole(f), 1, Len(f)) = Mask(f)
  BY <1>4, <1>6, <1>7, <1>8
<1>13. SubSeq(Whole(f), Len(f) + 1, Len(f) + 2) = CrcBytes(Mask(f))
  BY <1>5, <1>6, <1>7, <1>9
<1> QED
  BY <1>1, <1>2, <1>10, <1>11, <1>12, <1>13

LEMMA EncodingIs ==
    ASSUME NEW f \in Frames
    PROVE  Layout(Encoding[f], Whole(f), At(Whole(f)), Len(Whole(f)))
<1>1. PICK w \in Seq(Byte) : w = Whole(f)
  BY WholeType
<1>2. PICK n \in Nat : n = Len(w)
  OBVIOUS
<1>3. PICK at : at = At(w)
  OBVIOUS
<1>4. /\ Buf(w)[0] = <<>> /\ \A i \in 0..n : Buf(w)[i] \in Seq(Byte)
  BY <1>2, BufIs
<1>5. at \in [0..n -> Nat] /\ at[0] = 0
  BY <1>2, <1>3, <1>4 DEF At
<1>6. PICK o \in Seq(Byte) : o = Buf(w)[n]
  BY <1>4
<1>7. Holds(o, w, at, n)
  BY <1>2, <1>3, <1>6, Laid
<1>8. Encoding[f] = o \o <<FLAG>>
  <2>1. Encoding[f] = Encode(Mask(f))
    BY DEF Encoding
  <2>2. Encode(Mask(f)) = Buf(w)[n] \o <<FLAG>>
    BY <1>1, <1>2 DEF Encode, Buf, BufGoes, Add, Whole
  <2> QED
    BY <1>6, <2>1, <2>2
<1>9. PICK e : e = Encoding[f]
  OBVIOUS
<1>10. FLAG \in Byte
  BY DEF FLAG, Byte
<1>11. /\ e \in Seq(Byte) /\ Len(e) = Len(o) + 1 /\ e[Len(o) + 1] = FLAG
       /\ \A i \in 1..Len(o) : e[i] = o[i]
  BY <1>8, <1>9, <1>10
<1>12. Len(e) = at[n] + 1 /\ e[at[n] + 1] = FLAG
  BY <1>7, <1>11 DEF Holds
<1>13. ASSUME NEW i \in 0..(n - 1)
       PROVE  /\ w[i + 1] \in Reserved => /\ at[i + 1] = at[i] + 2
                                          /\ e[at[i] + 1] = ESC
                                          /\ e[at[i] + 2] = Escape(w[i + 1])
              /\ w[i + 1] \notin Reserved => /\ at[i + 1] = at[i] + 1
                                             /\ e[at[i] + 1] = w[i + 1]
  <2>1. i + 1 \in 1..n /\ i \in 0..n /\ i + 1 \in 0..n /\ (i + 1) - 1 = i
    OBVIOUS
  <2>2. at[i] \in Nat /\ at[i + 1] \in Nat
    BY <1>5, <2>1
  <2>3. /\ at[i + 1] <= Len(o)
        /\ w[i + 1] \in Reserved => /\ at[i + 1] = at[i] + 2
                                    /\ o[at[i] + 1] = ESC
                                    /\ o[at[i] + 2] = Escape(w[i + 1])
        /\ w[i + 1] \notin Reserved => /\ at[i + 1] = at[i] + 1
                                       /\ o[at[i] + 1] = w[i + 1]
    <3>1. PICK k \in 1..n : k = i + 1 /\ k - 1 = i
      BY <2>1
    <3>2. /\ at[k] <= Len(o)
          /\ w[k] \in Reserved => /\ at[k] = at[k - 1] + 2
                                  /\ o[at[k - 1] + 1] = ESC
                                  /\ o[at[k - 1] + 2] = Escape(w[k])
          /\ w[k] \notin Reserved => /\ at[k] = at[k - 1] + 1
                                     /\ o[at[k - 1] + 1] = w[k]
      BY <1>7 DEF Holds
    <3> QED
      BY <3>1, <3>2
  <2>4. /\ at[i] + 1 \in 1..Len(o)
        /\ w[i + 1] \in Reserved => at[i] + 2 \in 1..Len(o)
    BY <2>2, <2>3
  <2> QED
    BY <1>11, <2>3, <2>4
<1>14. Layout(e, w, at, n)
  BY <1>5, <1>11, <1>12, <1>13 DEF Layout
<1> QED
  BY <1>1, <1>2, <1>3, <1>9, <1>14

-----------------------------------------------------------------------------
(***************************************************************************)
(* The invariant                                                           *)
(***************************************************************************)
Cell == [b: Byte, due: Frames \cup {Nothing}]

TypeOK ==
    /\ wire \in Seq(Cell) /\ rx \in Seq(Byte) /\ Len(rx) <= RxSize
    /\ esc \in BOOLEAN /\ dirty \in BOOLEAN

\* The receiver is ready for a frame once it has taken the first k bytes: it
\* is ready now or one of them is a flag or a CANCEL, and flow control follows.
Settled(k) ==
    \E j \in 0..k :
        /\ j = 0 => rx = <<>> /\ ~esc
        /\ j # 0 => wire[j].b \in {FLAG, CANCEL}
        /\ \A i \in 1..k : i > j => wire[i].b \in {XON, XOFF}

\* The frame f, whose flag is at p, is still to come as a whole.
Ahead(f, p) ==
    \E s \in 0..Len(wire) :
        /\ p = s + Len(Encoding[f]) /\ Settled(s)
        /\ \A i \in 1..Len(Encoding[f]) : wire[s + i].b = Encoding[f][i]

\* The receiver has taken c bytes of f, which are the first i of Whole(f),
\* and perhaps the ESC in front of the next one.
Taken(f, c, i) ==
    /\ rx = SubSeq(Whole(f), 1, i)
    /\ ~esc => c = At(Whole(f))[i]
    /\ esc => /\ i < Len(Whole(f)) /\ Whole(f)[i + 1] \in Reserved
              /\ c = At(Whole(f))[i] + 1

\* It is in the middle of f, whose flag is at p.
Midway(f, p) ==
    \E c \in Nat, i \in 0..Len(Whole(f)) :
        /\ p + c = Len(Encoding[f]) /\ Taken(f, c, i)
        /\ \A k \in 1..p : wire[k].b = Encoding[f][c + k]

\* Every frame that is due to arrive does.
Owed ==
    \A p \in 1..Len(wire) : \A f \in Frames :
        wire[p].due = f => wire[p].b = FLAG /\ (Ahead(f, p) \/ Midway(f, p))

\* A frame sent now would arrive.
Clean == ~dirty => Settled(Len(wire))

FInv == TypeOK /\ Clean /\ Owed

LEMMA FramingInit == Init => FInv
<1> SUFFICES ASSUME Init PROVE FInv
  OBVIOUS
<1>1. wire = <<>> /\ rx = <<>> /\ esc = FALSE /\ dirty = FALSE /\ Len(wire) = 0
  BY DEF Init
<1>2. TypeOK
  <2>1. <<>> \in Seq(Cell) /\ <<>> \in Seq(Byte) /\ Len(<<>>) = 0 /\ 0 <= RxSize
    BY FramingAssumption
  <2> QED
    BY <1>1, <2>1 DEF TypeOK
<1>3. Clean
  BY <1>1 DEF Clean, Settled
<1>4. Owed
  BY <1>1 DEF Owed
<1> QED
  BY <1>2, <1>3, <1>4 DEF FInv

-----------------------------------------------------------------------------
(***************************************************************************)
(* One byte is taken                                                       *)
(***************************************************************************)
Feed == FeedFlow \/ FeedCancel \/ FeedSub \/ FeedEsc \/ FeedFlag \/ FeedByte

\* What the wire looks like afterwards.
LEMMA Taking ==
    ASSUME TypeOK, Feed
    PROVE  /\ Len(wire) \in Nat /\ Len(wire) >= 1 /\ Len(wire') = Len(wire) - 1
           /\ \A i \in 1..Len(wire') : wire'[i] = wire[i + 1]
           /\ wire' \in Seq(Cell) /\ wire[1] \in Cell /\ dirty' = dirty
<1>1. wire # <<>> /\ wire' = Tail(wire) /\ dirty' = dirty
  BY DEF Feed, FeedFlow, FeedCancel, FeedSub, FeedEsc, FeedFlag, FeedByte, Arrives, Sender,
         FlagResets
<1>2. wire \in Seq(Cell)
  BY DEF TypeOK
<1> QED
  BY <1>1, <1>2

\* What the receiver does.
LEMMA Effect ==
    ASSUME TypeOK, Feed, NEW b, b = wire[1].b
    PROVE  /\ b \in {XON, XOFF} => rx' = rx /\ esc' = esc
           /\ b \in {FLAG, CANCEL} => rx' = <<>> /\ esc' = FALSE
           /\ b = SUB => rx' = <<>> /\ esc' = TRUE
           /\ b = ESC => rx' = rx /\ esc' = TRUE
           /\ b \notin Reserved =>
                /\ esc' = FALSE
                /\ Len(rx) < RxSize => rx' = Append(rx, IF esc THEN Escape(b) ELSE b)
                /\ ~(Len(rx) < RxSize) => rx' = <<>>
<1>1. Head(wire).b = b
  <2>1. wire # <<>> /\ wire \in Seq(Cell)
    BY DEF TypeOK, Feed, FeedFlow, FeedCancel, FeedSub, FeedEsc, FeedFlag, FeedByte, Arrives
  <2> QED
    BY <2>1
<1> USE <1>1 DEF Reserved, FLAG, CANCEL, XON, XOFF, SUB, ESC
<1>2. CASE FeedFlow
  BY <1>2 DEF FeedFlow, Arrives
<1>3. CASE FeedCancel
  BY <1>3 DEF FeedCancel, Arrives
<1>4. CASE FeedSub
  <2>1. b = SUB /\ rx' = <<>> /\ esc' = TRUE
    BY <1>4 DEF FeedSub, Arrives
  <2>2. b \notin {XON, XOFF} /\ b \notin {FLAG, CANCEL} /\ b # ESC /\ b \in Reserved
    BY <2>1
  <2> QED
    BY ONLY <2>1, <2>2
<1>5. CASE FeedEsc
  <2>1. b = ESC /\ rx' = rx /\ esc' = TRUE
    BY <1>5 DEF FeedEsc, Arrives
  <2>2. b \notin {XON, XOFF} /\ b \notin {FLAG, CANCEL} /\ b # SUB /\ b \in Reserved
    BY <2>1
  <2> QED
    BY ONLY <2>1, <2>2
<1>6. CASE FeedFlag
  BY <1>6 DEF FeedFlag, Arrives, FlagResets
<1>7. CASE FeedByte
  BY <1>7 DEF FeedByte, HasRoom
<1> QED
  BY <1>2, <1>3, <1>4, <1>5, <1>6, <1>7 DEF Feed

LEMMA FeedType ==
    ASSUME TypeOK, Feed
    PROVE  TypeOK'
<1>1. wire' \in Seq(Cell) /\ dirty' \in BOOLEAN /\ wire[1] \in Cell
  BY Taking DEF TypeOK
<1>2. PICK b \in Byte : b = wire[1].b
  BY <1>1 DEF Cell
<1>3. Escape(b) \in Byte
  BY EscapeType
<1>4. rx \in Seq(Byte) /\ Len(rx) <= RxSize /\ esc \in BOOLEAN /\ RxSize \in Nat
  BY FramingAssumption DEF TypeOK
<1>5. PICK c \in Byte : c = IF esc THEN Escape(b) ELSE b
  BY <1>3
<1>6. /\ Append(rx, c) \in Seq(Byte) /\ Len(Append(rx, c)) = Len(rx) + 1
      /\ <<>> \in Seq(Byte) /\ Len(<<>>) = 0
  BY <1>4
<1>7. Len(rx) \in Nat /\ (Len(rx) < RxSize => Len(Append(rx, c)) <= RxSize) /\ 0 <= RxSize
  BY <1>4, <1>6
<1>8. \/ b \in {XON, XOFF} \/ b \in {FLAG, CANCEL} \/ b = SUB \/ b = ESC \/ b \notin Reserved
  BY DEF Reserved
<1>10. esc' \in BOOLEAN
  BY <1>2, <1>4, <1>8, Effect
<1>11. CASE b \in {XON, XOFF} \/ b = ESC
  <2>1. rx' = rx
    BY <1>2, <1>11, Effect
  <2> QED
    BY <1>1, <1>4, <1>10, <2>1 DEF TypeOK
<1>12. CASE b \in {FLAG, CANCEL} \/ b = SUB \/ (b \notin Reserved /\ ~(Len(rx) < RxSize))
  <2>1. rx' = <<>>
    BY <1>2, <1>12, Effect
  <2> QED
    BY <1>1, <1>6, <1>7, <1>10, <2>1 DEF TypeOK
<1>13. CASE b \notin Reserved /\ Len(rx) < RxSize
  <2>1. rx' = Append(rx, IF esc THEN Escape(b) ELSE b)
    BY <1>2, <1>13, Effect
  <2>2. rx' = Append(rx, c)
    BY <1>5, <2>1
  <2> QED
    BY <1>1, <1>6, <1>7, <1>10, <1>13, <2>2 DEF TypeOK
<1> QED
  BY <1>8, <1>11, <1>12, <1>13

\* A byte closer to ready.
LEMMA SettledStep ==
    ASSUME TypeOK, Feed, NEW k \in 1..Len(wire), Settled(k)
    PROVE  Settled(k - 1)'
<1>1. /\ Len(wire) \in Nat /\ Len(wire') = Len(wire) - 1
      /\ \A i \in 1..Len(wire') : wire'[i] = wire[i + 1]
  BY Taking
<1>2. PICK j \in 0..k : /\ j = 0 => rx = <<>> /\ ~esc
                        /\ j # 0 => wire[j].b \in {FLAG, CANCEL}
                        /\ \A i \in 1..k : i > j => wire[i].b \in {XON, XOFF}
  BY DEF Settled
<1>3. \A i \in 1..(k - 1) : i + 1 \in 1..k /\ i \in 1..Len(wire')
  BY <1>1
<1>4. \A i \in 1..(k - 1) : i + 1 > j => wire'[i].b \in {XON, XOFF}
  BY <1>1, <1>2, <1>3
<1>5. CASE j = 0
  <2>1. wire[1].b \in {XON, XOFF}
    BY <1>2, <1>5
  <2>2. rx' = rx /\ esc' = esc
    BY <2>1, Effect
  <2>3. rx' = <<>> /\ ~esc'
    BY <1>2, <1>5, <2>2
  <2>4. \A i \in 1..(k - 1) : i > 0 => wire'[i].b \in {XON, XOFF}
    BY <1>4, <1>5
  <2>5. 0 \in 0..(k - 1) /\ ~(0 # 0)
    OBVIOUS
  <2> QED
    BY <2>3, <2>4, <2>5 DEF Settled
<1>6. CASE j = 1
  <2>1. wire[1].b \in {FLAG, CANCEL}
    BY <1>2, <1>6
  <2>2. rx' = <<>> /\ esc' = FALSE
    BY <2>1, Effect
  <2>3. \A i \in 1..(k - 1) : i > 0 => wire'[i].b \in {XON, XOFF}
    BY <1>4, <1>6
  <2>4. 0 \in 0..(k - 1) /\ ~(0 # 0)
    OBVIOUS
  <2> QED
    BY <2>2, <2>3, <2>4 DEF Settled
<1>7. CASE j > 1
  <2>1. j - 1 \in 0..(k - 1) /\ j - 1 \in 1..(k - 1) /\ j - 1 # 0
    BY <1>7
  <2>2. wire'[j - 1] = wire[j]
    BY <1>1, <1>3, <2>1
  <2>3. wire'[j - 1].b \in {FLAG, CANCEL}
    BY <1>2, <1>7, <2>2
  <2>4. \A i \in 1..(k - 1) : i > j - 1 => wire'[i].b \in {XON, XOFF}
    BY <1>4
  <2> QED
    BY <2>1, <2>3, <2>4 DEF Settled
<1> QED
  BY <1>5, <1>6, <1>7

\* The next byte of the frame under way is taken for what it is.
LEMMA MidwayStep ==
    ASSUME TypeOK, Feed, NEW f \in Frames, NEW p \in 2..Len(wire), Midway(f, p)
    PROVE  Midway(f, p - 1)'
<1>1. /\ Len(wire) \in Nat /\ Len(wire') = Len(wire) - 1
      /\ \A i \in 1..Len(wire') : wire'[i] = wire[i + 1]
  BY Taking
<1>2. PICK w \in Seq(Byte) : w = Whole(f)
  BY WholeType
<1>3. PICK n \in Nat : n = Len(w) /\ n <= RxSize
  BY <1>2, WholeType
<1>4. PICK at : at = At(w)
  OBVIOUS
<1>5. PICK e : e = Encoding[f]
  OBVIOUS
<1>6. Layout(e, w, at, n)
  BY <1>2, <1>3, <1>4, <1>5, EncodingIs
<1>7. e \in Seq(Byte) /\ at \in [0..n -> Nat] /\ Len(e) = at[n] + 1 /\ Len(e) \in Nat
  BY <1>6 DEF Layout
<1>8. PICK c \in Nat, i \in 0..n : /\ p + c = Len(e) /\ Taken(f, c, i)
                                   /\ \A k \in 1..p : wire[k].b = e[c + k]
  BY <1>2, <1>3, <1>5 DEF Midway
<1>9. /\ rx = SubSeq(w, 1, i)
      /\ ~esc => c = at[i]
      /\ esc => i < n /\ w[i + 1] \in Reserved /\ c = at[i] + 1
  BY <1>2, <1>3, <1>4, <1>8 DEF Taken
<1>10. i < n
  <2>1. c + 1 < at[n] + 1
    BY <1>7, <1>8
  <2>2. i = n => c # at[i]
    BY <1>7, <2>1
  <2> QED
    BY <1>9, <2>2
<1>11. PICK b : b = wire[1].b
  OBVIOUS
<1>12. b = e[c + 1]
  BY <1>8, <1>11
<1>13. c + 1 \in Nat /\ (p - 1) + (c + 1) = Len(e)
  BY <1>7, <1>8
<1>14. \A k \in 1..(p - 1) : wire'[k].b = e[(c + 1) + k]
  <2> TAKE k \in 1..(p - 1)
  <2>1. k + 1 \in 1..p /\ k \in 1..Len(wire') /\ c + (k + 1) = (c + 1) + k
    BY <1>1, <1>8
  <2> QED
    BY <1>1, <1>8, <2>1
<1>15. i \in 0..(n - 1) /\ i + 1 \in 0..n /\ i + 1 \in 1..n
  BY <1>10
<1>16. at[i] \in Nat /\ w[i + 1] \in Byte
  BY <1>3, <1>7, <1>15
<1>17. /\ w[i + 1] \in Reserved => /\ at[i + 1] = at[i] + 2
                                   /\ e[at[i] + 1] = ESC
                                   /\ e[at[i] + 2] = Escape(w[i + 1])
       /\ w[i + 1] \notin Reserved => /\ at[i + 1] = at[i] + 1
                                      /\ e[at[i] + 1] = w[i + 1]
  BY <1>6, <1>15 DEF Layout
<1>18. SUFFICES \E k \in 0..n : Taken(f, c + 1, k)'
  BY <1>2, <1>3, <1>5, <1>13, <1>14 DEF Midway
<1>19. Len(rx) = i /\ Len(rx) < RxSize /\ Append(rx, w[i + 1]) = SubSeq(w, 1, i + 1)
  <2>1. Len(SubSeq(w, 1, i)) = i
    BY <1>3, <1>15
  <2>2. Append(SubSeq(w, 1, i), w[i + 1]) = SubSeq(w, 1, i + 1)
    BY <1>3, <1>15
  <2> QED
    BY <1>3, <1>9, <1>10, <2>1, <2>2, FramingAssumption
<1>20. CASE ~esc /\ w[i + 1] \in Reserved
  <2>1. b = ESC /\ c = at[i]
    BY <1>9, <1>12, <1>17, <1>20
  <2>2. rx' = rx /\ esc' = TRUE
    BY <1>11, <2>1, Effect
  <2>3. Taken(f, c + 1, i)'
    BY <1>2, <1>3, <1>4, <1>9, <1>10, <1>20, <2>1, <2>2 DEF Taken
  <2> QED
    BY <2>3
<1>21. CASE ~esc /\ w[i + 1] \notin Reserved
  <2>1. b = w[i + 1] /\ c = at[i] /\ b \notin Reserved
    BY <1>9, <1>12, <1>17, <1>21
  <2>2. rx' = Append(rx, IF esc THEN Escape(b) ELSE b) /\ esc' = FALSE
    BY <1>11, <1>19, <2>1, Effect
  <2>3. rx' = SubSeq(w, 1, i + 1) /\ ~esc'
    BY <1>19, <1>21, <2>1, <2>2
  <2>4. c + 1 = at[i + 1]
    BY <1>17, <1>21, <2>1
  <2>5. Taken(f, c + 1, i + 1)'
    BY <1>2, <1>4, <2>3, <2>4 DEF Taken
  <2> QED
    BY <1>15, <2>5
<1>22. CASE esc
  <2>1. w[i + 1] \in Reserved /\ c = at[i] + 1 /\ c + 1 = at[i] + 2
    BY <1>9, <1>16, <1>22
  <2>2. b = Escape(w[i + 1])
    BY <1>12, <1>17, <2>1
  <2>3. b \notin Reserved /\ Escape(b) = w[i + 1]
    BY <1>16, <2>1, <2>2, Escaped, EscapeType
  <2>4. rx' = Append(rx, IF esc THEN Escape(b) ELSE b) /\ esc' = FALSE
    BY <1>11, <1>19, <2>3, Effect
  <2>5. rx' = SubSeq(w, 1, i + 1) /\ ~esc'
    BY <1>19, <1>22, <2>3, <2>4
  <2>6. c + 1 = at[i + 1]
    BY <1>17, <2>1
  <2>7. Taken(f, c + 1, i + 1)'
    BY <1>2, <1>4, <2>5, <2>6 DEF Taken
  <2> QED
    BY <1>15, <2>7
<1> QED
  BY <1>20, <1>21, <1>22

\* A frame begins where the receiver is ready.
LEMMA Begins ==
    ASSUME TypeOK, NEW f \in Frames, NEW p \in Nat, Settled(0), p = Len(Encoding[f]),
           \A i \in 1..Len(Encoding[f]) : wire[i].b = Encoding[f][i]
    PROVE  Midway(f, p)
<1>1. rx = <<>> /\ ~esc
  BY DEF Settled
<1>2. PICK w \in Seq(Byte) : w = Whole(f)
  BY WholeType
<1>3. At(w)[0] = 0
  BY <1>2, EncodingIs DEF Layout
<1>4. SubSeq(w, 1, 0) = <<>> /\ 0 \in 0..Len(w)
  OBVIOUS
<1>5. Taken(f, 0, 0)
  BY <1>1, <1>2, <1>3, <1>4 DEF Taken
<1>6. \A i \in 1..p : i \in 1..Len(Encoding[f]) /\ 0 + i = i
  OBVIOUS
<1>7. p + 0 = Len(Encoding[f]) /\ 0 \in Nat
  OBVIOUS
<1> QED
  BY <1>2, <1>4, <1>5, <1>6, <1>7 DEF Midway

LEMMA FeedOwed ==
    ASSUME FInv, Feed
    PROVE  Owed'
<1>0. TypeOK /\ Owed
  BY DEF FInv
<1>1. /\ Len(wire) \in Nat /\ Len(wire') = Len(wire) - 1
      /\ \A i \in 1..Len(wire') : wire'[i] = wire[i + 1]
  BY <1>0, Taking
<1> SUFFICES ASSUME NEW q \in 1..Len(wire'), NEW f \in Frames, wire'[q].due = f
             PROVE  wire'[q].b = FLAG /\ (Ahead(f, q)' \/ Midway(f, q)')
  BY DEF Owed
<1>2. PICK p \in 2..Len(wire) : p = q + 1 /\ p - 1 = q /\ wire'[q] = wire[p]
  BY <1>1
<1>3. p \in 1..Len(wire)
  OBVIOUS
<1>4. wire[p].b = FLAG /\ (Ahead(f, p) \/ Midway(f, p))
  BY <1>0, <1>2, <1>3 DEF Owed
<1> SUFFICES Ahead(f, q)' \/ Midway(f, q)'
  BY <1>2, <1>4
<1>5. ASSUME Midway(f, p) PROVE Midway(f, q)'
  BY <1>0, <1>2, <1>5, MidwayStep
<1>6. CASE Ahead(f, p)
  <2>1. PICK s \in 0..Len(wire) :
           /\ p = s + Len(Encoding[f]) /\ Settled(s)
           /\ \A i \in 1..Len(Encoding[f]) : wire[s + i].b = Encoding[f][i]
    BY <1>6 DEF Ahead
  <2>2. Len(Encoding[f]) \in Nat
    BY EncodingIs DEF Layout
  <2>3. CASE s = 0
    <3>1. p = Len(Encoding[f]) /\ p \in Nat
      BY <2>1, <2>2, <2>3
    <3>2. \A i \in 1..Len(Encoding[f]) : wire[i].b = Encoding[f][i]
      BY <2>1, <2>2, <2>3
    <3>3. Settled(0)
      BY <2>1, <2>3
    <3>4. Midway(f, p)
      BY <1>0, <3>1, <3>2, <3>3, Begins
    <3> QED
      BY <1>5, <3>4
  <2>4. CASE s # 0
    <3>1. s \in 1..Len(wire) /\ s - 1 \in 0..Len(wire') /\ q = (s - 1) + Len(Encoding[f])
      BY <1>1, <1>2, <2>1, <2>2, <2>4
    <3>2. Settled(s - 1)'
      BY <1>0, <2>1, <3>1, SettledStep
    <3>3. ASSUME NEW i \in 1..Len(Encoding[f])
          PROVE  wire'[(s - 1) + i].b = Encoding[f][i]
      <4>1. (s - 1) + i \in 1..Len(wire') /\ ((s - 1) + i) + 1 = s + i
        BY <1>1, <2>1, <2>2, <3>1
      <4> QED
        BY <1>1, <2>1, <4>1
    <3> QED
      BY <3>1, <3>2, <3>3 DEF Ahead
  <2> QED
    BY <2>3, <2>4
<1> QED
  BY <1>4, <1>5, <1>6

-----------------------------------------------------------------------------
(***************************************************************************)
(* Bytes are put on the wire                                               *)
(***************************************************************************)
\* The wire grows and the receiver does nothing.
Grows ==
    /\ wire' \in Seq(Cell) /\ Len(wire) \in Nat /\ Len(wire) <= Len(wire')
    /\ \A i \in 1..Len(wire) : wire'[i] = wire[i]
    /\ rx' = rx /\ esc' = esc

LEMMA SettledStays ==
    ASSUME Grows, NEW k \in 0..Len(wire), Settled(k)
    PROVE  Settled(k)'
<1>1. PICK j \in 0..k : /\ j = 0 => rx = <<>> /\ ~esc
                        /\ j # 0 => wire[j].b \in {FLAG, CANCEL}
                        /\ \A i \in 1..k : i > j => wire[i].b \in {XON, XOFF}
  BY DEF Settled
<1>2. \A i \in 1..k : i \in 1..Len(wire) /\ wire'[i] = wire[i]
  BY DEF Grows
<1>3. j # 0 => wire'[j] = wire[j]
  BY <1>2
<1> QED
  BY <1>1, <1>2, <1>3 DEF Settled, Grows

LEMMA AheadStays ==
    ASSUME Grows, NEW f \in Frames, NEW p \in 1..Len(wire), Ahead(f, p) \/ Midway(f, p)
    PROVE  Ahead(f, p)' \/ Midway(f, p)'
<1>1. Len(Encoding[f]) \in Nat /\ Len(wire) \in Nat /\ Len(wire) <= Len(wire')
      /\ wire' \in Seq(Cell) /\ Len(wire') \in Nat
  BY EncodingIs DEF Layout, Grows
<1>2. CASE Ahead(f, p)
  <2>1. PICK s \in 0..Len(wire) :
           /\ p = s + Len(Encoding[f]) /\ Settled(s)
           /\ \A i \in 1..Len(Encoding[f]) : wire[s + i].b = Encoding[f][i]
    BY <1>2 DEF Ahead
  <2>2. Settled(s)' /\ s \in 0..Len(wire')
    BY <1>1, <2>1, SettledStays
  <2>3. \A i \in 1..Len(Encoding[f]) : s + i \in 1..Len(wire)
    BY <1>1, <2>1
  <2>4. \A i \in 1..Len(Encoding[f]) : wire'[s + i].b = Encoding[f][i]
    BY <2>1, <2>3 DEF Grows
  <2> QED
    BY <2>1, <2>2, <2>4 DEF Ahead
<1>3. CASE Midway(f, p)
  <2>1. PICK c \in Nat, i \in 0..Len(Whole(f)) :
          /\ p + c = Len(Encoding[f]) /\ Taken(f, c, i)
          /\ \A k \in 1..p : wire[k].b = Encoding[f][c + k]
    BY <1>3 DEF Midway
  <2>2. \A k \in 1..p : wire'[k].b = Encoding[f][c + k]
    <3>1. \A k \in 1..p : k \in 1..Len(wire)
      BY <1>1
    <3> QED
      BY <2>1, <3>1 DEF Grows
  <2>3. Taken(f, c, i)'
    BY <2>1 DEF Taken, Grows
  <2> QED
    BY <2>1, <2>2, <2>3 DEF Midway
<1> QED
  BY <1>2, <1>3

LEMMA OwedStays ==
    ASSUME FInv, Grows, NEW p \in 1..Len(wire), NEW f \in Frames, wire'[p].due = f
    PROVE  wire'[p].b = FLAG /\ (Ahead(f, p)' \/ Midway(f, p)')
<1>1. wire'[p] = wire[p]
  BY DEF Grows
<1>2. wire[p].b = FLAG /\ (Ahead(f, p) \/ Midway(f, p))
  BY <1>1 DEF FInv, Owed
<1>3. Ahead(f, p)' \/ Midway(f, p)'
  BY <1>2, AheadStays
<1> QED
  BY <1>1, <1>2, <1>3

LEMMA NoiseKeeps ==
    ASSUME FInv, NEW byte \in Noise, SendNoise(byte)
    PROVE  FInv'
<1>1. TypeOK /\ (~dirty => Settled(Len(wire))) /\ Owed
  BY DEF FInv, Clean
<1>2. /\ wire' = Append(wire, Plain(byte)) /\ rx' = rx /\ esc' = esc
      /\ dirty' = IF byte \in {FLAG, CANCEL} THEN FALSE ELSE dirty \/ byte \notin {XON, XOFF}
  BY DEF SendNoise
<1>3. PICK c \in Cell : c = Plain(byte) /\ c.b = byte /\ c.due = Nothing
  <2>1. byte \in Byte
    BY FramingAssumption DEF Byte
  <2>2. Plain(byte) \in Cell
    BY <2>1 DEF Plain, Cell
  <2>3. Plain(byte).b = byte /\ Plain(byte).due = Nothing
    BY DEF Plain
  <2> QED
    BY <2>2, <2>3
<1>4. PICK n \in Nat : n = Len(wire)
  BY <1>1 DEF TypeOK
<1>5. /\ wire' \in Seq(Cell) /\ Len(wire') = n + 1 /\ wire'[n + 1] = c
      /\ \A i \in 1..n : wire'[i] = wire[i]
  BY <1>1, <1>2, <1>3, <1>4 DEF TypeOK
<1>6. Grows
  BY <1>2, <1>4, <1>5 DEF Grows
<1>7. dirty' \in BOOLEAN
  BY <1>1, <1>2 DEF TypeOK
<1>8. TypeOK'
  BY <1>1, <1>2, <1>5, <1>7 DEF TypeOK
<1>9. ASSUME ~dirty' PROVE Settled(n + 1)'
  <2>1. CASE byte \in {FLAG, CANCEL}
    <3>1. n + 1 \in 0..(n + 1) /\ n + 1 # 0 /\ \A i \in 1..(n + 1) : ~(i > n + 1)
      OBVIOUS
    <3>2. wire'[n + 1].b \in {FLAG, CANCEL}
      BY <1>3, <1>5, <2>1
    <3> QED
      BY <1>5, <3>1, <3>2 DEF Settled
  <2>2. CASE byte \notin {FLAG, CANCEL}
    <3>1. ~dirty /\ byte \in {XON, XOFF}
      BY <1>1, <1>2, <1>9, <2>2 DEF TypeOK
    <3>2. Settled(n)'
      BY <1>1, <1>4, <1>6, <3>1, SettledStays
    <3>3. PICK j \in 0..n : /\ j = 0 => rx' = <<>> /\ ~esc'
                            /\ j # 0 => wire'[j].b \in {FLAG, CANCEL}
                            /\ \A i \in 1..n : i > j => wire'[i].b \in {XON, XOFF}
      BY <3>2 DEF Settled
    <3>4. j \in 0..(n + 1) /\ \A i \in 1..(n + 1) : i \in 1..n \/ i = n + 1
      OBVIOUS
    <3>5. wire'[n + 1].b \in {XON, XOFF}
      BY <1>3, <1>5, <3>1
    <3>6. \A i \in 1..(n + 1) : i > j => wire'[i].b \in {XON, XOFF}
      BY <3>3, <3>4, <3>5
    <3> QED
      BY <1>5, <3>3, <3>4, <3>6 DEF Settled
  <2> QED
    BY <2>1, <2>2
<1>10. Clean'
  BY <1>5, <1>9 DEF Clean, Settled
<1>11. Owed'
  <2>1. ASSUME NEW p \in 1..Len(wire'), NEW f \in Frames, wire'[p].due = f
        PROVE  p \in 1..Len(wire)
    <3>1. f # Nothing
      BY WholeType DEF Nothing
    <3>2. p # n + 1
      BY <1>3, <1>5, <2>1, <3>1
    <3> QED
      BY <1>4, <1>5, <3>2
  <2>2. ASSUME NEW p \in 1..Len(wire'), NEW f \in Frames, wire'[p].due = f
        PROVE  wire'[p].b = FLAG /\ (Ahead(f, p)' \/ Midway(f, p)')
    BY <1>6, <2>1, <2>2, OwedStays
  <2> QED
    BY <2>2 DEF Owed
<1> QED
  BY <1>8, <1>10, <1>11 DEF FInv

LEMMA FrameKeeps ==
    ASSUME FInv, NEW f \in Frames, SendFrame(f)
    PROVE  FInv'
<1>1. TypeOK /\ (~dirty => Settled(Len(wire))) /\ Owed
  BY DEF FInv, Clean
<1>2. PICK e \in Seq(Byte) : e = Encoding[f]
  BY EncodingIs DEF Layout
<1>3. PICK m \in Nat : m = Len(e)
  OBVIOUS
<1>4. m >= 1 /\ e[m] = FLAG
  <2>1. PICK k \in Nat : m = k + 1 /\ e[k + 1] = FLAG
    BY <1>2, <1>3, EncodingIs DEF Layout
  <2> QED
    BY <2>1
<1>5. PICK n \in Nat : n = Len(wire)
  BY <1>1 DEF TypeOK
<1> DEFINE add == [i \in 1..m |-> IF i = m /\ ~dirty THEN [b |-> FLAG, due |-> f]
                                  ELSE Plain(e[i])]
<1>6. wire' = wire \o add /\ rx' = rx /\ esc' = esc /\ dirty' = FALSE
  BY <1>2, <1>3 DEF SendFrame
<1>7. ASSUME NEW i \in 1..m
      PROVE  /\ add[i] \in Cell /\ add[i].b = e[i]
             /\ add[i].due = IF i = m /\ ~dirty THEN f ELSE Nothing
  <2>1. e[i] \in Byte
    BY <1>3
  <2>2. CASE i = m /\ ~dirty
    <3>1. add[i] = [b |-> FLAG, due |-> f] /\ e[i] = FLAG
      BY <1>4, <2>2
    <3> QED
      BY <2>1, <2>2, <3>1 DEF Cell
  <2>3. CASE ~(i = m /\ ~dirty)
    <3>1. add[i] = [b |-> e[i], due |-> Nothing]
      BY <2>3 DEF Plain
    <3> QED
      BY <2>1, <2>3, <3>1 DEF Cell
  <2> QED
    BY <2>2, <2>3
<1>8. add \in Seq(Cell) /\ Len(add) = m
  <2>1. add \in [1..m -> Cell]
    BY <1>7
  <2> HIDE DEF add
  <2> QED
    BY <2>1
<1> HIDE DEF add
<1>9. /\ wire' \in Seq(Cell) /\ Len(wire') = n + m
      /\ \A i \in 1..n : wire'[i] = wire[i]
      /\ \A i \in 1..m : wire'[n + i] = add[i]
  BY <1>1, <1>5, <1>6, <1>8 DEF TypeOK
<1>10. Grows
  BY <1>5, <1>6, <1>9 DEF Grows
<1>11. TypeOK'
  BY <1>1, <1>6, <1>9 DEF TypeOK
<1>12. m \in 1..m /\ n + m \in 1..(n + m) /\ n + m \in 0..(n + m) /\ n + m # 0
  BY <1>4
<1>13. Settled(n + m)'
  <2>1. wire'[n + m].b \in {FLAG, CANCEL}
    BY <1>4, <1>7, <1>9, <1>12
  <2>2. \A i \in 1..(n + m) : ~(i > n + m)
    OBVIOUS
  <2> QED
    BY <1>12, <2>1, <2>2 DEF Settled
<1>14. Clean'
  BY <1>9, <1>13 DEF Clean, Settled
<1>15. ASSUME ~dirty PROVE Ahead(f, n + m)'
  <2>1. Settled(n)'
    BY <1>1, <1>5, <1>10, <1>15, SettledStays
  <2>2. \A i \in 1..m : wire'[n + i].b = e[i]
    BY <1>7, <1>9
  <2>3. n \in 0..Len(wire')
    BY <1>9
  <2> QED
    BY <1>2, <1>3, <2>1, <2>2, <2>3 DEF Ahead
<1>16. ASSUME NEW p \in 1..Len(wire'), NEW g \in Frames, wire'[p].due = g
       PROVE  wire'[p].b = FLAG /\ (Ahead(g, p)' \/ Midway(g, p)')
  <2>1. CASE p \in 1..n
    BY <1>5, <1>10, <1>16, <2>1, OwedStays
  <2>2. CASE p \notin 1..n
    <3>1. PICK i \in 1..m : p = n + i
      <4>1. p - n \in 1..m /\ p = n + (p - n)
        BY <1>9, <2>2
      <4> QED
        BY <4>1
    <3>2. wire'[p] = add[i]
      BY <1>9, <3>1
    <3>3. g # Nothing
      BY WholeType DEF Nothing
    <3>4. i = m /\ ~dirty /\ g = f
      BY <1>7, <1>16, <3>2, <3>3
    <3>5. wire'[p].b = FLAG /\ p = n + m
      BY <1>4, <1>7, <3>1, <3>2, <3>4
    <3> QED
      BY <1>15, <3>4, <3>5
  <2> QED
    BY <2>1, <2>2
<1>17. Owed'
  BY <1>16 DEF Owed
<1> QED
  BY <1>11, <1>14, <1>17 DEF FInv

LEMMA FeedKeeps ==
    ASSUME FInv, Feed
    PROVE  FInv'
<1>1. TypeOK /\ (~dirty => Settled(Len(wire)))
  BY DEF FInv, Clean
<1>2. PICK n \in Nat : n = Len(wire)
  BY <1>1 DEF TypeOK
<1>3. n \in 1..Len(wire) /\ Len(wire') = n - 1 /\ dirty' = dirty
  BY <1>1, <1>2, Taking
<1>4. ~dirty' => Settled(n - 1)'
  BY <1>1, <1>2, <1>3, SettledStep
<1>5. Clean'
  BY <1>3, <1>4 DEF Clean, Settled
<1> QED
  BY <1>1, <1>5, FeedType, FeedOwed DEF FInv

LEMMA FramingNext == FInv /\ [Next]_vars => FInv'
<1> SUFFICES ASSUME FInv, [Next]_vars PROVE FInv'
  OBVIOUS
<1>1. CASE \E f \in Frames : SendFrame(f)
  BY <1>1, FrameKeeps
<1>2. CASE \E byte \in Noise : SendNoise(byte)
  BY <1>2, NoiseKeeps
<1>3. CASE Feed
  BY <1>3, FeedKeeps
<1>4. CASE UNCHANGED vars
  <2>1. wire' = wire /\ rx' = rx /\ esc' = esc /\ dirty' = dirty
    BY <1>4 DEF vars
  <2>2. TypeOK'
    BY <2>1 DEF FInv, TypeOK
  <2>3. Grows
    BY <2>1 DEF FInv, TypeOK, Grows
  <2>4. Clean'
    BY <2>1 DEF FInv, Clean, Settled
  <2>5. \A p \in 1..Len(wire) : \A f \in Frames :
            wire'[p].due = f => wire'[p].b = FLAG /\ (Ahead(f, p)' \/ Midway(f, p)')
    BY <2>3, OwedStays
  <2>6. Owed'
    BY <2>1, <2>5 DEF Owed
  <2> QED
    BY <2>2, <2>4, <2>6 DEF FInv
<1> QED
  BY <1>1, <1>2, <1>3, <1>4 DEF Next, Feed

-----------------------------------------------------------------------------
(***************************************************************************)
(* The theorems                                                            *)
(***************************************************************************)
\* rx[] of bridge_feed never overflows, whatever bytes arrive: the byte that
\* finds it full empties it.
THEOREM NoOverflow == Spec => []RxBounded
<1>1. FInv => RxBounded
  BY DEF FInv, TypeOK, RxBounded
<1> QED
  BY <1>1, FramingInit, FramingNext, PTL DEF Spec

\* At the flag of a frame that is due, rx[] holds all of it.
LEMMA Arrived ==
    ASSUME FInv
    PROVE  CleanFramesArrive
<1> SUFFICES ASSUME wire # <<>>, Head(wire).due # Nothing
             PROVE  Complete /\ ~esc /\ Mask(Received) = Head(wire).due
  BY DEF CleanFramesArrive
<1>1. TypeOK /\ Owed
  BY DEF FInv
<1>2. 1 \in 1..Len(wire) /\ Head(wire) = wire[1] /\ wire[1] \in Cell
  BY <1>1 DEF TypeOK
<1>3. PICK f \in Frames : f = wire[1].due
  BY <1>2 DEF Cell
<1>4. wire[1].b = FLAG /\ (Ahead(f, 1) \/ Midway(f, 1))
  BY <1>1, <1>2, <1>3 DEF Owed
<1>5. PICK w \in Seq(Byte) : w = Whole(f)
  BY WholeType
<1>6. PICK n \in Nat : n = Len(w)
  OBVIOUS
<1>7. PICK at : at = At(w)
  OBVIOUS
<1>8. PICK e : e = Encoding[f]
  OBVIOUS
<1>9. Layout(e, w, at, n)
  BY <1>5, <1>6, <1>7, <1>8, EncodingIs
<1>10. e \in Seq(Byte) /\ at \in [0..n -> Nat] /\ Len(e) = at[n] + 1 /\ Len(e) \in Nat
  BY <1>9 DEF Layout
<1>11. Midway(f, 1)
  <2> SUFFICES ASSUME Ahead(f, 1) PROVE Midway(f, 1)
    BY <1>4
  <2>1. PICK s \in 0..Len(wire) :
           /\ 1 = s + Len(e) /\ Settled(s)
           /\ \A i \in 1..Len(e) : wire[s + i].b = e[i]
    BY <1>8 DEF Ahead
  <2>2. Len(e) >= 1
    BY <1>10
  <2>3. s = 0
    BY <1>10, <2>1, <2>2
  <2>4. Settled(0) /\ 1 = Len(e) /\ \A i \in 1..Len(e) : wire[i].b = e[i]
    BY <1>10, <2>1, <2>3
  <2> QED
    BY <1>1, <1>8, <2>4, Begins
<1>12. PICK c \in Nat, i \in 0..n : /\ 1 + c = Len(e) /\ Taken(f, c, i)
                                    /\ \A k \in 1..1 : wire[k].b = e[c + k]
  BY <1>5, <1>6, <1>8, <1>11 DEF Midway
<1>13. /\ rx = SubSeq(w, 1, i)
       /\ ~esc => c = at[i]
       /\ esc => i < n /\ w[i + 1] \in Reserved /\ c = at[i] + 1
  BY <1>5, <1>6, <1>7, <1>12 DEF Taken
<1>14. e[c + 1] = FLAG /\ FLAG \in Reserved /\ FLAG # ESC
  BY <1>4, <1>12 DEF FLAG, Reserved, ESC
<1>15. i = n
  <2> SUFFICES ASSUME i < n PROVE FALSE
    OBVIOUS
  <2>1. i \in 0..(n - 1) /\ i + 1 \in 1..n /\ at[i] \in Nat /\ w[i + 1] \in Byte
    BY <1>6, <1>10
  <2>2. /\ w[i + 1] \in Reserved => /\ e[at[i] + 1] = ESC
                                    /\ e[at[i] + 2] = Escape(w[i + 1])
        /\ w[i + 1] \notin Reserved => e[at[i] + 1] = w[i + 1]
    BY <1>9, <2>1 DEF Layout
  <2>3. CASE ~esc
    BY <1>13, <1>14, <2>2, <2>3
  <2>4. CASE esc
    <3>1. e[at[i] + 2] = FLAG
      BY <1>13, <1>14, <2>1, <2>4
    <3> QED
      BY <1>13, <1>14, <2>2, <2>4, <3>1, Escaped
  <2> QED
    BY <2>3, <2>4
<1>16. ~esc
  BY <1>13, <1>15
<1>17. rx = w
  BY <1>6, <1>13, <1>15
<1>18. PICK k \in Nat : k = Len(f) /\ n = k + 2 /\ k >= 1
  BY <1>5, <1>6, WholeType
<1>19. Len(rx) = k + 2 /\ Len(rx) - 2 = k /\ Len(rx) - 1 = k + 1 /\ Len(rx) >= 3
  BY <1>6, <1>17, <1>18
<1>20. Received = Mask(f)
  <2>1. Received = SubSeq(w, 1, k)
    BY <1>17, <1>19 DEF Received
  <2> QED
    BY <1>5, <1>18, <2>1, WholeType
<1>21. SubSeq(rx, Len(rx) - 1, Len(rx)) = CrcBytes(Mask(f))
  <2>1. SubSeq(rx, Len(rx) - 1, Len(rx)) = SubSeq(w, k + 1, k + 2)
    BY <1>17, <1>19
  <2> QED
    BY <1>5, <1>18, <2>1, WholeType
<1>22. Complete
  BY <1>19, <1>20, <1>21 DEF Complete
<1>23. Mask(Received) = f
  BY <1>20, WholeType
<1> QED
  BY <1>2, <1>3, <1>16, <1>22, <1>23

\* Every frame ash_send puts on a clean line comes out of bridge_feed as it
\* was: its bytes, whatever they are, are unstuffed to exactly what was
\* stuffed, the CRC matches, and unmasking gives the frame's body back.
THEOREM Intact == Spec => []CleanFramesArrive
<1>1. FInv => CleanFramesArrive
  BY Arrived
<1> QED
  BY <1>1, FramingInit, FramingNext, PTL DEF Spec
=============================================================================
